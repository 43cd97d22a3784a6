------------------------------- MODULE Alarms -------------------------------
(***************************************************************************)
(* What software timers promise their users (Cpl::System::Timer): a        *)
(* started timer goes off at most once, never before its time has passed,  *)
(* and not at all after it was stopped.                                    *)
(***************************************************************************)
EXTENDS Integers

CONSTANTS Timers, Durations,
          Off             \* not running; no callback running

VARIABLES left,           \* the time until each timer is due, or Off
          ringing         \* the timer whose callback is running, or Off

vars == <<left, ringing>>

Running == {t \in Timers : left[t] # Off}

Init == left = [t \in Timers |-> Off] /\ ringing = Off

Start(t, d) == left' = [left EXCEPT ![t] = d] /\ UNCHANGED ringing

Stop(t) == left' = [left EXCEPT ![t] = Off] /\ UNCHANGED ringing

GoOff(t) ==
    /\ t \in Running
    /\ left[t] <= 0
    /\ left' = [left EXCEPT ![t] = Off]
    /\ ringing' = t

CallbackReturns == ringing # Off /\ ringing' = Off /\ UNCHANGED left

TimePasses ==
    /\ left' = [t \in Timers |-> IF t \in Running THEN left[t] - 1 ELSE Off]
    /\ UNCHANGED ringing

Next ==
    \/ \E t \in Timers, d \in Durations : Start(t, d)
    \/ \E t \in Timers : Stop(t) \/ GoOff(t)
    \/ CallbackReturns
    \/ TimePasses

Spec == Init /\ [][Next]_vars
=============================================================================
