---------------------------- MODULE TimerManager ----------------------------
(***************************************************************************)
(* Cpl::System: the software timers of one event loop.                     *)
(*                                                                         *)
(* Running timers are kept in a list ordered by expiration; the count of   *)
(* each is relative to the one before it, so that a tick decrements the    *)
(* first only.  Everything runs in the event loop's thread: timers are     *)
(* started and stopped by its handlers (pc = "app") and by the callbacks   *)
(* of expired timers (pc = "callback"), in the middle of the walk over the *)
(* list.  Time passes at any point.                                        *)
(***************************************************************************)
EXTENDS Integers, Sequences, SequencesExt, FiniteSetsExt

CONSTANTS Timers,
          Durations,    \* what timers are started with
          Off,          \* no timer
          Wrap,         \* the clock counts milliseconds modulo Wrap (2^32)
          MaxLag,       \* processTimers() runs at least this often
          MaxCallback,  \* bound on the calls made by one callback or handler
          StartEarly    \* may a timer be started before the first
                        \* processTimers(), in an event-flag handler?

ASSUME TimerAssumption ==
    /\ Durations \subseteq Nat
    /\ Wrap \in Nat \ {0}
    /\ MaxLag \in Nat /\ MaxLag < Wrap
    /\ MaxCallback \in Nat
    /\ Off \notin Timers /\ Off \notin Int
    /\ \A d \in Durations : d + MaxLag < Wrap
    /\ StartEarly \in BOOLEAN

VARIABLES
    tm,          \* the manager's lists: counters, pendingAttach and the
                 \* count of each timer
    now,         \* ElapsedTime::milliseconds()
    timeMark,    \* m_timeMark
    timeNow,     \* m_timeNow
    msec,        \* what tick() has left to consume
    pc,          \* where the thread is
    ringing,     \* the timer whose expired() is running
    calls,       \* calls made by the current handler or callback
    armed,       \* history: timers started, and not stopped or expired since
    left,        \* history: time until each armed timer is due
    due          \* history: timers due when processTimers() began

vars == <<tm, now, timeMark, timeNow, msec, pc, ringing, calls, armed, left, due>>

-----------------------------------------------------------------------------
Delta(from, to) == (to - from) % Wrap        \* deltaMilliseconds()

Active(m) == ToSet(m.counters)
Overdue == -MaxLag - 1          \* later than any timer goes off
InTickCall == pc = "callback"    \* m_inTickCall, when a call is made

\* The ticks until the i-th timer of the list expires.
CountTo(m, i) ==
    LET sum[j \in 0..Len(m.counters)] ==
          IF j = 0 THEN 0 ELSE sum[j - 1] + m.count[m.counters[j]]
    IN  sum[i]

\* Faulty: the new timer does not shorten the one that follows it.
AddToActiveListOnly(m, t) ==
    LET later == {i \in 1..Len(m.counters) : m.count[t] <= CountTo(m, i)}
        at == IF later = {} THEN Len(m.counters) + 1 ELSE Min(later)
        before == m.count[t] < (IF later = {} THEN 0 ELSE CountTo(m, at))
    IN  [m EXCEPT
          !.counters = InsertAt(@, IF later = {} \/ before THEN at ELSE at + 1, t),
          !.count = [@ EXCEPT ![t] = IF later # {} /\ ~before THEN 0
                                     ELSE @ - CountTo(m, at - 1)]]

\* addToActiveList(): before the first timer that expires later, or right
\* after the first that expires at the same time.
AddToActiveList(m, t) ==
    LET c == m.count[t]
        later == {i \in 1..Len(m.counters) : c <= CountTo(m, i)}
        i == Min(later)
        next == m.counters[i]
    IN  CASE later = {} ->
               [m EXCEPT !.counters = Append(@, t),
                         !.count[t] = c - CountTo(m, Len(m.counters))]
          [] later # {} /\ c < CountTo(m, i) ->
               [m EXCEPT !.counters = InsertAt(@, i, t),
                         !.count[t] = c - CountTo(m, i - 1),
                         !.count[next] = CountTo(m, i) - c]
          [] OTHER ->
               [m EXCEPT !.counters = InsertAt(@, i + 1, t),
                         !.count[t] = 0]

\* Faulty: the time left is not passed on to the next timer.
DetachForgetting(m, t) ==
    [m EXCEPT !.counters = RemoveFirst(@, t), !.pendingAttach = RemoveFirst(@, t)]

\* detach()
Detach(m, t) ==
    LET i == Min({j \in 1..Len(m.counters) : m.counters[j] = t})
    IN  CASE t \in ToSet(m.pendingAttach) ->
               [m EXCEPT !.pendingAttach = RemoveFirst(@, t)]
          [] t \notin ToSet(m.pendingAttach) /\ t \notin Active(m) -> m
          [] OTHER ->
               [m EXCEPT !.counters = RemoveFirst(@, t),
                         !.count = [u \in Timers |->
                             IF i < Len(m.counters) /\ u = m.counters[i + 1]
                             THEN @[u] + @[t] ELSE @[u]]]

\* attach()
Attach(m, t) ==
    IF InTickCall THEN [m EXCEPT !.pendingAttach = Append(@, t)]
    ELSE AddToActiveList(m, t)

\* Faulty: the time since the last tick is not added.
MsecToCountsOnly(d) == d

\* msecToCounts()
MsecToCounts(d) == d + Delta(timeNow, now)

-----------------------------------------------------------------------------
Init ==
    /\ tm = [counters |-> <<>>, pendingAttach |-> <<>>,
             count |-> [t \in Timers |-> 0]]
    /\ now \in 0..Wrap - 1
    /\ timeMark = now                \* startManager()
    /\ timeNow = 0
    /\ msec = 0
    /\ pc = IF StartEarly THEN "app" ELSE "start"
    /\ ringing = Off
    /\ calls = 0
    /\ armed = {}
    /\ left = [t \in Timers |-> 0]
    /\ due = {}

\* Time passes, in a handler, a callback or the wait of the event loop.
TimePasses ==
    /\ Delta(timeMark, now) < MaxLag
    /\ now' = (now + 1) % Wrap
    /\ left' = [t \in Timers |-> IF t \in armed THEN Max({left[t] - 1, Overdue})
                                 ELSE left[t]]
    /\ UNCHANGED <<tm, timeMark, timeNow, msec, pc, ringing, calls, armed, due>>

\* Code of the application runs: it may start and stop timers.
AppCall ==
    /\ pc \in {"app", "callback"}
    /\ calls < MaxCallback
    /\ calls' = calls + 1
    /\ UNCHANGED <<now, timeMark, timeNow, msec, pc, ringing>>

\* Timer::start()
Start(t, d) ==
    /\ AppCall
    /\ tm' = Attach([Detach(tm, t) EXCEPT !.count[t] = MsecToCounts(d)], t)
    /\ armed' = armed \cup {t}
    /\ left' = [left EXCEPT ![t] = d]
    /\ due' = due \ {t}

\* Timer::stop()
Stop(t) ==
    /\ AppCall
    /\ tm' = Detach(tm, t)
    /\ armed' = armed \ {t}
    /\ left' = [left EXCEPT ![t] = 0]
    /\ due' = due \ {t}

\* processTimers(), up to the call of tick()
ProcessTimers ==
    /\ pc \in {"start", "app"}
    /\ timeNow' = now
    /\ msec' = Delta(timeMark, now)
    /\ pc' = "tick"
    /\ calls' = 0
    /\ due' = {t \in armed : left[t] <= 0 /\ msec' > 0}
    /\ UNCHANGED <<tm, now, timeMark, ringing, armed, left>>

\* tick(): the first timer of the list is decremented, ...
Tick ==
    /\ pc = "tick" /\ msec > 0 /\ tm.counters # <<>>
    /\ LET first == Head(tm.counters)
           n == Min({msec, tm.count[first]})
       IN  /\ tm' = [tm EXCEPT !.count[first] = @ - n]
           /\ msec' = msec - n
    /\ pc' = "expire"
    /\ UNCHANGED <<now, timeMark, timeNow, ringing, calls, armed, left, due>>

\* ... and all that have reached zero are removed and expired, one by one.
Expire(t) ==
    /\ pc = "expire"
    /\ tm.counters # <<>> /\ t = Head(tm.counters) /\ tm.count[t] = 0
    /\ tm' = [tm EXCEPT !.counters = Tail(@)]
    /\ pc' = "callback" /\ ringing' = t /\ calls' = 0
    /\ armed' = armed \ {t}
    /\ left' = [left EXCEPT ![t] = 0]
    /\ due' = due \ {t}
    /\ UNCHANGED <<now, timeMark, timeNow, msec>>

CallbackReturns ==
    /\ pc = "callback"
    /\ pc' = "expire" /\ ringing' = Off
    /\ UNCHANGED <<tm, now, timeMark, timeNow, msec, calls, armed, left, due>>

NoneExpired ==
    /\ pc = "expire"
    /\ ~(tm.counters # <<>> /\ tm.count[Head(tm.counters)] = 0)
    /\ pc' = "tick"
    /\ UNCHANGED <<tm, now, timeMark, timeNow, msec, ringing, calls, armed, left, due>>

\* The end of tick() and of processTimers(), ...
TickReturns ==
    /\ pc = "tick" /\ (msec = 0 \/ tm.counters = <<>>)
    /\ timeMark' = timeNow
    /\ msec' = 0
    /\ pc' = "complete"
    /\ UNCHANGED <<tm, now, timeNow, ringing, calls, armed, left, due>>

\* Faulty: a timer started by a callback is dropped.
DropPending ==
    /\ pc = "complete" /\ tm.pendingAttach # <<>>
    /\ tm' = [tm EXCEPT !.pendingAttach = Tail(@)]
    /\ UNCHANGED <<now, timeMark, timeNow, msec, pc, ringing, calls, armed, left, due>>

\* ... and tickComplete(): timers started by the callbacks join the list.
AttachPending ==
    /\ pc = "complete" /\ tm.pendingAttach # <<>>
    /\ tm' = AddToActiveList([tm EXCEPT !.pendingAttach = Tail(@)],
                             Head(tm.pendingAttach))
    /\ UNCHANGED <<now, timeMark, timeNow, msec, pc, ringing, calls, armed, left, due>>

TickComplete ==
    /\ pc = "complete" /\ tm.pendingAttach = <<>>
    /\ pc' = "app" /\ calls' = 0
    /\ UNCHANGED <<tm, now, timeMark, timeNow, msec, ringing, armed, left, due>>

ManagerStep ==
    \/ ProcessTimers \/ Tick \/ NoneExpired \/ CallbackReturns
    \/ TickReturns \/ AttachPending \/ TickComplete
    \/ \E t \in Timers : Expire(t)

Next ==
    \/ \E t \in Timers, d \in Durations : Start(t, d)
    \/ \E t \in Timers : Stop(t)
    \/ ManagerStep
    \/ TimePasses

\* Time goes on, handlers and callbacks return, and the event loop keeps
\* calling processTimers(); nobody has to start or stop a timer.
Spec == Init /\ [][Next]_vars /\ WF_vars(TimePasses) /\ WF_vars(ManagerStep)

-----------------------------------------------------------------------------
TypeOK ==
    /\ tm \in [counters : Seq(Timers), pendingAttach : Seq(Timers),
               count : [Timers -> Nat]]
    /\ now \in 0..Wrap - 1 /\ timeMark \in 0..Wrap - 1 /\ timeNow \in 0..Wrap - 1
    /\ msec \in 0..MaxLag
    /\ pc \in {"start", "app", "tick", "expire", "callback", "complete"}
    /\ ringing \in Timers \cup {Off}
    /\ calls \in 0..MaxCallback
    /\ armed \subseteq Timers
    /\ left \in [Timers -> Int]
    /\ due \subseteq Timers

\* The relative counts add up: whatever was started, stopped and expired
\* in between, the list counts down to each timer's own deadline, and a
\* running timer is in one list, once (addToActiveList(), detach(), tick()).
\* As the list is in the order of its counts, timers expire in the order of
\* their deadlines.
CountsAddUp ==
    /\ TypeOK
    /\ \A i \in 1..Len(tm.counters) :
         CountTo(tm, i) = left[tm.counters[i]] + msec + Delta(timeNow, now)
    /\ \A t \in ToSet(tm.pendingAttach) :
         tm.count[t] = left[t] + Delta(timeNow, now)
    /\ IsInjective(tm.counters \o tm.pendingAttach)
    /\ armed = Active(tm) \cup ToSet(tm.pendingAttach)

\* processTimers() expires every timer that was due when it was called,
\* unless a callback stops or restarts it first.
NoneMissed == pc \in {"start", "app"} => due = {}

\* The timers are alarms: none goes off early, twice, or after a stop.
Alarm == INSTANCE Alarms WITH
    left <- [t \in Timers |-> IF t \in armed THEN left[t] ELSE Off]
AlarmSpec == Alarm!Spec

\* No timer stays overdue for ever: one whose time has passed goes off,
\* or is stopped or restarted by a callback (processTimers()).
GoesOff == \A t \in Timers : []<>~(t \in armed /\ left[t] < 0)
=============================================================================
