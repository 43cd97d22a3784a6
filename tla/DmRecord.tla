------------------------------ MODULE DmRecord ------------------------------
(***************************************************************************)
(* Cpl::Dm::Persistent::Record: records whose contents are the values of   *)
(* model points, in the thread of their record server.                     *)
(*                                                                         *)
(* Every record is a timer of that thread's event loop (TimerManager), its *)
(* "settling time": a change is written when the record's points have not  *)
(* changed for Delay, or when the first change is MaxDelay old.  Other     *)
(* threads change the points at any time, a write may fail, and power may  *)
(* fail.  All that is kept of the data is whether the storage holds the    *)
(* points' values.  Power fails before or after a write, which is what     *)
(* MirroredChunk shows of the chunk below; notifications are those of      *)
(* ModelPoint; expired() starts no timer, so processTimers() is one step   *)
(* here.                                                                   *)
(***************************************************************************)
EXTENDS Integers, Sequences, FiniteSets, FiniteSetsExt

CONSTANTS Records,
          Delay, MaxDelay,   \* m_delayMs, m_maxDelayMs
          Ops,               \* requests made: "flush", "erase", "stop", "fail"
          MaxRequests,       \* bound on the number of these requests
          Off, Wrap, MaxLag    \* of TimerManager

ASSUME RecordAssumption ==
    /\ Delay \in Nat /\ MaxDelay \in Nat
    /\ Wrap \in Nat /\ MaxLag \in Nat \ {0} /\ MaxDelay + Delay + MaxLag < Wrap
    /\ Off \notin Records /\ Off \notin Int
    /\ Ops \subseteq {"flush", "erase", "stop", "fail"}
    /\ MaxRequests \in Nat

VARIABLES
    tm, now, timeNow,  \* as in TimerManager
    pending,     \* records with a change notification under way
    stored,      \* the chunk holds the "current" values, "old" ones or "none"
    phase,       \* of each record: "off", "starting", "on"
    mute,        \* records without subscribers: no valid data, not reset
    marker,      \* m_timerMarker
    requests,    \* number of requests so far
    lost,        \* history: records whose storage is not up to date, and whose
                 \* code will not try to write it before the next change
    waiting,     \* history: records notified of a change no write was tried for
    waited,      \* history: for how long
    misread      \* history: waiting records whose running timer had count 0 when
                 \* another change came

timerVars == <<tm, now, timeNow>>
waitVars == <<waiting, waited, misread>>
writeVars == <<stored, lost, waitVars>>
vars == <<timerVars, pending, phase, mute, marker, requests, writeVars>>

T == INSTANCE TimerManager WITH
    Timers <- Records, Durations <- {Delay}, StartEarly <- FALSE,
    MaxCallback <- 0, timeMark <- timeNow, msec <- 0, pc <- "app",
    ringing <- Off, calls <- 0, armed <- {}, left <- <<>>, due <- {}

Running == T!Active(tm)

WaitCap == MaxDelay + Delay + MaxLag + 1
Busy == \E r \in Records : phase[r] = "starting"

-----------------------------------------------------------------------------
NoTimers == [counters |-> <<>>, pendingAttach |-> <<>>,
             count |-> [r \in Records |-> 0]]

Init ==
    /\ tm = NoTimers /\ now = 0 /\ timeNow = 0
    /\ pending = {} /\ mute = {}
    /\ stored = [r \in Records |-> "none"]
    /\ phase = [r \in Records |-> "off"]
    /\ marker = [r \in Records |-> 0]
    /\ requests = 0
    /\ lost = {} /\ waiting = {} /\ misread = {}
    /\ waited = [r \in Records |-> 0]

\* A change of the records R is no longer waited for.
EndWait(R) ==
    /\ waiting' = waiting \ R
    /\ waited' = [r \in Records |-> IF r \in R THEN 0 ELSE waited[r]]
    /\ misread' = misread \ R

\* updateNVRAM(), for all of a set of records.  The result of updateData() is
\* dropped: where the write is refused or fails, the storage keeps what it has
\* or is left without a valid copy, and nothing tries again, except the timers
\* in running.
UpdateNVRAM(R, running) ==
    /\ \E written \in SUBSET R : \E damaged \in SUBSET (R \ written) :
         /\ stored' = [r \in Records |-> IF r \in written THEN "current"
                                        ELSE IF r \in damaged THEN "none"
                                        ELSE stored[r]]
         /\ lost' = (lost \ written) \cup ((R \ written) \ running)
    /\ EndWait(R)

Request(op) ==
    /\ op \in Ops
    /\ requests < MaxRequests
    /\ requests' = requests + 1

\* Another thread changes a point.  Its subscriber will be called, if it is
\* attached by now.
Change(r) ==
    /\ phase[r] \in {"starting", "on"}
    /\ stored' = [stored EXCEPT ![r] = IF @ = "none" THEN "none" ELSE "old"]
    /\ \/ /\ phase[r] = "on" /\ r \notin mute
          /\ pending' = pending \cup {r}
          /\ lost' = lost \ {r}
       \/ /\ phase[r] = "starting" \/ r \in mute
          /\ lost' = lost \cup {r}
          /\ UNCHANGED pending
    /\ UNCHANGED <<timerVars, phase, mute, marker, requests, waitVars>>

\* start(): the data is loaded, or reset and written (updateNVRAM(), which may
\* fail), or resetData() wants no updates, ...
Start(r) ==
    /\ ~Busy /\ phase[r] = "off"
    /\ phase' = [phase EXCEPT ![r] = "starting"]
    /\ \/ /\ stored' = [stored EXCEPT ![r] = "current"]
          /\ lost' = lost \ {r}
          /\ UNCHANGED mute
       \/ /\ stored[r] = "none"
          /\ mute' \in {mute, mute \cup {r}}
          /\ lost' = lost \cup {r}
          /\ UNCHANGED stored
    /\ UNCHANGED <<timerVars, pending, marker, requests, waitVars>>

\* ... and the subscriber attached with the current sequence number.
Subscribe(r) ==
    /\ phase[r] = "starting"
    /\ phase' = [phase EXCEPT ![r] = "on"]
    /\ UNCHANGED <<timerVars, pending, mute, marker, requests, writeVars>>

\* stop(): the timer goes on.
Stop(r) ==
    /\ Request("stop") /\ ~Busy /\ phase[r] = "on"
    /\ phase' = [phase EXCEPT ![r] = "off"]
    /\ pending' = pending \ {r}
    /\ EndWait({r})
    /\ UNCHANGED <<timerVars, stored, lost, mute, marker>>

\* Faulty: the marker is moved on every change.
NewMarkerAlways(r) == now

\* Timer::count() = 0 is taken for "not running"
NewMarker(r) == IF tm.count[r] = 0 THEN now ELSE marker[r]

\* Is the write deferred?
Defers(r) == Delay > 0 /\ T!Delta(NewMarker(r), now) < MaxDelay

\* dataChanged()
DataChanged(r) ==
    /\ ~Busy /\ r \in pending
    /\ pending' = pending \ {r}
    /\ marker' = [marker EXCEPT ![r] = IF Delay > 0 THEN NewMarker(r) ELSE @]
    /\ UNCHANGED <<now, timeNow, phase, mute, requests>>

\* A change is waited for, from this one on or from an earlier one.
Wait(r) ==
    /\ waiting' = waiting \cup {r}
    /\ misread' = IF r \in waiting /\ tm.count[r] = 0 THEN misread \cup {r} ELSE misread
    /\ lost' = lost \ {r}
    /\ UNCHANGED <<stored, waited>>

\* Faulty: the timer is not started for a change that is not the first.
DeferFirstOnly(r) ==
    /\ DataChanged(r) /\ Defers(r)
    /\ tm' = IF tm.count[r] # 0 THEN tm
             ELSE T!Attach([T!Detach(tm, r) EXCEPT
                              !.count[r] = T!MsecToCounts(Delay)], r)
    /\ Wait(r)

\* Timer::start()
ChangedDefer(r) ==
    /\ DataChanged(r) /\ Defers(r)
    /\ tm' = T!Attach([T!Detach(tm, r) EXCEPT !.count[r] = T!MsecToCounts(Delay)], r)
    /\ Wait(r)

\* Faulty: after the maximum delay the timer is stopped and nothing written.
ChangedStopOnly(r) ==
    /\ DataChanged(r) /\ ~Defers(r)
    /\ tm' = T!Detach(tm, r)
    /\ EndWait({r})
    /\ UNCHANGED <<stored, lost>>

\* No delay, or the maximum delay has expired: Timer::stop(), which leaves
\* the count, and the write.
ChangedWriteNow(r) ==
    /\ DataChanged(r) /\ ~Defers(r)
    /\ tm' = T!Detach(tm, r)
    /\ UpdateNVRAM({r}, Running \ {r})

\* request( FlushMsg& )
Flush(r) ==
    /\ Request("flush") /\ ~Busy /\ phase[r] = "on"
    /\ UpdateNVRAM({r}, Running)
    /\ UNCHANGED <<timerVars, pending, phase, mute, marker>>

\* request( EraseMsg& ), which may fail as well
Erase(r) ==
    /\ Request("erase") /\ ~Busy /\ phase[r] = "on"
    /\ \/ /\ stored' = [stored EXCEPT ![r] = "none"]
          /\ lost' = lost \cup ({r} \ Running)
       \/ UNCHANGED <<stored, lost>>
    /\ UNCHANGED <<timerVars, pending, phase, mute, marker, waitVars>>

\* processTimers(), with the expired() of the timers that are due
ProcessTimers ==
    LET lag == T!Delta(timeNow, now)
        n == Cardinality({i \in 1..Len(tm.counters) : T!CountTo(tm, i) <= lag})
        rest == SubSeq(tm.counters, n + 1, Len(tm.counters))
    IN  /\ ~Busy /\ lag > 0
        /\ timeNow' = now
        /\ tm' = [tm EXCEPT
                   !.counters = rest,
                   !.count = [r \in Records |->
                       IF \E i \in 1..n : tm.counters[i] = r THEN 0
                       ELSE IF rest # <<>> /\ r = Head(rest)
                            THEN @[r] - (lag - T!CountTo(tm, n)) ELSE @[r]]]
        /\ UpdateNVRAM({tm.counters[i] : i \in 1..n}, T!ToSet(rest))
        /\ UNCHANGED <<now, pending, phase, mute, marker, requests>>

TimePasses ==
    /\ T!Delta(timeNow, now) < MaxLag
    /\ now' = (now + 1) % Wrap
    /\ waited' = [r \in Records |->
                    IF r \in waiting THEN Min({waited[r] + 1, WaitCap}) ELSE 0]
    /\ UNCHANGED <<tm, timeNow, pending, stored, lost, phase, mute, marker,
                   requests, waiting, misread>>

\* Power fails: only the storage survives.
PowerFail ==
    /\ Request("fail")
    /\ tm' = NoTimers /\ now' = 0 /\ timeNow' = 0
    /\ pending' = {} /\ mute' = {}
    /\ phase' = [r \in Records |-> "off"]
    /\ marker' = [r \in Records |-> 0]
    /\ lost' = {} /\ EndWait(Records)
    /\ UNCHANGED stored

Notify(r) == ChangedDefer(r) \/ ChangedWriteNow(r)

Next ==
    \/ \E r \in Records :
         \/ Change(r) \/ Notify(r)
         \/ Start(r) \/ Subscribe(r) \/ Stop(r) \/ Flush(r) \/ Erase(r)
    \/ ProcessTimers \/ TimePasses \/ PowerFail

\* Time goes on, every turn of the loop handles one message, the timers and
\* the pending notifications, and start(), one at a time, returns.
Fairness ==
    /\ WF_vars(TimePasses) /\ SF_vars(ProcessTimers)
    /\ WF_vars(\E r \in Records : Subscribe(r))
    /\ \A r \in Records : SF_vars(Notify(r))

Spec == Init /\ [][Next]_vars /\ Fairness

-----------------------------------------------------------------------------
TypeOK ==
    /\ tm.counters \in Seq(Records) /\ tm.pendingAttach = <<>>
    /\ tm.count \in [Records -> Nat]
    /\ {now, timeNow} \subseteq 0..Wrap - 1
    /\ stored \in [Records -> {"current", "old", "none"}]
    /\ phase \in [Records -> {"off", "starting", "on"}]
    /\ requests \in 0..MaxRequests
    /\ pending \subseteq Records /\ mute \subseteq Records
    /\ lost \subseteq Records /\ waiting \subseteq Records
    /\ misread \subseteq Records
    /\ marker \in [Records -> 0..Wrap - 1]
    /\ waited \in [Records -> 0..WaitCap]

\* No change is forgotten: as long as the storage does not hold the current
\* values of a record in use, a notification is under way or the record's timer
\* runs, unless the last write (or the record's erase) failed to leave them
\* there and no change was notified since, or the only changes came while
\* start() was running (dataChanged(), expired(), start()).
NotForgotten ==
    TypeOK /\ \A r \in Records :
        phase[r] = "on" /\ r \notin mute /\ stored[r] # "current"
            => r \in pending \/ r \in Running \/ r \in lost

\* The storage catches up with the points, again and again, however often they
\* change, or a write of them is tried and fails, or the points go on changing
\* and the record's timer is taken for stopped when they do (dataChanged(),
\* expired(), updateNVRAM()).
Saved ==
    \A r \in Records :
        []<>(\/ phase[r] # "on" \/ r \in mute
             \/ stored[r] = "current" \/ r \in lost
             \/ r \in pending /\ r \in misread)

\* The longest a change may wait for its write
LongestWait == MaxDelay + Delay + MaxLag - 1

\* However often the points change, a change waits at most MaxDelay and one
\* settling time, unless the record's timer ran with a count of 0 when another
\* change came, as it does behind a timer that ends at the same time
\* (dataChanged()).
WaitBound == \A r \in Records : waited[r] <= LongestWait \/ r \in misread
=============================================================================
