----------------------------- MODULE ModelPoint -----------------------------
(***************************************************************************)
(* Cpl::Dm: model points, their subscribers, and the event loops that run  *)
(* the change-notification callbacks.                                      *)
(*                                                                         *)
(* Any thread may write a model point; the model database's mutex makes    *)
(* each operation atomic, except that the event loops take subscribers off *)
(* their pending list under another lock, so they may run while a writer   *)
(* is still handing out notifications (notifying).  A subscriber belongs   *)
(* to one event loop, and it is attached, notified and detached only in    *)
(* that loop's thread (Cpl/Dm/NotificationApi_.h).                         *)
(*                                                                         *)
(* A change is identified by the model point's version, a history          *)
(* variable; the code itself sees only the sequence number, which counts   *)
(* the same changes but rolls over.                                        *)
(***************************************************************************)
EXTENDS Naturals, Sequences, SequencesExt

CONSTANTS Points, Subs, Loops,
          LoopOf,            \* the event loop of each subscriber
          Null,              \* the null pointer
          Values, Zero,      \* data, and the data of an invalidated point
          LockRequests,      \* the lock requests of setLockState()
          WriteRequests,     \* the lock requests made with a write
          CopyPairs,         \* <<src, dst>> of the copies that callers make
          SeqMax,            \* the largest sequence number (65535)
          MaxLag,            \* bound on the changes that a callback, or a gap
                             \* between read and attach, can fall behind
          MaxChanges,        \* bound on the changes of a model point
          MaxOps,            \* bound on the attach and detach calls of a loop
          SwitchInCallback   \* may a callback move its subscriber to another
                             \* model point (detach, then attach)?

ASSUME PointAssumption ==
    /\ LoopOf \in [Subs -> Loops]
    /\ Null \notin Points \cup Subs
    /\ Zero \in Values
    /\ LockRequests \subseteq {"lock", "unlock"}
    /\ WriteRequests \subseteq {"none", "lock", "unlock"}
    /\ CopyPairs \subseteq Points \X Points
    /\ SwitchInCallback \in BOOLEAN
ASSUME CountAssumption ==
    /\ SeqMax \in Nat \ {0}
    /\ MaxLag \in Nat
    /\ MaxChanges \in Nat
    /\ MaxOps \in Nat

Unknown == 0    \* SEQUENCE_NUMBER_UNKNOWN

VARIABLES
    value, valid, locked, seqNum,   \* of each model point
    version,       \* history: how often each model point changed, from 1
    subscribers,   \* m_subscribers: the idle subscribers of each model point
    notifying,     \* the model point whose writer holds the database lock
    copying,       \* <<src, dst, lockRequest, was src valid?>> inside
                   \* copyDataAndStateFrom()
    state, point, subSeq,           \* of each subscriber
    seen,          \* history: the version each subscriber was last told of
    pending,       \* m_pendingMpNotifications of each event loop
    signaled,      \* the loop's semaphore has been signaled
    pc, skip,      \* where each event loop is, and its skipWait
    cur, curPoint, \* locals of processChangeNotifications()
    sync,          \* locals of readAndSync(): <<sub, point, seqNum, version>>
    ops,           \* attach and detach calls made so far in each loop
    fatal          \* FatalError: the application has stopped

dataVars == <<value, valid, locked>>
seqVars  == <<seqNum, version>>
subVars  == <<state, subSeq, seen>>
listVars == <<subscribers, pending, signaled>>
loopVars == <<pc, skip, cur, curPoint>>
vars == <<dataVars, seqVars, notifying, copying, subVars, point, listVars,
          loopVars, sync, ops, fatal>>

States == {"UNSUBSCRIBED", "IDLE", "NOTIFY_PENDING", "NOTIFY_NOTIFYING",
           "NOTIFY_PENDING_DETACH"}
LoopPc == {"top", "wait", "events", "dispatch", "notify", "callback"}
Syncs == Subs \X Points \X Nat \X Nat

TypeOK ==
    /\ value \in [Points -> Values]
    /\ valid \in [Points -> BOOLEAN]
    /\ locked \in [Points -> BOOLEAN]
    /\ seqNum \in [Points -> 1..SeqMax]
    /\ version \in [Points -> Nat]
    /\ subscribers \in [Points -> Seq(Subs)]
    /\ notifying \in Points \cup {Null}
    /\ copying \in {<<>>} \cup (Points \X Points \X WriteRequests \X BOOLEAN)
    /\ state \in [Subs -> States]
    /\ point \in [Subs -> Points \cup {Null}]
    /\ subSeq \in [Subs -> 0..SeqMax]
    /\ seen \in [Subs -> Nat]
    /\ pending \in [Loops -> Seq(Subs)]
    /\ signaled \in [Loops -> BOOLEAN]
    /\ pc \in [Loops -> LoopPc]
    /\ skip \in [Loops -> BOOLEAN]
    /\ cur \in [Loops -> Subs \cup {Null}]
    /\ curPoint \in [Loops -> Points \cup {Null}]
    /\ sync \in [Loops -> {<<>>} \cup Syncs]
    /\ ops \in [Loops -> Nat]
    /\ fatal \in BOOLEAN

\* The sequence number may stand anywhere when the subscribers come along
Init ==
    /\ value = [p \in Points |-> Zero]
    /\ valid \in [Points -> BOOLEAN]
    /\ locked = [p \in Points |-> FALSE]
    /\ seqNum \in [Points -> 1..SeqMax]
    /\ version = [p \in Points |-> 1]
    /\ subscribers = [p \in Points |-> <<>>]
    /\ notifying = Null
    /\ copying = <<>>
    /\ state = [s \in Subs |-> "UNSUBSCRIBED"]
    /\ point = [s \in Subs |-> Null]
    /\ subSeq = [s \in Subs |-> Unknown]
    /\ seen = [s \in Subs |-> 0]
    /\ pending = [l \in Loops |-> <<>>]
    /\ signaled = [l \in Loops |-> FALSE]
    /\ pc = [l \in Loops |-> "top"]
    /\ skip = [l \in Loops |-> FALSE]
    /\ cur = [l \in Loops |-> Null]
    /\ curPoint = [l \in Loops |-> Null]
    /\ sync = [l \in Loops |-> <<>>]
    /\ ops = [l \in Loops |-> 0]
    /\ fatal = FALSE

-----------------------------------------------------------------------------
(***************************************************************************)
(* Writers.                                                                *)
(***************************************************************************)
DbFree == notifying = Null /\ ~fatal

\* The changes of p that the subscribers comparing sequence numbers later on
\* have not seen, after one more
NoLap(p) ==
    /\ \A s \in Subs :
         state[s] = "NOTIFY_NOTIFYING" /\ point[s] = p /\ seen[s] # 0
             => version[p] + 1 - seen[s] <= MaxLag
    /\ \A l \in Loops :
         sync[l] # <<>> /\ sync[l][2] = p
             => version[p] + 1 - sync[l][4] <= MaxLag

\* Faulty: the number rolls over to the unknown one
NextSeqUnchecked(n) == IF n = SeqMax THEN Unknown ELSE n + 1

\* advanceSequenceNumber()
NextSeq(n) == IF n = SeqMax THEN Unknown + 1 ELSE n + 1

\* processChangeNotifications() up to handing out the notifications
ProcessChangeNotifications(p) ==
    /\ version[p] <= MaxChanges /\ NoLap(p)
    /\ seqNum' = [seqNum EXCEPT ![p] = NextSeq(@)]
    /\ version' = [version EXCEPT ![p] = @ + 1]
    /\ notifying' = p

\* testAndUpdateLock()
MayUpdate(p, req) == req # "none" \/ ~locked[p]
UpdateLock(p, req) ==
    locked' = [locked EXCEPT ![p] = (@ \/ req = "lock") /\ req # "unlock"]

\* writeData(), with the parts of the state that its callers may not keep
WriteTo(p, v, req) ==
    /\ UpdateLock(p, req)
    /\ \/ /\ MayUpdate(p, req)
          /\ ~valid[p] \/ value[p] # v
          /\ value' = [value EXCEPT ![p] = v]
          /\ valid' = [valid EXCEPT ![p] = TRUE]
          /\ ProcessChangeNotifications(p)
       \/ /\ ~MayUpdate(p, req) \/ (valid[p] /\ value[p] = v)
          /\ UNCHANGED <<value, valid, seqVars, notifying>>

InvalidateIt(p, req) ==
    /\ UpdateLock(p, req)
    /\ \/ /\ MayUpdate(p, req)
          /\ valid[p]
          /\ valid' = [valid EXCEPT ![p] = FALSE]
          /\ value' = [value EXCEPT ![p] = Zero]
          /\ ProcessChangeNotifications(p)
       \/ /\ ~MayUpdate(p, req) \/ ~valid[p]
          /\ UNCHANGED <<value, valid, seqVars, notifying>>

WriteData(p, v, req) ==
    /\ DbFree
    /\ WriteTo(p, v, req)
    /\ UNCHANGED <<copying, subVars, point, listVars, loopVars, sync, ops, fatal>>

SetInvalid(p, req) ==
    /\ DbFree
    /\ InvalidateIt(p, req)
    /\ UNCHANGED <<copying, subVars, point, listVars, loopVars, sync, ops, fatal>>

Touch(p) ==
    /\ DbFree
    /\ ProcessChangeNotifications(p)
    /\ UNCHANGED <<dataVars, copying, subVars, point, listVars, loopVars, sync,
                   ops, fatal>>

\* importData() of an exported value, valid state and (optionally) lock state
ImportData(p, v, ok, lock) ==
    /\ DbFree
    /\ value' = [value EXCEPT ![p] = v]
    /\ valid' = [valid EXCEPT ![p] = ok]
    /\ locked' = [locked EXCEPT ![p] = lock]
    /\ ProcessChangeNotifications(p)
    /\ UNCHANGED <<copying, subVars, point, listVars, loopVars, sync, ops, fatal>>

SetLockState(p, req) ==
    /\ DbFree
    /\ UpdateLock(p, req)
    /\ UNCHANGED <<value, valid, seqVars, notifying, copying, subVars, point,
                   listVars, loopVars, sync, ops, fatal>>

\* copyDataAndStateFrom(): the source's state is tested under a lock of its
\* own, and the destination invalidated or the copy made under the next one
CopyTest(src, dst, req) ==
    /\ DbFree
    /\ copying = <<>>
    /\ <<src, dst>> \in CopyPairs
    /\ copying' = <<src, dst, req, valid[src]>>
    /\ UNCHANGED <<dataVars, seqVars, notifying, subVars, point, listVars,
                   loopVars, sync, ops, fatal>>

CopyInvalid ==
    /\ DbFree
    /\ copying # <<>> /\ ~copying[4]
    /\ InvalidateIt(copying[2], "none")
    /\ copying' = <<>>
    /\ UNCHANGED <<subVars, point, listVars, loopVars, sync, ops, fatal>>

CopyData ==
    /\ DbFree
    /\ copying # <<>> /\ copying[4]
    /\ WriteTo(copying[2], value[copying[1]], copying[3])
    /\ copying' = <<>>
    /\ UNCHANGED <<subVars, point, listVars, loopVars, sync, ops, fatal>>

-----------------------------------------------------------------------------
(***************************************************************************)
(* processSubscriptionEvent_().                                            *)
(***************************************************************************)
\* DList::put() of an item that is in a list is a fatal error
InAList(s, lists, queues) == \/ \E p \in Points : s \in ToSet(lists[p])
                             \/ \E l \in Loops : s \in ToSet(queues[l])

\* Faulty: the loop is not woken up
NotifyPendingSilently(s, lists, queues) ==
    /\ subscribers' = lists
    /\ pending' = [queues EXCEPT ![LoopOf[s]] = Append(@, s)]
    /\ state' = [state EXCEPT ![s] = "NOTIFY_PENDING"]
    /\ fatal' = InAList(s, lists, queues)
    /\ UNCHANGED signaled

\* transitionToNotifyPending(), the lists being lists and queues
NotifyPending(s, lists, queues) ==
    /\ subscribers' = lists
    /\ pending' = [queues EXCEPT ![LoopOf[s]] = Append(@, s)]
    /\ signaled' = [signaled EXCEPT ![LoopOf[s]] = TRUE]
    /\ state' = [state EXCEPT ![s] = "NOTIFY_PENDING"]
    /\ fatal' = InAList(s, lists, queues)

\* Faulty: a change made during the callback is not looked for
SubscribedUnseen(p, s, seq, queues) ==
    LET lists == [subscribers EXCEPT ![p] = RemoveFirst(@, s)]
    IN  /\ subscribers' = [lists EXCEPT ![p] = Append(@, s)]
        /\ pending' = queues
        /\ state' = [state EXCEPT ![s] = "IDLE"]
        /\ fatal' = InAList(s, lists, queues)
        /\ UNCHANGED signaled

\* transitionToSubscribed() by model point p, the subscriber's sequence number
\* being seq
Subscribed(p, s, seq, queues) ==
    LET lists == [subscribers EXCEPT ![p] = RemoveFirst(@, s)]
    IN  \/ /\ seqNum[p] = seq
           /\ subscribers' = [lists EXCEPT ![p] = Append(@, s)]
           /\ pending' = queues
           /\ state' = [state EXCEPT ![s] = "IDLE"]
           /\ fatal' = InAList(s, lists, queues)
           /\ UNCHANGED signaled
        \/ seqNum[p] # seq /\ NotifyPending(s, lists, queues)

\* Faulty: the notification stays pending
UnpendNot(s) == pending

\* removePendingChangingNotification_()
Unpend(s) == [pending EXCEPT ![LoopOf[s]] = RemoveFirst(@, s)]

\* The writer's loop over m_subscribers, with event eDATA_CHANGED: fatal in
\* every state but IDLE
NotifyNext ==
    /\ notifying # Null
    /\ ~fatal
    /\ \/ /\ subscribers[notifying] = <<>>
          /\ notifying' = Null
          /\ UNCHANGED <<listVars, state, fatal>>
       \/ /\ subscribers[notifying] # <<>>
          /\ LET s == Head(subscribers[notifying])
                 lists == [subscribers EXCEPT ![notifying] = Tail(@)]
             IN  \/ state[s] = "IDLE" /\ NotifyPending(s, lists, pending)
                 \/ /\ state[s] # "IDLE"
                    /\ fatal' = TRUE
                    /\ subscribers' = lists
                    /\ UNCHANGED <<pending, signaled, state>>
          /\ UNCHANGED notifying
    /\ UNCHANGED <<dataVars, seqVars, copying, subSeq, seen, point, loopVars,
                   sync, ops>>

\* attachSubscriber()
AttachSubscriber(p, s, seq, ver) ==
    /\ subSeq' = [subSeq EXCEPT ![s] = seq]
    /\ seen' = [seen EXCEPT ![s] = ver]
    /\ point' = [point EXCEPT ![s] = p]
    /\ \/ state[s] \in {"UNSUBSCRIBED", "IDLE"} /\ Subscribed(p, s, seq, pending)
       \/ state[s] = "NOTIFY_PENDING" /\ Subscribed(p, s, seq, Unpend(s))
       \/ state[s] = "NOTIFY_NOTIFYING" /\ UNCHANGED <<listVars, state, fatal>>
       \/ /\ state[s] = "NOTIFY_PENDING_DETACH"
          /\ state' = [state EXCEPT ![s] = "NOTIFY_NOTIFYING"]
          /\ UNCHANGED <<listVars, fatal>>

\* detachSubscriber()
DetachSubscriber(p, s) ==
    /\ point' = [point EXCEPT ![s] = Null]
    /\ \/ /\ state[s] = "IDLE"
          /\ subscribers' = [subscribers EXCEPT ![p] = RemoveFirst(@, s)]
          /\ state' = [state EXCEPT ![s] = "UNSUBSCRIBED"]
          /\ UNCHANGED <<pending, signaled>>
       \/ /\ state[s] = "NOTIFY_PENDING"
          /\ pending' = Unpend(s)
          /\ state' = [state EXCEPT ![s] = "UNSUBSCRIBED"]
          /\ UNCHANGED <<subscribers, signaled>>
       \/ /\ state[s] = "NOTIFY_NOTIFYING"
          /\ state' = [state EXCEPT ![s] = "NOTIFY_PENDING_DETACH"]
          /\ UNCHANGED listVars
       \/ /\ state[s] \in {"UNSUBSCRIBED", "NOTIFY_PENDING_DETACH"}
          /\ UNCHANGED <<listVars, state>>

-----------------------------------------------------------------------------
(***************************************************************************)
(* What the application does in the thread of event loop l: in the         *)
(* handlers of events, timers and messages, and in the callbacks.          *)
(***************************************************************************)
AppRuns(l) ==
    /\ pc[l] \in {"events", "callback"}
    /\ sync[l] = <<>>
    /\ DbFree

InCallback(l, s) == pc[l] = "callback" /\ cur[l] = s

\* A subscriber is detached from one model point before it is attached to
\* another
MayAttach(l, s, p) ==
    /\ LoopOf[s] = l
    /\ point[s] \in {Null, p}
    /\ InCallback(l, s) /\ p # curPoint[l] => SwitchInCallback

CountOp(l) == ops[l] < MaxOps /\ ops' = [ops EXCEPT ![l] = @ + 1]

\* attach() with the sequence number left unknown
Attach(l, s, p) ==
    /\ AppRuns(l) /\ MayAttach(l, s, p) /\ CountOp(l)
    /\ AttachSubscriber(p, s, Unknown, 0)
    /\ UNCHANGED <<dataVars, seqVars, notifying, copying, loopVars, sync>>

Detach(l, s, p) ==
    /\ AppRuns(l) /\ LoopOf[s] = l /\ point[s] \in {Null, p} /\ CountOp(l)
    /\ DetachSubscriber(p, s)
    /\ UNCHANGED <<dataVars, seqVars, notifying, copying, subSeq, seen, loopVars,
                   sync, fatal>>

\* readAndSync(), isNotValidAndSync(), or attach() with getSequenceNumber():
\* the model point is read under one lock ...
SyncRead(l, s, p) ==
    /\ AppRuns(l) /\ MayAttach(l, s, p) /\ CountOp(l)
    /\ sync' = [sync EXCEPT ![l] = <<s, p, seqNum[p], version[p]>>]
    /\ UNCHANGED <<dataVars, seqVars, notifying, copying, subVars, point, listVars,
                   loopVars, fatal>>

\* ... and the subscriber attached under the next
SyncAttach(l) ==
    /\ sync[l] # <<>>
    /\ DbFree
    /\ AttachSubscriber(sync[l][2], sync[l][1], sync[l][3], sync[l][4])
    /\ sync' = [sync EXCEPT ![l] = <<>>]
    /\ UNCHANGED <<dataVars, seqVars, notifying, copying, loopVars, ops>>

-----------------------------------------------------------------------------
(***************************************************************************)
(* The event loop: appRun(), waitAndProcessEvents() and                    *)
(* processChangeNotifications() of Cpl::Dm::EventLoop.                     *)
(***************************************************************************)
GoTo(l, where) == pc' = [pc EXCEPT ![l] = where]

\* isPendingPendingChangingNotifications()
Top(l) ==
    /\ pc[l] = "top" /\ ~fatal
    /\ skip' = [skip EXCEPT ![l] = pending[l] # <<>>]
    /\ GoTo(l, "wait")
    /\ UNCHANGED <<dataVars, seqVars, notifying, copying, subVars, point, listVars,
                   cur, curPoint, sync, ops, fatal>>

Wait(l) ==
    /\ pc[l] = "wait" /\ ~fatal
    /\ \/ skip[l] /\ UNCHANGED signaled
       \/ /\ ~skip[l] /\ signaled[l]
          /\ signaled' = [signaled EXCEPT ![l] = FALSE]
    /\ GoTo(l, "events")
    /\ UNCHANGED <<dataVars, seqVars, notifying, copying, subVars, point,
                   subscribers, pending, skip, cur, curPoint, sync, ops, fatal>>

\* The wait times out, or is skipped because the last loop took long
Timeout(l) ==
    /\ pc[l] = "wait" /\ ~fatal
    /\ ~skip[l]
    /\ GoTo(l, "events")
    /\ UNCHANGED <<dataVars, seqVars, notifying, copying, subVars, point, listVars,
                   skip, cur, curPoint, sync, ops, fatal>>

EventsDone(l) ==
    /\ pc[l] = "events" /\ sync[l] = <<>> /\ ~fatal
    /\ GoTo(l, "dispatch")
    /\ UNCHANGED <<dataVars, seqVars, notifying, copying, subVars, point, listVars,
                   skip, cur, curPoint, sync, ops, fatal>>

\* At most one notification, taken off the list under the global lock
Dispatch(l) ==
    /\ pc[l] = "dispatch" /\ ~fatal
    /\ \/ /\ pending[l] = <<>>
          /\ GoTo(l, "top")
          /\ UNCHANGED <<pending, cur>>
       \/ /\ pending[l] # <<>>
          /\ cur' = [cur EXCEPT ![l] = Head(pending[l])]
          /\ pending' = [pending EXCEPT ![l] = Tail(@)]
          /\ GoTo(l, "notify")
    /\ UNCHANGED <<dataVars, seqVars, notifying, copying, subVars, point,
                   subscribers, signaled, skip, curPoint, sync, ops, fatal>>

\* getModelPoint_(), fatal when there is none, and event eNOTIFYING
Notify(l) ==
    LET s == cur[l]
        p == point[s]
    IN  /\ pc[l] = "notify" /\ DbFree
        /\ \/ /\ p = Null
              /\ fatal' = TRUE
              /\ UNCHANGED <<subVars, curPoint, pc>>
           \/ /\ p # Null
              /\ curPoint' = [curPoint EXCEPT ![l] = p]
              /\ \/ /\ state[s] = "NOTIFY_PENDING"
                    /\ subSeq' = [subSeq EXCEPT ![s] = seqNum[p]]
                    /\ seen' = [seen EXCEPT ![s] = version[p]]
                    /\ state' = [state EXCEPT ![s] = "NOTIFY_NOTIFYING"]
                 \/ state[s] # "NOTIFY_PENDING" /\ UNCHANGED subVars
              /\ GoTo(l, "callback")
              /\ UNCHANGED fatal
        /\ UNCHANGED <<dataVars, seqVars, notifying, copying, point, listVars,
                       skip, cur, sync, ops>>

\* The callback has returned: event eNOTIFY_COMPLETE, for the model point that
\* was read before the callback
NotifyComplete(l) ==
    LET s == cur[l]
    IN  /\ pc[l] = "callback" /\ sync[l] = <<>> /\ DbFree
        /\ \/ /\ state[s] = "NOTIFY_NOTIFYING"
              /\ Subscribed(curPoint[l], s, subSeq[s], pending)
           \/ /\ state[s] = "NOTIFY_PENDING_DETACH"
              /\ state' = [state EXCEPT ![s] = "UNSUBSCRIBED"]
              /\ UNCHANGED <<listVars, fatal>>
           \/ /\ state[s] \notin {"NOTIFY_NOTIFYING", "NOTIFY_PENDING_DETACH"}
              /\ UNCHANGED <<listVars, state, fatal>>
        /\ GoTo(l, "top")
        /\ cur' = [cur EXCEPT ![l] = Null]
        /\ curPoint' = [curPoint EXCEPT ![l] = Null]
        /\ UNCHANGED <<dataVars, seqVars, notifying, copying, subSeq, seen, point,
                       skip, sync, ops>>

-----------------------------------------------------------------------------
Writers ==
    \/ \E p \in Points, v \in Values, req \in WriteRequests : WriteData(p, v, req)
    \/ \E p \in Points, req \in WriteRequests : SetInvalid(p, req)
    \/ \E p \in Points : Touch(p)
    \/ \E p \in Points, v \in Values, ok \in BOOLEAN, lock \in BOOLEAN :
         /\ ok \/ v = Zero
         /\ lock # locked[p] => LockRequests # {}
         /\ ImportData(p, v, ok, lock)
    \/ \E p \in Points, req \in LockRequests : SetLockState(p, req)
    \/ \E src, dst \in Points, req \in WriteRequests : CopyTest(src, dst, req)
    \/ CopyInvalid \/ CopyData
    \/ NotifyNext

Application(l) ==
    \/ \E s \in Subs, p \in Points :
         Attach(l, s, p) \/ Detach(l, s, p) \/ SyncRead(l, s, p)
    \/ SyncAttach(l)

RunLoop(l) == \/ Top(l) \/ Wait(l) \/ EventsDone(l) \/ Dispatch(l)
              \/ Notify(l) \/ NotifyComplete(l)

Next == Writers \/ \E l \in Loops : Application(l) \/ RunLoop(l) \/ Timeout(l)

\* A thread that has something to do gets to run: handlers and callbacks
\* return, a writer finishes its notifications and releases the lock.  Nobody
\* has to write, attach or detach, and a wait need not time out.
Fairness ==
    /\ WF_vars(NotifyNext)
    /\ WF_vars(CopyInvalid \/ CopyData)
    /\ \A l \in Loops : WF_vars(SyncAttach(l)) /\ WF_vars(RunLoop(l))

Spec == Init /\ [][Next]_vars /\ Fairness

-----------------------------------------------------------------------------
(***************************************************************************)
(* Properties.                                                             *)
(***************************************************************************)

\* No legal use of the data model stops the application: no change is handed
\* to a subscriber that is not idle, nothing is put on a list twice, and a
\* subscriber on a pending list always has a model point.
NoFatal == ~fatal

\* A subscriber is where its state says, and nowhere else: on its own model
\* point's list when it is idle, on its own loop's list when a notification is
\* pending and the loop has not taken it yet.
Taken(s) == pc[LoopOf[s]] = "notify" /\ cur[LoopOf[s]] = s
OnItsList ==
    /\ \A s \in Subs, p \in Points :
         s \in ToSet(subscribers[p]) <=> state[s] = "IDLE" /\ point[s] = p
    /\ \A s \in Subs, l \in Loops :
         s \in ToSet(pending[l]) <=> /\ state[s] = "NOTIFY_PENDING"
                                     /\ l = LoopOf[s]
                                     /\ ~Taken(s)
    /\ \A p \in Points : IsInjective(subscribers[p])
    /\ \A l \in Loops : IsInjective(pending[l])

\* A subscriber that waits for the next change has been told of the last one,
\* or is about to be, by the writer that holds the lock.
IdleIsCurrent ==
    \A s \in Subs : state[s] = "IDLE" =>
        \/ seen[s] = version[point[s]]
        \/ notifying = point[s] /\ seen[s] + 1 = version[point[s]]

\* An event loop never goes to sleep over a pending notification: one that
\* was added after it looked has signaled it.
NoLostWakeup ==
    \A l \in Loops : pc[l] = "wait" /\ pending[l] # <<>> => skip[l] \/ signaled[l]

\* Once the model points have settled, every subscriber that is attached has
\* been told of its model point's current value (ModelPoint.h, the note on
\* attachSubscriber()).
Settles ==
    <>[](\A s \in Subs : point[s] # Null => seen[s] = version[point[s]])
=============================================================================
