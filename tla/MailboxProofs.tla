---------------------------- MODULE MailboxProofs ----------------------------
(***************************************************************************)
(* Proofs about Mailbox, for every set of servers, clients, messages and   *)
(* flags, and whatever calls the handlers make.                            *)
(***************************************************************************)
EXTENDS Mailbox, SequenceTheorems, TLAPS

-----------------------------------------------------------------------------
(* What the invariants need to know of queues *)

\* A queue is a function on the numbers up to its length.
LEMMA QueueElements ==
  ASSUME NEW q \in Seq(Messages)
  PROVE  /\ ToSet(q) = {q[i] : i \in 1..Len(q)}
         /\ ToSet(q) \subseteq Messages
         /\ IsInjective(q) <=> \A i, j \in 1..Len(q) : q[i] = q[j] => i = j
  BY DEF ToSet, IsInjective

\* Putting a message at the end of a queue: Mailbox::post().
LEMMA PutElements ==
  ASSUME NEW q \in Seq(Messages), NEW m \in Messages
  PROVE  /\ Append(q, m) \in Seq(Messages)
         /\ ToSet(Append(q, m)) = ToSet(q) \cup {m}
         /\ Append(q, m) # <<>>
         /\ IsInjective(q) /\ m \notin ToSet(q) => IsInjective(Append(q, m))
<1> DEFINE r == Append(q, m)
<1>1. /\ r \in Seq(Messages) /\ Len(r) = Len(q) + 1 /\ Len(q) \in Nat
      /\ \A i \in 1..Len(q) : r[i] = q[i]
      /\ r[Len(q) + 1] = m
      /\ r # <<>>
  BY AppendProperties, LenProperties
<1> HIDE DEF r
<1>2. ToSet(r) = {r[i] : i \in 1..Len(r)} /\ ToSet(q) = {q[i] : i \in 1..Len(q)}
  BY <1>1, QueueElements
<1>3. ToSet(r) = ToSet(q) \cup {m}
  BY <1>1, <1>2
<1>4. ASSUME IsInjective(q), m \notin ToSet(q) PROVE IsInjective(r)
  BY <1>1, <1>2, <1>4, QueueElements
<1> QED BY <1>1, <1>3, <1>4 DEF r

\* Taking the first message of a queue: Mailbox::processMessages().
LEMMA TakeElements ==
  ASSUME NEW q \in Seq(Messages), q # <<>>
  PROVE  /\ Tail(q) \in Seq(Messages)
         /\ Head(q) \in ToSet(q)
         /\ ToSet(Tail(q)) \subseteq ToSet(q)
         /\ IsInjective(q) => /\ IsInjective(Tail(q))
                              /\ Head(q) \notin ToSet(Tail(q))
<1> DEFINE t == Tail(q)
<1>1. /\ t \in Seq(Messages) /\ Len(t) = Len(q) - 1
      /\ Len(q) \in Nat \ {0} /\ Head(q) = q[1]
      /\ \A i \in 1..Len(t) : t[i] = q[i + 1]
  BY HeadTailProperties, EmptySeq
<1> HIDE DEF t
<1>2. ToSet(t) = {t[i] : i \in 1..Len(t)} /\ ToSet(q) = {q[i] : i \in 1..Len(q)}
  BY <1>1, QueueElements
<1>3. Head(q) \in ToSet(q) /\ ToSet(t) \subseteq ToSet(q)
  BY <1>1, <1>2
<1>4. ASSUME IsInjective(q) PROVE IsInjective(t) /\ Head(q) \notin ToSet(t)
  BY <1>1, <1>2, <1>4, QueueElements, SMTT(30)
<1> QED BY <1>1, <1>3, <1>4 DEF t

-----------------------------------------------------------------------------
(***************************************************************************)
(* The inductive invariant.  OneOwner says that a message is in one place; *)
(* what makes it so is that its place is known: at the server on its way   *)
(* out, at its poster on its way back.                                     *)
(***************************************************************************)
IsAt(m, s) == m \in ToSet(mbox[s]) \/ cur[s] = m
Place(m) == IF m \in response THEN From[m] ELSE To[m]

\* A loop holds a message exactly while it handles one.
HandlesOne == \A s \in Servers : pc[s] = "handle" <=> cur[s] # None

\* A synchronous message is posted exactly while its poster waits for it; it
\* never comes back through a mailbox.
SyncWaits ==
    /\ response \cap Sync = {}
    /\ \A m \in Sync : m \in posted <=> waitsFor[From[m]] = m
    /\ \A t \in Threads : waitsFor[t] # None
                            => waitsFor[t] \in Sync /\ From[waitsFor[t]] = t

\* A message is nowhere but at its place, and there only if it is posted; it
\* is queued once or held, not both.
InPlace ==
    /\ \A m \in Messages, s \in Servers : IsAt(m, s) => m \in posted /\ s = Place(m)
    /\ \A s \in Servers : IsInjective(mbox[s]) /\ cur[s] \notin ToSet(mbox[s])

\* A thread that was signalled, or is about to be, waits for a message that
\* nobody has any more; it is signalled once.
Returned(t) == tsema[t] > 0 \/ \E s \in Servers : waiter[s] = t
Signalled ==
    /\ \A t \in Threads : Returned(t) =>
         waitsFor[t] # None /\ \A s \in Servers : ~IsAt(waitsFor[t], s)
    /\ \A s \in Servers : waiter[s] # None =>
         tsema[waiter[s]] = 0 /\ \A u \in Servers : waiter[u] = waiter[s] => u = s

MsgInv == TypeOK /\ HandlesOne /\ SyncWaits /\ InPlace /\ Signalled

\* The wake-up of a loop is under way: its semaphore is signalled or about to be.
WakeUp(s) == signaled[s] \/ \E t \in Threads : signalTo[t] = s

\* Flags that the loop has not captured, or messages that came after it looked
\* for them, keep a wake-up under way.
WakeInv ==
    \A s \in Servers :
        /\ pc[s] \notin {"check", "stopped"} => m_events[s] = {} \/ WakeUp(s)
        /\ pc[s] = "wait" => mbox[s] = <<>> \/ WakeUp(s)

\* Captured flags are processed before the loop goes on.
EventInv ==
    /\ \A s \in Servers : captured[s] # {} => pc[s] = "events"
    /\ EventsExact

\* The sets of the model are disjoint where the code's types are.
LEMMA Constants ==
  /\ \A m \in Messages : From[m] \in Threads /\ To[m] \in Servers /\ m # None
  /\ \A m \in Messages \ Sync : From[m] \in Servers
  /\ Sync \subseteq Messages
  /\ Servers \subseteq Threads /\ None \notin Threads /\ None \notin Servers
BY MailboxAssumption DEF Threads

\* Idle loops and empty mailboxes satisfy the invariants.
LEMMA InvInit == Init => MsgInv /\ WakeInv /\ EventInv
<1> SUFFICES ASSUME Init PROVE MsgInv /\ WakeInv /\ EventInv
  OBVIOUS
<1>1. /\ <<>> \in Seq(Messages) /\ ToSet(<<>>) = {} /\ IsInjective(<<>>)
  BY EmptySeq DEF ToSet, IsInjective
<1>2. TypeOK
  BY <1>1 DEF Init, TypeOK
<1>3. HandlesOne /\ SyncWaits /\ Signalled
  BY Constants DEF Init, HandlesOne, SyncWaits, Signalled, Returned
<1>4. InPlace
  BY <1>1, Constants DEF Init, InPlace, IsAt
<1>5. WakeInv /\ EventInv
  BY DEF Init, WakeInv, EventInv, EventsExact
<1> QED BY <1>2, <1>3, <1>4, <1>5 DEF MsgInv

\* Steps that move no message keep the invariant on messages, if they keep
\* the types and what a loop holds.
LEMMA MsgUnmoved ==
  ASSUME MsgInv, TypeOK', UNCHANGED <<msgVars, cur>>,
         \A s \in Servers : pc'[s] = "handle" <=> pc[s] = "handle"
  PROVE  MsgInv'
<1>1. HandlesOne'
  BY DEF MsgInv, HandlesOne
<1>2. SyncWaits'
  BY DEF MsgInv, SyncWaits, msgVars
<1>3. InPlace'
  BY DEF MsgInv, InPlace, IsAt, Place, msgVars
<1>4. Signalled'
  BY DEF MsgInv, Signalled, Returned, IsAt, msgVars
<1> QED BY <1>1, <1>2, <1>3, <1>4 DEF MsgInv

\* post() and postSync() keep the invariant on messages.
LEMMA PostMsg ==
  ASSUME MsgInv, NEW t \in Threads, NEW m \in Messages, Post(t, m)
  PROVE  MsgInv'
<1> USE Constants
<1> DEFINE d == To[m]
<1>1. /\ d \in Servers /\ TypeOK /\ Free(t) /\ From[m] = t /\ m \notin posted
      /\ m \notin response
  BY DEF MsgInv, Post, MayCall, TypeOK
<1>2. /\ mbox' = [mbox EXCEPT ![d] = Append(mbox[d], m)]
      /\ posted' = posted \cup {m} /\ UNCHANGED <<response, cur, pc, tsema, waiter>>
      /\ waitsFor' = [waitsFor EXCEPT ![t] = IF m \in Sync THEN m ELSE None]
  BY DEF Post, Put, loopVars
<1> HIDE DEF d
<1>3. \A s \in Servers : ~IsAt(m, s)
  BY <1>1 DEF MsgInv, InPlace
<1>4. /\ Append(mbox[d], m) \in Seq(Messages)
      /\ ToSet(Append(mbox[d], m)) = ToSet(mbox[d]) \cup {m}
      /\ IsInjective(Append(mbox[d], m))
  <2>1. mbox[d] \in Seq(Messages) /\ IsInjective(mbox[d]) /\ m \notin ToSet(mbox[d])
    BY <1>1, <1>3 DEF MsgInv, TypeOK, InPlace, IsAt
  <2> QED BY <2>1, PutElements
<1>5. TypeOK'
  BY <1>1, <1>2, <1>4 DEF TypeOK, Post, loopVars, eventVars, d
<1>6. HandlesOne'
  BY <1>2 DEF MsgInv, HandlesOne
<1>7. SyncWaits'
  BY <1>1, <1>2 DEF MsgInv, SyncWaits, Free, TypeOK
<1>8. \A n \in Messages, s \in Servers : IsAt(n, s)' <=> IsAt(n, s) \/ (n = m /\ s = d)
  BY <1>1, <1>2, <1>4 DEF IsAt, TypeOK
<1>9. InPlace'
  <2>1. \A n \in Messages, s \in Servers : IsAt(n, s)' => n \in posted' /\ s = Place(n)'
    BY <1>1, <1>2, <1>8 DEF MsgInv, InPlace, Place, d
  <2>2. ASSUME NEW s \in Servers
        PROVE  IsInjective(mbox'[s]) /\ cur'[s] \notin ToSet(mbox'[s])
    <3>1. CASE s = d
      BY <1>1, <1>2, <1>3, <1>4, <3>1 DEF MsgInv, InPlace, IsAt, TypeOK
    <3>2. CASE s # d
      BY <1>1, <1>2, <3>2 DEF MsgInv, InPlace, TypeOK
    <3> QED BY <3>1, <3>2
  <2> QED BY <2>1, <2>2 DEF InPlace
<1>10. Signalled'
  <2> SUFFICES ASSUME NEW u \in Threads, Returned(u)'
               PROVE  (waitsFor[u] # None /\ \A s \in Servers : ~IsAt(waitsFor[u], s))'
    BY <1>2 DEF MsgInv, Signalled
  <2>1. waitsFor[u] # None /\ \A s \in Servers : ~IsAt(waitsFor[u], s)
    BY <1>2 DEF MsgInv, Signalled, Returned
  <2>2. u # t /\ waitsFor'[u] = waitsFor[u] /\ waitsFor[u] \in Messages
    BY <1>1, <1>2, <2>1 DEF Free, TypeOK
  <2>3. waitsFor[u] # m
    BY <1>1, <2>1, <2>2 DEF MsgInv, SyncWaits
  <2> QED BY <1>8, <2>1, <2>2, <2>3 DEF IsAt
<1> QED BY <1>5, <1>6, <1>7, <1>9, <1>10 DEF MsgInv

\* A poster that has its message back finds it in no mailbox and no hands.
LEMMA ResumeMsg ==
  ASSUME MsgInv, NEW t \in Threads, Resume(t)
  PROVE  MsgInv'
<1> USE Constants
<1> DEFINE m == waitsFor[t]
<1>1. TypeOK /\ m \in Sync /\ From[m] = t /\ \A s \in Servers : ~IsAt(m, s) /\ waiter[s] # t
  <2>1. tsema[t] # 0 /\ Returned(t)
    BY DEF Resume, Returned
  <2> QED BY <2>1 DEF MsgInv, Resume, SyncWaits, Signalled
<1>2. /\ posted' = posted \ {m} /\ UNCHANGED <<mbox, response, cur, pc, waiter>>
      /\ waitsFor' = [waitsFor EXCEPT ![t] = None]
      /\ tsema' = [tsema EXCEPT ![t] = 0]
  <2>1. tsema[t] \in {0, 1} /\ tsema[t] > 0
    BY <1>1 DEF Resume, TypeOK
  <2>2. tsema[t] - 1 = 0
    BY <2>1
  <2> QED BY <2>2 DEF Resume, loopVars
<1> HIDE DEF m
<1>3. TypeOK'
  BY <1>1, <1>2 DEF MsgInv, SyncWaits, Resume, TypeOK, loopVars, eventVars
<1>4. HandlesOne' /\ SyncWaits'
  BY <1>1, <1>2 DEF MsgInv, HandlesOne, SyncWaits, TypeOK, m
<1>5. InPlace'
  BY <1>1, <1>2 DEF MsgInv, InPlace, IsAt, Place
<1>6. Signalled'
  BY <1>1, <1>2 DEF MsgInv, Signalled, Returned, IsAt, TypeOK
<1> QED BY <1>3, <1>4, <1>5, <1>6 DEF MsgInv

\* processMessages() takes a message out of the mailbox and into the loop's hands.
LEMMA ProcessMessagesMsg ==
  ASSUME MsgInv, NEW s \in Servers, ProcessMessages(s)
  PROVE  MsgInv'
<1> USE Constants
<1>1. /\ TypeOK /\ pc[s] = "events" /\ cur[s] = None
      /\ UNCHANGED <<tsema, waitsFor, posted, response, waiter>>
  BY DEF MsgInv, HandlesOne, ProcessMessages
<1>2. CASE mbox[s] = <<>>
  <2>1. mbox' = mbox /\ cur' = cur /\ pc' = [pc EXCEPT ![s] = "top"]
    BY <1>1, <1>2 DEF ProcessMessages, TypeOK
  <2>2. TypeOK'
    BY <1>1, <2>1 DEF TypeOK, ProcessMessages, eventVars
  <2> QED BY <1>1, <2>1, <2>2, MsgUnmoved DEF msgVars, TypeOK
<1>3. CASE mbox[s] # <<>>
  <2> DEFINE m == Head(mbox[s])
             r == Tail(mbox[s])
  <2>1. /\ mbox' = [mbox EXCEPT ![s] = r] /\ cur' = [cur EXCEPT ![s] = m]
        /\ pc' = [pc EXCEPT ![s] = "handle"]
    BY <1>3 DEF ProcessMessages
  <2>2. /\ r \in Seq(Messages) /\ m \in Messages /\ m \in ToSet(mbox[s])
        /\ ToSet(r) \subseteq ToSet(mbox[s]) /\ IsInjective(r) /\ m \notin ToSet(r)
    <3>1. mbox[s] \in Seq(Messages) /\ IsInjective(mbox[s])
      BY <1>1 DEF MsgInv, InPlace, TypeOK
    <3> QED BY <1>3, <3>1, TakeElements, QueueElements
  <2> HIDE DEF m, r
  <2>3. TypeOK'
    BY <1>1, <2>1, <2>2 DEF TypeOK, ProcessMessages, eventVars
  <2>4. HandlesOne' /\ SyncWaits'
    BY <1>1, <2>1, <2>2 DEF MsgInv, HandlesOne, SyncWaits, TypeOK
  <2>5. \A n \in Messages, u \in Servers : IsAt(n, u)' => IsAt(n, u)
    BY <1>1, <2>1, <2>2 DEF IsAt, TypeOK
  <2>6. InPlace'
    <3>1. \A n \in Messages, u \in Servers : IsAt(n, u)' => n \in posted' /\ u = Place(n)'
      BY <1>1, <2>5 DEF MsgInv, InPlace, Place
    <3>2. ASSUME NEW u \in Servers
          PROVE  IsInjective(mbox'[u]) /\ cur'[u] \notin ToSet(mbox'[u])
      BY <1>1, <2>1, <2>2 DEF MsgInv, InPlace, TypeOK
    <3> QED BY <3>1, <3>2 DEF InPlace
  <2>7. Signalled'
    <3>1. ASSUME NEW t \in Threads, Returned(t)'
          PROVE  (waitsFor[t] # None /\ \A u \in Servers : ~IsAt(waitsFor[t], u))'
      <4>1. waitsFor[t] # None /\ \A u \in Servers : ~IsAt(waitsFor[t], u)
        BY <1>1, <3>1 DEF MsgInv, Signalled, Returned
      <4>2. waitsFor' = waitsFor /\ waitsFor[t] \in Messages
        BY <1>1, <4>1 DEF TypeOK
      <4> QED BY <2>5, <4>1, <4>2 DEF IsAt
    <3> QED BY <1>1, <3>1 DEF MsgInv, Signalled
  <2> QED BY <2>3, <2>4, <2>6, <2>7 DEF MsgInv
<1> QED BY <1>2, <1>3

\* A message that the loop lets go of is nowhere until it is queued again.
LEMMA HandledMsg ==
  ASSUME MsgInv, NEW s \in Servers, Handled(s)
  PROVE  /\ cur[s] \in Messages /\ s = Place(cur[s]) /\ cur[s] \in posted
         /\ \A u \in Servers : /\ cur[s] \notin ToSet(mbox[u])
                               /\ u # s => cur[u] # cur[s]
         /\ cur' = [cur EXCEPT ![s] = None] /\ pc' = [pc EXCEPT ![s] = "top"]
         /\ HandlesOne'
<1> USE Constants
<1>1. cur[s] \in Messages /\ TypeOK
  BY DEF MsgInv, HandlesOne, Handled, TypeOK
<1>2. IsAt(cur[s], s)
  BY DEF IsAt
<1>3. s = Place(cur[s]) /\ cur[s] \in posted
  BY <1>1, <1>2 DEF MsgInv, InPlace
<1>4. \A u \in Servers : IsAt(cur[s], u) => u = s
  BY <1>1, <1>3 DEF MsgInv, InPlace
<1>5. HandlesOne'
  BY <1>1 DEF MsgInv, HandlesOne, Handled, TypeOK
<1> QED BY <1>1, <1>3, <1>4, <1>5 DEF MsgInv, InPlace, IsAt, Handled

\* A synchronous message is let go of: its poster waits and was not signalled.
LEMMA ReturnSyncMsg ==
  ASSUME MsgInv, NEW s \in Servers, ReturnSync(s)
  PROVE  MsgInv'
<1> USE Constants
<1> DEFINE m == cur[s]
           t == From[m]
<1>1. /\ TypeOK /\ m \in Sync /\ Handled(s) /\ t \in Threads
      /\ waiter' = [waiter EXCEPT ![s] = t]
      /\ UNCHANGED <<mbox, tsema, posted, response, waitsFor, signalTo, signaled, eventVars,
                     m_run, captured>>
  BY DEF MsgInv, ReturnSync, Handled
<1>2. /\ m \in Messages /\ m \in posted /\ waitsFor[t] = m
      /\ \A u \in Servers : m \notin ToSet(mbox[u]) /\ (u # s => cur[u] # m)
      /\ cur' = [cur EXCEPT ![s] = None] /\ pc' = [pc EXCEPT ![s] = "top"]
      /\ HandlesOne'
  BY <1>1, HandledMsg DEF MsgInv, SyncWaits
<1>3. tsema[t] = 0 /\ \A u \in Servers : waiter[u] # t
  <2>1. tsema[t] \in {0, 1}
    BY <1>1 DEF TypeOK
  <2>2. ~Returned(t)
    BY <1>1, <1>2 DEF MsgInv, Signalled, IsAt
  <2> QED BY <2>1, <2>2 DEF Returned
<1> HIDE DEF m, t
<1>4. TypeOK'
  BY <1>1, <1>2, <1>3 DEF TypeOK, eventVars
<1>5. SyncWaits'
  BY <1>1 DEF MsgInv, SyncWaits
<1>6. \A n \in Messages, u \in Servers : IsAt(n, u)' <=> IsAt(n, u) /\ n # m
  BY <1>1, <1>2 DEF IsAt, TypeOK, m
<1>7. InPlace'
  <2>1. \A n \in Messages, u \in Servers : IsAt(n, u)' => n \in posted' /\ u = Place(n)'
    BY <1>1, <1>6 DEF MsgInv, InPlace, Place
  <2>2. ASSUME NEW u \in Servers
        PROVE  IsInjective(mbox'[u]) /\ cur'[u] \notin ToSet(mbox'[u])
    <3>1. mbox[u] \in Seq(Messages) /\ None \notin ToSet(mbox[u])
      BY <1>1, QueueElements DEF TypeOK
    <3> QED BY <1>1, <1>2, <3>1 DEF MsgInv, InPlace, TypeOK
  <2> QED BY <2>1, <2>2 DEF InPlace
<1>8. Signalled'
  <2>1. ASSUME NEW u \in Threads, Returned(u)'
        PROVE  (waitsFor[u] # None /\ \A v \in Servers : ~IsAt(waitsFor[u], v))'
    <3>1. CASE u = t
      BY <1>1, <1>2, <1>6, <3>1 DEF IsAt
    <3>2. CASE u # t
      <4>1. Returned(u)
        BY <1>1, <2>1, <3>2 DEF Returned, TypeOK
      <4> QED BY <1>1, <1>6, <4>1 DEF MsgInv, Signalled, TypeOK, IsAt
    <3> QED BY <3>1, <3>2
  <2>2. ASSUME NEW v \in Servers, waiter'[v] # None
        PROVE  /\ tsema'[waiter'[v]] = 0
               /\ \A u \in Servers : waiter'[u] = waiter'[v] => u = v
    BY <1>1, <1>3, <2>2 DEF MsgInv, Signalled, TypeOK
  <2> QED BY <2>1, <2>2 DEF Signalled
<1> QED BY <1>2, <1>4, <1>5, <1>7, <1>8 DEF MsgInv

\* SyncReturnHandler::rts() signals a thread that waits and was not signalled.
LEMMA SignalWaiterMsg ==
  ASSUME MsgInv, NEW s \in Servers, SignalWaiter(s)
  PROVE  MsgInv'
<1> USE Constants
<1> DEFINE t == waiter[s]
<1>1. /\ TypeOK /\ t \in Threads /\ t # None /\ tsema[t] = 0 /\ Returned(t)
      /\ \A u \in Servers : waiter[u] = t => u = s
  BY DEF MsgInv, SignalWaiter, TypeOK, Signalled, Returned
<1>2. /\ tsema' = [tsema EXCEPT ![t] = 1] /\ waiter' = [waiter EXCEPT ![s] = None]
      /\ UNCHANGED <<mbox, waitsFor, posted, response, loopVars, signaled, signalTo, eventVars>>
  BY <1>1 DEF SignalWaiter
<1> HIDE DEF t
<1>3. TypeOK'
  BY <1>1, <1>2 DEF TypeOK, loopVars, eventVars
<1>4. HandlesOne' /\ SyncWaits'
  BY <1>2 DEF MsgInv, HandlesOne, SyncWaits, loopVars
<1>5. InPlace'
  BY <1>2 DEF MsgInv, InPlace, IsAt, Place, loopVars
<1>6. \A u \in Threads : Returned(u)' => Returned(u)
  BY <1>1, <1>2 DEF Returned, TypeOK
<1>7. ASSUME NEW v \in Servers, waiter'[v] # None
      PROVE  /\ tsema'[waiter'[v]] = 0
             /\ \A u \in Servers : waiter'[u] = waiter'[v] => u = v
  BY <1>1, <1>2, <1>7 DEF MsgInv, Signalled, TypeOK
<1>8. Signalled'
  BY <1>2, <1>6, <1>7 DEF MsgInv, Signalled, IsAt, loopVars
<1> QED BY <1>3, <1>4, <1>5, <1>8 DEF MsgInv

\* AsyncReturnHandler::rts() queues the message at its poster.
LEMMA ReturnAsyncMsg ==
  ASSUME MsgInv, NEW s \in Servers, ReturnAsync(s)
  PROVE  MsgInv'
<1> USE Constants
<1> DEFINE m == cur[s]
           d == From[m]
<1>1. /\ TypeOK /\ m \notin Sync /\ m \notin response /\ Handled(s)
      /\ mbox' = [mbox EXCEPT ![d] = Append(mbox[d], m)]
      /\ response' = response \cup {m}
      /\ UNCHANGED <<tsema, posted, waiter, waitsFor, signaled, eventVars, m_run, captured>>
      /\ signalTo' = [signalTo EXCEPT ![s] = d]
  BY DEF MsgInv, ReturnAsync, Put, Handled
<1>2. /\ m \in Messages /\ m \in posted /\ d \in Servers
      /\ \A u \in Servers : m \notin ToSet(mbox[u]) /\ (u # s => cur[u] # m)
      /\ cur' = [cur EXCEPT ![s] = None] /\ pc' = [pc EXCEPT ![s] = "top"]
      /\ HandlesOne'
  BY <1>1, HandledMsg
<1>3. /\ Append(mbox[d], m) \in Seq(Messages)
      /\ ToSet(Append(mbox[d], m)) = ToSet(mbox[d]) \cup {m}
      /\ IsInjective(Append(mbox[d], m))
  <2>1. mbox[d] \in Seq(Messages) /\ IsInjective(mbox[d]) /\ m \notin ToSet(mbox[d])
    BY <1>1, <1>2 DEF MsgInv, TypeOK, InPlace
  <2> QED BY <1>2, <2>1, PutElements
<1>4. TypeOK'
  <2> HIDE DEF m, d
  <2> QED BY <1>1, <1>2, <1>3 DEF TypeOK, eventVars
<1>5. SyncWaits'
  BY <1>1 DEF MsgInv, SyncWaits
<1>6. \A n \in Messages, u \in Servers :
        IsAt(n, u)' <=> (IsAt(n, u) /\ n # m) \/ (n = m /\ u = d)
  <2> SUFFICES ASSUME NEW n \in Messages, NEW u \in Servers
               PROVE  IsAt(n, u)' <=> (IsAt(n, u) /\ n # m) \/ (n = m /\ u = d)
    OBVIOUS
  <2> HIDE DEF d
  <2>1. n \in ToSet(mbox'[u]) <=> n \in ToSet(mbox[u]) \/ (n = m /\ u = d)
    BY <1>1, <1>2, <1>3 DEF TypeOK
  <2>2. cur'[u] = n <=> cur[u] = n /\ n # m
    BY <1>1, <1>2 DEF TypeOK
  <2> QED BY <1>2, <2>1, <2>2 DEF IsAt
<1> HIDE DEF m
<1>7. InPlace'
  <2>1. \A n \in Messages, u \in Servers : IsAt(n, u)' => n \in posted' /\ u = Place(n)'
    BY <1>1, <1>2, <1>6 DEF MsgInv, InPlace, Place
  <2>2. ASSUME NEW u \in Servers
        PROVE  IsInjective(mbox'[u]) /\ cur'[u] \notin ToSet(mbox'[u])
    <3>1. mbox[u] \in Seq(Messages) /\ None \notin ToSet(mbox[u])
      BY <1>1, QueueElements DEF TypeOK
    <3>2. CASE u = d
      BY <1>1, <1>2, <1>3, <3>1, <3>2 DEF MsgInv, InPlace, TypeOK, m
    <3>3. CASE u # d
      BY <1>1, <1>2, <3>1, <3>3 DEF MsgInv, InPlace, TypeOK
    <3> QED BY <3>2, <3>3
  <2> QED BY <2>1, <2>2 DEF InPlace
<1>8. Signalled'
  <2> SUFFICES ASSUME NEW u \in Threads, Returned(u)'
               PROVE  (waitsFor[u] # None /\ \A v \in Servers : ~IsAt(waitsFor[u], v))'
    BY <1>1 DEF MsgInv, Signalled
  <2>1. waitsFor[u] # None /\ waitsFor[u] \in Sync
        /\ \A v \in Servers : ~IsAt(waitsFor[u], v)
    BY <1>1 DEF MsgInv, Signalled, Returned, SyncWaits
  <2> QED BY <1>1, <1>6, <2>1 DEF IsAt
<1> QED BY <1>2, <1>4, <1>5, <1>7, <1>8 DEF MsgInv

\* A poster that handles its response has the message back.
LEMMA ResponseMsg ==
  ASSUME MsgInv, NEW s \in Servers, Response(s)
  PROVE  MsgInv'
<1> USE Constants
<1> DEFINE m == cur[s]
<1>1. /\ TypeOK /\ m \in response /\ Handled(s) /\ m \notin Sync
      /\ posted' = posted \ {m} /\ response' = response \ {m}
      /\ UNCHANGED <<mbox, tsema, waiter, signalTo, waitsFor, signaled, eventVars, m_run,
                     captured>>
  BY DEF MsgInv, SyncWaits, Response, Handled
<1>2. /\ m \in Messages
      /\ \A u \in Servers : m \notin ToSet(mbox[u]) /\ (u # s => cur[u] # m)
      /\ cur' = [cur EXCEPT ![s] = None] /\ pc' = [pc EXCEPT ![s] = "top"]
      /\ HandlesOne'
  BY <1>1, HandledMsg
<1>3. \A n \in Messages, u \in Servers : IsAt(n, u)' <=> IsAt(n, u) /\ n # m
  BY <1>1, <1>2 DEF IsAt, TypeOK
<1> HIDE DEF m
<1>4. TypeOK'
  BY <1>1, <1>2 DEF TypeOK, eventVars
<1>5. SyncWaits'
  BY <1>1 DEF MsgInv, SyncWaits
<1>6. InPlace'
  <2>1. \A n \in Messages, u \in Servers : IsAt(n, u)' => n \in posted' /\ u = Place(n)'
    BY <1>1, <1>2, <1>3 DEF MsgInv, InPlace, Place
  <2>2. ASSUME NEW u \in Servers
        PROVE  IsInjective(mbox'[u]) /\ cur'[u] \notin ToSet(mbox'[u])
    <3>1. mbox[u] \in Seq(Messages) /\ None \notin ToSet(mbox[u])
      BY <1>1, QueueElements DEF TypeOK
    <3> QED BY <1>1, <1>2, <3>1 DEF MsgInv, InPlace, TypeOK
  <2> QED BY <2>1, <2>2 DEF InPlace
<1>7. Signalled'
  BY <1>1, <1>3 DEF MsgInv, Signalled, Returned, SyncWaits, IsAt
<1> QED BY <1>2, <1>4, <1>5, <1>6, <1>7 DEF MsgInv

\* Every step keeps the invariant on messages.
LEMMA MsgStep == MsgInv /\ [Next]_vars => MsgInv'
<1> SUFFICES ASSUME MsgInv, [Next]_vars PROVE MsgInv'
  OBVIOUS
<1> USE Constants
<1>0. TypeOK
  BY DEF MsgInv
<1>1. CASE UNCHANGED vars
  <2>1. TypeOK'
    BY <1>0, <1>1 DEF vars, TypeOK
  <2> QED BY <1>1, <2>1, MsgUnmoved DEF vars, msgVars
<1>2. ASSUME NEW t \in Threads, NEW m \in Messages, Post(t, m) PROVE MsgInv'
  BY <1>2, PostMsg
<1>3. ASSUME NEW t \in Threads, NEW s \in Notified, NEW f \in Flags, NotifyEvents(t, s, f)
      PROVE  MsgInv'
  <2>1. TypeOK'
    BY <1>0, <1>3, MailboxAssumption
    DEF NotifyEvents, TypeOK, msgVars, loopVars
  <2> QED BY <1>3, <2>1, MsgUnmoved DEF NotifyEvents, loopVars
<1>4. ASSUME NEW t \in Threads, NEW s \in Servers, PleaseStop(t, s) PROVE MsgInv'
  <2>1. TypeOK'
    BY <1>0, <1>4 DEF PleaseStop, TypeOK, msgVars, eventVars
  <2> QED BY <1>4, <2>1, MsgUnmoved DEF PleaseStop
<1>5. ASSUME NEW t \in Threads, Signal(t) PROVE MsgInv'
  <2>1. TypeOK'
    BY <1>0, <1>5 DEF Signal, TypeOK, msgVars, loopVars, eventVars
  <2> QED BY <1>5, <2>1, MsgUnmoved DEF Signal, loopVars
<1>6. ASSUME NEW t \in Threads, Resume(t) PROVE MsgInv'
  BY <1>6, ResumeMsg
<1>7. ASSUME NEW s \in Notified, NEW f \in Flags, IsrRead(s, f) PROVE MsgInv'
  <2>1. TypeOK'
    BY <1>0, <1>7, MailboxAssumption DEF IsrRead, TypeOK, msgVars, loopVars
  <2> QED BY <1>7, <2>1, MsgUnmoved DEF IsrRead, loopVars
<1>8. CASE IsrWrite
  <2>1. TypeOK'
    BY <1>0, <1>8 DEF IsrWrite, TypeOK, msgVars, loopVars
  <2> QED BY <1>8, <2>1, MsgUnmoved DEF IsrWrite, loopVars
<1>9. ASSUME NEW s \in Servers, Top(s) \/ Wake(s) \/ Timeout(s) PROVE MsgInv'
  <2>1. TypeOK'
    <3>1. CASE Top(s)
      BY <1>0, <3>1 DEF Top, TypeOK, msgVars, eventVars
    <3>2. CASE Wake(s)
      BY <1>0, <3>2 DEF Wake, TypeOK, msgVars, eventVars
    <3>3. CASE Timeout(s)
      BY <1>0, <3>3 DEF Timeout, TypeOK, msgVars, eventVars
    <3> QED BY <1>9, <3>1, <3>2, <3>3
  <2> QED BY <1>0, <1>9, <2>1, MsgUnmoved DEF Top, Wake, Timeout, TypeOK
<1>10. ASSUME NEW s \in Servers, Capture(s) PROVE MsgInv'
  <2>1. TypeOK'
    BY <1>0, <1>10 DEF Capture, TypeOK, msgVars
  <2> QED BY <1>0, <1>10, <2>1, MsgUnmoved DEF Capture, TypeOK
<1>11. ASSUME NEW s \in Servers, NEW f \in Flags, ProcessEventFlag(s, f) PROVE MsgInv'
  <2>1. TypeOK'
    BY <1>0, <1>11 DEF ProcessEventFlag, TypeOK, msgVars
  <2> QED BY <1>11, <2>1, MsgUnmoved DEF ProcessEventFlag
<1>12. ASSUME NEW s \in Servers, ProcessMessages(s) PROVE MsgInv'
  BY <1>12, ProcessMessagesMsg
<1>13. ASSUME NEW s \in Servers, ReturnSync(s) PROVE MsgInv'
  BY <1>13, ReturnSyncMsg
<1>14. ASSUME NEW s \in Servers, SignalWaiter(s) PROVE MsgInv'
  BY <1>14, SignalWaiterMsg
<1>15. ASSUME NEW s \in Servers, ReturnAsync(s) PROVE MsgInv'
  BY <1>15, ReturnAsyncMsg
<1>16. ASSUME NEW s \in Servers, Response(s) PROVE MsgInv'
  BY <1>16, ResponseMsg
<1> QED
  BY <1>1, <1>2, <1>3, <1>4, <1>5, <1>6, <1>7, <1>8, <1>9, <1>10, <1>11, <1>12,
     <1>13, <1>14, <1>15, <1>16
  DEF Next, LoopStep

\* A payload has one owner, in every system of servers and clients: a message
\* its poster has back is in no mailbox and in nobody's hands, one under way
\* is in one place only, and only a thread that waits is ever signalled.
THEOREM OneOwnerAlways == Spec => []OneOwner
<1>1. Init => MsgInv
  BY InvInit
<1>2. MsgInv /\ [Next]_vars => MsgInv'
  BY MsgStep
<1>3. MsgInv => OneOwner
  <2> SUFFICES ASSUME MsgInv PROVE OneOwner
    OBVIOUS
  <2>1. ASSUME NEW m \in Messages
        PROVE  LET queued == {s \in Servers : m \in ToSet(mbox[s])}
                   held == {s \in Servers : cur[s] = m}
               IN  /\ m \notin posted => queued \cup held = {}
                   /\ \A s, u \in queued \cup held : s = u
                   /\ queued = {} \/ held = {}
                   /\ \A s \in queued : IsInjective(mbox[s])
    <3> DEFINE queued == {s \in Servers : m \in ToSet(mbox[s])}
               held == {s \in Servers : cur[s] = m}
    <3>1. \A s \in queued \cup held : s \in Servers /\ m \in posted /\ s = Place(m)
      BY DEF MsgInv, InPlace, IsAt
    <3>2. \A s, u \in queued \cup held : s = u
      BY <3>1
    <3>3. queued = {} \/ held = {}
      BY <3>2 DEF MsgInv, InPlace
    <3> QED BY <3>1, <3>2, <3>3 DEF MsgInv, InPlace
  <2>2. \A t \in Threads : tsema[t] > 0 => waitsFor[t] # None
    BY DEF MsgInv, Signalled, Returned
  <2> QED BY <2>1, <2>2 DEF MsgInv, OneOwner
<1> QED BY <1>1, <1>2, <1>3, PTL DEF Spec

-----------------------------------------------------------------------------
(* Wake-ups and event flags *)

\* A wake-up that is under way stays so until the loop wakes: whoever is about
\* to signal does nothing else first.
LEMMA WakeUpKept ==
  ASSUME TypeOK, NEW s \in Servers, WakeUp(s),
         signaled[s] => signaled'[s],
         \A t \in Threads : \/ signalTo'[t] = signalTo[t]
                            \/ signalTo[t] = None
                            \/ signalTo[t] = s => signaled'[s]
  PROVE  WakeUp(s)'
BY Constants DEF WakeUp, TypeOK

\* Every step keeps the invariant on wake-ups.
LEMMA WakeStep == MsgInv /\ WakeInv /\ [Next]_vars => WakeInv'
<1> SUFFICES ASSUME MsgInv, WakeInv, [Next]_vars, NEW s \in Servers
             PROVE  /\ pc'[s] \notin {"check", "stopped"} => m_events'[s] = {} \/ WakeUp(s)'
                    /\ pc'[s] = "wait" => mbox'[s] = <<>> \/ WakeUp(s)'
  BY DEF WakeInv
<1> DEFINE Goal == /\ pc'[s] \notin {"check", "stopped"} => m_events'[s] = {} \/ WakeUp(s)'
                   /\ pc'[s] = "wait" => mbox'[s] = <<>> \/ WakeUp(s)'
<1> USE Constants
<1>0. /\ TypeOK
      /\ pc[s] \notin {"check", "stopped"} => m_events[s] = {} \/ WakeUp(s)
      /\ pc[s] = "wait" => mbox[s] = <<>> \/ WakeUp(s)
  BY DEF MsgInv, WakeInv
<1>1. CASE UNCHANGED vars
  BY <1>0, <1>1 DEF vars, WakeUp
<1>2. ASSUME NEW t \in Threads, NEW m \in Messages, Post(t, m) PROVE Goal
  <2>1. WakeUp(s) => WakeUp(s)'
    BY <1>0, <1>2, WakeUpKept DEF Post, MayCall, Free, TypeOK
  <2>2. CASE s = To[m]
    BY <1>0, <1>2, <2>2 DEF Post, WakeUp, TypeOK
  <2>3. CASE s # To[m]
    BY <1>0, <1>2, <2>1, <2>3 DEF Post, Put, TypeOK, loopVars, eventVars
  <2> QED BY <2>2, <2>3
<1>3. ASSUME NEW t \in Threads, NEW n \in Notified, NEW f \in Flags, NotifyEvents(t, n, f)
      PROVE  Goal
  <2>1. WakeUp(s) => WakeUp(s)'
    BY <1>0, <1>3, WakeUpKept DEF NotifyEvents, MayCall, Free, TypeOK
  <2>2. CASE s = n
    BY <1>0, <1>3, <2>2 DEF NotifyEvents, WakeUp, TypeOK
  <2>3. CASE s # n
    BY <1>0, <1>3, <2>1, <2>3 DEF NotifyEvents, TypeOK, loopVars, msgVars
  <2> QED BY <2>2, <2>3
<1>4. ASSUME NEW t \in Threads, NEW n \in Servers, PleaseStop(t, n) PROVE Goal
  <2>1. WakeUp(s) => WakeUp(s)'
    BY <1>0, <1>4, WakeUpKept DEF PleaseStop, MayCall, Free, TypeOK
  <2> QED BY <1>0, <1>4, <2>1 DEF PleaseStop, msgVars, eventVars
<1>5. ASSUME NEW t \in Threads, Signal(t) PROVE Goal
  <2>1. WakeUp(s) => WakeUp(s)'
    BY <1>0, <1>5, WakeUpKept DEF Signal, TypeOK
  <2> QED BY <1>0, <1>5, <2>1 DEF Signal, msgVars, eventVars, loopVars
<1>6. ASSUME NEW t \in Threads, Resume(t) PROVE Goal
  BY <1>0, <1>6 DEF Resume, WakeUp, loopVars, eventVars
<1>7. ASSUME NEW n \in Notified, NEW f \in Flags, IsrRead(n, f) PROVE Goal
  BY <1>0, <1>7 DEF IsrRead, WakeUp, loopVars, msgVars
<1>8. CASE IsrWrite
  <2>1. WakeUp(s) => WakeUp(s)'
    BY <1>0, <1>8, WakeUpKept DEF IsrWrite, TypeOK
  <2>2. CASE s = isr.srv
    BY <1>0, <1>8, <2>2 DEF IsrWrite, WakeUp, TypeOK
  <2>3. CASE s # isr.srv
    BY <1>0, <1>8, <2>1, <2>3 DEF IsrWrite, TypeOK, loopVars, msgVars
  <2> QED BY <2>2, <2>3
<1>9. ASSUME NEW n \in Servers, Top(n) PROVE Goal
  <2>1. WakeUp(s)' <=> WakeUp(s)
    BY <1>9 DEF Top, WakeUp
  <2> QED BY <1>0, <1>9, <2>1 DEF Top, TypeOK, msgVars, eventVars
<1>10. ASSUME NEW n \in Servers, Wake(n) PROVE Goal
  <2>1. CASE s = n
    BY <1>0, <1>10, <2>1 DEF Wake, TypeOK
  <2>2. CASE s # n
    <3>1. WakeUp(s) => WakeUp(s)'
      BY <1>0, <1>10, <2>2, WakeUpKept DEF Wake, TypeOK
    <3> QED BY <1>0, <1>10, <2>2, <3>1 DEF Wake, TypeOK, msgVars, eventVars
  <2> QED BY <2>1, <2>2
<1>11. ASSUME NEW n \in Servers, Timeout(n) PROVE Goal
  <2>1. WakeUp(s)' <=> WakeUp(s)
    BY <1>11 DEF Timeout, WakeUp
  <2> QED BY <1>0, <1>11, <2>1 DEF Timeout, TypeOK, msgVars, eventVars
<1>12. ASSUME NEW n \in Servers, Capture(n) PROVE Goal
  <2>1. WakeUp(s)' <=> WakeUp(s)
    BY <1>12 DEF Capture, WakeUp
  <2> QED BY <1>0, <1>12, <2>1 DEF Capture, TypeOK, msgVars
<1>13. ASSUME NEW n \in Servers, NEW f \in Flags, ProcessEventFlag(n, f) PROVE Goal
  BY <1>0, <1>13 DEF ProcessEventFlag, WakeUp, msgVars
<1>14. ASSUME NEW n \in Servers, ProcessMessages(n) PROVE Goal
  <2>1. WakeUp(s)' <=> WakeUp(s)
    BY <1>14 DEF ProcessMessages, WakeUp
  <2> QED BY <1>0, <1>14, <2>1 DEF ProcessMessages, TypeOK, eventVars
<1>15. ASSUME NEW n \in Servers, ReturnSync(n) \/ SignalWaiter(n) \/ Response(n) PROVE Goal
  <2>1. WakeUp(s)' <=> WakeUp(s)
    BY <1>15 DEF ReturnSync, SignalWaiter, Response, Handled, WakeUp
  <2> QED BY <1>0, <1>15, <2>1 DEF ReturnSync, SignalWaiter, Response, Handled, TypeOK, loopVars, eventVars
<1>16. ASSUME NEW n \in Servers, ReturnAsync(n) PROVE Goal
  <2>1. WakeUp(s) => WakeUp(s)'
    BY <1>0, <1>16, WakeUpKept DEF ReturnAsync, Handled, Free, TypeOK
  <2>2. CASE s = From[cur[n]]
    BY <1>0, <1>16, <2>2 DEF ReturnAsync, WakeUp, TypeOK
  <2>3. CASE s # From[cur[n]]
    BY <1>0, <1>16, <2>1, <2>3 DEF ReturnAsync, Handled, Put, TypeOK, eventVars
  <2> QED BY <2>2, <2>3
<1> QED
  BY <1>1, <1>2, <1>3, <1>4, <1>5, <1>6, <1>7, <1>8, <1>9, <1>10, <1>11, <1>12,
     <1>13, <1>14, <1>15, <1>16
  DEF Next, LoopStep

\* No loop sleeps over a message or an event flag, however many threads post
\* and however the interrupts fall: a flag on another core may overwrite
\* others, but it is never left without a signal.
THEOREM NoLostWakeupAlways == Spec => []NoLostWakeup
<1>1. Init => MsgInv /\ WakeInv
  BY InvInit
<1>2. MsgInv /\ WakeInv /\ [Next]_vars => MsgInv' /\ WakeInv'
  BY MsgStep, WakeStep
<1>3. WakeInv => NoLostWakeup
  BY DEF WakeInv, NoLostWakeup, WakeUp
<1> QED BY <1>1, <1>2, <1>3, PTL DEF Spec

\* Where interrupts run on the core of the threads, every step keeps the flags
\* that are to be processed those that were raised.
LEMMA EventStep == ~TwoCores /\ TypeOK /\ EventInv /\ [Next]_vars => EventInv'
<1> SUFFICES ASSUME ~TwoCores, TypeOK, EventInv, [Next]_vars PROVE EventInv'
  OBVIOUS
<1> USE Constants DEF EventInv, EventsExact
<1>1. CASE UNCHANGED vars
  BY <1>1 DEF vars
<1>2. ASSUME NEW t \in Threads, NEW m \in Messages, Post(t, m) PROVE EventInv'
  BY <1>2 DEF Post, loopVars, eventVars
<1>3. ASSUME NEW t \in Threads, NEW n \in Notified, NEW f \in Flags, NotifyEvents(t, n, f)
      PROVE  EventInv'
  BY <1>3, MailboxAssumption DEF NotifyEvents, TypeOK, loopVars
<1>4. ASSUME NEW t \in Threads, NEW n \in Servers, PleaseStop(t, n) PROVE EventInv'
  BY <1>4 DEF PleaseStop, eventVars
<1>5. ASSUME NEW t \in Threads, Signal(t) \/ Resume(t) PROVE EventInv'
  BY <1>5 DEF Signal, Resume, loopVars, eventVars
<1>6. ASSUME NEW n \in Notified, NEW f \in Flags, IsrRead(n, f) PROVE EventInv'
  BY <1>6 DEF IsrRead, loopVars
<1>7. CASE IsrWrite
  BY <1>7 DEF IsrWrite, TypeOK, loopVars
<1>8. ASSUME NEW n \in Servers, Top(n) \/ Wake(n) \/ Timeout(n) PROVE EventInv'
  BY <1>8 DEF Top, Wake, Timeout, TypeOK, eventVars
<1>9. ASSUME NEW n \in Servers, Capture(n) PROVE EventInv'
  BY <1>9 DEF Capture, TypeOK
<1>10. ASSUME NEW n \in Servers, NEW f \in Flags, ProcessEventFlag(n, f) PROVE EventInv'
  BY <1>10 DEF ProcessEventFlag, TypeOK
<1>11. ASSUME NEW n \in Servers, ProcessMessages(n) PROVE EventInv'
  BY <1>11 DEF ProcessMessages, TypeOK, eventVars
<1>12. ASSUME NEW n \in Servers, ReturnSync(n) \/ SignalWaiter(n) \/ ReturnAsync(n) \/ Response(n)
       PROVE  EventInv'
  BY <1>12 DEF ReturnSync, SignalWaiter, ReturnAsync, Response, Handled, TypeOK, loopVars, eventVars
<1> QED
  BY <1>1, <1>2, <1>3, <1>4, <1>5, <1>6, <1>7, <1>8, <1>9, <1>10, <1>11, <1>12
  DEF Next, LoopStep

\* On one core the flags a loop still has to process are exactly those raised
\* by notifyEvents() and su_notifyEvents(); on two cores they are not.
THEOREM EventsExactOnOneCore == ~TwoCores /\ Spec => []EventsExact
<1> SUFFICES ASSUME ~TwoCores PROVE Spec => []EventsExact
  OBVIOUS
<1>1. Init => MsgInv /\ EventInv
  BY InvInit
<1>2. MsgInv /\ EventInv /\ [Next]_vars => MsgInv' /\ EventInv'
  BY MsgStep, EventStep DEF MsgInv
<1>3. EventInv => EventsExact
  BY DEF EventInv
<1> QED BY <1>1, <1>2, <1>3, PTL DEF Spec
=============================================================================
