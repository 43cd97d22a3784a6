-------------------------- MODULE ModelPointProofs --------------------------
(***************************************************************************)
(* Proofs about ModelPoint, for every number of model points, subscribers  *)
(* and event loops.                                                        *)
(***************************************************************************)
EXTENDS ModelPoint, SequenceTheorems, WellFoundedInduction, TLAPS

-----------------------------------------------------------------------------
(* What the invariants need to know of numbers and lists *)

\* A set of natural numbers has a least one.
LEMMA LeastNatural ==
  ASSUME NEW T, T \subseteq Nat, T # {}
  PROVE  \E x \in T : \A y \in T : x <= y
<1> DEFINE R == OpToRel(<, Nat)
<1>1. IsWellFoundedOn(R, Nat)
  BY NatLessThanWellFounded
<1>2. R = {ss \in Nat \X Nat : ss[1] < ss[2]}
  BY DEF OpToRel
<1> HIDE DEF R
<1>3. PICK x \in T : \A y \in T : ~(<<y, x>> \in R)
  BY <1>1, WFMin
<1>4. ASSUME NEW y \in T PROVE x <= y
  <2>1. x \in Nat /\ y \in Nat
    OBVIOUS
  <2>2. ~(<<y, x>> \in {ss \in Nat \X Nat : ss[1] < ss[2]})
    BY <1>2, <1>3
  <2>3. ~(y < x)
    BY <2>1, <2>2
  <2> QED BY <2>1, <2>3
<1> QED BY <1>4

\* A list is a function on the numbers up to its length.
LEMMA ListElements ==
  ASSUME NEW q \in Seq(Subs)
  PROVE  /\ ToSet(q) = {q[i] : i \in 1..Len(q)}
         /\ ToSet(q) \subseteq Subs
         /\ IsInjective(q) <=> \A i, j \in 1..Len(q) : q[i] = q[j] => i = j
         /\ q = <<>> <=> ToSet(q) = {}
<1>1. q \in [1..Len(q) -> Subs] /\ Len(q) \in Nat /\ DOMAIN q = 1..Len(q)
  BY LenProperties
<1>2. ToSet(q) = {q[i] : i \in 1..Len(q)}
  BY <1>1 DEF ToSet
<1>3. ToSet(q) \subseteq Subs
  BY <1>1, <1>2
<1>4. IsInjective(q) <=> \A i, j \in 1..Len(q) : q[i] = q[j] => i = j
  BY <1>1 DEF IsInjective
<1>5. q = <<>> <=> Len(q) = 0
  BY EmptySeq
<1>6. Len(q) = 0 <=> ToSet(q) = {}
  <2>1. Len(q) = 0 => ToSet(q) = {}
    BY <1>2
  <2>2. Len(q) # 0 => q[1] \in ToSet(q)
    BY <1>1, <1>2
  <2> QED BY <2>1, <2>2
<1> QED BY <1>2, <1>3, <1>4, <1>5, <1>6

\* DList::put()
LEMMA PutElements ==
  ASSUME NEW q \in Seq(Subs), NEW s \in Subs
  PROVE  /\ Append(q, s) \in Seq(Subs)
         /\ ToSet(Append(q, s)) = ToSet(q) \cup {s}
         /\ IsInjective(q) /\ s \notin ToSet(q) => IsInjective(Append(q, s))
<1> DEFINE r == Append(q, s)
<1>1. /\ r \in Seq(Subs) /\ Len(r) = Len(q) + 1 /\ Len(q) \in Nat
      /\ \A i \in 1..Len(q) : r[i] = q[i]
      /\ r[Len(q) + 1] = s
  BY AppendProperties, LenProperties
<1> HIDE DEF r
<1>2. ToSet(r) = {r[i] : i \in 1..Len(r)} /\ ToSet(q) = {q[i] : i \in 1..Len(q)}
  BY <1>1, ListElements
<1>3. ToSet(r) = ToSet(q) \cup {s}
  BY <1>1, <1>2
<1>4. ASSUME IsInjective(q), s \notin ToSet(q) PROVE IsInjective(r)
  BY <1>1, <1>2, <1>4, ListElements
<1> QED BY <1>1, <1>3, <1>4 DEF r

\* DList::get()
LEMMA GetElements ==
  ASSUME NEW q \in Seq(Subs), q # <<>>, IsInjective(q)
  PROVE  /\ Tail(q) \in Seq(Subs)
         /\ Head(q) \in ToSet(q)
         /\ ToSet(Tail(q)) = ToSet(q) \ {Head(q)}
         /\ IsInjective(Tail(q))
<1> DEFINE t == Tail(q)
<1>1. /\ t \in Seq(Subs) /\ Len(t) = Len(q) - 1
      /\ Len(q) \in Nat \ {0} /\ Head(q) = q[1]
      /\ \A i \in 1..Len(t) : t[i] = q[i + 1]
  BY HeadTailProperties, EmptySeq
<1> HIDE DEF t
<1>2. ToSet(t) = {t[i] : i \in 1..Len(t)} /\ ToSet(q) = {q[i] : i \in 1..Len(q)}
  BY <1>1, ListElements
<1>3. \A i, j \in 1..Len(q) : q[i] = q[j] => i = j
  BY ListElements
<1>4. IsInjective(t)
  <2>1. ASSUME NEW i \in 1..Len(t), NEW j \in 1..Len(t), t[i] = t[j] PROVE i = j
    <3>1. i + 1 \in 1..Len(q) /\ j + 1 \in 1..Len(q)
      BY <1>1
    <3>2. q[i + 1] = q[j + 1]
      BY <1>1, <2>1
    <3>3. i + 1 = j + 1
      BY <1>3, <3>1, <3>2
    <3> QED BY <3>3
  <2> QED BY <1>1, <2>1, ListElements
<1>5. Head(q) \in ToSet(q) /\ Head(q) \notin ToSet(t) /\ ToSet(t) \subseteq ToSet(q)
  BY <1>1, <1>2, <1>3
<1>6. ASSUME NEW e \in ToSet(q), e # Head(q) PROVE e \in ToSet(t)
  <2>1. PICK i \in 1..Len(q) : e = q[i]
    BY <1>2
  <2>2. i # 1 /\ i - 1 \in 1..Len(t) /\ t[i - 1] = q[i]
    BY <1>1, <1>6, <2>1
  <2> QED BY <1>2, <2>1, <2>2
<1> QED BY <1>1, <1>4, <1>5, <1>6 DEF t

\* DList::remove(): the item is gone and the others stay.
LEMMA RemoveElements ==
  ASSUME NEW q \in Seq(Subs), NEW s, IsInjective(q)
  PROVE  /\ RemoveFirst(q, s) \in Seq(Subs)
         /\ ToSet(RemoveFirst(q, s)) = ToSet(q) \ {s}
         /\ IsInjective(RemoveFirst(q, s))
<1>1. Len(q) \in Nat /\ ToSet(q) = {q[i] : i \in 1..Len(q)}
      /\ \A i, j \in 1..Len(q) : q[i] = q[j] => i = j
  BY LenProperties, ListElements
<1>2. CASE ~ \E i \in 1..Len(q) : q[i] = s
  <2>1. RemoveFirst(q, s) = q
    BY <1>2 DEF RemoveFirst
  <2> QED BY <1>1, <1>2, <2>1
<1>3. CASE \E i \in 1..Len(q) : q[i] = s
  <2>1. PICK k \in 1..Len(q) : q[k] = s
    BY <1>3
  <2>2. {i \in 1..Len(q) : q[i] = s} = {k}
    BY <1>1, <2>1
  <2>3. Min({k}) = k
    BY DEF Min
  <2>4. SelectInSeq(q, LAMBDA v : v = s) = k
    BY <2>2, <2>3 DEF SelectInSeq
  <2> DEFINE a == SubSeq(q, 1, k - 1)
             b == SubSeq(q, k + 1, Len(q))
             r == a \o b
  <2>5. RemoveFirst(q, s) = r
    BY <1>3, <2>4 DEF RemoveFirst, RemoveAt
  <2>6. /\ a \in Seq(Subs) /\ Len(a) = k - 1 /\ \A i \in 1..k - 1 : a[i] = q[i]
        /\ b \in Seq(Subs) /\ Len(b) = Len(q) - k
        /\ \A i \in 1..Len(q) - k : b[i] = q[k + i]
    BY <1>1, SubSeqProperties
  <2> HIDE DEF a, b
  <2>7. /\ r \in Seq(Subs) /\ Len(r) = Len(q) - 1
        /\ \A i \in 1..Len(r) : r[i] = IF i < k THEN q[i] ELSE q[i + 1]
    <3>1. r \in Seq(Subs) /\ Len(r) = Len(a) + Len(b)
      BY <2>6, ConcatProperties
    <3>2. \A i \in 1..Len(a) + Len(b) :
              r[i] = IF i <= Len(a) THEN a[i] ELSE b[i - Len(a)]
      BY <2>6, ConcatProperties
    <3> HIDE DEF r
    <3>3. Len(r) = Len(q) - 1
      BY <1>1, <2>6, <3>1
    <3>4. Len(a) + Len(b) = Len(r) /\ Len(a) = k - 1
      BY <2>6, <3>1
    <3>5. \A i \in 1..Len(r) : r[i] = IF i <= k - 1 THEN a[i] ELSE b[i - (k - 1)]
      BY <3>2, <3>4
    <3>6. ASSUME NEW i \in 1..Len(r)
          PROVE  r[i] = IF i < k THEN q[i] ELSE q[i + 1]
      <4>1. CASE i < k
        <5>1. i <= k - 1 /\ i \in 1..k - 1
          BY <1>1, <3>3, <4>1
        <5>2. r[i] = a[i]
          BY <3>5, <5>1
        <5> QED BY <2>6, <4>1, <5>1, <5>2
      <4>2. CASE ~(i < k)
        <5>1. i - (k - 1) \in 1..Len(q) - k /\ ~(i <= k - 1)
          BY <1>1, <3>3, <4>2
        <5>2. r[i] = b[i - (k - 1)]
          BY <3>5, <5>1
        <5>3. b[i - (k - 1)] = q[k + (i - (k - 1))] /\ k + (i - (k - 1)) = i + 1
          BY <2>6, <3>3, <5>1
        <5> QED BY <4>2, <5>2, <5>3
      <4> QED BY <4>1, <4>2
    <3> QED BY <3>1, <3>3, <3>6
  <2> HIDE DEF r
  <2>8. ToSet(r) = {r[i] : i \in 1..Len(r)}
        /\ (IsInjective(r) <=> \A i, j \in 1..Len(r) : r[i] = r[j] => i = j)
    BY <2>7, ListElements
  <2>9. IsInjective(r)
    BY <1>1, <2>7, <2>8
  <2>10. ToSet(r) \subseteq ToSet(q) \ {s}
    BY <1>1, <2>1, <2>7, <2>8
  <2>11. ASSUME NEW e \in ToSet(q), e # s PROVE e \in ToSet(r)
    <3>1. PICK i \in 1..Len(q) : e = q[i]
      BY <1>1
    <3>2. CASE i < k
      BY <1>1, <2>7, <2>8, <3>1, <3>2
    <3>3. CASE i > k
      <4>1. i - 1 \in 1..Len(r) /\ r[i - 1] = q[i]
        BY <1>1, <2>7, <3>3
      <4> QED BY <2>8, <3>1, <4>1
    <3> QED BY <2>1, <2>11, <3>1, <3>2, <3>3
  <2> QED BY <2>5, <2>7, <2>9, <2>10, <2>11
<1> QED BY <1>2, <1>3

\* DList::remove() of an item that may be anywhere.
LEMMA RemoveType ==
  ASSUME NEW q \in Seq(Subs), NEW s
  PROVE  /\ RemoveFirst(q, s) \in Seq(Subs)
         /\ q = <<>> => RemoveFirst(q, s) = <<>>
<1>1. CASE ~ \E i \in 1..Len(q) : q[i] = s
  BY <1>1 DEF RemoveFirst
<1>2. CASE \E i \in 1..Len(q) : q[i] = s
  <2> DEFINE T == {i \in 1..Len(q) : q[i] = s}
             k == SelectInSeq(q, LAMBDA v : v = s)
  <2>1. T # {} /\ T \subseteq Nat /\ k = Min(T)
    BY <1>2 DEF SelectInSeq
  <2>2. \E x \in T : \A y \in T : x <= y
    BY <2>1, LeastNatural
  <2>3. k \in 1..Len(q)
    BY <2>1, <2>2 DEF Min
  <2>4. RemoveFirst(q, s) = SubSeq(q, 1, k - 1) \o SubSeq(q, k + 1, Len(q))
    BY <1>2 DEF RemoveFirst, RemoveAt
  <2> HIDE DEF k
  <2>5. SubSeq(q, 1, k - 1) \in Seq(Subs) /\ SubSeq(q, k + 1, Len(q)) \in Seq(Subs)
    BY <2>3, LenProperties, SubSeqProperties
  <2>6. q # <<>>
    BY <1>2, EmptySeq
  <2> QED BY <2>4, <2>5, <2>6, ConcatProperties
<1> QED BY <1>1, <1>2

-----------------------------------------------------------------------------
(***************************************************************************)
(* The types, in parts, and what the loops' locals are while they are in   *)
(* use.                                                                    *)
(***************************************************************************)
DataOK ==
    /\ value \in [Points -> Values]
    /\ valid \in [Points -> BOOLEAN]
    /\ locked \in [Points -> BOOLEAN]
    /\ seqNum \in [Points -> 1..SeqMax]
    /\ version \in [Points -> Nat]
    /\ notifying \in Points \cup {Null}
CopyOK == copying \in {<<>>} \cup (Points \X Points \X WriteRequests \X BOOLEAN)
ListOK ==
    /\ subscribers \in [Points -> Seq(Subs)]
    /\ state \in [Subs -> States]
    /\ pending \in [Loops -> Seq(Subs)]
    /\ signaled \in [Loops -> BOOLEAN]
    /\ fatal \in BOOLEAN
SubOK ==
    /\ point \in [Subs -> Points \cup {Null}]
    /\ subSeq \in [Subs -> 0..SeqMax]
    /\ seen \in [Subs -> Nat]
LoopOK ==
    /\ pc \in [Loops -> LoopPc]
    /\ skip \in [Loops -> BOOLEAN]
    /\ cur \in [Loops -> Subs \cup {Null}]
    /\ curPoint \in [Loops -> Points \cup {Null}]
    /\ sync \in [Loops -> {<<>>} \cup (Subs \X Points \X (1..SeqMax) \X Nat)]
    /\ ops \in [Loops -> Nat]
LocalsInUse ==
    \A l \in Loops : /\ pc[l] \in {"notify", "callback"} => cur[l] \in Subs
                     /\ pc[l] = "callback" => curPoint[l] \in Points
TypeInv == DataOK /\ CopyOK /\ ListOK /\ SubOK /\ LoopOK /\ LocalsInUse

\* TypeInv says all that TypeOK does.
LEMMA TypeParts == TypeInv => TypeOK
BY CountAssumption DEF TypeInv, TypeOK, DataOK, CopyOK, ListOK, SubOK, LoopOK, Syncs

\* All loops begin awake and without notifications.
LEMMA TypeInit == Init => TypeInv /\ NoLostWakeup
<1> SUFFICES ASSUME Init PROVE TypeInv /\ NoLostWakeup
  OBVIOUS
<1>1. DataOK /\ CopyOK
  BY PointAssumption DEF Init, DataOK, CopyOK
<1>2. ListOK
  <2>1. <<>> \in Seq(Subs)
    BY EmptySeq
  <2>2. subscribers \in [Points -> Seq(Subs)] /\ pending \in [Loops -> Seq(Subs)]
    BY <2>1 DEF Init
  <2> QED BY <2>2 DEF Init, ListOK, States
<1>3. SubOK
  BY CountAssumption DEF Init, SubOK, Unknown
<1>4. LoopOK /\ LocalsInUse /\ NoLostWakeup
  BY DEF Init, LoopOK, LoopPc, LocalsInUse, NoLostWakeup
<1> QED BY <1>1, <1>2, <1>3, <1>4 DEF TypeInv

\* Only waking a loop up may give an empty list an entry.
Woken ==
    \A l \in Loops : /\ pending[l] = <<>> /\ pending'[l] # <<>> => signaled'[l]
                     /\ signaled[l] => signaled'[l]

\* The next sequence number is one, and never the unknown one.
LEMMA NextSeqType ==
  ASSUME NEW n \in 1..SeqMax
  PROVE  NextSeq(n) \in 1..SeqMax
BY CountAssumption DEF NextSeq, Unknown

\* processChangeNotifications() counts the change.
LEMMA ChangeTypes ==
  ASSUME DataOK, NEW p \in Points, ProcessChangeNotifications(p)
  PROVE  /\ seqNum' \in [Points -> 1..SeqMax]
         /\ version' \in [Points -> Nat]
         /\ notifying' \in Points \cup {Null}
BY NextSeqType DEF DataOK, ProcessChangeNotifications

\* A lock request leaves a point locked or not.
LEMMA LockTypes ==
  ASSUME DataOK, NEW p \in Points, NEW req, UpdateLock(p, req)
  PROVE  locked' \in [Points -> BOOLEAN]
BY DEF DataOK, UpdateLock

\* A write leaves the data of a point well typed ...
LEMMA WriteTypes ==
  ASSUME DataOK, NEW p \in Points, NEW v \in Values, NEW req, WriteTo(p, v, req)
  PROVE  DataOK'
<1>1. locked' \in [Points -> BOOLEAN]
  BY LockTypes DEF WriteTo
<1>2. CASE ProcessChangeNotifications(p) /\ value' = [value EXCEPT ![p] = v]
           /\ valid' = [valid EXCEPT ![p] = TRUE]
  BY <1>1, <1>2, ChangeTypes DEF DataOK
<1>3. CASE UNCHANGED <<value, valid, seqVars, notifying>>
  BY <1>1, <1>3 DEF DataOK, seqVars
<1> QED BY <1>2, <1>3 DEF WriteTo

\* ... and so does setInvalid().
LEMMA InvalidateTypes ==
  ASSUME DataOK, NEW p \in Points, NEW req, InvalidateIt(p, req)
  PROVE  DataOK'
<1>1. locked' \in [Points -> BOOLEAN]
  BY LockTypes DEF InvalidateIt
<1>2. CASE ProcessChangeNotifications(p) /\ value' = [value EXCEPT ![p] = Zero]
           /\ valid' = [valid EXCEPT ![p] = FALSE]
  BY <1>1, <1>2, PointAssumption, ChangeTypes DEF DataOK
<1>3. CASE UNCHANGED <<value, valid, seqVars, notifying>>
  BY <1>1, <1>3 DEF DataOK, seqVars
<1> QED BY <1>2, <1>3 DEF InvalidateIt

\* transitionToNotifyPending() wakes the loop it gives work to.
LEMMA PendingTypes ==
  ASSUME ListOK, NEW s \in Subs, NEW lists \in [Points -> Seq(Subs)],
         NEW queues \in [Loops -> Seq(Subs)], NotifyPending(s, lists, queues),
         \A l \in Loops : pending[l] = <<>> => queues[l] = <<>>
  PROVE  ListOK' /\ Woken
<1>1. LoopOf[s] \in Loops /\ Append(queues[LoopOf[s]], s) \in Seq(Subs)
  BY PointAssumption, AppendProperties
<1>2. fatal' \in BOOLEAN
  BY DEF NotifyPending, InAList
<1>3. ListOK'
  BY <1>1, <1>2 DEF ListOK, NotifyPending, States
<1>4. Woken
  BY <1>1 DEF ListOK, NotifyPending, Woken
<1> QED BY <1>3, <1>4

\* transitionToSubscribed() does so where it has missed a change.
LEMMA SubscribedTypes ==
  ASSUME ListOK, NEW p \in Points, NEW s \in Subs, NEW seq,
         NEW queues \in [Loops -> Seq(Subs)], Subscribed(p, s, seq, queues),
         \A l \in Loops : pending[l] = <<>> => queues[l] = <<>>
  PROVE  ListOK' /\ Woken
<1> DEFINE lists == [subscribers EXCEPT ![p] = RemoveFirst(@, s)]
<1>1. lists \in [Points -> Seq(Subs)] /\ lists[p] \in Seq(Subs)
  BY RemoveType DEF ListOK
<1> HIDE DEF lists
<1>2. CASE NotifyPending(s, lists, queues)
  BY <1>1, <1>2, PendingTypes
<1>3. CASE /\ subscribers' = [lists EXCEPT ![p] = Append(@, s)]
           /\ pending' = queues
           /\ state' = [state EXCEPT ![s] = "IDLE"]
           /\ fatal' = InAList(s, lists, queues)
           /\ UNCHANGED signaled
  <2>1. Append(lists[p], s) \in Seq(Subs)
    BY <1>1, AppendProperties
  <2>2. fatal' \in BOOLEAN
    BY <1>3 DEF InAList
  <2>3. ListOK'
    BY <1>1, <1>3, <2>1, <2>2 DEF ListOK, States
  <2>4. Woken
    BY <1>3 DEF ListOK, Woken
  <2> QED BY <2>3, <2>4
<1> QED BY <1>2, <1>3 DEF Subscribed, lists

\* attachSubscriber() in any state of the subscriber
LEMMA AttachTypes ==
  ASSUME ListOK, SubOK, NEW p \in Points, NEW s \in Subs, NEW seq \in 0..SeqMax,
         NEW ver \in Nat, AttachSubscriber(p, s, seq, ver)
  PROVE  ListOK' /\ SubOK' /\ Woken
<1>1. SubOK'
  BY DEF SubOK, AttachSubscriber
<1>2. LoopOf[s] \in Loops /\ Unpend(s) \in [Loops -> Seq(Subs)]
      /\ \A l \in Loops : pending[l] = <<>> => Unpend(s)[l] = <<>>
  BY PointAssumption, RemoveType DEF ListOK, Unpend
<1>3. CASE Subscribed(p, s, seq, pending)
  BY <1>1, <1>3, SubscribedTypes DEF ListOK
<1>4. CASE Subscribed(p, s, seq, Unpend(s))
  BY <1>1, <1>2, <1>4, SubscribedTypes
<1>5. CASE UNCHANGED <<listVars, state, fatal>>
  BY <1>1, <1>5 DEF ListOK, listVars, Woken
<1>6. CASE state' = [state EXCEPT ![s] = "NOTIFY_NOTIFYING"] /\ UNCHANGED <<listVars, fatal>>
  BY <1>1, <1>6 DEF ListOK, listVars, States, Woken
<1> QED BY <1>1, <1>3, <1>4, <1>5, <1>6 DEF AttachSubscriber

\* detachSubscriber() in any state of the subscriber
LEMMA DetachTypes ==
  ASSUME ListOK, SubOK, NEW p \in Points, NEW s \in Subs,
         DetachSubscriber(p, s), UNCHANGED <<subSeq, seen, fatal>>
  PROVE  ListOK' /\ SubOK' /\ Woken
<1>1. SubOK'
  BY DEF SubOK, DetachSubscriber
<1>2. LoopOf[s] \in Loops /\ Unpend(s) \in [Loops -> Seq(Subs)]
      /\ \A l \in Loops : pending[l] = <<>> => Unpend(s)[l] = <<>>
  BY PointAssumption, RemoveType DEF ListOK, Unpend
<1>3. RemoveFirst(subscribers[p], s) \in Seq(Subs)
  BY RemoveType DEF ListOK
<1>4. ListOK'
  BY <1>2, <1>3 DEF ListOK, DetachSubscriber, listVars, States
<1>5. Woken
  BY <1>2 DEF Woken, DetachSubscriber, listVars
<1> QED BY <1>1, <1>4, <1>5

\* Every step keeps the types and, but for the steps of a loop itself, wakes
\* up the loops it leaves a notification for.
LEMMA TypeStep ==
  ASSUME TypeInv, NoLostWakeup, Next
  PROVE  TypeInv' /\ NoLostWakeup'
<1>1. ASSUME Woken, UNCHANGED loopVars PROVE NoLostWakeup'
  BY <1>1 DEF TypeInv, ListOK, NoLostWakeup, Woken, loopVars
<1>2. ASSUME DataOK', CopyOK', UNCHANGED <<subVars, point, listVars, loopVars, sync, ops, fatal>>
      PROVE  TypeInv' /\ NoLostWakeup'
  BY <1>2 DEF TypeInv, ListOK, SubOK, LoopOK, LocalsInUse, NoLostWakeup, subVars, listVars, loopVars
<1>3. ASSUME Writers PROVE TypeInv' /\ NoLostWakeup'
  <2>1. ASSUME NEW p \in Points, NEW v \in Values, NEW req \in WriteRequests, WriteData(p, v, req)
        PROVE  TypeInv' /\ NoLostWakeup'
    BY <1>2, <2>1, WriteTypes DEF WriteData, TypeInv, CopyOK
  <2>2. ASSUME NEW p \in Points, NEW req \in WriteRequests, SetInvalid(p, req)
        PROVE  TypeInv' /\ NoLostWakeup'
    BY <1>2, <2>2, InvalidateTypes DEF SetInvalid, TypeInv, CopyOK
  <2>3. ASSUME NEW p \in Points, Touch(p) PROVE TypeInv' /\ NoLostWakeup'
    <3>1. DataOK' /\ CopyOK'
      BY <2>3, ChangeTypes DEF Touch, TypeInv, DataOK, CopyOK, dataVars
    <3> QED BY <1>2, <2>3, <3>1 DEF Touch
  <2>4. ASSUME NEW p \in Points, NEW v \in Values, NEW ok \in BOOLEAN, NEW lock \in BOOLEAN,
               ImportData(p, v, ok, lock)
        PROVE  TypeInv' /\ NoLostWakeup'
    <3>1. DataOK' /\ CopyOK'
      BY <2>4, ChangeTypes DEF ImportData, TypeInv, DataOK, CopyOK
    <3> QED BY <1>2, <2>4, <3>1 DEF ImportData
  <2>5. ASSUME NEW p \in Points, NEW req \in LockRequests, SetLockState(p, req)
        PROVE  TypeInv' /\ NoLostWakeup'
    <3>1. DataOK' /\ CopyOK'
      BY <2>5, LockTypes DEF SetLockState, TypeInv, DataOK, CopyOK, seqVars
    <3> QED BY <1>2, <2>5, <3>1 DEF SetLockState
  <2>6. ASSUME NEW src \in Points, NEW dst \in Points, NEW req \in WriteRequests, CopyTest(src, dst, req)
        PROVE  TypeInv' /\ NoLostWakeup'
    <3>1. valid[src] \in BOOLEAN
      BY DEF TypeInv, DataOK
    <3>2. CopyOK'
      BY <2>6, <3>1 DEF CopyTest, CopyOK
    <3>3. DataOK'
      BY <2>6 DEF CopyTest, TypeInv, DataOK, dataVars, seqVars
    <3> QED BY <1>2, <2>6, <3>2, <3>3 DEF CopyTest
  <2>9. ASSUME CopyInvalid PROVE TypeInv' /\ NoLostWakeup'
    <3>1. copying[2] \in Points
      BY <2>9 DEF CopyInvalid, TypeInv, CopyOK
    <3>2. DataOK' /\ CopyOK'
      BY <2>9, <3>1, InvalidateTypes DEF CopyInvalid, TypeInv, CopyOK
    <3> QED BY <1>2, <2>9, <3>2 DEF CopyInvalid
  <2>7. ASSUME CopyData PROVE TypeInv' /\ NoLostWakeup'
    <3>1. copying[1] \in Points /\ copying[2] \in Points
      BY <2>7 DEF CopyData, TypeInv, CopyOK
    <3>2. value[copying[1]] \in Values
      BY <3>1 DEF TypeInv, DataOK
    <3>3. DataOK' /\ CopyOK'
      BY <2>7, <3>1, <3>2, WriteTypes DEF CopyData, TypeInv, CopyOK
    <3> QED BY <1>2, <2>7, <3>3 DEF CopyData
  <2>8. ASSUME NotifyNext PROVE TypeInv' /\ NoLostWakeup'
    <3>1. DataOK' /\ CopyOK' /\ SubOK' /\ LoopOK' /\ LocalsInUse'
      BY <2>8 DEF NotifyNext, TypeInv, DataOK, CopyOK, SubOK, LoopOK, LocalsInUse, dataVars,
                  seqVars, loopVars
    <3>2. ListOK' /\ Woken
      <4>1. CASE subscribers[notifying] = <<>>
        BY <2>8, <4>1 DEF NotifyNext, listVars, TypeInv, ListOK, Woken
      <4>2. CASE subscribers[notifying] # <<>>
        <5> DEFINE s == Head(subscribers[notifying])
                   lists == [subscribers EXCEPT ![notifying] = Tail(@)]
        <5>1. notifying \in Points
          BY <2>8 DEF NotifyNext, TypeInv, DataOK
        <5>2. s \in Subs /\ Tail(subscribers[notifying]) \in Seq(Subs)
          BY <4>2, <5>1, HeadTailProperties DEF TypeInv, ListOK
        <5>3. lists \in [Points -> Seq(Subs)]
          BY <5>1, <5>2 DEF TypeInv, ListOK
        <5> HIDE DEF s, lists
        <5>4. CASE NotifyPending(s, lists, pending)
          BY <5>2, <5>3, <5>4, PendingTypes DEF TypeInv, ListOK
        <5>5. CASE fatal' = TRUE /\ subscribers' = lists /\ UNCHANGED <<pending, signaled, state>>
          BY <5>3, <5>5 DEF TypeInv, ListOK, Woken
        <5> QED BY <2>8, <4>2, <5>4, <5>5 DEF NotifyNext, s, lists
      <4> QED BY <4>1, <4>2
    <3> QED BY <1>1, <2>8, <3>1, <3>2 DEF NotifyNext, TypeInv
  <2> QED BY <1>3, <2>1, <2>2, <2>3, <2>4, <2>5, <2>6, <2>7, <2>8, <2>9 DEF Writers
<1>4. ASSUME NEW l \in Loops, NEW s \in Subs, NEW p \in Points,
             Attach(l, s, p) \/ Detach(l, s, p) \/ SyncRead(l, s, p)
      PROVE  TypeInv' /\ NoLostWakeup'
  <2>1. DataOK' /\ CopyOK'
    BY <1>4 DEF Attach, Detach, SyncRead, TypeInv, DataOK, CopyOK, dataVars, seqVars
  <2>2. LoopOK' /\ LocalsInUse'
    <3>1. ops' \in [Loops -> Nat]
      BY <1>4 DEF Attach, Detach, SyncRead, CountOp, TypeInv, LoopOK
    <3>2. sync' \in [Loops -> {<<>>} \cup (Subs \X Points \X (1..SeqMax) \X Nat)]
      BY <1>4 DEF Attach, Detach, SyncRead, TypeInv, LoopOK, DataOK
    <3> QED BY <1>4, <3>1, <3>2 DEF Attach, Detach, SyncRead, TypeInv, LoopOK, LocalsInUse, loopVars
  <2>3. ListOK' /\ SubOK' /\ Woken
    <3>1. CASE Attach(l, s, p)
      <4>1. Unknown \in 0..SeqMax /\ 0 \in Nat
        BY CountAssumption DEF Unknown
      <4> QED BY <3>1, <4>1, AttachTypes DEF Attach, TypeInv
    <3>2. CASE Detach(l, s, p)
      BY <3>2, DetachTypes DEF Detach, TypeInv
    <3>3. CASE SyncRead(l, s, p)
      BY <3>3 DEF SyncRead, TypeInv, ListOK, SubOK, listVars, subVars, Woken
    <3> QED BY <1>4, <3>1, <3>2, <3>3
  <2> QED BY <1>1, <1>4, <2>1, <2>2, <2>3 DEF TypeInv, Attach, Detach, SyncRead
<1>5. ASSUME NEW l \in Loops, SyncAttach(l) PROVE TypeInv' /\ NoLostWakeup'
  <2>1. DataOK' /\ CopyOK' /\ LoopOK' /\ LocalsInUse'
    BY <1>5 DEF SyncAttach, TypeInv, DataOK, CopyOK, LoopOK, LocalsInUse, dataVars, seqVars, loopVars
  <2>2. /\ sync[l][1] \in Subs /\ sync[l][2] \in Points
        /\ sync[l][3] \in 0..SeqMax /\ sync[l][4] \in Nat
    BY <1>5, CountAssumption DEF SyncAttach, TypeInv, LoopOK
  <2>3. ListOK' /\ SubOK' /\ Woken
    BY <1>5, <2>2, AttachTypes DEF SyncAttach, TypeInv
  <2> QED BY <1>1, <1>5, <2>1, <2>3 DEF TypeInv, SyncAttach
<1>6. ASSUME NEW l \in Loops, RunLoop(l) \/ Timeout(l) PROVE TypeInv' /\ NoLostWakeup'
  <2>1. DataOK' /\ CopyOK'
    BY <1>6 DEF RunLoop, Timeout, Top, Wait, EventsDone, Dispatch, Notify, NotifyComplete,
                TypeInv, DataOK, CopyOK, dataVars, seqVars
  <2>2. CASE Top(l)
    <3>1. LoopOK' /\ LocalsInUse'
      BY <2>2 DEF Top, GoTo, TypeInv, LoopOK, LocalsInUse, LoopPc
    <3>2. NoLostWakeup'
      BY <2>2 DEF Top, GoTo, TypeInv, LoopOK, NoLostWakeup, listVars
    <3> QED BY <2>1, <2>2, <3>1, <3>2 DEF Top, TypeInv, ListOK, SubOK, listVars, subVars
  <2>3. CASE Wait(l)
    <3>1. LoopOK' /\ LocalsInUse'
      BY <2>3 DEF Wait, GoTo, TypeInv, LoopOK, LocalsInUse, LoopPc
    <3>2. NoLostWakeup'
      BY <2>3 DEF Wait, GoTo, TypeInv, LoopOK, ListOK, NoLostWakeup
    <3> QED BY <2>1, <2>3, <3>1, <3>2 DEF Wait, TypeInv, ListOK, SubOK, subVars
  <2>4. CASE Timeout(l) \/ EventsDone(l)
    <3>1. LoopOK' /\ LocalsInUse'
      BY <2>4 DEF Timeout, EventsDone, GoTo, TypeInv, LoopOK, LocalsInUse, LoopPc
    <3>2. NoLostWakeup'
      BY <2>4 DEF Timeout, EventsDone, GoTo, TypeInv, LoopOK, NoLostWakeup, listVars
    <3> QED BY <2>1, <2>4, <3>1, <3>2
            DEF Timeout, EventsDone, TypeInv, ListOK, SubOK, listVars, subVars
  <2>5. CASE Dispatch(l)
    <3>1. pending[l] # <<>> => Head(pending[l]) \in Subs /\ Tail(pending[l]) \in Seq(Subs)
      BY HeadTailProperties DEF TypeInv, ListOK
    <3>2. LoopOK'
      BY <2>5, <3>1 DEF Dispatch, GoTo, TypeInv, LoopOK, LoopPc
    <3>5. LocalsInUse'
      <4> SUFFICES ASSUME NEW k \in Loops
                   PROVE  /\ pc'[k] \in {"notify", "callback"} => cur'[k] \in Subs
                          /\ pc'[k] = "callback" => curPoint'[k] \in Points
        BY DEF LocalsInUse
      <4>1. CASE k = l
        BY <2>5, <3>1, <4>1 DEF Dispatch, GoTo, TypeInv, LoopOK
      <4>2. CASE k # l
        BY <2>5, <4>2 DEF Dispatch, GoTo, TypeInv, LoopOK, LocalsInUse
      <4> QED BY <4>1, <4>2
    <3>3. NoLostWakeup'
      BY <2>5 DEF Dispatch, GoTo, TypeInv, LoopOK, ListOK, NoLostWakeup
    <3>4. ListOK' /\ SubOK'
      BY <2>5, <3>1 DEF Dispatch, TypeInv, ListOK, SubOK, subVars
    <3> QED BY <2>1, <3>2, <3>3, <3>4, <3>5 DEF TypeInv
  <2>6. CASE Notify(l)
    <3>1. cur[l] \in Subs /\ point[cur[l]] \in Points \cup {Null}
      BY <2>6 DEF Notify, TypeInv, LocalsInUse, SubOK
    <3>2. LoopOK' /\ LocalsInUse'
      BY <2>6, <3>1 DEF Notify, GoTo, TypeInv, LoopOK, LocalsInUse, LoopPc
    <3>3. NoLostWakeup'
      BY <2>6 DEF Notify, GoTo, TypeInv, LoopOK, NoLostWakeup, listVars
    <3>4. SubOK'
      BY <2>6, <3>1, CountAssumption DEF Notify, TypeInv, SubOK, DataOK, subVars
    <3>5. ListOK'
      BY <2>6, <3>1 DEF Notify, TypeInv, ListOK, subVars, listVars, States
    <3> QED BY <2>1, <3>2, <3>3, <3>4, <3>5 DEF TypeInv
  <2>7. CASE NotifyComplete(l)
    <3>1. cur[l] \in Subs /\ curPoint[l] \in Points
      BY <2>7 DEF NotifyComplete, TypeInv, LocalsInUse
    <3>2. LoopOK' /\ LocalsInUse'
      BY <2>7, <3>1 DEF NotifyComplete, GoTo, TypeInv, LoopOK, LocalsInUse, LoopPc
    <3>3. ListOK' /\ Woken
      <4>1. CASE Subscribed(curPoint[l], cur[l], subSeq[cur[l]], pending)
        BY <3>1, <4>1, SubscribedTypes DEF TypeInv, ListOK
      <4>2. CASE state' = [state EXCEPT ![cur[l]] = "UNSUBSCRIBED"] /\ UNCHANGED <<listVars, fatal>>
        BY <3>1, <4>2 DEF TypeInv, ListOK, listVars, States, Woken
      <4>3. CASE UNCHANGED <<listVars, state, fatal>>
        BY <4>3 DEF TypeInv, ListOK, listVars, Woken
      <4> QED BY <2>7, <4>1, <4>2, <4>3 DEF NotifyComplete
    <3>4. NoLostWakeup'
      BY <2>7, <3>3 DEF NotifyComplete, GoTo, TypeInv, LoopOK, NoLostWakeup, Woken
    <3>5. SubOK'
      BY <2>7 DEF NotifyComplete, TypeInv, SubOK
    <3> QED BY <2>1, <3>2, <3>3, <3>4, <3>5 DEF TypeInv
  <2> QED BY <1>6, <2>2, <2>3, <2>4, <2>5, <2>6, <2>7 DEF RunLoop
<1> QED BY <1>3, <1>4, <1>5, <1>6 DEF Next, Application

\* The types and the wake-ups hold together.
LEMMA TypeInvAlways == Spec => [](TypeInv /\ NoLostWakeup)
<1>1. TypeInv /\ NoLostWakeup /\ UNCHANGED vars => TypeInv' /\ NoLostWakeup'
  BY DEF TypeInv, DataOK, CopyOK, ListOK, SubOK, LoopOK, LocalsInUse, NoLostWakeup,
         vars, dataVars, seqVars, subVars, listVars, loopVars
<1> QED BY <1>1, TypeInit, TypeStep, PTL DEF Spec

\* An event loop never goes to sleep over a pending notification, whatever the
\* writers, the application and the other loops do: transitionToNotifyPending()
\* signals the loop after the list was extended.
THEOREM NoLostWakeupAlways == Spec => []NoLostWakeup
BY TypeInvAlways, PTL

\* Every variable keeps its type.
THEOREM TypeCorrect == Spec => []TypeOK
BY TypeInvAlways, TypeParts, PTL

-----------------------------------------------------------------------------
(* The inductive invariants *)

\* A loop has a current subscriber, one of its own, while it notifies it; the
\* subscriber is pending until the callback begins.
LoopInv ==
    \A l \in Loops :
        /\ pc[l] \in {"notify", "callback"}
             => cur[l] \in Subs /\ LoopOf[cur[l]] = l
        /\ pc[l] = "notify" => state[cur[l]] = "NOTIFY_PENDING"
        /\ pc[l] = "callback" =>
             /\ state[cur[l]] \in {"NOTIFY_NOTIFYING", "NOTIFY_PENDING_DETACH"}
             /\ curPoint[l] \in Points

\* A subscriber knows its model point exactly while it is attached; only the
\* one in its callback is notifying, and it stays with the point it was
\* notified by.
PointInv ==
    \A s \in Subs :
        /\ point[s] = Null <=> state[s] \in {"UNSUBSCRIBED", "NOTIFY_PENDING_DETACH"}
        /\ state[s] \in {"NOTIFY_NOTIFYING", "NOTIFY_PENDING_DETACH"}
             => InCallback(LoopOf[s], s)
        /\ state[s] = "NOTIFY_NOTIFYING" => point[s] = curPoint[LoopOf[s]]

\* Between the two locks of readAndSync() the loop stays where it is, and the
\* attach is as legal as it was.
SyncInv ==
    \A l \in Loops : sync[l] # <<>> =>
        /\ pc[l] \in {"events", "callback"}
        /\ MayAttach(l, sync[l][1], sync[l][2])

ListInv == OnItsList /\ LoopInv /\ PointInv /\ SyncInv /\ ~fatal

-----------------------------------------------------------------------------
(***************************************************************************)
(* Lists.  Every operation moves one subscriber, and puts it where its new *)
(* state says.                                                             *)
(***************************************************************************)
\* The lists without subscriber s.
Without(s, lists, queues) ==
    /\ lists \in [Points -> Seq(Subs)] /\ queues \in [Loops -> Seq(Subs)]
    /\ \A q \in Points : /\ IsInjective(lists[q])
                          /\ ToSet(lists[q]) = ToSet(subscribers[q]) \ {s}
    /\ \A k \in Loops : /\ IsInjective(queues[k])
                         /\ ToSet(queues[k]) = ToSet(pending[k]) \ {s}

\* Subscriber s, now in state st, is on the list of model point p, or on its
\* loop's, or on none.
Placed(s, p, st) ==
    /\ state' = [state EXCEPT ![s] = st]
    /\ \A q \in Points :
         /\ IsInjective(subscribers'[q])
         /\ \A t \in Subs : t \in ToSet(subscribers'[q]) <=>
               IF t = s THEN st = "IDLE" /\ q = p ELSE t \in ToSet(subscribers[q])
    /\ \A k \in Loops :
         /\ IsInjective(pending'[k])
         /\ \A t \in Subs : t \in ToSet(pending'[k]) <=>
               IF t = s THEN st = "NOTIFY_PENDING" /\ k = LoopOf[s]
                        ELSE t \in ToSet(pending[k])

\* A subscriber placed on one list keeps all of them in order.
LEMMA PlacedOnItsList ==
  ASSUME ListOK, OnItsList, NEW s \in Subs, NEW p \in Points, NEW st,
         Placed(s, p, st),
         \A t \in Subs \ {s} : point'[t] = point[t] /\ (Taken(t)' <=> Taken(t)),
         st = "IDLE" => point'[s] = p,
         st = "NOTIFY_PENDING" => ~Taken(s)'
  PROVE  OnItsList'
<1>1. \A t \in Subs : state'[t] = IF t = s THEN st ELSE state[t]
  BY DEF Placed, ListOK
<1>2. ASSUME NEW t \in Subs, NEW q \in Points
      PROVE  t \in ToSet(subscribers'[q]) <=> state'[t] = "IDLE" /\ point'[t] = q
  <2>1. CASE t = s
    BY <1>1, <2>1 DEF Placed
  <2>2. CASE t # s
    BY <1>1, <2>2 DEF Placed, OnItsList
  <2> QED BY <2>1, <2>2
<1>3. ASSUME NEW t \in Subs, NEW k \in Loops
      PROVE  t \in ToSet(pending'[k]) <=>
               state'[t] = "NOTIFY_PENDING" /\ k = LoopOf[t] /\ ~Taken(t)'
  <2>1. CASE t = s
    BY <1>1, <2>1 DEF Placed
  <2>2. CASE t # s
    BY <1>1, <2>2 DEF Placed, OnItsList
  <2> QED BY <2>1, <2>2
<1>4. /\ \A q \in Points : IsInjective(subscribers'[q])
      /\ \A k \in Loops : IsInjective(pending'[k])
  BY DEF Placed
<1> QED BY <1>2, <1>3, <1>4 DEF OnItsList

\* transitionToNotifyPending() places the subscriber on its loop's list.
LEMMA PendingPlaced ==
  ASSUME ListOK, NEW s \in Subs, NEW p \in Points, NEW lists, NEW queues,
         Without(s, lists, queues), NotifyPending(s, lists, queues)
  PROVE  Placed(s, p, "NOTIFY_PENDING") /\ ~fatal'
<1>1. LoopOf[s] \in Loops
  BY PointAssumption
<1>2. /\ \A q \in Points : s \notin ToSet(lists[q])
      /\ \A k \in Loops : s \notin ToSet(queues[k])
  BY DEF Without
<1>3. ~fatal'
  BY <1>2 DEF NotifyPending, InAList
<1>4. ASSUME NEW k \in Loops
      PROVE  /\ IsInjective(pending'[k])
             /\ \A t \in Subs : t \in ToSet(pending'[k]) <=>
                  IF t = s THEN k = LoopOf[s] ELSE t \in ToSet(pending[k])
  <2>1. queues[k] \in Seq(Subs) /\ IsInjective(queues[k])
        /\ ToSet(queues[k]) = ToSet(pending[k]) \ {s}
    BY DEF Without
  <2>2. CASE k = LoopOf[s]
    <3>1. pending'[k] = Append(queues[k], s)
      BY <1>1, <2>2 DEF NotifyPending, Without
    <3> QED BY <1>2, <2>1, <2>2, <3>1, PutElements
  <2>3. CASE k # LoopOf[s]
    <3>1. pending'[k] = queues[k]
      BY <1>1, <2>3 DEF NotifyPending, Without
    <3> QED BY <2>1, <2>3, <3>1
  <2> QED BY <2>2, <2>3
<1>5. ASSUME NEW q \in Points
      PROVE  /\ IsInjective(subscribers'[q])
             /\ \A t \in Subs : t \in ToSet(subscribers'[q]) <=>
                   IF t = s THEN FALSE ELSE t \in ToSet(subscribers[q])
  BY DEF NotifyPending, Without
<1>6. state' = [state EXCEPT ![s] = "NOTIFY_PENDING"]
  BY DEF NotifyPending
<1> QED BY <1>3, <1>4, <1>5, <1>6 DEF Placed

\* transitionToSubscribed() of a subscriber that is on no other list: it
\* becomes idle only when it has the latest sequence number.
LEMMA SubscribedPlaced ==
  ASSUME ListOK, OnItsList, NEW s \in Subs, NEW p \in Points, NEW seq, NEW queues,
         Without(s, [q \in Points |-> RemoveFirst(subscribers[q], s)], queues),
         \A q \in Points \ {p} : s \notin ToSet(subscribers[q]),
         Subscribed(p, s, seq, queues)
  PROVE  /\ ~fatal'
         /\ \/ Placed(s, p, "IDLE") /\ seqNum[p] = seq
            \/ Placed(s, p, "NOTIFY_PENDING")
<1> DEFINE lists == [subscribers EXCEPT ![p] = RemoveFirst(@, s)]
<1>1. \A q \in Points : lists[q] = IF q = p THEN RemoveFirst(subscribers[q], s)
                                            ELSE subscribers[q]
  BY DEF ListOK
<1>2. lists \in [Points -> Seq(Subs)]
  BY RemoveType DEF ListOK
<1>3. ASSUME NEW q \in Points
      PROVE  /\ IsInjective(lists[q])
             /\ ToSet(lists[q]) = ToSet(subscribers[q]) \ {s}
  <2>1. CASE q = p
    BY <1>1, <2>1 DEF Without
  <2>2. CASE q # p
    BY <1>1, <2>2 DEF OnItsList
  <2> QED BY <2>1, <2>2
<1> HIDE DEF lists
<1>4. Without(s, lists, queues)
  BY <1>2, <1>3 DEF Without
<1>5. CASE NotifyPending(s, lists, queues)
  BY <1>4, <1>5, PendingPlaced
<1>6. CASE /\ seqNum[p] = seq
           /\ subscribers' = [lists EXCEPT ![p] = Append(@, s)]
           /\ pending' = queues
           /\ state' = [state EXCEPT ![s] = "IDLE"]
           /\ fatal' = InAList(s, lists, queues)
  <2>1. /\ \A q \in Points : s \notin ToSet(lists[q])
        /\ \A k \in Loops : s \notin ToSet(queues[k])
    BY <1>4 DEF Without
  <2>2. ~fatal'
    BY <1>6, <2>1 DEF InAList
  <2>3. ASSUME NEW q \in Points
        PROVE  /\ IsInjective(subscribers'[q])
               /\ \A t \in Subs : t \in ToSet(subscribers'[q]) <=>
                     IF t = s THEN q = p ELSE t \in ToSet(subscribers[q])
    <3>1. lists[q] \in Seq(Subs)
      BY <1>2
    <3>2. CASE q = p
      <4>1. subscribers'[q] = Append(lists[q], s)
        BY <1>2, <1>6, <3>2
      <4>2. /\ ToSet(Append(lists[q], s)) = ToSet(lists[q]) \cup {s}
            /\ IsInjective(Append(lists[q], s))
        BY <1>3, <2>1, <3>1, PutElements
      <4>3. ToSet(lists[q]) = ToSet(subscribers[q]) \ {s}
        BY <1>3
      <4> QED BY <3>2, <4>1, <4>2, <4>3
    <3>3. CASE q # p
      <4>1. subscribers'[q] = lists[q]
        BY <1>2, <1>6, <3>3
      <4> QED BY <1>3, <3>3, <4>1
    <3> QED BY <3>2, <3>3
  <2>4. ASSUME NEW k \in Loops
        PROVE  /\ IsInjective(pending'[k])
               /\ \A t \in Subs : t \in ToSet(pending'[k]) <=>
                     IF t = s THEN FALSE ELSE t \in ToSet(pending[k])
    BY <1>4, <1>6 DEF Without
  <2>5. Placed(s, p, "IDLE")
    BY <1>6, <2>3, <2>4 DEF Placed
  <2> QED BY <1>6, <2>2, <2>5
<1> QED BY <1>5, <1>6 DEF Subscribed, lists

\* What is left of the lists when a subscriber is taken off them.
LEMMA WithoutIt ==
  ASSUME ListOK, OnItsList, NEW s \in Subs
  PROVE  LET lists == [q \in Points |-> RemoveFirst(subscribers[q], s)]
         IN  /\ Without(s, lists, Unpend(s))
             /\ state[s] # "NOTIFY_PENDING" => Without(s, lists, pending)
<1> DEFINE lists == [q \in Points |-> RemoveFirst(subscribers[q], s)]
<1>1. LoopOf[s] \in Loops
  BY PointAssumption
<1>2. ASSUME NEW q \in Points
      PROVE  /\ lists[q] \in Seq(Subs) /\ IsInjective(lists[q])
             /\ ToSet(lists[q]) = ToSet(subscribers[q]) \ {s}
  <2>1. subscribers[q] \in Seq(Subs) /\ IsInjective(subscribers[q])
    BY DEF ListOK, OnItsList
  <2> QED BY <2>1, RemoveElements
<1>3. lists \in [Points -> Seq(Subs)]
  BY <1>2
<1>4. ASSUME NEW k \in Loops
      PROVE  /\ Unpend(s)[k] \in Seq(Subs) /\ IsInjective(Unpend(s)[k])
             /\ ToSet(Unpend(s)[k]) = ToSet(pending[k]) \ {s}
  <2>1. pending[k] \in Seq(Subs) /\ IsInjective(pending[k])
    BY DEF ListOK, OnItsList
  <2>2. CASE k = LoopOf[s]
    <3>1. Unpend(s)[k] = RemoveFirst(pending[k], s)
      BY <2>2 DEF Unpend, ListOK
    <3> QED BY <2>1, <3>1, RemoveElements
  <2>3. CASE k # LoopOf[s]
    <3>1. Unpend(s)[k] = pending[k]
      BY <2>3 DEF Unpend, ListOK
    <3>2. s \notin ToSet(pending[k])
      BY <2>3 DEF OnItsList
    <3> QED BY <2>1, <3>1, <3>2
  <2> QED BY <2>2, <2>3
<1>5. Unpend(s) \in [Loops -> Seq(Subs)]
  BY <1>1, RemoveType DEF Unpend, ListOK
<1>6. Without(s, lists, Unpend(s))
  BY <1>2, <1>3, <1>4, <1>5 DEF Without
<1>7. ASSUME state[s] # "NOTIFY_PENDING" PROVE Without(s, lists, pending)
  <2>1. \A k \in Loops : s \notin ToSet(pending[k]) /\ IsInjective(pending[k])
    BY <1>7 DEF OnItsList
  <2> QED BY <1>2, <1>3, <2>1 DEF Without, ListOK
<1> QED BY <1>6, <1>7

-----------------------------------------------------------------------------
(* The operations, one by one *)

\* All lists are empty at first.
LEMMA ListInit == Init => ListInv
<1> SUFFICES ASSUME Init PROVE ListInv
  OBVIOUS
<1>1. ToSet(<<>>) = {} /\ IsInjective(<<>>)
  BY DEF ToSet, IsInjective
<1>2. OnItsList
  BY <1>1 DEF Init, OnItsList
<1>3. LoopInv /\ PointInv /\ SyncInv /\ ~fatal
  BY DEF Init, LoopInv, PointInv, SyncInv
<1> QED BY <1>2, <1>3 DEF ListInv

\* The steps of writers but for handing out notifications: the subscribers and
\* the loops stay as they are.
LEMMA WriteKeeps ==
  ASSUME ListInv, UNCHANGED <<subVars, point, listVars, loopVars, sync, fatal>>
  PROVE  ListInv'
<1>1. OnItsList'
  BY DEF ListInv, OnItsList, Taken, subVars, listVars, loopVars
<1>2. LoopInv' /\ PointInv'
  BY DEF ListInv, LoopInv, PointInv, InCallback, subVars, loopVars
<1>3. SyncInv'
  BY DEF ListInv, SyncInv, MayAttach, InCallback, loopVars
<1> QED BY <1>1, <1>2, <1>3 DEF ListInv

\* A writer hands out one notification, or has none left to hand out.
LEMMA NotifyNextKeeps ==
  ASSUME TypeInv, ListInv, NotifyNext
  PROVE  /\ ListInv'
         /\ notifying' = notifying => \E s \in Subs : /\ state[s] = "IDLE"
                                                     /\ point[s] = notifying
                                                     /\ state' = [state EXCEPT ![s] = "NOTIFY_PENDING"]
         /\ notifying' # notifying => /\ \A s \in Subs : state[s] = "IDLE" => point[s] # notifying
                                      /\ UNCHANGED state
<1>1. notifying \in Points /\ subscribers[notifying] \in Seq(Subs)
  BY DEF NotifyNext, TypeInv, DataOK, ListOK
<1>2. CASE subscribers[notifying] = <<>>
  <2>1. ListInv'
    BY <1>2, WriteKeeps DEF NotifyNext, subVars, listVars
  <2>2. \A s \in Subs : state[s] = "IDLE" => point[s] # notifying
    BY <1>1, <1>2, ListElements DEF ListInv, OnItsList
  <2>3. notifying' # notifying /\ UNCHANGED state
    BY <1>1, <1>2, PointAssumption DEF NotifyNext
  <2> QED BY <2>1, <2>2, <2>3
<1>3. CASE subscribers[notifying] # <<>>
  <2> DEFINE s == Head(subscribers[notifying])
             lists == [subscribers EXCEPT ![notifying] = Tail(@)]
  <2>1. IsInjective(subscribers[notifying])
    BY <1>1 DEF ListInv, OnItsList
  <2>2. /\ Tail(subscribers[notifying]) \in Seq(Subs)
        /\ s \in ToSet(subscribers[notifying])
        /\ ToSet(Tail(subscribers[notifying])) = ToSet(subscribers[notifying]) \ {s}
        /\ IsInjective(Tail(subscribers[notifying]))
    BY <1>1, <1>3, <2>1, GetElements
  <2>3. s \in Subs
    BY <1>1, <2>2, ListElements
  <2> HIDE DEF s
  <2>4. state[s] = "IDLE" /\ point[s] = notifying
    BY <1>1, <2>2, <2>3 DEF ListInv, OnItsList
  <2>5. Without(s, lists, pending)
    <3>1. \A k \in Loops : s \notin ToSet(pending[k]) /\ IsInjective(pending[k])
      BY <2>3, <2>4 DEF ListInv, OnItsList
    <3>2. lists \in [Points -> Seq(Subs)]
      BY <1>1, <2>2 DEF TypeInv, ListOK
    <3>3. ASSUME NEW q \in Points
          PROVE  IsInjective(lists[q]) /\ ToSet(lists[q]) = ToSet(subscribers[q]) \ {s}
      <4>1. CASE q = notifying
        BY <2>2, <4>1 DEF TypeInv, ListOK
      <4>2. CASE q # notifying
        <5>1. lists[q] = subscribers[q]
          BY <4>2 DEF TypeInv, ListOK
        <5>2. s \notin ToSet(subscribers[q]) /\ IsInjective(subscribers[q])
          BY <2>3, <2>4, <4>2 DEF ListInv, OnItsList
        <5> QED BY <5>1, <5>2
      <4> QED BY <4>1, <4>2
    <3> QED BY <3>1, <3>2, <3>3 DEF Without, TypeInv, ListOK
  <2>6. NotifyPending(s, lists, pending) /\ notifying' = notifying
    BY <1>3, <2>4 DEF NotifyNext, s
  <2>7. Placed(s, notifying, "NOTIFY_PENDING") /\ ~fatal'
    BY <1>1, <2>3, <2>5, <2>6, PendingPlaced DEF TypeInv
  <2>8. UNCHANGED <<point, loopVars, sync>>
    BY DEF NotifyNext
  <2>9. ~Taken(s)
    BY <2>3, <2>4, PointAssumption DEF Taken, ListInv, LoopInv
  <2>10. OnItsList'
    <3>1. \A t \in Subs : point'[t] = point[t] /\ (Taken(t)' <=> Taken(t))
      BY <2>8 DEF Taken, loopVars
    <3> QED BY <1>1, <2>3, <2>7, <2>9, <3>1, PlacedOnItsList DEF TypeInv, ListInv
  <2>11. \A t \in Subs : state'[t] = IF t = s THEN "NOTIFY_PENDING" ELSE state[t]
    BY <2>7 DEF Placed, TypeInv, ListOK
  <2>12. LoopInv'
    BY <2>4, <2>8, <2>11 DEF ListInv, LoopInv, loopVars
  <2>13. PointInv'
    BY <2>4, <2>8, <2>11 DEF ListInv, PointInv, InCallback, loopVars
  <2>14. SyncInv'
    BY <2>8 DEF ListInv, SyncInv, MayAttach, InCallback, loopVars
  <2>15. state' = [state EXCEPT ![s] = "NOTIFY_PENDING"]
    BY <2>7 DEF Placed
  <2> QED BY <2>3, <2>4, <2>6, <2>7, <2>10, <2>12, <2>13, <2>14, <2>15 DEF ListInv
<1> QED BY <1>2, <1>3

\* Attaching in the thread of loop l.
LEMMA AttachKeeps ==
  ASSUME TypeInv, ListInv, ~SwitchInCallback,
         NEW l \in Loops, NEW s \in Subs, NEW p \in Points, NEW seq, NEW ver,
         pc[l] \in {"events", "callback"}, MayAttach(l, s, p),
         AttachSubscriber(p, s, seq, ver), UNCHANGED loopVars
  PROVE  /\ OnItsList' /\ LoopInv' /\ PointInv' /\ ~fatal'
         /\ \E st \in {"IDLE", "NOTIFY_PENDING", "NOTIFY_NOTIFYING"} :
              /\ state' = [state EXCEPT ![s] = st]
              /\ st = "IDLE" => seqNum[p] = seq
<1> DEFINE lists == [q \in Points |-> RemoveFirst(subscribers[q], s)]
<1>1. /\ ListOK /\ OnItsList /\ LoopInv /\ PointInv /\ ~fatal
      /\ Without(s, lists, Unpend(s))
      /\ state[s] # "NOTIFY_PENDING" => Without(s, lists, pending)
  BY WithoutIt DEF TypeInv, ListInv
<1>2. LoopOf[s] = l /\ point[s] \in {Null, p} /\ ~Taken(s)
  BY DEF MayAttach, Taken
<1>3. \A q \in Points \ {p} : s \notin ToSet(subscribers[q])
  BY <1>1, <1>2, PointAssumption DEF OnItsList
<1>4. /\ \A t \in Subs : Taken(t)' <=> Taken(t)
      /\ \A t \in Subs : point'[t] = IF t = s THEN p ELSE point[t]
  BY DEF Taken, loopVars, AttachSubscriber, TypeInv, SubOK
<1> HIDE DEF lists
<1>5. CASE state[s] \in {"NOTIFY_NOTIFYING", "NOTIFY_PENDING_DETACH"}
  <2>1. /\ state' = [state EXCEPT ![s] = "NOTIFY_NOTIFYING"]
        /\ UNCHANGED <<subscribers, pending, fatal>>
    <3>1. state[s] = "NOTIFY_NOTIFYING" => state = [state EXCEPT ![s] = "NOTIFY_NOTIFYING"]
      BY <1>1 DEF ListOK
    <3> QED BY <1>5, <3>1 DEF AttachSubscriber, listVars
  <2>2. \A t \in Subs : state'[t] = IF t = s THEN "NOTIFY_NOTIFYING" ELSE state[t]
    BY <1>1, <2>1 DEF ListOK
  <2>3. InCallback(l, s) /\ p = curPoint[l]
    BY <1>1, <1>2, <1>5 DEF PointInv, MayAttach
  <2>4. OnItsList'
    <3>1. \A q \in Points : s \notin ToSet(subscribers[q]) /\ IsInjective(subscribers[q])
      BY <1>1, <1>5 DEF OnItsList
    <3>2. \A k \in Loops : s \notin ToSet(pending[k]) /\ IsInjective(pending[k])
      BY <1>1, <1>5 DEF OnItsList
    <3>3. Placed(s, p, "NOTIFY_NOTIFYING")
      BY <2>1, <3>1, <3>2 DEF Placed
    <3> QED BY <1>1, <1>4, <3>3, PlacedOnItsList
  <2>5. LoopInv'
    BY <1>1, <1>5, <2>2 DEF LoopInv, loopVars
  <2>6. PointInv'
    BY <1>1, <1>2, <1>4, <2>2, <2>3, PointAssumption DEF PointInv, InCallback, loopVars
  <2> QED BY <1>1, <2>1, <2>4, <2>5, <2>6
<1>6. CASE state[s] \in {"UNSUBSCRIBED", "IDLE", "NOTIFY_PENDING"}
  <2>1. /\ ~fatal'
        /\ \/ Placed(s, p, "IDLE") /\ seqNum[p] = seq
           \/ Placed(s, p, "NOTIFY_PENDING")
    <3>1. CASE state[s] = "NOTIFY_PENDING"
      <4>1. Subscribed(p, s, seq, Unpend(s))
        BY <3>1 DEF AttachSubscriber
      <4> QED BY <1>1, <1>3, <4>1, SubscribedPlaced DEF lists
    <3>2. CASE state[s] # "NOTIFY_PENDING"
      <4>1. Subscribed(p, s, seq, pending)
        BY <1>6, <3>2 DEF AttachSubscriber
      <4> QED BY <1>1, <1>3, <3>2, <4>1, SubscribedPlaced DEF lists
    <3> QED BY <3>1, <3>2
  <2>2. PICK st \in {"IDLE", "NOTIFY_PENDING"} : Placed(s, p, st) /\ (st = "IDLE" => seqNum[p] = seq)
    BY <2>1
  <2>3. \A t \in Subs : state'[t] = IF t = s THEN st ELSE state[t]
    BY <1>1, <2>2 DEF ListOK, Placed
  <2>4. OnItsList'
    BY <1>1, <1>2, <1>4, <2>2, PlacedOnItsList
  <2>5. LoopInv'
    <3>1. \A k \in Loops : pc[k] \in {"notify", "callback"} => cur[k] # s
      BY <1>1, <1>2, <1>6 DEF LoopInv
    <3> QED BY <1>1, <2>3, <3>1 DEF LoopInv, loopVars
  <2>6. PointInv'
    BY <1>1, <1>4, <2>3, PointAssumption DEF PointInv, InCallback, loopVars
  <2>7. state' = [state EXCEPT ![s] = st]
    BY <2>2 DEF Placed
  <2> QED BY <2>1, <2>2, <2>4, <2>5, <2>6, <2>7
<1> QED BY <1>1, <1>5, <1>6 DEF ListOK, States

\* What another loop is about to attach stays legal.
LEMMA SyncKeeps ==
  ASSUME SyncInv, LoopOK, NEW l \in Loops, NEW s \in Subs, LoopOf[s] = l,
         \A t \in Subs \ {s} : point'[t] = point[t], sync'[l] = <<>>,
         \A k \in Loops \ {l} : sync'[k] = sync[k] /\ pc'[k] = pc[k]
                                /\ cur'[k] = cur[k] /\ curPoint'[k] = curPoint[k]
  PROVE  SyncInv'
<1> SUFFICES ASSUME NEW k \in Loops, sync'[k] # <<>>
             PROVE  pc'[k] \in {"events", "callback"} /\ MayAttach(k, sync[k][1], sync[k][2])'
  BY DEF SyncInv
<1>1. k # l /\ sync[k] # <<>> /\ sync'[k] = sync[k]
  OBVIOUS
<1>2. pc[k] \in {"events", "callback"} /\ MayAttach(k, sync[k][1], sync[k][2])
  BY <1>1 DEF SyncInv
<1>3. sync[k][1] \in Subs /\ LoopOf[sync[k][1]] = k
  BY <1>1, <1>2 DEF LoopOK, MayAttach
<1>4. point'[sync[k][1]] = point[sync[k][1]]
  BY <1>1, <1>3
<1> QED BY <1>1, <1>2, <1>4 DEF MayAttach, InCallback

\* detach() takes the subscriber off its list, or leaves it to the loop.
LEMMA DetachKeeps ==
  ASSUME TypeInv, ListInv, NEW l \in Loops, NEW s \in Subs, NEW p \in Points,
         Detach(l, s, p)
  PROVE  /\ ListInv'
         /\ \E st \in {"UNSUBSCRIBED", "NOTIFY_PENDING_DETACH"} :
              state' = [state EXCEPT ![s] = st]
<1>1. /\ ListOK /\ OnItsList /\ LoopInv /\ PointInv /\ SyncInv /\ ~fatal
      /\ pc[l] \in {"events", "callback"} /\ sync[l] = <<>>
      /\ LoopOf[s] = l /\ point[s] \in {Null, p} /\ DetachSubscriber(p, s)
      /\ UNCHANGED <<loopVars, sync, fatal>> /\ ~Taken(s)
  BY DEF TypeInv, ListInv, Detach, AppRuns, Taken
<1>2. /\ \A t \in Subs : Taken(t)' <=> Taken(t)
      /\ \A t \in Subs : point'[t] = IF t = s THEN Null ELSE point[t]
  BY <1>1 DEF Taken, loopVars, DetachSubscriber, TypeInv, SubOK
<1>3. SyncInv'
  <2>1. /\ \A t \in Subs \ {s} : point'[t] = point[t]
        /\ \A k \in Loops \ {l} : sync'[k] = sync[k] /\ pc'[k] = pc[k]
                                   /\ cur'[k] = cur[k] /\ curPoint'[k] = curPoint[k]
        /\ sync'[l] = <<>>
    BY <1>1, <1>2 DEF loopVars
  <2> QED BY <1>1, <2>1, SyncKeeps DEF TypeInv
<1> DEFINE st == IF state[s] \in {"NOTIFY_NOTIFYING", "NOTIFY_PENDING_DETACH"}
                 THEN "NOTIFY_PENDING_DETACH" ELSE "UNSUBSCRIBED"
<1>4. Placed(s, p, st)
  <2>1. /\ \A q \in Points : IsInjective(subscribers[q])
        /\ \A k \in Loops : IsInjective(pending[k])
    BY <1>1 DEF OnItsList
  <2>2. CASE state[s] = "IDLE"
    <3>1. point[s] = p
      BY <1>1, <2>2 DEF PointInv
    <3>2. subscribers[p] \in Seq(Subs) /\ IsInjective(subscribers[p])
      BY <1>1, <2>1 DEF ListOK
    <3>3. /\ subscribers' = [subscribers EXCEPT ![p] = RemoveFirst(@, s)]
          /\ state' = [state EXCEPT ![s] = "UNSUBSCRIBED"]
          /\ UNCHANGED pending
      BY <1>1, <2>2 DEF DetachSubscriber
    <3>4. ASSUME NEW q \in Points
          PROVE  /\ IsInjective(subscribers'[q])
                 /\ ToSet(subscribers'[q]) = ToSet(subscribers[q]) \ {s}
      <4>1. CASE q = p
        <5>1. subscribers'[q] = RemoveFirst(subscribers[p], s)
          BY <1>1, <3>3, <4>1 DEF ListOK
        <5> QED BY <3>2, <4>1, <5>1, RemoveElements
      <4>2. CASE q # p
        <5>1. subscribers'[q] = subscribers[q] /\ s \notin ToSet(subscribers[q])
          BY <1>1, <3>1, <3>3, <4>2 DEF ListOK, OnItsList
        <5> QED BY <2>1, <5>1
      <4> QED BY <4>1, <4>2
    <3>5. \A k \in Loops : s \notin ToSet(pending[k])
      BY <1>1, <2>2 DEF OnItsList
    <3>6. st = "UNSUBSCRIBED"
      BY <2>2
    <3> HIDE DEF st
    <3> QED BY <2>1, <3>3, <3>4, <3>5, <3>6 DEF Placed
  <2>3. CASE state[s] = "NOTIFY_PENDING"
    <3>1. /\ pending' = Unpend(s)
          /\ state' = [state EXCEPT ![s] = "UNSUBSCRIBED"]
          /\ UNCHANGED subscribers
      BY <1>1, <2>3 DEF DetachSubscriber
    <3>2. \A k \in Loops : /\ IsInjective(pending'[k])
                           /\ ToSet(pending'[k]) = ToSet(pending[k]) \ {s}
      BY <1>1, <3>1, WithoutIt DEF Without
    <3>3. \A q \in Points : s \notin ToSet(subscribers[q])
      BY <1>1, <2>3 DEF OnItsList
    <3>4. st = "UNSUBSCRIBED"
      BY <2>3
    <3> HIDE DEF st
    <3> QED BY <2>1, <3>1, <3>2, <3>3, <3>4 DEF Placed
  <2>4. CASE state[s] \in {"UNSUBSCRIBED", "NOTIFY_NOTIFYING", "NOTIFY_PENDING_DETACH"}
    <3>1. state' = [state EXCEPT ![s] = st] /\ UNCHANGED <<subscribers, pending>>
      <4>1. state[s] \in {"UNSUBSCRIBED", "NOTIFY_PENDING_DETACH"}
            => state = [state EXCEPT ![s] = st]
        BY <1>1 DEF ListOK
      <4> QED BY <1>1, <2>4, <4>1 DEF DetachSubscriber, listVars
    <3>2. /\ \A q \in Points : s \notin ToSet(subscribers[q])
          /\ \A k \in Loops : s \notin ToSet(pending[k])
      BY <1>1, <2>4 DEF OnItsList
    <3>3. st \notin {"IDLE", "NOTIFY_PENDING"}
      OBVIOUS
    <3> HIDE DEF st
    <3> QED BY <2>1, <3>1, <3>2, <3>3 DEF Placed
  <2> QED BY <1>1, <2>2, <2>3, <2>4 DEF ListOK, States
<1>5. st \in {"UNSUBSCRIBED", "NOTIFY_PENDING_DETACH"}
      /\ (st = "NOTIFY_PENDING_DETACH" <=> state[s] \in {"NOTIFY_NOTIFYING", "NOTIFY_PENDING_DETACH"})
  OBVIOUS
<1> HIDE DEF st
<1>6. \A t \in Subs : state'[t] = IF t = s THEN st ELSE state[t]
  BY <1>1, <1>4 DEF ListOK, Placed
<1>7. OnItsList'
  BY <1>1, <1>2, <1>4, <1>5, PlacedOnItsList
<1>8. LoopInv'
  <2>1. \A k \in Loops : pc[k] = "notify" => cur[k] # s
    BY <1>1 DEF LoopInv
  <2> QED BY <1>1, <1>5, <1>6, <2>1 DEF LoopInv, loopVars
<1>9. PointInv'
  BY <1>1, <1>2, <1>5, <1>6 DEF PointInv, InCallback, loopVars
<1>10. state' = [state EXCEPT ![s] = st]
  BY <1>4 DEF Placed
<1> QED BY <1>1, <1>3, <1>5, <1>7, <1>8, <1>9, <1>10 DEF ListInv

\* The application's calls in the thread of loop l.
LEMMA ApplicationKeeps ==
  ASSUME TypeInv, ListInv, ~SwitchInCallback, NEW l \in Loops, Application(l)
  PROVE  ListInv'
<1>1. ASSUME NEW s \in Subs, NEW p \in Points, Attach(l, s, p) PROVE ListInv'
  <2>1. OnItsList' /\ LoopInv' /\ PointInv' /\ ~fatal'
    BY <1>1, AttachKeeps DEF Attach, AppRuns
  <2>2. /\ \A t \in Subs \ {s} : point'[t] = point[t]
        /\ \A k \in Loops \ {l} : sync'[k] = sync[k] /\ pc'[k] = pc[k]
                                   /\ cur'[k] = cur[k] /\ curPoint'[k] = curPoint[k]
        /\ sync'[l] = <<>> /\ LoopOf[s] = l
    BY <1>1 DEF Attach, AppRuns, AttachSubscriber, MayAttach, loopVars, TypeInv, SubOK
  <2>3. SyncInv'
    BY <2>2, SyncKeeps DEF TypeInv, ListInv
  <2> QED BY <2>1, <2>3 DEF ListInv
<1>2. ASSUME NEW s \in Subs, NEW p \in Points, Detach(l, s, p) PROVE ListInv'
  BY <1>2, DetachKeeps
<1>3. ASSUME NEW s \in Subs, NEW p \in Points, SyncRead(l, s, p) PROVE ListInv'
  <2>1. OnItsList' /\ LoopInv' /\ PointInv' /\ ~fatal'
    BY <1>3 DEF SyncRead, ListInv, OnItsList, LoopInv, PointInv, Taken, InCallback,
                subVars, listVars, loopVars
  <2>2. SyncInv'
    <3> SUFFICES ASSUME NEW k \in Loops, sync'[k] # <<>>
                 PROVE  /\ pc'[k] \in {"events", "callback"}
                        /\ MayAttach(k, sync[k][1], sync[k][2])'
      BY DEF SyncInv
    <3>1. CASE k = l
      <4>1. sync'[k] = <<s, p, seqNum[p], version[p]>>
        BY <1>3, <3>1 DEF SyncRead, TypeInv, LoopOK
      <4>2. sync'[k][1] = s /\ sync'[k][2] = p
        BY <4>1
      <4> QED BY <1>3, <3>1, <4>2 DEF SyncRead, AppRuns, MayAttach, InCallback, loopVars
    <3>2. CASE k # l
      <4>1. sync'[k] = sync[k]
        BY <1>3, <3>2 DEF SyncRead, TypeInv, LoopOK
      <4>2. pc[k] \in {"events", "callback"} /\ MayAttach(k, sync[k][1], sync[k][2])
        BY <4>1 DEF ListInv, SyncInv
      <4> QED BY <1>3, <4>1, <4>2 DEF SyncRead, MayAttach, InCallback, loopVars
    <3> QED BY <3>1, <3>2
  <2> QED BY <2>1, <2>2 DEF ListInv
<1>4. ASSUME SyncAttach(l) PROVE ListInv'
  <2> DEFINE s == sync[l][1]
             p == sync[l][2]
  <2>1. s \in Subs /\ p \in Points
    BY <1>4 DEF SyncAttach, TypeInv, LoopOK
  <2>2. pc[l] \in {"events", "callback"} /\ MayAttach(l, s, p)
    BY <1>4 DEF SyncAttach, ListInv, SyncInv
  <2>3. AttachSubscriber(p, s, sync[l][3], sync[l][4])
    BY <1>4 DEF SyncAttach
  <2> HIDE DEF s, p
  <2>4. OnItsList' /\ LoopInv' /\ PointInv' /\ ~fatal'
    BY <1>4, <2>1, <2>2, <2>3, AttachKeeps DEF SyncAttach
  <2>5. /\ \A t \in Subs \ {s} : point'[t] = point[t]
        /\ \A k \in Loops \ {l} : sync'[k] = sync[k] /\ pc'[k] = pc[k]
                                   /\ cur'[k] = cur[k] /\ curPoint'[k] = curPoint[k]
        /\ sync'[l] = <<>> /\ LoopOf[s] = l
    BY <1>4, <2>1, <2>2, <2>3 DEF SyncAttach, AttachSubscriber, MayAttach, loopVars, TypeInv,
                                  SubOK, LoopOK
  <2>6. SyncInv'
    BY <2>1, <2>5, SyncKeeps DEF TypeInv, ListInv
  <2> QED BY <2>4, <2>6 DEF ListInv
<1> QED BY <1>1, <1>2, <1>3, <1>4 DEF Application

\* An event loop goes on, and notifies nobody.
LEMMA LoopGoesOn ==
  ASSUME TypeInv, ListInv, NEW l \in Loops, NEW where, GoTo(l, where), sync[l] = <<>>,
         pc[l] \notin {"notify", "callback"}, where \notin {"notify", "callback"},
         UNCHANGED <<state, point, subscribers, pending, cur, curPoint, sync, fatal>>
  PROVE  ListInv'
<1>1. \A k \in Loops : pc'[k] = IF k = l THEN where ELSE pc[k]
  BY DEF GoTo, TypeInv, LoopOK
<1>2. \A t \in Subs : Taken(t)' <=> Taken(t)
  BY <1>1, PointAssumption DEF Taken
<1>3. OnItsList'
  BY <1>2 DEF ListInv, OnItsList
<1>4. LoopInv'
  BY <1>1 DEF ListInv, LoopInv
<1>5. PointInv'
  BY <1>1, PointAssumption DEF ListInv, PointInv, InCallback
<1>6. SyncInv'
  BY <1>1 DEF ListInv, SyncInv, MayAttach, InCallback
<1> QED BY <1>3, <1>4, <1>5, <1>6 DEF ListInv

\* The loop takes the first notification off its list.
LEMMA DispatchKeeps ==
  ASSUME TypeInv, ListInv, NEW l \in Loops, Dispatch(l)
  PROVE  ListInv'
<1>1. pc[l] = "dispatch" /\ sync[l] = <<>>
      /\ UNCHANGED <<state, point, subscribers, curPoint, sync, fatal>>
  BY DEF Dispatch, ListInv, SyncInv, subVars
<1>2. CASE pending[l] = <<>>
  BY <1>1, <1>2, LoopGoesOn DEF Dispatch
<1>3. CASE pending[l] # <<>>
  <2> DEFINE s == Head(pending[l])
  <2>1. pending[l] \in Seq(Subs) /\ IsInjective(pending[l])
    BY DEF TypeInv, ListOK, ListInv, OnItsList
  <2>2. /\ s \in ToSet(pending[l])
        /\ ToSet(Tail(pending[l])) = ToSet(pending[l]) \ {s}
        /\ IsInjective(Tail(pending[l]))
    BY <1>3, <2>1, GetElements
  <2>3. s \in Subs
    BY <2>1, <2>2, ListElements
  <2>4. /\ \A k \in Loops : pc'[k] = IF k = l THEN "notify" ELSE pc[k]
        /\ \A k \in Loops : cur'[k] = IF k = l THEN s ELSE cur[k]
        /\ \A k \in Loops : pending'[k] = IF k = l THEN Tail(pending[l]) ELSE pending[k]
    BY <1>3 DEF Dispatch, GoTo, TypeInv, LoopOK, ListOK
  <2> HIDE DEF s
  <2>5. state[s] = "NOTIFY_PENDING" /\ LoopOf[s] = l
    BY <2>2, <2>3 DEF ListInv, OnItsList
  <2>6. \A t \in Subs : Taken(t)' <=> t = s \/ Taken(t)
    <3>1. \A t \in Subs : LoopOf[t] = l => (Taken(t)' <=> t = s) /\ ~Taken(t)
      BY <1>1, <2>4 DEF Taken
    <3>2. \A t \in Subs : LoopOf[t] # l => (Taken(t)' <=> Taken(t)) /\ t # s
      BY <2>4, <2>5, PointAssumption DEF Taken
    <3> QED BY <3>1, <3>2
  <2>7. OnItsList'
    <3>1. ASSUME NEW t \in Subs, NEW k \in Loops
          PROVE  t \in ToSet(pending'[k]) <=>
                   state'[t] = "NOTIFY_PENDING" /\ k = LoopOf[t] /\ ~Taken(t)'
      <4>1. t \in ToSet(pending[k]) <=> state[t] = "NOTIFY_PENDING" /\ k = LoopOf[t] /\ ~Taken(t)
        BY DEF ListInv, OnItsList
      <4>2. CASE k = l
        BY <1>1, <2>2, <2>4, <2>6, <4>1, <4>2
      <4>3. CASE k # l
        BY <1>1, <2>4, <2>5, <2>6, <4>1, <4>3
      <4> QED BY <4>2, <4>3
    <3>2. \A k \in Loops : IsInjective(pending'[k])
      BY <2>2, <2>4 DEF ListInv, OnItsList
    <3> QED BY <1>1, <3>1, <3>2 DEF ListInv, OnItsList
  <2>8. LoopInv'
    BY <1>1, <2>3, <2>4, <2>5 DEF ListInv, LoopInv
  <2>9. PointInv'
    BY <1>1, <2>4, PointAssumption DEF ListInv, PointInv, InCallback
  <2>10. SyncInv'
    BY <1>1, <2>4 DEF ListInv, SyncInv, MayAttach, InCallback
  <2> QED BY <1>1, <2>7, <2>8, <2>9, <2>10 DEF ListInv
<1> QED BY <1>2, <1>3

\* The callback begins: the subscriber is told of the newest change.
LEMMA NotifyKeeps ==
  ASSUME TypeInv, ListInv, NEW l \in Loops, Notify(l)
  PROVE  /\ ListInv' /\ cur[l] \in Subs /\ point[cur[l]] \in Points
         /\ state' = [state EXCEPT ![cur[l]] = "NOTIFY_NOTIFYING"]
         /\ subSeq' = [subSeq EXCEPT ![cur[l]] = seqNum[point[cur[l]]]]
         /\ seen' = [seen EXCEPT ![cur[l]] = version[point[cur[l]]]]
<1> DEFINE s == cur[l]
           p == point[s]
<1>1. /\ pc[l] = "notify" /\ s \in Subs /\ LoopOf[s] = l /\ state[s] = "NOTIFY_PENDING"
      /\ sync[l] = <<>>
  BY DEF Notify, ListInv, LoopInv, SyncInv
<1>2. p \in Points /\ p # Null
  <2>1. p # Null
    BY <1>1 DEF ListInv, PointInv
  <2> QED BY <1>1, <2>1 DEF TypeInv, SubOK
<1>3. /\ UNCHANGED <<subscribers, pending, point, cur, sync, fatal>>
      /\ state' = [state EXCEPT ![s] = "NOTIFY_NOTIFYING"]
      /\ subSeq' = [subSeq EXCEPT ![s] = seqNum[p]]
      /\ seen' = [seen EXCEPT ![s] = version[p]]
      /\ pc' = [pc EXCEPT ![l] = "callback"]
      /\ curPoint' = [curPoint EXCEPT ![l] = p]
  BY <1>1, <1>2 DEF Notify, GoTo, listVars
<1>4. /\ \A k \in Loops : pc'[k] = IF k = l THEN "callback" ELSE pc[k]
      /\ \A k \in Loops : curPoint'[k] = IF k = l THEN p ELSE curPoint[k]
      /\ \A t \in Subs : state'[t] = IF t = s THEN "NOTIFY_NOTIFYING" ELSE state[t]
  BY <1>1, <1>3 DEF TypeInv, LoopOK, ListOK
<1> HIDE DEF s, p
<1>5. Taken(s) /\ \A t \in Subs \ {s} : Taken(t)' <=> Taken(t)
  <2>1. Taken(s)
    BY <1>1 DEF Taken, s
  <2>2. ASSUME NEW t \in Subs \ {s} PROVE Taken(t)' <=> Taken(t)
    <3>1. CASE LoopOf[t] = l
      BY <1>1, <1>3, <1>4, <3>1 DEF Taken, s
    <3>2. CASE LoopOf[t] # l
      BY <1>3, <1>4, <3>2, PointAssumption DEF Taken
    <3> QED BY <3>1, <3>2
  <2> QED BY <2>1, <2>2
<1>6. OnItsList'
  <2>1. /\ \A q \in Points : s \notin ToSet(subscribers[q]) /\ IsInjective(subscribers[q])
        /\ \A k \in Loops : s \notin ToSet(pending[k]) /\ IsInjective(pending[k])
    BY <1>1, <1>5 DEF ListInv, OnItsList
  <2>2. Placed(s, p, "NOTIFY_NOTIFYING")
    BY <1>3, <2>1 DEF Placed
  <2>3. \A t \in Subs \ {s} : point'[t] = point[t] /\ (Taken(t)' <=> Taken(t))
    BY <1>3, <1>5
  <2> QED BY <1>1, <1>2, <2>2, <2>3, PlacedOnItsList DEF TypeInv, ListInv
<1>7. LoopInv'
  <2>1. \A k \in Loops : k # l /\ pc[k] \in {"notify", "callback"} => cur[k] # s
    BY <1>1 DEF ListInv, LoopInv
  <2> QED BY <1>1, <1>2, <1>3, <1>4, <2>1 DEF ListInv, LoopInv, s
<1>8. PointInv'
  <2> SUFFICES ASSUME NEW t \in Subs
               PROVE  /\ point'[t] = Null <=> state'[t] \in {"UNSUBSCRIBED", "NOTIFY_PENDING_DETACH"}
                      /\ state'[t] \in {"NOTIFY_NOTIFYING", "NOTIFY_PENDING_DETACH"}
                           => InCallback(LoopOf[t], t)'
                      /\ state'[t] = "NOTIFY_NOTIFYING" => point'[t] = curPoint'[LoopOf[t]]
    BY DEF PointInv
  <2>1. CASE t = s
    <3>1. pc'[LoopOf[s]] = "callback" /\ cur'[LoopOf[s]] = s /\ curPoint'[LoopOf[s]] = p
      BY <1>1, <1>3, <1>4 DEF s
    <3>2. point'[s] = p
      BY <1>3 DEF p
    <3> QED BY <1>1, <1>2, <1>4, <2>1, <3>1, <3>2 DEF InCallback
  <2>2. CASE t # s
    <3>1. state[t] \in {"NOTIFY_NOTIFYING", "NOTIFY_PENDING_DETACH"} => LoopOf[t] # l
      BY <1>1 DEF ListInv, PointInv, InCallback
    <3> QED BY <1>3, <1>4, <2>2, <3>1, PointAssumption DEF ListInv, PointInv, InCallback
  <2> QED BY <2>1, <2>2
<1>9. SyncInv'
  BY <1>1, <1>3, <1>4 DEF ListInv, SyncInv, MayAttach, InCallback
<1> QED BY <1>1, <1>2, <1>3, <1>6, <1>7, <1>8, <1>9 DEF ListInv, s, p

\* The callback ends: the subscriber is idle only if it has missed nothing.
LEMMA NotifyCompleteKeeps ==
  ASSUME TypeInv, ListInv, NEW l \in Loops, NotifyComplete(l)
  PROVE  /\ ListInv' /\ cur[l] \in Subs
         /\ \E st \in {"IDLE", "NOTIFY_PENDING", "UNSUBSCRIBED"} :
              /\ state' = [state EXCEPT ![cur[l]] = st]
              /\ st = "IDLE" => /\ state[cur[l]] = "NOTIFY_NOTIFYING"
                               /\ seqNum[point[cur[l]]] = subSeq[cur[l]]
<1> DEFINE s == cur[l]
           p == curPoint[l]
<1>1. /\ pc[l] = "callback" /\ s \in Subs /\ LoopOf[s] = l /\ sync[l] = <<>> /\ p \in Points
      /\ state[s] \in {"NOTIFY_NOTIFYING", "NOTIFY_PENDING_DETACH"}
  BY DEF NotifyComplete, ListInv, LoopInv, SyncInv
<1>2. /\ \A k \in Loops : pc'[k] = IF k = l THEN "top" ELSE pc[k]
      /\ \A k \in Loops : cur'[k] = IF k = l THEN Null ELSE cur[k]
      /\ \A k \in Loops : curPoint'[k] = IF k = l THEN Null ELSE curPoint[k]
      /\ UNCHANGED <<point, sync>>
  BY DEF NotifyComplete, GoTo, TypeInv, LoopOK
<1>3. /\ \A q \in Points : s \notin ToSet(subscribers[q]) /\ IsInjective(subscribers[q])
      /\ \A k \in Loops : s \notin ToSet(pending[k]) /\ IsInjective(pending[k])
  BY <1>1 DEF ListInv, OnItsList
<1>4. state[s] = "NOTIFY_NOTIFYING" => point[s] = p
  BY <1>1 DEF ListInv, PointInv
<1>5. \A t \in Subs : Taken(t)' <=> Taken(t)
  <2>1. \A t \in Subs : LoopOf[t] = l => ~Taken(t) /\ ~Taken(t)'
    BY <1>1, <1>2 DEF Taken
  <2>2. \A t \in Subs : LoopOf[t] # l => (Taken(t)' <=> Taken(t))
    BY <1>2, PointAssumption DEF Taken
  <2> QED BY <2>1, <2>2
<1>6. ~fatal' /\ \E st \in {"IDLE", "NOTIFY_PENDING", "UNSUBSCRIBED"} :
        /\ Placed(s, p, st)
        /\ st # "UNSUBSCRIBED" => state[s] = "NOTIFY_NOTIFYING"
        /\ st = "UNSUBSCRIBED" => state[s] = "NOTIFY_PENDING_DETACH"
        /\ st = "IDLE" => seqNum[p] = subSeq[s]
  <2>1. CASE state[s] = "NOTIFY_NOTIFYING"
    <3>1. Subscribed(p, s, subSeq[s], pending)
      BY <2>1 DEF NotifyComplete
    <3>2. Without(s, [q \in Points |-> RemoveFirst(subscribers[q], s)], pending)
      BY <1>1, WithoutIt DEF TypeInv, ListInv
    <3> HIDE DEF s, p
    <3>3. \/ ~fatal' /\ Placed(s, p, "IDLE") /\ seqNum[p] = subSeq[s]
          \/ ~fatal' /\ Placed(s, p, "NOTIFY_PENDING")
      BY <1>1, <1>3, <3>1, <3>2, SubscribedPlaced DEF TypeInv, ListInv
    <3> QED BY <2>1, <3>3
  <2>2. CASE state[s] = "NOTIFY_PENDING_DETACH"
    <3>1. /\ state' = [state EXCEPT ![s] = "UNSUBSCRIBED"]
          /\ UNCHANGED <<subscribers, pending, fatal>>
      BY <2>2 DEF NotifyComplete, listVars
    <3> HIDE DEF s, p
    <3>2. Placed(s, p, "UNSUBSCRIBED")
      BY <1>3, <3>1 DEF Placed
    <3> QED BY <2>2, <3>1, <3>2 DEF ListInv
  <2> QED BY <1>1, <2>1, <2>2
<1> HIDE DEF p
<1>7. PICK st \in {"IDLE", "NOTIFY_PENDING", "UNSUBSCRIBED"} :
        /\ Placed(s, p, st)
        /\ st # "UNSUBSCRIBED" => state[s] = "NOTIFY_NOTIFYING"
        /\ st = "UNSUBSCRIBED" => state[s] = "NOTIFY_PENDING_DETACH"
        /\ st = "IDLE" => seqNum[p] = subSeq[s]
  BY <1>6
<1> HIDE DEF s
<1>8. \A t \in Subs : state'[t] = IF t = s THEN st ELSE state[t]
  BY <1>7 DEF Placed, TypeInv, ListOK
<1>9. ~Taken(s)
  BY <1>1 DEF Taken
<1>10. OnItsList'
  <2>1. st = "IDLE" => point'[s] = p
    BY <1>2, <1>4, <1>7
  <2>2. \A t \in Subs \ {s} : point'[t] = point[t] /\ (Taken(t)' <=> Taken(t))
    BY <1>2, <1>5
  <2> QED BY <1>1, <1>5, <1>7, <1>9, <2>1, <2>2, PlacedOnItsList DEF TypeInv, ListInv
<1>11. LoopInv'
  <2>1. \A k \in Loops : k # l /\ pc[k] \in {"notify", "callback"} => cur[k] # s
    BY <1>1 DEF ListInv, LoopInv
  <2> QED BY <1>1, <1>2, <1>8, <2>1 DEF ListInv, LoopInv
<1>12. PointInv'
  <2> SUFFICES ASSUME NEW t \in Subs
               PROVE  /\ point'[t] = Null <=> state'[t] \in {"UNSUBSCRIBED", "NOTIFY_PENDING_DETACH"}
                      /\ state'[t] \in {"NOTIFY_NOTIFYING", "NOTIFY_PENDING_DETACH"}
                           => InCallback(LoopOf[t], t)'
                      /\ state'[t] = "NOTIFY_NOTIFYING" => point'[t] = curPoint'[LoopOf[t]]
    BY DEF PointInv
  <2>1. CASE t = s
    BY <1>2, <1>7, <1>8, <2>1 DEF ListInv, PointInv
  <2>2. CASE t # s
    <3>1. state[t] \in {"NOTIFY_NOTIFYING", "NOTIFY_PENDING_DETACH"} => LoopOf[t] # l
      BY <2>2 DEF ListInv, PointInv, InCallback, s
    <3> QED BY <1>2, <1>8, <2>2, <3>1, PointAssumption DEF ListInv, PointInv, InCallback
  <2> QED BY <2>1, <2>2
<1>13. SyncInv'
  BY <1>1, <1>2 DEF ListInv, SyncInv, MayAttach, InCallback
<1>14. state' = [state EXCEPT ![s] = st]
  BY <1>7 DEF Placed
<1> QED BY <1>1, <1>4, <1>6, <1>7, <1>10, <1>11, <1>12, <1>13, <1>14 DEF ListInv, s

\* ListInv is inductive.
LEMMA ListStep ==
  ASSUME TypeInv, ListInv, ~SwitchInCallback, Next
  PROVE  ListInv'
<1>1. CASE Writers
  <2>1. CASE NotifyNext
    BY <2>1, NotifyNextKeeps
  <2>2. CASE UNCHANGED <<subVars, point, listVars, loopVars, sync, fatal>>
    BY <2>2, WriteKeeps
  <2> QED BY <1>1, <2>1, <2>2
          DEF Writers, WriteData, SetInvalid, Touch, ImportData, SetLockState, CopyTest,
              CopyInvalid, CopyData
<1>2. ASSUME NEW l \in Loops, Application(l) PROVE ListInv'
  BY <1>2, ApplicationKeeps
<1>3. ASSUME NEW l \in Loops, Top(l) \/ Wait(l) \/ Timeout(l) \/ EventsDone(l) PROVE ListInv'
  <2>1. sync[l] = <<>>
    BY <1>3 DEF Top, Wait, Timeout, EventsDone, ListInv, SyncInv
  <2> QED BY <1>3, <2>1, LoopGoesOn DEF Top, Wait, Timeout, EventsDone, subVars, listVars
<1> QED BY <1>1, <1>2, <1>3, DispatchKeeps, NotifyKeeps, NotifyCompleteKeeps DEF Next, RunLoop

\* So it holds always.
LEMMA ListInvAlways ==
  ASSUME ~SwitchInCallback
  PROVE  Spec => []ListInv
<1>1. ListInv /\ UNCHANGED vars => ListInv'
  BY WriteKeeps DEF vars
<1>2. TypeInv /\ ListInv /\ [Next]_vars => ListInv'
  BY <1>1, ListStep
<1> QED BY <1>2, ListInit, TypeInvAlways, PTL DEF Spec

\* A subscriber is on the list that its state says and on no other, whatever
\* the interleaving of writers and event loops: so long as no callback moves
\* its subscriber to another model point.
THEOREM OnItsListAlways ==
  ASSUME ~SwitchInCallback
  PROVE  Spec => []OnItsList
<1>1. ListInv => OnItsList
  BY DEF ListInv
<1> QED BY <1>1, ListInvAlways, PTL

\* And then no legal use of the data model meets a fatal error: no put of an
\* item that is in a list, no eDATA_CHANGED for a subscriber that is not idle,
\* and no notification without a model point.
THEOREM NoFatalAlways ==
  ASSUME ~SwitchInCallback
  PROVE  Spec => []NoFatal
<1>1. ListInv => NoFatal
  BY DEF ListInv, NoFatal
<1> QED BY <1>1, ListInvAlways, PTL

-----------------------------------------------------------------------------
(* Sequence numbers *)

\* With sequence number n at version v, a reading of number seq at version ver
\* is as many changes old as the versions say, and too few for a lap.
Fresh(n, v, seq, ver) ==
    /\ seq \in 1..SeqMax /\ ver \in 1..v
    /\ v - ver <= MaxLag
    /\ n = seq + (v - ver) \/ n + SeqMax = seq + (v - ver)

\* The sequence numbers that will be compared: of the subscriber in its
\* callback, and of a reading that is about to be attached.
SeqInv ==
    /\ \A s \in Subs : state[s] = "NOTIFY_NOTIFYING" /\ subSeq[s] # Unknown =>
         Fresh(seqNum[point[s]], version[point[s]], subSeq[s], seen[s])
    /\ \A l \in Loops : sync[l] # <<>> =>
         Fresh(seqNum[sync[l][2]], version[sync[l][2]], sync[l][3], sync[l][4])
    /\ \A p \in Points : version[p] > 0

IdleInv == IdleIsCurrent /\ SeqInv

\* Who has just read is up to date.
LEMMA FreshNow ==
  ASSUME NEW n \in 1..SeqMax, NEW v \in Nat, v > 0
  PROVE  Fresh(n, v, n, v)
BY CountAssumption DEF Fresh

\* A change makes others behind, and few changes do not hide each other.
LEMMA FreshNext ==
  ASSUME MaxLag < SeqMax, NEW n \in 1..SeqMax, NEW v \in Nat, NEW seq, NEW ver,
         Fresh(n, v, seq, ver), v + 1 - ver <= MaxLag
  PROVE  Fresh(NextSeq(n), v + 1, seq, ver)
BY CountAssumption DEF Fresh, NextSeq, Unknown

\* Equal sequence numbers mean that nothing was missed.
LEMMA FreshSame ==
  ASSUME MaxLag < SeqMax, NEW n \in 1..SeqMax, NEW v \in Nat, NEW ver, Fresh(n, v, n, ver)
  PROVE  ver = v
BY CountAssumption DEF Fresh

\* Nobody is idle at first.
LEMMA IdleInit == Init => IdleInv
<1> SUFFICES ASSUME Init PROVE IdleInv
  OBVIOUS
<1>1. IdleIsCurrent
  BY DEF Init, IdleIsCurrent
<1>2. SeqInv
  BY DEF Init, SeqInv
<1> QED BY <1>1, <1>2 DEF IdleInv

\* A change of model point p: its idle subscribers are one change behind, and
\* its writer is about to tell them.
LEMMA ChangeKeeps ==
  ASSUME TypeInv, ListInv, IdleInv, MaxLag < SeqMax, NEW p \in Points, DbFree,
         ProcessChangeNotifications(p), UNCHANGED <<subVars, point, sync>>
  PROVE  IdleInv'
<1>1. /\ \A q \in Points : seqNum'[q] = IF q = p THEN NextSeq(seqNum[p]) ELSE seqNum[q]
      /\ \A q \in Points : version'[q] = IF q = p THEN version[p] + 1 ELSE version[q]
      /\ notifying' = p /\ notifying = Null
      /\ UNCHANGED <<state, subSeq, seen, point, sync>>
      /\ \A q \in Points : seqNum[q] \in 1..SeqMax /\ version[q] \in Nat
  BY DEF ProcessChangeNotifications, DbFree, TypeInv, DataOK, subVars
<1>2. \A s \in Subs : state[s] \in {"IDLE", "NOTIFY_NOTIFYING"} => point[s] \in Points
  BY DEF ListInv, PointInv, TypeInv, SubOK
<1>3. IdleIsCurrent'
  <2> SUFFICES ASSUME NEW s \in Subs, state'[s] = "IDLE"
               PROVE  \/ seen'[s] = version'[point'[s]]
                      \/ notifying' = point'[s] /\ seen'[s] + 1 = version'[point'[s]]
    BY DEF IdleIsCurrent
  <2>1. point[s] \in Points /\ seen[s] = version[point[s]]
    BY <1>1, <1>2, PointAssumption DEF IdleInv, IdleIsCurrent
  <2> QED BY <1>1, <2>1
<1>4. ASSUME NEW q \in Points, NEW seq, NEW ver, Fresh(seqNum[q], version[q], seq, ver),
             q = p => version[p] + 1 - ver <= MaxLag
      PROVE  Fresh(seqNum'[q], version'[q], seq, ver)
  <2>1. CASE q = p
    BY <1>1, <1>4, <2>1, FreshNext
  <2>2. CASE q # p
    BY <1>1, <1>4, <2>2
  <2> QED BY <2>1, <2>2
<1>5. NoLap(p)
  BY DEF ProcessChangeNotifications
<1>6. ASSUME NEW s \in Subs, state[s] = "NOTIFY_NOTIFYING", subSeq[s] # Unknown
      PROVE  Fresh(seqNum'[point[s]], version'[point[s]], subSeq[s], seen[s])
  <2>1. point[s] \in Points /\ Fresh(seqNum[point[s]], version[point[s]], subSeq[s], seen[s])
    BY <1>2, <1>6 DEF IdleInv, SeqInv
  <2>2. seen[s] # 0
    BY <2>1, <1>1 DEF Fresh
  <2>3. point[s] = p => version[p] + 1 - seen[s] <= MaxLag
    BY <1>5, <1>6, <2>2 DEF NoLap
  <2> QED BY <1>4, <2>1, <2>3
<1>7. ASSUME NEW l \in Loops, sync[l] # <<>>
      PROVE  Fresh(seqNum'[sync[l][2]], version'[sync[l][2]], sync[l][3], sync[l][4])
  <2>1. sync[l][2] \in Points
    BY <1>7 DEF TypeInv, LoopOK
  <2>2. Fresh(seqNum[sync[l][2]], version[sync[l][2]], sync[l][3], sync[l][4])
    BY <1>7 DEF IdleInv, SeqInv
  <2>3. sync[l][2] = p => version[p] + 1 - sync[l][4] <= MaxLag
    BY <1>5, <1>7 DEF NoLap
  <2> QED BY <1>4, <2>1, <2>2, <2>3
<1>8. \A q \in Points : version'[q] > 0
  BY <1>1 DEF IdleInv, SeqInv
<1> QED BY <1>1, <1>3, <1>6, <1>7, <1>8 DEF IdleInv, SeqInv

\* IdleInv is about changes and subscriptions only.
LEMMA NoChangeKeeps ==
  ASSUME IdleInv, UNCHANGED <<seqVars, notifying, subVars, point, sync>>
  PROVE  IdleInv'
<1>1. IdleIsCurrent'
  BY DEF IdleInv, IdleIsCurrent, seqVars, subVars
<1>2. SeqInv'
  BY DEF IdleInv, SeqInv, seqVars, subVars
<1> QED BY <1>1, <1>2 DEF IdleInv

\* A step that moves subscriber s only.
LEMMA OneMoves ==
  ASSUME TypeInv, IdleInv, NEW s \in Subs, NEW st, state' = [state EXCEPT ![s] = st],
         \A t \in Subs \ {s} : /\ point'[t] = point[t] /\ seen'[t] = seen[t]
                                /\ subSeq'[t] = subSeq[t],
         UNCHANGED <<seqVars, notifying>>,
         \A k \in Loops : sync'[k] = sync[k] \/ sync'[k] = <<>>,
         st = "IDLE" => seen'[s] = version[point'[s]],
         st = "NOTIFY_NOTIFYING" /\ subSeq'[s] # Unknown =>
             Fresh(seqNum[point'[s]], version[point'[s]], subSeq'[s], seen'[s])
  PROVE  IdleInv'
<1>1. /\ \A t \in Subs : state'[t] = IF t = s THEN st ELSE state[t]
      /\ seqNum' = seqNum /\ version' = version /\ notifying' = notifying
  BY DEF TypeInv, ListOK, seqVars
<1>2. IdleIsCurrent'
  <2> SUFFICES ASSUME NEW t \in Subs, state'[t] = "IDLE"
               PROVE  \/ seen'[t] = version[point'[t]]
                      \/ notifying = point'[t] /\ seen'[t] + 1 = version[point'[t]]
    BY <1>1 DEF IdleIsCurrent
  <2>1. CASE t = s
    BY <1>1, <2>1
  <2>2. CASE t # s
    BY <1>1, <2>2 DEF IdleInv, IdleIsCurrent
  <2> QED BY <2>1, <2>2
<1>3. ASSUME NEW t \in Subs, state'[t] = "NOTIFY_NOTIFYING", subSeq'[t] # Unknown
      PROVE  Fresh(seqNum[point'[t]], version[point'[t]], subSeq'[t], seen'[t])
  <2>1. CASE t = s
    BY <1>1, <1>3, <2>1
  <2>2. CASE t # s
    BY <1>1, <1>3, <2>2 DEF IdleInv, SeqInv
  <2> QED BY <2>1, <2>2
<1>4. ASSUME NEW k \in Loops, sync'[k] # <<>>
      PROVE  Fresh(seqNum[sync'[k][2]], version[sync'[k][2]], sync'[k][3], sync'[k][4])
  <2>1. sync'[k] = sync[k]
    BY <1>4
  <2> QED BY <1>4, <2>1 DEF IdleInv, SeqInv
<1>5. SeqInv'
  BY <1>1, <1>3, <1>4 DEF SeqInv, IdleInv
<1> QED BY <1>2, <1>5 DEF IdleInv

\* Attaching with a number that is unknown, or read a little earlier.
LEMMA AttachCurrent ==
  ASSUME TypeInv, ListInv, IdleInv, ~SwitchInCallback, MaxLag < SeqMax,
         NEW l \in Loops, NEW s \in Subs, NEW p \in Points, NEW seq, NEW ver,
         pc[l] \in {"events", "callback"}, MayAttach(l, s, p),
         AttachSubscriber(p, s, seq, ver), UNCHANGED <<loopVars, seqVars, notifying>>,
         seq # Unknown => Fresh(seqNum[p], version[p], seq, ver),
         \A k \in Loops : sync'[k] = sync[k] \/ sync'[k] = <<>>
  PROVE  IdleInv'
<1>1. PICK st \in {"IDLE", "NOTIFY_PENDING", "NOTIFY_NOTIFYING"} :
          state' = [state EXCEPT ![s] = st] /\ (st = "IDLE" => seqNum[p] = seq)
  BY AttachKeeps
<1>2. /\ \A t \in Subs \ {s} : /\ point'[t] = point[t] /\ seen'[t] = seen[t]
                                /\ subSeq'[t] = subSeq[t]
      /\ point'[s] = p /\ subSeq'[s] = seq /\ seen'[s] = ver
  BY DEF AttachSubscriber, TypeInv, SubOK
<1>3. seqNum[p] \in 1..SeqMax /\ version[p] \in Nat
  BY DEF TypeInv, DataOK
<1>4. ASSUME st = "IDLE" PROVE ver = version[p]
  <2>1. seqNum[p] = seq /\ seq # Unknown
    BY <1>1, <1>3, <1>4 DEF Unknown
  <2>2. Fresh(seqNum[p], version[p], seqNum[p], ver)
    BY <2>1
  <2> QED BY <1>3, <2>2, FreshSame
<1> QED BY <1>1, <1>2, <1>4, OneMoves

\* IdleInv is inductive.
LEMMA IdleStep ==
  ASSUME TypeInv, ListInv, IdleInv, ~SwitchInCallback, MaxLag < SeqMax, Next
  PROVE  IdleInv'
<1>1. CASE Writers
  <2>1. CASE NotifyNext
    <3>1. UNCHANGED <<seqVars, subSeq, seen, point, sync>>
      BY <2>1 DEF NotifyNext
    <3>2. CASE notifying' = notifying
      <4>1. PICK s \in Subs : state' = [state EXCEPT ![s] = "NOTIFY_PENDING"]
        BY <2>1, <3>2, NotifyNextKeeps
      <4> QED BY <3>1, <3>2, <4>1, OneMoves
    <3>3. CASE notifying' # notifying
      <4>1. (\A s \in Subs : state[s] = "IDLE" => point[s] # notifying) /\ UNCHANGED state
        BY <2>1, <3>3, NotifyNextKeeps
      <4>2. IdleIsCurrent'
        BY <3>1, <4>1 DEF IdleInv, IdleIsCurrent, seqVars
      <4>3. SeqInv'
        BY <3>1, <4>1 DEF IdleInv, SeqInv, seqVars
      <4> QED BY <4>2, <4>3 DEF IdleInv
    <3> QED BY <3>2, <3>3
  <2>2. ASSUME NEW p \in Points, DbFree, ProcessChangeNotifications(p),
               UNCHANGED <<subVars, point, sync>>
        PROVE  IdleInv'
    BY <2>2, ChangeKeeps
  <2>3. CASE UNCHANGED <<seqVars, notifying, subVars, point, sync>>
    BY <2>3, NoChangeKeeps
  <2>4. ASSUME NEW p \in Points, NEW v, NEW req, WriteTo(p, v, req), DbFree,
               UNCHANGED <<subVars, point, sync>>
        PROVE  IdleInv'
    BY <2>2, <2>3, <2>4 DEF WriteTo
  <2>5. ASSUME NEW p \in Points, NEW req, InvalidateIt(p, req), DbFree,
               UNCHANGED <<subVars, point, sync>>
        PROVE  IdleInv'
    BY <2>2, <2>3, <2>5 DEF InvalidateIt
  <2>6. CopyInvalid \/ CopyData => copying[2] \in Points
    BY DEF CopyInvalid, CopyData, TypeInv, CopyOK
  <2>7. CASE CopyInvalid \/ CopyData
    BY <2>4, <2>5, <2>6, <2>7 DEF CopyInvalid, CopyData
  <2>8. ASSUME NEW src \in Points, NEW dst \in Points, NEW req, CopyTest(src, dst, req)
        PROVE  IdleInv'
    BY <2>3, <2>8 DEF CopyTest
  <2>9. ASSUME NEW p \in Points, NEW v, NEW req, WriteData(p, v, req) PROVE IdleInv'
    BY <2>4, <2>9 DEF WriteData
  <2>10. ASSUME NEW p \in Points, NEW req, SetInvalid(p, req) PROVE IdleInv'
    BY <2>5, <2>10 DEF SetInvalid
  <2>11. ASSUME NEW p \in Points, Touch(p) PROVE IdleInv'
    BY <2>2, <2>11 DEF Touch
  <2>12. ASSUME NEW p \in Points, NEW v, NEW ok, NEW lock, ImportData(p, v, ok, lock) PROVE IdleInv'
    BY <2>2, <2>12 DEF ImportData
  <2>13. ASSUME NEW p \in Points, NEW req, SetLockState(p, req) PROVE IdleInv'
    BY <2>3, <2>13 DEF SetLockState
  <2> QED BY <1>1, <2>1, <2>7, <2>8, <2>9, <2>10, <2>11, <2>12, <2>13 DEF Writers
<1>2. ASSUME NEW l \in Loops, NEW s \in Subs, NEW p \in Points, Attach(l, s, p) PROVE IdleInv'
  BY <1>2, AttachCurrent DEF Attach, AppRuns
<1>3. ASSUME NEW l \in Loops, NEW s \in Subs, NEW p \in Points, Detach(l, s, p) PROVE IdleInv'
  <2>1. PICK st \in {"UNSUBSCRIBED", "NOTIFY_PENDING_DETACH"} : state' = [state EXCEPT ![s] = st]
    BY <1>3, DetachKeeps
  <2>2. \A t \in Subs \ {s} : point'[t] = point[t]
    BY <1>3 DEF Detach, DetachSubscriber, TypeInv, SubOK
  <2>3. UNCHANGED <<seqVars, notifying, subSeq, seen, sync>>
    BY <1>3 DEF Detach
  <2> QED BY <2>1, <2>2, <2>3, OneMoves
<1>4. ASSUME NEW l \in Loops, NEW s \in Subs, NEW p \in Points, SyncRead(l, s, p) PROVE IdleInv'
  <2>1. /\ UNCHANGED <<seqNum, version, notifying, state, subSeq, seen, point>>
        /\ \A k \in Loops : sync'[k] = IF k = l THEN <<s, p, seqNum[p], version[p]>> ELSE sync[k]
    BY <1>4 DEF SyncRead, seqVars, subVars, TypeInv, LoopOK
  <2>2. IdleIsCurrent'
    BY <2>1 DEF IdleInv, IdleIsCurrent
  <2>3. Fresh(seqNum[p], version[p], seqNum[p], version[p])
    BY FreshNow DEF TypeInv, DataOK, IdleInv, SeqInv
  <2>4. ASSUME NEW k \in Loops, sync'[k] # <<>>
        PROVE  Fresh(seqNum[sync'[k][2]], version[sync'[k][2]], sync'[k][3], sync'[k][4])
    <3>1. CASE k = l
      BY <2>1, <2>3, <3>1
    <3>2. CASE k # l
      BY <2>1, <2>4, <3>2 DEF IdleInv, SeqInv
    <3> QED BY <3>1, <3>2
  <2>5. SeqInv'
    BY <2>1, <2>4 DEF SeqInv, IdleInv
  <2> QED BY <2>2, <2>5 DEF IdleInv
<1>5. ASSUME NEW l \in Loops, SyncAttach(l) PROVE IdleInv'
  <2> DEFINE s == sync[l][1]
             p == sync[l][2]
  <2>1. s \in Subs /\ p \in Points
    BY <1>5 DEF SyncAttach, TypeInv, LoopOK
  <2>2. pc[l] \in {"events", "callback"} /\ MayAttach(l, s, p)
    BY <1>5 DEF SyncAttach, ListInv, SyncInv
  <2>3. AttachSubscriber(p, s, sync[l][3], sync[l][4])
    BY <1>5 DEF SyncAttach
  <2>4. Fresh(seqNum[p], version[p], sync[l][3], sync[l][4])
    BY <1>5 DEF SyncAttach, IdleInv, SeqInv
  <2> HIDE DEF s, p
  <2>5. \A k \in Loops : sync'[k] = sync[k] \/ sync'[k] = <<>>
    BY <1>5 DEF SyncAttach, TypeInv, LoopOK
  <2> QED BY <1>5, <2>1, <2>2, <2>3, <2>4, <2>5, AttachCurrent DEF SyncAttach
<1>6. ASSUME NEW l \in Loops, Top(l) \/ Wait(l) \/ Timeout(l) \/ EventsDone(l) \/ Dispatch(l)
      PROVE  IdleInv'
  BY <1>6, NoChangeKeeps DEF Top, Wait, Timeout, EventsDone, Dispatch
<1>7. ASSUME NEW l \in Loops, Notify(l) PROVE IdleInv'
  <2> DEFINE s == cur[l]
  <2>1. /\ s \in Subs /\ point[s] \in Points
        /\ state' = [state EXCEPT ![s] = "NOTIFY_NOTIFYING"]
        /\ subSeq' = [subSeq EXCEPT ![s] = seqNum[point[s]]]
        /\ seen' = [seen EXCEPT ![s] = version[point[s]]]
    BY <1>7, NotifyKeeps
  <2> HIDE DEF s
  <2>2. UNCHANGED <<seqVars, notifying, point, sync>>
    BY <1>7 DEF Notify
  <2>3. /\ \A t \in Subs \ {s} : seen'[t] = seen[t] /\ subSeq'[t] = subSeq[t]
        /\ subSeq'[s] = seqNum[point[s]] /\ seen'[s] = version[point[s]]
    BY <2>1 DEF TypeInv, SubOK
  <2>4. Fresh(seqNum[point[s]], version[point[s]], subSeq'[s], seen'[s])
    BY <2>1, <2>3, FreshNow DEF TypeInv, DataOK, IdleInv, SeqInv
  <2> QED BY <2>1, <2>2, <2>3, <2>4, OneMoves
<1>8. ASSUME NEW l \in Loops, NotifyComplete(l) PROVE IdleInv'
  <2> DEFINE s == cur[l]
  <2>1. s \in Subs
    BY <1>8, NotifyCompleteKeeps
  <2>2. PICK st \in {"IDLE", "NOTIFY_PENDING", "UNSUBSCRIBED"} :
          /\ state' = [state EXCEPT ![s] = st]
          /\ st = "IDLE" => state[s] = "NOTIFY_NOTIFYING" /\ seqNum[point[s]] = subSeq[s]
    BY <1>8, NotifyCompleteKeeps
  <2> HIDE DEF s
  <2>3. UNCHANGED <<seqVars, notifying, subSeq, seen, point, sync>>
    BY <1>8 DEF NotifyComplete
  <2>4. ASSUME st = "IDLE" PROVE seen[s] = version[point[s]]
    <3>1. point[s] \in Points
      BY <2>1, <2>2, <2>4 DEF ListInv, PointInv, TypeInv, SubOK
    <3>2. seqNum[point[s]] \in 1..SeqMax /\ version[point[s]] \in Nat
      BY <3>1 DEF TypeInv, DataOK
    <3>3. Fresh(seqNum[point[s]], version[point[s]], seqNum[point[s]], seen[s])
      BY <2>1, <2>2, <2>4, <3>2 DEF IdleInv, SeqInv, Unknown
    <3> QED BY <3>2, <3>3, FreshSame
  <2> QED BY <2>1, <2>2, <2>3, <2>4, OneMoves
<1> QED BY <1>1, <1>2, <1>3, <1>4, <1>5, <1>6, <1>7, <1>8 DEF Next, Application, RunLoop

\* An idle subscriber has been told of the last change of its model point, or
\* is about to be: readAndSync() and the end of a callback notice every change
\* they may have missed, so long as those are too few for the 16-bit sequence
\* number to come round.
THEOREM IdleIsCurrentAlways ==
  ASSUME ~SwitchInCallback, MaxLag < SeqMax
  PROVE  Spec => []IdleIsCurrent
<1>1. IdleInv /\ UNCHANGED vars => IdleInv'
  BY NoChangeKeeps DEF vars
<1>2. TypeInv /\ ListInv /\ IdleInv /\ [Next]_vars => IdleInv'
  BY <1>1, IdleStep
<1>3. IdleInv => IdleIsCurrent
  BY DEF IdleInv
<1> QED BY <1>2, <1>3, IdleInit, TypeInvAlways, ListInvAlways, PTL DEF Spec
=============================================================================
