--------------------------- MODULE DmRecordProofs ---------------------------
(***************************************************************************)
(* Proofs about DmRecord: for any number of records no change is forgotten *)
(* and none waits longer than it may.                                      *)
(***************************************************************************)
EXTENDS DmRecord, FiniteSetTheorems, SequenceTheorems, TLAPS

P == INSTANCE TimerManagerProofs WITH
    Timers <- Records, Durations <- {Delay}, StartEarly <- FALSE,
    MaxCallback <- 0, timeMark <- timeNow, msec <- 0, pc <- "app",
    ringing <- Off, calls <- 0, armed <- {}, left <- <<>>, due <- {}

-----------------------------------------------------------------------------
(* The timers of the records are those of TimerManager. *)

\* The operators on lists mean the same in both instances.
LEMMA SameOperators ==
  /\ \A q : P!ToSet(q) = T!ToSet(q)
  /\ \A S : P!Min(S) = T!Min(S)
  /\ \A q, t : P!RemoveFirst(q, t) = T!RemoveFirst(q, t)
  /\ \A q, i, t : P!InsertAt(q, i, t) = T!InsertAt(q, i, t)
<1>1. \A q : P!ToSet(q) = T!ToSet(q)
  BY DEF P!ToSet, T!ToSet
<1>2. \A S : P!Min(S) = T!Min(S)
  BY DEF P!Min, T!Min
<1>3. ASSUME NEW q, NEW t PROVE P!RemoveFirst(q, t) = T!RemoveFirst(q, t)
  BY <1>2 DEF P!RemoveFirst, T!RemoveFirst, P!SelectInSeq, T!SelectInSeq, P!RemoveAt, T!RemoveAt
<1>4. \A q, i, t : P!InsertAt(q, i, t) = T!InsertAt(q, i, t)
  BY DEF P!InsertAt, T!InsertAt
<1> QED BY <1>1, <1>2, <1>3, <1>4

\* So does the difference of two clock values.
LEMMA SameDelta == \A a, b : P!Delta(a, b) = T!Delta(a, b)
BY DEF P!Delta, T!Delta

\* RecordAssumption gives TimerManager what it assumes of its constants.
LEMMA Assumed == P!TimerAssumption
BY RecordAssumption

\* A tick of the clock, which may wrap, is one unit of difference.
LEMMA DeltaNext ==
  ASSUME NEW a \in 0..Wrap - 1, NEW b \in 0..Wrap - 1, T!Delta(a, b) < Wrap - 1
  PROVE  /\ (b + 1) % Wrap \in 0..Wrap - 1
         /\ T!Delta(a, (b + 1) % Wrap) = T!Delta(a, b) + 1
<1>2. P!Delta(a, b) < Wrap - 1
  BY SameDelta
<1>3. P!Delta(a, (b + 1) % Wrap) = P!Delta(a, b) + 1
  BY P!DeltaNext, Assumed, <1>2
<1>4. (b + 1) % Wrap \in 0..Wrap - 1
  BY P!DeltaNext, Assumed, <1>2
<1> QED BY <1>3, <1>4, SameDelta

\* The timers on the list, and the time to each, are the same ...
LEMMA SameManager ==
  /\ \A m : P!Active(m) = T!Active(m)
  /\ \A m, i : P!CountTo(m, i) = T!CountTo(m, i)
<1>1. \A m : P!Active(m) = T!Active(m)
  BY SameOperators DEF P!Active, T!Active
<1>2. \A m, i : P!CountTo(m, i) = T!CountTo(m, i)
  BY DEF P!CountTo, T!CountTo
<1> QED BY <1>1, <1>2

\* ... and so is the list without a timer ...
LEMMA SameDetach ==
  ASSUME NEW m, NEW t
  PROVE  P!Detach(m, t) = T!Detach(m, t)
<1>1. P!Active(m) = T!Active(m) /\ P!ToSet(m.pendingAttach) = T!ToSet(m.pendingAttach)
  BY SameOperators, SameManager
<1>2. CASE t \in T!ToSet(m.pendingAttach)
  BY <1>1, <1>2, SameOperators DEF P!Detach, T!Detach
<1>3. CASE t \notin T!ToSet(m.pendingAttach) /\ t \notin T!Active(m)
  BY <1>1, <1>3 DEF P!Detach, T!Detach
<1>4. CASE t \notin T!ToSet(m.pendingAttach) /\ t \in T!Active(m)
  BY <1>1, <1>4, SameOperators DEF P!Detach, T!Detach
<1> QED BY <1>2, <1>3, <1>4

\* ... and the list with one more.
LEMMA SameAdd ==
  ASSUME NEW m, NEW t
  PROVE  P!AddToActiveList(m, t) = T!AddToActiveList(m, t)
<1> DEFINE later == {i \in 1..Len(m.counters) : m.count[t] <= T!CountTo(m, i)}
<1>1. {i \in 1..Len(m.counters) : m.count[t] <= P!CountTo(m, i)} = later
  BY SameManager
<1>2. P!Min(later) = T!Min(later)
  BY SameOperators
<1>3. CASE later = {}
  BY <1>1, <1>3, SameManager DEF P!AddToActiveList, T!AddToActiveList
<1>4. CASE later # {} /\ m.count[t] < T!CountTo(m, T!Min(later))
  BY <1>1, <1>2, <1>4, SameOperators, SameManager DEF P!AddToActiveList, T!AddToActiveList
<1>5. CASE later # {} /\ ~(m.count[t] < T!CountTo(m, T!Min(later)))
  BY <1>1, <1>2, <1>5, SameOperators, SameManager DEF P!AddToActiveList, T!AddToActiveList
<1> QED BY <1>3, <1>4, <1>5

-----------------------------------------------------------------------------
(* The list of the timers *)

\* Lists as they are outside of a walk: nothing waits to be attached.
Lists == {m \in P!Managers : m.pendingAttach = <<>> /\ P!Once(m.counters)}

\* What is known of the list of timers
LEMMA ListParts ==
  ASSUME NEW m \in Lists
  PROVE  /\ m \in P!Managers /\ P!Apart(m)
         /\ m.counters \in Seq(Records) /\ m.count \in [Records -> Nat]
         /\ m.pendingAttach = <<>> /\ P!Once(m.counters)
         /\ Len(m.counters) \in Nat /\ \A i \in 1..Len(m.counters) : m.counters[i] \in Records
         /\ T!Active(m) = {m.counters[i] : i \in 1..Len(m.counters)}
         /\ T!Active(m) \subseteq Records
<1>1. /\ m \in P!Managers /\ m.pendingAttach = <<>> /\ P!Once(m.counters)
      /\ m.counters \in Seq(Records) /\ m.count \in [Records -> Nat]
  BY DEF Lists, P!Managers
<1>2. P!ToSet(<<>>) = {} /\ Len(<<>>) = 0
  BY P!EmptyList, Assumed
<1>3. P!Once(<<>>)
  BY <1>2 DEF P!Once
<1>4. P!Apart(m)
  BY <1>1, <1>2, <1>3 DEF P!Apart
<1>5. /\ Len(m.counters) \in Nat
      /\ P!ToSet(m.counters) = {m.counters[i] : i \in 1..Len(m.counters)}
      /\ \A i \in 1..Len(m.counters) : m.counters[i] \in Records
  BY <1>1, P!ListElements, Assumed
<1>6. T!Active(m) = P!ToSet(m.counters)
  BY SameManager DEF P!Active
<1> QED BY <1>1, <1>4, <1>5, <1>6

\* Timer::stop()
LEMMA Stopped ==
  ASSUME NEW m \in Lists, NEW r \in Records
  PROVE  /\ T!Detach(m, r) \in Lists
         /\ T!Active(T!Detach(m, r)) = T!Active(m) \ {r}
         /\ \A D \in [Records -> Int] : P!Gaps(m, D) => P!Gaps(T!Detach(m, r), D)
<1>1. m \in P!Managers /\ P!Apart(m) /\ P!Once(m.counters) /\ m.pendingAttach = <<>>
  BY ListParts
<1>2. PICK D \in [Records -> Int] : P!Gaps(m, D)
  BY <1>1, P!SomeDeadlines, Assumed
<1> DEFINE n == P!Detach(m, r)
<1>3. /\ n \in P!Managers /\ P!Apart(n) /\ P!Active(n) = P!Active(m) \ {r}
      /\ P!ToSet(n.pendingAttach) = P!ToSet(m.pendingAttach) \ {r}
  BY <1>1, <1>2, P!DetachManager, Assumed
<1> HIDE DEF n
<1>4. n.pendingAttach = <<>>
  <2>1. P!ToSet(<<>>) = {} /\ Len(<<>>) = 0
    BY P!EmptyList, Assumed
  <2>2. n.pendingAttach \in Seq(Records)
    BY <1>3 DEF P!Managers
  <2>3. P!ToSet(n.pendingAttach) = {n.pendingAttach[i] : i \in 1..Len(n.pendingAttach)}
        /\ Len(n.pendingAttach) \in Nat
        /\ (n.pendingAttach = <<>> <=> Len(n.pendingAttach) = 0)
    BY <2>2, P!ListElements, Assumed
  <2>4. P!ToSet(n.pendingAttach) = {}
    BY <1>1, <1>3, <2>1
  <2>5. Len(n.pendingAttach) # 0 => 1 \in 1..Len(n.pendingAttach)
    BY <2>3
  <2> QED BY <2>3, <2>4, <2>5
<1>5. n \in Lists
  BY <1>3, <1>4 DEF Lists, P!Apart
<1>6. ASSUME NEW E \in [Records -> Int], P!Gaps(m, E) PROVE P!Gaps(n, E)
  BY <1>1, <1>6, P!DetachManager, Assumed DEF n
<1> QED BY <1>3, <1>5, <1>6, SameManager, SameDetach DEF n

\* Timer::start()
LEMMA Started ==
  ASSUME NEW m \in Lists, NEW r \in Records, r \notin T!Active(m), NEW c \in Nat
  PROVE  LET n == T!Attach([m EXCEPT !.count[r] = c], r)
         IN  /\ n \in Lists /\ T!Active(n) = T!Active(m) \cup {r}
             /\ \A D \in [Records -> Int] : P!Gaps(m, D) => P!Gaps(n, [D EXCEPT ![r] = c])
<1> DEFINE k == P!WithCount(m, r, c)
           n == P!AddToActiveList(k, r)
<1>1. m \in P!Managers /\ P!Apart(m) /\ P!Once(m.counters) /\ m.pendingAttach = <<>>
  BY ListParts
<1>2. k = [m EXCEPT !.count[r] = c]
  BY DEF P!WithCount
<1>3. n = T!Attach([m EXCEPT !.count[r] = c], r)
  BY <1>2, SameAdd DEF T!Attach, T!InTickCall
<1>4. ASSUME NEW D \in [Records -> Int], P!Gaps(m, D)
      PROVE  /\ n \in Lists /\ P!Active(n) = P!Active(m) \cup {r}
             /\ P!Gaps(n, [D EXCEPT ![r] = c])
  <2> DEFINE E == [D EXCEPT ![r] = c]
  <2>1. E \in [Records -> Int] /\ E[r] = c /\ \A u \in Records : u # r => E[u] = D[u]
    OBVIOUS
  <2>2. \A u \in P!Active(m) : E[u] = D[u]
    BY <2>1, ListParts, SameManager
  <2> HIDE DEF E
  <2>3. /\ k \in P!Managers /\ P!Apart(k) /\ P!Gaps(k, E)
        /\ k.counters = m.counters /\ k.pendingAttach = m.pendingAttach /\ k.count[r] = c
    BY <1>1, <1>4, <2>1, <2>2, SameManager, P!SetCount, Assumed
  <2> HIDE DEF k
  <2>4. r \notin P!Active(k) /\ r \notin P!ToSet(k.pendingAttach) /\ P!Active(k) = P!Active(m)
    BY <1>1, <2>3, SameManager, P!EmptyList, Assumed DEF P!Active
  <2>5. /\ n \in P!Managers /\ P!Apart(n) /\ P!Gaps(n, E)
        /\ P!Active(n) = P!Active(k) \cup {r} /\ n.pendingAttach = k.pendingAttach
    BY <2>1, <2>3, <2>4, P!AddManager, Assumed
  <2> HIDE DEF n
  <2>6. n \in Lists
    BY <1>1, <2>3, <2>5 DEF Lists, P!Apart
  <2> QED BY <2>4, <2>5, <2>6 DEF E
<1>5. \E D \in [Records -> Int] : P!Gaps(m, D)
  BY <1>1, P!SomeDeadlines, Assumed
<1> HIDE DEF n, k
<1> QED BY <1>3, <1>4, <1>5, SameManager

\* The timers that are due are the first ones of the list.
LEMMA DueTimers ==
  ASSUME NEW m \in Lists, NEW lag \in Nat
  PROVE  LET S == {i \in 1..Len(m.counters) : T!CountTo(m, i) <= lag}
             n == Cardinality(S)
         IN  /\ n \in 0..Len(m.counters) /\ S = 1..n
             /\ T!CountTo(m, n) \in Nat
             /\ n = 0 => T!CountTo(m, n) = 0
             /\ n # Len(m.counters)
                  => lag < T!CountTo(m, n) + m.count[m.counters[n + 1]]
<1> DEFINE L == Len(m.counters)
           S == {i \in 1..L : T!CountTo(m, i) <= lag}
           Late == {i \in 1..L + 1 : i \notin S}
<1>1. L \in Nat /\ m \in P!Managers
  BY ListParts
<1>2. \A i, j \in 0..L : i <= j => T!CountTo(m, i) \in Nat /\ T!CountTo(m, i) <= T!CountTo(m, j)
  BY <1>1, Assumed, SameManager, P!CountToGrows
<1>3. /\ T!CountTo(m, 0) = 0
      /\ \A i \in 1..L : T!CountTo(m, i) = T!CountTo(m, i - 1) + m.count[m.counters[i]]
  BY <1>1, Assumed, SameManager, P!CountToSum
<1>4. PICK k \in Late : \A i \in Late : k <= i
  <2>1. L + 1 \in Late /\ Late \subseteq Nat
    BY <1>1
  <2> HIDE DEF Late
  <2> QED BY <2>1, Assumed, P!LeastNatural
<1>5. k \in 1..L + 1 /\ k \notin S /\ k - 1 \in 0..L
  BY <1>1, <1>4
<1>6. S = 1..k - 1
  <2>1. ASSUME NEW i \in 1..k - 1 PROVE i \in S
    <3>1. i \in 1..L + 1 /\ ~(k <= i)
      BY <1>1, <1>5
    <3> QED BY <1>4, <3>1
  <2>2. ASSUME NEW i \in S PROVE i \in 1..k - 1
    <3>1. i \in 1..L /\ T!CountTo(m, i) <= lag
      OBVIOUS
    <3>2. CASE k <= i
      <4>1. k \in 1..L /\ k \in 0..L /\ i \in 0..L
        BY <1>1, <1>5, <3>1, <3>2
      <4>2. T!CountTo(m, k) \in Nat /\ T!CountTo(m, i) \in Nat /\ T!CountTo(m, k) <= T!CountTo(m, i)
        BY <1>2, <3>2, <4>1
      <4>3. T!CountTo(m, k) <= lag
        BY <3>1, <4>2
      <4> QED BY <1>5, <4>1, <4>3
    <3> QED BY <1>1, <1>5, <3>1, <3>2
  <2> QED BY <2>1, <2>2
<1>7. Cardinality(S) = k - 1
  <2>1. Cardinality(1..k - 1) = IF 1 > k - 1 THEN 0 ELSE (k - 1) - 1 + 1
    BY <1>1, <1>5, FS_Interval
  <2> HIDE DEF S
  <2>2. Cardinality(S) = Cardinality(1..k - 1)
    BY <1>6
  <2>3. (IF 1 > k - 1 THEN 0 ELSE (k - 1) - 1 + 1) = k - 1
    BY <1>1, <1>5
  <2> QED BY <2>1, <2>2, <2>3
<1>8. T!CountTo(m, k - 1) \in Nat
  BY <1>2, <1>5
<1>9. ASSUME k - 1 # L PROVE lag < T!CountTo(m, k - 1) + m.count[m.counters[k]]
  <2>1. k \in 1..L /\ k \in 0..L
    BY <1>1, <1>5, <1>9
  <2>2. ~(T!CountTo(m, k) <= lag) /\ T!CountTo(m, k) \in Nat
    BY <1>2, <1>5, <2>1
  <2> QED BY <1>3, <2>1, <2>2
<1>10. (k - 1) + 1 = k
  BY <1>1, <1>5
<1> HIDE DEF S
<1> QED BY <1>3, <1>5, <1>6, <1>7, <1>8, <1>9, <1>10 DEF S

\* processTimers(): the records whose timers are due are written, the others
\* go on.
LEMMA TimersProcessed ==
  ASSUME tm \in Lists, T!Delta(timeNow, now) \in Nat, ProcessTimers
  PROVE  \E R \in SUBSET Records :
           /\ UpdateNVRAM(R, Running')
           /\ tm' \in Lists /\ Running' = Running \ R
           /\ \A D \in [Records -> Int] : P!Gaps(tm, D)
                => /\ P!Gaps(tm', [r \in Records |-> D[r] - T!Delta(timeNow, now)])
                   /\ \A r \in Running' : D[r] > T!Delta(timeNow, now)
<1> DEFINE lag == T!Delta(timeNow, now)
           c == tm.counters
           n == Cardinality({i \in 1..Len(c) : T!CountTo(tm, i) <= lag})
           rest == SubSeq(c, n + 1, Len(c))
           R == {c[i] : i \in 1..n}
           count == [r \in Records |->
                       IF \E i \in 1..n : c[i] = r THEN 0
                       ELSE IF rest # <<>> /\ r = Head(rest)
                            THEN tm.count[r] - (lag - T!CountTo(tm, n)) ELSE tm.count[r]]
<1>1. tm' = [tm EXCEPT !.counters = rest, !.count = count] /\ UpdateNVRAM(R, T!ToSet(rest))
  BY DEF ProcessTimers
<1>2. /\ n \in 0..Len(c) /\ T!CountTo(tm, n) \in Nat
      /\ n = 0 => T!CountTo(tm, n) = 0
      /\ n # Len(c) => lag < T!CountTo(tm, n) + tm.count[c[n + 1]]
  BY DueTimers
<1>3. /\ tm \in P!Managers /\ c \in Seq(Records) /\ tm.count \in [Records -> Nat]
      /\ tm.pendingAttach = <<>>
      /\ Len(c) \in Nat /\ \A i \in 1..Len(c) : c[i] \in Records
      /\ T!Active(tm) = {c[i] : i \in 1..Len(c)}
  BY ListParts
<1>4. \A i, j \in 1..Len(c) : c[i] = c[j] => i = j
  BY ListParts DEF P!Once
<1> HIDE DEF n, lag
<1>5. /\ rest \in Seq(Records) /\ Len(rest) = Len(c) - n
      /\ \A i \in 1..Len(c) - n : rest[i] = c[n + i]
  <2>1. n + 1 \in Int /\ Len(c) \in Int /\ \A i \in n + 1..Len(c) : c[i] \in Records
    BY <1>2, <1>3
  <2>2. /\ rest \in Seq(Records)
        /\ Len(rest) = IF n + 1 <= Len(c) THEN Len(c) - (n + 1) + 1 ELSE 0
        /\ \A i \in 1..Len(c) - (n + 1) + 1 : rest[i] = c[n + 1 + i - 1]
    BY <2>1, SubSeqProperties
  <2> HIDE DEF rest
  <2>3. Len(c) - (n + 1) + 1 = Len(c) - n /\ \A i \in 1..Len(c) - n : n + 1 + i - 1 = n + i
    BY <1>2, <1>3
  <2>4. Len(rest) = Len(c) - n
    BY <1>2, <1>3, <2>2
  <2> QED BY <2>2, <2>3, <2>4
<1> HIDE DEF rest
<1>6. rest # <<>> => n # Len(c) /\ n + 1 \in 1..Len(c) /\ Head(rest) = c[n + 1]
  <2>1. rest # <<>> => Len(rest) # 0
    BY <1>5, Assumed, P!ListElements
  <2>2. rest # <<>> => Head(rest) = rest[1]
    BY <1>5
  <2>3. rest # <<>> => n # Len(c) /\ n + 1 \in 1..Len(c) /\ 1 \in 1..Len(c) - n
    BY <1>2, <1>3, <1>5, <2>1, SMTT(30)
  <2> QED BY <1>5, <2>2, <2>3
<1>7. count \in [Records -> Nat]
  <2>1. ASSUME NEW r \in Records, rest # <<>>, r = Head(rest)
        PROVE  tm.count[r] - (lag - T!CountTo(tm, n)) \in Nat
    <3>1. n # Len(c) /\ r = c[n + 1]
      BY <1>6, <2>1
    <3>2. lag < T!CountTo(tm, n) + tm.count[r] /\ tm.count[r] \in Nat
      BY <1>2, <1>3, <3>1
    <3>3. lag \in Nat
      BY DEF lag
    <3> QED BY <1>2, <3>2, <3>3
  <2> QED BY <1>3, <2>1
<1>8. /\ tm' \in P!Managers /\ tm'.counters = rest /\ tm'.count = count
      /\ tm'.pendingAttach = <<>>
  <2> HIDE DEF count
  <2> QED BY <1>1, <1>3, <1>5, <1>7 DEF P!Managers
<1>9. P!Once(rest)
  <2>1. \A i \in 1..Len(rest) : n + i \in 1..Len(c) /\ rest[i] = c[n + i]
    BY <1>2, <1>3, <1>5
  <2>2. ASSUME NEW i \in 1..Len(rest), NEW j \in 1..Len(rest), rest[i] = rest[j] PROVE i = j
    <3>1. n + i = n + j
      BY <1>4, <2>1, <2>2
    <3> QED BY <1>2, <3>1
  <2> QED BY <2>2 DEF P!Once
<1>10. tm' \in Lists
  BY <1>8, <1>9 DEF Lists
<1>11. T!Active(tm)' = T!Active(tm) \ R
  <2>1. T!Active(tm)' = {rest[i] : i \in 1..Len(rest)}
    <3>1. T!ToSet(rest) = {rest[i] : i \in 1..Len(rest)}
      BY <1>5, SameOperators, Assumed, P!ListElements
    <3> QED BY <1>8, <3>1 DEF T!Active
  <2>2. ASSUME NEW i \in 1..Len(rest) PROVE rest[i] \in T!Active(tm) \ R
    <3>1. n + i \in 1..Len(c) /\ rest[i] = c[n + i] /\ ~(n + i <= n)
      BY <1>2, <1>3, <1>5
    <3>2. ASSUME NEW j \in 1..n PROVE j \in 1..Len(c) /\ j # n + i
      <4>1. n \in Nat /\ j <= n /\ i \in Nat
        BY <1>2, <1>3, <1>5
      <4> QED BY <1>2, <1>3, <3>1, <4>1, SMTT(30)
    <3> QED BY <1>3, <1>4, <3>1, <3>2
  <2>3. ASSUME NEW j \in 1..Len(c), c[j] \notin R PROVE c[j] \in {rest[i] : i \in 1..Len(rest)}
    <3>1. j \notin 1..n
      BY <2>3
    <3>2. j - n \in 1..Len(rest) /\ n + (j - n) = j
      BY <1>2, <1>3, <1>5, <3>1
    <3> QED BY <1>5, <3>2
  <2> QED BY <1>3, <2>1, <2>2, <2>3
<1>12. ASSUME NEW D \in [Records -> Int], P!Gaps(tm, D)
       PROVE  /\ P!Gaps(tm', [r \in Records |-> D[r] - lag])
              /\ \A r \in T!Active(tm)' : D[r] > lag
  <2> DEFINE E == [r \in Records |-> D[r] - lag]
  <2>0. lag \in Nat
    BY DEF lag
  <2>1. \A i \in 1..Len(c) : D[c[i]] = T!CountTo(tm, i)
    BY <1>3, <1>12, P!GapsSum, Assumed, SameManager
  <2>2. \A i \in 1..Len(c) : T!CountTo(tm, i) = T!CountTo(tm, i - 1) + tm.count[c[i]]
    BY <1>3, Assumed, SameManager, P!CountToSum
  <2>3. \A i, j \in 0..Len(c) :
          i <= j => T!CountTo(tm, i) \in Nat /\ T!CountTo(tm, i) <= T!CountTo(tm, j)
    BY <1>3, Assumed, SameManager, P!CountToGrows
  <2>4. ASSUME NEW i \in 1..Len(rest)
        PROVE  /\ n + i \in 1..Len(c) /\ rest[i] = c[n + i] /\ rest[i] \in Records
               /\ E[rest[i]] = T!CountTo(tm, n + i) - lag
               /\ \A j \in 1..n : c[j] # rest[i]
    <3>1. n + i \in 1..Len(c) /\ rest[i] = c[n + i] /\ n < n + i
      BY <1>2, <1>3, <1>5
    <3>2. ASSUME NEW j \in 1..n PROVE j \in 1..Len(c) /\ j # n + i
      <4>1. n \in Nat /\ n <= Len(c) /\ j <= n /\ j \in Nat /\ 1 <= j
        BY <1>2, <1>3
      <4>2. Len(c) \in Nat
        BY <1>3
      <4>3. n < n + i
        BY <3>1
      <4> HIDE DEF c, rest, E
      <4> QED BY <4>1, <4>2, <4>3
    <3>3. rest[i] \in Records /\ D[rest[i]] = T!CountTo(tm, n + i)
      BY <1>3, <2>1, <3>1
    <3> QED BY <1>4, <3>1, <3>2, <3>3
  <2>5. ASSUME NEW i \in 1..Len(rest) PROVE T!CountTo(tm, n + i) > lag
    <3>1. n + i \in 1..Len(c) /\ n + 1 \in 1..Len(c) /\ n # Len(c) /\ n + 1 <= n + i
          /\ n + i \in 0..Len(c) /\ n + 1 \in 0..Len(c) /\ (n + 1) - 1 = n
      BY <1>2, <1>3, <1>5
    <3>2. T!CountTo(tm, n + 1) = T!CountTo(tm, n) + tm.count[c[n + 1]]
      BY <2>2, <3>1
    <3>3. /\ T!CountTo(tm, n + 1) <= T!CountTo(tm, n + i)
          /\ T!CountTo(tm, n + 1) \in Nat /\ T!CountTo(tm, n + i) \in Nat
      BY <2>3, <3>1
    <3>4. lag < T!CountTo(tm, n + 1)
      BY <1>2, <3>1, <3>2
    <3> QED BY <2>0, <3>3, <3>4
  <2>6. ASSUME NEW i \in 1..Len(rest)
        PROVE  E[rest[i]] = P!Before(rest, E, i) + count[rest[i]]
    <3>1. /\ n + i \in 1..Len(c) /\ rest[i] = c[n + i] /\ rest[i] \in Records
          /\ E[rest[i]] = T!CountTo(tm, n + i) - lag
          /\ \A j \in 1..n : c[j] # rest[i]
      BY <2>4
    <3>2. 1 \in 1..Len(rest) /\ rest # <<>> /\ Head(rest) = rest[1]
      BY <1>5
    <3>3. T!CountTo(tm, n + i) = T!CountTo(tm, (n + i) - 1) + tm.count[rest[i]]
      BY <2>2, <3>1
    <3>4. T!CountTo(tm, n) \in Nat /\ tm.count[rest[i]] \in Nat /\ n \in Nat /\ i \in Nat
      <4>1. n \in Nat /\ i \in Nat
        BY <1>2, <1>3, <1>5
      <4> QED BY <1>2, <1>3, <3>1, <4>1
    <3>5. CASE i = 1
      <4>1. count[rest[i]] = tm.count[rest[i]] - (lag - T!CountTo(tm, n))
        BY <3>1, <3>2, <3>5
      <4>2. (n + i) - 1 = n
        BY <3>4, <3>5
      <4>3. P!Before(rest, E, i) = 0
        BY <3>5 DEF P!Before
      <4>4. E[rest[i]] = T!CountTo(tm, n + i) - lag
        BY <3>1
      <4>5. T!CountTo(tm, n + i) = T!CountTo(tm, n) + tm.count[rest[i]]
        BY <3>3, <4>2
      <4> HIDE DEF E, count
      <4> QED BY <2>0, <3>4, <4>1, <4>3, <4>4, <4>5
    <3>6. CASE i # 1
      <4>1. i - 1 \in 1..Len(rest) /\ (n + i) - 1 = n + (i - 1)
        BY <1>5, <3>4, <3>6
      <4>2. E[rest[i - 1]] = T!CountTo(tm, n + (i - 1)) - lag /\ n + (i - 1) \in 1..Len(c)
        BY <2>4, <4>1
      <4>3. rest[i] # rest[1]
        BY <1>9, <3>2, <3>6 DEF P!Once
      <4>4. count[rest[i]] = tm.count[rest[i]]
        BY <3>1, <3>2, <4>3
      <4>5. P!Before(rest, E, i) = E[rest[i - 1]]
        BY <3>6 DEF P!Before
      <4>6. T!CountTo(tm, n + (i - 1)) \in Nat
        <5>1. n + (i - 1) \in 0..Len(c)
          BY <1>3, <4>2
        <5> HIDE DEF E, count, R
        <5> QED BY <2>3, <5>1
      <4>7. E[rest[i]] = T!CountTo(tm, n + i) - lag
        BY <3>1
      <4>8. T!CountTo(tm, n + i) = T!CountTo(tm, n + (i - 1)) + tm.count[rest[i]]
        BY <3>3, <4>1
      <4> HIDE DEF E, count
      <4> QED BY <2>0, <3>4, <4>2, <4>4, <4>5, <4>6, <4>7, <4>8
    <3> QED BY <3>5, <3>6
  <2>7. P!Gaps(tm', E)
    <3> HIDE DEF E, count
    <3> QED BY <1>8, <2>6 DEF P!Gaps, P!Differences
  <2>8. ASSUME NEW r \in T!Active(tm)' PROVE D[r] > lag
    <3>1. T!ToSet(rest) = {rest[i] : i \in 1..Len(rest)}
      BY <1>5, SameOperators, Assumed, P!ListElements
    <3>2. PICK i \in 1..Len(rest) : r = rest[i]
      BY <1>8, <2>8, <3>1 DEF T!Active
    <3>3. n + i \in 1..Len(c) /\ rest[i] = c[n + i]
      BY <2>4
    <3>4. D[r] = T!CountTo(tm, n + i)
      BY <2>1, <3>2, <3>3
    <3> QED BY <2>5, <3>4
  <2> QED BY <2>7, <2>8
<1>14. T!Active(tm)' = T!ToSet(rest)
  BY <1>8 DEF T!Active
<1>13. R \in SUBSET Records
  BY <1>2, <1>3
<1> QED BY <1>1, <1>10, <1>11, <1>12, <1>13, <1>14 DEF Running, lag

-----------------------------------------------------------------------------
(***************************************************************************)
(* No change is forgotten.  NotForgotten is not inductive: it says nothing *)
(* of a record whose start() is running, and the timers that go on running *)
(* are those of a list only as long as no timer is in it twice.            *)
(***************************************************************************)
Lag == T!Delta(timeNow, now)

SaveInv ==
    /\ tm \in Lists /\ Lag <= MaxLag /\ NotForgotten
    /\ \A r \in Records : phase[r] = "starting" => stored[r] = "current" \/ r \in lost

\* The smaller of two numbers
LEMMA SmallerOf ==
  ASSUME NEW a \in Int, NEW b \in Int
  PROVE  Min({a, b}) = IF a <= b THEN a ELSE b
BY DEF Min

\* The difference of two clock values is a clock value.
LEMMA LagType ==
  ASSUME NEW a \in 0..Wrap - 1, NEW b \in 0..Wrap - 1
  PROVE  T!Delta(a, b) \in 0..Wrap - 1 /\ T!Delta(a, b) \in Nat /\ T!Delta(b, b) = 0
<1>1. P!Delta(a, b) \in 0..Wrap - 1 /\ P!Delta(b, b) = 0
  BY Assumed, P!DeltaType, P!DeltaSelf
<1> QED BY <1>1, SameDelta, RecordAssumption

\* The parts of the current list have their types.
LEMMA ListTypes ==
  ASSUME tm \in Lists
  PROVE  tm.counters \in Seq(Records) /\ tm.pendingAttach = <<>> /\ tm.count \in [Records -> Nat]
         /\ Running \subseteq Records
BY ListParts DEF Running

\* A record whose write was tried is up to date, its timer runs, or the change
\* is lost.
LEMMA Written ==
  ASSUME TypeOK, NEW R \in SUBSET Records, NEW running, UpdateNVRAM(R, running)
  PROVE  /\ stored' \in [Records -> {"current", "old", "none"}]
         /\ waiting' \subseteq Records /\ waited' \in [Records -> 0..WaitCap]
         /\ lost' \subseteq Records /\ misread' \subseteq Records
         /\ \A r \in R : stored'[r] = "current" \/ r \in running \/ r \in lost'
         /\ \A r \in R : waited'[r] = 0 /\ r \notin waiting' /\ r \notin misread'
         /\ \A r \in Records \ R : /\ stored'[r] = stored[r] /\ waited'[r] = waited[r]
                                   /\ r \in lost => r \in lost'
                                   /\ r \in waiting' <=> r \in waiting
                                   /\ r \in misread' <=> r \in misread
<1>1. 0 \in 0..WaitCap
  BY RecordAssumption DEF WaitCap
<1>2. PICK written \in SUBSET R : \E damaged \in SUBSET (R \ written) :
         /\ stored' = [r \in Records |-> IF r \in written THEN "current"
                                        ELSE IF r \in damaged THEN "none"
                                        ELSE stored[r]]
         /\ lost' = (lost \ written) \cup ((R \ written) \ running)
  BY DEF UpdateNVRAM
<1>3. /\ stored' \in [Records -> {"current", "old", "none"}]
      /\ \A r \in R : r \in written => stored'[r] = "current"
      /\ \A r \in Records \ R : stored'[r] = stored[r]
  BY <1>2 DEF TypeOK
<1>4. /\ lost' \subseteq Records
      /\ \A r \in R : r \notin written => r \in running \/ r \in lost'
      /\ \A r \in Records \ R : r \in lost => r \in lost'
  BY <1>2 DEF TypeOK
<1>5. /\ waiting' \subseteq Records /\ waited' \in [Records -> 0..WaitCap]
      /\ misread' \subseteq Records
      /\ \A r \in R : waited'[r] = 0 /\ r \notin waiting' /\ r \notin misread'
      /\ \A r \in Records \ R : /\ waited'[r] = waited[r]
                                /\ r \in waiting' <=> r \in waiting
                                /\ r \in misread' <=> r \in misread
  BY <1>1 DEF UpdateNVRAM, EndWait, TypeOK
<1> QED BY <1>3, <1>4, <1>5

\* The list of a server that has just been started is empty.
LEMMA NoTimersType ==
  NoTimers \in Lists /\ T!Active(NoTimers) = {} /\ NoTimers.count = [r \in Records |-> 0]
<1>1. /\ NoTimers.counters = <<>> /\ NoTimers.pendingAttach = <<>>
      /\ NoTimers.count = [r \in Records |-> 0]
  BY DEF NoTimers
<1>2. NoTimers \in P!Managers
  BY DEF P!Managers, NoTimers
<1>3. P!ToSet(<<>>) = {} /\ Len(<<>>) = 0
  BY Assumed, P!EmptyList
<1>4. P!Once(<<>>)
  BY <1>3 DEF P!Once
<1>5. P!Active(NoTimers) = {}
  BY <1>1, <1>3 DEF P!Active
<1> QED BY <1>1, <1>2, <1>4, <1>5, SameManager DEF Lists

\* At power-on nothing is known or waiting.
LEMMA SaveInit ==
  ASSUME Init
  PROVE  SaveInv
<1>1. tm \in Lists /\ Running = {}
  BY NoTimersType DEF Init, Running
<1>2. TypeOK
  <2>1. 0 \in 0..Wrap - 1 /\ 0 \in 0..WaitCap /\ 0 \in 0..MaxRequests
    BY RecordAssumption DEF WaitCap
  <2> QED BY <1>1, <2>1, ListTypes DEF Init, TypeOK
<1>3. Lag = 0
  BY <1>2, LagType DEF Init, TypeOK, Lag
<1> QED BY <1>1, <1>2, <1>3, RecordAssumption DEF Init, SaveInv, NotForgotten

\* What leaves the timers and the clock alone.
LEMMA QuietStep ==
  ASSUME SaveInv, UNCHANGED timerVars
  PROVE  /\ tm' \in Lists /\ Running' = Running /\ Lag' = Lag
         /\ tm'.counters \in Seq(Records) /\ tm'.pendingAttach = <<>>
         /\ tm'.count \in [Records -> Nat] /\ {now', timeNow'} \subseteq 0..Wrap - 1
<1>1. tm' = tm /\ now' = now /\ timeNow' = timeNow
  BY DEF timerVars
<1>2. Running' = Running
  BY <1>1 DEF Running
<1>3. Lag' = Lag
  BY <1>1 DEF Lag
<1> QED BY <1>1, <1>2, <1>3, ListTypes DEF SaveInv, NotForgotten, TypeOK

\* The requests stay within their bound.
LEMMA RequestStep ==
  ASSUME TypeOK, NEW op, Request(op)
  PROVE  requests' \in 0..MaxRequests
BY RecordAssumption DEF Request, TypeOK

\* A change of a point is notified.
LEMMA ChangeSaves ==
  ASSUME SaveInv, NEW r \in Records, Change(r)
  PROVE  SaveInv'
<1>1. /\ tm' \in Lists /\ Running' = Running /\ Lag' = Lag
      /\ tm'.counters \in Seq(Records) /\ tm'.pendingAttach = <<>>
      /\ tm'.count \in [Records -> Nat] /\ {now', timeNow'} \subseteq 0..Wrap - 1
  BY QuietStep DEF Change
<1>2. TypeOK'
  BY <1>1 DEF SaveInv, NotForgotten, TypeOK, Change, waitVars
<1> QED BY <1>1, <1>2, SMTT(30) DEF SaveInv, NotForgotten, TypeOK, Change, waitVars

\* start() loads what is stored ...
LEMMA StartSaves ==
  ASSUME SaveInv, NEW r \in Records, Start(r)
  PROVE  SaveInv'
<1>1. /\ tm' \in Lists /\ Running' = Running /\ Lag' = Lag
      /\ tm'.counters \in Seq(Records) /\ tm'.pendingAttach = <<>>
      /\ tm'.count \in [Records -> Nat] /\ {now', timeNow'} \subseteq 0..Wrap - 1
  BY QuietStep DEF Start
<1>2. TypeOK'
  BY <1>1 DEF SaveInv, NotForgotten, TypeOK, Start, waitVars
<1> QED BY <1>1, <1>2, SMTT(30) DEF SaveInv, NotForgotten, TypeOK, Start, waitVars

\* ... and then subscribes.
LEMMA SubscribeSaves ==
  ASSUME SaveInv, NEW r \in Records, Subscribe(r)
  PROVE  SaveInv'
<1>1. /\ tm' \in Lists /\ Running' = Running /\ Lag' = Lag
      /\ tm'.counters \in Seq(Records) /\ tm'.pendingAttach = <<>>
      /\ tm'.count \in [Records -> Nat] /\ {now', timeNow'} \subseteq 0..Wrap - 1
  BY QuietStep DEF Subscribe
<1>2. TypeOK'
  BY <1>1 DEF SaveInv, NotForgotten, TypeOK, Subscribe, writeVars, waitVars
<1> QED BY <1>1, <1>2 DEF SaveInv, NotForgotten, TypeOK, Subscribe, writeVars, waitVars

\* stop() unsubscribes and leaves the timer running.
LEMMA StopSaves ==
  ASSUME SaveInv, NEW r \in Records, Stop(r)
  PROVE  SaveInv'
<1>1. /\ tm' \in Lists /\ Running' = Running /\ Lag' = Lag
      /\ tm'.counters \in Seq(Records) /\ tm'.pendingAttach = <<>>
      /\ tm'.count \in [Records -> Nat] /\ {now', timeNow'} \subseteq 0..Wrap - 1
  BY QuietStep DEF Stop
<1>2. TypeOK'
  <2>1. requests' \in 0..MaxRequests
    BY RequestStep DEF SaveInv, NotForgotten, Stop
  <2>2. 0 \in 0..WaitCap
    BY RecordAssumption DEF WaitCap
  <2> QED BY <1>1, <2>1, <2>2 DEF SaveInv, NotForgotten, TypeOK, Stop, EndWait
<1> QED BY <1>1, <1>2, SMTT(30) DEF SaveInv, NotForgotten, TypeOK, Stop, EndWait

\* flush() writes at once and leaves the timer running.
LEMMA FlushSaves ==
  ASSUME SaveInv, NEW r \in Records, Flush(r)
  PROVE  SaveInv'
<1>1. /\ tm' \in Lists /\ Running' = Running /\ Lag' = Lag
      /\ tm'.counters \in Seq(Records) /\ tm'.pendingAttach = <<>>
      /\ tm'.count \in [Records -> Nat] /\ {now', timeNow'} \subseteq 0..Wrap - 1
  BY QuietStep DEF Flush
<1>2. /\ stored' \in [Records -> {"current", "old", "none"}]
      /\ waiting' \subseteq Records /\ waited' \in [Records -> 0..WaitCap]
      /\ lost' \subseteq Records /\ misread' \subseteq Records
      /\ \A q \in {r} : stored'[q] = "current" \/ q \in Running \/ q \in lost'
      /\ \A q \in Records \ {r} : stored'[q] = stored[q] /\ (q \in lost => q \in lost')
  <2>1. TypeOK /\ UpdateNVRAM({r}, Running) /\ {r} \in SUBSET Records
    BY DEF SaveInv, NotForgotten, Flush
  <2> HIDE DEF Running
  <2> QED BY <2>1, Written
<1>3. requests' \in 0..MaxRequests
  BY RequestStep DEF SaveInv, NotForgotten, Flush
<1>4. TypeOK'
  BY <1>1, <1>2, <1>3 DEF SaveInv, NotForgotten, TypeOK, Flush
<1> QED BY <1>1, <1>2, <1>4 DEF SaveInv, NotForgotten, TypeOK, Flush

\* erase() leaves the timer as it is.
LEMMA EraseSaves ==
  ASSUME SaveInv, NEW r \in Records, Erase(r)
  PROVE  SaveInv'
<1>1. /\ tm' \in Lists /\ Running' = Running /\ Lag' = Lag
      /\ tm'.counters \in Seq(Records) /\ tm'.pendingAttach = <<>>
      /\ tm'.count \in [Records -> Nat] /\ {now', timeNow'} \subseteq 0..Wrap - 1
  BY QuietStep DEF Erase
<1>2. requests' \in 0..MaxRequests
  BY RequestStep DEF SaveInv, NotForgotten, Erase
<1>3. TypeOK'
  BY <1>1, <1>2 DEF SaveInv, NotForgotten, TypeOK, Erase, waitVars
<1>4. phase[r] = "on"
  BY DEF Erase
<1> QED BY <1>1, <1>3, <1>4 DEF SaveInv, NotForgotten, TypeOK, Erase, waitVars

\* Timer::start() for a change.
LEMMA DeferTimers ==
  ASSUME SaveInv, NEW r \in Records, ChangedDefer(r)
  PROVE  /\ tm' \in Lists /\ Running' = Running \cup {r}
         /\ \A D \in [Records -> Int] :
              P!Gaps(tm, D) => P!Gaps(tm', [D EXCEPT ![r] = Delay + Lag])
<1> DEFINE m == T!Detach(tm, r)
           c == T!MsecToCounts(Delay)
<1>1. tm \in Lists /\ {now, timeNow} \subseteq 0..Wrap - 1
  BY DEF SaveInv, NotForgotten, TypeOK
<1>2. /\ m \in Lists /\ T!Active(m) = T!Active(tm) \ {r}
      /\ \A D \in [Records -> Int] : P!Gaps(tm, D) => P!Gaps(m, D)
  BY <1>1, Stopped
<1>3. c = Delay + Lag /\ c \in Nat
  <2>1. Lag \in Nat
    BY <1>1, LagType DEF Lag
  <2> QED BY <2>1, RecordAssumption DEF T!MsecToCounts, Lag
<1>4. tm' = T!Attach([m EXCEPT !.count[r] = c], r)
  BY DEF ChangedDefer
<1> HIDE DEF m, c
<1>5. /\ tm' \in Lists /\ T!Active(tm') = T!Active(m) \cup {r}
      /\ \A D \in [Records -> Int] : P!Gaps(m, D) => P!Gaps(tm', [D EXCEPT ![r] = c])
  BY <1>2, <1>3, <1>4, Started
<1>6. Running' = T!Active(tm')
  BY DEF Running, T!Active
<1> QED BY <1>2, <1>3, <1>5, <1>6 DEF Running

\* dataChanged() starts the settling timer anew ...
LEMMA DeferSaves ==
  ASSUME SaveInv, NEW r \in Records, ChangedDefer(r)
  PROVE  SaveInv'
<1>1. tm' \in Lists /\ Running' = Running \cup {r}
  BY DeferTimers
<1>2. TypeOK'
  <2>1. /\ tm'.counters \in Seq(Records) /\ tm'.pendingAttach = <<>>
        /\ tm'.count \in [Records -> Nat]
    BY <1>1, ListParts
  <2>2. NewMarker(r) \in 0..Wrap - 1
    BY DEF SaveInv, NotForgotten, TypeOK, NewMarker
  <2> QED BY <2>1, <2>2 DEF SaveInv, NotForgotten, TypeOK, ChangedDefer, DataChanged, Wait
<1>3. Lag' = Lag
  BY DEF ChangedDefer, DataChanged, Lag
<1>4. /\ stored' = stored /\ phase' = phase /\ mute' = mute
      /\ pending' = pending \ {r} /\ lost' = lost \ {r}
  BY DEF ChangedDefer, DataChanged, Wait
<1>5. ASSUME NEW q \in Records, phase'[q] = "on", q \notin mute', stored'[q] # "current"
      PROVE  q \in pending' \/ q \in Running' \/ q \in lost'
  BY <1>1, <1>4, <1>5 DEF SaveInv, NotForgotten
<1>6. NotForgotten'
  BY <1>2, <1>5 DEF NotForgotten
<1>7. \A q \in Records : phase'[q] # "starting"
  BY <1>4 DEF ChangedDefer, DataChanged, Busy
<1> QED BY <1>1, <1>3, <1>6, <1>7 DEF SaveInv

\* ... or, after the maximum delay, writes and stops it.
LEMMA WriteNowSaves ==
  ASSUME SaveInv, NEW r \in Records, ChangedWriteNow(r)
  PROVE  /\ SaveInv' /\ Running' = Running \ {r}
         /\ \A D \in [Records -> Int] : P!Gaps(tm, D) => P!Gaps(tm', D)
<1>1. /\ tm' \in Lists /\ Running' = Running \ {r}
      /\ \A D \in [Records -> Int] : P!Gaps(tm, D) => P!Gaps(tm', D)
  <2>1. /\ tm' \in Lists /\ T!Active(tm') = T!Active(tm) \ {r}
        /\ \A D \in [Records -> Int] : P!Gaps(tm, D) => P!Gaps(tm', D)
    BY Stopped DEF SaveInv, ChangedWriteNow
  <2> QED BY <2>1 DEF Running, T!Active
<1>2. /\ stored' \in [Records -> {"current", "old", "none"}]
      /\ waiting' \subseteq Records /\ waited' \in [Records -> 0..WaitCap]
      /\ lost' \subseteq Records /\ misread' \subseteq Records
      /\ \A q \in {r} : stored'[q] = "current" \/ q \in Running \ {r} \/ q \in lost'
      /\ \A q \in Records \ {r} : stored'[q] = stored[q] /\ (q \in lost => q \in lost')
  <2>1. TypeOK /\ {r} \in SUBSET Records /\ UpdateNVRAM({r}, Running \ {r})
    BY DEF SaveInv, NotForgotten, ChangedWriteNow
  <2> QED BY <2>1, Written
<1>3. TypeOK'
  <2>1. /\ tm'.counters \in Seq(Records) /\ tm'.pendingAttach = <<>>
        /\ tm'.count \in [Records -> Nat]
    BY <1>1, ListParts
  <2>2. NewMarker(r) \in 0..Wrap - 1
    BY DEF SaveInv, NotForgotten, TypeOK, NewMarker
  <2> QED BY <1>2, <2>1, <2>2 DEF SaveInv, NotForgotten, TypeOK, ChangedWriteNow, DataChanged
<1>4. Lag' = Lag
  BY DEF ChangedWriteNow, DataChanged, Lag
<1> QED BY <1>1, <1>2, <1>3, <1>4
        DEF SaveInv, NotForgotten, TypeOK, ChangedWriteNow, DataChanged

\* A timer that expires writes the record it belongs to; the others run on.
LEMMA TimersSave ==
  ASSUME SaveInv, ProcessTimers
  PROVE  SaveInv'
<1>1. {now, timeNow} \subseteq 0..Wrap - 1 /\ tm \in Lists /\ TypeOK
  BY DEF SaveInv, NotForgotten, TypeOK
<1>2. T!Delta(timeNow, now) \in Nat
  BY <1>1, LagType
<1>3. PICK R \in SUBSET Records : UpdateNVRAM(R, Running') /\ tm' \in Lists /\ Running' = Running \ R
  BY <1>1, <1>2, TimersProcessed
<1>4. /\ stored' \in [Records -> {"current", "old", "none"}]
      /\ waiting' \subseteq Records /\ waited' \in [Records -> 0..WaitCap]
      /\ lost' \subseteq Records /\ misread' \subseteq Records
      /\ \A r \in R : stored'[r] = "current" \/ r \in Running' \/ r \in lost'
      /\ \A r \in Records \ R : stored'[r] = stored[r] /\ (r \in lost => r \in lost')
  BY <1>1, <1>3, Written
<1>5. /\ timeNow' = now /\ UNCHANGED <<now, pending, phase, mute, marker, requests>>
  BY DEF ProcessTimers
<1>6. TypeOK'
  <2>1. /\ tm'.counters \in Seq(Records) /\ tm'.pendingAttach = <<>>
        /\ tm'.count \in [Records -> Nat]
    BY <1>3, ListParts
  <2> QED BY <1>1, <1>4, <1>5, <2>1 DEF TypeOK
<1>7. Lag' = 0
  BY <1>1, <1>5, LagType DEF Lag
<1> QED BY <1>3, <1>4, <1>5, <1>6, <1>7, RecordAssumption DEF SaveInv, NotForgotten

\* Time brings no timer past its expiration.
LEMMA TimeSaves ==
  ASSUME SaveInv, TimePasses
  PROVE  SaveInv' /\ Lag' = Lag + 1 /\ Lag + 1 <= MaxLag
<1>1. {now, timeNow} \subseteq 0..Wrap - 1 /\ tm \in Lists /\ TypeOK
  BY DEF SaveInv, NotForgotten, TypeOK
<1>2. Lag \in 0..Wrap - 1 /\ Lag < MaxLag /\ MaxLag \in Nat /\ MaxLag < Wrap /\ Wrap \in Nat
  BY <1>1, LagType, RecordAssumption DEF Lag, TimePasses
<1>3. now' \in 0..Wrap - 1 /\ Lag' = Lag + 1 /\ Lag + 1 <= MaxLag
  <2>1. Lag < Wrap - 1
    BY <1>2
  <2> QED BY <1>1, <1>2, <2>1, DeltaNext DEF Lag, TimePasses
<1>4. waited' \in [Records -> 0..WaitCap]
  <2>1. WaitCap \in Nat
    BY RecordAssumption DEF WaitCap
  <2>2. ASSUME NEW r \in Records PROVE Min({waited[r] + 1, WaitCap}) \in 0..WaitCap
    <3>1. waited[r] + 1 \in Nat
      BY <1>1, <2>1 DEF TypeOK
    <3> QED BY <2>1, <3>1, SmallerOf
  <2> QED BY <2>1, <2>2 DEF TimePasses
<1>5. TypeOK' /\ Running' = Running
  BY <1>1, <1>3, <1>4 DEF TypeOK, TimePasses, Running
<1> QED BY <1>1, <1>3, <1>5 DEF SaveInv, NotForgotten, TimePasses

\* With the power every unsaved change of this run is gone.
LEMMA PowerSaves ==
  ASSUME SaveInv, PowerFail
  PROVE  SaveInv'
<1>1. tm' \in Lists
  BY NoTimersType DEF PowerFail
<1>2. TypeOK'
  <2>1. 0 \in 0..Wrap - 1 /\ 0 \in 0..WaitCap
    BY RecordAssumption DEF WaitCap
  <2>2. requests' \in 0..MaxRequests
    BY RequestStep DEF SaveInv, NotForgotten, PowerFail
  <2>3. /\ tm'.counters \in Seq(Records) /\ tm'.pendingAttach = <<>>
        /\ tm'.count \in [Records -> Nat]
    BY <1>1, ListParts
  <2> QED BY <2>1, <2>2, <2>3 DEF SaveInv, NotForgotten, TypeOK, PowerFail, EndWait
<1>3. Lag' = 0
  BY <1>2, LagType DEF PowerFail, TypeOK, Lag
<1> QED BY <1>1, <1>2, <1>3, RecordAssumption DEF SaveInv, NotForgotten, PowerFail

\* SaveInv is inductive.
LEMMA SaveStep ==
  ASSUME SaveInv, [Next]_vars
  PROVE  SaveInv'
<1>1. CASE UNCHANGED vars
  <2>1. tm' = tm /\ UNCHANGED <<now, timeNow, stored, phase, mute, pending, requests, marker,
                               lost, waiting, waited, misread>>
    BY <1>1 DEF vars, timerVars, writeVars, waitVars
  <2>2. Running' = Running /\ Lag' = Lag /\ TypeOK'
    BY <2>1 DEF Running, Lag, SaveInv, NotForgotten, TypeOK
  <2> QED BY <2>1, <2>2 DEF SaveInv, NotForgotten
<1>2. ASSUME NEW r \in Records, Change(r) \/ Notify(r)
      PROVE  SaveInv'
  BY <1>2, ChangeSaves, DeferSaves, WriteNowSaves DEF Notify
<1>3. ASSUME NEW r \in Records, Start(r) \/ Subscribe(r) \/ Stop(r) \/ Flush(r) \/ Erase(r)
      PROVE  SaveInv'
  BY <1>3, StartSaves, SubscribeSaves, StopSaves, FlushSaves, EraseSaves
<1> QED BY <1>1, <1>2, <1>3, TimersSave, TimeSaves, PowerSaves DEF Next

\* No change is forgotten, with any number of records that share the timers
\* of one event loop, any delays, writes that fail, changes while start() is
\* running and power failures at any time.
THEOREM NotForgottenAlways == Spec => []NotForgotten
<1>1. Init => SaveInv
  BY SaveInit
<1>2. SaveInv /\ [Next]_vars => SaveInv'
  BY SaveStep
<1>3. SaveInv => NotForgotten
  BY DEF SaveInv
<1> QED BY <1>1, <1>2, <1>3, PTL DEF Spec

-----------------------------------------------------------------------------
(***************************************************************************)
(* A change does not wait too long.  The marker is the time of the first   *)
(* change that the running timer waits for: what has to be shown is that   *)
(* it is not older than the time a change has waited, unless it was moved, *)
(* and that the timer ends in time when it is that old.  When a timer ends *)
(* is the sum of the counts up to it: D holds it for every timer.          *)
(***************************************************************************)
Age(r) == T!Delta(marker[r], now)

WaitInv ==
    \A r \in Records :
        /\ r \notin waiting => waited[r] = 0
        /\ r \in waiting => r \in Running /\ (waited[r] <= Age(r) \/ r \in misread)
EndInv(D) ==
    /\ P!Gaps(tm, D)
    /\ \A r \in Running : D[r] >= 0 /\ Age(r) + D[r] - Lag <= MaxDelay - 1 + Delay
InTime == WaitInv /\ \E D \in [Records -> Int] : EndInv(D)

\* The times are numbers that fit the clock.
LEMMA WaitTypes ==
  ASSUME SaveInv, NEW r \in Records
  PROVE  /\ Age(r) \in 0..Wrap - 1 /\ Lag \in 0..MaxLag /\ waited[r] \in 0..WaitCap
         /\ NewMarker(r) \in 0..Wrap - 1
         /\ Wrap \in Nat /\ MaxLag \in Nat /\ Delay \in Nat /\ MaxDelay \in Nat
         /\ MaxDelay + Delay + MaxLag < Wrap /\ WaitCap = MaxDelay + Delay + MaxLag + 1
<1>1. Lag \in 0..Wrap - 1 /\ Age(r) \in 0..Wrap - 1
  BY LagType DEF SaveInv, NotForgotten, TypeOK, Lag, Age
<1>2. NewMarker(r) \in 0..Wrap - 1
  BY DEF SaveInv, NotForgotten, TypeOK, NewMarker
<1> QED BY <1>1, <1>2, RecordAssumption DEF SaveInv, NotForgotten, TypeOK, WaitCap

\* Nothing runs on an empty list.
LEMMA NoEnds ==
  ASSUME tm = NoTimers
  PROVE  \E D \in [Records -> Int] : EndInv(D)
<1>1. Running = {} /\ tm.counters = <<>>
  BY NoTimersType DEF Running, NoTimers
<1>2. PICK D : D = [r \in Records |-> 0]
  OBVIOUS
<1>3. P!Gaps(tm, D)
  BY <1>1, P!EmptyList, Assumed DEF P!Gaps, P!Differences
<1> QED BY <1>1, <1>2, <1>3 DEF EndInv

\* Nothing has waited at power-on.
LEMMA WaitInit ==
  ASSUME Init
  PROVE  InTime
BY NoEnds DEF Init, InTime, WaitInv

\* What leaves the timers alone and starts no wait.
LEMMA QuietWait ==
  ASSUME SaveInv, InTime, UNCHANGED <<timerVars, marker>>, NEW R \in SUBSET Records,
         UNCHANGED waitVars \/ EndWait(R)
  PROVE  InTime'
<1>1. tm' = tm /\ now' = now /\ timeNow' = timeNow /\ marker' = marker
  BY DEF timerVars
<1>2. Running' = Running /\ Lag' = Lag /\ \A r \in Records : Age(r)' = Age(r)
  BY <1>1 DEF Running, Lag, Age
<1>3. Running \subseteq Records
  BY ListTypes DEF SaveInv
<1>4. PICK D \in [Records -> Int] : EndInv(D)
  BY DEF InTime
<1>5. EndInv(D)'
  BY <1>1, <1>2, <1>3, <1>4 DEF EndInv
<1>6. CASE UNCHANGED waitVars
  <2>1. WaitInv'
    BY <1>2, <1>6 DEF WaitInv, InTime, waitVars
  <2> QED BY <1>4, <1>5, <2>1 DEF InTime
<1>7. CASE EndWait(R)
  <2>1. \A r \in Records : waited'[r] = IF r \in R THEN 0 ELSE waited[r]
    BY <1>7 DEF EndWait
  <2>2. waiting' = waiting \ R /\ misread' = misread \ R
    BY <1>7 DEF EndWait
  <2>3. WaitInv'
    BY <1>2, <2>1, <2>2 DEF WaitInv, InTime
  <2> QED BY <1>4, <1>5, <2>3 DEF InTime
<1> QED BY <1>6, <1>7

\* dataChanged() starts the timer anew, at most once MaxDelay after the marker.
LEMMA DeferInTime ==
  ASSUME SaveInv, InTime, NEW r \in Records, ChangedDefer(r)
  PROVE  InTime'
<1>1. PICK D \in [Records -> Int] : EndInv(D)
  BY DEF InTime
<1>e. PICK E : E = [D EXCEPT ![r] = Delay + Lag]
  OBVIOUS
<1>2. /\ Lag \in 0..MaxLag /\ NewMarker(r) \in 0..Wrap - 1
      /\ Wrap \in Nat /\ MaxLag \in Nat /\ Delay \in Nat /\ MaxDelay \in Nat
  BY WaitTypes
<1>3. Running' = Running \cup {r} /\ P!Gaps(tm', E) /\ Running \subseteq Records
  BY <1>1, <1>e, DeferTimers, ListTypes DEF EndInv, SaveInv
<1>4. /\ Lag' = Lag /\ now' = now /\ waited' = waited
      /\ marker'[r] = NewMarker(r) /\ T!Delta(NewMarker(r), now) < MaxDelay
      /\ \A q \in Records \ {r} : marker'[q] = marker[q]
      /\ waiting' = waiting \cup {r}
      /\ misread' = IF r \in waiting /\ tm.count[r] = 0 THEN misread \cup {r} ELSE misread
  BY DEF ChangedDefer, DataChanged, Defers, Wait, Lag, SaveInv, NotForgotten, TypeOK
<1>5. /\ Age(r)' = T!Delta(NewMarker(r), now) /\ Age(r)' \in 0..Wrap - 1
      /\ \A q \in Records \ {r} : Age(q)' = Age(q)
  <2>1. now \in 0..Wrap - 1
    BY DEF SaveInv, NotForgotten, TypeOK
  <2> QED BY <1>2, <1>4, <2>1, LagType DEF Age
<1>6. WaitInv'
  <2>1. waited[r] <= Age(r)' \/ r \in misread'
    <3>1. CASE r \in waiting /\ tm.count[r] # 0
      <4>1. NewMarker(r) = marker[r]
        BY <3>1 DEF NewMarker
      <4> QED BY <1>4, <1>5, <3>1, <4>1 DEF InTime, WaitInv, Age
    <3>2. CASE r \in waiting /\ tm.count[r] = 0
      BY <1>4, <3>2
    <3>3. CASE r \notin waiting
      BY <1>5, <3>3 DEF InTime, WaitInv
    <3> QED BY <3>1, <3>2, <3>3
  <2>2. ASSUME NEW q \in Records, q # r
        PROVE  /\ q \notin waiting' => waited'[q] = 0
               /\ q \in waiting' => q \in Running' /\ (waited'[q] <= Age(q)' \/ q \in misread')
    BY <1>3, <1>4, <1>5, <2>2 DEF InTime, WaitInv
  <2> QED BY <1>3, <1>4, <2>1, <2>2 DEF WaitInv
<1>7. ASSUME NEW q \in Running'
      PROVE  E[q] >= 0 /\ Age(q)' + E[q] - Lag' <= MaxDelay - 1 + Delay
  <2>1. CASE q = r
    <3>1. E[r] = Delay + Lag
      BY <1>e
    <3> QED BY <1>2, <1>4, <1>5, <2>1, <3>1
  <2>2. CASE q # r
    <3>1. q \in Running /\ q \in Records /\ E[q] = D[q]
      BY <1>e, <1>3, <1>7, <2>2
    <3> QED BY <1>1, <1>4, <1>5, <2>2, <3>1 DEF EndInv
  <2> QED BY <2>1, <2>2
<1>8. E \in [Records -> Int]
  BY <1>e, <1>2
<1>9. EndInv(E)'
  BY <1>3, <1>7 DEF EndInv
<1> QED BY <1>6, <1>8, <1>9 DEF InTime

\* The write after the maximum delay ends the wait.
LEMMA WriteNowInTime ==
  ASSUME SaveInv, InTime, NEW r \in Records, ChangedWriteNow(r)
  PROVE  InTime'
<1>1. PICK D \in [Records -> Int] : EndInv(D)
  BY DEF InTime
<1>2. Running' = Running \ {r} /\ P!Gaps(tm', D) /\ Running \subseteq Records
  BY <1>1, WriteNowSaves, ListTypes DEF EndInv, SaveInv
<1>3. /\ Lag' = Lag /\ \A q \in Records \ {r} : Age(q)' = Age(q)
  BY DEF ChangedWriteNow, DataChanged, Lag, Age, SaveInv, NotForgotten, TypeOK
<1>4. /\ waited'[r] = 0 /\ r \notin waiting'
      /\ \A q \in Records \ {r} : /\ waited'[q] = waited[q]
                                  /\ q \in waiting' <=> q \in waiting
                                  /\ q \in misread' <=> q \in misread
  BY DEF ChangedWriteNow, UpdateNVRAM, EndWait
<1>5. EndInv(D)'
  BY <1>1, <1>2, <1>3 DEF EndInv
<1>6. WaitInv'
  BY <1>2, <1>3, <1>4 DEF InTime, WaitInv
<1> QED BY <1>5, <1>6 DEF InTime

\* A timer that ends ends the wait; the others are that much closer to it.
LEMMA TimersInTime ==
  ASSUME SaveInv, InTime, ProcessTimers
  PROVE  InTime'
<1>1. {now, timeNow} \subseteq 0..Wrap - 1 /\ TypeOK /\ tm \in Lists
  BY DEF SaveInv, NotForgotten, TypeOK
<1>2. Lag \in Nat
  BY <1>1, LagType DEF Lag
<1>3. PICK R \in SUBSET Records :
        /\ UpdateNVRAM(R, Running')
        /\ tm' \in Lists /\ Running' = Running \ R
        /\ \A D \in [Records -> Int] : P!Gaps(tm, D)
             => /\ P!Gaps(tm', [r \in Records |-> D[r] - Lag])
                /\ \A r \in Running' : D[r] > Lag
  BY <1>1, <1>2, TimersProcessed DEF Lag
<1>4. PICK D \in [Records -> Int] : EndInv(D)
  BY DEF InTime
<1>e. PICK E : E = [r \in Records |-> D[r] - Lag]
  OBVIOUS
<1>5. P!Gaps(tm', E) /\ \A r \in Running' : D[r] > Lag
  BY <1>e, <1>3, <1>4 DEF EndInv
<1>6. Lag' = 0 /\ \A r \in Records : Age(r)' = Age(r)
  <2>1. timeNow' = now /\ now' = now /\ marker' = marker
    BY DEF ProcessTimers
  <2> QED BY <1>1, <2>1, LagType DEF Age, Lag
<1>7. Running \subseteq Records
  BY <1>1, ListTypes
<1>8. ASSUME NEW r \in Running'
      PROVE  E[r] >= 0 /\ Age(r)' + E[r] - Lag' <= MaxDelay - 1 + Delay
  <2>1. r \in Records /\ r \in Running /\ E[r] = D[r] - Lag /\ D[r] > Lag /\ D[r] \in Int
    BY <1>e, <1>3, <1>5, <1>7, <1>8
  <2>2. Age(r) \in Nat /\ MaxDelay \in Nat /\ Delay \in Nat
    BY <2>1, WaitTypes
  <2>3. Age(r) + D[r] - Lag <= MaxDelay - 1 + Delay
    BY <1>4, <2>1 DEF EndInv
  <2> QED BY <1>2, <1>6, <2>1, <2>2, <2>3
<1>9. E \in [Records -> Int]
  BY <1>e, <1>2
<1>10. EndInv(E)'
  BY <1>5, <1>8 DEF EndInv
<1>11. WaitInv'
  <2>1. /\ \A r \in R : waited'[r] = 0 /\ r \notin waiting'
        /\ \A r \in Records \ R : /\ waited'[r] = waited[r]
                                  /\ r \in waiting' <=> r \in waiting
                                  /\ r \in misread' <=> r \in misread
    BY <1>1, <1>3, Written
  <2> QED BY <1>3, <1>6, <2>1 DEF InTime, WaitInv
<1> QED BY <1>9, <1>10, <1>11 DEF InTime

\* Waits and markers grow older together.
LEMMA TimeInTime ==
  ASSUME SaveInv, InTime, TimePasses
  PROVE  InTime'
<1>1. Lag' = Lag + 1 /\ Lag + 1 <= MaxLag
  BY TimeSaves
<1>2. /\ tm' = tm /\ marker' = marker /\ waiting' = waiting /\ misread' = misread
      /\ Running' = Running
  BY DEF TimePasses, Running
<1>3. PICK D \in [Records -> Int] : EndInv(D)
  BY DEF InTime
<1>4. Running \subseteq Records
  BY ListTypes DEF SaveInv
<1>5. ASSUME NEW r \in Running PROVE Age(r)' = Age(r) + 1
  <2>1. /\ Age(r) \in 0..Wrap - 1 /\ Lag \in 0..MaxLag
        /\ Wrap \in Nat /\ MaxLag \in Nat /\ Delay \in Nat /\ MaxDelay \in Nat
        /\ MaxDelay + Delay + MaxLag < Wrap
    BY <1>4, <1>5, WaitTypes
  <2>2. D[r] \in Int /\ D[r] >= 0 /\ Age(r) + D[r] - Lag <= MaxDelay - 1 + Delay
    BY <1>3, <1>4, <1>5 DEF EndInv
  <2>3. Age(r) < Wrap - 1
    BY <1>1, <2>1, <2>2
  <2>4. marker[r] \in 0..Wrap - 1 /\ now \in 0..Wrap - 1
    BY <1>4, <1>5 DEF SaveInv, NotForgotten, TypeOK
  <2> QED BY <2>3, <2>4, DeltaNext DEF Age, TimePasses
<1>6. EndInv(D)'
  <2>1. ASSUME NEW r \in Running PROVE Age(r)' + D[r] - Lag' <= MaxDelay - 1 + Delay
    <3>1. Age(r) \in Nat /\ Lag \in Nat /\ Delay \in Nat /\ MaxDelay \in Nat /\ D[r] \in Int
      BY <1>4, <2>1, WaitTypes
    <3>2. Age(r) + D[r] - Lag <= MaxDelay - 1 + Delay
      BY <1>3, <2>1 DEF EndInv
    <3> QED BY <1>1, <1>5, <2>1, <3>1, <3>2
  <2> QED BY <1>2, <1>3, <2>1 DEF EndInv
<1>7. WaitInv'
  <2> SUFFICES ASSUME NEW r \in Records
               PROVE  /\ r \notin waiting => waited'[r] = 0
                      /\ r \in waiting =>
                            r \in Running /\ (waited'[r] <= Age(r)' \/ r \in misread)
    BY <1>2 DEF WaitInv
  <2>1. waited'[r] = IF r \in waiting THEN Min({waited[r] + 1, WaitCap}) ELSE 0
    BY DEF TimePasses
  <2>2. waited[r] \in Nat /\ WaitCap \in Nat /\ Age(r) \in Nat
    <3>1. WaitCap \in Nat
      BY RecordAssumption DEF WaitCap
    <3> QED BY <3>1, WaitTypes
  <2>3. Min({waited[r] + 1, WaitCap}) <= waited[r] + 1 /\ Min({waited[r] + 1, WaitCap}) \in Int
    <3>1. waited[r] + 1 \in Int /\ WaitCap \in Int
      BY <2>2
    <3> QED BY <2>2, <3>1, SmallerOf
  <2>4. r \in waiting => r \in Running /\ (waited[r] <= Age(r) \/ r \in misread)
    BY DEF InTime, WaitInv
  <2> QED BY <1>5, <2>1, <2>2, <2>3, <2>4
<1> QED BY <1>6, <1>7 DEF InTime

\* InTime is inductive.
LEMMA WaitStep ==
  ASSUME SaveInv, InTime, [Next]_vars
  PROVE  InTime'
<1>1. CASE UNCHANGED vars
  BY <1>1, QuietWait DEF vars, writeVars
<1>2. ASSUME NEW r \in Records, Change(r) \/ Start(r) \/ Subscribe(r) \/ Erase(r)
      PROVE  InTime'
  BY <1>2, QuietWait DEF Change, Start, Subscribe, Erase, writeVars
<1>3. ASSUME NEW r \in Records, Stop(r) \/ Flush(r)
      PROVE  InTime'
  <2>1. UNCHANGED <<timerVars, marker>> /\ EndWait({r})
    BY <1>3 DEF Stop, Flush, UpdateNVRAM
  <2> QED BY <1>3, <2>1, QuietWait
<1>4. CASE PowerFail
  <2>1. tm' = NoTimers /\ \A r \in Records : r \notin waiting' /\ waited'[r] = 0
    BY <1>4 DEF PowerFail, EndWait
  <2>2. \E D \in [Records -> Int] : EndInv(D)'
    <3>1. Running' = {} /\ tm'.counters = <<>>
      BY <2>1, NoTimersType DEF Running, NoTimers
    <3>2. PICK D : D = [r \in Records |-> 0]
      OBVIOUS
    <3>3. P!Gaps(tm', D)
      BY <3>1, P!EmptyList, Assumed DEF P!Gaps, P!Differences
    <3>4. EndInv(D)'
      BY <3>1, <3>3 DEF EndInv
    <3> QED BY <3>2, <3>4
  <2> QED BY <2>1, <2>2 DEF InTime, WaitInv
<1> QED BY <1>1, <1>2, <1>3, <1>4, DeferInTime, WriteNowInTime, TimersInTime, TimeInTime
        DEF Next, Notify

\* For any number of records on one event loop, and any delays that fit the
\* clock, no change waits longer than the maximum delay, a settling time and the
\* lateness of the event loop, unless the count of a running timer was 0 when
\* another change of its record came.
THEOREM WaitBoundAlways == Spec => []WaitBound
<1>1. Init => SaveInv /\ InTime
  BY SaveInit, WaitInit
<1>2. SaveInv /\ InTime /\ [Next]_vars => (SaveInv /\ InTime)'
  BY SaveStep, WaitStep
<1>3. SaveInv /\ InTime => WaitBound
  <2> SUFFICES ASSUME SaveInv, InTime, NEW r \in Records, r \notin misread
               PROVE  waited[r] <= LongestWait
    BY DEF WaitBound
  <2>1. /\ Age(r) \in 0..Wrap - 1 /\ Lag \in 0..MaxLag /\ waited[r] \in 0..WaitCap
        /\ MaxLag \in Nat /\ Delay \in Nat /\ MaxDelay \in Nat
    BY WaitTypes
  <2>2. PICK D \in [Records -> Int] : EndInv(D)
    BY DEF InTime
  <2>3. CASE r \in waiting
    <3>1. r \in Running /\ waited[r] <= Age(r)
      BY <2>3 DEF InTime, WaitInv
    <3>2. D[r] \in Int /\ D[r] >= 0 /\ Age(r) + D[r] - Lag <= MaxDelay - 1 + Delay
      BY <2>2, <3>1 DEF EndInv
    <3> QED BY <2>1, <3>1, <3>2 DEF LongestWait
  <2>4. CASE r \notin waiting
    BY <2>1, <2>4, RecordAssumption DEF InTime, WaitInv, LongestWait
  <2> QED BY <2>3, <2>4
<1> QED BY <1>1, <1>2, <1>3, PTL DEF Spec
=============================================================================
