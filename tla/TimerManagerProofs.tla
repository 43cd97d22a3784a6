------------------------- MODULE TimerManagerProofs -------------------------
(***************************************************************************)
(* Proofs about TimerManager, for any number of timers, any durations and  *)
(* callbacks that make any number of calls: the relative counts always add *)
(* up to the timers' deadlines, no timer that is due is missed, and the    *)
(* manager implements Alarms.                                              *)
(***************************************************************************)
EXTENDS TimerManager, SequenceTheorems, WellFoundedInduction, TLAPS

-----------------------------------------------------------------------------
(* Sets of numbers, and the clock *)

\* A set of natural numbers has a least one.
LEMMA LeastNatural ==
  ASSUME NEW T, T \subseteq Nat, T # {}
  PROVE  \E x \in T : \A y \in T : x <= y
<1> DEFINE R == OpToRel(<, Nat)
<1>1. IsWellFoundedOn(R, Nat)
  BY NatLessThanWellFounded
<1>2. R = {ss \in Nat \X Nat : ss[1] < ss[2]}
  BY DEF OpToRel
<1> HIDE DEF R
<1>3. PICK x \in T : \A y \in T : ~(<<y, x>> \in R)
  BY <1>1, WFMin
<1>4. ASSUME NEW y \in T PROVE x <= y
  <2>1. x \in Nat /\ y \in Nat
    OBVIOUS
  <2>2. ~(<<y, x>> \in {ss \in Nat \X Nat : ss[1] < ss[2]})
    BY <1>2, <1>3
  <2>3. ~(y < x)
    BY <2>1, <2>2
  <2> QED BY <2>1, <2>3
<1> QED BY <1>4

\* The minimum of a set of numbers is its smallest element.
LEMMA MinProperties ==
  ASSUME NEW T, T \subseteq Nat, T # {}
  PROVE  Min(T) \in T /\ \A y \in T : Min(T) <= y
BY LeastNatural DEF Min

\* Times between two readings of a clock that wraps around.
LEMMA DeltaType ==
  ASSUME NEW a \in 0..Wrap - 1, NEW b \in 0..Wrap - 1
  PROVE  /\ Delta(a, b) \in 0..Wrap - 1
         /\ Delta(a, b) = IF a <= b THEN b - a ELSE b - a + Wrap
         /\ (b + 1) % Wrap = IF b = Wrap - 1 THEN 0 ELSE b + 1
<1>1. Wrap \in Nat \ {0}
  BY TimerAssumption
<1>2. CASE a <= b
  <2>1. (b - a) % Wrap = b - a
    BY <1>1, <1>2
  <2> QED BY <1>1, <1>2, <2>1 DEF Delta
<1>3. CASE b < a
  <2>1. (b - a) % Wrap = b - a + Wrap
    BY <1>1, <1>3
  <2> QED BY <1>1, <1>3, <2>1 DEF Delta
<1>4. (b + 1) % Wrap = IF b = Wrap - 1 THEN 0 ELSE b + 1
  BY <1>1
<1> QED BY <1>1, <1>2, <1>3, <1>4

\* No time passes between a clock value and itself.
LEMMA DeltaSelf ==
  ASSUME NEW a \in 0..Wrap - 1
  PROVE  Delta(a, a) = 0
<1>1. Delta(a, a) = IF a <= a THEN a - a ELSE a - a + Wrap
  BY DeltaType
<1> QED BY <1>1, TimerAssumption

\* A tick of the clock.
LEMMA DeltaNext ==
  ASSUME NEW a \in 0..Wrap - 1, NEW b \in 0..Wrap - 1, Delta(a, b) < Wrap - 1
  PROVE  /\ (b + 1) % Wrap \in 0..Wrap - 1
         /\ Delta(a, (b + 1) % Wrap) = Delta(a, b) + 1
<1>1. Wrap \in Nat \ {0}
  BY TimerAssumption
<1> DEFINE c == (b + 1) % Wrap
<1>2. c \in 0..Wrap - 1 /\ c = IF b = Wrap - 1 THEN 0 ELSE b + 1
  BY <1>1, DeltaType
<1> HIDE DEF c
<1>3. Delta(a, b) = IF a <= b THEN b - a ELSE b - a + Wrap
  BY DeltaType
<1>4. Delta(a, c) = IF a <= c THEN c - a ELSE c - a + Wrap
  BY <1>2, DeltaType
<1> QED BY <1>1, <1>2, <1>3, <1>4 DEF c

-----------------------------------------------------------------------------
(* Lists of timers *)

Once(q) == \A i, j \in 1..Len(q) : q[i] = q[j] => i = j

\* The elements of a list of timers
LEMMA ListElements ==
  ASSUME NEW q \in Seq(Timers)
  PROVE  /\ Len(q) \in Nat
         /\ ToSet(q) = {q[i] : i \in 1..Len(q)}
         /\ \A i \in 1..Len(q) : q[i] \in Timers
         /\ ToSet(q) \subseteq Timers
         /\ q = <<>> <=> Len(q) = 0
<1>1. Len(q) \in Nat /\ q \in [1..Len(q) -> Timers]
  BY LenProperties
<1> QED BY <1>1, EmptySeq DEF ToSet

\* The empty list has none.
LEMMA EmptyList == ToSet(<<>>) = {} /\ Len(<<>>) = 0
BY DEF ToSet

\* A list without repetitions, in two parts.
LEMMA ConcatOnce ==
  ASSUME NEW p \in Seq(Timers), NEW q \in Seq(Timers)
  PROVE  IsInjective(p \o q) <=> Once(p) /\ Once(q) /\ ToSet(p) \cap ToSet(q) = {}
<1> DEFINE r == p \o q
<1>1. /\ Len(p) \in Nat /\ Len(q) \in Nat
      /\ r \in Seq(Timers) /\ Len(r) = Len(p) + Len(q)
      /\ \A i \in 1..Len(p) + Len(q) :
            r[i] = IF i <= Len(p) THEN p[i] ELSE q[i - Len(p)]
  BY ConcatProperties, LenProperties
<1> HIDE DEF r
<1>2. DOMAIN r = 1..Len(p) + Len(q)
  BY <1>1, LenProperties
<1>3. /\ ToSet(p) = {p[i] : i \in 1..Len(p)}
      /\ ToSet(q) = {q[i] : i \in 1..Len(q)}
  BY ListElements
<1>4. \A i \in 1..Len(p) : i \in 1..Len(p) + Len(q) /\ r[i] = p[i]
  BY <1>1
<1>5. ASSUME NEW j \in 1..Len(q)
      PROVE  Len(p) + j \in 1..Len(p) + Len(q) /\ r[Len(p) + j] = q[j]
  <2>1. Len(p) + j \in 1..Len(p) + Len(q) /\ ~(Len(p) + j <= Len(p)) /\ Len(p) + j - Len(p) = j
    BY <1>1
  <2>2. r[Len(p) + j] = q[Len(p) + j - Len(p)]
    BY <1>1, <2>1
  <2> QED BY <2>1, <2>2
<1>6. ASSUME IsInjective(r) PROVE Once(p) /\ Once(q) /\ ToSet(p) \cap ToSet(q) = {}
  <2>1. \A i, j \in 1..Len(p) + Len(q) : r[i] = r[j] => i = j
    BY <1>2, <1>6 DEF IsInjective
  <2>2. Once(p)
    BY <1>4, <2>1 DEF Once
  <2>3. ASSUME NEW i \in 1..Len(q), NEW j \in 1..Len(q), q[i] = q[j] PROVE i = j
    <3>1. Len(p) + i = Len(p) + j
      BY <1>5, <2>1, <2>3
    <3> QED BY <1>1, <3>1
  <2>4. ASSUME NEW i \in 1..Len(p), NEW j \in 1..Len(q), p[i] = q[j] PROVE FALSE
    <3>1. i = Len(p) + j
      BY <1>4, <1>5, <2>1, <2>4
    <3> QED BY <1>1, <3>1
  <2> QED BY <1>3, <2>2, <2>3, <2>4 DEF Once
<1>7. ASSUME Once(p), Once(q), ToSet(p) \cap ToSet(q) = {} PROVE IsInjective(r)
  <2> SUFFICES ASSUME NEW i \in 1..Len(p) + Len(q), NEW j \in 1..Len(p) + Len(q), r[i] = r[j]
               PROVE  i = j
    BY <1>2 DEF IsInjective
  <2>1. \A k \in 1..Len(p) + Len(q) : k \in 1..Len(p) \/ k - Len(p) \in 1..Len(q)
    BY <1>1
  <2>2. \A k \in 1..Len(p) + Len(q) : k \notin 1..Len(p) => r[k] = q[k - Len(p)]
    BY <1>1
  <2>3. CASE i \in 1..Len(p) /\ j \in 1..Len(p)
    BY <1>4, <1>7, <2>3 DEF Once
  <2>4. CASE i \notin 1..Len(p) /\ j \notin 1..Len(p)
    <3>1. i - Len(p) = j - Len(p)
      BY <1>7, <2>1, <2>2, <2>4 DEF Once
    <3> QED BY <1>1, <3>1
  <2>5. CASE i \in 1..Len(p) /\ j \notin 1..Len(p)
    BY <1>3, <1>4, <1>7, <2>1, <2>2, <2>5
  <2>6. CASE i \notin 1..Len(p) /\ j \in 1..Len(p)
    BY <1>3, <1>4, <1>7, <2>1, <2>2, <2>6
  <2> QED BY <2>3, <2>4, <2>5, <2>6
<1> QED BY <1>6, <1>7 DEF r

\* A timer is put into a list.
LEMMA InsertShape ==
  ASSUME NEW q \in Seq(Timers), NEW t \in Timers, NEW k \in 1..Len(q) + 1
  PROVE  LET r == InsertAt(q, k, t)
         IN  /\ r \in Seq(Timers) /\ Len(r) = Len(q) + 1
             /\ \A i \in 1..Len(r) :
                  r[i] = IF i < k THEN q[i] ELSE IF i = k THEN t ELSE q[i - 1]
<1> DEFINE a == SubSeq(q, 1, k - 1)
           b == SubSeq(q, k, Len(q))
           p == a \o <<t>>
           r == p \o b
<1>1. Len(q) \in Nat
  BY LenProperties
<1>2. /\ a \in Seq(Timers) /\ Len(a) = k - 1 /\ \A i \in 1..k - 1 : a[i] = q[i]
      /\ b \in Seq(Timers) /\ Len(b) = Len(q) - k + 1
      /\ \A i \in 1..Len(q) - k + 1 : b[i] = q[k + i - 1]
  BY <1>1, SubSeqProperties
<1> HIDE DEF a, b
<1>3. <<t>> \in Seq(Timers) /\ Len(<<t>>) = 1 /\ <<t>>[1] = t
  OBVIOUS
<1>4. /\ p \in Seq(Timers) /\ Len(p) = k
      /\ \A i \in 1..k : p[i] = IF i < k THEN q[i] ELSE t
  <2>1. /\ p \in Seq(Timers) /\ Len(p) = Len(a) + Len(<<t>>)
        /\ \A i \in 1..Len(a) + Len(<<t>>) : p[i] = IF i <= Len(a) THEN a[i] ELSE <<t>>[i - Len(a)]
    BY <1>2, <1>3, ConcatProperties
  <2> HIDE DEF p
  <2>2. Len(a) + Len(<<t>>) = k
    BY <1>1, <1>2, <1>3
  <2>3. ASSUME NEW i \in 1..k PROVE p[i] = IF i < k THEN q[i] ELSE t
    <3>1. CASE i < k
      BY <1>2, <2>1, <2>2, <3>1
    <3>2. CASE i = k
      <4>1. ~(i <= Len(a)) /\ i - Len(a) = 1
        BY <1>1, <1>2, <3>2
      <4> QED BY <1>3, <2>1, <2>2, <3>2, <4>1
    <3> QED BY <3>1, <3>2
  <2> QED BY <2>1, <2>2, <2>3
<1> HIDE DEF p
<1>5. /\ r \in Seq(Timers) /\ Len(r) = Len(p) + Len(b)
      /\ \A i \in 1..Len(p) + Len(b) : r[i] = IF i <= Len(p) THEN p[i] ELSE b[i - Len(p)]
  BY <1>2, <1>4, ConcatProperties
<1> HIDE DEF r
<1>6. Len(r) = Len(q) + 1
  BY <1>1, <1>2, <1>4, <1>5
<1>7. ASSUME NEW i \in 1..Len(r)
      PROVE  r[i] = IF i < k THEN q[i] ELSE IF i = k THEN t ELSE q[i - 1]
  <2>1. CASE i <= k
    BY <1>4, <1>5, <2>1
  <2>2. CASE i > k
    <3>1. i - k \in 1..Len(q) - k + 1 /\ k + (i - k) - 1 = i - 1 /\ ~(i <= Len(p))
      BY <1>1, <1>4, <1>6, <2>2
    <3>2. r[i] = b[i - k]
      BY <1>4, <1>5, <3>1
    <3>3. b[i - k] = q[k + (i - k) - 1]
      BY <1>2, <3>1
    <3> QED BY <2>2, <3>1, <3>2, <3>3
  <2> QED BY <1>1, <1>6, <2>1, <2>2
<1>8. InsertAt(q, k, t) = r
  BY DEF InsertAt, r, p, a, b
<1> QED BY <1>5, <1>6, <1>7, <1>8

\* A timer is taken out of a list.
LEMMA RemoveShape ==
  ASSUME NEW q \in Seq(Timers), NEW k \in 1..Len(q), Once(q)
  PROVE  LET r == RemoveFirst(q, q[k])
         IN  /\ r \in Seq(Timers) /\ Len(r) = Len(q) - 1
             /\ \A i \in 1..Len(r) : r[i] = IF i < k THEN q[i] ELSE q[i + 1]
<1> DEFINE a == SubSeq(q, 1, k - 1)
           b == SubSeq(q, k + 1, Len(q))
           r == a \o b
<1>1. Len(q) \in Nat
  BY LenProperties
<1>2. {i \in 1..Len(q) : q[i] = q[k]} = {k}
  BY DEF Once
<1>3. Min({k}) = k
  BY DEF Min
<1>4. SelectInSeq(q, LAMBDA v : v = q[k]) = k
  BY <1>2, <1>3 DEF SelectInSeq
<1>5. RemoveFirst(q, q[k]) = r
  BY <1>4 DEF RemoveFirst, RemoveAt
<1>6. /\ a \in Seq(Timers) /\ Len(a) = k - 1 /\ \A i \in 1..k - 1 : a[i] = q[i]
      /\ b \in Seq(Timers) /\ Len(b) = Len(q) - k
      /\ \A i \in 1..Len(q) - k : b[i] = q[k + i]
  BY <1>1, SubSeqProperties
<1> HIDE DEF a, b
<1>7. /\ r \in Seq(Timers) /\ Len(r) = Len(a) + Len(b)
      /\ \A i \in 1..Len(a) + Len(b) : r[i] = IF i <= Len(a) THEN a[i] ELSE b[i - Len(a)]
  BY <1>6, ConcatProperties
<1> HIDE DEF r
<1>8. Len(r) = Len(q) - 1
  BY <1>1, <1>6, <1>7
<1>9. ASSUME NEW i \in 1..Len(r) PROVE r[i] = IF i < k THEN q[i] ELSE q[i + 1]
  <2>1. CASE i < k
    BY <1>1, <1>6, <1>7, <1>8, <2>1
  <2>2. CASE ~(i < k)
    <3>1. i - (k - 1) \in 1..Len(q) - k /\ ~(i <= Len(a)) /\ k + (i - (k - 1)) = i + 1
      BY <1>1, <1>6, <1>8, <2>2
    <3>2. r[i] = b[i - (k - 1)]
      BY <1>6, <1>7, <3>1
    <3>3. b[i - (k - 1)] = q[k + (i - (k - 1))]
      BY <1>6, <3>1
    <3> QED BY <2>2, <3>1, <3>2, <3>3
  <2> QED BY <2>1, <2>2
<1> QED BY <1>5, <1>7, <1>8, <1>9

\* InsertAt adds its element, once.
LEMMA InsertElements ==
  ASSUME NEW q \in Seq(Timers), NEW t \in Timers, NEW k \in 1..Len(q) + 1,
         Once(q), t \notin ToSet(q)
  PROVE  ToSet(InsertAt(q, k, t)) = ToSet(q) \cup {t} /\ Once(InsertAt(q, k, t))
<1> DEFINE r == InsertAt(q, k, t)
<1>1. /\ r \in Seq(Timers) /\ Len(r) = Len(q) + 1
      /\ \A i \in 1..Len(r) :
           r[i] = IF i < k THEN q[i] ELSE IF i = k THEN t ELSE q[i - 1]
  BY InsertShape
<1> HIDE DEF r
<1>2. Len(q) \in Nat /\ ToSet(q) = {q[i] : i \in 1..Len(q)} /\ ToSet(r) = {r[i] : i \in 1..Len(r)}
  BY <1>1, ListElements
<1>3. ToSet(r) \subseteq ToSet(q) \cup {t}
  BY <1>1, <1>2, SMTT(30)
<1>4. t \in ToSet(r)
  BY <1>1, <1>2
<1>5. ASSUME NEW e \in ToSet(q) PROVE e \in ToSet(r)
  <2>1. PICK i \in 1..Len(q) : e = q[i]
    BY <1>2
  <2>2. CASE i < k
    BY <1>1, <1>2, <2>1, <2>2
  <2>3. CASE i >= k
    <3>1. i + 1 \in 1..Len(r) /\ r[i + 1] = q[i]
      BY <1>1, <1>2, <2>3
    <3> QED BY <1>2, <2>1, <3>1
  <2> QED BY <2>1, <2>2, <2>3
<1>6. Once(r)
  <2>1. \A i \in 1..Len(q) : q[i] # t
    BY <1>2
  <2>2. \A i \in 1..Len(r) : (i < k => i \in 1..Len(q)) /\ (i > k => i - 1 \in 1..Len(q))
    BY <1>1, <1>2
  <2>3. ASSUME NEW i \in 1..Len(r), NEW j \in 1..Len(r), r[i] = r[j] PROVE i = j
    <3>1. \A a, b \in 1..Len(q) : q[a] = q[b] => a = b
      BY DEF Once
    <3>2. CASE i < k
      BY <1>1, <1>2, <2>1, <2>2, <2>3, <3>1, <3>2
    <3>3. CASE i = k
      BY <1>1, <1>2, <2>1, <2>2, <2>3, <3>3
    <3>4. CASE i > k
      BY <1>1, <1>2, <2>1, <2>2, <2>3, <3>1, <3>4, SMTT(30)
    <3> QED BY <1>1, <1>2, <3>2, <3>3, <3>4
  <2> QED BY <2>3 DEF Once
<1> QED BY <1>3, <1>4, <1>5, <1>6 DEF r

\* RemoveFirst takes its element away.
LEMMA RemoveElements ==
  ASSUME NEW q \in Seq(Timers), NEW k \in 1..Len(q), Once(q)
  PROVE  /\ ToSet(RemoveFirst(q, q[k])) = ToSet(q) \ {q[k]}
         /\ Once(RemoveFirst(q, q[k]))
<1> DEFINE r == RemoveFirst(q, q[k])
<1>1. /\ r \in Seq(Timers) /\ Len(r) = Len(q) - 1
      /\ \A i \in 1..Len(r) : r[i] = IF i < k THEN q[i] ELSE q[i + 1]
  BY RemoveShape
<1> HIDE DEF r
<1>2. Len(q) \in Nat /\ ToSet(q) = {q[i] : i \in 1..Len(q)} /\ ToSet(r) = {r[i] : i \in 1..Len(r)}
  BY <1>1, ListElements
<1>3. ToSet(r) \subseteq ToSet(q) \ {q[k]} /\ Once(r)
  <2>1. \A i \in 1..Len(r) : i \in 1..Len(q) /\ i + 1 \in 1..Len(q)
    BY <1>1, <1>2
  <2>2. \A a, b \in 1..Len(q) : q[a] = q[b] => a = b
    BY DEF Once
  <2>3. ASSUME NEW i \in 1..Len(r), NEW j \in 1..Len(r), r[i] = r[j] PROVE i = j
    BY <1>1, <1>2, <2>1, <2>2, <2>3
  <2>4. ASSUME NEW i \in 1..Len(r) PROVE r[i] \in ToSet(q) /\ r[i] # q[k]
    BY <1>1, <1>2, <2>1, <2>2
  <2> QED BY <1>2, <2>3, <2>4 DEF Once
<1>4. ASSUME NEW e \in ToSet(q), e # q[k] PROVE e \in ToSet(r)
  <2>1. PICK i \in 1..Len(q) : e = q[i]
    BY <1>2
  <2>2. CASE i < k
    BY <1>1, <1>2, <2>1, <2>2
  <2>3. CASE i > k
    <3>1. i - 1 \in 1..Len(r) /\ r[i - 1] = q[i]
      BY <1>1, <1>2, <2>3
    <3> QED BY <1>2, <2>1, <3>1
  <2> QED BY <1>4, <2>1, <2>2, <2>3
<1> QED BY <1>3, <1>4 DEF r

\* The first timer is taken out of a list.
LEMMA GetElements ==
  ASSUME NEW q \in Seq(Timers), q # <<>>, Once(q)
  PROVE  /\ Head(q) = q[1] /\ Head(q) \in ToSet(q)
         /\ Tail(q) \in Seq(Timers) /\ Len(Tail(q)) = Len(q) - 1
         /\ \A i \in 1..Len(Tail(q)) : Tail(q)[i] = q[i + 1]
         /\ ToSet(Tail(q)) = ToSet(q) \ {Head(q)}
         /\ Once(Tail(q))
<1> DEFINE t == Tail(q)
<1>1. /\ t \in Seq(Timers) /\ Len(t) = Len(q) - 1
      /\ Len(q) \in Nat \ {0} /\ Head(q) = q[1]
      /\ \A i \in 1..Len(t) : t[i] = q[i + 1]
  BY HeadTailProperties, EmptySeq
<1> HIDE DEF t
<1>2. ToSet(t) = {t[i] : i \in 1..Len(t)} /\ ToSet(q) = {q[i] : i \in 1..Len(q)}
  BY <1>1, ListElements
<1>3. Once(t)
  BY <1>1 DEF Once
<1>4. Head(q) \in ToSet(q) /\ Head(q) \notin ToSet(t) /\ ToSet(t) \subseteq ToSet(q)
  BY <1>1, <1>2 DEF Once
<1>5. ASSUME NEW e \in ToSet(q), e # Head(q) PROVE e \in ToSet(t)
  <2>1. PICK i \in 1..Len(q) : e = q[i]
    BY <1>2
  <2>2. i # 1 /\ i - 1 \in 1..Len(t) /\ t[i - 1] = q[i]
    BY <1>1, <1>5, <2>1
  <2> QED BY <1>2, <2>1, <2>2
<1> QED BY <1>1, <1>3, <1>4, <1>5 DEF t

-----------------------------------------------------------------------------
(* The relative counts *)

Managers == [counters : Seq(Timers), pendingAttach : Seq(Timers), count : [Timers -> Nat]]

\* The ticks until the timer before the i-th of the list q expires, when D
\* holds the ticks until each timer does.
Before(q, D, i) == IF i = 1 THEN 0 ELSE D[q[i - 1]]

\* The counts x of a list q are the differences of D.
Differences(q, x, D) == \A i \in 1..Len(q) : D[q[i]] = Before(q, D, i) + x[q[i]]
Gaps(m, D) == Differences(m.counters, m.count, D)

\* A timer is in one list, once.
Apart(m) ==
    /\ Once(m.counters) /\ Once(m.pendingAttach)
    /\ Active(m) \cap ToSet(m.pendingAttach) = {}

\* CountTo is the sum it is meant to be.
LEMMA CountToSum ==
  ASSUME NEW m \in Managers
  PROVE  /\ CountTo(m, 0) = 0
         /\ \A i \in 1..Len(m.counters) :
              CountTo(m, i) = CountTo(m, i - 1) + m.count[m.counters[i]]
<1> DEFINE L == Len(m.counters)
           Def(f, n) == [j \in 0..n |-> IF j = 0 THEN 0
                                        ELSE f[j - 1] + m.count[m.counters[j]]]
           T == {n \in 0..L : ~ \E f : f = Def(f, n)}
           sum == CHOOSE f : f = Def(f, L)
<1>1. L \in Nat
  BY LenProperties DEF Managers
<1>2. T = {}
  <2> SUFFICES ASSUME T # {} PROVE FALSE
    OBVIOUS
  <2>1. PICK n \in T : \A y \in T : n <= y
    <3>1. T \subseteq Nat
      BY <1>1
    <3> HIDE DEF T
    <3> QED BY <3>1, LeastNatural
  <2>2. n \in 0..L
    OBVIOUS
  <2>3. CASE n = 0
    <3> DEFINE g == [j \in 0..0 |-> 0]
    <3>1. g = Def(g, 0)
      BY <1>1
    <3> QED BY <2>1, <2>3, <3>1
  <2>4. CASE n # 0
    <3>1. n - 1 \in 0..L /\ n - 1 \notin T
      <4>1. n - 1 \in 0..L /\ ~(n <= n - 1)
        BY <1>1, <2>2, <2>4
      <4> HIDE DEF T
      <4> QED BY <2>1, <4>1
    <3>2. PICK f : f = Def(f, n - 1)
      BY <3>1
    <3> DEFINE x(j) == m.count[m.counters[j]]
               g == [j \in 0..n |-> IF j = n THEN f[n - 1] + x(n) ELSE f[j]]
    <3> HIDE DEF T
    <3>3. ASSUME NEW j \in 0..n
          PROVE  g[j] = IF j = 0 THEN 0 ELSE g[j - 1] + x(j)
      <4> HIDE DEF x
      <4>1. \A i \in 0..n - 1 : f[i] = IF i = 0 THEN 0 ELSE f[i - 1] + x(i)
        BY <1>1, <2>2, <3>2 DEF x
      <4>2. CASE j = n
        BY <1>1, <2>2, <2>4, <4>2
      <4>3. CASE j # n
        <5>1. j \in 0..n - 1 /\ (j # 0 => j - 1 \in 0..n /\ j - 1 # n)
          BY <1>1, <2>2, <4>3
        <5> QED BY <4>1, <4>3, <5>1
      <4> QED BY <4>2, <4>3
    <3>4. g = Def(g, n)
      <4>1. g = [j \in 0..n |-> g[j]]
        OBVIOUS
      <4> HIDE DEF g
      <4> QED BY <3>3, <4>1
    <3>5. \E h : h = Def(h, n)
      BY <3>4
    <3> QED BY <2>1, <3>5 DEF T
  <2> QED BY <2>3, <2>4
<1>3. \E f : f = Def(f, L)
  BY <1>1, <1>2
<1>4. sum = Def(sum, L)
  <2> HIDE DEF Def
  <2> QED BY <1>3
<1>5. \A j \in 0..L : sum[j] = IF j = 0 THEN 0 ELSE sum[j - 1] + m.count[m.counters[j]]
  <2> HIDE DEF sum
  <2> QED BY <1>4
<1>6. \A j : CountTo(m, j) = sum[j]
  BY DEF CountTo
<1> HIDE DEF sum
<1> QED BY <1>1, <1>5, <1>6

\* Counts that are differences of D add up to D.
LEMMA GapsSum ==
  ASSUME NEW m \in Managers, NEW D \in [Timers -> Int], Gaps(m, D)
  PROVE  /\ CountTo(m, 0) = 0
         /\ \A i \in 1..Len(m.counters) :
              /\ m.counters[i] \in Timers
              /\ CountTo(m, i) = D[m.counters[i]]
              /\ D[m.counters[i]] \in Nat
              /\ m.count[m.counters[1]] <= D[m.counters[i]]
<1> DEFINE c == m.counters
           L == Len(c)
           Good(i) == /\ CountTo(m, i) = D[c[i]] /\ D[c[i]] \in Nat
                      /\ m.count[c[1]] <= D[c[i]]
           T == {i \in 1..L : ~Good(i)}
<1>1. L \in Nat /\ \A i \in 1..L : c[i] \in Timers
  BY ListElements DEF Managers
<1>2. \A i \in 1..L : D[c[i]] \in Int /\ m.count[c[i]] \in Nat
  BY <1>1 DEF Managers
<1>3. CountTo(m, 0) = 0 /\ \A i \in 1..L : CountTo(m, i) = CountTo(m, i - 1) + m.count[c[i]]
  BY CountToSum
<1>4. \A i \in 1..L : D[c[i]] = (IF i = 1 THEN 0 ELSE D[c[i - 1]]) + m.count[c[i]]
  BY DEF Gaps, Differences, Before
<1>5. T = {}
  <2> SUFFICES ASSUME T # {} PROVE FALSE
    OBVIOUS
  <2>1. PICK n \in T : \A y \in T : n <= y
    <3>1. T \subseteq Nat
      BY <1>1
    <3> HIDE DEF T
    <3> QED BY <3>1, LeastNatural
  <2>2. n \in 1..L /\ ~Good(n)
    OBVIOUS
  <2>3. CASE n = 1
    <3>1. 1 \in 1..L /\ 1 - 1 = 0
      BY <2>2, <2>3
    <3>2. CountTo(m, 1) = m.count[c[1]] /\ D[c[1]] = m.count[c[1]]
      <4>1. CountTo(m, 1) = CountTo(m, 0) + m.count[c[1]] /\ D[c[1]] = 0 + m.count[c[1]]
        BY <1>3, <1>4, <3>1
      <4> QED BY <1>2, <1>3, <3>1, <4>1
    <3> QED BY <1>2, <2>2, <2>3, <3>1, <3>2
  <2>4. CASE n # 1
    <3>1. n - 1 \in 1..L /\ ~(n <= n - 1) /\ 1 \in 1..L
      BY <1>1, <2>2, <2>4
    <3>2. Good(n - 1)
      <4>1. n - 1 \notin T
        <5> HIDE DEF T
        <5> QED BY <2>1, <3>1
      <4> QED BY <3>1, <4>1
    <3>3. CountTo(m, n) = CountTo(m, n - 1) + m.count[c[n]] /\ D[c[n]] = D[c[n - 1]] + m.count[c[n]]
      BY <1>3, <1>4, <2>2, <2>4
    <3>4. m.count[c[n]] \in Nat /\ m.count[c[1]] \in Nat
      BY <1>2, <2>2, <3>1
    <3>5. D[c[n]] \in Nat /\ m.count[c[1]] <= D[c[n]] /\ CountTo(m, n) = D[c[n]]
      BY <3>2, <3>3, <3>4
    <3> QED BY <2>2, <3>5
  <2> QED BY <2>3, <2>4
<1> QED BY <1>1, <1>3, <1>5

\* The counts add up in the order of the list.
LEMMA CountToGrows ==
  ASSUME NEW m \in Managers, NEW i \in 0..Len(m.counters), NEW j \in 0..Len(m.counters), i <= j
  PROVE  CountTo(m, i) \in Nat /\ CountTo(m, i) <= CountTo(m, j)
<1> DEFINE c == m.counters
           L == Len(c)
<1>1. L \in Nat /\ \A k \in 1..L : c[k] \in Timers
  BY ListElements DEF Managers
<1>2. \A k \in 1..L : m.count[c[k]] \in Nat
  BY <1>1 DEF Managers
<1>3. CountTo(m, 0) = 0 /\ \A k \in 1..L : CountTo(m, k) = CountTo(m, k - 1) + m.count[c[k]]
  BY CountToSum
<1>4. \A k \in 0..L : CountTo(m, k) \in Nat
  <2> DEFINE T == {k \in 0..L : CountTo(m, k) \notin Nat}
  <2> SUFFICES ASSUME T # {} PROVE FALSE
    OBVIOUS
  <2>1. PICK n \in T : \A y \in T : n <= y
    <3>1. T \subseteq Nat
      BY <1>1
    <3> HIDE DEF T
    <3> QED BY <3>1, LeastNatural
  <2>2. n \in 0..L /\ CountTo(m, n) \notin Nat
    OBVIOUS
  <2> HIDE DEF T
  <2>3. n # 0 /\ n \in 1..L /\ n - 1 \in 0..L /\ ~(n <= n - 1)
    BY <1>1, <1>3, <2>2
  <2>4. CountTo(m, n - 1) \in Nat
    BY <2>1, <2>3 DEF T
  <2>5. CountTo(m, n) = CountTo(m, n - 1) + m.count[c[n]] /\ m.count[c[n]] \in Nat
    BY <1>2, <1>3, <2>3
  <2>6. CountTo(m, n) \in Nat
    BY <2>4, <2>5
  <2> QED BY <2>2, <2>6
<1>5. CountTo(m, i) <= CountTo(m, j)
  <2> DEFINE T == {k \in 0..L : i <= k /\ ~(CountTo(m, i) <= CountTo(m, k))}
  <2> SUFFICES ASSUME T # {} PROVE FALSE
    OBVIOUS
  <2>1. PICK n \in T : \A y \in T : n <= y
    <3>1. T \subseteq Nat
      BY <1>1
    <3> HIDE DEF T
    <3> QED BY <3>1, LeastNatural
  <2>2. n \in 0..L /\ i <= n /\ ~(CountTo(m, i) <= CountTo(m, n))
    OBVIOUS
  <2> HIDE DEF T
  <2>3. CountTo(m, i) \in Nat
    BY <1>4
  <2>4. n # i
    BY <2>2, <2>3
  <2>5. n \in 1..L /\ n - 1 \in 0..L /\ ~(n <= n - 1) /\ i <= n - 1
    BY <1>1, <2>2, <2>4
  <2>6. CountTo(m, i) <= CountTo(m, n - 1) /\ CountTo(m, n - 1) \in Nat
    BY <1>4, <2>1, <2>5 DEF T
  <2>7. CountTo(m, n) = CountTo(m, n - 1) + m.count[c[n]] /\ m.count[c[n]] \in Nat
    BY <1>2, <1>3, <2>5
  <2> QED BY <2>2, <2>3, <2>6, <2>7
<1> QED BY <1>4, <1>5

\* Whatever the counts are, they are the differences of some deadlines.
LEMMA SomeDeadlines ==
  ASSUME NEW m \in Managers, Once(m.counters)
  PROVE  \E D \in [Timers -> Int] : Gaps(m, D)
<1> DEFINE c == m.counters
           L == Len(c)
           at(t) == CHOOSE i \in 1..L : c[i] = t
           D == [t \in Timers |-> IF t \in ToSet(c) THEN CountTo(m, at(t)) ELSE 0]
<1>1. /\ L \in Nat /\ ToSet(c) = {c[i] : i \in 1..L} /\ \A i \in 1..L : c[i] \in Timers
  BY ListElements DEF Managers
<1>2. \A i \in 1..L : at(c[i]) = i
  BY DEF Once
<1>3. \A i \in 0..L : CountTo(m, i) \in Nat
  BY CountToGrows, <1>1
<1>4. CountTo(m, 0) = 0 /\ \A i \in 1..L : CountTo(m, i) = CountTo(m, i - 1) + m.count[c[i]]
  BY CountToSum
<1>5. \A t \in ToSet(c) : at(t) \in 1..L
  BY <1>1
<1> HIDE DEF at
<1>6. D \in [Timers -> Int]
  BY <1>1, <1>3, <1>5
<1>7. \A i \in 1..L : D[c[i]] = CountTo(m, i)
  BY <1>1, <1>2
<1> HIDE DEF D
<1>8. ASSUME NEW i \in 1..L PROVE D[c[i]] = (IF i = 1 THEN 0 ELSE D[c[i - 1]]) + m.count[c[i]]
  <2>1. CASE i = 1
    BY <1>4, <1>7, <2>1
  <2>2. CASE i # 1
    <3>1. i - 1 \in 1..L
      BY <1>1, <2>2
    <3> QED BY <1>4, <1>7, <2>2, <3>1
  <2> QED BY <2>1, <2>2
<1>9. Gaps(m, D)
  BY <1>8 DEF Gaps, Differences, Before
<1> QED BY <1>6, <1>9

\* Only the timers of the list matter.
LEMMA GapsSame ==
  ASSUME NEW q \in Seq(Timers), NEW x, NEW y, NEW D, NEW E, Differences(q, x, D),
         \A u \in ToSet(q) : E[u] = D[u] /\ y[u] = x[u]
  PROVE  Differences(q, y, E)
<1>1. Len(q) \in Nat /\ ToSet(q) = {q[i] : i \in 1..Len(q)}
  BY ListElements
<1>2. \A i \in 1..Len(q) : q[i] \in ToSet(q)
  BY <1>1
<1>3. ASSUME NEW i \in 1..Len(q) PROVE Before(q, D, i) = Before(q, E, i)
  <2>1. CASE i = 1
    BY <2>1 DEF Before
  <2>2. CASE i # 1
    <3>1. i - 1 \in 1..Len(q)
      BY <1>1, <2>2
    <3> QED BY <1>2, <2>2, <3>1 DEF Before
  <2> QED BY <2>1, <2>2
<1> QED BY <1>2, <1>3 DEF Differences

\* The counts y are x with the gap before the k-th timer shared with t, ...
Split(q, x, y, D, t, k) ==
    /\ y[t] = D[t] - Before(q, D, k)
    /\ k <= Len(q) => y[q[k]] = D[q[k]] - D[t]
    /\ \A i \in 1..Len(q) : i # k => y[q[i]] = x[q[i]]

\* ... and with the count of the k-th given to the next.
Merged(q, x, y, k) ==
    /\ k < Len(q) => y[q[k + 1]] = x[q[k + 1]] + x[q[k]]
    /\ \A i \in 1..Len(q) : i # k + 1 => y[q[i]] = x[q[i]]

\* The places of a list before and after a timer is put into it, ...
LEMMA InsertPlaces ==
  ASSUME NEW q \in Seq(Timers), NEW t \in Timers, NEW k \in 1..Len(q) + 1,
         NEW i \in 1..Len(InsertAt(q, k, t))
  PROVE  LET r == InsertAt(q, k, t)
         IN  \/ i < k /\ i \in 1..Len(q) /\ i # k /\ r[i] = q[i] /\ (i # 1 => r[i - 1] = q[i - 1])
             \/ i = k /\ r[i] = t /\ (i # 1 => r[i - 1] = q[i - 1] /\ i - 1 \in 1..Len(q))
             \/ i # 1 /\ k \in 1..Len(q) /\ k <= Len(q) /\ r[i] = q[k] /\ r[i - 1] = t
             \/ \E j \in 1..Len(q) : i # 1 /\ j # k /\ j # 1 /\ r[i] = q[j] /\ r[i - 1] = q[j - 1]
<1> DEFINE r == InsertAt(q, k, t)
<1>1. Len(q) \in Nat
  BY ListElements
<1>2. /\ Len(r) = Len(q) + 1
      /\ \A j \in 1..Len(r) :
           r[j] = IF j < k THEN q[j] ELSE IF j = k THEN t ELSE q[j - 1]
  BY InsertShape
<1> HIDE DEF r
<1>3. i \in 1..Len(r)
  BY DEF r
<1>4. CASE i < k
  BY <1>1, <1>2, <1>3, <1>4 DEF r
<1>5. CASE i = k
  <2>1. i # 1 => i - 1 \in 1..Len(q) /\ i - 1 \in 1..Len(r) /\ i - 1 < k
    BY <1>1, <1>2, <1>3, <1>5
  <2>2. r[i] = t /\ (i # 1 => r[i - 1] = q[i - 1])
    BY <1>2, <1>3, <1>5, <2>1
  <2> QED BY <1>5, <2>1, <2>2 DEF r
<1>6. CASE i = k + 1
  <2>1. i # 1 /\ k \in 1..Len(q) /\ k <= Len(q) /\ i - 1 = k /\ k \in 1..Len(r) /\ ~(i < k) /\ i # k
    BY <1>1, <1>2, <1>3, <1>6
  <2>2. r[i] = q[k] /\ r[i - 1] = t
    BY <1>2, <1>3, <2>1
  <2> QED BY <2>1, <2>2 DEF r
<1>7. CASE i > k + 1
  <2> DEFINE j == i - 1
  <2>1. /\ j \in 1..Len(q) /\ i # 1 /\ j # k /\ j # 1 /\ j \in 1..Len(r)
        /\ ~(i < k) /\ i # k /\ ~(j < k)
    BY <1>1, <1>2, <1>3, <1>7
  <2>2. r[i] = q[j]
    BY <1>2, <1>3, <2>1
  <2>3. r[j] = q[j - 1]
    <3> HIDE DEF j
    <3> QED BY <1>2, <2>1
  <2> QED BY <2>1, <2>2, <2>3 DEF r
<1> QED BY <1>1, <1>2, <1>3, <1>4, <1>5, <1>6, <1>7

\* ... and before and after the k-th is taken out of it.
LEMMA RemovePlaces ==
  ASSUME NEW q \in Seq(Timers), NEW k \in 1..Len(q), Once(q),
         NEW i \in 1..Len(RemoveFirst(q, q[k]))
  PROVE  LET r == RemoveFirst(q, q[k])
         IN  \/ i \in 1..Len(q) /\ i # k + 1 /\ r[i] = q[i] /\ (i # 1 => r[i - 1] = q[i - 1])
             \/ /\ i = k /\ k < Len(q) /\ k + 1 \in 1..Len(q) /\ r[i] = q[k + 1]
                /\ k # 1 => r[i - 1] = q[k - 1] /\ k - 1 \in 1..Len(q)
             \/ \E j \in 1..Len(q) : i # 1 /\ j # k + 1 /\ j # 1 /\ r[i] = q[j] /\ r[i - 1] = q[j - 1]
<1> DEFINE r == RemoveFirst(q, q[k])
<1>1. Len(q) \in Nat
  BY ListElements
<1>2. Len(r) = Len(q) - 1 /\ \A j \in 1..Len(r) : r[j] = IF j < k THEN q[j] ELSE q[j + 1]
  BY RemoveShape
<1> HIDE DEF r
<1>3. i \in 1..Len(r)
  BY DEF r
<1>4. CASE i < k
  <2>1. i \in 1..Len(q) /\ i # k + 1 /\ (i # 1 => i - 1 \in 1..Len(r) /\ i - 1 < k)
    BY <1>1, <1>2, <1>3, <1>4
  <2> QED BY <1>2, <1>3, <1>4, <2>1 DEF r
<1>5. CASE i = k
  <2>1. k < Len(q) /\ k + 1 \in 1..Len(q) /\ ~(i < k)
        /\ (k # 1 => k - 1 \in 1..Len(q) /\ k - 1 \in 1..Len(r) /\ k - 1 < k)
    BY <1>1, <1>2, <1>3, <1>5
  <2>2. r[i] = q[k + 1] /\ (k # 1 => r[k - 1] = q[k - 1])
    BY <1>2, <1>3, <1>5, <2>1
  <2> QED BY <1>5, <2>1, <2>2 DEF r
<1>6. CASE i > k
  <2> DEFINE j == i + 1
             h == i - 1
  <2>1. /\ j \in 1..Len(q) /\ i # 1 /\ j # k + 1 /\ j # 1 /\ h \in 1..Len(r)
        /\ ~(i < k) /\ ~(h < k) /\ h + 1 = j - 1
    BY <1>1, <1>2, <1>3, <1>6
  <2>2. r[i] = q[j]
    BY <1>2, <1>3, <2>1
  <2>3. r[h] = q[j - 1]
    <3> HIDE DEF j, h
    <3>1. r[h] = q[h + 1]
      BY <1>2, <2>1
    <3> QED BY <2>1, <3>1
  <2> QED BY <2>1, <2>2, <2>3 DEF r
<1> QED BY <1>1, <1>2, <1>3, <1>4, <1>5, <1>6

\* A timer is put into the list.
LEMMA GapsInsert ==
  ASSUME NEW q \in Seq(Timers), NEW x \in [Timers -> Nat], NEW y,
         NEW D \in [Timers -> Int], NEW t \in Timers, NEW k \in 1..Len(q) + 1
  PROVE  Differences(q, x, D) /\ Split(q, x, y, D, t, k)
            => Differences(InsertAt(q, k, t), y, D)
<1> DEFINE r == InsertAt(q, k, t)
<1>0. SUFFICES ASSUME Differences(q, x, D), Split(q, x, y, D, t, k)
               PROVE  Differences(r, y, D)
  OBVIOUS
<1>1. \A i \in 1..Len(q) : D[q[i]] = (IF i = 1 THEN 0 ELSE D[q[i - 1]]) + x[q[i]]
  BY <1>0 DEF Differences, Before
<1>2. (\A i \in 1..Len(q) : D[q[i]] \in Int) /\ D[t] \in Int
  BY ListElements
<1>3. ASSUME NEW i \in 1..Len(r)
      PROVE  D[r[i]] = (IF i = 1 THEN 0 ELSE D[r[i - 1]]) + y[r[i]]
  <2>1. CASE i < k /\ i \in 1..Len(q) /\ i # k /\ r[i] = q[i] /\ (i # 1 => r[i - 1] = q[i - 1])
    <3> HIDE DEF r
    <3> QED BY <1>0, <1>1, <2>1 DEF Split
  <2>2. CASE i = k /\ r[i] = t /\ (i # 1 => r[i - 1] = q[i - 1] /\ i - 1 \in 1..Len(q))
    <3>1. y[t] = D[t] - (IF i = 1 THEN 0 ELSE D[q[i - 1]])
      BY <1>0, <2>2 DEF Before, Split
    <3> HIDE DEF r
    <3> QED BY <1>2, <2>2, <3>1
  <2>3. CASE i # 1 /\ k \in 1..Len(q) /\ k <= Len(q) /\ r[i] = q[k] /\ r[i - 1] = t
    <3>1. y[q[k]] = D[q[k]] - D[t]
      BY <1>0, <2>3 DEF Split
    <3> HIDE DEF r
    <3> QED BY <1>2, <2>3, <3>1
  <2>4. ASSUME NEW j \in 1..Len(q), i # 1 /\ j # k /\ j # 1 /\ r[i] = q[j] /\ r[i - 1] = q[j - 1]
        PROVE  D[r[i]] = (IF i = 1 THEN 0 ELSE D[r[i - 1]]) + y[r[i]]
    <3>1. y[q[j]] = x[q[j]]
      BY <1>0, <2>4 DEF Split
    <3>2. D[q[j]] = D[q[j - 1]] + x[q[j]]
      BY <1>1, <2>4
    <3> HIDE DEF r
    <3> QED BY <2>4, <3>1, <3>2
  <2> QED BY <2>1, <2>2, <2>3, <2>4, InsertPlaces
<1> HIDE DEF r
<1> QED BY <1>3 DEF Differences, Before

\* A timer is taken out of the list.
LEMMA GapsRemove ==
  ASSUME NEW q \in Seq(Timers), NEW x \in [Timers -> Nat], NEW y,
         NEW D \in [Timers -> Int], Once(q), NEW k \in 1..Len(q)
  PROVE  Differences(q, x, D) /\ Merged(q, x, y, k)
            => Differences(RemoveFirst(q, q[k]), y, D)
<1> DEFINE r == RemoveFirst(q, q[k])
<1>0. SUFFICES ASSUME Differences(q, x, D), Merged(q, x, y, k)
               PROVE  Differences(r, y, D)
  OBVIOUS
<1>1. \A i \in 1..Len(q) : D[q[i]] = (IF i = 1 THEN 0 ELSE D[q[i - 1]]) + x[q[i]]
  BY <1>0 DEF Differences, Before
<1>2. \A i \in 1..Len(q) : D[q[i]] \in Int /\ x[q[i]] \in Int
  BY ListElements
<1>3. ASSUME NEW i \in 1..Len(r)
      PROVE  D[r[i]] = (IF i = 1 THEN 0 ELSE D[r[i - 1]]) + y[r[i]]
  <2>1. CASE i \in 1..Len(q) /\ i # k + 1 /\ r[i] = q[i] /\ (i # 1 => r[i - 1] = q[i - 1])
    <3> HIDE DEF r
    <3>1. D[q[i]] = (IF i = 1 THEN 0 ELSE D[q[i - 1]]) + x[q[i]]
      BY <1>1, <2>1
    <3>2. y[q[i]] = x[q[i]]
      BY <1>0, <2>1 DEF Merged
    <3>3. D[r[i]] = (IF i = 1 THEN 0 ELSE D[q[i - 1]]) + y[r[i]]
      BY <2>1, <3>1, <3>2
    <3> QED BY <2>1, <3>3
  <2>2. CASE /\ i = k /\ k < Len(q) /\ k + 1 \in 1..Len(q) /\ r[i] = q[k + 1]
             /\ k # 1 => r[i - 1] = q[k - 1] /\ k - 1 \in 1..Len(q)
    <3> HIDE DEF r
    <3>1. y[q[k + 1]] = x[q[k + 1]] + x[q[k]]
      BY <1>0, <2>2 DEF Merged
    <3>2. D[q[k + 1]] = D[q[k]] + x[q[k + 1]]
      <4>1. k + 1 # 1 /\ k + 1 - 1 = k
        BY LenProperties
      <4> QED BY <1>1, <2>2, <4>1
    <3>3. D[q[k]] = (IF k = 1 THEN 0 ELSE D[q[k - 1]]) + x[q[k]]
      BY <1>1
    <3>4. x[q[k]] \in Int /\ x[q[k + 1]] \in Int /\ (k # 1 => D[q[k - 1]] \in Int)
      BY <1>2, <2>2
    <3> DEFINE e == IF k = 1 THEN 0 ELSE D[q[k - 1]]
               a == x[q[k]]
               b == x[q[k + 1]]
    <3>5. D[q[k + 1]] = e + y[q[k + 1]]
      <4>1. e \in Int /\ a \in Int /\ b \in Int
        BY <3>4
      <4>2. D[q[k + 1]] = D[q[k]] + b /\ D[q[k]] = e + a /\ y[q[k + 1]] = b + a
        BY <3>1, <3>2, <3>3
      <4> HIDE DEF e, a, b
      <4>3. D[q[k + 1]] = (e + a) + b
        BY <4>2
      <4>4. (e + a) + b = e + (b + a)
        BY <4>1
      <4> QED BY <4>2, <4>3, <4>4
    <3> QED BY <2>2, <3>5
  <2>3. ASSUME NEW j \in 1..Len(q), i # 1 /\ j # k + 1 /\ j # 1 /\ r[i] = q[j] /\ r[i - 1] = q[j - 1]
        PROVE  D[r[i]] = (IF i = 1 THEN 0 ELSE D[r[i - 1]]) + y[r[i]]
    <3>1. y[q[j]] = x[q[j]]
      BY <1>0, <2>3 DEF Merged
    <3>2. D[q[j]] = D[q[j - 1]] + x[q[j]]
      BY <1>1, <2>3
    <3> HIDE DEF r
    <3> QED BY <2>3, <3>1, <3>2
  <2>4. \/ i \in 1..Len(q) /\ i # k + 1 /\ r[i] = q[i] /\ (i # 1 => r[i - 1] = q[i - 1])
        \/ /\ i = k /\ k < Len(q) /\ k + 1 \in 1..Len(q) /\ r[i] = q[k + 1]
           /\ k # 1 => r[i - 1] = q[k - 1] /\ k - 1 \in 1..Len(q)
        \/ \E j \in 1..Len(q) : i # 1 /\ j # k + 1 /\ j # 1 /\ r[i] = q[j] /\ r[i - 1] = q[j - 1]
    BY RemovePlaces
  <2> HIDE DEF r
  <2> QED BY <2>1, <2>2, <2>3, <2>4
<1> HIDE DEF r
<1> QED BY <1>3 DEF Differences, Before

\* detach(): the timer is gone, the deadlines of the others stay.
LEMMA DetachManager ==
  ASSUME NEW m \in Managers, Apart(m), NEW D \in [Timers -> Int], Gaps(m, D), NEW t \in Timers
  PROVE  LET n == Detach(m, t)
         IN  /\ n \in Managers /\ Apart(n) /\ Gaps(n, D)
             /\ Active(n) = Active(m) \ {t}
             /\ ToSet(n.pendingAttach) = ToSet(m.pendingAttach) \ {t}
             /\ \A u \in Timers : u \notin Active(m) => n.count[u] = m.count[u]
<1> DEFINE n == Detach(m, t)
           q == m.counters
           p == m.pendingAttach
           x == m.count
<1>1. q \in Seq(Timers) /\ p \in Seq(Timers) /\ x \in [Timers -> Nat]
  BY DEF Managers
<1>2. Once(q) /\ Once(p) /\ ToSet(q) \cap ToSet(p) = {} /\ Active(m) = ToSet(q)
  BY DEF Apart, Active
<1>3. /\ Len(q) \in Nat /\ ToSet(q) = {q[i] : i \in 1..Len(q)} /\ \A i \in 1..Len(q) : q[i] \in Timers
      /\ Len(p) \in Nat /\ ToSet(p) = {p[i] : i \in 1..Len(p)}
  BY <1>1, ListElements
<1>4. Differences(q, x, D)
  BY DEF Gaps
<1>5. CASE t \in ToSet(p)
  <2>1. PICK k \in 1..Len(p) : p[k] = t
    BY <1>3, <1>5
  <2>2. /\ RemoveFirst(p, t) \in Seq(Timers) /\ ToSet(RemoveFirst(p, t)) = ToSet(p) \ {t}
        /\ Once(RemoveFirst(p, t))
    BY <1>1, <1>2, <2>1, RemoveShape, RemoveElements
  <2>3. n = [m EXCEPT !.pendingAttach = RemoveFirst(@, t)]
    BY <1>5 DEF Detach
  <2> HIDE DEF n
  <2>4. n \in Managers /\ n.counters = q /\ n.count = x /\ n.pendingAttach = RemoveFirst(p, t)
    BY <2>2, <2>3 DEF Managers
  <2> QED BY <1>2, <1>4, <1>5, <2>2, <2>4 DEF Apart, Gaps, Active, n
<1>6. CASE t \notin ToSet(p) /\ t \notin ToSet(q)
  <2>1. n = m
    BY <1>2, <1>6 DEF Detach
  <2> QED BY <1>2, <1>6, <2>1
<1>7. CASE t \notin ToSet(p) /\ t \in ToSet(q)
  <2>1. PICK k \in 1..Len(q) : q[k] = t
    BY <1>3, <1>7
  <2>2. {j \in 1..Len(q) : q[j] = t} = {k}
    BY <1>2, <2>1 DEF Once
  <2>3. Min({k}) = k
    BY DEF Min
  <2> DEFINE r == RemoveFirst(q, t)
             y == [u \in Timers |-> IF k < Len(q) /\ u = q[k + 1] THEN x[u] + x[t] ELSE x[u]]
  <2>4. n = [m EXCEPT !.counters = r, !.count = y]
    <3>1. Min({j \in 1..Len(m.counters) : m.counters[j] = t}) = k
      BY <2>2, <2>3
    <3>2. t \notin ToSet(m.pendingAttach) /\ t \in Active(m)
      BY <1>2, <1>7
    <3> QED BY <3>1, <3>2 DEF Detach
  <2>5. r \in Seq(Timers) /\ ToSet(r) = ToSet(q) \ {t} /\ Once(r)
    BY <1>1, <1>2, <2>1, RemoveShape, RemoveElements
  <2>6. k # Len(q) => k + 1 \in 1..Len(q) /\ q[k + 1] \in Timers /\ q[k + 1] # t
    <3>1. k # Len(q) => k + 1 \in 1..Len(q) /\ k + 1 # k
      BY <1>3
    <3> QED BY <1>2, <1>3, <2>1, <3>1 DEF Once
  <2>7. y \in [Timers -> Nat]
    <3>1. \A u \in Timers : x[u] \in Nat /\ x[u] + x[t] \in Nat
      BY <1>1, SMTT(30)
    <3> QED BY <3>1
  <2>8. \A u \in Timers : u \notin ToSet(q) => y[u] = x[u]
    <3>1. k < Len(q) => q[k + 1] \in ToSet(q)
      <4>1. k < Len(q) => k + 1 \in 1..Len(q)
        BY <1>3
      <4> QED BY <1>3, <4>1
    <3> QED BY <3>1
  <2>9. Merged(q, x, y, k)
    <3>1. \A i \in 1..Len(q) : i # k + 1 => (k < Len(q) => q[i] # q[k + 1])
      <4>1. k < Len(q) => k + 1 \in 1..Len(q)
        BY <1>3
      <4> QED BY <1>2, <4>1 DEF Once
    <3>2. \A i \in 1..Len(q) : i # k + 1 => y[q[i]] = x[q[i]]
      BY <1>3, <3>1
    <3>3. ASSUME k < Len(q) PROVE y[q[k + 1]] = x[q[k + 1]] + x[q[k]]
      <4>1. k # Len(q) /\ q[k + 1] \in Timers
        BY <1>3, <2>6, <3>3
      <4> QED BY <2>1, <3>3, <4>1
    <3> QED BY <3>2, <3>3 DEF Merged
  <2> HIDE DEF y
  <2>10. Differences(r, y, D)
    BY <1>1, <1>2, <1>4, <2>1, <2>9, GapsRemove
  <2> HIDE DEF n, r
  <2>11. n \in Managers /\ n.counters = r /\ n.count = y /\ n.pendingAttach = p
    BY <2>4, <2>5, <2>7 DEF Managers
  <2> QED BY <1>2, <1>7, <2>5, <2>8, <2>10, <2>11 DEF Apart, Gaps, Active, n
<1> QED BY <1>5, <1>6, <1>7

\* A count is set: no other timer is affected.
WithCount(m, t, c) == [m EXCEPT !.count[t] = c]

\* The count of a timer that is on no list may be anything.
LEMMA SetCount ==
  ASSUME NEW m \in Managers, Apart(m), NEW D \in [Timers -> Int], Gaps(m, D),
         NEW t \in Timers, t \notin Active(m), NEW c \in Nat,
         NEW E \in [Timers -> Int], \A u \in Active(m) : E[u] = D[u]
  PROVE  LET n == WithCount(m, t, c)
         IN  /\ n \in Managers /\ Apart(n) /\ Gaps(n, E)
             /\ n.counters = m.counters /\ n.pendingAttach = m.pendingAttach
             /\ n.count[t] = c
             /\ \A u \in Timers : u # t => n.count[u] = m.count[u]
<1> DEFINE n == WithCount(m, t, c)
<1>1. /\ n \in Managers /\ n.counters = m.counters /\ n.pendingAttach = m.pendingAttach
      /\ n.count = [m.count EXCEPT ![t] = c]
  BY DEF Managers, WithCount
<1> HIDE DEF n
<1>2. n.count[t] = c /\ \A u \in Timers : u # t => n.count[u] = m.count[u]
  BY <1>1 DEF Managers
<1>3. Active(m) \subseteq Timers /\ m.counters \in Seq(Timers)
  BY ListElements DEF Active, Managers
<1>4. \A u \in Active(m) : E[u] = D[u] /\ n.count[u] = m.count[u]
  BY <1>2, <1>3
<1>5. Differences(m.counters, n.count, E)
  BY <1>3, <1>4, GapsSame DEF Gaps, Active
<1> QED BY <1>1, <1>2, <1>5 DEF Gaps, Apart, Active, n

\* addToActiveList(): the timer has its place in the order of the deadlines,
\* and the deadlines of the others stay.
LEMMA AddManager ==
  ASSUME NEW m \in Managers, Apart(m), NEW D \in [Timers -> Int], Gaps(m, D),
         NEW t \in Timers, t \notin Active(m), t \notin ToSet(m.pendingAttach),
         D[t] = m.count[t]
  PROVE  LET n == AddToActiveList(m, t)
         IN  /\ n \in Managers /\ Apart(n) /\ Gaps(n, D)
             /\ Active(n) = Active(m) \cup {t}
             /\ n.pendingAttach = m.pendingAttach
             /\ \A u \in Timers : u \notin Active(m) \cup {t} => n.count[u] = m.count[u]
<1> DEFINE n == AddToActiveList(m, t)
           q == m.counters
           p == m.pendingAttach
           x == m.count
           c == m.count[t]
           later == {i \in 1..Len(q) : c <= CountTo(m, i)}
<1>1. q \in Seq(Timers) /\ p \in Seq(Timers) /\ x \in [Timers -> Nat] /\ c \in Nat
  BY DEF Managers
<1>2. /\ Once(q) /\ Once(p) /\ ToSet(q) \cap ToSet(p) = {} /\ Active(m) = ToSet(q)
      /\ t \notin ToSet(q)
  BY DEF Apart, Active
<1>3. Len(q) \in Nat /\ ToSet(q) = {q[i] : i \in 1..Len(q)} /\ \A i \in 1..Len(q) : q[i] \in Timers
  BY <1>1, ListElements
<1>4. Differences(q, x, D)
  BY DEF Gaps
<1>5. CountTo(m, 0) = 0 /\ \A i \in 1..Len(q) : CountTo(m, i) = D[q[i]] /\ D[q[i]] \in Nat
  BY GapsSum
<1>6. \A k \in 1..Len(q) + 1 : CountTo(m, k - 1) = Before(q, D, k) /\ Before(q, D, k) \in Nat
  <2> SUFFICES ASSUME NEW k \in 1..Len(q) + 1
               PROVE  CountTo(m, k - 1) = Before(q, D, k) /\ Before(q, D, k) \in Nat
    OBVIOUS
  <2>1. k = 1 \/ k - 1 \in 1..Len(q)
    BY <1>3
  <2> QED BY <1>5, <2>1 DEF Before
<1>7. D[t] = c
  OBVIOUS
<1> HIDE DEF c
\* The rest, once the place and the new counts are known.
<1>8. ASSUME NEW k \in 1..Len(q) + 1, NEW y \in [Timers -> Nat],
             n = [m EXCEPT !.counters = InsertAt(q, k, t), !.count = y],
             Split(q, x, y, D, t, k),
             \A u \in Timers : u \notin ToSet(q) \cup {t} => y[u] = x[u]
      PROVE  /\ n \in Managers /\ Apart(n) /\ Gaps(n, D)
             /\ Active(n) = Active(m) \cup {t}
             /\ n.pendingAttach = m.pendingAttach
             /\ \A u \in Timers : u \notin Active(m) \cup {t} => n.count[u] = m.count[u]
  <2> DEFINE r == InsertAt(q, k, t)
  <2>1. r \in Seq(Timers) /\ ToSet(r) = ToSet(q) \cup {t} /\ Once(r)
    BY <1>1, <1>2, InsertShape, InsertElements
  <2>2. Differences(r, y, D)
    BY <1>1, <1>4, <1>8, GapsInsert
  <2> HIDE DEF n, r
  <2>3. n \in Managers /\ n.counters = r /\ n.count = y /\ n.pendingAttach = p
    BY <1>8, <2>1 DEF Managers, r
  <2> QED BY <1>2, <1>8, <2>1, <2>2, <2>3 DEF Apart, Gaps, Active
<1>9. CASE later = {}
  <2> DEFINE k == Len(q) + 1
             y == [x EXCEPT ![t] = c - CountTo(m, Len(q))]
  <2>1. k \in 1..Len(q) + 1 /\ k - 1 = Len(q) /\ ~(k <= Len(q))
    BY <1>3
  <2>2. CountTo(m, Len(q)) = Before(q, D, k) /\ Before(q, D, k) \in Nat
    BY <1>6, <2>1
  <2>3. c - CountTo(m, Len(q)) \in Nat
    <3>1. CASE Len(q) = 0
      BY <1>1, <1>5, <3>1 DEF c
    <3>2. CASE Len(q) # 0
      <4>1. Len(q) \in 1..Len(q)
        BY <1>3, <3>2
      <4>2. ~(c <= CountTo(m, Len(q)))
        BY <1>9, <4>1
      <4> QED BY <1>1, <2>2, <4>2 DEF c
    <3> QED BY <3>1, <3>2
  <2>4. y \in [Timers -> Nat] /\ y[t] = c - CountTo(m, Len(q)) /\ \A u \in Timers \ {t} : y[u] = x[u]
    BY <1>1, <2>3
  <2>5. n = [m EXCEPT !.counters = Append(q, t), !.count = y]
    BY <1>9 DEF AddToActiveList, c
  <2>6. Append(q, t) = InsertAt(q, k, t)
    <3>1. SubSeq(q, 1, k - 1) = q
      BY <1>1, <1>3, SubSeqFull
    <3>2. SubSeq(q, k, Len(q)) = <<>>
      BY <1>1, <1>3, SubSeqEmpty
    <3>3. q \o <<t>> \in Seq(Timers) /\ (q \o <<t>>) \o <<>> = q \o <<t>>
      BY <1>1, ConcatProperties, ConcatEmptySeq
    <3>4. Append(q, t) = q \o <<t>>
      BY <1>1, AppendIsConcat
    <3> QED BY <3>1, <3>2, <3>3, <3>4 DEF InsertAt
  <2>7. Split(q, x, y, D, t, k)
    <3> HIDE DEF y, later
    <3>1. \A i \in 1..Len(q) : q[i] \in Timers \ {t}
      BY <1>2, <1>3
    <3> QED BY <1>7, <2>1, <2>2, <2>4, <3>1 DEF Split
  <2> HIDE DEF n, y, k
  <2> QED BY <1>8, <2>1, <2>4, <2>5, <2>6, <2>7 DEF n
<1>10. CASE later # {}
  <2> DEFINE i == Min(later)
  <2>1. i \in later /\ \A j \in later : i <= j
    <3>1. later \subseteq Nat
      OBVIOUS
    <3> HIDE DEF later
    <3> QED BY <1>10, <3>1, MinProperties
  <2>2. i \in 1..Len(q) /\ c <= CountTo(m, i) /\ CountTo(m, i) = D[q[i]]
    BY <1>5, <2>1
  <2>3. i # 1 => ~(c <= CountTo(m, i - 1))
    <3>1. i # 1 => i - 1 \in 1..Len(q) /\ ~(i <= i - 1)
      BY <1>3, <2>2
    <3> QED BY <2>1, <3>1
  <2>4. /\ i \in 1..Len(q) + 1 /\ i + 1 \in 1..Len(q) + 1 /\ i <= Len(q)
        /\ i # i + 1 /\ (i + 1) - 1 = i /\ i + 1 # 1
    BY <1>3, <2>2
  <2>5. CountTo(m, i - 1) = Before(q, D, i) /\ Before(q, D, i) \in Nat
    BY <1>6, <2>4
  <2>6. c - CountTo(m, i - 1) \in Nat
    BY <1>1, <1>5, <2>3, <2>5 DEF c
  <2>7. \A j \in 1..Len(q) : q[j] \in Timers \ {t} /\ (j # i => q[j] # q[i])
    BY <1>2, <1>3, <2>2 DEF Once
  <2>8. CASE c < CountTo(m, i)
    <3> DEFINE y == [x EXCEPT ![t] = c - CountTo(m, i - 1), ![q[i]] = CountTo(m, i) - c]
    <3>1. CountTo(m, i) - c \in Nat
      BY <1>1, <1>5, <2>2, <2>8, SMTT(30) DEF c
    <3>2. /\ y \in [Timers -> Nat] /\ y[t] = c - CountTo(m, i - 1) /\ y[q[i]] = CountTo(m, i) - c
          /\ \A u \in Timers \ {t, q[i]} : y[u] = x[u]
      BY <1>1, <2>2, <2>6, <2>7, <3>1
    <3>3. n = [m EXCEPT !.counters = InsertAt(q, i, t), !.count = y]
      BY <1>10, <2>8 DEF AddToActiveList, c
    <3> HIDE DEF y, i, n, later
    <3>4. Split(q, x, y, D, t, i)
      BY <1>7, <2>2, <2>5, <2>7, <3>2 DEF Split
    <3>5. \A u \in Timers : u \notin ToSet(q) \cup {t} => y[u] = x[u]
      BY <1>3, <2>2, <3>2
    <3> QED BY <1>8, <2>4, <3>2, <3>3, <3>4, <3>5 DEF n
  <2>9. CASE ~(c < CountTo(m, i))
    <3> DEFINE y == [x EXCEPT ![t] = 0]
    <3>1. y \in [Timers -> Nat] /\ y[t] = 0 /\ \A u \in Timers \ {t} : y[u] = x[u]
      BY <1>1
    <3>2. n = [m EXCEPT !.counters = InsertAt(q, i + 1, t), !.count = y]
      BY <1>10, <2>9 DEF AddToActiveList, c
    <3>3. c = D[q[i]]
      BY <1>1, <1>5, <2>2, <2>9, SMTT(30) DEF c
    <3> HIDE DEF y, i, n, later
    <3>4. Before(q, D, i + 1) = D[q[i]]
      BY <2>4 DEF Before
    <3>5. i + 1 <= Len(q) => y[q[i + 1]] = D[q[i + 1]] - D[t]
      <4>1. i + 1 <= Len(q) => i + 1 \in 1..Len(q)
        BY <2>4
      <4>2. i + 1 \in 1..Len(q) => D[q[i + 1]] = D[q[i]] + x[q[i + 1]] /\ x[q[i + 1]] \in Nat
                                   /\ y[q[i + 1]] = x[q[i + 1]]
        BY <1>1, <1>4, <2>7, <3>1, <3>4 DEF Differences
      <4>3. D[q[i]] \in Nat
        BY <1>5, <2>2
      <4> QED BY <1>7, <3>3, <4>1, <4>2, <4>3
    <3>6. y[t] = D[t] - Before(q, D, i + 1)
      BY <1>1, <1>7, <3>1, <3>3, <3>4 DEF c
    <3>7. Split(q, x, y, D, t, i + 1)
      BY <2>7, <3>1, <3>5, <3>6 DEF Split
    <3> QED BY <1>8, <2>4, <3>1, <3>2, <3>7, ZenonT(60) DEF n
  <2> QED BY <2>8, <2>9
<1> QED BY <1>9, <1>10

-----------------------------------------------------------------------------
(***************************************************************************)
(* The inductive invariant.  CountsAddUp is not inductive: it says nothing *)
(* of the clock, so that a tick might take more than the time that has     *)
(* passed, and nothing of the phases of processTimers(), so that a timer   *)
(* might be left in the pending list when the next one begins.             *)
(***************************************************************************)
Lag == Delta(timeNow, now)

\* The ticks until each timer expires.
Ticks == [t \in Timers |-> left[t] + msec + Lag]

ClockInv ==
    /\ Delta(timeMark, now) <= MaxLag
    /\ pc # "start" => Delta(timeMark, timeNow) + Lag = Delta(timeMark, now)
    /\ msec <= Delta(timeMark, timeNow)
    /\ pc \in {"start", "app", "complete"} => msec = 0
    /\ pc \in {"app", "complete"} => timeMark = timeNow

ListInv ==
    /\ Apart(tm) /\ Gaps(tm, Ticks)
    /\ \A t \in ToSet(tm.pendingAttach) : tm.count[t] = left[t] + Lag
    /\ armed = Active(tm) \cup ToSet(tm.pendingAttach)
    /\ pc = "start" => tm.counters = <<>>
    /\ pc \in {"start", "app"} => tm.pendingAttach = <<>>
    /\ pc = "callback" => ringing \in Timers

\* A timer that was due is in the list with no more ticks than are left to
\* consume; once none is left, the first of the list is not due.
DueInv ==
    /\ pc \in {"start", "app", "complete"} => due = {}
    /\ \A t \in due : t \in Active(tm) /\ left[t] + Lag <= 0
    /\ pc = "tick" /\ msec = 0 /\ tm.counters # <<>>
          => tm.count[Head(tm.counters)] > 0 \/ due = {}

IInv == TypeOK /\ ClockInv /\ ListInv /\ DueInv

\* The times are numbers.
LEMMA TicksType ==
  ASSUME TypeOK
  PROVE  /\ Lag \in Nat /\ Ticks \in [Timers -> Int]
         /\ \A t \in Timers : Ticks[t] = left[t] + msec + Lag
         /\ tm \in Managers /\ Active(tm) \subseteq Timers
         /\ ToSet(tm.pendingAttach) \subseteq Timers
         /\ \A t \in Timers : left[t] \in Int /\ tm.count[t] \in Nat
         /\ msec \in Nat
<1>1. Lag \in Nat
  <2>1. Delta(timeNow, now) \in 0..Wrap - 1
    BY DeltaType DEF TypeOK
  <2> QED BY <2>1, TimerAssumption DEF Lag
<1>2. tm \in Managers
  BY DEF TypeOK, Managers
<1>3. Active(tm) \subseteq Timers /\ ToSet(tm.pendingAttach) \subseteq Timers
  BY <1>2, ListElements DEF Managers, Active
<1>4. msec \in Nat
  BY TimerAssumption DEF TypeOK
<1>5. \A t \in Timers : left[t] \in Int /\ tm.count[t] \in Nat
  BY DEF TypeOK
<1>6. \A t \in Timers : left[t] + msec + Lag \in Int
  BY <1>1, <1>4, <1>5
<1> QED BY <1>1, <1>2, <1>3, <1>4, <1>5, <1>6 DEF Ticks

\* No running timer is later than the event loop may be.
LEMMA NotTooLate ==
  ASSUME TypeOK, ClockInv, ListInv, NEW t \in armed
  PROVE  left[t] + msec + Lag >= 0 /\ left[t] >= -MaxLag
<1>1. /\ Lag \in Nat /\ Ticks \in [Timers -> Int]
      /\ \A u \in Timers : Ticks[u] = left[u] + msec + Lag
      /\ tm \in Managers /\ Active(tm) \subseteq Timers
      /\ ToSet(tm.pendingAttach) \subseteq Timers
      /\ \A u \in Timers : left[u] \in Int /\ tm.count[u] \in Nat
      /\ msec \in Nat
  BY TicksType
<1>2. left[t] + msec + Lag >= 0 /\ t \in Timers
  <2>1. CASE t \in Active(tm)
    <3>1. PICK i \in 1..Len(tm.counters) : t = tm.counters[i]
      BY <1>1, <2>1, ListElements DEF Active, Managers
    <3>2. Ticks[t] \in Nat
      BY <1>1, <3>1, GapsSum DEF ListInv
    <3> QED BY <1>1, <2>1, <3>2
  <2>2. CASE t \in ToSet(tm.pendingAttach)
    <3>1. tm.count[t] = left[t] + Lag /\ t \in Timers
      BY <1>1, <2>2 DEF ListInv
    <3> QED BY <1>1, <3>1
  <2> QED BY <2>1, <2>2 DEF ListInv
<1>3. pc # "start"
  <2>1. CASE pc = "start"
    <3> QED BY <2>1, EmptyList DEF ListInv, Active
  <2> QED BY <2>1
<1>4. msec + Lag <= MaxLag
  <2>1. /\ Delta(timeMark, timeNow) \in 0..Wrap - 1 /\ Delta(timeMark, now) \in 0..Wrap - 1
    BY DeltaType DEF TypeOK
  <2> QED BY <1>1, <1>3, <2>1, TimerAssumption DEF ClockInv
<1> QED BY <1>1, <1>2, <1>4, TimerAssumption

\* At first there are no timers.
LEMMA InvInit ==
  ASSUME Init, ~StartEarly
  PROVE  IInv
<1>1. TypeOK
  BY TimerAssumption DEF Init, TypeOK
<1>2. ToSet(<<>>) = {} /\ Len(<<>>) = 0
  BY EmptyList
<1>3. Delta(now, now) = 0
  <2>1. now \in 0..Wrap - 1
    BY DEF Init
  <2> QED BY <2>1, DeltaType
<1>4. Delta(timeMark, timeNow) \in Nat
  <2>1. timeMark \in 0..Wrap - 1 /\ timeNow \in 0..Wrap - 1
    BY <1>1 DEF TypeOK
  <2> QED BY <2>1, DeltaType
<1>5. ClockInv
  BY <1>3, <1>4, TimerAssumption DEF Init, ClockInv
<1>6. ListInv
  BY <1>2 DEF Init, ListInv, Apart, Once, Gaps, Differences, Active
<1>7. DueInv
  BY DEF Init, DueInv
<1> QED BY <1>1, <1>5, <1>6, <1>7 DEF IInv

\* What CountsAddUp says follows.
LEMMA InvCounts ==
  ASSUME IInv
  PROVE  CountsAddUp
<1>1. TypeOK /\ ClockInv /\ ListInv
  BY DEF IInv
<1>2. /\ Ticks \in [Timers -> Int] /\ \A u \in Timers : Ticks[u] = left[u] + msec + Lag
      /\ tm \in Managers
  BY <1>1, TicksType
<1>3. ASSUME NEW i \in 1..Len(tm.counters)
      PROVE  CountTo(tm, i) = left[tm.counters[i]] + msec + Delta(timeNow, now)
  <2>1. CountTo(tm, i) = Ticks[tm.counters[i]] /\ tm.counters[i] \in Timers
    BY <1>1, <1>2, GapsSum DEF ListInv
  <2> QED BY <1>2, <2>1 DEF Lag
<1>4. IsInjective(tm.counters \o tm.pendingAttach)
  BY <1>1, <1>2, ConcatOnce DEF Managers, ListInv, Apart, Active
<1> QED BY <1>1, <1>3, <1>4 DEF CountsAddUp, ListInv, Lag

\* The first timer of the list is decremented by n ticks, ...
LEMMA GapsTick ==
  ASSUME NEW q \in Seq(Timers), NEW x \in [Timers -> Nat], NEW D \in [Timers -> Int],
         Once(q), q # <<>>, NEW n \in Nat, NEW y, NEW E
  PROVE  (/\ Differences(q, x, D)
          /\ y[q[1]] = x[q[1]] - n /\ \A i \in 1..Len(q) : i # 1 => y[q[i]] = x[q[i]]
          /\ \A i \in 1..Len(q) : E[q[i]] = D[q[i]] - n)
            => Differences(q, y, E)
<1>1. SUFFICES ASSUME Differences(q, x, D),
                      y[q[1]] = x[q[1]] - n, \A i \in 1..Len(q) : i # 1 => y[q[i]] = x[q[i]],
                      \A i \in 1..Len(q) : E[q[i]] = D[q[i]] - n
               PROVE  Differences(q, y, E)
  OBVIOUS
<1>2. Len(q) \in Nat \ {0} /\ \A i \in 1..Len(q) : q[i] \in Timers
  BY ListElements
<1>3. \A i \in 1..Len(q) : D[q[i]] = (IF i = 1 THEN 0 ELSE D[q[i - 1]]) + x[q[i]]
  BY <1>1 DEF Differences, Before
<1>4. ASSUME NEW i \in 1..Len(q)
      PROVE  E[q[i]] = (IF i = 1 THEN 0 ELSE E[q[i - 1]]) + y[q[i]]
  <2>1. D[q[i]] \in Int /\ x[q[i]] \in Int
    BY <1>2
  <2>2. CASE i = 1
    <3>1. D[q[1]] = x[q[1]]
      BY <1>3, <2>1, <2>2
    <3>2. E[q[1]] = D[q[1]] - n /\ y[q[1]] = x[q[1]] - n
      BY <1>1, <2>2
    <3> QED BY <2>1, <2>2, <3>1, <3>2
  <2>3. CASE i # 1
    <3>1. i - 1 \in 1..Len(q)
      BY <1>2, <2>3
    <3>2. D[q[i - 1]] \in Int
      BY <1>2, <3>1
    <3>3. D[q[i]] = D[q[i - 1]] + x[q[i]]
      BY <1>3, <2>3
    <3>4. E[q[i]] = D[q[i]] - n /\ E[q[i - 1]] = D[q[i - 1]] - n /\ y[q[i]] = x[q[i]]
      BY <1>1, <2>3, <3>1
    <3>5. E[q[i]] = E[q[i - 1]] + y[q[i]]
      BY <2>1, <3>2, <3>3, <3>4, SMTT(30)
    <3> QED BY <2>3, <3>5
  <2> QED BY <2>2, <2>3
<1> QED BY <1>4 DEF Differences, Before

\* ... or taken off it when it has reached zero.
LEMMA GapsTail ==
  ASSUME NEW q \in Seq(Timers), NEW x \in [Timers -> Nat], NEW D \in [Timers -> Int],
         Once(q), q # <<>>
  PROVE  Differences(q, x, D) /\ x[q[1]] = 0 => Differences(Tail(q), x, D)
<1> DEFINE r == Tail(q)
<1>1. SUFFICES ASSUME Differences(q, x, D), x[q[1]] = 0 PROVE Differences(r, x, D)
  OBVIOUS
<1>2. Len(q) \in Nat \ {0} /\ \A i \in 1..Len(q) : q[i] \in Timers
  BY ListElements
<1>3. Len(r) = Len(q) - 1 /\ \A i \in 1..Len(r) : r[i] = q[i + 1]
  BY GetElements
<1> HIDE DEF r
<1>4. \A i \in 1..Len(q) : D[q[i]] = (IF i = 1 THEN 0 ELSE D[q[i - 1]]) + x[q[i]]
  BY <1>1 DEF Differences, Before
<1>5. ASSUME NEW i \in 1..Len(r)
      PROVE  D[r[i]] = (IF i = 1 THEN 0 ELSE D[r[i - 1]]) + x[r[i]]
  <2> DEFINE j == i + 1
  <2>1. j \in 1..Len(q) /\ j # 1 /\ j - 1 = i /\ r[i] = q[j] /\ 1 \in 1..Len(q)
    BY <1>2, <1>3
  <2> HIDE DEF j
  <2>2. D[q[j]] = D[q[i]] + x[q[j]] /\ x[q[j]] \in Nat
    BY <1>2, <1>4, <2>1
  <2>3. CASE i = 1
    <3>1. D[q[1]] = 0
      BY <1>1, <1>4, <2>1, SMTT(30)
    <3> QED BY <2>1, <2>2, <2>3, <3>1
  <2>4. CASE i # 1
    <3>1. i - 1 \in 1..Len(r) /\ i - 1 + 1 = i
      BY <1>2, <1>3, <2>4
    <3>2. r[i - 1] = q[i]
      BY <1>3, <3>1
    <3> QED BY <2>1, <2>2, <2>4, <3>2
  <2> QED BY <2>3, <2>4
<1> QED BY <1>5 DEF Differences, Before

-----------------------------------------------------------------------------
(* The steps *)

\* Time passes.
LEMMA TimeStep ==
  ASSUME IInv, TimePasses
  PROVE  IInv' /\ \A t \in armed : left'[t] = left[t] - 1
<1> USE TimerAssumption
<1>1. TypeOK /\ ClockInv /\ ListInv /\ DueInv
  BY DEF IInv
<1>2. /\ Lag \in Nat /\ Ticks \in [Timers -> Int]
      /\ \A u \in Timers : Ticks[u] = left[u] + msec + Lag
      /\ tm \in Managers /\ Active(tm) \subseteq Timers
      /\ ToSet(tm.pendingAttach) \subseteq Timers
      /\ \A u \in Timers : left[u] \in Int /\ tm.count[u] \in Nat
      /\ msec \in Nat
  BY <1>1, TicksType
<1>3. now \in 0..Wrap - 1 /\ timeMark \in 0..Wrap - 1 /\ timeNow \in 0..Wrap - 1
  BY <1>1 DEF TypeOK
<1>4. /\ Delta(timeMark, timeNow) \in 0..Wrap - 1 /\ Delta(timeMark, now) \in 0..Wrap - 1
      /\ Delta(timeMark, now) < Wrap - 1 /\ Delta(timeMark, now) < MaxLag
  <2>1. Delta(timeMark, timeNow) \in 0..Wrap - 1 /\ Delta(timeMark, now) \in 0..Wrap - 1
    BY <1>3, DeltaType
  <2>2. Delta(timeMark, now) < MaxLag
    BY DEF TimePasses
  <2> QED BY <2>1, <2>2
<1>5. now' \in 0..Wrap - 1 /\ Delta(timeMark, now') = Delta(timeMark, now) + 1
  BY <1>3, <1>4, DeltaNext DEF TimePasses
<1>6. armed \subseteq Timers
  BY <1>1 DEF TypeOK
<1>7. ASSUME NEW t \in armed PROVE left'[t] = left[t] - 1
  <2>1. left[t] \in Int /\ left[t] >= -MaxLag
    BY <1>1, <1>2, <1>6, NotTooLate
  <2>2. left[t] - 1 >= Overdue /\ Overdue \in Int
    BY <2>1 DEF Overdue
  <2>3. Max({left[t] - 1, Overdue}) = left[t] - 1
    BY <2>1, <2>2 DEF Max
  <2> QED BY <1>6, <2>3 DEF TimePasses
<1>8. left' \in [Timers -> Int]
  <2>1. ASSUME NEW t \in Timers PROVE left'[t] \in Int
    <3>1. CASE t \in armed
      BY <1>2, <1>7, <3>1
    <3>2. CASE t \notin armed
      BY <1>2, <3>2 DEF TimePasses
    <3> QED BY <3>1, <3>2
  <2> QED BY <2>1 DEF TimePasses
<1>9. TypeOK'
  BY <1>1, <1>5, <1>8 DEF TypeOK, TimePasses
<1>10. pc # "start" => Lag' = Lag + 1
  <2>1. pc # "start" => Lag < Wrap - 1
    BY <1>1, <1>2, <1>4 DEF ClockInv
  <2>2. pc # "start" => Delta(timeNow, (now + 1) % Wrap) = Delta(timeNow, now) + 1
    BY <1>3, <2>1, DeltaNext DEF Lag
  <2> QED BY <2>2 DEF Lag, TimePasses
<1>11. ClockInv'
  BY <1>1, <1>2, <1>4, <1>5, <1>10 DEF ClockInv, TimePasses
<1>12. armed = Active(tm) \cup ToSet(tm.pendingAttach) /\ (armed # {} => pc # "start")
  <2>1. armed = Active(tm) \cup ToSet(tm.pendingAttach)
    BY <1>1 DEF ListInv
  <2>2. pc = "start" => armed = {}
    BY <1>1, EmptyList DEF ListInv, Active
  <2> QED BY <2>1, <2>2
<1>13. \A t \in armed : left'[t] + Lag' = left[t] + Lag /\ Ticks'[t] = Ticks[t]
  <2>1. \A t \in Timers : Ticks'[t] = left'[t] + msec + Lag'
    BY DEF Ticks, TimePasses
  <2> QED BY <1>2, <1>6, <1>7, <1>10, <1>12, <2>1
<1>14. Gaps(tm, Ticks')
  <2>1. \A u \in ToSet(tm.counters) : Ticks'[u] = Ticks[u] /\ tm.count[u] = tm.count[u]
    BY <1>12, <1>13 DEF Active
  <2>2. Differences(tm.counters, tm.count, Ticks) /\ tm.counters \in Seq(Timers)
    BY <1>1, <1>2 DEF ListInv, Gaps, Managers
  <2> HIDE DEF Ticks
  <2>3. Differences(tm.counters, tm.count, Ticks')
    BY <2>1, <2>2, GapsSame
  <2> QED BY <2>3 DEF Gaps
<1>15. ListInv'
  <2>1. tm' = tm /\ armed' = armed /\ pc' = pc /\ ringing' = ringing
    BY DEF TimePasses
  <2>2. \A t \in ToSet(tm.pendingAttach) : tm.count[t] = left'[t] + Lag'
    BY <1>1, <1>12, <1>13 DEF ListInv
  <2> QED BY <1>1, <1>14, <2>1, <2>2 DEF ListInv
<1>16. DueInv'
  <2>1. tm' = tm /\ due' = due /\ pc' = pc /\ msec' = msec
    BY DEF TimePasses
  <2>2. \A t \in due : t \in armed /\ left'[t] + Lag' <= 0
    BY <1>1, <1>12, <1>13 DEF DueInv
  <2> QED BY <1>1, <2>1, <2>2 DEF DueInv
<1> QED BY <1>7, <1>9, <1>11, <1>15, <1>16 DEF IInv

\* What TicksType says, and the parts of the invariant.
LEMMA InvParts ==
  ASSUME IInv
  PROVE  /\ TypeOK /\ ClockInv /\ ListInv /\ DueInv
         /\ Lag \in Nat /\ Ticks \in [Timers -> Int]
         /\ \A u \in Timers : Ticks[u] = left[u] + msec + Lag
         /\ tm \in Managers /\ tm.counters \in Seq(Timers) /\ tm.pendingAttach \in Seq(Timers)
         /\ tm.count \in [Timers -> Nat]
         /\ Active(tm) \subseteq Timers
         /\ ToSet(tm.pendingAttach) \subseteq Timers
         /\ \A u \in Timers : left[u] \in Int /\ tm.count[u] \in Nat
         /\ msec \in Nat
BY TicksType DEF IInv, Managers

\* A list without elements is empty.
LEMMA NoElements ==
  ASSUME NEW q \in Seq(Timers), ToSet(q) = {}
  PROVE  q = <<>>
<1>1. Len(q) \in Nat /\ (1 \in 1..Len(q) => q[1] \in ToSet(q))
  BY ListElements
<1>2. Len(q) = 0
  BY <1>1
<1> QED BY <1>2, ListElements

\* Timer::stop()
LEMMA StopStep ==
  ASSUME IInv, NEW t \in Timers, Stop(t)
  PROVE  IInv'
<1> DEFINE n == Detach(tm, t)
<1>1. /\ TypeOK /\ ClockInv /\ ListInv /\ DueInv
      /\ Lag \in Nat /\ Ticks \in [Timers -> Int]
      /\ \A u \in Timers : Ticks[u] = left[u] + msec + Lag
      /\ tm \in Managers /\ Active(tm) \subseteq Timers
      /\ ToSet(tm.pendingAttach) \subseteq Timers
      /\ \A u \in Timers : left[u] \in Int
  BY InvParts
<1>2. /\ n \in Managers /\ Apart(n) /\ Gaps(n, Ticks)
      /\ Active(n) = Active(tm) \ {t}
      /\ ToSet(n.pendingAttach) = ToSet(tm.pendingAttach) \ {t}
      /\ \A u \in Timers : u \notin Active(tm) => n.count[u] = tm.count[u]
  BY <1>1, DetachManager DEF ListInv
<1>3. /\ tm' = n /\ armed' = armed \ {t} /\ due' = due \ {t} /\ left' = [left EXCEPT ![t] = 0]
      /\ pc \in {"app", "callback"} /\ calls < MaxCallback /\ calls' = calls + 1
      /\ now' = now /\ timeMark' = timeMark /\ timeNow' = timeNow /\ msec' = msec
      /\ pc' = pc /\ ringing' = ringing
  BY DEF Stop, AppCall
<1> HIDE DEF n
<1>4. Lag' = Lag
  BY <1>3 DEF Lag
<1>5. \A u \in Timers : u # t => left'[u] = left[u] /\ Ticks'[u] = Ticks[u]
  BY <1>1, <1>3, <1>4 DEF Ticks
<1>6. TypeOK'
  <2>1. calls' \in 0..MaxCallback
    BY <1>1, <1>3, TimerAssumption DEF TypeOK
  <2>2. left' \in [Timers -> Int]
    BY <1>1, <1>3 DEF TypeOK
  <2> QED BY <1>1, <1>2, <1>3, <2>1, <2>2 DEF TypeOK, Managers
<1>7. ClockInv'
  BY <1>1, <1>3, <1>4 DEF ClockInv
<1>8. Gaps(n, Ticks')
  <2>1. \A u \in ToSet(n.counters) : Ticks'[u] = Ticks[u] /\ n.count[u] = n.count[u]
    BY <1>1, <1>2, <1>5 DEF Active
  <2>2. Differences(n.counters, n.count, Ticks) /\ n.counters \in Seq(Timers)
    BY <1>2 DEF Gaps, Managers
  <2>3. Differences(n.counters, n.count, Ticks')
    BY <2>1, <2>2, GapsSame
  <2> QED BY <2>3 DEF Gaps
<1>9. ListInv'
  <2>1. ASSUME NEW u \in ToSet(n.pendingAttach) PROVE n.count[u] = left'[u] + Lag'
    <3>1. u \in ToSet(tm.pendingAttach) /\ u # t /\ u \in Timers /\ u \notin Active(tm)
      BY <1>1, <1>2 DEF ListInv, Apart
    <3> QED BY <1>1, <1>2, <1>4, <1>5, <3>1 DEF ListInv
  <2>2. armed' = Active(n) \cup ToSet(n.pendingAttach)
    BY <1>1, <1>2, <1>3 DEF ListInv
  <2>3. pc = "app" => n.pendingAttach = <<>>
    <3>1. pc = "app" => ToSet(n.pendingAttach) = {}
      BY <1>1, <1>2, EmptyList DEF ListInv
    <3> QED BY <1>2, <3>1, NoElements DEF Managers
  <2> QED BY <1>1, <1>2, <1>3, <1>8, <2>1, <2>2, <2>3 DEF ListInv
<1>10. DueInv'
  <2>1. \A u \in due' : u \in Active(tm') /\ left'[u] + Lag' <= 0
    BY <1>1, <1>2, <1>3, <1>4, <1>5 DEF DueInv
  <2> QED BY <1>1, <1>3, <2>1 DEF DueInv
<1> QED BY <1>6, <1>7, <1>9, <1>10 DEF IInv

\* Timer::start()
LEMMA StartStep ==
  ASSUME IInv, NEW t \in Timers, NEW d \in Durations, Start(t, d)
  PROVE  IInv'
<1> DEFINE n == Detach(tm, t)
           c == MsecToCounts(d)
           o == WithCount(n, t, c)
<1>1. /\ TypeOK /\ ClockInv /\ ListInv /\ DueInv
      /\ Lag \in Nat /\ Ticks \in [Timers -> Int]
      /\ \A u \in Timers : Ticks[u] = left[u] + msec + Lag
      /\ tm \in Managers /\ Active(tm) \subseteq Timers
      /\ ToSet(tm.pendingAttach) \subseteq Timers
      /\ \A u \in Timers : left[u] \in Int
  BY InvParts
<1>2. /\ n \in Managers /\ Apart(n) /\ Gaps(n, Ticks)
      /\ Active(n) = Active(tm) \ {t}
      /\ ToSet(n.pendingAttach) = ToSet(tm.pendingAttach) \ {t}
      /\ \A u \in Timers : u \notin Active(tm) => n.count[u] = tm.count[u]
  BY <1>1, DetachManager DEF ListInv
<1>3. /\ armed' = armed \cup {t} /\ due' = due \ {t} /\ left' = [left EXCEPT ![t] = d]
      /\ pc \in {"app", "callback"} /\ calls < MaxCallback /\ calls' = calls + 1
      /\ now' = now /\ timeMark' = timeMark /\ timeNow' = timeNow /\ msec' = msec
      /\ pc' = pc /\ ringing' = ringing
      /\ tm' = IF pc = "callback" THEN [o EXCEPT !.pendingAttach = Append(@, t)]
                                  ELSE AddToActiveList(o, t)
  BY DEF Start, AppCall, Attach, InTickCall, WithCount
<1>4. c = d + Lag /\ c \in Nat /\ d \in Nat
  BY <1>1, TimerAssumption DEF MsecToCounts, Lag
<1> HIDE DEF n, c
<1>5. Lag' = Lag
  BY <1>3 DEF Lag
<1>6. /\ left' \in [Timers -> Int] /\ left'[t] = d
      /\ Ticks' \in [Timers -> Int] /\ Ticks'[t] = d + msec + Lag
      /\ \A u \in Timers : u # t => left'[u] = left[u] /\ Ticks'[u] = Ticks[u]
  <2>1. left' \in [Timers -> Int] /\ left'[t] = d /\ \A u \in Timers : u # t => left'[u] = left[u]
    BY <1>1, <1>3, <1>4 DEF TypeOK
  <2>2. Ticks' = [u \in Timers |-> left'[u] + msec + Lag] /\ msec \in Int
    BY <1>1, <1>3, <1>5, TimerAssumption DEF Ticks, TypeOK
  <2> QED BY <1>1, <2>1, <2>2
<1>7. /\ o \in Managers /\ Apart(o) /\ Gaps(o, Ticks')
      /\ o.counters = n.counters /\ o.pendingAttach = n.pendingAttach
      /\ o.count[t] = c
      /\ \A u \in Timers : u # t => o.count[u] = n.count[u]
  <2>1. \A u \in Active(n) : Ticks'[u] = Ticks[u]
    BY <1>1, <1>2, <1>6
  <2>2. t \notin Active(n)
    BY <1>2
  <2>3. ASSUME NEW E \in [Timers -> Int], \A u \in Active(n) : E[u] = Ticks[u]
        PROVE  /\ o \in Managers /\ Apart(o) /\ Gaps(o, E)
               /\ o.counters = n.counters /\ o.pendingAttach = n.pendingAttach
               /\ o.count[t] = c
               /\ \A u \in Timers : u # t => o.count[u] = n.count[u]
    BY <1>1, <1>2, <1>4, <2>2, <2>3, SetCount
  <2> HIDE DEF o
  <2> QED BY <1>6, <2>1, <2>3
<1> HIDE DEF o
<1>8. Active(o) = Active(tm) \ {t} /\ ToSet(o.pendingAttach) = ToSet(tm.pendingAttach) \ {t}
  BY <1>2, <1>7 DEF Active
<1>9. \A u \in Timers : u # t /\ u \notin Active(tm) => o.count[u] = tm.count[u]
  BY <1>2, <1>7
\* The new lists, whichever of the two the timer is in.
<1>10. /\ tm' \in Managers /\ Apart(tm') /\ Gaps(tm', Ticks')
       /\ Active(tm') \cup ToSet(tm'.pendingAttach)
             = Active(o) \cup ToSet(o.pendingAttach) \cup {t}
       /\ Active(o) \subseteq Active(tm')
       /\ \A u \in ToSet(tm'.pendingAttach) : tm'.count[u] = left'[u] + Lag
       /\ pc = "app" => tm'.pendingAttach = <<>>
  <2>1. CASE pc = "callback"
    <3> DEFINE p == o.pendingAttach
               r == Append(p, t)
    <3>1. tm' = [o EXCEPT !.pendingAttach = r]
      BY <1>3, <2>1
    <3>2. p \in Seq(Timers) /\ t \notin ToSet(p) /\ Once(p) /\ t \notin Active(o)
      BY <1>7, <1>8 DEF Managers, Apart
    <3>3. r \in Seq(Timers) /\ ToSet(r) = ToSet(p) \cup {t} /\ Once(r)
      <4>1. /\ r \in Seq(Timers) /\ Len(r) = Len(p) + 1 /\ Len(p) \in Nat
            /\ \A i \in 1..Len(p) : r[i] = p[i]
            /\ r[Len(p) + 1] = t
        BY <3>2, AppendProperties, LenProperties
      <4> HIDE DEF r, p
      <4>2. ToSet(r) = {r[i] : i \in 1..Len(r)} /\ ToSet(p) = {p[i] : i \in 1..Len(p)}
        BY <3>2, <4>1, ListElements
      <4>3. ToSet(r) = ToSet(p) \cup {t}
        BY <4>1, <4>2
      <4>4. Once(r)
        BY <3>2, <4>1, <4>2 DEF Once
      <4> QED BY <4>1, <4>3, <4>4
    <3> HIDE DEF r
    <3>4. tm' \in Managers /\ tm'.counters = o.counters /\ tm'.count = o.count /\ tm'.pendingAttach = r
      BY <1>7, <3>1, <3>3 DEF Managers
    <3>5. Apart(tm') /\ Gaps(tm', Ticks') /\ Active(tm') = Active(o)
      BY <1>7, <3>2, <3>3, <3>4 DEF Apart, Gaps, Active
    <3>6. ASSUME NEW u \in ToSet(r) PROVE tm'.count[u] = left'[u] + Lag
      <4>1. CASE u = t
        BY <1>4, <1>6, <1>7, <3>4, <4>1
      <4>2. CASE u # t
        <5>1. u \in ToSet(tm.pendingAttach) /\ u \in Timers /\ u \notin Active(tm)
          BY <1>1, <1>8, <3>3, <4>2 DEF ListInv, Apart
        <5> QED BY <1>1, <1>6, <1>9, <3>4, <4>2, <5>1 DEF ListInv
      <4> QED BY <4>1, <4>2
    <3> QED BY <2>1, <3>3, <3>4, <3>5, <3>6
  <2>2. CASE pc = "app"
    <3>1. tm' = AddToActiveList(o, t)
      BY <1>3, <2>2
    <3>2. o.pendingAttach = <<>>
      <4>1. ToSet(o.pendingAttach) = {}
        BY <1>1, <1>8, <2>2, EmptyList DEF ListInv
      <4> QED BY <1>7, <4>1, NoElements DEF Managers
    <3>3. Ticks'[t] = o.count[t]
      <4>1. msec = 0
        BY <1>1, <2>2 DEF ClockInv
      <4> QED BY <1>1, <1>4, <1>6, <1>7, <4>1
    <3>4. t \notin Active(o) /\ t \notin ToSet(o.pendingAttach)
      BY <1>8
    <3> HIDE DEF Ticks
    <3>5. /\ tm' \in Managers /\ Apart(tm') /\ Gaps(tm', Ticks')
          /\ Active(tm') = Active(o) \cup {t}
          /\ tm'.pendingAttach = o.pendingAttach
      BY <1>6, <1>7, <3>1, <3>3, <3>4, AddManager
    <3> QED BY <2>2, <3>2, <3>5, EmptyList
  <2> QED BY <1>3, <2>1, <2>2
<1>11. TypeOK'
  <2>1. calls' \in 0..MaxCallback
    <3>1. calls < MaxCallback /\ calls' = calls + 1 /\ calls \in 0..MaxCallback
      BY <1>1, <1>3 DEF TypeOK
    <3> QED BY <3>1, TimerAssumption
  <2> QED BY <1>1, <1>3, <1>6, <1>10, <2>1 DEF TypeOK, Managers
<1>12. ClockInv'
  BY <1>1, <1>3, <1>5 DEF ClockInv
<1>13. ListInv'
  <2>1. armed' = Active(tm') \cup ToSet(tm'.pendingAttach)
    BY <1>1, <1>3, <1>8, <1>10 DEF ListInv
  <2> QED BY <1>1, <1>3, <1>5, <1>10, <2>1 DEF ListInv
<1>14. DueInv'
  <2>1. \A u \in due' : u \in Active(tm') /\ left'[u] + Lag' <= 0
    BY <1>1, <1>3, <1>5, <1>6, <1>8, <1>10 DEF DueInv
  <2> QED BY <1>1, <1>3, <2>1 DEF DueInv
<1> QED BY <1>11, <1>12, <1>13, <1>14 DEF IInv

\* processTimers(), up to the call of tick()
LEMMA ProcessStep ==
  ASSUME IInv, ProcessTimers
  PROVE  IInv'
<1> USE TimerAssumption
<1>1. /\ TypeOK /\ ClockInv /\ ListInv /\ DueInv
      /\ Lag \in Nat /\ \A u \in Timers : Ticks[u] = left[u] + msec + Lag
      /\ tm.counters \in Seq(Timers)
      /\ Active(tm) \subseteq Timers /\ \A u \in Timers : left[u] \in Int
  BY InvParts
<1>2. /\ pc \in {"start", "app"} /\ timeNow' = now /\ msec' = Delta(timeMark, now)
      /\ pc' = "tick" /\ calls' = 0 /\ due' = {t \in armed : left[t] <= 0 /\ msec' > 0}
      /\ tm' = tm /\ now' = now /\ timeMark' = timeMark /\ ringing' = ringing
      /\ armed' = armed /\ left' = left
  BY DEF ProcessTimers
<1>3. now \in 0..Wrap - 1 /\ timeMark \in 0..Wrap - 1 /\ timeNow \in 0..Wrap - 1
  BY <1>1 DEF TypeOK
<1>4. Delta(now, now) = 0 /\ Delta(timeMark, now) \in 0..Wrap - 1 /\ Delta(timeMark, timeNow) \in 0..Wrap - 1
  <2>1. Delta(now, now) = 0
    BY <1>3, DeltaSelf
  <2>2. Delta(timeMark, now) \in 0..Wrap - 1 /\ Delta(timeMark, timeNow) \in 0..Wrap - 1
    BY <1>3, DeltaType
  <2> QED BY <2>1, <2>2
<1>5. Delta(timeMark, now) \in 0..MaxLag
  BY <1>1, <1>4 DEF ClockInv
<1>6. Lag' = 0
  BY <1>2, <1>4 DEF Lag
<1>7. TypeOK'
  BY <1>1, <1>2, <1>3, <1>5 DEF TypeOK
<1>8. ClockInv'
  BY <1>1, <1>2, <1>4, <1>5, <1>6 DEF ClockInv
<1>9. armed = Active(tm) /\ tm.pendingAttach = <<>>
  BY <1>1, <1>2, EmptyList DEF ListInv
<1>10. \A u \in Active(tm) : Ticks'[u] = Ticks[u]
  <2>1. CASE pc = "start"
    BY <1>1, <2>1, EmptyList DEF ListInv, Active
  <2>2. CASE pc = "app"
    <3>1. msec = 0 /\ timeMark = timeNow
      BY <1>1, <2>2 DEF ClockInv
    <3>2. \A u \in Timers : Ticks'[u] = left[u] + Delta(timeMark, now) + 0
      BY <1>2, <1>6 DEF Ticks
    <3> QED BY <1>1, <1>4, <3>1, <3>2 DEF Lag
  <2> QED BY <1>2, <2>1, <2>2
<1>11. Gaps(tm, Ticks')
  <2>1. \A u \in ToSet(tm.counters) : Ticks'[u] = Ticks[u] /\ tm.count[u] = tm.count[u]
    BY <1>10 DEF Active
  <2>2. Differences(tm.counters, tm.count, Ticks)
    BY <1>1 DEF ListInv, Gaps
  <2> HIDE DEF Ticks
  <2>3. Differences(tm.counters, tm.count, Ticks')
    BY <1>1, <2>1, <2>2, GapsSame
  <2> QED BY <2>3 DEF Gaps
<1>12. ListInv'
  BY <1>1, <1>2, <1>9, <1>11, EmptyList DEF ListInv
<1>13. DueInv'
  <2>1. msec' = 0 => due' = {}
    BY <1>2
  <2>2. \A t \in due' : t \in Active(tm) /\ left[t] + 0 <= 0
    BY <1>1, <1>2, <1>9
  <2> QED BY <1>2, <1>6, <2>1, <2>2 DEF DueInv
<1> QED BY <1>7, <1>8, <1>12, <1>13 DEF IInv

\* tick(): the first timer is decremented.
LEMMA TickStep ==
  ASSUME IInv, Tick
  PROVE  IInv'
<1> DEFINE q == tm.counters
           x == tm.count
           n == Min({msec, x[q[1]]})
           y == tm'.count
<1>1. /\ TypeOK /\ ClockInv /\ ListInv /\ DueInv
      /\ Lag \in Nat /\ Ticks \in [Timers -> Int]
      /\ \A u \in Timers : Ticks[u] = left[u] + msec + Lag
      /\ tm \in Managers /\ q \in Seq(Timers) /\ x \in [Timers -> Nat] /\ msec \in Nat
      /\ Active(tm) \subseteq Timers /\ ToSet(tm.pendingAttach) \subseteq Timers
      /\ \A u \in Timers : left[u] \in Int
  BY InvParts
<1>2. /\ pc = "tick" /\ msec > 0 /\ q # <<>> /\ pc' = "expire"
      /\ now' = now /\ timeMark' = timeMark /\ timeNow' = timeNow /\ ringing' = ringing
      /\ calls' = calls /\ armed' = armed /\ left' = left /\ due' = due
  BY DEF Tick
<1>3. Once(q) /\ Head(q) = q[1] /\ Head(q) \in ToSet(q) /\ q[1] \in Timers
  <2>1. Once(q)
    BY <1>1 DEF ListInv, Apart
  <2>2. Head(q) = q[1] /\ Head(q) \in ToSet(q)
    BY <1>1, <1>2, <2>1, GetElements
  <2> QED BY <1>1, <2>1, <2>2, ListElements
<1>4. n \in Nat /\ n <= msec /\ n <= x[q[1]]
  <2>1. {msec, x[q[1]]} \subseteq Nat /\ {msec, x[q[1]]} # {}
    BY <1>1, <1>3
  <2> QED BY <2>1, MinProperties
<1>5. tm' = [tm EXCEPT !.count[q[1]] = @ - n] /\ msec' = msec - n
  BY <1>3 DEF Tick
<1> HIDE DEF n
<1>6. /\ tm' \in Managers /\ tm'.counters = q /\ tm'.pendingAttach = tm.pendingAttach
      /\ y[q[1]] = x[q[1]] - n /\ \A u \in Timers : u # q[1] => y[u] = x[u]
  <2>1. x[q[1]] - n \in Nat
    BY <1>1, <1>3, <1>4
  <2>2. tm'.counters = q /\ tm'.pendingAttach = tm.pendingAttach
        /\ y = [x EXCEPT ![q[1]] = x[q[1]] - n]
    BY <1>1, <1>5 DEF Managers
  <2>3. tm' \in Managers
    BY <1>1, <1>5, <2>1 DEF Managers
  <2> QED BY <1>1, <1>3, <2>2, <2>3
<1>7. Lag' = Lag /\ msec' \in 0..MaxLag /\ msec' <= msec /\ msec' \in Nat
  <2>1. Lag' = Lag
    BY <1>2 DEF Lag
  <2>2. msec' = msec - n /\ msec \in 0..MaxLag
    BY <1>1, <1>5 DEF TypeOK
  <2> QED BY <1>1, <1>4, <2>1, <2>2, TimerAssumption
<1>8. \A u \in Timers : Ticks'[u] = Ticks[u] - n
  <2>1. \A u \in Timers : Ticks'[u] = left[u] + (msec - n) + Lag
    BY <1>2, <1>5, <1>7 DEF Ticks
  <2>2. ASSUME NEW u \in Timers PROVE left[u] + (msec - n) + Lag = (left[u] + msec + Lag) - n
    <3>1. left[u] \in Int /\ msec \in Int /\ n \in Int /\ Lag \in Int
      BY <1>1, <1>4
    <3> QED BY <3>1
  <2> QED BY <1>1, <2>1, <2>2
<1>9. TypeOK'
  BY <1>1, <1>2, <1>6, <1>7 DEF TypeOK, Managers
<1>10. ClockInv'
  <2>1. Delta(timeMark, timeNow) \in 0..Wrap - 1
    BY <1>1, DeltaType DEF TypeOK
  <2>2. msec' <= Delta(timeMark, timeNow)
    BY <1>1, <1>7, <2>1, TimerAssumption DEF ClockInv
  <2> QED BY <1>1, <1>2, <1>7, <2>2 DEF ClockInv
<1>11. Gaps(tm', Ticks')
  <2>1. \A i \in 1..Len(q) : q[i] \in Timers
    BY <1>1, ListElements
  <2>2. \A i \in 1..Len(q) : i # 1 => q[i] # q[1]
    <3>1. 1 \in 1..Len(q)
      BY <1>1, <1>2, ListElements
    <3> QED BY <1>3, <3>1 DEF Once
  <2>3. \A i \in 1..Len(q) : i # 1 => y[q[i]] = x[q[i]]
    BY <1>6, <2>1, <2>2
  <2>4. \A i \in 1..Len(q) : Ticks'[q[i]] = Ticks[q[i]] - n
    BY <1>8, <2>1
  <2>5. Differences(q, x, Ticks)
    BY <1>1 DEF ListInv, Gaps
  <2> HIDE DEF Ticks
  <2>6. Differences(q, y, Ticks')
    BY <1>1, <1>2, <1>3, <1>4, <1>6, <2>3, <2>4, <2>5, GapsTick
  <2> QED BY <1>6, <2>6 DEF Gaps
<1>12. Active(tm') = Active(tm)
  BY <1>6 DEF Active
<1>13. ListInv'
  <2>1. Apart(tm')
    BY <1>1, <1>6, <1>12 DEF ListInv, Apart
  <2>2. \A u \in ToSet(tm.pendingAttach) : u \in Timers /\ u # q[1]
    BY <1>1, <1>3 DEF ListInv, Apart, Active
  <2>3. \A u \in ToSet(tm.pendingAttach) : y[u] = left[u] + Lag
    BY <1>1, <1>6, <2>2 DEF ListInv
  <2> QED BY <1>1, <1>2, <1>6, <1>7, <1>11, <1>12, <2>1, <2>3 DEF ListInv
<1>14. DueInv'
  BY <1>1, <1>2, <1>7, <1>12 DEF DueInv
<1> QED BY <1>9, <1>10, <1>13, <1>14 DEF IInv

\* tick(): a timer that has reached zero is removed and expires.
LEMMA ExpireStep ==
  ASSUME IInv, NEW t \in Timers, Expire(t)
  PROVE  IInv' /\ t \in armed /\ left[t] <= 0
<1> DEFINE q == tm.counters
           x == tm.count
<1>1. /\ TypeOK /\ ClockInv /\ ListInv /\ DueInv
      /\ Lag \in Nat /\ Ticks \in [Timers -> Int]
      /\ \A u \in Timers : Ticks[u] = left[u] + msec + Lag
      /\ tm \in Managers /\ q \in Seq(Timers) /\ x \in [Timers -> Nat] /\ msec \in Nat
      /\ Active(tm) \subseteq Timers /\ ToSet(tm.pendingAttach) \subseteq Timers
      /\ \A u \in Timers : left[u] \in Int
  BY InvParts
<1>2. /\ pc = "expire" /\ q # <<>> /\ t = Head(q) /\ x[t] = 0
      /\ tm' = [tm EXCEPT !.counters = Tail(@)]
      /\ pc' = "callback" /\ ringing' = t /\ calls' = 0
      /\ armed' = armed \ {t} /\ left' = [left EXCEPT ![t] = 0] /\ due' = due \ {t}
      /\ now' = now /\ timeMark' = timeMark /\ timeNow' = timeNow /\ msec' = msec
  BY DEF Expire
<1>3. Once(q)
  BY <1>1 DEF ListInv, Apart
<1>4. /\ t = q[1] /\ t \in ToSet(q) /\ Tail(q) \in Seq(Timers)
      /\ ToSet(Tail(q)) = ToSet(q) \ {t} /\ Once(Tail(q))
  BY <1>1, <1>2, <1>3, GetElements
<1>5. /\ tm' \in Managers /\ tm'.counters = Tail(q) /\ tm'.pendingAttach = tm.pendingAttach
      /\ tm'.count = x
  BY <1>1, <1>2, <1>4 DEF Managers
<1>6. Lag' = Lag
  BY <1>2 DEF Lag
<1>7. \A u \in Timers : u # t => left'[u] = left[u] /\ Ticks'[u] = Ticks[u]
  BY <1>1, <1>2, <1>6 DEF Ticks
<1>8. left[t] <= 0 /\ t \in armed
  <2>1. 1 \in 1..Len(q)
    BY <1>1, <1>2, ListElements
  <2>2. Ticks[q[1]] = x[q[1]]
    <3>1. Ticks[q[1]] = 0 + x[q[1]]
      BY <1>1, <2>1 DEF ListInv, Gaps, Differences, Before
    <3> QED BY <1>1, <1>4, <3>1
  <2>3. left[t] + msec + Lag = 0
    BY <1>1, <1>2, <1>4, <2>2
  <2> QED BY <1>1, <1>4, <2>3 DEF ListInv, Active
<1>9. TypeOK'
  <2>1. left' \in [Timers -> Int]
    BY <1>1, <1>2 DEF TypeOK
  <2>2. calls' \in 0..MaxCallback
    BY <1>2, TimerAssumption
  <2>3. tm' \in [counters : Seq(Timers), pendingAttach : Seq(Timers), count : [Timers -> Nat]]
    BY <1>5 DEF Managers
  <2> QED BY <1>1, <1>2, <2>1, <2>2, <2>3 DEF TypeOK
<1>10. ClockInv'
  BY <1>1, <1>2, <1>6 DEF ClockInv
<1>11. Gaps(tm', Ticks')
  <2>1. Differences(q, x, Ticks) /\ x[q[1]] = 0
    BY <1>1, <1>2, <1>4 DEF ListInv, Gaps
  <2>2. Differences(Tail(q), x, Ticks)
    BY <1>1, <1>2, <1>3, <2>1, GapsTail
  <2>3. \A u \in ToSet(Tail(q)) : Ticks'[u] = Ticks[u] /\ x[u] = x[u]
    BY <1>1, <1>4, <1>7 DEF Active
  <2> HIDE DEF Ticks
  <2>4. Differences(Tail(q), x, Ticks')
    BY <1>4, <2>2, <2>3, GapsSame
  <2> QED BY <1>5, <2>4 DEF Gaps
<1>12. Active(tm') = Active(tm) \ {t} /\ t \in Active(tm)
  BY <1>4, <1>5 DEF Active
<1>13. ListInv'
  <2>1. Apart(tm')
    BY <1>1, <1>4, <1>5, <1>12 DEF ListInv, Apart
  <2>2. \A u \in ToSet(tm.pendingAttach) : u \in Timers /\ u # t
    BY <1>1, <1>12 DEF ListInv, Apart
  <2>3. \A u \in ToSet(tm.pendingAttach) : x[u] = left'[u] + Lag
    BY <1>1, <1>7, <2>2 DEF ListInv
  <2>4. armed' = Active(tm') \cup ToSet(tm.pendingAttach)
    BY <1>1, <1>2, <1>12, <2>2 DEF ListInv
  <2> QED BY <1>2, <1>5, <1>6, <1>11, <2>1, <2>3, <2>4 DEF ListInv
<1>14. DueInv'
  <2>1. \A u \in due' : u \in Active(tm') /\ left'[u] + Lag <= 0
    BY <1>1, <1>2, <1>7, <1>12 DEF DueInv
  <2> QED BY <1>2, <1>6, <2>1 DEF DueInv
<1> QED BY <1>8, <1>9, <1>10, <1>13, <1>14 DEF IInv

\* The end of tick(): every timer that was due has gone off.
LEMMA TickReturnsStep ==
  ASSUME IInv, TickReturns
  PROVE  IInv'
<1> DEFINE q == tm.counters
<1>1. /\ TypeOK /\ ClockInv /\ ListInv /\ DueInv
      /\ Lag \in Nat /\ Ticks \in [Timers -> Int]
      /\ \A u \in Timers : Ticks[u] = left[u] + msec + Lag
      /\ tm \in Managers /\ q \in Seq(Timers) /\ msec \in Nat
      /\ Active(tm) \subseteq Timers
      /\ \A u \in Timers : left[u] \in Int /\ tm.count[u] \in Nat
  BY InvParts
<1>2. /\ pc = "tick" /\ (msec = 0 \/ q = <<>>) /\ timeMark' = timeNow /\ msec' = 0
      /\ pc' = "complete" /\ tm' = tm /\ now' = now /\ timeNow' = timeNow
      /\ ringing' = ringing /\ calls' = calls /\ armed' = armed /\ left' = left /\ due' = due
  BY DEF TickReturns
<1>3. timeMark \in 0..Wrap - 1 /\ timeNow \in 0..Wrap - 1 /\ now \in 0..Wrap - 1
  BY <1>1 DEF TypeOK
<1>4. /\ Delta(timeNow, timeNow) = 0 /\ Delta(timeMark, timeNow) \in 0..Wrap - 1
      /\ Delta(timeMark, now) \in 0..Wrap - 1
  <2>1. Delta(timeNow, timeNow) = 0
    BY <1>3, DeltaSelf
  <2>2. Delta(timeMark, now) \in 0..Wrap - 1 /\ Delta(timeMark, timeNow) \in 0..Wrap - 1
    BY <1>3, DeltaType
  <2> QED BY <2>1, <2>2
<1>5. Lag' = Lag
  BY <1>2 DEF Lag
<1>6. TypeOK'
  BY <1>1, <1>2, <1>3, TimerAssumption, SMTT(30) DEF TypeOK
<1>7. ClockInv'
  <2>1. Delta(timeNow, now) = Lag
    BY DEF Lag
  <2>2. Lag <= MaxLag
    BY <1>1, <1>2, <1>4, TimerAssumption DEF ClockInv
  <2>3. Delta(timeNow, timeNow) + Lag = Delta(timeNow, now)
    BY <1>1, <1>4, <2>1
  <2> QED BY <1>2, <1>4, <1>5, <2>1, <2>2, <2>3 DEF ClockInv
<1>8. \A u \in ToSet(q) : Ticks'[u] = Ticks[u]
  <2>1. CASE q = <<>>
    BY <2>1, EmptyList
  <2>2. CASE msec = 0
    BY <1>1, <1>2, <1>5, <2>2 DEF Ticks, Active
  <2> QED BY <1>2, <2>1, <2>2
<1>9. Gaps(tm, Ticks')
  <2>1. Differences(q, tm.count, Ticks)
    BY <1>1 DEF ListInv, Gaps
  <2>2. \A u \in ToSet(q) : Ticks'[u] = Ticks[u] /\ tm.count[u] = tm.count[u]
    BY <1>8
  <2> HIDE DEF Ticks
  <2>3. Differences(q, tm.count, Ticks')
    BY <1>1, <2>1, <2>2, GapsSame
  <2> QED BY <2>3 DEF Gaps
<1>10. ListInv'
  BY <1>1, <1>2, <1>5, <1>9 DEF ListInv
<1>11. due = {}
  <2> SUFFICES ASSUME NEW t \in due PROVE FALSE
    OBVIOUS
  <2>1. t \in ToSet(q) /\ left[t] + Lag <= 0 /\ t \in Timers
    BY <1>1 DEF DueInv, Active
  <2>2. q # <<>> /\ msec = 0
    BY <1>2, <2>1, EmptyList
  <2>3. Head(q) = q[1]
    BY <1>1, <2>2, GetElements DEF ListInv, Apart
  <2>4. tm.count[q[1]] > 0
    BY <1>1, <1>2, <2>2, <2>3 DEF DueInv
  <2>5. PICK i \in 1..Len(q) : t = q[i]
    BY <1>1, <2>1, ListElements
  <2>6. tm.count[q[1]] <= Ticks[t]
    BY <1>1, <2>5, GapsSum DEF ListInv
  <2>7. Ticks[t] <= 0
    BY <1>1, <2>1, <2>2
  <2>8. q[1] \in Timers
    BY <1>1, <2>2, ListElements
  <2> QED BY <1>1, <2>1, <2>4, <2>6, <2>7, <2>8, SMTT(30)
<1>12. DueInv'
  BY <1>2, <1>11 DEF DueInv
<1> QED BY <1>6, <1>7, <1>10, <1>12 DEF IInv

\* tickComplete(): a timer started by a callback joins the list.
LEMMA AttachStep ==
  ASSUME IInv, AttachPending
  PROVE  IInv'
<1> DEFINE p == tm.pendingAttach
           t == Head(p)
           o == [tm EXCEPT !.pendingAttach = Tail(@)]
<1>1. /\ TypeOK /\ ClockInv /\ ListInv /\ DueInv
      /\ Lag \in Nat /\ Ticks \in [Timers -> Int]
      /\ \A u \in Timers : Ticks[u] = left[u] + msec + Lag
      /\ tm \in Managers /\ p \in Seq(Timers)
      /\ ToSet(p) \subseteq Timers
      /\ \A u \in Timers : left[u] \in Int
  BY InvParts
<1>2. /\ pc = "complete" /\ p # <<>> /\ tm' = AddToActiveList(o, t)
      /\ now' = now /\ timeMark' = timeMark /\ timeNow' = timeNow /\ msec' = msec
      /\ pc' = pc /\ ringing' = ringing /\ calls' = calls
      /\ armed' = armed /\ left' = left /\ due' = due
  BY DEF AttachPending
<1>3. Once(p) /\ Active(tm) \cap ToSet(p) = {} /\ Once(tm.counters)
  BY <1>1 DEF ListInv, Apart
<1>4. /\ t \in ToSet(p) /\ Tail(p) \in Seq(Timers)
      /\ ToSet(Tail(p)) = ToSet(p) \ {t} /\ Once(Tail(p))
  BY <1>1, <1>2, <1>3, GetElements
<1>5. /\ o \in Managers /\ o.counters = tm.counters /\ o.pendingAttach = Tail(p)
      /\ o.count = tm.count
  BY <1>1, <1>4 DEF Managers
<1> HIDE DEF o
<1>6. Active(o) = Active(tm) /\ Apart(o) /\ Gaps(o, Ticks)
  BY <1>1, <1>3, <1>4, <1>5 DEF Active, Apart, Gaps, ListInv
<1>7. t \in Timers /\ t \notin Active(o) /\ t \notin ToSet(o.pendingAttach)
  BY <1>1, <1>3, <1>4, <1>5, <1>6
<1>8. Ticks[t] = o.count[t]
  <2>1. msec = 0
    BY <1>1, <1>2 DEF ClockInv
  <2>2. tm.count[t] = left[t] + Lag
    BY <1>1, <1>4 DEF ListInv
  <2> QED BY <1>1, <1>5, <1>7, <2>1, <2>2
<1> HIDE DEF t
<1>9. /\ tm' \in Managers /\ Apart(tm') /\ Gaps(tm', Ticks)
      /\ Active(tm') = Active(tm) \cup {t}
      /\ tm'.pendingAttach = Tail(p)
      /\ \A u \in Timers : u \notin Active(tm) \cup {t} => tm'.count[u] = tm.count[u]
  <2> DEFINE r == AddToActiveList(o, t)
  <2>1. /\ r \in Managers /\ Apart(r) /\ Gaps(r, Ticks)
        /\ Active(r) = Active(o) \cup {t}
        /\ r.pendingAttach = o.pendingAttach
        /\ \A u \in Timers : u \notin Active(o) \cup {t} => r.count[u] = o.count[u]
    BY <1>1, <1>5, <1>6, <1>7, <1>8, AddManager
  <2>2. tm' = r
    BY <1>2
  <2> HIDE DEF r
  <2> QED BY <1>5, <1>6, <2>1, <2>2
<1>10. Lag' = Lag /\ Ticks' = Ticks
  BY <1>2 DEF Lag, Ticks
<1>11. TypeOK'
  BY <1>1, <1>2, <1>9 DEF TypeOK, Managers
<1>12. ClockInv'
  BY <1>1, <1>2, <1>10 DEF ClockInv
<1>13. ListInv'
  <2>1. \A u \in ToSet(Tail(p)) : u \in ToSet(p) /\ u \in Timers /\ u \notin Active(tm) \cup {t}
    BY <1>1, <1>3, <1>4
  <2>2. \A u \in ToSet(Tail(p)) : tm'.count[u] = left[u] + Lag
    BY <1>1, <1>9, <2>1 DEF ListInv
  <2>3. armed = Active(tm') \cup ToSet(Tail(p))
    BY <1>1, <1>4, <1>9 DEF ListInv
  <2> QED BY <1>2, <1>9, <1>10, <2>2, <2>3 DEF ListInv
<1>14. DueInv'
  BY <1>1, <1>2 DEF DueInv
<1> QED BY <1>11, <1>12, <1>13, <1>14 DEF IInv

\* The steps that only move the thread on.
LEMMA PhaseStep ==
  ASSUME IInv, CallbackReturns \/ NoneExpired \/ TickComplete
  PROVE  IInv'
<1>1. /\ TypeOK /\ ClockInv /\ ListInv /\ DueInv
      /\ tm.counters \in Seq(Timers) /\ \A u \in Timers : tm.count[u] \in Nat
  BY InvParts
<1>2. /\ tm' = tm /\ now' = now /\ timeMark' = timeMark /\ timeNow' = timeNow /\ msec' = msec
      /\ armed' = armed /\ left' = left /\ due' = due
  BY DEF CallbackReturns, NoneExpired, TickComplete
<1>3. Lag' = Lag /\ Ticks' = Ticks
  BY <1>2 DEF Lag, Ticks
<1>4. /\ CallbackReturns => pc = "callback" /\ pc' = "expire"
      /\ NoneExpired => pc = "expire" /\ pc' = "tick"
      /\ TickComplete => pc = "complete" /\ pc' = "app" /\ tm.pendingAttach = <<>>
  BY DEF CallbackReturns, NoneExpired, TickComplete
<1>5. TypeOK'
  BY <1>1, <1>2, TimerAssumption, SMTT(30) DEF TypeOK, CallbackReturns, NoneExpired, TickComplete
<1>6. ClockInv'
  BY <1>1, <1>2, <1>3, <1>4 DEF ClockInv
<1>7. ListInv'
  BY <1>1, <1>2, <1>3, <1>4 DEF ListInv
<1>8. NoneExpired /\ tm.counters # <<>> => tm.count[Head(tm.counters)] > 0
  <2>1. NoneExpired /\ tm.counters # <<>> => tm.count[Head(tm.counters)] # 0
    BY DEF NoneExpired
  <2>2. tm.counters # <<>> => Head(tm.counters) \in Timers
    BY <1>1, HeadTailProperties
  <2> QED BY <1>1, <2>1, <2>2
<1>9. DueInv'
  BY <1>1, <1>2, <1>3, <1>4, <1>8 DEF DueInv
<1> QED BY <1>5, <1>6, <1>7, <1>9 DEF IInv

\* IInv is inductive.
LEMMA InvStep ==
  ASSUME IInv, [Next]_vars
  PROVE  IInv'
<1>1. CASE UNCHANGED vars
  <2>1. Lag' = Lag /\ Ticks' = Ticks
    BY <1>1 DEF vars, Lag, Ticks
  <2> QED BY <1>1, <2>1 DEF vars, IInv, TypeOK, ClockInv, ListInv, DueInv
<1>2. CASE \E t \in Timers, d \in Durations : Start(t, d)
  BY <1>2, StartStep
<1>3. CASE \E t \in Timers : Stop(t)
  BY <1>3, StopStep
<1>4. CASE \E t \in Timers : Expire(t)
  BY <1>4, ExpireStep
<1>5. CASE ProcessTimers
  BY <1>5, ProcessStep
<1>6. CASE Tick
  BY <1>6, TickStep
<1>7. CASE TickReturns
  BY <1>7, TickReturnsStep
<1>8. CASE AttachPending
  BY <1>8, AttachStep
<1>9. CASE CallbackReturns \/ NoneExpired \/ TickComplete
  BY <1>9, PhaseStep
<1>10. CASE TimePasses
  BY <1>10, TimeStep
<1> QED BY <1>1, <1>2, <1>3, <1>4, <1>5, <1>6, <1>7, <1>8, <1>9, <1>10 DEF Next, ManagerStep

\* The counts of the list add up to the timers' deadlines, whatever handlers
\* and callbacks start and stop (addToActiveList(), detach(), tick()).
THEOREM CountsAddUpAlways ==
  ASSUME ~StartEarly
  PROVE  Spec => []CountsAddUp
<1>1. Init => IInv
  BY InvInit
<1>2. IInv /\ [Next]_vars => IInv'
  BY InvStep
<1>3. IInv => CountsAddUp
  BY InvCounts
<1> QED BY <1>1, <1>2, <1>3, PTL DEF Spec

\* A call of processTimers() leaves no timer behind that was due when it
\* began, unless a callback stopped or restarted it.
THEOREM NoneMissedAlways ==
  ASSUME ~StartEarly
  PROVE  Spec => []NoneMissed
<1>1. Init => IInv
  BY InvInit
<1>2. IInv /\ [Next]_vars => IInv'
  BY InvStep
<1>3. IInv => NoneMissed
  BY DEF IInv, DueInv, NoneMissed
<1> QED BY <1>1, <1>2, <1>3, PTL DEF Spec

-----------------------------------------------------------------------------
(* The manager implements Alarms *)

\* The time left of the running timers, as Alarms has it.
Remaining == [t \in Timers |-> IF t \in armed THEN left[t] ELSE Off]

\* No alarm is set at first.
LEMMA AlarmInit ==
  ASSUME Init
  PROVE  Alarm!Init
<1>1. Remaining = [t \in Timers |-> Off]
  BY DEF Init, Remaining
<1> QED BY <1>1 DEF Init, Alarm!Init, Remaining

\* Each step of the timers is one of the alarms, or none.
LEMMA AlarmStep ==
  ASSUME IInv, [Next]_vars
  PROVE  [Alarm!Next]_(Alarm!vars)
<1>1. /\ armed \subseteq Timers /\ left \in [Timers -> Int]
      /\ \A u \in Timers : left[u] # Off
  BY TimerAssumption DEF IInv, TypeOK
<1>2. armed = {t \in Timers : Remaining[t] # Off}
  BY <1>1 DEF Remaining
<1>3. ASSUME NEW t \in Timers, NEW d \in Durations, Start(t, d)
      PROVE  Alarm!Start(t, d)
  <2>1. armed' = armed \cup {t} /\ left' = [left EXCEPT ![t] = d] /\ ringing' = ringing
    BY <1>3 DEF Start, AppCall
  <2>2. Remaining' = [Remaining EXCEPT ![t] = d]
    BY <1>1, <2>1 DEF Remaining
  <2> QED BY <2>1, <2>2 DEF Alarm!Start, Remaining
<1>4. ASSUME NEW t \in Timers, Stop(t)
      PROVE  Alarm!Stop(t)
  <2>1. armed' = armed \ {t} /\ left' = [left EXCEPT ![t] = 0] /\ ringing' = ringing
    BY <1>4 DEF Stop, AppCall
  <2>2. Remaining' = [Remaining EXCEPT ![t] = Off]
    BY <1>1, <2>1 DEF Remaining
  <2> QED BY <2>1, <2>2 DEF Alarm!Stop, Remaining
<1>5. ASSUME NEW t \in Timers, Expire(t)
      PROVE  Alarm!GoOff(t)
  <2>1. t \in armed /\ left[t] <= 0
    BY <1>5, ExpireStep
  <2>2. armed' = armed \ {t} /\ left' = [left EXCEPT ![t] = 0] /\ ringing' = t
    BY <1>5 DEF Expire
  <2>3. Remaining' = [Remaining EXCEPT ![t] = Off]
    BY <1>1, <2>2 DEF Remaining
  <2>4. Remaining[t] <= 0 /\ t \in {u \in Timers : Remaining[u] # Off}
    BY <1>2, <2>1 DEF Remaining
  <2> QED BY <2>2, <2>3, <2>4 DEF Alarm!GoOff, Alarm!Running, Remaining
<1>6. ASSUME CallbackReturns
      PROVE  Alarm!CallbackReturns
  <2>1. ringing \in Timers /\ ringing # Off
    BY <1>6, TimerAssumption DEF IInv, ListInv, CallbackReturns
  <2>2. ringing' = Off /\ Remaining' = Remaining
    BY <1>6 DEF CallbackReturns, Remaining
  <2> QED BY <2>1, <2>2 DEF Alarm!CallbackReturns, Remaining
<1>7. ASSUME TimePasses
      PROVE  Alarm!TimePasses
  <2>1. \A t \in armed : left'[t] = left[t] - 1
    BY <1>7, TimeStep
  <2>2. armed' = armed /\ ringing' = ringing
    BY <1>7 DEF TimePasses
  <2>3. Remaining' = [t \in Timers |-> IF t \in armed THEN Remaining[t] - 1 ELSE Off]
    BY <1>1, <2>1, <2>2 DEF Remaining
  <2>4. Remaining' = [t \in Timers |-> IF t \in {u \in Timers : Remaining[u] # Off}
                                       THEN Remaining[t] - 1 ELSE Off]
    BY <1>2, <2>3
  <2> QED BY <2>2, <2>4 DEF Alarm!TimePasses, Alarm!Running, Remaining
<1>8. ASSUME ProcessTimers \/ Tick \/ NoneExpired \/ TickReturns \/ AttachPending
             \/ TickComplete \/ UNCHANGED vars
      PROVE  UNCHANGED Alarm!vars
  <2>1. Remaining' = Remaining /\ ringing' = ringing
    BY <1>8 DEF ProcessTimers, Tick, NoneExpired, TickReturns, AttachPending, TickComplete,
                vars, Remaining
  <2> QED BY <2>1 DEF Alarm!vars, Remaining
<1> QED BY <1>3, <1>4, <1>5, <1>6, <1>7, <1>8 DEF Next, ManagerStep, Alarm!Next

\* The timers are alarms: a started timer goes off at most once, never before
\* its time has passed and not at all after it was stopped
\* (Cpl::System::Timer, TimerManager).
THEOREM ImplementsAlarms ==
  ASSUME ~StartEarly
  PROVE  Spec => AlarmSpec
<1>1. Init => IInv
  BY InvInit
<1>2. IInv /\ [Next]_vars => IInv'
  BY InvStep
<1>3. Init => Alarm!Init
  BY AlarmInit
<1>4. IInv /\ [Next]_vars => [Alarm!Next]_(Alarm!vars)
  BY AlarmStep
<1> QED BY <1>1, <1>2, <1>3, <1>4, PTL DEF Spec, AlarmSpec, Alarm!Spec
=============================================================================
