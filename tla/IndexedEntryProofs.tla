------------------------- MODULE IndexedEntryProofs -------------------------
(***************************************************************************)
(* Proofs about IndexedEntry, for a ring of any size, any number of entries *)
(* and any number of failed writes and power failures.                     *)
(***************************************************************************)
EXTENDS IndexedEntry, SequenceTheorems, WellFoundedInduction, TLAPS

-----------------------------------------------------------------------------
(* Natural numbers, and index values modulo the size of the ring *)

\* A set of natural numbers has a least one.
LEMMA LeastNatural ==
  ASSUME NEW T, T \subseteq Nat, T # {}
  PROVE  \E x \in T : \A y \in T : x <= y
<1> DEFINE R == OpToRel(<, Nat)
<1>1. IsWellFoundedOn(R, Nat)
  BY NatLessThanWellFounded
<1>2. R = {ss \in Nat \X Nat : ss[1] < ss[2]}
  BY DEF OpToRel
<1> HIDE DEF R
<1>3. PICK x \in T : \A y \in T : ~(<<y, x>> \in R)
  BY <1>1, WFMin
<1>4. ASSUME NEW y \in T PROVE x <= y
  <2>1. x \in Nat /\ y \in Nat
    OBVIOUS
  <2>2. ~(<<y, x>> \in {ss \in Nat \X Nat : ss[1] < ss[2]})
    BY <1>2, <1>3
  <2>3. ~(y < x)
    BY <2>1, <2>2
  <2> QED BY <2>1, <2>3
<1> QED BY <1>4

\* What div and mod are.
LEMMA DivMod ==
  ASSUME NEW n \in Nat \ {0}, NEW a \in Nat
  PROVE  a % n \in 0..n - 1 /\ a \div n \in Nat /\ a = n * (a \div n) + (a % n)
OBVIOUS

\* The remainder is unique.
LEMMA ModUnique ==
  ASSUME NEW n \in Nat \ {0}, NEW q \in Nat, NEW r \in 0..n - 1
  PROVE  (n * q + r) % n = r
OBVIOUS

\* Two index values for one slot are a whole ring apart.
LEMMA ModApart ==
  ASSUME NEW n \in Nat \ {0}, NEW a \in Nat, NEW b \in Nat, a % n = b % n, a < b
  PROVE  a + n <= b
<1> DEFINE q == a \div n
           p == b \div n
           r == a % n
<1>1. /\ q \in Nat /\ p \in Nat /\ r \in 0..n - 1
      /\ a = n * q + r /\ b = n * p + r
  BY DivMod
<1> HIDE DEF q, p, r
<1>2. q < p
  BY <1>1
<1>3. PICK k \in Nat : p = q + 1 + k
  BY <1>1, <1>2
<1>4. b = n * q + n + n * k + r /\ n * k >= 0
  BY <1>1, <1>3
<1> QED BY <1>1, <1>4

\* The next index value is for the next slot.
LEMMA ModNext ==
  ASSUME NEW a \in Nat
  PROVE  (a + 1) % N = IncrementOffset(a % N) /\ a % N \in Slots
<1> USE EntryAssumption
<1> DEFINE q == a \div N
           r == a % N
<1>1. q \in Nat /\ r \in 0..N - 1 /\ a = N * q + r
  BY DivMod
<1> HIDE DEF q, r
<1>2. CASE r + 1 > N - 1
  <2>1. a + 1 = N * (q + 1) + 0 /\ q + 1 \in Nat /\ 0 \in 0..N - 1
    BY <1>1, <1>2
  <2>2. (N * (q + 1) + 0) % N = 0
    BY <2>1, ModUnique
  <2>3. (a + 1) % N = 0
    BY <2>1, <2>2, Zenon
  <2> QED BY <1>1, <1>2, <2>3 DEF r, IncrementOffset, Slots
<1>3. CASE ~(r + 1 > N - 1)
  <2>1. a + 1 = N * q + (r + 1) /\ r + 1 \in 0..N - 1
    BY <1>1, <1>3
  <2>2. (N * q + (r + 1)) % N = r + 1
    BY <1>1, <2>1, ModUnique
  <2>3. (a + 1) % N = r + 1
    BY <2>1, <2>2, Zenon
  <2> QED BY <1>1, <1>3, <2>3 DEF r, IncrementOffset, Slots
<1> QED BY <1>2, <1>3

\* An index value below N is its own slot.
LEMMA ModSmall ==
  ASSUME NEW a \in Slots
  PROVE  a % N = a
BY EntryAssumption DEF Slots

-----------------------------------------------------------------------------
(* The history of attempts is a sequence of fewer than N *)

Recents == UNION {[1..n -> 0..MaxIndex] : n \in Slots}

\* The two ways to say so.
LEMMA RecentSeq ==
  ASSUME NEW r
  PROVE  r \in Recents <=> r \in Seq(0..MaxIndex) /\ Len(r) <= N - 1
<1> USE EntryAssumption
<1>1. ASSUME r \in Recents PROVE r \in Seq(0..MaxIndex) /\ Len(r) <= N - 1
  <2>1. PICK n \in Slots : r \in [1..n -> 0..MaxIndex]
    BY <1>1 DEF Recents
  <2>2. n \in Nat /\ n <= N - 1
    BY DEF Slots
  <2>3. r \in Seq(0..MaxIndex) /\ Len(r) = n
    BY <2>1, <2>2
  <2> QED BY <2>2, <2>3
<1>2. ASSUME r \in Seq(0..MaxIndex), Len(r) <= N - 1 PROVE r \in Recents
  <2>1. Len(r) \in Slots /\ r \in [1..Len(r) -> 0..MaxIndex]
    BY <1>2, LenProperties DEF Slots
  <2> QED BY <2>1 DEF Recents
<1> QED BY <1>1, <1>2

\* What an attempt does to the history: it is put at the end, and the others
\* move towards the front when there are N - 1.
LEMMA AttemptShifts ==
  ASSUME recent \in Recents, Attempt
  PROVE  /\ recent' \in Recents
         /\ N > 1 => Len(recent') > 0
         /\ \A i \in 1..Len(recent') : recent'[i] # 0 =>
              \E j \in 1..Len(recent) : /\ recent'[i] = recent[j]
                                        /\ Len(recent) - j + 1 = Len(recent') - i
<1> USE EntryAssumption
<1>1. recent \in Seq(0..MaxIndex) /\ Len(recent) \in Nat /\ Len(recent) <= N - 1
  BY RecentSeq, LenProperties
<1>2. CASE N = 1
  BY <1>1, <1>2, RecentSeq DEF Attempt
<1>3. CASE N > 1 /\ Len(recent) = N - 1
  <2> DEFINE t == Tail(recent)
  <2>1. /\ t \in Seq(0..MaxIndex) /\ Len(t) = Len(recent) - 1
        /\ \A i \in 1..Len(t) : t[i] = recent[i + 1]
    BY <1>1, <1>3, HeadTailProperties, EmptySeq
  <2>2. recent' = Append(t, 0)
    BY <1>3 DEF Attempt
  <2> HIDE DEF t
  <2>3. /\ recent' \in Seq(0..MaxIndex) /\ Len(recent') = Len(t) + 1
        /\ \A i \in 1..Len(t) : recent'[i] = t[i]
        /\ recent'[Len(t) + 1] = 0
    BY <2>1, <2>2, AppendProperties
  <2>4. recent' \in Recents
    BY <1>1, <2>1, <2>3, RecentSeq
  <2>5. ASSUME NEW i \in 1..Len(recent'), recent'[i] # 0
        PROVE  \E j \in 1..Len(recent) : /\ recent'[i] = recent[j]
                                         /\ Len(recent) - j + 1 = Len(recent') - i
    <3>1. i \in 1..Len(t) /\ i + 1 \in 1..Len(recent)
      BY <1>1, <2>1, <2>3, <2>5
    <3>2. recent'[i] = recent[i + 1] /\ Len(recent) - (i + 1) + 1 = Len(recent') - i
      BY <1>1, <2>1, <2>3, <3>1
    <3> QED BY <3>1, <3>2
  <2> QED BY <1>1, <1>3, <2>1, <2>3, <2>4, <2>5
<1>4. CASE N > 1 /\ Len(recent) # N - 1
  <2>1. recent' = Append(recent, 0)
    BY <1>4 DEF Attempt
  <2>2. /\ recent' \in Seq(0..MaxIndex) /\ Len(recent') = Len(recent) + 1
        /\ \A i \in 1..Len(recent) : recent'[i] = recent[i]
        /\ recent'[Len(recent) + 1] = 0
    BY <1>1, <2>1, AppendProperties
  <2>3. recent' \in Recents
    BY <1>1, <1>4, <2>2, RecentSeq
  <2>4. ASSUME NEW i \in 1..Len(recent'), recent'[i] # 0
        PROVE  \E j \in 1..Len(recent) : /\ recent'[i] = recent[j]
                                         /\ Len(recent) - j + 1 = Len(recent') - i
    <3>1. i \in 1..Len(recent)
      BY <1>1, <2>2, <2>4
    <3>2. recent'[i] = recent[i] /\ Len(recent) - i + 1 = Len(recent') - i
      BY <1>1, <2>2, <3>1
    <3> QED BY <3>1, <3>2
  <2> QED BY <1>1, <2>2, <2>3, <2>4
<1> QED BY <1>2, <1>3, <1>4

-----------------------------------------------------------------------------
(* The inductive invariant *)

\* The index record is never behind the entries, so that one that start() can
\* verify is the newest; an entry that is being written is newer than all
\* others, and its slot is invalid meanwhile.
IndexAhead ==
    /\ \A s \in Valid : slots[s] <= index.ts
    /\ pc \in {"entry", "crc"} => /\ index = latest /\ latest.ts > 0
                                  /\ \A s \in Valid : slots[s] < latest.ts
    /\ pc = "crc" => slots[latest.off] = 0
    /\ pc = "clear" => \A s \in Slots : s < pos => slots[s] = 0

\* Index values run ahead of an acknowledged entry by no more than the
\* attempts made since: this is why N - 1 attempts do not reach its slot.
Lag(i) == Len(recent) - i
RecentInv ==
    /\ Kept
    /\ \A i \in 1..Len(recent) : recent[i] # 0 =>
         /\ \A s \in Valid : slots[s] - recent[i] <= Lag(i)
         /\ pc \in {"ready", "crc"} => latest.ts - recent[i] <= Lag(i)
         /\ pc = "entry" => latest.ts - recent[i] <= Lag(i) + 1
    /\ pc = "crc" /\ N > 1 => Len(recent) > 0

RingInv == InStep /\ IndexAhead /\ RecentInv

\* The head of the ring is an entry, until one fails to be written.
HeadInv ==
    /\ faults = 0 => ~failed
    /\ pc = "ready" /\ ~failed => slots[latest.off] = latest.ts
    /\ pc = "entry" /\ ~failed => slots[DecrementOffset(latest.off)] = latest.ts - 1

\* As long as nothing fails, an acknowledged entry is overwritten only when
\* the ring is full, and then there is always an entry to show for it.
FullInv ==
    pc # "clear" /\ faults = 0 /\ N > 1 =>
        \A a \in acked : slots[a % N] = a \/ \E s \in Valid : slots[s] >= N

\* The newest entry in the media is at least as new as all acknowledged ones,
\* and the head is ahead of it by no more than the writes that failed.
NewestInv ==
    /\ pc # "clear" => \A a \in acked : \E s \in Valid : a <= slots[s]
    /\ pc \in {"ready", "entry", "crc"} =>
         LET begun == IF pc = "ready" THEN 0 ELSE 1
         IN  \/ latest.ts <= faults + begun
             \/ \E s \in Valid : latest.ts <= slots[s] + faults + begun

-----------------------------------------------------------------------------
(* scanAllEntries() *)

\* A ring that holds an entry holds a newest one.
LEMMA NewestExists ==
  ASSUME NEW ring \in [Slots -> 0..MaxIndex], NEW found, found \subseteq Slots, found # {}
  PROVE  \E s \in found : \A u \in found : ring[u] <= ring[s]
<1> USE EntryAssumption
<1> DEFINE T == {MaxIndex - ring[s] : s \in found}
<1>1. T \subseteq Nat /\ T # {}
  OBVIOUS
<1>2. PICK x \in T : \A y \in T : x <= y
  BY <1>1, LeastNatural
<1>3. PICK s \in found : x = MaxIndex - ring[s]
  OBVIOUS
<1>4. \A u \in found : MaxIndex - ring[s] <= MaxIndex - ring[u]
  BY <1>2, <1>3
<1>5. \A u \in found : ring[u] <= ring[s]
  BY <1>4
<1> QED BY <1>5

\* What scanAllEntries() finds: nothing, or the newest entry at its slot.
Scanned(r) ==
    /\ r \in Places
    /\ slots[r.off] = r.ts
    /\ r.ts % N = r.off
    /\ \A s \in Valid : slots[s] <= r.ts

\* It does so in every ring whose entries are in step.
LEMMA ScanFinds ==
  ASSUME InStep
  PROVE  Scanned(ScanAllEntries(slots))
<1> USE EntryAssumption
<1> DEFINE newest == CHOOSE s \in Valid : \A u \in Valid : slots[u] <= slots[s]
<1>1. slots \in [Slots -> 0..MaxIndex] /\ Valid \subseteq Slots
  BY DEF InStep, TypeOK, Valid
<1>2. CASE Valid = {}
  <2>1. ScanAllEntries(slots) = Empty
    BY <1>2 DEF ScanAllEntries, Valid
  <2>2. slots[0] = 0 /\ 0 % N = 0 /\ 0 \in Slots
    BY <1>1, <1>2, ModSmall DEF Valid, Slots
  <2> QED BY <1>2, <2>1, <2>2 DEF Scanned, Empty, Places
<1>3. CASE Valid # {}
  <2>1. newest \in Valid /\ \A u \in Valid : slots[u] <= slots[newest]
    BY <1>1, <1>3, NewestExists
  <2>2. ScanAllEntries(slots) = [off |-> newest, ts |-> slots[newest]]
    BY <1>3 DEF ScanAllEntries, Valid
  <2> HIDE DEF newest
  <2> QED BY <1>1, <2>1, <2>2 DEF Scanned, Places, InStep
<1> QED BY <1>2, <1>3

-----------------------------------------------------------------------------
(* Every step keeps the ring in step *)

\* A blank region is in step.
LEMMA RingInit == Init => RingInv
<1> SUFFICES ASSUME Init PROVE RingInv
  OBVIOUS
<1> USE EntryAssumption
<1>1. <<>> \in Recents /\ Len(<<>>) = 0
  <2>1. <<>> \in Seq(0..MaxIndex) /\ Len(<<>>) = 0
    OBVIOUS
  <2>2. Len(<<>>) <= N - 1
    BY <2>1
  <2> QED BY <2>1, <2>2, RecentSeq
<1>2. 0 \in Slots /\ 0 % N = 0 /\ Valid = {}
  BY ModSmall DEF Init, Slots, Valid
<1>3. TypeOK
  BY <1>1, <1>2 DEF Init, TypeOK, Recents, Places, Empty
<1>4. InStep
  BY <1>2, <1>3 DEF Init, InStep, Empty
<1> QED BY <1>1, <1>2, <1>4 DEF Init, RingInv, IndexAhead, RecentInv, Kept

\* Slots that are invalidated leave the others in step.
LEMMA RingShrinks ==
  ASSUME TypeOK, TypeOK', \A s \in Slots : slots'[s] \in {slots[s], 0}
  PROVE  \A s \in Valid' : s \in Valid /\ slots'[s] = slots[s]
BY DEF Valid, TypeOK

\* start() finds the newest entry, by the index record or without it.
LEMMA StartFinds ==
  ASSUME RingInv, Start
  PROVE  /\ Scanned(latest')
         /\ index' \in Places /\ faults' \in 0..MaxFaults
         /\ \A s \in Valid : slots[s] <= index'.ts
<1> USE EntryAssumption
<1>1. Scanned(ScanAllEntries(slots)) /\ TypeOK
  BY ScanFinds DEF RingInv, InStep
<1>2. PICK loaded \in {index, Empty} :
        \/ /\ VerifyIndex(loaded)
           /\ latest' = loaded
           /\ UNCHANGED <<index, faults>>
        \/ /\ ~VerifyIndex(loaded)
           /\ latest' = ScanAllEntries(slots)
           /\ WriteIndex(ScanAllEntries(slots))
  BY DEF Start
<1>3. CASE VerifyIndex(loaded)
  <2>1. loaded = index
    BY <1>3 DEF VerifyIndex, Empty
  <2>2. latest' = index /\ UNCHANGED <<index, faults>>
    BY <1>2, <1>3, <2>1
  <2>3. index.off \in Valid /\ index \in Places /\ slots[index.off] = index.ts
    BY <1>1, <1>3, <2>1 DEF VerifyIndex, Valid, TypeOK, Places
  <2> QED BY <1>1, <2>2, <2>3 DEF Scanned, RingInv, InStep, IndexAhead, TypeOK
<1>4. CASE ~VerifyIndex(loaded)
  <2>1. latest' = ScanAllEntries(slots) /\ WriteIndex(ScanAllEntries(slots))
    BY <1>2, <1>4
  <2>2. index' \in {index, ScanAllEntries(slots)} /\ faults' \in 0..MaxFaults
    BY <1>1, <2>1 DEF WriteIndex, Fault, TypeOK
  <2> QED BY <1>1, <2>1, <2>2 DEF Scanned, RingInv, IndexAhead, TypeOK
<1> QED BY <1>3, <1>4

\* The invariant survives a step that only takes entries away and gives the
\* ring a head that scanAllEntries() could have found: start() and the ends of
\* clearAllEntries().
LEMMA RingRestarts ==
  ASSUME RingInv, TypeOK', UNCHANGED <<slots, recent>>,
         pc' = "ready", Scanned(latest'),
         \A s \in Valid : slots[s] <= index'.ts
  PROVE  RingInv'
<1> USE EntryAssumption
<1>1. Valid' = Valid
  BY DEF Valid
<1>2. InStep' /\ IndexAhead'
  BY <1>1 DEF RingInv, InStep, IndexAhead, Scanned
<1>3. Kept'
  BY <1>1 DEF RingInv, RecentInv, Kept
<1>4. ASSUME NEW i \in 1..Len(recent), recent[i] # 0
      PROVE  /\ \A s \in Valid : slots[s] - recent[i] <= Lag(i)
             /\ latest'.ts - recent[i] <= Lag(i)
  <2>1. \A s \in Valid : slots[s] - recent[i] <= Lag(i)
    BY <1>4 DEF RingInv, RecentInv
  <2>2. PICK s \in Valid : recent[i] = slots[s]
    BY <1>4 DEF RingInv, RecentInv, Kept
  <2>3. latest'.off \in Valid /\ latest'.ts = slots[latest'.off]
    <3>1. slots[s] \in Nat /\ slots[s] # 0 /\ slots[s] <= latest'.ts
      BY <2>2, <1>4 DEF Scanned, RingInv, InStep, TypeOK, Valid
    <3> QED BY <3>1 DEF Scanned, Places, Valid
  <2> QED BY <2>1, <2>3
<1>5. RecentInv'
  BY <1>1, <1>3, <1>4 DEF RecentInv, Lag
<1> QED BY <1>2, <1>5 DEF RingInv

\* The invariant survives a step that leaves the entries and the attempts alone.
LEMMA RingStays ==
  ASSUME RingInv, TypeOK', UNCHANGED <<slots, latest, recent>>,
         pc' = pc \/ (pc = "ready" /\ pc' = "clear"),
         \A s \in Valid : slots[s] <= index'.ts,
         pc \in {"entry", "crc"} => index' = index,
         pc = "clear" => pos' = pos, pc # pc' => pos' = 0
  PROVE  RingInv'
<1>1. Valid' = Valid
  BY DEF Valid
<1>2. InStep'
  BY <1>1 DEF RingInv, InStep
<1>3. IndexAhead'
  BY <1>1 DEF RingInv, IndexAhead, Slots
<1>4. RecentInv'
  BY <1>1 DEF RingInv, RecentInv, Kept, Lag
<1> QED BY <1>2, <1>3, <1>4 DEF RingInv

\* addEntry(), the index record: the head moves on, ahead of all entries.
LEMMA AddIndexRing ==
  ASSUME RingInv, AddIndex
  PROVE  RingInv'
<1> USE EntryAssumption
<1> DEFINE t == latest.ts + 1
           o == IncrementOffset(latest.off)
<1>1. /\ TypeOK /\ pc = "ready" /\ pc' = "entry"
      /\ latest.ts \in Nat /\ t \in 0..MaxIndex
      /\ latest' = [off |-> o, ts |-> t] /\ index' = latest'
      /\ UNCHANGED <<slots, pos, faults, failed, recent, acked>>
  BY DEF RingInv, InStep, TypeOK, Places, AddIndex, history
<1>2. t % N = o /\ o \in Slots
  <2>1. latest.ts % N = latest.off
    BY DEF RingInv, InStep
  <2>2. (latest.ts + 1) % N = IncrementOffset(latest.ts % N) /\ latest.ts % N \in Slots
    BY <1>1, ModNext
  <2> QED BY <2>1, <2>2 DEF IncrementOffset, Slots
<1>3. Valid' = Valid
  BY <1>1 DEF Valid
<1>4. latest'.ts = t /\ latest'.off = o /\ latest' \in Places
  BY <1>1, <1>2 DEF Places
<1>5. t > 0 /\ \A s \in Valid : slots[s] \in Nat /\ slots[s] < t
  BY <1>1 DEF RingInv, InStep, TypeOK, Valid
<1> HIDE DEF t, o
<1>6. TypeOK'
  BY <1>1, <1>4 DEF TypeOK
<1>7. InStep'
  BY <1>1, <1>2, <1>3, <1>4, <1>5, <1>6 DEF RingInv, InStep, TypeOK
<1>8. IndexAhead'
  BY <1>1, <1>3, <1>4, <1>5 DEF IndexAhead, TypeOK
<1>9. RecentInv'
  <2>1. ASSUME NEW i \in 1..Len(recent), recent[i] # 0
        PROVE  t - recent[i] <= Lag(i) + 1
    <3>1. latest.ts - recent[i] <= Lag(i)
      BY <1>1, <2>1 DEF RingInv, RecentInv
    <3>2. recent \in Seq(0..MaxIndex) /\ Len(recent) \in Nat
      BY <1>1, RecentSeq, LenProperties DEF TypeOK, Recents
    <3>3. recent[i] \in Nat /\ Lag(i) \in Int
      BY <3>2 DEF Lag
    <3> QED BY <1>1, <3>1, <3>3 DEF t
  <2> QED BY <1>1, <1>3, <1>4, <2>1 DEF RingInv, RecentInv, Kept, Lag
<1> QED BY <1>7, <1>8, <1>9 DEF RingInv

\* An attempt makes room for one more index value.
LEMMA AttemptLag ==
  ASSUME TypeOK, Attempt, NEW i \in 1..Len(recent'), recent'[i] # 0
  PROVE  \E j \in 1..Len(recent) :
           recent[j] # 0 /\ recent'[i] = recent[j] /\ Lag(j) + 1 = Lag(i)'
BY AttemptShifts DEF TypeOK, Recents, Lag

\* addEntry(), the slot becomes invalid: the entry that was there is older
\* than all that are to be kept.
LEMMA AddEntryBeginRing ==
  ASSUME RingInv, AddEntryBegin
  PROVE  RingInv'
<1> USE EntryAssumption
<1> DEFINE o == latest.off
<1>1. /\ TypeOK /\ pc = "entry" /\ pc' = "crc" /\ Attempt /\ o \in Slots
      /\ slots' = [slots EXCEPT ![o] = 0]
      /\ UNCHANGED <<index, latest, pos, faults, failed, acked>>
  BY DEF RingInv, InStep, TypeOK, Places, AddEntryBegin
<1>2. recent' \in Recents /\ (N > 1 => Len(recent') > 0)
  BY <1>1, AttemptShifts DEF TypeOK, Recents
<1>3. TypeOK'
  BY <1>1, <1>2 DEF TypeOK, Recents
<1> HIDE DEF o
<1>4. \A s \in Valid' : s \in Valid /\ slots'[s] = slots[s] /\ s # o
  BY <1>1, <1>3, RingShrinks DEF TypeOK, Valid
<1>5. \A s \in Valid : s # o => s \in Valid' /\ slots'[s] = slots[s]
  BY <1>1 DEF TypeOK, Valid
<1>6. InStep'
  BY <1>1, <1>3, <1>4 DEF RingInv, InStep
<1>7. IndexAhead'
  BY <1>1, <1>4 DEF RingInv, IndexAhead, TypeOK, o
<1>8. ASSUME NEW i \in 1..Len(recent'), recent'[i] # 0
      PROVE  /\ recent'[i] \in {slots'[s] : s \in Valid'}
             /\ \A s \in Valid' : slots'[s] - recent'[i] <= Lag(i)'
             /\ latest.ts - recent'[i] <= Lag(i)'
  <2>1. PICK j \in 1..Len(recent) :
          recent[j] # 0 /\ recent'[i] = recent[j] /\ Lag(j) + 1 = Lag(i)'
    BY <1>1, <1>8, AttemptLag
  <2>2. /\ latest.ts - recent[j] <= Lag(j) + 1
        /\ \A s \in Valid : slots[s] - recent[j] <= Lag(j)
    BY <1>1, <2>1 DEF RingInv, RecentInv
  <2>3. recent \in Seq(0..MaxIndex) /\ Len(recent) \in Nat /\ Len(recent) <= N - 1
    BY <1>1, RecentSeq, LenProperties DEF TypeOK, Recents
  <2>4. Lag(j) \in Nat /\ Lag(j) < N - 1 /\ recent[j] \in Nat
    BY <2>3 DEF Lag
  <2>5. PICK s \in Valid : recent[j] = slots[s]
    BY <2>1 DEF RingInv, RecentInv, Kept
  <2>6. s # o
    <3> SUFFICES ASSUME s = o PROVE FALSE
      OBVIOUS
    <3>1. slots[s] % N = latest.ts % N /\ slots[s] < latest.ts
      BY <1>1 DEF RingInv, InStep, IndexAhead, o
    <3>2. slots[s] \in Nat /\ latest.ts \in Nat
      BY <1>1 DEF TypeOK, Places, Valid
    <3>3. slots[s] + N <= latest.ts
      BY <3>1, <3>2, ModApart
    <3> QED BY <2>2, <2>4, <2>5, <3>2, <3>3
  <2>7. \A u \in Valid' : slots'[u] - recent'[i] <= Lag(i)'
    BY <1>1, <1>4, <2>1, <2>2, <2>4, SMTT(30) DEF TypeOK, Valid
  <2> QED BY <1>5, <2>1, <2>2, <2>5, <2>6, <2>7
<1>9. RecentInv'
  BY <1>1, <1>2, <1>8 DEF RecentInv, Kept
<1> QED BY <1>6, <1>7, <1>9 DEF RingInv

\* addEntry() succeeds: the newest entry is in its slot.
LEMMA AddEntryEndRing ==
  ASSUME RingInv, AddEntryEnd
  PROVE  RingInv'
<1> USE EntryAssumption
<1> DEFINE o == latest.off
           t == latest.ts
           k == Len(recent)
<1>1. /\ TypeOK /\ pc = "crc" /\ pc' = "ready" /\ o \in Slots /\ t \in 0..MaxIndex
      /\ slots' = [slots EXCEPT ![o] = t]
      /\ recent' = IF N = 1 THEN <<>> ELSE [recent EXCEPT ![k] = t]
      /\ acked' = acked \cup {t}
      /\ UNCHANGED <<index, latest, pos, faults, failed>>
  BY DEF RingInv, InStep, TypeOK, Places, AddEntryEnd
<1>2. /\ recent \in Seq(0..MaxIndex) /\ k \in Nat /\ k <= N - 1 /\ (N > 1 => k > 0)
      /\ \A i \in 1..k : recent[i] \in 0..MaxIndex
  BY <1>1, RecentSeq, LenProperties DEF TypeOK, Recents, RingInv, RecentInv
<1>3. /\ recent' \in Seq(0..MaxIndex) /\ Len(recent') = k
      /\ \A i \in 1..k : recent'[i] = IF i = k THEN t ELSE recent[i]
  <2>1. CASE N = 1
    BY <1>1, <1>2, <2>1
  <2>2. CASE N > 1
    BY <1>1, <1>2, <2>2, ExceptSeq
  <2> QED BY <2>1, <2>2
<1>4. t > 0 /\ t % N = o /\ slots[o] = 0
  BY <1>1 DEF RingInv, InStep, IndexAhead, TypeOK, Valid
<1> HIDE DEF o, t, k
<1>5. TypeOK'
  <2>1. recent' \in Recents
    BY <1>2, <1>3, RecentSeq
  <2>2. t \in 1..MaxIndex
    BY <1>1, <1>4
  <2> QED BY <1>1, <2>1, <2>2 DEF TypeOK, Recents
<1>6. \A s \in Valid' : \/ s = o /\ slots'[s] = t
                        \/ s # o /\ s \in Valid /\ slots'[s] = slots[s]
  BY <1>1 DEF TypeOK, Valid
<1>7. \A s \in Valid : s \in Valid' /\ slots'[s] = slots[s]
  BY <1>1, <1>4 DEF TypeOK, Valid
<1>8. \A s \in Valid' : slots'[s] <= t
  BY <1>1, <1>6 DEF RingInv, IndexAhead, TypeOK, Valid, t
<1>9. InStep'
  <2>1. latest'.ts = t /\ latest'.off = o
    BY <1>1 DEF t, o
  <2>2. \A s \in Valid' : slots'[s] % N = s
    BY <1>4, <1>6 DEF RingInv, InStep
  <2> QED BY <1>4, <1>5, <1>8, <2>1, <2>2 DEF InStep
<1>10. IndexAhead'
  <2>1. index'.ts = t
    BY <1>1 DEF RingInv, IndexAhead, t
  <2> QED BY <1>1, <1>8, <2>1 DEF IndexAhead
<1>11. ASSUME NEW i \in 1..k, recent'[i] # 0
       PROVE  /\ recent'[i] \in {slots'[s] : s \in Valid'}
              /\ \A s \in Valid' : slots'[s] - recent'[i] <= k - i
              /\ t - recent'[i] <= k - i
  <2>1. CASE i = k
    <3>1. recent'[i] = t /\ slots'[o] = t /\ o \in Valid'
      BY <1>1, <1>3, <1>4, <2>1 DEF TypeOK, Valid
    <3> QED BY <1>1, <1>2, <1>5, <1>8, <2>1, <3>1 DEF TypeOK, Valid
  <2>2. CASE i # k
    <3>1. recent'[i] = recent[i] /\ recent[i] # 0
      BY <1>3, <1>11, <2>2
    <3>2. /\ recent[i] \in {slots[s] : s \in Valid}
          /\ \A s \in Valid : slots[s] - recent[i] <= k - i
          /\ t - recent[i] <= k - i
      BY <1>1, <3>1 DEF RingInv, RecentInv, Kept, Lag, k, t
    <3> QED BY <1>6, <1>7, <3>1, <3>2
  <2> QED BY <2>1, <2>2
<1>12. RecentInv'
  BY <1>1, <1>3, <1>11 DEF RecentInv, Kept, Lag, t
<1> QED BY <1>9, <1>10, <1>12 DEF RingInv

\* addEntry() writes nothing: the attempt counts.
LEMMA AddEntryNothingRing ==
  ASSUME RingInv, AddEntryNothing
  PROVE  RingInv'
<1> USE EntryAssumption
<1>1. /\ TypeOK /\ pc' = "ready" /\ faults' \in 0..MaxFaults /\ failed' = TRUE
      /\ UNCHANGED <<slots, index, latest, pos, acked>>
  BY DEF RingInv, InStep, TypeOK, AddEntryNothing, Fault
<1>2. Valid' = Valid
  BY <1>1 DEF Valid
<1>3. pc = "entry" /\ Attempt
  BY DEF AddEntryNothing
<1>4. recent' \in Recents
  BY <1>1, <1>3, AttemptShifts DEF TypeOK, Recents
<1>5. TypeOK'
  BY <1>1, <1>4 DEF TypeOK, Recents
<1>6. InStep' /\ IndexAhead'
  BY <1>1, <1>2, <1>3, <1>5 DEF RingInv, InStep, IndexAhead
<1>7. ASSUME NEW i \in 1..Len(recent'), recent'[i] # 0
      PROVE  /\ recent'[i] \in {slots[s] : s \in Valid}
             /\ \A s \in Valid : slots[s] - recent'[i] <= Lag(i)'
             /\ latest.ts - recent'[i] <= Lag(i)'
  <2>1. PICK j \in 1..Len(recent) :
          recent[j] # 0 /\ recent'[i] = recent[j] /\ Lag(j) + 1 = Lag(i)'
    BY <1>1, <1>3, <1>7, AttemptLag
  <2>2. /\ latest.ts - recent[j] <= Lag(j) + 1
        /\ \A s \in Valid : slots[s] - recent[j] <= Lag(j)
        /\ recent[j] \in {slots[s] : s \in Valid}
    BY <1>3, <2>1 DEF RingInv, RecentInv, Kept
  <2>3. recent \in Seq(0..MaxIndex) /\ Len(recent) \in Nat
    BY <1>1, RecentSeq, LenProperties DEF TypeOK, Recents
  <2>4. Lag(j) \in Int /\ recent[j] \in Nat /\ \A s \in Valid : slots[s] \in Nat
    BY <1>1, <2>3 DEF Lag, TypeOK, Valid
  <2> QED BY <2>1, <2>2, <2>4
<1> QED BY <1>1, <1>2, <1>6, <1>7 DEF RingInv, RecentInv, Kept

\* A failing addEntry() that has invalidated the slot leaves it so, or writes
\* the entry all the same.
LEMMA AddEntryFailsRing ==
  ASSUME RingInv, AddEntryFails
  PROVE  RingInv'
<1> USE EntryAssumption
<1> DEFINE o == latest.off
           t == latest.ts
<1>1. /\ TypeOK /\ pc = "crc" /\ pc' = "ready" /\ o \in Slots /\ t \in 0..MaxIndex
      /\ faults' \in 0..MaxFaults /\ failed' = TRUE
      /\ slots' \in {slots, [slots EXCEPT ![o] = t]}
      /\ UNCHANGED <<index, latest, pos, recent, acked>>
  BY DEF RingInv, InStep, TypeOK, Places, AddEntryFails, Fault
<1>2. t > 0 /\ t % N = o /\ slots[o] = 0 /\ index = latest
  BY <1>1 DEF RingInv, InStep, IndexAhead, TypeOK, Valid
<1> HIDE DEF o, t
<1>3. TypeOK'
  BY <1>1 DEF TypeOK
<1>4. \A s \in Valid' : \/ s = o /\ slots'[s] = t
                        \/ s \in Valid /\ slots'[s] = slots[s]
  BY <1>1 DEF TypeOK, Valid
<1>5. \A s \in Valid : s \in Valid' /\ slots'[s] = slots[s]
  BY <1>1, <1>2 DEF TypeOK, Valid
<1>6. \A s \in Valid' : slots'[s] <= t /\ slots'[s] % N = s
  BY <1>1, <1>2, <1>4 DEF RingInv, InStep, IndexAhead, TypeOK, Valid, t
<1>7. latest' = latest /\ latest.ts = t /\ latest.off = o
  BY <1>1 DEF t, o
<1>8. InStep'
  BY <1>2, <1>3, <1>6, <1>7 DEF InStep
<1>9. IndexAhead'
  BY <1>1, <1>2, <1>6, <1>7 DEF IndexAhead
<1>10. ASSUME NEW i \in 1..Len(recent), recent[i] # 0
       PROVE  /\ recent[i] \in {slots'[s] : s \in Valid'}
              /\ \A s \in Valid' : slots'[s] - recent[i] <= Lag(i)
              /\ t - recent[i] <= Lag(i)
  <2>1. /\ recent[i] \in {slots[s] : s \in Valid}
        /\ \A s \in Valid : slots[s] - recent[i] <= Lag(i)
        /\ t - recent[i] <= Lag(i)
    BY <1>1, <1>10 DEF RingInv, RecentInv, Kept, t
  <2> QED BY <1>4, <1>5, <2>1
<1>11. RecentInv'
  BY <1>1, <1>7, <1>10 DEF RecentInv, Kept, Lag
<1> QED BY <1>8, <1>9, <1>11 DEF RingInv

\* clearAllEntries(), one slot.
LEMMA ClearSlotRing ==
  ASSUME RingInv, ClearSlot
  PROVE  RingInv'
<1> USE EntryAssumption
<1> DEFINE k == Len(recent)
<1>1. /\ TypeOK /\ pc = "clear" /\ pc' = "clear" /\ pos \in Slots /\ pos' = pos + 1
      /\ slots' = [slots EXCEPT ![pos] = 0]
      /\ recent' = [i \in 1..k |-> IF recent[i] = slots[pos] THEN 0 ELSE recent[i]]
      /\ UNCHANGED <<index, latest, faults, failed, acked>>
  <2>1. TypeOK /\ pos \in 0..N /\ pos < N
    BY DEF RingInv, InStep, TypeOK, ClearSlot
  <2>2. pos \in Slots
    BY <2>1 DEF Slots
  <2> QED BY <2>1, <2>2 DEF ClearSlot
<1>2. /\ recent \in Seq(0..MaxIndex) /\ k \in Nat /\ k <= N - 1
      /\ \A i \in 1..k : recent[i] \in 0..MaxIndex
  BY <1>1, RecentSeq, LenProperties DEF TypeOK, Recents
<1> HIDE DEF k
<1>3. recent' \in Seq(0..MaxIndex) /\ Len(recent') = k
  BY <1>1, <1>2
<1>4. TypeOK'
  <2>1. recent' \in Recents
    BY <1>2, <1>3, RecentSeq
  <2> QED BY <1>1, <2>1 DEF TypeOK, Recents, Slots
<1>5. \A s \in Valid' : s \in Valid /\ slots'[s] = slots[s]
  BY <1>1, <1>4, RingShrinks DEF TypeOK
<1>6. InStep'
  BY <1>1, <1>4, <1>5 DEF RingInv, InStep
<1>7. IndexAhead'
  BY <1>1, <1>5 DEF RingInv, IndexAhead, TypeOK, Slots
<1>8. ASSUME NEW i \in 1..k, recent'[i] # 0
      PROVE  /\ recent'[i] \in {slots'[s] : s \in Valid'}
             /\ \A s \in Valid' : slots'[s] - recent'[i] <= k - i
  <2>1. recent'[i] = recent[i] /\ recent[i] # 0 /\ recent[i] # slots[pos]
    BY <1>1, <1>8
  <2>2. /\ recent[i] \in {slots[s] : s \in Valid}
        /\ \A s \in Valid : slots[s] - recent[i] <= k - i
    BY <2>1 DEF RingInv, RecentInv, Kept, Lag, k
  <2>3. PICK s \in Valid : recent[i] = slots[s]
    BY <2>2
  <2>4. s \in Valid' /\ slots'[s] = slots[s]
    BY <1>1, <2>1, <2>3 DEF TypeOK, Valid
  <2> QED BY <1>5, <2>1, <2>2, <2>3, <2>4
<1>9. RecentInv'
  BY <1>1, <1>3, <1>8 DEF RecentInv, Kept, Lag
<1> QED BY <1>6, <1>7, <1>9 DEF RingInv

\* clearAllEntries() ends, with an empty ring or with what is left.
LEMMA ClearEndRing ==
  ASSUME RingInv, ClearEnd \/ ClearFails
  PROVE  RingInv' /\ Scanned(latest')
<1> USE EntryAssumption
<1>1. /\ TypeOK /\ pc = "clear" /\ pc' = "ready" /\ pos' = 0 /\ failed' = FALSE
      /\ UNCHANGED <<slots, recent>>
  BY DEF RingInv, InStep, ClearEnd, ClearFails
<1>2. Valid \subseteq Slots /\ \A s \in Valid : slots[s] \in 1..MaxIndex
  BY <1>1 DEF Valid, TypeOK
<1>3. CASE ClearEnd
  <2>1. Valid = {}
    BY <1>1, <1>3 DEF ClearEnd, RingInv, IndexAhead, Valid, Slots
  <2>2. 0 \in Slots /\ slots[0] = 0 /\ 0 % N = 0
    BY <1>1, <2>1, ModSmall, SMTT(30) DEF Valid, TypeOK, Slots
  <2>3. Empty \in Places /\ Empty.off = 0 /\ Empty.ts = 0
    BY <2>2 DEF Places, Empty
  <2>4. Scanned(Empty)
    BY <2>1, <2>2, <2>3 DEF Scanned
  <2>5. index' \in {index, Empty} /\ faults' \in 0..MaxFaults /\ acked' = {}
        /\ latest' = Empty
    BY <1>1, <1>3 DEF ClearEnd, WriteIndex, Fault, TypeOK
  <2>6. TypeOK'
    <3>1. index' \in Places /\ latest' \in Places
      BY <1>1, <2>3, <2>5 DEF TypeOK
    <3>2. pos' \in 0..N /\ faults' \in 0..MaxFaults
      BY <1>1, <2>5
    <3>3. acked' \subseteq 1..MaxIndex
      BY <1>1, <2>5
    <3>4. failed' \in BOOLEAN
      BY <1>1
    <3> QED BY <1>1, <3>1, <3>2, <3>3, <3>4 DEF TypeOK
  <2> QED BY <1>1, <2>1, <2>4, <2>5, <2>6, RingRestarts
<1>4. CASE ClearFails
  <2>1. Scanned(ScanAllEntries(slots))
    BY ScanFinds DEF RingInv
  <2>2. index' \in {index, latest'} /\ faults' \in 0..MaxFaults
        /\ acked' = {slots[s] : s \in Valid} /\ latest' = ScanAllEntries(slots)
    BY <1>1, <1>4 DEF ClearFails, Fault, TypeOK
  <2>3. TypeOK'
    <3>1. index' \in Places /\ latest' \in Places
      BY <1>1, <2>1, <2>2 DEF TypeOK, Scanned
    <3>2. pos' \in 0..N /\ acked' \subseteq 1..MaxIndex
      BY <1>1, <1>2, <2>2
    <3>3. failed' \in BOOLEAN
      BY <1>1
    <3> QED BY <1>1, <2>2, <3>1, <3>2, <3>3 DEF TypeOK
  <2>4. \A s \in Valid : slots[s] <= index'.ts
    BY <2>1, <2>2 DEF Scanned, RingInv, IndexAhead
  <2> QED BY <1>1, <2>1, <2>2, <2>3, <2>4, RingRestarts
<1> QED BY <1>3, <1>4

\* Power fails: the entries stay as they are.
LEMMA PowerFailRing ==
  ASSUME RingInv, PowerFail
  PROVE  RingInv'
<1> USE EntryAssumption
<1>1. /\ TypeOK /\ pc' = "off" /\ pos' = 0 /\ latest' = Empty /\ failed' = FALSE
      /\ acked' \in {acked, {slots[s] : s \in Valid}}
      /\ UNCHANGED <<slots, index, faults, recent>>
  BY DEF RingInv, InStep, PowerFail
<1>2. Valid' = Valid /\ \A s \in Valid : slots[s] \in 1..MaxIndex
  BY <1>1 DEF Valid, TypeOK
<1>3. Empty \in Places /\ Empty.off = 0 /\ Empty.ts = 0 /\ 0 % N = 0
  BY ModSmall DEF Places, Empty, Slots
<1>4. TypeOK'
  <2>1. acked' \subseteq 1..MaxIndex
    BY <1>1, <1>2 DEF TypeOK
  <2>2. pos' \in 0..N /\ latest' \in Places
    BY <1>1, <1>3
  <2>3. failed' \in BOOLEAN
    BY <1>1
  <2> QED BY <1>1, <2>1, <2>2, <2>3 DEF TypeOK
<1>5. InStep'
  BY <1>1, <1>2, <1>3, <1>4 DEF RingInv, InStep
<1>6. IndexAhead'
  BY <1>1, <1>2 DEF RingInv, IndexAhead
<1>7. RecentInv'
  BY <1>1, <1>2 DEF RingInv, RecentInv, Kept, Lag
<1> QED BY <1>5, <1>6, <1>7 DEF RingInv

\* Every step keeps the ring in step.
LEMMA RingStep == RingInv /\ [Next]_vars => RingInv'
<1> SUFFICES ASSUME RingInv, [Next]_vars PROVE RingInv'
  OBVIOUS
<1> USE EntryAssumption
<1>0. TypeOK /\ \A s \in Valid : slots[s] <= index.ts
  BY DEF RingInv, InStep, IndexAhead
<1>1. CASE UNCHANGED vars
  <2>1. TypeOK'
    BY <1>0, <1>1 DEF TypeOK, vars
  <2> QED BY <1>0, <1>1, <2>1, RingStays DEF vars
<1>2. CASE Start
  <2>1. TypeOK'
    BY <1>0, <1>2, StartFinds DEF Start, TypeOK, Scanned
  <2> QED BY <1>2, <2>1, StartFinds, RingRestarts DEF Start
<1>3. CASE AddIndexFails
  <2> DEFINE new == [off |-> IncrementOffset(latest.off), ts |-> latest.ts + 1]
  <2>1. /\ pc = "ready" /\ latest.ts < MaxIndex /\ index' \in {index, new}
        /\ faults' \in 0..MaxFaults
        /\ UNCHANGED <<slots, latest, pc, pos, failed, recent, acked>>
    BY <1>0, <1>3 DEF AddIndexFails, Fault, TypeOK, history
  <2>2. new \in Places /\ \A s \in Valid : slots[s] <= new.ts
    <3>1. latest.off \in Slots /\ latest.ts \in Nat /\ latest.ts + 1 \in 0..MaxIndex
      BY <1>0, <2>1 DEF TypeOK, Places
    <3>2. IncrementOffset(latest.off) \in Slots
      BY <3>1 DEF Slots, IncrementOffset
    <3>3. \A s \in Valid : slots[s] \in Nat /\ slots[s] <= latest.ts
      BY <1>0, <2>1 DEF RingInv, InStep, TypeOK, Valid
    <3>4. \A s \in Valid : slots[s] <= latest.ts + 1
      BY <3>1, <3>3
    <3> QED BY <3>1, <3>2, <3>4 DEF Places
  <2> HIDE DEF new
  <2>3. TypeOK' /\ \A s \in Valid : slots[s] <= index'.ts
    BY <1>0, <2>1, <2>2 DEF TypeOK
  <2> QED BY <2>1, <2>3, RingStays
<1>4. CASE ClearBegin
  <2>1. TypeOK'
    BY <1>0, <1>4 DEF ClearBegin, TypeOK, history
  <2> QED BY <1>0, <1>4, <2>1, RingStays DEF ClearBegin, history
<1> QED
  BY <1>1, <1>2, <1>3, <1>4, AddIndexRing, AddEntryBeginRing, AddEntryEndRing,
     AddEntryNothingRing, AddEntryFailsRing, ClearSlotRing, ClearEndRing, PowerFailRing
  DEF Next

\* An entry is where its index value says and the head is not behind, in a
\* ring of any size, whatever writes and power supplies fail.
THEOREM InStepAlways == Spec => []InStep
<1>1. RingInv => InStep
  BY DEF RingInv
<1> QED BY <1>1, RingInit, RingStep, PTL DEF Spec

\* An acknowledged entry is in the media until it is cleared or N - 1 more
\* were begun, however many of the attempts fail and restarts come between.
THEOREM KeptAlways == Spec => []Kept
<1>1. RingInv => Kept
  BY DEF RingInv, RecentInv
<1> QED BY <1>1, RingInit, RingStep, PTL DEF Spec

-----------------------------------------------------------------------------
(* getLatest() *)

\* The slot before the next one is this one.
LEMMA DecrementIncrement ==
  ASSUME NEW o \in Slots
  PROVE  DecrementOffset(IncrementOffset(o)) = o
BY EntryAssumption DEF Slots, DecrementOffset, IncrementOffset

\* Every step keeps the head on an entry, unless one fails to be written.
LEMMA HeadStep == RingInv /\ HeadInv /\ [Next]_vars => HeadInv'
<1> SUFFICES ASSUME RingInv, HeadInv, [Next]_vars PROVE HeadInv'
  OBVIOUS
<1> USE EntryAssumption
<1>0. TypeOK
  BY DEF RingInv, InStep
<1>1. CASE UNCHANGED vars
  BY <1>1 DEF vars, HeadInv
<1>2. CASE Start
  BY <1>2, StartFinds DEF Start, HeadInv, Scanned
<1>3. CASE AddIndex
  <2>1. /\ pc = "ready" /\ pc' = "entry" /\ UNCHANGED <<slots, faults, failed>>
        /\ latest'.off = IncrementOffset(latest.off) /\ latest'.ts = latest.ts + 1
        /\ latest.off \in Slots /\ latest.ts \in Nat
    BY <1>0, <1>3 DEF AddIndex, TypeOK, Places, history
  <2>2. DecrementOffset(latest'.off) = latest.off /\ latest'.ts - 1 = latest.ts
    BY <2>1, DecrementIncrement
  <2> QED BY <2>1, <2>2 DEF HeadInv
<1>4. CASE AddIndexFails
  <2>1. faults' # 0
    BY <1>0, <1>4 DEF AddIndexFails, Fault, TypeOK
  <2> QED BY <1>4, <2>1 DEF AddIndexFails, HeadInv, history
<1>5. CASE AddEntryBegin
  BY <1>5 DEF AddEntryBegin, HeadInv
<1>6. CASE AddEntryEnd
  BY <1>0, <1>6 DEF AddEntryEnd, HeadInv, TypeOK, Places
<1>7. CASE AddEntryNothing \/ AddEntryFails
  <2>1. faults' # 0
    BY <1>0, <1>7 DEF AddEntryNothing, AddEntryFails, Fault, TypeOK
  <2> QED BY <1>7, <2>1 DEF AddEntryNothing, AddEntryFails, HeadInv
<1>8. CASE ClearBegin \/ ClearSlot
  BY <1>8 DEF ClearBegin, ClearSlot, HeadInv, history
<1>9. CASE ClearEnd \/ ClearFails
  BY <1>9, ClearEndRing DEF ClearEnd, ClearFails, HeadInv, Scanned
<1>10. CASE PowerFail
  BY <1>10 DEF PowerFail, HeadInv
<1> QED
  BY <1>1, <1>2, <1>3, <1>4, <1>5, <1>6, <1>7, <1>8, <1>9, <1>10 DEF Next

\* The blank ring has its head on no entry.
LEMMA HeadInit == Init => HeadInv
BY EntryAssumption DEF Init, HeadInv, Empty, Slots

\* getLatest() finds the newest entry after any history of power failures and
\* failed writes before the last start(), and fails only when there is none.
THEOREM LatestIsNewestAlways == Spec => []LatestIsNewest
<1>1. RingInv /\ HeadInv => LatestIsNewest
  <2> SUFFICES ASSUME RingInv, HeadInv, pc = "ready", ~failed
               PROVE  GetLatest = Max({slots[s] : s \in Valid} \cup {0})
    BY DEF LatestIsNewest
  <2> DEFINE S == {slots[s] : s \in Valid} \cup {0}
             t == GetLatest
  <2>1. t = latest.ts /\ t \in Nat /\ latest.off \in Slots
    BY DEF HeadInv, GetLatest, RingInv, InStep, TypeOK, Places
  <2>2. t \in S
    <3>1. CASE t = 0
      BY <3>1
    <3>2. CASE t # 0
      BY <2>1, <3>2 DEF Valid, GetLatest
    <3> QED BY <3>1, <3>2
  <2>3. \A y \in S : y \in Nat /\ y <= t
    BY <2>1 DEF RingInv, InStep, TypeOK, Valid
  <2> HIDE DEF S, t
  <2>4. \A x \in S : (\A y \in S : x >= y) => x = t
    BY <2>1, <2>2, <2>3
  <2>5. \A y \in S : t >= y
    BY <2>1, <2>3
  <2>6. Max(S) \in S /\ \A y \in S : Max(S) >= y
    BY <2>2, <2>5 DEF Max
  <2>7. Max(S) = t
    BY <2>4, <2>6
  <2> QED BY <2>7 DEF S, t
<1>2. Init => RingInv /\ HeadInv
  BY RingInit, HeadInit
<1>3. RingInv /\ HeadInv /\ [Next]_vars => RingInv' /\ HeadInv'
  BY RingStep, HeadStep
<1> QED BY <1>1, <1>2, <1>3, PTL DEF Spec

-----------------------------------------------------------------------------
(* getByBufferIndex() *)

\* Every step keeps the acknowledged entries in a ring that is not full.
LEMMA FullStep == RingInv /\ HeadInv /\ FullInv /\ [Next]_vars => FullInv'
<1> SUFFICES ASSUME RingInv, HeadInv, FullInv, [Next]_vars,
                    pc' # "clear", faults' = 0, N > 1, NEW a \in acked'
             PROVE  slots'[a % N] = a \/ \E s \in Valid' : slots'[s] >= N
  BY DEF FullInv
<1> DEFINE Goal == slots'[a % N] = a \/ \E s \in Valid' : slots'[s] >= N
<1> USE EntryAssumption
<1>0. TypeOK /\ faults \in Nat
  BY DEF RingInv, InStep, TypeOK
<1>1. ASSUME UNCHANGED <<slots, faults, acked>>, pc # "clear" PROVE Goal
  BY <1>1 DEF FullInv, Valid
<1>2. CASE UNCHANGED vars
  BY <1>1, <1>2 DEF vars
<1>3. CASE Start
  <2>1. faults = 0
    BY <1>0, <1>3 DEF Start, WriteIndex, Fault
  <2> QED BY <1>1, <1>3, <2>1 DEF Start
<1>4. CASE AddIndex \/ ClearBegin
  BY <1>1, <1>4 DEF AddIndex, ClearBegin, history
<1>5. ~AddIndexFails /\ ~AddEntryNothing /\ ~AddEntryFails /\ ~ClearFails
  BY <1>0 DEF AddIndexFails, AddEntryNothing, AddEntryFails, ClearFails, Fault
<1>6. CASE AddEntryBegin
  <2> DEFINE o == latest.off
             t == latest.ts
             p == DecrementOffset(o)
  <2>1. /\ pc = "entry" /\ faults = 0 /\ ~failed /\ a \in acked /\ a \in Nat \ {0}
        /\ slots' = [slots EXCEPT ![o] = 0] /\ o \in Slots /\ t \in Nat
        /\ slots[p] = t - 1
    BY <1>0, <1>6 DEF AddEntryBegin, TypeOK, Places, HeadInv
  <2>2. p \in Slots /\ p # o
    BY <2>1 DEF DecrementOffset, Slots
  <2>3. t % N = o /\ \A s \in Valid : slots[s] % N = s /\ slots[s] < t /\ slots[s] \in Nat
    BY <1>0, <2>1 DEF RingInv, InStep, IndexAhead, TypeOK, Valid
  <2> HIDE DEF o, t, p
  <2>4. ASSUME o \in Valid PROVE slots[o] + N <= t
    BY <2>1, <2>3, <2>4, ModApart
  <2>5. ASSUME t - 1 >= N PROVE Goal
    <3>1. slots'[p] = t - 1 /\ p \in Valid'
      BY <1>0, <2>1, <2>2, <2>5 DEF Valid, TypeOK
    <3> QED BY <2>5, <3>1
  <2>6. CASE slots[a % N] = a
    <3>1. a % N \in Slots
      BY <2>1, ModNext
    <3>2. CASE a % N = o
      <4>1. o \in Valid /\ slots[o] = a
        BY <2>1, <2>6, <3>2 DEF Valid
      <4>2. a + N <= t
        BY <2>4, <4>1
      <4> QED BY <2>1, <2>5, <4>2
    <3>3. CASE a % N # o
      BY <1>0, <2>1, <2>6, <3>1, <3>3 DEF TypeOK
    <3> QED BY <3>2, <3>3
  <2>7. ASSUME NEW s \in Valid, slots[s] >= N PROVE Goal
    <3>1. CASE s = o
      BY <2>1, <2>3, <2>4, <2>5, <2>7, <3>1
    <3>2. CASE s # o
      <4>1. s \in Valid' /\ slots'[s] = slots[s]
        BY <1>0, <2>1, <3>2 DEF Valid, TypeOK
      <4> QED BY <2>7, <4>1
    <3> QED BY <3>1, <3>2
  <2> QED BY <2>1, <2>6, <2>7 DEF FullInv
<1>7. CASE AddEntryEnd
  <2> DEFINE o == latest.off
             t == latest.ts
  <2>1. /\ pc = "crc" /\ faults = 0 /\ acked' = acked \cup {t}
        /\ slots' = [slots EXCEPT ![o] = t] /\ o \in Slots /\ slots[o] = 0 /\ t % N = o
    BY <1>0, <1>7 DEF AddEntryEnd, RingInv, InStep, IndexAhead, TypeOK, Places
  <2> HIDE DEF o, t
  <2>2. CASE a = t
    BY <1>0, <2>1, <2>2 DEF TypeOK
  <2>3. CASE a \in acked
    <3>1. a \in Nat \ {0} /\ a % N \in Slots
      BY <1>0, <2>3, ModNext DEF TypeOK
    <3>2. CASE slots[a % N] = a
      BY <1>0, <2>1, <3>1, <3>2 DEF TypeOK
    <3>3. ASSUME NEW s \in Valid, slots[s] >= N PROVE Goal
      <4>1. s \in Valid' /\ slots'[s] = slots[s]
        BY <1>0, <2>1 DEF Valid, TypeOK
      <4> QED BY <3>3, <4>1
    <3> QED BY <2>1, <2>3, <3>2, <3>3 DEF FullInv
  <2> QED BY <2>1, <2>2, <2>3
<1>8. CASE ClearSlot
  BY <1>8 DEF ClearSlot
<1>9. CASE ClearEnd
  BY <1>9 DEF ClearEnd
<1>10. CASE PowerFail
  <2>1. CASE pc = "clear"
    BY <1>10, <2>1 DEF PowerFail, RingInv, InStep
  <2>2. CASE pc # "clear"
    BY <1>1, <1>10, <2>2 DEF PowerFail
  <2> QED BY <2>1, <2>2
<1> QED
  BY <1>2, <1>3, <1>4, <1>5, <1>6, <1>7, <1>8, <1>9, <1>10 DEF Next

\* Until the ring is full, buffer index i is the i-th entry since the last
\* clear, in a ring of any size.
THEOREM BufferIndexAlways == Spec => []BufferIndex
<1> USE EntryAssumption
<1>1. RingInv /\ FullInv => BufferIndex
  <2> SUFFICES ASSUME RingInv, FullInv, pc = "ready", faults = 0, latest.ts < N,
                      acked = 1..latest.ts, NEW i \in 0..N - 1
               PROVE  GetByBufferIndex(i) = IF i < latest.ts THEN i + 1 ELSE 0
    BY DEF BufferIndex
  <2>1. TypeOK /\ latest.ts \in Nat
    BY DEF RingInv, InStep, TypeOK, Places
  <2>2. \A s \in Valid : slots[s] = s /\ slots[s] <= latest.ts
    <3> SUFFICES ASSUME NEW s \in Valid PROVE slots[s] = s /\ slots[s] <= latest.ts
      OBVIOUS
    <3>1. slots[s] % N = s /\ slots[s] <= latest.ts /\ slots[s] \in Nat
      BY <2>1 DEF RingInv, InStep, TypeOK, Valid
    <3>2. slots[s] \in Slots
      BY <2>1, <3>1 DEF Slots
    <3> QED BY <3>1, <3>2, ModSmall
  <2>3. CASE i < latest.ts
    <3>1. i + 1 \in Slots /\ i + 1 \in acked /\ N > 1 /\ (i + 1) % N = i + 1
      BY <2>1, <2>3, ModSmall DEF Slots
    <3>2. slots[i + 1] = i + 1
      <4>1. slots[(i + 1) % N] = i + 1 \/ \E s \in Valid : slots[s] >= N
        BY <3>1 DEF FullInv
      <4>2. ~ \E s \in Valid : slots[s] >= N
        BY <2>1, <2>2 DEF Valid, Slots
      <4> QED BY <3>1, <4>1, <4>2
    <3> QED BY <2>3, <3>1, <3>2 DEF GetByBufferIndex, Slots
  <2>4. CASE ~(i < latest.ts)
    <3>1. CASE i + 1 > N - 1
      <4>1. 0 \notin Valid /\ 0 \in Slots
        BY <2>2 DEF Valid, Slots
      <4> QED BY <2>4, <3>1, <4>1 DEF GetByBufferIndex, Valid
    <3>2. CASE ~(i + 1 > N - 1)
      <4>1. i + 1 \notin Valid /\ i + 1 \in Slots
        BY <2>1, <2>2, <2>4, <3>2 DEF Slots
      <4> QED BY <2>4, <3>2, <4>1 DEF GetByBufferIndex, Valid
    <3> QED BY <3>1, <3>2
  <2> QED BY <2>3, <2>4
<1>2. Init => RingInv /\ HeadInv /\ FullInv
  BY RingInit, HeadInit DEF Init, FullInv
<1>3. RingInv /\ HeadInv /\ FullInv /\ [Next]_vars => RingInv' /\ HeadInv' /\ FullInv'
  BY RingStep, HeadStep, FullStep
<1> QED BY <1>1, <1>2, <1>3, PTL DEF Spec

-----------------------------------------------------------------------------
(* No index value is given out twice *)

\* The head is no more than the failed writes ahead of the newest entry.
Ahead(by) == latest.ts <= by \/ \E s \in Valid : latest.ts <= slots[s] + by

\* A head that scanAllEntries() finds is not ahead at all.
LEMMA ScannedNotAhead ==
  ASSUME TypeOK, NEW r \in Places, Scanned(r), NEW by \in Nat
  PROVE  r.ts <= by \/ \E s \in Valid : r.ts <= slots[s] + by
<1>1. CASE r.ts = 0
  BY <1>1
<1>2. CASE r.ts # 0
  <2>1. r.off \in Valid /\ slots[r.off] = r.ts /\ r.ts \in Nat
    BY <1>2 DEF Scanned, Valid, Places
  <2> QED BY <2>1
<1> QED BY <1>1, <1>2

\* With fewer than N - 1 failed writes, every step leaves an entry in the media
\* that is at least as new as all that were acknowledged.
LEMMA NewestStep == MaxFaults < N - 1 /\ RingInv /\ NewestInv /\ [Next]_vars => NewestInv'
<1> SUFFICES ASSUME MaxFaults < N - 1, RingInv, NewestInv, [Next]_vars PROVE NewestInv'
  OBVIOUS
<1> USE EntryAssumption
<1>0. /\ TypeOK /\ TypeOK' /\ faults \in Nat /\ faults' \in Nat
      /\ \A s \in Valid : slots[s] \in 1..MaxIndex
      /\ \A s \in Valid' : slots'[s] \in 1..MaxIndex
  BY RingStep DEF RingInv, InStep, TypeOK, Valid
<1>1. /\ pc # "clear" => \A a \in acked : \E s \in Valid : a <= slots[s]
      /\ pc = "ready" => Ahead(faults)
      /\ pc \in {"entry", "crc"} => Ahead(faults + 1)
  BY <1>0 DEF NewestInv, Ahead
<1>2. SUFFICES /\ pc' # "clear" => \A a \in acked' : \E s \in Valid' : a <= slots'[s]
               /\ pc' = "ready" => Ahead(faults)'
               /\ pc' \in {"entry", "crc"} => Ahead(faults + 1)'
  BY <1>0 DEF NewestInv, Ahead
<1>3. ASSUME UNCHANGED slots PROVE Valid' = Valid
  BY <1>3 DEF Valid
<1>4. CASE UNCHANGED vars
  BY <1>1, <1>3, <1>4 DEF vars, Ahead
<1>5. CASE Start
  <2>1. latest' \in Places /\ Scanned(latest') /\ pc' = "ready" /\ UNCHANGED <<slots, acked>>
        /\ pc = "off"
    BY <1>5, StartFinds DEF Start, Scanned
  <2>2. Ahead(faults)'
    BY <1>0, <1>3, <2>1, ScannedNotAhead DEF Ahead
  <2> QED BY <1>1, <1>3, <2>1, <2>2
<1>6. CASE AddIndex
  <2>1. /\ pc = "ready" /\ pc' = "entry" /\ UNCHANGED <<slots, faults, acked>>
        /\ latest'.ts = latest.ts + 1 /\ latest.ts \in Nat
    BY <1>0, <1>6 DEF AddIndex, TypeOK, Places, history
  <2>2. Ahead(faults + 1)'
    BY <1>0, <1>1, <1>3, <2>1 DEF Ahead
  <2> QED BY <1>1, <1>3, <2>1, <2>2
<1>7. CASE AddIndexFails
  <2>1. /\ pc = "ready" /\ UNCHANGED <<slots, latest, pc, acked>>
        /\ faults' = faults + 1 /\ latest.ts \in Nat
    BY <1>0, <1>7 DEF AddIndexFails, Fault, TypeOK, Places, history
  <2>2. Ahead(faults)'
    BY <1>0, <1>1, <1>3, <2>1 DEF Ahead
  <2> QED BY <1>1, <1>3, <2>1, <2>2
<1>8. CASE AddEntryBegin
  <2> DEFINE o == latest.off
             t == latest.ts
  <2>1. /\ pc = "entry" /\ pc' = "crc" /\ UNCHANGED <<latest, faults, acked>>
        /\ slots' = [slots EXCEPT ![o] = 0] /\ o \in Slots /\ t \in Nat
    BY <1>0, <1>8 DEF AddEntryBegin, TypeOK, Places
  <2>2. t % N = o /\ \A s \in Valid : slots[s] % N = s /\ slots[s] < t
    BY <2>1 DEF RingInv, InStep, IndexAhead
  <2>3. faults + 1 < N /\ faults \in Nat
    BY <1>0 DEF TypeOK
  <2>4. t <= faults + 1 \/ \E s \in Valid : t <= slots[s] + faults + 1
    BY <1>0, <1>1, <2>1 DEF Ahead
  <2> HIDE DEF o, t
  <2>5. ASSUME NEW s \in Valid, t <= slots[s] + faults + 1
        PROVE  s # o
    <3> SUFFICES ASSUME s = o PROVE FALSE
      OBVIOUS
    <3>1. slots[s] % N = t % N /\ slots[s] < t /\ slots[s] \in Nat
      BY <1>0, <2>2
    <3>2. slots[s] + N <= t
      BY <2>1, <3>1, ModApart
    <3> QED BY <2>3, <2>5, <3>1, <3>2, <2>1
  <2>6. \A s \in Valid : s # o => s \in Valid' /\ slots'[s] = slots[s]
    BY <1>0, <2>1 DEF Valid, TypeOK
  <2>7. CASE \E s \in Valid : t <= slots[s] + faults + 1
    <3>1. PICK s \in Valid : t <= slots[s] + faults + 1
      BY <2>7
    <3>2. s \in Valid' /\ slots'[s] = slots[s]
      BY <2>5, <2>6, <3>1
    <3>3. Ahead(faults + 1)'
      BY <1>0, <2>1, <3>1, <3>2 DEF Ahead, t
    <3>4. ASSUME NEW a \in acked PROVE \E u \in Valid' : a <= slots'[u]
      <4>1. PICK u \in Valid : a <= slots[u]
        BY <1>1, <2>1
      <4>2. CASE u # o
        BY <2>6, <4>1, <4>2
      <4>3. CASE u = o
        <5>1. slots[u] + N <= t
          <6>1. slots[u] % N = t % N /\ slots[u] < t /\ slots[u] \in Nat
            BY <1>0, <2>2, <4>3
          <6> QED BY <2>1, <6>1, ModApart
        <5>2. slots[u] <= slots[s]
          BY <1>0, <2>1, <2>3, <3>1, <5>1
        <5>3. a <= slots[s]
          BY <1>0, <4>1, <5>2 DEF TypeOK
        <5> QED BY <3>2, <5>3
      <4> QED BY <4>2, <4>3
    <3> QED BY <2>1, <3>3, <3>4
  <2>8. CASE t <= faults + 1
    <3>1. o \notin Valid
      <4> SUFFICES ASSUME o \in Valid PROVE FALSE
        OBVIOUS
      <4>1. slots[o] % N = t % N /\ slots[o] < t /\ slots[o] \in Nat
        BY <1>0, <2>2
      <4>2. slots[o] + N <= t /\ t \in Nat
        BY <2>1, <4>1, ModApart
      <4> QED BY <2>3, <2>8, <4>1, <4>2
    <3>2. Ahead(faults + 1)'
      BY <2>1, <2>8 DEF Ahead, t
    <3> QED BY <1>1, <2>1, <2>6, <3>1, <3>2
  <2> QED BY <2>4, <2>7, <2>8
<1>9. CASE AddEntryEnd
  <2> DEFINE o == latest.off
             t == latest.ts
  <2>1. /\ pc = "crc" /\ pc' = "ready" /\ acked' = acked \cup {t} /\ UNCHANGED <<latest, faults>>
        /\ slots' = [slots EXCEPT ![o] = t] /\ o \in Slots /\ slots[o] = 0
        /\ t \in Nat /\ t > 0
    BY <1>0, <1>9 DEF AddEntryEnd, RingInv, IndexAhead, TypeOK, Places
  <2>2. o \in Valid' /\ slots'[o] = t
    BY <1>0, <2>1 DEF Valid, TypeOK
  <2>3. Ahead(faults)'
    BY <1>0, <2>1, <2>2 DEF Ahead
  <2>4. \A s \in Valid : s \in Valid' /\ slots'[s] = slots[s]
    BY <1>0, <2>1 DEF Valid, TypeOK
  <2>5. ASSUME NEW a \in acked' PROVE \E s \in Valid' : a <= slots'[s]
    BY <1>1, <2>1, <2>2, <2>4
  <2> QED BY <2>1, <2>3, <2>5
<1>10. CASE AddEntryNothing \/ AddEntryFails
  <2>1. /\ pc \in {"entry", "crc"} /\ pc' = "ready" /\ UNCHANGED <<latest, acked>>
        /\ faults' = faults + 1
    BY <1>10 DEF AddEntryNothing, AddEntryFails, Fault
  <2>2. \A s \in Valid : s \in Valid' /\ slots'[s] = slots[s]
    <3>1. CASE UNCHANGED slots
      BY <1>3, <3>1
    <3>2. CASE slots' = [slots EXCEPT ![latest.off] = latest.ts] /\ pc = "crc"
      BY <1>0, <3>2 DEF Valid, TypeOK, Places, RingInv, IndexAhead
    <3> QED BY <1>10, <3>1, <3>2 DEF AddEntryNothing, AddEntryFails
  <2>3. Ahead(faults)'
    BY <1>1, <2>1, <2>2 DEF Ahead
  <2> QED BY <1>1, <2>1, <2>2, <2>3
<1>11. CASE ClearBegin \/ ClearSlot
  BY <1>11 DEF ClearBegin, ClearSlot
<1>12. CASE ClearEnd \/ ClearFails
  <2>1. /\ latest' \in Places /\ Scanned(latest') /\ pc' = "ready" /\ UNCHANGED slots
        /\ acked' \in {{}, {slots[s] : s \in Valid}}
    BY <1>12, ClearEndRing DEF ClearEnd, ClearFails, Scanned
  <2>2. Ahead(faults)'
    BY <1>0, <1>3, <2>1, ScannedNotAhead DEF Ahead
  <2> QED BY <1>0, <1>3, <2>1, <2>2
<1>13. CASE PowerFail
  <2>1. pc' = "off" /\ UNCHANGED slots
        /\ acked' = IF pc = "clear" THEN {slots[s] : s \in Valid} ELSE acked
    BY <1>13 DEF PowerFail
  <2> QED BY <1>0, <1>1, <1>3, <2>1
<1> QED
  BY <1>4, <1>5, <1>6, <1>7, <1>8, <1>9, <1>10, <1>11, <1>12, <1>13 DEF Next

\* No index value is given to two entries, across overwritten entries, power
\* failures and restarts, in every ring with two more slots than faults.
THEOREM NoReuseAlways == MaxFaults < N - 1 /\ Spec => NoReuse
<1> SUFFICES ASSUME MaxFaults < N - 1 PROVE Spec => NoReuse
  OBVIOUS
<1> USE EntryAssumption
<1>1. Init => RingInv /\ NewestInv
  <2>1. Init => NewestInv
    BY DEF Init, NewestInv
  <2> QED BY <2>1, RingInit
<1>2. RingInv /\ NewestInv /\ [Next]_vars => RingInv' /\ NewestInv'
  BY RingStep, NewestStep
<1>3. RingInv /\ NewestInv /\ [Next]_vars
        => [pc = "crc" /\ pc' = "ready" /\ faults' = faults
              => latest.ts \notin acked]_vars
  <2> SUFFICES ASSUME RingInv, NewestInv, pc = "crc"
               PROVE  latest.ts \notin acked
    OBVIOUS
  <2>1. TypeOK /\ \A s \in Valid : slots[s] < latest.ts
    BY DEF RingInv, InStep, IndexAhead
  <2>2. \A a \in acked : \E s \in Valid : a <= slots[s]
    BY DEF NewestInv
  <2> QED BY <2>1, <2>2 DEF TypeOK, Places, Valid
<1> QED BY <1>1, <1>2, <1>3, PTL DEF Spec, NoReuse

-----------------------------------------------------------------------------
(* getNext() and getPrevious() *)

\* Remainders and sums.
LEMMA ModAdd ==
  ASSUME NEW a \in Nat, NEW b \in Nat
  PROVE  (a + b) % N = ((a % N) + b) % N
<1> USE EntryAssumption
<1> DEFINE q == a \div N
           r == a % N
           p == (r + b) \div N
           w == (r + b) % N
<1>1. q \in Nat /\ r \in 0..N - 1 /\ a = N * q + r
  BY DivMod
<1> HIDE DEF q, r
<1>2. r + b \in Nat
  BY <1>1
<1>3. p \in Nat /\ w \in 0..N - 1 /\ r + b = N * p + w
  BY <1>2, DivMod
<1> HIDE DEF p, w
<1>4. a + b = N * (q + p) + w /\ q + p \in Nat
  BY <1>1, <1>3
<1>5. (N * (q + p) + w) % N = w
  BY <1>3, <1>4, ModUnique
<1>6. (a + b) % N = w
  BY <1>4, <1>5, Zenon
<1> QED BY <1>6 DEF w, r

\* The slots that getNext() visits.
LEMMA NextSlots ==
  ASSUME NEW off \in Slots
  PROVE  LET slot[i \in 1..N] == IF i = 1 THEN IncrementOffset(off)
                                          ELSE IncrementOffset(slot[i - 1])
         IN  \A i \in 1..N : slot[i] = (off + i) % N
<1> USE EntryAssumption
<1> DEFINE g == [i \in 1..N |-> (off + i) % N]
           Def(f) == [i \in 1..N |-> IF i = 1 THEN IncrementOffset(off)
                                              ELSE IncrementOffset(f[i - 1])]
           slot == CHOOSE f : f = Def(f)
<1>1. ASSUME NEW k \in Nat, k >= 1 PROVE (off + k) % N = IncrementOffset((off + (k - 1)) % N)
  <2>1. off + (k - 1) \in Nat /\ off + k = (off + (k - 1)) + 1
    BY <1>1 DEF Slots
  <2>2. ((off + (k - 1)) + 1) % N = IncrementOffset((off + (k - 1)) % N)
    BY <2>1, ModNext
  <2> QED BY <2>1, <2>2, Zenon
<1>2. (off + 1) % N = IncrementOffset(off)
  <2>1. off \in Nat /\ off % N = off
    BY ModSmall DEF Slots
  <2>2. (off + 1) % N = IncrementOffset(off % N)
    BY <2>1, ModNext
  <2> QED BY <2>1, <2>2
<1>3. g = Def(g)
  <2>1. ASSUME NEW i \in 1..N
        PROVE  g[i] = IF i = 1 THEN IncrementOffset(off) ELSE IncrementOffset(g[i - 1])
    <3>1. CASE i = 1
      BY <1>2, <3>1
    <3>2. CASE i # 1
      <4>1. i \in Nat /\ i >= 1 /\ i - 1 \in 1..N
        BY <3>2
      <4>2. (off + i) % N = IncrementOffset((off + (i - 1)) % N)
        BY <1>1, <4>1
      <4> QED BY <3>2, <4>1, <4>2
    <3> QED BY <3>1, <3>2
  <2> QED BY <2>1
<1> HIDE DEF g, Def
<1>4. slot = Def(slot)
  BY <1>3
<1> HIDE DEF slot
<1>5. ASSUME NEW i \in 1..N
      PROVE  slot[i] = IF i = 1 THEN IncrementOffset(off) ELSE IncrementOffset(slot[i - 1])
  BY <1>4 DEF Def
<1>6. \A i \in 1..N : slot[i] = (off + i) % N
  <2> DEFINE T == {i \in 1..N : slot[i] # (off + i) % N}
  <2> SUFFICES ASSUME T # {} PROVE FALSE
    OBVIOUS
  <2>1. PICK k \in T : \A y \in T : k <= y
    <3>1. T \subseteq Nat
      OBVIOUS
    <3> QED BY <3>1, LeastNatural
  <2>2. k # 1
    BY <1>2, <1>5
  <2>3. k - 1 \in 1..N /\ k \in Nat /\ k >= 1
    BY <2>2
  <2>4. slot[k - 1] = (off + (k - 1)) % N
    <3>1. k - 1 \notin T
      BY <2>1, <2>3
    <3> QED BY <2>3, <3>1
  <2>5. slot[k] = IncrementOffset(slot[k - 1])
    BY <1>5, <2>2
  <2>6. (off + k) % N = IncrementOffset((off + (k - 1)) % N)
    BY <1>1, <2>3
  <2>7. slot[k] = (off + k) % N
    BY <2>4, <2>5, <2>6
  <2> QED BY <2>7
<1> QED BY <1>6 DEF slot, Def

\* The slots that getPrevious() visits.
LEMMA PreviousSlots ==
  ASSUME NEW off \in Slots
  PROVE  LET slot[i \in 1..N] == IF i = 1 THEN DecrementOffset(off)
                                          ELSE DecrementOffset(slot[i - 1])
         IN  \A i \in 1..N : slot[i] = (off + (N - i)) % N
<1> USE EntryAssumption
<1> DEFINE g == [i \in 1..N |-> (off + (N - i)) % N]
           Def(f) == [i \in 1..N |-> IF i = 1 THEN DecrementOffset(off)
                                              ELSE DecrementOffset(f[i - 1])]
           slot == CHOOSE f : f = Def(f)
<1>1. ASSUME NEW a \in Nat PROVE DecrementOffset((a + 1) % N) = a % N
  <2>1. (a + 1) % N = IncrementOffset(a % N) /\ a % N \in Slots
    BY ModNext
  <2> QED BY <2>1, DecrementIncrement
<1>2. (off + (N - 1)) % N = DecrementOffset(off)
  <2>1. off + (N - 1) \in Nat /\ off + (N - 1) + 1 = N * 1 + off /\ off \in 0..N - 1
    BY DEF Slots
  <2>2. (N * 1 + off) % N = off
    BY <2>1, ModUnique
  <2>3. (off + (N - 1) + 1) % N = off
    BY <2>1, <2>2, Zenon
  <2> QED BY <1>1, <2>1, <2>3
<1>3. ASSUME NEW k \in 2..N
      PROVE  (off + (N - k)) % N = DecrementOffset((off + (N - (k - 1))) % N)
  <2>1. off + (N - k) \in Nat /\ off + (N - (k - 1)) = (off + (N - k)) + 1
    BY DEF Slots
  <2>2. DecrementOffset(((off + (N - k)) + 1) % N) = (off + (N - k)) % N
    BY <1>1, <2>1
  <2> QED BY <2>1, <2>2
<1>4. g = Def(g)
  <2>1. ASSUME NEW i \in 1..N
        PROVE  g[i] = IF i = 1 THEN DecrementOffset(off) ELSE DecrementOffset(g[i - 1])
    <3>1. CASE i = 1
      BY <1>2, <3>1
    <3>2. CASE i # 1
      <4>1. i \in 2..N /\ i - 1 \in 1..N
        BY <3>2
      <4>2. (off + (N - i)) % N = DecrementOffset((off + (N - (i - 1))) % N)
        BY <1>3, <4>1
      <4> QED BY <3>2, <4>1, <4>2
    <3> QED BY <3>1, <3>2
  <2> QED BY <2>1
<1> HIDE DEF g, Def
<1>5. slot = Def(slot)
  BY <1>4
<1> HIDE DEF slot
<1>6. ASSUME NEW i \in 1..N
      PROVE  slot[i] = IF i = 1 THEN DecrementOffset(off) ELSE DecrementOffset(slot[i - 1])
  BY <1>5 DEF Def
<1>7. \A i \in 1..N : slot[i] = (off + (N - i)) % N
  <2> DEFINE T == {i \in 1..N : slot[i] # (off + (N - i)) % N}
  <2> SUFFICES ASSUME T # {} PROVE FALSE
    OBVIOUS
  <2>1. PICK k \in T : \A y \in T : k <= y
    <3>1. T \subseteq Nat
      OBVIOUS
    <3> QED BY <3>1, LeastNatural
  <2>2. k # 1
    BY <1>2, <1>6
  <2>3. k - 1 \in 1..N /\ k \in 2..N
    BY <2>2
  <2>4. slot[k - 1] = (off + (N - (k - 1))) % N
    <3>1. k - 1 \notin T
      BY <2>1, <2>3
    <3> QED BY <2>3, <3>1
  <2>5. slot[k] = DecrementOffset(slot[k - 1])
    BY <1>6, <2>2
  <2>6. (off + (N - k)) % N = DecrementOffset((off + (N - (k - 1))) % N)
    BY <1>3, <2>3
  <2>7. slot[k] = (off + (N - k)) % N
    BY <2>4, <2>5, <2>6
  <2> QED BY <2>7
<1> QED BY <1>7 DEF slot, Def

\* As long as no write fails, the entries are no more than a ring apart: the
\* one that is overwritten is the oldest.
WindowInv ==
    faults = 0 =>
      /\ \A s, u \in Valid : slots[s] - slots[u] < N
      /\ pc \in {"ready", "crc"} => \A s \in Valid : latest.ts - slots[s] < N
      /\ pc = "entry" => \A s \in Valid : latest.ts - slots[s] <= N

\* A head that scanAllEntries() finds is one of the entries, if there are any.
LEMMA ScannedInWindow ==
  ASSUME TypeOK, NEW r \in Places, Scanned(r), \A s, u \in Valid : slots[s] - slots[u] < N
  PROVE  \A s \in Valid : r.ts - slots[s] < N
<1> SUFFICES ASSUME NEW s \in Valid PROVE r.ts - slots[s] < N
  OBVIOUS
<1>1. slots[s] \in Nat /\ slots[s] # 0 /\ slots[s] <= r.ts /\ r.ts \in Nat /\ r.off \in Slots
  BY DEF Scanned, TypeOK, Valid, Places
<1>2. r.off \in Valid /\ slots[r.off] = r.ts
  BY <1>1 DEF Scanned, Valid
<1> QED BY <1>2

\* Every step keeps the entries within a ring.
LEMMA WindowStep == RingInv /\ WindowInv /\ [Next]_vars => WindowInv'
<1> SUFFICES ASSUME RingInv, WindowInv, [Next]_vars, faults' = 0 PROVE WindowInv'
  BY DEF WindowInv
<1> USE EntryAssumption
<1>0. /\ TypeOK /\ TypeOK' /\ faults = 0
      /\ \A s \in Valid : slots[s] \in 1..MaxIndex
      /\ \A s, u \in Valid : slots[s] - slots[u] < N
  <2>1. TypeOK /\ TypeOK'
    BY RingStep DEF RingInv, InStep
  <2>2. faults = 0
    BY <2>1 DEF TypeOK, Next, vars, Start, WriteIndex, Fault, AddIndex, AddIndexFails,
                AddEntryBegin, AddEntryEnd, AddEntryNothing, AddEntryFails, ClearBegin,
                ClearSlot, ClearEnd,
                ClearFails, PowerFail
  <2> QED BY <2>1, <2>2 DEF WindowInv, TypeOK, Valid
<1>1. ASSUME UNCHANGED slots PROVE Valid' = Valid
  BY <1>1 DEF Valid
<1>2. ASSUME UNCHANGED slots, pc' = "ready", latest' \in Places, Scanned(latest')
      PROVE  WindowInv'
  BY <1>0, <1>1, <1>2, ScannedInWindow DEF WindowInv
<1>3. CASE UNCHANGED vars
  BY <1>0, <1>1, <1>3 DEF vars, WindowInv
<1>4. CASE Start
  BY <1>2, <1>4, StartFinds DEF Start, Scanned
<1>5. CASE AddIndex
  <2>1. /\ pc = "ready" /\ pc' = "entry" /\ UNCHANGED slots
        /\ latest'.ts = latest.ts + 1 /\ latest.ts \in Nat
    BY <1>0, <1>5 DEF AddIndex, TypeOK, Places
  <2>2. \A s \in Valid : latest'.ts - slots[s] <= N
    BY <1>0, <2>1 DEF WindowInv
  <2> QED BY <1>0, <1>1, <2>1, <2>2 DEF WindowInv
<1>6. ~AddIndexFails /\ ~AddEntryNothing /\ ~AddEntryFails /\ ~ClearFails
  BY <1>0 DEF AddIndexFails, AddEntryNothing, AddEntryFails, ClearFails, Fault
<1>7. CASE AddEntryBegin
  <2> DEFINE o == latest.off
             t == latest.ts
  <2>1. /\ pc = "entry" /\ pc' = "crc" /\ UNCHANGED latest
        /\ slots' = [slots EXCEPT ![o] = 0] /\ o \in Slots /\ t \in Nat
    BY <1>0, <1>7 DEF AddEntryBegin, TypeOK, Places
  <2>2. t % N = o /\ \A s \in Valid : slots[s] % N = s /\ slots[s] < t /\ t - slots[s] <= N
    BY <1>0, <2>1 DEF RingInv, InStep, IndexAhead, WindowInv
  <2> HIDE DEF o, t
  <2>3. \A s \in Valid' : s \in Valid /\ slots'[s] = slots[s] /\ s # o
    BY <1>0, <2>1, RingShrinks DEF TypeOK, Valid
  <2>4. ASSUME NEW s \in Valid, t - slots[s] = N PROVE s = o
    <3>1. slots[s] \in Nat /\ t = slots[s] + N /\ N % N = 0 /\ s \in Slots
      BY <1>0, <2>1, <2>4 DEF Valid
    <3>2. (slots[s] + N) % N = (s + N) % N
      BY <2>2, <3>1, ModAdd
    <3>3. (N * 1 + s) % N = s /\ s + N = N * 1 + s
      BY <3>1, ModUnique DEF Slots
    <3> QED BY <2>2, <3>1, <3>2, <3>3
  <2>5. \A s \in Valid' : t - slots'[s] < N
    BY <1>0, <2>1, <2>2, <2>3, <2>4
  <2> QED BY <1>0, <2>1, <2>3, <2>5 DEF WindowInv, t
<1>8. CASE AddEntryEnd
  <2> DEFINE o == latest.off
             t == latest.ts
  <2>1. /\ pc = "crc" /\ pc' = "ready" /\ UNCHANGED latest
        /\ slots' = [slots EXCEPT ![o] = t] /\ o \in Slots /\ t \in Nat
        /\ \A s \in Valid : t - slots[s] < N /\ slots[s] < t
    BY <1>0, <1>8 DEF AddEntryEnd, RingInv, IndexAhead, TypeOK, Places, WindowInv
  <2> HIDE DEF o, t
  <2>2. \A s \in Valid' : slots'[s] = t \/ (s \in Valid /\ slots'[s] = slots[s])
    BY <1>0, <2>1 DEF Valid, TypeOK
  <2>3. \A s, u \in Valid' : slots'[s] - slots'[u] < N
    BY <1>0, <2>1, <2>2
  <2>4. \A s \in Valid' : t - slots'[s] < N
    BY <1>0, <2>1, <2>2
  <2> QED BY <2>1, <2>3, <2>4 DEF WindowInv, t
<1>9. CASE ClearBegin
  BY <1>0, <1>1, <1>9 DEF ClearBegin, WindowInv
<1>10. CASE ClearSlot
  <2>1. \A s \in Valid' : s \in Valid /\ slots'[s] = slots[s]
    BY <1>0, <1>10, RingShrinks DEF ClearSlot, TypeOK
  <2> QED BY <1>0, <1>10, <2>1 DEF ClearSlot, WindowInv
<1>11. CASE ClearEnd
  BY <1>2, <1>11, ClearEndRing DEF ClearEnd, Scanned
<1>12. CASE PowerFail
  BY <1>0, <1>1, <1>12 DEF PowerFail, WindowInv
<1> QED
  BY <1>3, <1>4, <1>5, <1>6, <1>7, <1>8, <1>9, <1>10, <1>11, <1>12 DEF Next

\* Minima and maxima are what they are chosen to be.
LEMMA MinIs ==
  ASSUME NEW S, S \subseteq Nat, NEW x \in S, \A y \in S : x <= y
  PROVE  Min(S) = x
<1>1. Min(S) \in S /\ \A y \in S : Min(S) =< y
  BY DEF Min
<1>2. Min(S) <= x /\ x <= Min(S) /\ Min(S) \in Nat /\ x \in Nat
  BY <1>1
<1> QED BY <1>2

\* See MinIs.
LEMMA MaxIs ==
  ASSUME NEW S, S \subseteq Nat, NEW x \in S, \A y \in S : x >= y
  PROVE  Max(S) = x
<1>1. Max(S) \in S /\ \A y \in S : Max(S) >= y
  BY DEF Max
<1>2. Max(S) <= x /\ x <= Max(S) /\ Max(S) \in Nat /\ x \in Nat
  BY <1>1
<1> QED BY <1>2

\* Two index values for one slot that are less than a ring apart are equal.
LEMMA SameSlot ==
  ASSUME NEW a \in Nat, NEW b \in Nat, a % N = b % N, a < b + N, b < a + N
  PROVE  a = b
<1> USE EntryAssumption
<1>1. a < b => a + N <= b
  BY ModApart
<1>2. b < a => b + N <= a
  BY ModApart
<1> QED BY <1>1, <1>2

\* Where readers look when all entries are within a ring of each other.
Ring == /\ \A u \in Valid : slots[u] % N = u /\ slots[u] \in Nat /\ slots[u] # 0
        /\ \A u, v \in Valid : slots[u] - slots[v] < N

\* getNext() comes to the newer entries in the order of their index values.
LEMMA NextFinds ==
  ASSUME TypeOK, Ring, NEW s \in Valid
  PROVE  LET newer == {slots[u] : u \in Valid} \cap slots[s] + 1..MaxIndex
         IN  GetNext(slots[s], s) = IF newer = {} THEN 0 ELSE Min(newer)
<1> USE EntryAssumption
<1> DEFINE x == slots[s]
           newer == {slots[u] : u \in Valid} \cap x + 1..MaxIndex
           at(i) == (s + i) % N
           found == {i \in 1..N - 1 : slots[at(i)] > x}
<1>0. found \subseteq Nat /\ found \subseteq 1..N
  OBVIOUS
<1>1. /\ s \in Slots /\ x \in Nat /\ x % N = s
      /\ \A u \in Slots : slots[u] \in 0..MaxIndex
  BY DEF Ring, TypeOK, Valid
<1>2. GetNext(x, s) = IF found = {} THEN 0 ELSE slots[at(Min(found))]
  <2> DEFINE slot[i \in 1..N] == IF i = 1 THEN IncrementOffset(s)
                                          ELSE IncrementOffset(slot[i - 1])
             foundSlots == {i \in 1..N - 1 : slots[slot[i]] > x}
  <2>1. \A i \in 1..N : slot[i] = at(i)
    BY <1>1, NextSlots
  <2>2. GetNext(x, s) = IF foundSlots = {} THEN 0 ELSE slots[slot[Min(foundSlots)]]
    BY DEF GetNext
  <2> HIDE DEF slot
  <2>3. foundSlots = found
    BY <2>1
  <2>4. ASSUME found # {} PROVE Min(found) \in 1..N
    <3> HIDE DEF found
    <3>1. PICK k \in found : \A y \in found : k <= y
      BY <1>0, <2>4, LeastNatural
    <3>2. Min(found) = k
      BY <1>0, <3>1, MinIs
    <3> QED BY <1>0, <3>2
  <2> HIDE DEF x, found, foundSlots
  <2>5. CASE found = {}
    BY <2>2, <2>3, <2>5
  <2>6. CASE found # {}
    <3>1. slot[Min(found)] = at(Min(found))
      BY <2>1, <2>4, <2>6
    <3> QED BY <2>2, <2>3, <2>6, <3>1
  <2> QED BY <2>5, <2>6
<1>3. ASSUME NEW i \in found PROVE slots[at(i)] = x + i /\ x + i \in newer
  <2>1. i \in Nat /\ i \in 1..N - 1 /\ s + i \in Nat /\ slots[at(i)] > x
    BY <1>1 DEF Slots
  <2>2. at(i) \in Slots /\ (x + i) % N = at(i)
    <3> HIDE DEF x
    <3>1. (x + i) % N = ((x % N) + i) % N
      BY <1>1, <2>1, ModAdd
    <3> QED BY <1>1, <2>1, <3>1, ModNext
  <2> HIDE DEF at
  <2>3. at(i) \in Valid
    BY <1>1, <2>1, <2>2 DEF Valid
  <2>4. slots[at(i)] \in Nat /\ slots[at(i)] % N = at(i) /\ slots[at(i)] - x < N
    BY <2>3 DEF Ring
  <2>5. slots[at(i)] = x + i
    <3>1. x + i \in Nat /\ slots[at(i)] % N = (x + i) % N
      BY <1>1, <2>1, <2>2, <2>4, SMTT(30)
    <3>2. slots[at(i)] < (x + i) + N /\ x + i < slots[at(i)] + N
      BY <1>1, <2>1, <2>4
    <3> QED BY <2>4, <3>1, <3>2, SameSlot
  <2>6. slots[at(i)] \in x + 1..MaxIndex
    BY <1>1, <2>1, <2>2, <2>4
  <2> QED BY <2>3, <2>5, <2>6
<1>4. ASSUME NEW v \in newer PROVE v - x \in found
  <2>1. PICK u \in Valid : v = slots[u]
    OBVIOUS
  <2>2. v \in Nat /\ v > x /\ v - x < N /\ v % N = u /\ u \in Slots
    BY <1>1, <2>1 DEF Ring, Valid
  <2>3. v - x \in 1..N - 1 /\ x + (v - x) = v
    BY <1>1, <2>2
  <2>4. at(v - x) = u
    <3> HIDE DEF x
    <3>1. PICK d \in Nat : d = v - x
      BY <2>3
    <3>2. (x + d) % N = ((x % N) + d) % N
      BY <1>1, ModAdd
    <3> QED BY <1>1, <2>2, <2>3, <3>1, <3>2
  <2> QED BY <2>1, <2>2, <2>3, <2>4
<1>5. ASSUME found = {} PROVE GetNext(x, s) = IF newer = {} THEN 0 ELSE Min(newer)
  <2>1. newer = {}
    BY <1>4, <1>5
  <2> HIDE DEF newer, found, at, x
  <2> QED BY <1>2, <1>5, <2>1
<1>6. ASSUME found # {} PROVE GetNext(x, s) = IF newer = {} THEN 0 ELSE Min(newer)
  <2>1. newer \subseteq Nat
    BY <1>1 DEF Ring
  <2> HIDE DEF newer, found, at, x
  <2>2. PICK k \in found : \A y \in found : k <= y
    BY <1>0, <1>6, LeastNatural
  <2>3. Min(found) = k /\ k \in Nat
    BY <1>0, <2>2, MinIs
  <2>4. slots[at(k)] = x + k /\ x + k \in newer
    BY <1>3
  <2>5. ASSUME NEW v \in newer PROVE x + k <= v
    <3>1. k <= v - x /\ v \in Nat
      BY <1>4, <2>2, <2>1
    <3> QED BY <1>1, <2>3, <3>1
  <2>6. Min(newer) = x + k
    BY <2>4, <2>1, <2>5, MinIs
  <2> QED BY <1>2, <1>6, <2>3, <2>4, <2>6
<1>7. GetNext(x, s) = IF newer = {} THEN 0 ELSE Min(newer)
  <2> HIDE DEF newer, found, at, x
  <2> QED BY <1>5, <1>6
<1> QED BY <1>7

\* getPrevious() comes to the older entries in the reverse order.
LEMMA PreviousFinds ==
  ASSUME TypeOK, Ring, NEW s \in Valid
  PROVE  LET older == {slots[u] : u \in Valid} \cap 1..slots[s] - 1
         IN  GetPrevious(slots[s], s) = IF older = {} THEN 0 ELSE Max(older)
<1> USE EntryAssumption
<1> DEFINE x == slots[s]
           older == {slots[u] : u \in Valid} \cap 1..x - 1
           at(i) == (s + (N - i)) % N
           found == {i \in 1..N - 1 : slots[at(i)] \in 1..x - 1}
<1>0. found \subseteq Nat /\ found \subseteq 1..N
  OBVIOUS
<1>1. /\ s \in Slots /\ x \in Nat /\ x % N = s
      /\ \A u \in Slots : slots[u] \in 0..MaxIndex
  BY DEF Ring, TypeOK, Valid
<1>2. GetPrevious(x, s) = IF found = {} THEN 0 ELSE slots[at(Min(found))]
  <2> DEFINE slot[i \in 1..N] == IF i = 1 THEN DecrementOffset(s)
                                          ELSE DecrementOffset(slot[i - 1])
             foundSlots == {i \in 1..N - 1 : slots[slot[i]] \in 1..x - 1}
  <2>1. \A i \in 1..N : slot[i] = at(i)
    BY <1>1, PreviousSlots
  <2>2. GetPrevious(x, s) = IF foundSlots = {} THEN 0 ELSE slots[slot[Min(foundSlots)]]
    BY DEF GetPrevious
  <2> HIDE DEF slot
  <2>3. foundSlots = found
    BY <2>1
  <2>4. ASSUME found # {} PROVE Min(found) \in 1..N
    <3> HIDE DEF found
    <3>1. PICK k \in found : \A y \in found : k <= y
      BY <1>0, <2>4, LeastNatural
    <3>2. Min(found) = k
      BY <1>0, <3>1, MinIs
    <3> QED BY <1>0, <3>2
  <2> HIDE DEF x, found, foundSlots
  <2>5. CASE found = {}
    BY <2>2, <2>3, <2>5
  <2>6. CASE found # {}
    <3>1. slot[Min(found)] = at(Min(found))
      BY <2>1, <2>4, <2>6
    <3> QED BY <2>2, <2>3, <2>6, <3>1
  <2> QED BY <2>5, <2>6
<1>3. ASSUME NEW i \in found PROVE slots[at(i)] = x - i /\ x - i \in older
  <2>1. i \in Nat /\ i \in 1..N - 1 /\ N - i \in Nat /\ s + (N - i) \in Nat
        /\ slots[at(i)] \in 1..x - 1
    BY <1>1 DEF Slots
  <2>2. at(i) \in Slots
    BY <2>1, ModNext
  <2>3. (at(i) + i) % N = s
    <3>1. ((s + (N - i)) + i) % N = (at(i) + i) % N
      BY <2>1, ModAdd
    <3>2. (s + (N - i)) + i = N * 1 + s /\ (N * 1 + s) % N = s
      BY <1>1, <2>1, ModUnique DEF Slots
    <3> QED BY <3>1, <3>2
  <2> HIDE DEF at
  <2>4. at(i) \in Valid
    BY <2>1, <2>2 DEF Valid
  <2>5. slots[at(i)] \in Nat /\ slots[at(i)] % N = at(i) /\ x - slots[at(i)] < N
    BY <2>4 DEF Ring
  <2>6. slots[at(i)] + i = x
    <3>1. (slots[at(i)] + i) % N = x % N /\ slots[at(i)] + i \in Nat
      BY <1>1, <2>1, <2>3, <2>5, ModAdd, SMTT(30)
    <3>2. slots[at(i)] + i < x + N /\ x < (slots[at(i)] + i) + N
      BY <1>1, <2>1, <2>5
    <3> QED BY <1>1, <3>1, <3>2, SameSlot
  <2>7. slots[at(i)] = x - i
    BY <1>1, <2>1, <2>5, <2>6
  <2> QED BY <2>1, <2>4, <2>7
<1>4. ASSUME NEW v \in older PROVE x - v \in found
  <2>1. PICK u \in Valid : v = slots[u]
    OBVIOUS
  <2>2. v \in Nat /\ v \in 1..x - 1 /\ x - v < N /\ v % N = u /\ u \in Slots
    BY <1>1, <2>1 DEF Ring, Valid
  <2>3. x - v \in 1..N - 1 /\ v + N = x + (N - (x - v))
    BY <1>1, <2>2
  <2>4. at(x - v) = u
    <3> HIDE DEF x
    <3>1. PICK d \in Nat : d = N - (x - v)
      BY <2>3
    <3>2. (x + d) % N = ((x % N) + d) % N
      BY <1>1, ModAdd
    <3>3. (v + N) % N = ((v % N) + N) % N
      BY <2>2, ModAdd
    <3>4. u + N = N * 1 + u /\ (N * 1 + u) % N = u
      BY <2>2, ModUnique DEF Slots
    <3> QED BY <1>1, <2>2, <2>3, <3>1, <3>2, <3>3, <3>4
  <2> QED BY <2>1, <2>2, <2>3, <2>4
<1>5. ASSUME found = {} PROVE GetPrevious(x, s) = IF older = {} THEN 0 ELSE Max(older)
  <2>1. older = {}
    BY <1>4, <1>5
  <2> HIDE DEF older, found, at, x
  <2> QED BY <1>2, <1>5, <2>1
<1>6. ASSUME found # {} PROVE GetPrevious(x, s) = IF older = {} THEN 0 ELSE Max(older)
  <2>1. older \subseteq Nat
    BY <1>1 DEF Ring
  <2> HIDE DEF older, found, at, x
  <2>2. PICK k \in found : \A y \in found : k <= y
    BY <1>0, <1>6, LeastNatural
  <2>3. Min(found) = k /\ k \in Nat
    BY <1>0, <2>2, MinIs
  <2>4. slots[at(k)] = x - k /\ x - k \in older
    BY <1>3
  <2>5. ASSUME NEW v \in older PROVE x - k >= v
    <3>1. k <= x - v /\ v \in Nat
      BY <1>4, <2>1, <2>2
    <3> QED BY <1>1, <2>3, <3>1
  <2>6. Max(older) = x - k
    BY <2>1, <2>4, <2>5, MaxIs
  <2> QED BY <1>2, <1>6, <2>3, <2>4, <2>6
<1>7. GetPrevious(x, s) = IF older = {} THEN 0 ELSE Max(older)
  <2> HIDE DEF older, found, at, x
  <2> QED BY <1>5, <1>6
<1> QED BY <1>7

\* In a ring of any size readers that follow their markers miss no entry and
\* see none twice, while no write fails and no entry is without data.
THEOREM TraversalAlways == Spec => []Traversal
<1> USE EntryAssumption
<1>1. RingInv /\ WindowInv => Traversal
  <2> SUFFICES ASSUME RingInv, WindowInv, pc = "ready", faults = 0, NEW s \in Valid
               PROVE  LET newer == {slots[u] : u \in Valid} \cap slots[s] + 1..MaxIndex
                          older == {slots[u] : u \in Valid} \cap 1..slots[s] - 1
                      IN  /\ GetNext(slots[s], s) = IF newer = {} THEN 0 ELSE Min(newer)
                          /\ GetPrevious(slots[s], s) = IF older = {} THEN 0 ELSE Max(older)
    BY DEF Traversal
  <2>1. TypeOK /\ Ring
    BY DEF RingInv, InStep, TypeOK, Valid, WindowInv, Ring
  <2> QED BY <2>1, NextFinds, PreviousFinds
<1>2. Init => RingInv /\ WindowInv
  <2>1. Init => WindowInv
    BY DEF Init, WindowInv, Valid, Slots
  <2> QED BY <2>1, RingInit
<1>3. RingInv /\ WindowInv /\ [Next]_vars => RingInv' /\ WindowInv'
  BY RingStep, WindowStep
<1> QED BY <1>1, <1>2, <1>3, PTL DEF Spec
=============================================================================
