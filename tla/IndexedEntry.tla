----------------------------- MODULE IndexedEntry -----------------------------
(***************************************************************************)
(* Cpl::Persistent::IndexedEntryRecord: a log of entries in a ring of N    *)
(* slots of a region, each framed by a CRC (CrcChunk), with an index       *)
(* record (IndexRecord) that says where the newest one is.                 *)
(*                                                                         *)
(* addEntry() writes the index record first and the entry second; power    *)
(* fails at any point, writes of the media may fail, a payload may have    *)
(* no data, and start() finds out what is left.  An entry is its index     *)
(* value ("timestamp"), 0 stands for a slot whose CRC is wrong.  The       *)
(* index record is a mirrored chunk, so that an interrupted write leaves   *)
(* the old or the new one (MirroredChunk); start() must also live with its *)
(* loss.                                                                   *)
(***************************************************************************)
EXTENDS Integers, Sequences, FiniteSets, FiniteSetsExt

CONSTANTS N,           \* m_maxEntries
          MaxIndex,    \* bound on the index values
          MaxFaults    \* bound on the faults

ASSUME EntryAssumption ==
    /\ N \in Nat \ {0}
    /\ MaxIndex \in Nat
    /\ MaxFaults \in Nat

VARIABLES
    slots,       \* the entry region
    index,       \* the index record in the media
    latest,      \* m_latestOffset and m_latestTimestamp
    pc,          \* what the thread of the record server is doing
    pos,         \* the slot that clearAllEntries() has come to
    faults,      \* number of failed writes and of entries without data
    failed,      \* history: an entry was not written since start()
    recent,      \* history: the last N - 1 attempts to write an entry, 0 for
                 \* those that were not acknowledged
    acked        \* history: index values acknowledged since the last clear

vars == <<slots, index, latest, pc, pos, faults, failed, recent, acked>>
history == <<failed, recent, acked>>

Slots == 0..N - 1
Empty == [off |-> 0, ts |-> 0]
Valid == {s \in Slots : slots[s] # 0}

\* Faulty: the last slot is never used.
IncrementOffsetShort(off) == IF off + 1 >= N - 1 THEN 0 ELSE off + 1

\* incrementOffset() and decrementOffset(), in slots
IncrementOffset(off) == IF off + 1 > N - 1 THEN 0 ELSE off + 1
DecrementOffset(off) == IF off = 0 THEN N - 1 ELSE off - 1

\* Faulty: the first valid entry is taken for the newest.
FirstEntry(ring) ==
    LET found == {s \in Slots : ring[s] # 0}
    IN  IF found = {} THEN Empty ELSE [off |-> Min(found), ts |-> ring[Min(found)]]

\* scanAllEntries()
ScanAllEntries(ring) ==
    LET found == {s \in Slots : ring[s] # 0}
        newest == CHOOSE s \in found : \A u \in found : ring[u] <= ring[s]
    IN  IF found = {} THEN Empty ELSE [off |-> newest, ts |-> ring[newest]]

-----------------------------------------------------------------------------
(* What readers get: the index value of the entry found, or 0.             *)

GetLatest == slots[latest.off]

\* Faulty: the search begins at the marker itself and ends one slot early.
SearchEarly(newerThan, off) ==
    LET at(i) == (off + i) % N
        found == {i \in 0..N - 2 : slots[at(i)] > newerThan}
    IN  IF found = {} THEN 0 ELSE slots[at(Min(found))]

\* getNext(): the first newer entry of the N - 1 slots after the marker.
GetNext(newerThan, off) ==
    LET slot[i \in 1..N] == IF i = 1 THEN IncrementOffset(off)
                                     ELSE IncrementOffset(slot[i - 1])
        found == {i \in 1..N - 1 : slots[slot[i]] > newerThan}
    IN  IF found = {} THEN 0 ELSE slots[slot[Min(found)]]

\* getPrevious()
GetPrevious(olderThan, off) ==
    LET slot[i \in 1..N] == IF i = 1 THEN DecrementOffset(off)
                                     ELSE DecrementOffset(slot[i - 1])
        found == {i \in 1..N - 1 : slots[slot[i]] \in 1..olderThan - 1}
    IN  IF found = {} THEN 0 ELSE slots[slot[Min(found)]]

\* Faulty: buffer indexes are slot numbers.
GetByBufferIndexRaw(i) == IF i > N - 1 THEN 0 ELSE slots[i]

\* getByBufferIndex(): the first entry is in slot 1.
GetByBufferIndex(i) ==
    IF i > N - 1 THEN 0 ELSE IF i + 1 > N - 1 THEN slots[0] ELSE slots[i + 1]

-----------------------------------------------------------------------------
Init ==
    /\ slots = [s \in Slots |-> 0]
    /\ index = Empty
    /\ latest = Empty
    /\ pc = "off" /\ pos = 0
    /\ faults = 0
    /\ failed = FALSE
    /\ recent = <<>>
    /\ acked = {}

Fault == faults < MaxFaults /\ faults' = faults + 1

\* The index record is written; when that fails it is the old or the new one.
WriteIndex(new) ==
    \/ index' = new /\ UNCHANGED faults
    \/ index' \in {index, new} /\ Fault

\* Faulty: the index record is believed when there is any entry.
VerifyIndexExists(loaded) == slots[loaded.off] # 0

\* The check of verifyIndex()
VerifyIndex(loaded) == slots[loaded.off] # 0 /\ slots[loaded.off] = loaded.ts

\* start(), with the index record as it was written, or lost
Start ==
    /\ pc = "off"
    /\ \E loaded \in {index, Empty} :
         \/ /\ VerifyIndex(loaded)
            /\ latest' = loaded
            /\ UNCHANGED <<index, faults>>
         \/ /\ ~VerifyIndex(loaded)
            /\ latest' = ScanAllEntries(slots)
            /\ WriteIndex(ScanAllEntries(slots))
    /\ pc' = "ready"
    /\ failed' = FALSE
    /\ UNCHANGED <<slots, pos, recent, acked>>

\* Faulty: the head does not move with the index value.
AddIndexOnly ==
    /\ pc = "ready" /\ latest.ts < MaxIndex
    /\ latest' = [latest EXCEPT !.ts = @ + 1]
    /\ index' = latest'
    /\ pc' = "entry"
    /\ UNCHANGED <<slots, pos, faults, history>>

\* addEntry(): the index record is written, ...
AddIndex ==
    /\ pc = "ready" /\ latest.ts < MaxIndex
    /\ latest' = [off |-> IncrementOffset(latest.off), ts |-> latest.ts + 1]
    /\ index' = latest'
    /\ pc' = "entry"
    /\ UNCHANGED <<slots, pos, faults, history>>

\* (or is not, and addEntry() returns false)
AddIndexFails ==
    /\ pc = "ready" /\ latest.ts < MaxIndex
    /\ Fault
    /\ index' \in {index, [off |-> IncrementOffset(latest.off),
                           ts |-> latest.ts + 1]}
    /\ UNCHANGED <<slots, latest, pc, pos, history>>

Attempt ==
    recent' = IF N = 1 THEN <<>>
              ELSE IF Len(recent) = N - 1 THEN Append(Tail(recent), 0)
              ELSE Append(recent, 0)

\* ... then the length, the payload and the CRC of the entry; until then the
\* slot is invalid, ...
AddEntryBegin ==
    /\ pc = "entry"
    /\ slots' = [slots EXCEPT ![latest.off] = 0]
    /\ Attempt
    /\ pc' = "crc"
    /\ UNCHANGED <<index, latest, pos, faults, failed, acked>>

AddEntryEnd ==
    /\ pc = "crc"
    /\ slots' = [slots EXCEPT ![latest.off] = latest.ts]
    /\ pc' = "ready"
    /\ recent' = IF N = 1 THEN <<>> ELSE [recent EXCEPT ![Len(recent)] = latest.ts]
    /\ acked' = acked \cup {latest.ts}
    /\ UNCHANGED <<index, latest, pos, faults, failed>>

\* ... or nothing is written, because the payload has no data (or the writes
\* fail from the first on): the head has moved all the same.
AddEntryNothing ==
    /\ pc = "entry"
    /\ Fault
    /\ Attempt
    /\ pc' = "ready"
    /\ failed' = TRUE
    /\ UNCHANGED <<slots, index, latest, pos, acked>>

\* A write fails and those after it are done: the slot stays invalid, or it
\* gets its entry in spite of the error.
AddEntryFails ==
    /\ pc = "crc"
    /\ Fault
    /\ slots' \in {slots, [slots EXCEPT ![latest.off] = latest.ts]}
    /\ pc' = "ready"
    /\ failed' = TRUE
    /\ UNCHANGED <<index, latest, pos, recent, acked>>

\* clearAllEntries(): slot by slot, ...
ClearBegin ==
    /\ pc = "ready"
    /\ pc' = "clear" /\ pos' = 0
    /\ UNCHANGED <<slots, index, latest, faults, history>>

ClearSlot ==
    /\ pc = "clear" /\ pos < N
    /\ slots' = [slots EXCEPT ![pos] = 0]
    /\ recent' = [i \in 1..Len(recent) |->
                    IF recent[i] = slots[pos] THEN 0 ELSE recent[i]]
    /\ pos' = pos + 1
    /\ UNCHANGED <<index, latest, pc, faults, failed, acked>>

\* ... then the index record; after an error, with what is left.
ClearEnd ==
    /\ pc = "clear" /\ pos = N
    /\ latest' = Empty
    /\ WriteIndex(Empty)
    /\ pc' = "ready" /\ pos' = 0
    /\ failed' = FALSE /\ acked' = {}
    /\ UNCHANGED <<slots, recent>>

ClearFails ==
    /\ pc = "clear" /\ pos < N
    /\ Fault
    /\ latest' = ScanAllEntries(slots)
    /\ index' \in {index, latest'}
    /\ pc' = "ready" /\ pos' = 0
    /\ failed' = FALSE /\ acked' = {slots[s] : s \in Valid}
    /\ UNCHANGED <<slots, recent>>

\* Power fails; an interrupted clear has cleared what it has cleared.
PowerFail ==
    /\ pc # "off"
    /\ pc' = "off" /\ pos' = 0
    /\ latest' = Empty
    /\ failed' = FALSE
    /\ acked' = IF pc = "clear" THEN {slots[s] : s \in Valid} ELSE acked
    /\ UNCHANGED <<slots, index, faults, recent>>

Next ==
    \/ Start
    \/ AddIndex \/ AddIndexFails
    \/ AddEntryBegin \/ AddEntryEnd \/ AddEntryNothing \/ AddEntryFails
    \/ ClearBegin \/ ClearSlot \/ ClearEnd \/ ClearFails
    \/ PowerFail

Spec == Init /\ [][Next]_vars

-----------------------------------------------------------------------------
Places == [off : Slots, ts : 0..MaxIndex]

TypeOK ==
    /\ slots \in [Slots -> 0..MaxIndex]
    /\ index \in Places /\ latest \in Places
    /\ pc \in {"off", "ready", "entry", "crc", "clear"}
    /\ pos \in 0..N
    /\ faults \in 0..MaxFaults
    /\ failed \in BOOLEAN
    /\ recent \in UNION {[1..n -> 0..MaxIndex] : n \in Slots}
    /\ acked \subseteq 1..MaxIndex

\* Slots and index values go round in step, through restarts, failed writes
\* and interrupted clears: an entry is where its index value says, and so is
\* the head (addEntry(), verifyIndex(), scanAllEntries()).
InStep ==
    /\ TypeOK
    /\ \A s \in Valid : slots[s] % N = s
    /\ latest.ts % N = latest.off
    /\ \A s \in Valid : pc \in {"ready", "entry", "crc"} => slots[s] <= latest.ts

\* An acknowledged entry is in the media until it is cleared or N - 1 more
\* were begun, whatever failed in between (addEntry(), start()).
Kept ==
    \A i \in 1..Len(recent) : recent[i] # 0 => recent[i] \in {slots[s] : s \in Valid}

\* getLatest() finds the newest entry, and fails only when there is none,
\* as long as no entry failed to be written since start().
LatestIsNewest ==
    pc = "ready" /\ ~failed
        => GetLatest = Max({slots[s] : s \in Valid} \cup {0})

\* From an entry that is still there, getNext() finds the oldest newer entry
\* and getPrevious() the newest older one: readers that follow their markers
\* miss none and see none twice, while no write fails and no entry is without
\* data.
Traversal ==
    pc = "ready" /\ faults = 0 => \A s \in Valid :
        LET newer == {slots[u] : u \in Valid} \cap slots[s] + 1..MaxIndex
            older == {slots[u] : u \in Valid} \cap 1..slots[s] - 1
        IN  /\ GetNext(slots[s], s) = IF newer = {} THEN 0 ELSE Min(newer)
            /\ GetPrevious(slots[s], s) = IF older = {} THEN 0 ELSE Max(older)

\* Until the ring is full, buffer index i is the i-th entry since the last
\* clear (getByBufferIndex()).
BufferIndex ==
    pc = "ready" /\ faults = 0 /\ latest.ts < N /\ acked = 1..latest.ts
        => \A i \in 0..N - 1 : GetByBufferIndex(i) = IF i < latest.ts THEN i + 1 ELSE 0

\* No index value is given to two entries, "even across overwritten entries",
\* as long as fewer than N - 1 writes fail or entries have no data (addEntry(),
\* scanAllEntries()).
NoReuse == [][pc = "crc" /\ pc' = "ready" /\ faults' = faults
                => latest.ts \notin acked]_vars
=============================================================================
