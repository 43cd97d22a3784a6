---------------------------- MODULE MirroredChunk ----------------------------
(***************************************************************************)
(* Cpl::Persistent::MirroredChunk: one record kept as two copies, in       *)
(* regions A and B of the persistent media.  A copy is four fields written *)
(* by four separate RegionMedia::write() calls: transaction id, data       *)
(* length, payload and CRC.  Power can fail before, during and after each  *)
(* of them, a write or a read can fail, and the next start() has to find   *)
(* the newest copy that is whole.                                          *)
(*                                                                         *)
(* Abstractions.  A payload is an opaque value with a length.  The CRC is  *)
(* ideal: it is the triple of what it was computed over, so it matches     *)
(* exactly that triple.  A field that is blank or half written holds the   *)
(* garbage value of its kind (Blank): a copy holding one never passes its  *)
(* CRC.  The id does not wrap (it has 64 bits); MaxTransId bounds it.      *)
(***************************************************************************)
EXTENDS Naturals

CONSTANTS Payloads,        \* record contents Payload::getData() can return
          PayloadLen,      \* the length of each of them
          DataSpace,       \* region length less the frame overhead
          Zeros,           \* a work buffer of binary zeros
          Torn,            \* bytes that are no record's contents
          NoData,          \* no contents
          MaxTransId,      \* bound on m_transId
          MaxWriteFaults,  \* bound on the RegionMedia::write() calls that fail
          MaxReadFaults,   \* bound on the RegionMedia::read() calls that fail
          PowerFailsInErase  \* may power fail while the record is erased?

ASSUME PayloadAssumption ==
    /\ PayloadLen \in [Payloads -> Nat \ {0}]
    /\ Zeros \notin Payloads
    /\ Torn \notin Payloads
    /\ NoData \notin Payloads
    /\ Zeros # Torn
ASSUME BoundAssumption ==
    /\ DataSpace \in Nat
    /\ MaxTransId \in Nat
    /\ MaxWriteFaults \in Nat
    /\ MaxReadFaults \in Nat
    /\ PowerFailsInErase \in BOOLEAN

Region == {"A", "B"}
Other(r) == IF r = "A" THEN "B" ELSE "A"

RecordLens == {PayloadLen[p] : p \in Payloads}
Bytes == Payloads \cup {Zeros, Torn}

Crc(id, len, bytes) == [transId |-> id, dataLen |-> len, payload |-> bytes]
BadCrc == Crc(0, 0, Torn)
Blank == [transId |-> 0, dataLen |-> 0, payload |-> Torn, crc |-> BadCrc]

VARIABLES
    media,            \* the two copies
    m_transId, m_dataLen, m_currentRegion,
    g_workBuffer,     \* the buffer every chunk reads and writes through
    pc,               \* where the RecordServer's thread is
    i, invalidate, result,    \* locals of updateData()
    transRead, lenRead,       \* locals of loadData(): transA/B, dataLenA/B
    recordLen,        \* payload length of the running firmware's record
    delivered,        \* what loadData() gave to Payload::putData()
    writeFaults, readFaults

ram == <<m_transId, m_dataLen, m_currentRegion, g_workBuffer, pc, i,
         invalidate, result, transRead, lenRead, recordLen, delivered>>
vars == <<media, ram, writeFaults, readFaults>>

LoadPc  == {"readA", "readB", "select"}
WritePc == {"transId", "dataLen", "payload", "crc"}  \* the field written next
Result  == {"none", "ok", "failed", "noData"}

Copies == [transId : Nat, dataLen : Nat, payload : Bytes,
           crc : [transId : Nat, dataLen : Nat, payload : Bytes]]

(***************************************************************************)
(* Type invariant.                                                         *)
(***************************************************************************)
TypeOK ==
    /\ media \in [Region -> Copies]
    /\ m_transId \in Nat
    /\ m_dataLen \in Nat
    /\ m_currentRegion \in Region \cup {"none"}
    /\ g_workBuffer \in Bytes
    /\ pc \in {"off", "ready"} \cup LoadPc \cup WritePc
    /\ i \in {0, 1}
    /\ invalidate \in BOOLEAN
    /\ result \in Result
    /\ transRead \in [Region -> Nat]
    /\ lenRead \in [Region -> Nat]
    /\ recordLen \in Nat
    /\ delivered \in Bytes \cup {NoData}
    /\ writeFaults \in Nat
    /\ readFaults \in Nat

\* A copy that getTransactionId() accepts; id 0 means "bad CRC" to its caller
Valid(r) == /\ media[r].transId # 0
            /\ media[r].crc = Crc(media[r].transId, media[r].dataLen,
                                  media[r].payload)

-----------------------------------------------------------------------------
(***************************************************************************)
(* Power-up state of the RAM, over blank media.                            *)
(***************************************************************************)
Init ==
    /\ media = [r \in Region |-> Blank]
    /\ m_transId = 0
    /\ m_dataLen = 0
    /\ m_currentRegion = "none"
    /\ g_workBuffer = Zeros
    /\ pc = "off"
    /\ i = 0
    /\ invalidate = FALSE
    /\ result = "none"
    /\ transRead = [r \in Region |-> 0]
    /\ lenRead = [r \in Region |-> 0]
    /\ recordLen = 0
    /\ delivered = NoData
    /\ writeFaults = 0
    /\ readFaults = 0

\* start(), which the record follows with loadData().  The firmware may be a
\* newer one whose record has another length.
Start(len) ==
    /\ pc = "off"
    /\ pc' = "readA"
    /\ m_transId' = 0
    /\ m_currentRegion' = "none"
    /\ m_dataLen' = 0
    /\ recordLen' = len
    /\ result' = "none"
    /\ delivered' = NoData
    /\ UNCHANGED <<media, g_workBuffer, i, invalidate, transRead, lenRead,
                   writeFaults, readFaults>>

\* A buffer that held a, with none, all or a part of it overwritten by b
Mix(a, b) == IF a = b THEN {a} ELSE {a, b, Torn}

\* Faulty: the payload is read to somewhere else
BytesReadElsewhere(r) == {g_workBuffer}

\* What reading copy r leaves in g_workBuffer: the payload when the length field
\* is the payload's; with any other length (blank, half written, or another
\* record's) as much of the payload as that length covers, which is nothing if
\* the length is rejected
BytesRead(r) ==
    IF \/ media[r].dataLen = 0
       \/ /\ media[r].payload \in Payloads
          /\ PayloadLen[media[r].payload] # media[r].dataLen
    THEN Mix(g_workBuffer, media[r].payload)
    ELSE {media[r].payload}

\* getTransactionId(): reads copy r through g_workBuffer and checks its CRC
GetTransactionId(r) ==
    \/ /\ transRead' = [transRead EXCEPT ![r] =
                            IF Valid(r) THEN media[r].transId ELSE 0]
       /\ g_workBuffer' \in BytesRead(r)
       /\ UNCHANGED readFaults
    \/ /\ readFaults < MaxReadFaults
       /\ readFaults' = readFaults + 1
       /\ transRead' = [transRead EXCEPT ![r] = 0]
       /\ g_workBuffer' \in Mix(g_workBuffer, media[r].payload)

ReadA == /\ pc = "readA"
         /\ GetTransactionId("A")
         /\ lenRead' = [lenRead EXCEPT !["A"] = media["A"].dataLen]
         /\ pc' = "readB"
         /\ UNCHANGED <<media, m_transId, m_dataLen, m_currentRegion, i,
                        invalidate, result, recordLen, delivered, writeFaults>>

ReadB == /\ pc = "readB"
         /\ GetTransactionId("B")
         /\ lenRead' = [lenRead EXCEPT !["B"] = media["B"].dataLen]
         /\ pc' = "select"
         /\ UNCHANGED <<media, m_transId, m_dataLen, m_currentRegion, i,
                        invalidate, result, recordLen, delivered, writeFaults>>

\* Faulty: the older copy is selected
SelectOlder ==
    /\ pc = "select"
    /\ pc' = "ready"
    /\ \E r \in Region :
          /\ r = IF transRead["A"] < transRead["B"] THEN "A" ELSE "B"
          /\ m_currentRegion' = r
          /\ m_transId' = transRead[r]
          /\ m_dataLen' = DataSpace
          /\ delivered' = g_workBuffer
    /\ UNCHANGED <<media, g_workBuffer, i, invalidate, result, transRead,
                   lenRead, recordLen, writeFaults, readFaults>>

\* The rest of loadData(): select the newest copy and push g_workBuffer to
\* the record
Select ==
    /\ pc = "select"
    /\ pc' = "ready"
    /\ \/ /\ transRead["A"] = 0 /\ transRead["B"] = 0
          /\ m_currentRegion' = "A"
          /\ m_transId' = 0
          /\ m_dataLen' = DataSpace
          /\ UNCHANGED delivered
       \/ \E r \in Region :
          /\ transRead["A"] # 0 \/ transRead["B"] # 0
          /\ r = IF transRead["A"] > transRead["B"] THEN "A" ELSE "B"
          /\ m_currentRegion' = r
          /\ m_transId' = transRead[r]
          /\ m_dataLen' = lenRead[r]
          /\ delivered' = g_workBuffer
    /\ UNCHANGED <<media, g_workBuffer, i, invalidate, result, transRead,
                   lenRead, recordLen, writeFaults, readFaults>>

\* Faulty: the region just loaded is overwritten; the id stays
NextCopySameRegion ==
    /\ UNCHANGED m_currentRegion
    /\ m_transId' = m_transId + 1
    /\ pc' = "transId"
NextCopySameId ==
    /\ m_currentRegion' = Other(m_currentRegion)
    /\ UNCHANGED m_transId
    /\ pc' = "transId"

\* The top of the loop in updateData(): the other region, the next id
NextCopy ==
    /\ m_currentRegion' = Other(m_currentRegion)
    /\ m_transId' = m_transId + 1
    /\ pc' = "transId"

\* updateData() up to its first write.  getData() is given m_dataLen bytes to
\* fill; when the record needs more it returns 0 and nothing is written.
UpdateData(p, inv) ==
    /\ pc = "ready"
    /\ PayloadLen[p] = recordLen
    /\ delivered' = NoData
    /\ \/ /\ recordLen <= m_dataLen
          /\ m_transId + 2 <= MaxTransId
          /\ g_workBuffer' = IF inv THEN Zeros ELSE p
          /\ m_dataLen' = recordLen
          /\ invalidate' = inv
          /\ i' = 0
          /\ result' = "none"
          /\ NextCopy
       \/ /\ recordLen > m_dataLen
          /\ g_workBuffer' \in {Zeros, Torn}
          /\ result' = "noData"
          /\ UNCHANGED <<m_dataLen, m_transId, m_currentRegion, pc, i,
                         invalidate>>
    /\ UNCHANGED <<media, transRead, lenRead, recordLen, writeFaults,
                   readFaults>>

\* The copy being written, and that copy with the field under way in pc
\* half written
Target == media[m_currentRegion]
HalfWritten ==
    CASE pc = "transId" -> [Target EXCEPT !.transId = 0]
      [] pc = "dataLen" -> [Target EXCEPT !.dataLen = 0]
      [] pc = "payload" -> [Target EXCEPT !.payload = Torn]
      [] pc = "crc"     -> [Target EXCEPT !.crc = BadCrc]

\* One RegionMedia::write(), which leaves the target as copy if it succeeds;
\* a failed one may have written a part
Write(copy, ok) ==
    \/ /\ ok
       /\ media' = [media EXCEPT ![m_currentRegion] = copy]
       /\ UNCHANGED writeFaults
    \/ /\ ~ok
       /\ writeFaults < MaxWriteFaults
       /\ writeFaults' = writeFaults + 1
       /\ \/ UNCHANGED media
          \/ media' = [media EXCEPT ![m_currentRegion] = HalfWritten]

\* result = write( m_transId ): it forgets how the first copy went
WriteTransId ==
    /\ pc = "transId"
    /\ \E ok \in BOOLEAN :
         /\ Write([Target EXCEPT !.transId = m_transId], ok)
         /\ result' = IF ok THEN "ok" ELSE "failed"
    /\ pc' = "dataLen"
    /\ UNCHANGED <<m_transId, m_dataLen, m_currentRegion, g_workBuffer, i,
                   invalidate, transRead, lenRead, recordLen, delivered,
                   readFaults>>

\* Faulty: the result of the write is dropped
AndResultDropped(ok) == UNCHANGED result

\* result &= write( ... ), for the other three fields
AndResult(ok) == result' = IF ok THEN result ELSE "failed"

WriteDataLen ==
    /\ pc = "dataLen"
    /\ \E ok \in BOOLEAN :
         /\ Write([Target EXCEPT !.dataLen = m_dataLen], ok)
         /\ AndResult(ok)
    /\ pc' = "payload"
    /\ UNCHANGED <<m_transId, m_dataLen, m_currentRegion, g_workBuffer, i,
                   invalidate, transRead, lenRead, recordLen, delivered,
                   readFaults>>

WritePayload ==
    /\ pc = "payload"
    /\ \E ok \in BOOLEAN :
         /\ Write([Target EXCEPT !.payload = g_workBuffer], ok)
         /\ AndResult(ok)
    /\ pc' = "crc"
    /\ UNCHANGED <<m_transId, m_dataLen, m_currentRegion, g_workBuffer, i,
                   invalidate, transRead, lenRead, recordLen, delivered,
                   readFaults>>

\* The CRC covers what was meant to be written; an erase corrupts it
CrcToWrite == IF invalidate THEN BadCrc
              ELSE Crc(m_transId, m_dataLen, g_workBuffer)

\* Faulty: a copy too many
EndOfCopyLate ==
    \/ i < 2 /\ i' = i + 1 /\ NextCopy
    \/ i = 2 /\ pc' = "ready" /\ UNCHANGED <<i, m_currentRegion, m_transId>>

\* The end of the loop in updateData(): the second copy, or the return
EndOfCopy ==
    \/ i = 0 /\ i' = 1 /\ NextCopy
    \/ i = 1 /\ pc' = "ready" /\ UNCHANGED <<i, m_currentRegion, m_transId>>

WriteCrc ==
    /\ pc = "crc"
    /\ \E ok \in BOOLEAN :
         /\ Write([Target EXCEPT !.crc = CrcToWrite], ok)
         /\ AndResult(ok)
    /\ EndOfCopy
    /\ UNCHANGED <<m_dataLen, g_workBuffer, invalidate, transRead, lenRead,
                   recordLen, delivered, readFaults>>

\* stop(), the orderly shutdown
Stop ==
    /\ pc = "ready"
    /\ pc' = "off"
    /\ UNCHANGED <<media, m_transId, m_dataLen, m_currentRegion, g_workBuffer,
                   i, invalidate, result, transRead, lenRead, recordLen,
                   delivered, writeFaults, readFaults>>

\* Power fails: RAM is lost, and the field being written may be half written
PowerFail ==
    /\ pc # "off"
    /\ pc \in WritePc /\ invalidate => PowerFailsInErase
    /\ \/ UNCHANGED media
       \/ /\ pc \in WritePc
          /\ media' = [media EXCEPT ![m_currentRegion] = HalfWritten]
    /\ pc' = "off"
    /\ m_transId' = 0
    /\ m_dataLen' = 0
    /\ m_currentRegion' = "none"
    /\ g_workBuffer' = Zeros
    /\ i' = 0
    /\ invalidate' = FALSE
    /\ result' = "none"
    /\ transRead' = [r \in Region |-> 0]
    /\ lenRead' = [r \in Region |-> 0]
    /\ recordLen' = 0
    /\ delivered' = NoData
    /\ UNCHANGED <<writeFaults, readFaults>>

\* What the RecordServer's thread does
Step ==
    \/ \E len \in RecordLens : Start(len)
    \/ ReadA \/ ReadB \/ Select
    \/ \E p \in Payloads, inv \in BOOLEAN : UpdateData(p, inv)
    \/ WriteTransId \/ WriteDataLen \/ WritePayload \/ WriteCrc
    \/ Stop

Next == Step \/ PowerFail

Spec == Init /\ [][Next]_vars

-----------------------------------------------------------------------------
(***************************************************************************)
(* What the media holds, and the properties.                               *)
(***************************************************************************)
Writing == pc \in WritePc

\* The id getTransactionId() finds, and the contents of the newest whole copy
Id(r) == IF Valid(r) THEN media[r].transId ELSE 0
Stored == IF Id("A") = 0 /\ Id("B") = 0 THEN NoData
          ELSE IF Id("A") > Id("B") THEN media["A"].payload
          ELSE media["B"].payload

NoFaults == writeFaults = 0 /\ readFaults = 0

\* The copy that updateData() is overwriting is never the only good one: as
\* long as no media access has failed, while a copy is being written the
\* other one is whole and newer, unless there is no whole copy at all or the
\* record is being erased.
GoodCopyWhileWriting ==
    Writing /\ NoFaults /\ ~invalidate /\ Stored # NoData
        => Id(Other(m_currentRegion)) > Id(m_currentRegion)

\* updateData() of new contents that returns true has made them what the next
\* load finds, whatever reads and writes have failed before, those of the first
\* copy included; unless the id of that copy could not be written and the old
\* one is no lower.
TrueMeansStored ==
    /\ pc = "ready" /\ result = "ok" /\ ~invalidate
    /\ media[Other(m_currentRegion)].transId < m_transId
    => Stored = g_workBuffer

\* When B is the newest whole copy and was read without an error, or both copies
\* are whole and alike (as every update whose writes succeeded leaves them),
\* loadData() delivers the newest contents or none at all, whatever reads and
\* writes have failed.
DeliveredWhenCopiesAgree ==
    /\ pc = "ready" /\ delivered # NoData
    /\ \/ Id("B") > Id("A") /\ transRead["B"] # 0
       \/ Valid("A") /\ Valid("B") /\ media["A"].payload = media["B"].payload
    => delivered = Stored

\* loadData() delivers the contents of the newest whole copy.
DeliveredIsStored ==
    pc = "ready" /\ delivered # NoData => delivered = Stored

\* A stored record stays readable through power failures at any point: only
\* an erase makes it unreadable.
NeverLost == [][Stored # NoData /\ Stored' = NoData => invalidate]_vars

\* The record is stored atomically: the chunk implements AtomicRecord.
Pending == IF ~Writing THEN {}
           ELSE IF invalidate THEN {NoData} ELSE {g_workBuffer}
TakenEffect == Writing /\ i = 1 /\ (invalidate => pc # "transId")
Atomic == INSTANCE AtomicRecord WITH Values <- Payloads, stored <- Stored,
                                     pending <- Pending, done <- TakenEffect
AtomicSpec == Atomic!Spec

-----------------------------------------------------------------------------
(***************************************************************************)
(* The inductive invariant behind NeverLost and AtomicSpec, without media  *)
(* faults and with erases that run to their end.                           *)
(***************************************************************************)
HighestId == IF Id("A") > Id("B") THEN Id("A") ELSE Id("B")

\* An id is never written over the rest of a copy that has a CRC for it: the
\* CRCs on the media are for ids up to the newest whole copy's.
CrcsNotAhead == \A r \in Region : media[r].crc.transId <= HighestId

\* While the copy in region c is written: the other one is the newest, and
\* what is on the media is what has been written so far.
WritingInv(c) ==
    /\ HighestId < m_transId
    /\ Id(c) < Id(Other(c)) \/ HighestId = 0
    /\ CrcsNotAhead
Progress(c) ==
    /\ pc # "transId" => media[c].transId = m_transId
    /\ pc \in {"payload", "crc"} => media[c].dataLen = m_dataLen
    /\ pc = "crc" => media[c].payload = g_workBuffer
\* While the second copy is erased, the first is gone for good.
ErasingInv(c) ==
    /\ media[Other(c)].crc = BadCrc
    /\ HighestId < m_transId
    /\ media[c].crc.transId < m_transId
    /\ pc = "transId" => CrcsNotAhead

\* What makes every power failure harmless: in each phase of load and update,
\* which copy is newest, and that no CRC on the media is ahead of it.
CopyInv ==
    /\ pc \in {"off", "ready"} \cup LoadPc =>
           CrcsNotAhead /\ (Id("A") # Id("B") \/ HighestId = 0)
    /\ pc \in {"readB", "select"} => transRead["A"] = Id("A")
    /\ pc = "select" => transRead["B"] = Id("B")
    /\ pc \in {"ready"} \cup WritePc => m_currentRegion \in Region
    /\ pc = "ready" => /\ HighestId <= m_transId
                       /\ Id(m_currentRegion) = HighestId
    /\ pc \in WritePc =>
         /\ Progress(m_currentRegion)
         /\ ~invalidate => g_workBuffer \in Payloads
         /\ (i = 0 \/ ~invalidate) => WritingInv(m_currentRegion)
         /\ (i = 1 /\ invalidate) => ErasingInv(m_currentRegion)
         /\ (i = 1 /\ ~invalidate) =>
                /\ Id(Other(m_currentRegion)) = HighestId
                /\ HighestId # 0
                /\ media[Other(m_currentRegion)].payload = g_workBuffer

=============================================================================
