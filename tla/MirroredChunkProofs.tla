------------------------- MODULE MirroredChunkProofs -------------------------
(***************************************************************************)
(* Proofs about MirroredChunk, for every set of payloads and every bound.  *)
(***************************************************************************)
EXTENDS MirroredChunk, TLAPS

\* The types of a chunk's own state.  The work buffer is shared with other
\* chunks, and the chunk's while it is written to the media.
ChunkOK ==
    /\ media \in [Region -> Copies]
    /\ m_transId \in Nat
    /\ m_dataLen \in Nat
    /\ m_currentRegion \in Region \cup {"none"}
    /\ pc \in WritePc => g_workBuffer \in Bytes
    /\ pc \in {"off", "ready"} \cup LoadPc \cup WritePc
    /\ i \in {0, 1}
    /\ invalidate \in BOOLEAN
    /\ result \in Result
    /\ transRead \in [Region -> Nat]
    /\ lenRead \in [Region -> Nat]
    /\ recordLen \in Nat
    /\ writeFaults \in Nat
    /\ readFaults \in Nat

\* They are inductive, whatever fails.
LEMMA TypeInit == Init => ChunkOK
<1>1. Blank \in Copies
  BY DEF Blank, BadCrc, Crc, Copies, Bytes
<1>2. Init => media \in [Region -> Copies]
  BY <1>1 DEF Init
<1>3. Init => transRead \in [Region -> Nat] /\ lenRead \in [Region -> Nat]
  BY DEF Init
<1>4. Init => invalidate \in BOOLEAN
  BY Zenon DEF Init
<1> QED BY <1>2, <1>3, <1>4 DEF Init, ChunkOK, Bytes, LoadPc, WritePc, Result

\* A write of updateChunk(), done or failed, leaves two well-formed copies on the media.
LEMMA WriteType ==
  ASSUME ChunkOK, NEW copy \in Copies, NEW ok \in BOOLEAN,
         m_currentRegion \in Region, pc \in WritePc, Write(copy, ok)
  PROVE  media' \in [Region -> Copies] /\ writeFaults' \in Nat
  <1>1. HalfWritten \in Copies
    BY DEF HalfWritten, Target, WritePc, Copies, ChunkOK, BadCrc, Crc, Bytes
  <1>2. CASE ok
    BY <1>2 DEF Write, ChunkOK
  <1>3. CASE ~ok
    BY <1>3, <1>1 DEF Write, ChunkOK
  <1> QED BY <1>2, <1>3

\* Only a started chunk writes, and it has a current region.
HasRegion == pc \in {"ready"} \cup WritePc => m_currentRegion \in Region

\* Every step of the chunk keeps the types and the current region of a started chunk.
LEMMA TypeStep == ChunkOK /\ HasRegion /\ [Next]_vars => ChunkOK' /\ HasRegion'
<1> SUFFICES ASSUME ChunkOK, HasRegion, [Next]_vars
             PROVE  ChunkOK' /\ HasRegion'
  OBVIOUS
<1> USE PayloadAssumption, BoundAssumption
<1>1. CASE UNCHANGED vars
  BY <1>1 DEF vars, ram, ChunkOK, HasRegion
<1>2. ASSUME NEW len \in RecordLens, Start(len) PROVE ChunkOK' /\ HasRegion'
  BY <1>2 DEF Start, ChunkOK, HasRegion, RecordLens, LoadPc, WritePc, Result
<1>3. ASSUME NEW r \in Region, GetTransactionId(r)
      PROVE  transRead' \in [Region -> Nat] /\ readFaults' \in Nat
  BY <1>3 DEF GetTransactionId, BytesRead, Mix, ChunkOK, Copies, Bytes, Region
<1>4. CASE ReadA
  <2>1. lenRead' \in [Region -> Nat]
    BY <1>4 DEF ReadA, ChunkOK, Region, Copies
  <2> QED BY <1>4, <1>3, <2>1
          DEF ReadA, ChunkOK, HasRegion, Region, LoadPc, WritePc
<1>5. CASE ReadB
  <2>1. lenRead' \in [Region -> Nat]
    BY <1>5 DEF ReadB, ChunkOK, Region, Copies
  <2> QED BY <1>5, <1>3, <2>1
          DEF ReadB, ChunkOK, HasRegion, Region, LoadPc, WritePc
<1>6. CASE Select
  BY <1>6 DEF Select, ChunkOK, HasRegion, Region, Bytes, LoadPc, WritePc
<1>7. ASSUME NEW p \in Payloads, NEW inv \in BOOLEAN, UpdateData(p, inv)
      PROVE  ChunkOK' /\ HasRegion'
  BY <1>7 DEF UpdateData, NextCopy, Other, ChunkOK, HasRegion, Region, Bytes,
              LoadPc, WritePc, Result
<1>8. CASE WriteTransId
  <2>1. [Target EXCEPT !.transId = m_transId] \in Copies
    BY <1>8 DEF WriteTransId, Target, Copies, ChunkOK, HasRegion, WritePc
  <2> QED BY <1>8, <2>1, WriteType
          DEF WriteTransId, ChunkOK, HasRegion, LoadPc, WritePc, Result
<1>9. CASE WriteDataLen
  <2>1. [Target EXCEPT !.dataLen = m_dataLen] \in Copies
    BY <1>9 DEF WriteDataLen, Target, Copies, ChunkOK, HasRegion, WritePc
  <2> QED BY <1>9, <2>1, WriteType
          DEF WriteDataLen, AndResult, ChunkOK, HasRegion, LoadPc, WritePc, Result
<1>10. CASE WritePayload
  <2>1. [Target EXCEPT !.payload = g_workBuffer] \in Copies
    BY <1>10 DEF WritePayload, Target, Copies, ChunkOK, HasRegion, WritePc
  <2> QED BY <1>10, <2>1, WriteType
          DEF WritePayload, AndResult, ChunkOK, HasRegion, LoadPc, WritePc, Result
<1>11. CASE WriteCrc
  <2>1. [Target EXCEPT !.crc = CrcToWrite] \in Copies
    BY <1>11 DEF WriteCrc, EndOfCopy, Target, CrcToWrite, Crc, BadCrc, Copies, ChunkOK,
                 HasRegion, WritePc, Bytes
  <2>2. media' \in [Region -> Copies] /\ writeFaults' \in Nat
    BY <1>11, <2>1, WriteType DEF WriteCrc, EndOfCopy, HasRegion, WritePc
  <2> QED BY <1>11, <2>2
          DEF WriteCrc, EndOfCopy, AndResult, NextCopy, Other, ChunkOK, HasRegion, Region,
              LoadPc, WritePc, Result
<1>12. CASE Stop
  BY <1>12 DEF Stop, ChunkOK, HasRegion, LoadPc, WritePc
<1>13. CASE PowerFail
  <2>1. media' \in [Region -> Copies]
    <3>1. CASE UNCHANGED media
      BY <3>1 DEF ChunkOK
    <3>2. CASE /\ pc \in WritePc
               /\ media' = [media EXCEPT ![m_currentRegion] = HalfWritten]
      <4>1. HalfWritten \in Copies
        BY <3>2 DEF HalfWritten, Target, WritePc, Copies, ChunkOK, HasRegion,
                    BadCrc, Crc, Bytes
      <4> QED BY <3>2, <4>1 DEF ChunkOK
    <3> QED BY <1>13, <3>1, <3>2 DEF PowerFail
  <2> QED BY <1>13, <2>1 DEF PowerFail, ChunkOK, HasRegion, Region, Bytes, LoadPc,
                             WritePc, Result
<1> QED
  BY <1>1, <1>2, <1>4, <1>5, <1>6, <1>7, <1>8, <1>9, <1>10, <1>11, <1>12, <1>13
  DEF Next, Step

\* The work buffer of a chunk that has it for itself.
BufferOK == g_workBuffer \in Bytes /\ delivered \in Bytes \cup {NoData}

\* The work buffer always holds bytes.
LEMMA BufferStep ==
  ASSUME ChunkOK, BufferOK, [Next]_vars
  PROVE  BufferOK'
<1> USE DEF BufferOK, Bytes
<1>1. CASE UNCHANGED vars
  BY <1>1 DEF vars, ram
<1>2. ASSUME NEW r \in Region, GetTransactionId(r)
      PROVE  g_workBuffer' \in Bytes
  BY <1>2 DEF GetTransactionId, BytesRead, Mix, ChunkOK, Copies
<1>3. CASE ReadA \/ ReadB
  BY <1>2, <1>3 DEF ReadA, ReadB, Region
<1>4. CASE (\E len \in RecordLens : Start(len)) \/ Select \/ Stop \/ PowerFail
  BY <1>4 DEF Start, Select, Stop, PowerFail
<1>5. CASE \E p \in Payloads, inv \in BOOLEAN : UpdateData(p, inv)
  BY <1>5 DEF UpdateData
<1>6. CASE WriteTransId \/ WriteDataLen \/ WritePayload \/ WriteCrc
  BY <1>6 DEF WriteTransId, WriteDataLen, WritePayload, WriteCrc
<1> QED BY <1>1, <1>3, <1>4, <1>5, <1>6 DEF Next, Step

\* Every variable of the chunk keeps its type, whatever write, read or power
\* supply fails.
THEOREM TypeCorrect == Spec => []TypeOK
<1>1. Init => ChunkOK /\ HasRegion /\ BufferOK
  BY TypeInit DEF Init, HasRegion, WritePc, BufferOK, Bytes
<1>2. ChunkOK /\ HasRegion /\ BufferOK /\ [Next]_vars => (ChunkOK /\ HasRegion /\ BufferOK)'
  BY TypeStep, BufferStep
<1>3. ChunkOK /\ BufferOK => TypeOK
  BY DEF ChunkOK, BufferOK, TypeOK
<1> QED BY <1>1, <1>2, <1>3, PTL DEF Spec

-----------------------------------------------------------------------------
(***************************************************************************)
(* Power failures.  From here on no media access fails and no power        *)
(* failure hits an erase; both restrictions are needed (see the README).   *)
(***************************************************************************)
PowerFailuresOnly == /\ MaxWriteFaults = 0 /\ MaxReadFaults = 0
                     /\ ~PowerFailsInErase

IInv == ChunkOK /\ HasRegion /\ CopyInv

\* The blank media and the stopped chunk satisfy the inductive invariant.
LEMMA IInvInit == Init => IInv
<1> SUFFICES ASSUME Init PROVE IInv
  OBVIOUS
<1>1. ChunkOK /\ HasRegion
  BY TypeInit DEF Init, HasRegion, WritePc
<1>2. CrcsNotAhead /\ HighestId = 0
  BY DEF Init, CrcsNotAhead, HighestId, Id, Valid, Blank, BadCrc, Crc, Region
<1> QED BY <1>1, <1>2 DEF IInv, CopyInv, Init, LoadPc, WritePc

\* Without faults a write leaves the target as it is meant to be.
LEMMA WriteSucceeds ==
  ASSUME ChunkOK, PowerFailuresOnly, NEW copy, NEW ok \in BOOLEAN, Write(copy, ok)
  PROVE  ok /\ media' = [media EXCEPT ![m_currentRegion] = copy]
  BY BoundAssumption DEF PowerFailuresOnly, Write, ChunkOK

\* Without faults a read finds the id of a whole copy.
LEMMA ReadSucceeds ==
  ASSUME ChunkOK, PowerFailuresOnly, NEW r \in Region, GetTransactionId(r)
  PROVE  transRead' = [transRead EXCEPT ![r] = Id(r)]
  BY BoundAssumption DEF PowerFailuresOnly, GetTransactionId, Id, ChunkOK

\* There are two regions, and Other exchanges them (m_currentRegion and the spare).
LEMMA RegionFacts ==
  ASSUME NEW r \in Region
  PROVE  Other(r) \in Region /\ Other(r) # r /\ Other(Other(r)) = r
         /\ \A q \in Region : q = r \/ q = Other(r)
  BY DEF Region, Other

\* The highest id, seen from either region.
LEMMA HighestFacts ==
  ASSUME ChunkOK, NEW r \in Region
  PROVE  /\ Id(r) \in Nat /\ Id(Other(r)) \in Nat /\ HighestId \in Nat
         /\ HighestId = IF Id(r) > Id(Other(r)) THEN Id(r) ELSE Id(Other(r))
  BY DEF ChunkOK, Copies, Region, Other, Id, HighestId

\* Writing the copy in region c leaves the other one, and its id, alone.
LEMMA TargetOnly ==
  ASSUME ChunkOK, NEW c \in Region, NEW copy, media' = [media EXCEPT ![c] = copy]
  PROVE  /\ media'[c] = copy
         /\ media'[Other(c)] = media[Other(c)]
         /\ Id(Other(c))' = Id(Other(c))
  BY RegionFacts DEF ChunkOK, Id, Valid

\* A step that leaves the media alone leaves the ids found on it alone.
LEMMA SameMedia ==
  ASSUME UNCHANGED media
  PROVE  /\ CrcsNotAhead' = CrcsNotAhead /\ HighestId' = HighestId
         /\ \A r \in Region : Id(r)' = Id(r)
  BY DEF CrcsNotAhead, HighestId, Id, Valid

\* Damaging the older copy does not change which contents are the newest, and
\* leaves no CRC ahead of them.
LEMMA DamageOlder ==
  ASSUME ChunkOK, NEW c \in Region, NEW copy \in Copies,
         media' = [media EXCEPT ![c] = copy],
         Id(c) < Id(Other(c)) \/ HighestId = 0,
         CrcsNotAhead,
         copy.crc.transId <= HighestId,
         copy.transId = 0 \/ copy.crc.transId # copy.transId
  PROVE  /\ Id(c)' = 0 /\ Id(Other(c))' = HighestId /\ HighestId' = HighestId
         /\ CrcsNotAhead'
<1>0. /\ media'[c] = copy /\ media'[Other(c)] = media[Other(c)]
      /\ Id(Other(c))' = Id(Other(c))
  BY TargetOnly
<1>1. Id(c)' = 0
  <2>1. ~Valid(c)'
    BY <1>0 DEF Valid, Crc, Copies
  <2> QED BY <2>1 DEF Id
<1>2. Id(Other(c))' = HighestId
  BY <1>0, HighestFacts
<1>3. HighestId' = HighestId
  BY <1>1, <1>2, HighestFacts DEF HighestId, Region, Other
<1>4. CrcsNotAhead'
  BY <1>3, TargetOnly, RegionFacts DEF CrcsNotAhead
<1> QED BY <1>1, <1>2, <1>3, <1>4

\* No step of loading, updating, erasing or losing power breaks the state of the copies.
LEMMA IInvStep ==
  ASSUME IInv, PowerFailuresOnly, [Next]_vars
  PROVE  CopyInv'
<1> USE BoundAssumption DEF IInv
<1>0. ChunkOK' /\ HasRegion'
  BY TypeStep
<1>1. CASE UNCHANGED vars
  BY <1>1 DEF vars, ram, CopyInv, WritingInv, Progress, ErasingInv, CrcsNotAhead,
              HighestId, Id, Valid
<1>2. ASSUME NEW len \in RecordLens, Start(len) PROVE CopyInv'
  <2>1. UNCHANGED media /\ pc = "off" /\ pc' = "readA"
    BY <1>2 DEF Start
  <2> QED BY <2>1, SameMedia DEF CopyInv, LoadPc, WritePc, Region
<1>3. CASE ReadA
  <2>1. UNCHANGED media /\ pc = "readA" /\ pc' = "readB"
    BY <1>3 DEF ReadA
  <2>2. transRead'["A"] = Id("A")
    BY <1>3, ReadSucceeds DEF ReadA, ChunkOK, Region
  <2> QED BY <2>1, <2>2, SameMedia DEF CopyInv, LoadPc, WritePc, Region
<1>4. CASE ReadB
  <2>1. UNCHANGED media /\ pc = "readB" /\ pc' = "select"
    BY <1>4 DEF ReadB
  <2>2. transRead'["B"] = Id("B") /\ transRead'["A"] = transRead["A"]
    BY <1>4, ReadSucceeds DEF ReadB, ChunkOK, Region
  <2> QED BY <2>1, <2>2, SameMedia DEF CopyInv, LoadPc, WritePc, Region
<1>5. CASE Select
  <2>1. UNCHANGED media /\ pc = "select" /\ pc' = "ready"
    BY <1>5 DEF Select
  <2>2. /\ m_currentRegion' \in Region
        /\ Id(m_currentRegion') = HighestId /\ HighestId <= m_transId'
    BY <1>5, <2>1, HighestFacts DEF Select, CopyInv, HighestId, Region, ChunkOK
  <2>3. Id(m_currentRegion)' = HighestId'
    BY <2>1, <2>2 DEF Id, Valid, HighestId
  <2> QED BY <2>1, <2>2, <2>3, SameMedia DEF CopyInv, LoadPc, WritePc, Region
<1>6. ASSUME NEW p \in Payloads, NEW inv \in BOOLEAN, UpdateData(p, inv)
      PROVE  CopyInv'
  <2>1. UNCHANGED media /\ pc = "ready"
    BY <1>6 DEF UpdateData
  <2>2. CASE NextCopy
    <3>1. PICK c \in Region : c = m_currentRegion
      BY <2>1 DEF HasRegion
    <3>2. /\ m_currentRegion' = Other(c) /\ Other(Other(c)) = c
          /\ pc' = "transId" /\ m_transId' = m_transId + 1
          /\ i' = 0 /\ (~invalidate' => g_workBuffer' \in Payloads)
      BY <1>6, <2>2, <3>1, RegionFacts DEF UpdateData, NextCopy
    <3>3. /\ HighestId' < m_transId' /\ CrcsNotAhead'
          /\ Id(c)' = HighestId' /\ HighestId' \in Nat
          /\ Id(Other(c))' < Id(c)' \/ HighestId' = 0
      BY <2>1, <3>1, <3>2, SameMedia, HighestFacts, RegionFacts
      DEF CopyInv, ChunkOK, Region, Other
    <3> QED BY <3>2, <3>3, RegionFacts
            DEF CopyInv, WritingInv, Progress, LoadPc, WritePc
  <2>3. CASE UNCHANGED <<pc, m_currentRegion, m_transId>>
    <3>1. Id(m_currentRegion)' = Id(m_currentRegion)
      BY <2>1, <2>3 DEF Id, Valid
    <3> QED BY <2>1, <2>3, <3>1, SameMedia DEF CopyInv, LoadPc, WritePc, Region
  <2> QED BY <1>6, <2>2, <2>3 DEF UpdateData
<1>7. ASSUME pc \in {"transId", "dataLen", "payload"},
             UNCHANGED <<m_transId, m_dataLen, m_currentRegion, g_workBuffer, i,
                         invalidate>>,
             pc' \in {"dataLen", "payload", "crc"},
             NEW copy \in Copies,
             media' = [media EXCEPT ![m_currentRegion] = copy],
             copy.crc = Target.crc, copy.transId = m_transId,
             pc' \in {"payload", "crc"} => copy.dataLen = m_dataLen,
             pc' = "crc" => copy.payload = g_workBuffer
      PROVE  CopyInv'
  <2>1. PICK c \in Region : c = m_currentRegion
    BY <1>7 DEF HasRegion, WritePc
  <2>2. media'[c] = copy /\ media'[Other(c)] = media[Other(c)]
    BY <1>7, <2>1, TargetOnly
  <2>3. Progress(m_currentRegion)' /\ (~invalidate' => g_workBuffer' \in Payloads)
    BY <1>7, <2>1, <2>2 DEF Progress, CopyInv, WritePc
  <2>4. CASE i = 0 \/ ~invalidate
    <3>1. WritingInv(c)
      BY <1>7, <2>1, <2>4 DEF CopyInv, WritePc
    <3>2. copy.crc.transId <= HighestId /\ copy.crc.transId # copy.transId
      BY <1>7, <2>1, <3>1, HighestFacts
      DEF WritingInv, CrcsNotAhead, ChunkOK, Target, Copies
    <3>3. /\ Id(c)' = 0 /\ Id(Other(c))' = HighestId /\ HighestId' = HighestId
          /\ CrcsNotAhead' /\ HighestId \in Nat
      BY <1>7, <2>1, <3>1, <3>2, DamageOlder, HighestFacts DEF WritingInv
    <3>4. /\ WritingInv(m_currentRegion)'
          /\ Id(Other(m_currentRegion))' = HighestId'
      <4>1. /\ Id(m_currentRegion)' = Id(c)'
            /\ Id(Other(m_currentRegion))' = Id(Other(c))'
        BY <1>7, <2>1 DEF Id, Valid
      <4> QED BY <1>7, <2>1, <3>1, <3>3, <4>1 DEF WritingInv
    <3>5. (i = 1 /\ ~invalidate) => /\ HighestId' # 0
                                    /\ media'[Other(c)].payload = g_workBuffer
      BY <1>7, <2>1, <2>2, <3>3 DEF CopyInv, WritePc
    <3> QED BY <1>7, <2>1, <2>3, <2>4, <3>4, <3>5, RegionFacts
            DEF CopyInv, LoadPc, WritePc
  <2>5. CASE i = 1 /\ invalidate
    <3>1. ErasingInv(c)
      BY <1>7, <2>1, <2>5 DEF CopyInv, WritePc
    <3>2. Id(Other(c))' = 0 /\ Id(c)' = 0
      BY <1>7, <2>1, <2>2, <3>1 DEF ErasingInv, Id, Valid, BadCrc, Crc, Target, ChunkOK
    <3>3. HighestId' < m_transId
      BY <1>7, <2>1, <3>1, <3>2, HighestFacts
      DEF ErasingInv, HighestId, Region, Other, ChunkOK
    <3>4. ErasingInv(m_currentRegion)'
      BY <1>7, <2>1, <2>2, <3>1, <3>3 DEF ErasingInv, Target
    <3> QED BY <1>7, <2>1, <2>3, <2>5, <3>4 DEF CopyInv, LoadPc, WritePc
  <2> QED BY <2>4, <2>5 DEF ChunkOK
<1>8. CASE WriteTransId
  <2> DEFINE copy == [Target EXCEPT !.transId = m_transId]
  <2>1. media' = [media EXCEPT ![m_currentRegion] = copy]
    BY <1>8, WriteSucceeds DEF WriteTransId
  <2>2. copy \in Copies /\ copy.crc = Target.crc /\ copy.transId = m_transId
    BY <1>8 DEF WriteTransId, Target, Copies, ChunkOK, HasRegion, WritePc
  <2> HIDE DEF copy
  <2> QED BY <1>7, <1>8, <2>1, <2>2 DEF WriteTransId
<1>9. CASE WriteDataLen
  <2> DEFINE copy == [Target EXCEPT !.dataLen = m_dataLen]
  <2>1. media' = [media EXCEPT ![m_currentRegion] = copy]
    BY <1>9, WriteSucceeds DEF WriteDataLen
  <2>2. /\ copy \in Copies /\ copy.crc = Target.crc /\ copy.transId = m_transId
        /\ copy.dataLen = m_dataLen
    BY <1>9 DEF WriteDataLen, Target, Copies, ChunkOK, HasRegion, WritePc, CopyInv,
                Progress
  <2> HIDE DEF copy
  <2> QED BY <1>7, <1>9, <2>1, <2>2 DEF WriteDataLen
<1>10. CASE WritePayload
  <2> DEFINE copy == [Target EXCEPT !.payload = g_workBuffer]
  <2>1. media' = [media EXCEPT ![m_currentRegion] = copy]
    BY <1>10, WriteSucceeds DEF WritePayload
  <2>2. /\ copy \in Copies /\ copy.crc = Target.crc /\ copy.transId = m_transId
        /\ copy.dataLen = m_dataLen /\ copy.payload = g_workBuffer
    BY <1>10 DEF WritePayload, Target, Copies, ChunkOK, HasRegion, WritePc, CopyInv,
                Progress
  <2> HIDE DEF copy
  <2> QED BY <1>7, <1>10, <2>1, <2>2 DEF WritePayload
<1>11. CASE WriteCrc
  <2> DEFINE copy == [Target EXCEPT !.crc = CrcToWrite]
  <2>1. PICK c \in Region : c = m_currentRegion
    BY <1>11 DEF WriteCrc, EndOfCopy, HasRegion, WritePc
  <2>2. media' = [media EXCEPT ![c] = copy]
    BY <1>11, <2>1, WriteSucceeds DEF WriteCrc, EndOfCopy
  <2>3. /\ media'[c] = copy /\ media'[Other(c)] = media[Other(c)]
        /\ Id(Other(c))' = Id(Other(c))
    BY <2>2, TargetOnly
  <2>4. /\ copy \in Copies /\ copy.crc = CrcToWrite
        /\ copy.transId = m_transId /\ copy.dataLen = m_dataLen
        /\ copy.payload = g_workBuffer
    BY <1>11, <2>1 DEF WriteCrc, EndOfCopy, Target, CrcToWrite, Crc, BadCrc, Copies, ChunkOK,
                       WritePc, Bytes, CopyInv, Progress
  <2> HIDE DEF copy
  <2>5. /\ pc = "crc" /\ UNCHANGED <<m_dataLen, g_workBuffer, invalidate>>
        /\ ~invalidate => g_workBuffer \in Payloads
        /\ i = 0 \/ ~invalidate => WritingInv(c)
        /\ m_transId \in Nat /\ i \in {0, 1}
    BY <1>11, <2>1 DEF WriteCrc, EndOfCopy, WritePc, CopyInv, ChunkOK
  <2>6. \/ /\ i = 0 /\ i' = 1 /\ pc' = "transId"
           /\ m_currentRegion' = Other(c) /\ m_transId' = m_transId + 1
        \/ i = 1 /\ pc' = "ready" /\ UNCHANGED <<i, m_currentRegion, m_transId>>
    BY <1>11, <2>1 DEF WriteCrc, EndOfCopy, NextCopy
  <2>7. /\ Other(c) \in Region /\ Other(c) # c /\ Other(Other(c)) = c
        /\ \A q \in Region : q = c \/ q = Other(c)
        /\ HighestId \in Nat /\ Id(c)' \in Nat /\ Id(Other(c))' \in Nat
        /\ HighestId' = IF Id(c)' > Id(Other(c))' THEN Id(c)' ELSE Id(Other(c))'
        /\ \A q \in Region : media[q].crc.transId \in Nat
    <3>1. HighestId' = IF Id(c)' > Id(Other(c))' THEN Id(c)' ELSE Id(Other(c))'
      BY <1>0, HighestFacts DEF HighestId, Id, Valid, Region, Other, ChunkOK, Copies
    <3>2. Id(c)' \in Nat /\ Id(Other(c))' \in Nat
      BY <1>0, <2>1, RegionFacts DEF Id, Valid, ChunkOK, Copies
    <3> QED BY <3>1, <3>2, RegionFacts, HighestFacts DEF ChunkOK, Copies
  <2>8. CASE ~invalidate
    <3>1. Id(c)' = m_transId
      <4>1. Valid(c)'
        BY <2>3, <2>4, <2>5, <2>7, <2>8 DEF Valid, CrcToWrite, WritingInv
      <4> QED BY <2>3, <2>4, <4>1 DEF Id
    <3>2. /\ HighestId' = m_transId /\ HighestId' # 0
          /\ Id(Other(c))' < m_transId
      BY <2>3, <2>5, <2>7, <2>8, <3>1, HighestFacts DEF WritingInv
    <3>3. CrcsNotAhead'
      BY <2>3, <2>4, <2>5, <2>7, <2>8, <3>2
      DEF CrcsNotAhead, WritingInv, CrcToWrite, Crc
    <3>4. Id("A")' # Id("B")'
      BY <2>7, <3>1, <3>2 DEF Region, Other
    <3>5. CASE i = 0
      <4>1. /\ Id(m_currentRegion)' = Id(Other(c))'
            /\ Id(Other(m_currentRegion))' = Id(c)'
        BY <2>6, <2>7, <3>5 DEF Id, Valid
      <4>2. WritingInv(m_currentRegion)' /\ Progress(m_currentRegion)'
        BY <2>5, <2>6, <3>1, <3>2, <3>3, <3>5, <4>1 DEF WritingInv, Progress
      <4> QED BY <2>3, <2>4, <2>5, <2>6, <2>7, <2>8, <3>1, <3>2, <3>5, <4>1, <4>2
              DEF CopyInv, LoadPc, WritePc
    <3>6. CASE i = 1
      <4>1. Id(m_currentRegion)' = Id(c)'
        BY <2>1, <2>6, <3>6 DEF Id, Valid
      <4> QED BY <2>1, <2>5, <2>6, <3>1, <3>2, <3>3, <3>4, <3>6, <4>1
              DEF CopyInv, LoadPc, WritePc
    <3> QED BY <2>5, <3>5, <3>6
  <2>9. CASE invalidate /\ i = 0
    <3>1. copy.crc.transId = 0 /\ copy.crc = BadCrc
      BY <2>4, <2>9 DEF CrcToWrite, BadCrc, Crc
    <3>2. /\ Id(c)' = 0 /\ Id(Other(c))' = HighestId /\ HighestId' = HighestId
          /\ CrcsNotAhead'
      <4>1. WritingInv(c) /\ copy.crc.transId <= HighestId
        BY <2>5, <2>7, <2>9, <3>1
      <4>2. copy.transId = 0 \/ copy.crc.transId # copy.transId
        BY <3>1
      <4> QED BY <2>2, <2>4, <4>1, <4>2, DamageOlder DEF WritingInv
    <3>3. ErasingInv(m_currentRegion)' /\ Progress(m_currentRegion)'
      BY <2>3, <2>5, <2>6, <2>7, <2>9, <3>1, <3>2
      DEF ErasingInv, Progress, WritingInv, CrcsNotAhead
    <3> QED BY <2>5, <2>6, <2>7, <2>9, <3>3 DEF CopyInv, LoadPc, WritePc
  <2>10. CASE invalidate /\ i = 1
    <3>1. /\ media'[c].crc = BadCrc /\ media'[Other(c)].crc = BadCrc
      BY <1>11, <2>1, <2>3, <2>4, <2>5, <2>10
      DEF CrcToWrite, CopyInv, ErasingInv, WritePc
    <3>2. Id(c)' = 0 /\ Id(Other(c))' = 0
      BY <3>1 DEF Id, Valid, BadCrc, Crc
    <3>3. HighestId' = 0 /\ CrcsNotAhead'
      BY <2>7, <3>1, <3>2 DEF CrcsNotAhead, BadCrc, Crc
    <3>4. Id(m_currentRegion)' = 0
      BY <2>1, <2>6, <2>10, <3>2 DEF Id, Valid
    <3> QED BY <2>1, <2>5, <2>6, <2>10, <3>3, <3>4 DEF CopyInv, LoadPc, WritePc
  <2> QED BY <2>5, <2>8, <2>9, <2>10
<1>12. CASE Stop
  <2>1. UNCHANGED media /\ pc = "ready" /\ pc' = "off"
    BY <1>12 DEF Stop
  <2> QED BY <2>1, SameMedia DEF CopyInv, LoadPc, WritePc, Region
<1>13. CASE PowerFail
  <2>1. pc' = "off"
    BY <1>13 DEF PowerFail
  <2>2. SUFFICES CrcsNotAhead' /\ (Id("A")' # Id("B")' \/ HighestId' = 0)
    BY <2>1 DEF CopyInv, LoadPc, WritePc
  <2>3. CASE pc \notin WritePc
    BY <1>13, <2>3, SameMedia DEF PowerFail, CopyInv, ChunkOK, Region
  <2>4. CASE pc \in WritePc
    <3>1. PICK c \in Region : c = m_currentRegion
      BY <2>4 DEF HasRegion
    <3>2. WritingInv(c) /\ Progress(c)
      BY <1>13, <2>4, <3>1 DEF PowerFail, PowerFailuresOnly, CopyInv
    <3>3. CASE UNCHANGED media
      <4>1. Id("A") # Id("B") \/ HighestId = 0
        BY <3>2, HighestFacts DEF WritingInv, Region, Other
      <4> QED BY <3>2, <3>3, <4>1, SameMedia DEF WritingInv, Region
    <3>4. CASE media' = [media EXCEPT ![c] = HalfWritten]
      <4>1. /\ HalfWritten \in Copies
            /\ HalfWritten.crc.transId <= HighestId
            /\ HalfWritten.transId = 0 \/ HalfWritten.crc.transId # HalfWritten.transId
        <5>1. media[c] \in Copies /\ HighestId \in Nat /\ m_transId \in Nat
          BY HighestFacts DEF ChunkOK
        <5>2. CASE pc = "transId"
          BY <3>1, <3>2, <5>1, <5>2 DEF HalfWritten, Target, Copies, WritingInv,
                                        CrcsNotAhead
        <5>3. CASE pc = "dataLen"
          BY <3>1, <3>2, <5>1, <5>3 DEF HalfWritten, Target, Copies, WritingInv,
                                        CrcsNotAhead, Progress
        <5>4. CASE pc = "payload"
          BY <3>1, <3>2, <5>1, <5>4 DEF HalfWritten, Target, Copies, WritingInv,
                                        CrcsNotAhead, Progress, Bytes
        <5>5. CASE pc = "crc"
          BY <3>1, <3>2, <5>1, <5>5 DEF HalfWritten, Target, Copies, WritingInv,
                                        Progress, BadCrc, Crc, Bytes
        <5> QED BY <2>4, <5>2, <5>3, <5>4, <5>5 DEF WritePc
      <4>2. /\ Id(c)' = 0 /\ Id(Other(c))' = HighestId /\ HighestId' = HighestId
            /\ CrcsNotAhead'
        BY <3>2, <3>4, <4>1, DamageOlder DEF WritingInv
      <4> QED BY <4>2 DEF Region, Other
    <3> QED BY <1>13, <3>1, <3>3, <3>4 DEF PowerFail
  <2> QED BY <2>3, <2>4
<1> QED
  BY <1>1, <1>2, <1>3, <1>4, <1>5, <1>6, <1>8, <1>9, <1>10, <1>11, <1>12, <1>13
  DEF Next, Step


\* The inductive invariant holds in every state when only the power fails.
LEMMA IInvAlways == ASSUME PowerFailuresOnly PROVE Spec => []IInv
<1>1. Init => IInv
  BY IInvInit
<1>2. IInv /\ [Next]_vars => IInv'
  BY IInvStep, TypeStep DEF IInv
<1> QED BY <1>1, <1>2, PTL DEF Spec

\* In every phase of loading and updating, no CRC on the media is ahead of the
\* newest whole copy and the copy being overwritten is not the newest one.
THEOREM CopiesSafe == ASSUME PowerFailuresOnly PROVE Spec => []CopyInv
<1>1. IInv => CopyInv
  BY DEF IInv
<1> QED BY <1>1, IInvAlways, PTL

\* While updateData() overwrites one copy the other is whole and newer, so a
\* power failure at any write leaves a good copy behind.
THEOREM GoodCopy == ASSUME PowerFailuresOnly PROVE Spec => []GoodCopyWhileWriting
<1>1. IInv => GoodCopyWhileWriting
  <2> SUFFICES ASSUME IInv, Writing, ~invalidate, Stored # NoData
               PROVE  Id(Other(m_currentRegion)) > Id(m_currentRegion)
    BY DEF GoodCopyWhileWriting
  <2>1. m_currentRegion \in Region /\ WritingInv(m_currentRegion)
    BY DEF IInv, HasRegion, CopyInv, Writing
  <2>2. HighestId # 0
    BY HighestFacts DEF IInv, Stored, HighestId, Region, Other
  <2> QED BY <2>1, <2>2, HighestFacts DEF IInv, WritingInv
<1> QED BY <1>1, IInvAlways, PTL

-----------------------------------------------------------------------------
(***************************************************************************)
(* The chunk implements AtomicRecord.                                      *)
(***************************************************************************)

\* What the next load finds, in terms of the ids.
StoredChoice ==
  ChunkOK => /\ HighestId = 0 => Stored = NoData
            /\ \A r \in Region :
                 /\ Id(r) \in Nat
                 /\ HighestId = IF Id(r) > Id(Other(r)) THEN Id(r) ELSE Id(Other(r))
                 /\ Id(r) > Id(Other(r)) => Stored = media[r].payload

\* The record stored is the payload of the copy with the higher transaction id.
LEMMA StoredFacts == StoredChoice
  BY HighestFacts DEF StoredChoice, Stored, HighestId, Region, Other

\* While a copy is written, the stored contents are the other copy's.
OtherCopyStored ==
  IInv /\ Writing /\ (i = 0 \/ ~invalidate) =>
    \A c \in Region : c = m_currentRegion =>
      Stored = IF Id(Other(c)) = 0 THEN NoData ELSE media[Other(c)].payload

\* updateChunk() does not touch the copy that holds the record until it is done.
LEMMA StoredWhileWriting == OtherCopyStored
<1> SUFFICES ASSUME IInv, Writing, i = 0 \/ ~invalidate,
                    NEW c \in Region, c = m_currentRegion
             PROVE  Stored = IF Id(Other(c)) = 0 THEN NoData
                             ELSE media[Other(c)].payload
  BY DEF OtherCopyStored
<1>1. WritingInv(c)
  BY DEF IInv, CopyInv, Writing
<1>2. /\ Id(c) \in Nat /\ Id(Other(c)) \in Nat
      /\ HighestId = IF Id(c) > Id(Other(c)) THEN Id(c) ELSE Id(Other(c))
  BY HighestFacts DEF IInv
<1>3. CASE HighestId = 0
  BY <1>2, <1>3, StoredFacts DEF IInv, StoredChoice
<1>4. CASE Id(c) < Id(Other(c))
  <2>1. Other(c) \in Region /\ Other(Other(c)) = c
    BY RegionFacts
  <2> QED BY <1>2, <1>4, <2>1, StoredFacts DEF IInv, StoredChoice
<1> QED BY <1>1, <1>3, <1>4 DEF WritingInv

\* An erase has emptied the record once the second copy's id is overwritten.
NothingStored ==
  IInv /\ Writing /\ i = 1 /\ invalidate /\ pc # "transId" => Stored = NoData

\* Nothing is stored between the second copy's first write and the end of an erase.
LEMMA StoredWhileErasing == NothingStored
<1> SUFFICES ASSUME IInv, Writing, i = 1, invalidate, pc # "transId"
             PROVE  Stored = NoData
  BY DEF NothingStored
<1>1. PICK c \in Region : c = m_currentRegion
  BY DEF IInv, HasRegion, Writing
<1>2. ErasingInv(c) /\ Progress(c)
  BY <1>1 DEF IInv, CopyInv, Writing
<1>3. Id(c) = 0 /\ Id(Other(c)) = 0
  BY <1>1, <1>2 DEF IInv, ErasingInv, Progress, Id, Valid, BadCrc, Crc, ChunkOK
<1>4. HighestId = 0
  BY <1>3, HighestFacts DEF IInv
<1> QED BY <1>1, <1>4, StoredFacts DEF IInv, StoredChoice

\* What is stored depends on the media alone.
LEMMA SameStored == ASSUME UNCHANGED media PROVE Stored' = Stored
  BY DEF Stored, Id, Valid

\* A write that is not the last of its copy.
LEMMA FieldStep ==
  ASSUME IInv, IInv', PowerFailuresOnly,
         WriteTransId \/ WriteDataLen \/ WritePayload
  PROVE  /\ UNCHANGED <<Pending, i, invalidate>> /\ Writing /\ Writing'
         /\ \/ Stored' = Stored /\ (TakenEffect' <=> TakenEffect)
            \/ ~TakenEffect /\ TakenEffect' /\ invalidate /\ Stored' = NoData
<1>1. PICK c \in Region : c = m_currentRegion
  BY DEF IInv, HasRegion, WriteTransId, WriteDataLen, WritePayload, WritePc
<1>0. OtherCopyStored /\ OtherCopyStored' /\ NothingStored /\ NothingStored'
  BY StoredWhileWriting, StoredWhileErasing, PTL
<1>2. PICK copy : media' = [media EXCEPT ![c] = copy]
  BY <1>1, WriteSucceeds DEF WriteTransId, WriteDataLen, WritePayload, IInv
<1>3. /\ UNCHANGED <<i, invalidate, g_workBuffer, m_currentRegion>>
      /\ Writing /\ Writing' /\ pc' # "transId"
  BY DEF WriteTransId, WriteDataLen, WritePayload, Writing, WritePc
<1>4. UNCHANGED Pending
  BY <1>3 DEF Pending
<1>5. CASE i = 0 \/ ~invalidate
  <2>1. media'[Other(c)] = media[Other(c)] /\ Id(Other(c))' = Id(Other(c))
    BY <1>2, TargetOnly DEF IInv
  <2>2. Stored = IF Id(Other(c)) = 0 THEN NoData ELSE media[Other(c)].payload
    BY <1>1, <1>3, <1>5, <1>0 DEF OtherCopyStored
  <2>3. Stored' = IF Id(Other(c))' = 0 THEN NoData ELSE media'[Other(c)].payload
    BY <1>0, <1>1, <1>3, <1>5 DEF OtherCopyStored
  <2>4. TakenEffect' <=> TakenEffect
    BY <1>3, <1>5 DEF TakenEffect
  <2> QED BY <1>3, <1>4, <2>1, <2>2, <2>3, <2>4
<1>6. CASE i = 1 /\ invalidate
  <2>1. Stored' = NoData
    BY <1>0, <1>3, <1>6 DEF NothingStored
  <2>2. TakenEffect'
    BY <1>3, <1>6 DEF TakenEffect
  <2>3. CASE pc = "transId"
    BY <1>3, <1>4, <1>6, <2>1, <2>2, <2>3 DEF TakenEffect
  <2>4. CASE pc # "transId"
    BY <1>3, <1>4, <1>6, <2>1, <2>2, <2>4, <1>0
    DEF TakenEffect, NothingStored
  <2> QED BY <2>3, <2>4
<1> QED BY <1>5, <1>6 DEF IInv, ChunkOK

\* The write of a CRC ends a copy: the first copy of new contents makes them
\* the stored ones, every other CRC leaves the stored contents alone.
LEMMA CrcStep ==
  ASSUME IInv, IInv', PowerFailuresOnly, WriteCrc
  PROVE  \/ /\ i = 0 /\ i' = 1 /\ Writing' /\ pc' = "transId"
            /\ UNCHANGED <<invalidate, g_workBuffer>>
            /\ IF invalidate THEN Stored' = Stored ELSE Stored' = g_workBuffer
         \/ i = 1 /\ ~Writing' /\ Stored' = Stored
<1>0. /\ OtherCopyStored /\ OtherCopyStored' /\ NothingStored
      /\ StoredChoice /\ StoredChoice'
  BY StoredWhileWriting, StoredWhileErasing, StoredFacts, PTL
<1>1. PICK c \in Region : c = m_currentRegion
  BY DEF IInv, HasRegion, WriteCrc, EndOfCopy, WritePc
<1>2. media' = [media EXCEPT ![c] = [Target EXCEPT !.crc = CrcToWrite]]
  BY <1>1, WriteSucceeds DEF WriteCrc, EndOfCopy, IInv
<1>3. /\ media'[c] = [media[c] EXCEPT !.crc = CrcToWrite]
      /\ media'[Other(c)] = media[Other(c)] /\ Id(Other(c))' = Id(Other(c))
  BY <1>1, <1>2, TargetOnly DEF IInv, Target
<1>4. /\ Writing /\ pc = "crc" /\ UNCHANGED <<invalidate, g_workBuffer>>
      /\ \/ /\ i = 0 /\ i' = 1 /\ Writing' /\ pc' = "transId"
            /\ m_currentRegion' = Other(c)
         \/ i = 1 /\ pc' = "ready" /\ ~Writing' /\ m_currentRegion' = c
  BY <1>1 DEF WriteCrc, EndOfCopy, Writing, WritePc, NextCopy
<1>5. media[c] \in Copies /\ Other(c) \in Region /\ Other(Other(c)) = c
  BY RegionFacts DEF IInv, ChunkOK
<1>6. media'[c].payload = g_workBuffer
  BY <1>1, <1>3, <1>4, <1>5 DEF IInv, CopyInv, Progress, WritePc, Copies
<1>7. CASE i = 0 /\ ~invalidate
  <2>1. Id(c)' # 0
    BY <1>4, <1>5, <1>7 DEF IInv, CopyInv, WritePc, Id, Valid
  <2>2. Stored' = IF Id(Other(Other(c)))' = 0 THEN NoData
                  ELSE media'[Other(Other(c))].payload
    BY <1>0, <1>4, <1>5, <1>7 DEF OtherCopyStored
  <2> QED BY <1>4, <1>5, <1>6, <1>7, <2>1, <2>2
<1>8. CASE i = 0 /\ invalidate
  <2>1. Id(c)' = 0
    BY <1>3, <1>5, <1>8 DEF CrcToWrite, Copies, Id, Valid, BadCrc, Crc
  <2>2. Stored = IF Id(Other(c)) = 0 THEN NoData ELSE media[Other(c)].payload
    BY <1>0, <1>1, <1>4, <1>8 DEF OtherCopyStored
  <2>3. Stored' = IF Id(Other(c))' = 0 THEN NoData ELSE media'[Other(c)].payload
    BY <1>0, <1>5, <2>1 DEF IInv, StoredChoice
  <2> QED BY <1>3, <1>4, <1>8, <2>2, <2>3
<1>9. CASE i = 1 /\ ~invalidate
  <2>1. /\ Id(Other(c)) # 0 /\ media[Other(c)].payload = g_workBuffer
    BY <1>1, <1>4, <1>9 DEF IInv, CopyInv, WritePc
  <2>2. Stored = g_workBuffer
    BY <1>0, <1>1, <1>4, <1>9, <2>1 DEF OtherCopyStored
  <2>3. Id(m_currentRegion)' = Id(c)'
    BY <1>4, <1>9 DEF Id, Valid
  <2>4. Id(c)' > Id(Other(c))'
    BY <1>0, <1>3, <1>4, <1>5, <1>9, <2>1, <2>3
    DEF IInv, CopyInv, StoredChoice, Region, Other
  <2>5. Stored' = media'[c].payload
    BY <1>0, <2>4 DEF IInv, StoredChoice
  <2> QED BY <1>4, <1>6, <1>9, <2>2, <2>5
<1>10. CASE i = 1 /\ invalidate
  <2>1. media'[c].crc = BadCrc /\ media'[Other(c)].crc = BadCrc
    BY <1>1, <1>3, <1>4, <1>5, <1>10
    DEF IInv, CopyInv, ErasingInv, WritePc, CrcToWrite, Copies
  <2>2. Id(c)' = 0 /\ Id(Other(c))' = 0
    BY <2>1 DEF Id, Valid, BadCrc, Crc
  <2>3. Stored' = NoData
    BY <1>0, <2>2 DEF IInv, StoredChoice
  <2> QED BY <1>0, <1>4, <1>10, <2>3 DEF NothingStored
<1> QED BY <1>7, <1>8, <1>9, <1>10 DEF IInv, ChunkOK

\* A power failure leaves the stored contents alone.
LEMMA PowerFailStep ==
  ASSUME IInv, IInv', PowerFailuresOnly, PowerFail
  PROVE  Stored' = Stored /\ ~Writing'
<1>1. ~Writing'
  BY DEF PowerFail, Writing, WritePc
<1>2. CASE UNCHANGED media
  BY <1>1, <1>2, SameStored
<1>3. CASE /\ pc \in WritePc
           /\ media' = [media EXCEPT ![m_currentRegion] = HalfWritten]
  <2>1. PICK c \in Region : c = m_currentRegion
    BY <1>3 DEF IInv, HasRegion
  <2>2. ~invalidate /\ Writing
    BY <1>3 DEF PowerFail, PowerFailuresOnly, Writing
  <2>3. WritingInv(c) /\ Progress(c) /\ media[c] \in Copies /\ m_transId \in Nat
        /\ HighestId \in Nat
    BY <1>3, <2>1, <2>2, HighestFacts DEF IInv, CopyInv, ChunkOK
  <2>4. media'[c] = HalfWritten /\ media'[Other(c)] = media[Other(c)]
        /\ Id(Other(c))' = Id(Other(c))
    BY <1>3, <2>1, TargetOnly DEF IInv
  <2>5. Id(c)' = 0
    <3>1. CASE pc = "transId"
      BY <2>1, <2>3, <2>4, <3>1 DEF HalfWritten, Target, Copies, Id, Valid
    <3>2. CASE pc = "dataLen"
      BY <2>1, <2>3, <2>4, <3>2 DEF HalfWritten, Target, Copies, Id, Valid, Crc,
                                    WritingInv, CrcsNotAhead, Progress
    <3>3. CASE pc = "payload"
      BY <2>1, <2>3, <2>4, <3>3 DEF HalfWritten, Target, Copies, Id, Valid, Crc,
                                    WritingInv, CrcsNotAhead, Progress
    <3>4. CASE pc = "crc"
      BY <2>1, <2>3, <2>4, <3>4 DEF HalfWritten, Target, Copies, Id, Valid, Crc,
                                    BadCrc, WritingInv, Progress
    <3> QED BY <1>3, <3>1, <3>2, <3>3, <3>4 DEF WritePc
  <2>6. OtherCopyStored /\ StoredChoice'
    BY StoredWhileWriting, StoredFacts, PTL
  <2>7. Stored = IF Id(Other(c)) = 0 THEN NoData ELSE media[Other(c)].payload
    BY <2>1, <2>2, <2>6 DEF OtherCopyStored
  <2>8. Stored' = IF Id(Other(c))' = 0 THEN NoData ELSE media'[Other(c)].payload
    BY <2>5, <2>6, RegionFacts DEF IInv, StoredChoice
  <2> QED BY <1>1, <2>4, <2>7, <2>8
<1> QED BY <1>2, <1>3 DEF PowerFail


\* Every step of the chunk is a step of AtomicRecord or changes nothing in it.
LEMMA AtomicStep ==
  ASSUME IInv, IInv', PowerFailuresOnly, [Next]_vars
  PROVE  /\ [Atomic!Next]_(Atomic!vars)
         /\ Stored # NoData /\ Stored' = NoData => invalidate
<1>1. ASSUME UNCHANGED media, ~Writing, ~Writing'
      PROVE  UNCHANGED Atomic!vars /\ Stored' = Stored
  BY <1>1, SameStored DEF Atomic!vars, Pending, TakenEffect
<1>2. CASE UNCHANGED vars
  BY <1>2, SameStored
  DEF vars, ram, Atomic!vars, Pending, TakenEffect, Writing
<1>3. CASE \/ \E len \in RecordLens : Start(len)
           \/ ReadA \/ ReadB \/ Select \/ Stop
  <2>1. UNCHANGED media /\ ~Writing /\ ~Writing'
    BY <1>3 DEF Start, ReadA, ReadB, Select, Stop, Writing, WritePc
  <2> QED BY <1>1, <2>1
<1>4. ASSUME NEW p \in Payloads, NEW inv \in BOOLEAN, UpdateData(p, inv)
      PROVE  [Atomic!Next]_(Atomic!vars) /\ Stored' = Stored
  <2>1. UNCHANGED media /\ ~Writing
    BY <1>4 DEF UpdateData, Writing, WritePc
  <2>2. CASE UNCHANGED pc
    BY <1>1, <2>1, <2>2 DEF Writing
  <2>3. CASE NextCopy
    <3>1. Stored' = Stored /\ Writing' /\ i' = 0 /\ ~TakenEffect' /\ Pending = {}
      BY <1>4, <2>1, <2>3, SameStored
      DEF UpdateData, NextCopy, Writing, WritePc, TakenEffect, Pending
    <3>2. PICK v \in Payloads \cup {NoData} : Pending' = {v}
      BY <1>4, <2>3, <3>1 DEF UpdateData, NextCopy, Pending
    <3>3. Atomic!Begin(v)
      BY <3>1, <3>2 DEF Atomic!Begin
    <3> QED BY <3>1, <3>2, <3>3 DEF Atomic!Next
  <2> QED BY <1>4, <2>2, <2>3 DEF UpdateData
<1>5. CASE WriteTransId \/ WriteDataLen \/ WritePayload
  <2>1. /\ UNCHANGED <<Pending, i, invalidate>> /\ Writing /\ Writing'
        /\ \/ Stored' = Stored /\ (TakenEffect' <=> TakenEffect)
           \/ ~TakenEffect /\ TakenEffect' /\ invalidate /\ Stored' = NoData
    BY <1>5, FieldStep
  <2>2. CASE Stored' = Stored /\ (TakenEffect' <=> TakenEffect)
    BY <2>1, <2>2 DEF Atomic!vars, TakenEffect
  <2>3. CASE ~TakenEffect /\ TakenEffect' /\ invalidate /\ Stored' = NoData
    <3>1. Stored' \in Pending /\ TakenEffect' = TRUE
      BY <2>1, <2>3 DEF Pending, TakenEffect
    <3>2. Atomic!Commit
      BY <2>1, <2>3, <3>1 DEF Atomic!Commit
    <3> QED BY <2>3, <3>2 DEF Atomic!Next
  <2> QED BY <2>1, <2>2, <2>3
<1>6. CASE WriteCrc
  <2>1. Writing /\ pc = "crc"
    BY <1>6 DEF WriteCrc, EndOfCopy, Writing, WritePc
  <2>2. CASE /\ i = 0 /\ i' = 1 /\ Writing' /\ pc' = "transId"
             /\ UNCHANGED <<invalidate, g_workBuffer>>
             /\ IF invalidate THEN Stored' = Stored ELSE Stored' = g_workBuffer
    <3>1. UNCHANGED Pending /\ ~TakenEffect
      BY <2>1, <2>2 DEF Pending, TakenEffect
    <3>2. CASE invalidate
      <4>1. ~TakenEffect'
        BY <2>2, <3>2 DEF TakenEffect
      <4> QED BY <2>2, <3>1, <3>2, <4>1 DEF Atomic!vars, TakenEffect
    <3>3. CASE ~invalidate
      <4>1. TakenEffect' = TRUE /\ Stored' \in Pending
        BY <2>1, <2>2, <3>3 DEF TakenEffect, Pending
      <4>2. Atomic!Commit
        BY <3>1, <4>1 DEF Atomic!Commit
      <4>3. Stored' # NoData
        BY <2>1, <2>2, <3>3, PayloadAssumption DEF IInv, CopyInv, Writing
      <4> QED BY <4>2, <4>3 DEF Atomic!Next
    <3> QED BY <3>2, <3>3
  <2>3. CASE i = 1 /\ ~Writing' /\ Stored' = Stored
    <3>1. TakenEffect /\ Pending # {}
      BY <2>1, <2>3 DEF TakenEffect, Pending
    <3>2. TakenEffect' = FALSE /\ Pending' = {}
      BY <2>3 DEF TakenEffect, Pending
    <3>3. Atomic!End
      BY <2>3, <3>1, <3>2 DEF Atomic!End
    <3> QED BY <2>3, <3>3 DEF Atomic!Next
  <2> QED BY <1>6, <2>2, <2>3, CrcStep
<1>7. CASE PowerFail
  <2>1. Stored' = Stored /\ ~Writing'
    BY <1>7, PowerFailStep
  <2>2. TakenEffect' = FALSE /\ Pending' = {}
    BY <2>1 DEF TakenEffect, Pending
  <2>3. CASE Writing
    <3>1. Atomic!PowerFail
      BY <2>1, <2>2, <2>3 DEF Atomic!PowerFail, Pending
    <3> QED BY <2>1, <3>1 DEF Atomic!Next
  <2>4. CASE ~Writing
    <3>1. TakenEffect = FALSE /\ Pending = {}
      BY <2>4 DEF TakenEffect, Pending
    <3> QED BY <2>1, <2>2, <3>1 DEF Atomic!vars
  <2> QED BY <2>3, <2>4
<1> QED
  BY <1>2, <1>3, <1>4, <1>5, <1>6, <1>7 DEF Next, Step

\* Blank media implement the record that was never written.
LEMMA AtomicInit == Init => Atomic!Init
<1> SUFFICES ASSUME Init PROVE Atomic!Init
  OBVIOUS
<1>1. Id("A") = 0 /\ Id("B") = 0
  BY DEF Init, Id, Valid, Blank, Region
<1>2. Stored = NoData
  BY <1>1 DEF Stored
<1>3. ~Writing
  BY DEF Init, Writing, WritePc
<1> QED BY <1>2, <1>3 DEF Atomic!Init, Pending, TakenEffect

\* A record that is stored stays readable through any number of power
\* failures at any point of loadData() and updateData().
THEOREM RecordNeverLost == ASSUME PowerFailuresOnly PROVE Spec => NeverLost
<1>1. IInv /\ IInv' /\ [Next]_vars =>
        [Stored # NoData /\ Stored' = NoData => invalidate]_vars
  BY AtomicStep
<1> QED BY <1>1, IInvAlways, PTL DEF Spec, NeverLost

\* The chunk implements AtomicRecord: across power failures the next load
\* finds the contents before an update or the new ones, never anything else,
\* and updateData() returns only once the new ones are the stored ones.
THEOREM ImplementsAtomicRecord == ASSUME PowerFailuresOnly PROVE Spec => AtomicSpec
<1>1. IInv /\ IInv' /\ [Next]_vars => [Atomic!Next]_(Atomic!vars)
  BY AtomicStep
<1> QED BY <1>1, AtomicInit, IInvAlways, PTL DEF Spec, AtomicSpec, Atomic!Spec

-----------------------------------------------------------------------------
(***************************************************************************)
(* Media faults: from here on any access may fail, and power at any time.  *)
(***************************************************************************)

\* As long as no write of the copy under way has failed, the media holds what
\* has been written of it; the result that updateData() returns says so of the
\* second copy.
ResultInv ==
    /\ pc \in WritePc => m_transId > 0
    /\ pc \in LoadPc => result = "none"
    /\ result = "ok" =>
         /\ pc \in {"dataLen", "payload", "crc"} => Target.transId = m_transId
         /\ pc \in {"payload", "crc"} => Target.dataLen = m_dataLen
         /\ pc = "crc" => Target.payload = g_workBuffer
         /\ pc = "ready" =>
              /\ m_transId > 0
              /\ Target = [transId |-> m_transId, dataLen |-> m_dataLen,
                           payload |-> g_workBuffer, crc |-> CrcToWrite]

\* One write that succeeds changes the target, and nothing else on the media.
LEMMA WriteTarget ==
  ASSUME ChunkOK, m_currentRegion \in Region, NEW copy, Write(copy, TRUE), UNCHANGED m_currentRegion
  PROVE  Target' = copy
BY DEF Write, Target, ChunkOK

\* ResultInv is inductive, with any faults.
LEMMA ResultStep ==
  ASSUME ChunkOK, HasRegion, ResultInv, [Next]_vars
  PROVE  ResultInv'
<1> USE DEF WritePc, LoadPc
<1>1. CASE UNCHANGED vars
  BY <1>1 DEF vars, ram, ResultInv, Target, CrcToWrite
<1>2. ASSUME NEW len \in RecordLens, Start(len) PROVE ResultInv'
  BY <1>2 DEF Start, ResultInv
<1>3. CASE ReadA \/ ReadB
  BY <1>3 DEF ReadA, ReadB, ResultInv
<1>4. CASE Select
  <2>1. pc' = "ready" /\ result' = result
    BY <1>4 DEF Select
  <2> QED BY <1>4, <2>1 DEF Select, ResultInv
<1>5. ASSUME NEW p \in Payloads, NEW inv \in BOOLEAN, UpdateData(p, inv) PROVE ResultInv'
  <2>1. result' # "ok"
    BY <1>5 DEF UpdateData
  <2>2. pc' \in WritePc => m_transId' > 0
    BY <1>5 DEF UpdateData, NextCopy, ChunkOK
  <2>3. pc' \in {"ready", "transId"}
    BY <1>5 DEF UpdateData, NextCopy
  <2> QED BY <2>1, <2>2, <2>3 DEF ResultInv
<1>6. CASE WriteTransId
  <2>1. m_currentRegion \in Region /\ pc' = "dataLen" /\ UNCHANGED <<m_transId, m_currentRegion>>
    BY <1>6 DEF WriteTransId, HasRegion
  <2>2. PICK ok \in BOOLEAN : /\ Write([Target EXCEPT !.transId = m_transId], ok)
                              /\ result' = IF ok THEN "ok" ELSE "failed"
    BY <1>6 DEF WriteTransId
  <2>3. ASSUME result' = "ok" PROVE Target'.transId = m_transId
    <3>1. Target' = [Target EXCEPT !.transId = m_transId]
      BY <2>1, <2>2, <2>3, WriteTarget
    <3> QED BY <2>1, <3>1 DEF Target, ChunkOK, Copies
  <2> QED BY <1>6, <2>1, <2>3 DEF ResultInv, WriteTransId
<1>7. CASE WriteDataLen
  <2>1. m_currentRegion \in Region /\ pc' = "payload" /\ pc = "dataLen"
        /\ UNCHANGED <<m_transId, m_dataLen, m_currentRegion>>
    BY <1>7 DEF WriteDataLen, HasRegion
  <2>2. PICK ok \in BOOLEAN : Write([Target EXCEPT !.dataLen = m_dataLen], ok) /\ AndResult(ok)
    BY <1>7 DEF WriteDataLen
  <2>3. ASSUME result' = "ok"
        PROVE  Target'.transId = m_transId /\ Target'.dataLen = m_dataLen
    <3>1. ok /\ result = "ok"
      BY <2>2, <2>3 DEF AndResult
    <3>2. Target' = [Target EXCEPT !.dataLen = m_dataLen]
      BY <2>1, <2>2, <3>1, WriteTarget
    <3> QED BY <2>1, <3>1, <3>2 DEF Target, ChunkOK, Copies, ResultInv
  <2> QED BY <2>1, <2>3 DEF ResultInv
<1>8. CASE WritePayload
  <2>1. m_currentRegion \in Region /\ pc' = "crc" /\ pc = "payload"
        /\ UNCHANGED <<m_transId, m_dataLen, m_currentRegion, g_workBuffer>>
    BY <1>8 DEF WritePayload, HasRegion
  <2>2. PICK ok \in BOOLEAN : Write([Target EXCEPT !.payload = g_workBuffer], ok) /\ AndResult(ok)
    BY <1>8 DEF WritePayload
  <2>3. ASSUME result' = "ok"
        PROVE  /\ Target'.transId = m_transId /\ Target'.dataLen = m_dataLen
               /\ Target'.payload = g_workBuffer
    <3>1. ok /\ result = "ok"
      BY <2>2, <2>3 DEF AndResult
    <3>2. Target' = [Target EXCEPT !.payload = g_workBuffer]
      BY <2>1, <2>2, <3>1, WriteTarget
    <3> QED BY <2>1, <3>1, <3>2 DEF Target, ChunkOK, Copies, ResultInv
  <2> QED BY <2>1, <2>3 DEF ResultInv
<1>9. CASE WriteCrc
  <2>1. CASE pc' = "transId"
    <3>1. m_transId' > 0
      BY <1>9, <2>1 DEF WriteCrc, EndOfCopy, NextCopy, ChunkOK
    <3> QED BY <2>1, <3>1 DEF ResultInv
  <2>2. CASE pc' = "ready"
    <3>1. m_currentRegion \in Region /\ pc = "crc"
          /\ UNCHANGED <<m_transId, m_dataLen, m_currentRegion, g_workBuffer, invalidate>>
      BY <1>9, <2>2 DEF WriteCrc, HasRegion, EndOfCopy, NextCopy
    <3>2. PICK ok \in BOOLEAN : Write([Target EXCEPT !.crc = CrcToWrite], ok) /\ AndResult(ok)
      BY <1>9 DEF WriteCrc
    <3>3. ASSUME result' = "ok"
          PROVE  Target' = [transId |-> m_transId, dataLen |-> m_dataLen,
                            payload |-> g_workBuffer, crc |-> CrcToWrite]
      <4>1. ok /\ result = "ok"
        BY <3>2, <3>3 DEF AndResult
      <4>2. Target' = [Target EXCEPT !.crc = CrcToWrite]
        BY <3>1, <3>2, <4>1, WriteTarget
      <4>3. /\ Target \in Copies /\ Target.transId = m_transId /\ Target.dataLen = m_dataLen
            /\ Target.payload = g_workBuffer
        BY <3>1, <4>1 DEF Target, ChunkOK, ResultInv
      <4> QED BY <4>2, <4>3 DEF Copies
    <3>4. CrcToWrite' = CrcToWrite
      BY <3>1 DEF CrcToWrite
    <3>5. m_transId > 0
      BY <3>1 DEF ResultInv
    <3> QED BY <2>2, <3>1, <3>3, <3>4, <3>5 DEF ResultInv
  <2> QED BY <1>9, <2>1, <2>2 DEF WriteCrc, EndOfCopy, NextCopy
<1>10. CASE Stop \/ PowerFail
  BY <1>10 DEF Stop, PowerFail, ResultInv
<1> QED BY <1>1, <1>2, <1>3, <1>4, <1>5, <1>6, <1>7, <1>8, <1>9, <1>10 DEF Next, Step

\* An update that returns true is stored, after any number of failed reads and
\* writes and power failures, unless the first copy kept an id that is no lower.
THEOREM TrueIsStored == Spec => []TrueMeansStored
<1>1. Init => ChunkOK /\ HasRegion /\ ResultInv
  BY TypeInit DEF Init, HasRegion, ResultInv, WritePc, LoadPc
<1>2. ChunkOK /\ HasRegion /\ ResultInv /\ [Next]_vars => ChunkOK' /\ HasRegion' /\ ResultInv'
  BY TypeStep, ResultStep
<1>3. ChunkOK /\ HasRegion /\ ResultInv => TrueMeansStored
  <2> SUFFICES ASSUME ChunkOK, HasRegion, ResultInv, pc = "ready", result = "ok", ~invalidate,
                      media[Other(m_currentRegion)].transId < m_transId
               PROVE  Stored = g_workBuffer
    BY DEF TrueMeansStored
  <2>1. PICK c \in Region : c = m_currentRegion
    BY DEF HasRegion
  <2>2. /\ m_transId > 0 /\ media[c] = [transId |-> m_transId, dataLen |-> m_dataLen,
                                        payload |-> g_workBuffer, crc |-> CrcToWrite]
    BY <2>1 DEF ResultInv, Target
  <2>3. Id(c) = m_transId
    BY <2>2 DEF Id, Valid, CrcToWrite, ChunkOK
  <2>4. Id(Other(c)) < m_transId
    BY <2>1, <2>2 DEF Id, ChunkOK
  <2> QED BY <2>1, <2>2, <2>3, <2>4, StoredFacts DEF StoredChoice
<1> QED BY <1>1, <1>2, <1>3, PTL DEF Spec

-----------------------------------------------------------------------------
(* What a load delivers *)

\* A CRC on the media is none, or covers contents of a record and their length.
CrcsOwn ==
    \A r \in Region :
        \/ media[r].crc = BadCrc
        \/ /\ media[r].crc.payload \in Payloads
           /\ media[r].crc.dataLen = PayloadLen[media[r].crc.payload]

\* Both copies are whole and alike.
Alike == Valid("A") /\ Valid("B") /\ media["A"].payload = media["B"].payload

\* A copy that is whole and was read without an error leaves its payload in the
\* work buffer; a failing read of B leaves bytes of both copies there.
LoadInv ==
    /\ CrcsOwn
    /\ pc \in WritePc /\ ~invalidate =>
         g_workBuffer \in Payloads /\ m_dataLen = PayloadLen[g_workBuffer]
    /\ pc \in WritePc \cup LoadPc => delivered = NoData
    /\ pc = "readB" /\ transRead["A"] # 0 => g_workBuffer = media["A"].payload
    /\ pc = "select" /\ transRead["B"] # 0 => g_workBuffer = media["B"].payload
    /\ pc = "select" /\ transRead["A"] # 0 /\ Alike => g_workBuffer = media["B"].payload
    /\ pc = "ready" /\ delivered # NoData /\ (transRead["B"] # 0 \/ Alike) =>
         delivered = media["B"].payload

\* A write leaves CRCs of payloads with their own length, or none.
LEMMA WriteCrcsOwn ==
  ASSUME ChunkOK, CrcsOwn, m_currentRegion \in Region, pc \in WritePc,
         NEW copy \in Copies, media' = [media EXCEPT ![m_currentRegion] = copy],
         \/ copy.crc = Target.crc \/ copy.crc = BadCrc
         \/ copy.crc.payload \in Payloads /\ copy.crc.dataLen = PayloadLen[copy.crc.payload]
  PROVE  CrcsOwn'
<1> SUFFICES ASSUME NEW r \in Region
             PROVE  \/ media'[r].crc = BadCrc
                    \/ /\ media'[r].crc.payload \in Payloads
                       /\ media'[r].crc.dataLen = PayloadLen[media'[r].crc.payload]
  BY DEF CrcsOwn
<1>1. CASE r = m_currentRegion
  <2>1. media'[r] = copy
    BY <1>1 DEF ChunkOK
  <2> QED BY <1>1, <2>1 DEF CrcsOwn, Target
<1>2. CASE r # m_currentRegion
  <2>1. media'[r] = media[r]
    BY <1>2 DEF ChunkOK
  <2> QED BY <2>1 DEF CrcsOwn
<1> QED BY <1>1, <1>2

\* A write, done or failed, of a field other than a wrong CRC.
LEMMA WriteLoadInv ==
  ASSUME ChunkOK, CrcsOwn, m_currentRegion \in Region, pc \in WritePc,
         NEW copy \in Copies, NEW ok \in BOOLEAN, Write(copy, ok),
         \/ copy.crc = Target.crc \/ copy.crc = BadCrc
         \/ copy.crc.payload \in Payloads /\ copy.crc.dataLen = PayloadLen[copy.crc.payload]
  PROVE  CrcsOwn'
<1>1. /\ HalfWritten \in Copies
      /\ HalfWritten.crc = Target.crc \/ HalfWritten.crc = BadCrc
  BY DEF HalfWritten, Target, WritePc, Copies, ChunkOK, BadCrc, Crc, Bytes
<1>2. CASE UNCHANGED media
  BY <1>2 DEF CrcsOwn
<1>3. CASE media' = [media EXCEPT ![m_currentRegion] = copy]
  BY <1>3, WriteCrcsOwn
<1>4. CASE media' = [media EXCEPT ![m_currentRegion] = HalfWritten]
  BY <1>1, <1>4, WriteCrcsOwn
<1> QED BY <1>2, <1>3, <1>4 DEF Write

\* A copy that passes its CRC is read to the last byte.
LEMMA WholeCopyRead ==
  ASSUME ChunkOK, CrcsOwn, NEW r \in Region, Valid(r)
  PROVE  BytesRead(r) = {media[r].payload}
<1>1. media[r].crc # BadCrc
  BY DEF Valid, BadCrc, Crc, ChunkOK, Copies
<1>2. media[r].payload \in Payloads /\ media[r].dataLen = PayloadLen[media[r].payload]
  BY <1>1 DEF CrcsOwn, Valid, Crc
<1> QED BY <1>2, PayloadAssumption DEF BytesRead

\* LoadInv is inductive, with any faults.
LEMMA LoadStep ==
  ASSUME ChunkOK, HasRegion, LoadInv, [Next]_vars
  PROVE  LoadInv'
<1> USE DEF WritePc, LoadPc
<1>1. CASE UNCHANGED vars
  BY <1>1 DEF vars, ram, LoadInv, CrcsOwn, Alike, Valid
<1>2. ASSUME NEW len \in RecordLens, Start(len) PROVE LoadInv'
  BY <1>2 DEF Start, LoadInv, CrcsOwn
<1>a. ASSUME NEW r \in Region, GetTransactionId(r), transRead'[r] # 0
      PROVE  g_workBuffer' = media[r].payload
  <2>1. Valid(r) /\ g_workBuffer' \in BytesRead(r)
    BY <1>a DEF GetTransactionId, ChunkOK
  <2> QED BY <2>1, WholeCopyRead DEF LoadInv
<1>3. CASE ReadA
  <2>1. GetTransactionId("A") /\ "A" \in Region
    BY <1>3 DEF ReadA, Region
  <2>2. transRead'["A"] # 0 => g_workBuffer' = media["A"].payload
    BY <1>a, <2>1
  <2> QED BY <1>3, <2>2 DEF ReadA, LoadInv, CrcsOwn
<1>4. CASE ReadB
  <2>1. /\ CrcsOwn' /\ pc = "readB" /\ pc' = "select" /\ delivered' = NoData
        /\ UNCHANGED media
    BY <1>4 DEF ReadB, LoadInv, CrcsOwn
  <2>2. GetTransactionId("B") /\ "B" \in Region
    BY <1>4 DEF ReadB, Region
  <2>3. transRead'["B"] # 0 => g_workBuffer' = media["B"].payload
    BY <1>a, <2>2
  <2>4. ASSUME transRead'["A"] # 0, Alike PROVE g_workBuffer' = media["B"].payload
    <3>1. transRead'["A"] = transRead["A"]
      BY <2>2 DEF GetTransactionId, ChunkOK, Region
    <3>2. g_workBuffer = media["B"].payload
      BY <2>1, <2>4, <3>1 DEF LoadInv, Alike
    <3>3. BytesRead("B") = {media["B"].payload}
      BY <2>2, <2>4, WholeCopyRead DEF LoadInv, Alike
    <3> QED BY <2>2, <3>2, <3>3 DEF GetTransactionId, Mix
  <2> QED BY <2>1, <2>3, <2>4 DEF LoadInv, Alike, Valid
<1>5. CASE Select
  <2>1. /\ CrcsOwn' /\ pc = "select" /\ pc' = "ready" /\ UNCHANGED <<media, transRead>>
        /\ delivered = NoData
    BY <1>5 DEF Select, LoadInv, CrcsOwn
  <2>2. \/ delivered' = NoData
        \/ delivered' = g_workBuffer /\ (transRead["A"] # 0 \/ transRead["B"] # 0)
    BY <1>5, <2>1 DEF Select
  <2> QED BY <2>1, <2>2 DEF LoadInv, Alike, Valid
<1>6. ASSUME NEW p \in Payloads, NEW inv \in BOOLEAN, UpdateData(p, inv) PROVE LoadInv'
  <2>1. CrcsOwn' /\ delivered' = NoData
    BY <1>6 DEF UpdateData, LoadInv, CrcsOwn
  <2>2. pc' \in {"ready", "transId"}
    BY <1>6 DEF UpdateData, NextCopy
  <2>3. pc' = "transId" /\ ~invalidate' =>
          g_workBuffer' \in Payloads /\ m_dataLen' = PayloadLen[g_workBuffer']
    BY <1>6 DEF UpdateData
  <2> QED BY <2>1, <2>2, <2>3 DEF LoadInv
<1>7. ASSUME pc \in WritePc, UNCHANGED <<m_dataLen, g_workBuffer, invalidate, delivered, readFaults>>,
             CrcsOwn', pc' \in WritePc \cup {"ready"}
      PROVE  LoadInv'
  BY <1>7 DEF LoadInv, Alike
<1>8. CASE WriteTransId
  <2>1. [Target EXCEPT !.transId = m_transId] \in Copies
        /\ [Target EXCEPT !.transId = m_transId].crc = Target.crc
    BY <1>8 DEF WriteTransId, Target, Copies, ChunkOK, HasRegion
  <2>2. CrcsOwn'
    BY <1>8, <2>1, WriteLoadInv DEF WriteTransId, HasRegion, LoadInv
  <2> QED BY <1>7, <1>8, <2>2 DEF WriteTransId
<1>9. CASE WriteDataLen
  <2>1. [Target EXCEPT !.dataLen = m_dataLen] \in Copies
        /\ [Target EXCEPT !.dataLen = m_dataLen].crc = Target.crc
    BY <1>9 DEF WriteDataLen, Target, Copies, ChunkOK, HasRegion
  <2>2. CrcsOwn'
    BY <1>9, <2>1, WriteLoadInv DEF WriteDataLen, HasRegion, LoadInv
  <2> QED BY <1>7, <1>9, <2>2 DEF WriteDataLen
<1>10. CASE WritePayload
  <2>1. [Target EXCEPT !.payload = g_workBuffer] \in Copies
        /\ [Target EXCEPT !.payload = g_workBuffer].crc = Target.crc
    BY <1>10 DEF WritePayload, Target, Copies, ChunkOK, HasRegion
  <2>2. CrcsOwn'
    BY <1>10, <2>1, WriteLoadInv DEF WritePayload, HasRegion, LoadInv
  <2> QED BY <1>7, <1>10, <2>2 DEF WritePayload
<1>11. CASE WriteCrc
  <2>1. [Target EXCEPT !.crc = CrcToWrite] \in Copies
        /\ [Target EXCEPT !.crc = CrcToWrite].crc = CrcToWrite
    BY <1>11 DEF WriteCrc, Target, CrcToWrite, Crc, BadCrc, Copies, ChunkOK, HasRegion, Bytes
  <2>2. \/ CrcToWrite = BadCrc
        \/ CrcToWrite.payload \in Payloads /\ CrcToWrite.dataLen = PayloadLen[CrcToWrite.payload]
    BY <1>11 DEF WriteCrc, CrcToWrite, Crc, LoadInv
  <2>3. CrcsOwn'
    BY <1>11, <2>1, <2>2, WriteLoadInv DEF WriteCrc, HasRegion, LoadInv
  <2> QED BY <1>7, <1>11, <2>3 DEF WriteCrc, EndOfCopy, NextCopy
<1>12. CASE Stop
  BY <1>12 DEF Stop, LoadInv, CrcsOwn
<1>13. CASE PowerFail
  <2>1. CrcsOwn'
    <3>1. CASE UNCHANGED media
      BY <3>1 DEF LoadInv, CrcsOwn
    <3>2. CASE pc \in WritePc /\ media' = [media EXCEPT ![m_currentRegion] = HalfWritten]
      <4>1. /\ HalfWritten \in Copies /\ m_currentRegion \in Region
            /\ HalfWritten.crc = Target.crc \/ HalfWritten.crc = BadCrc
        BY <3>2 DEF HalfWritten, Target, Copies, ChunkOK, BadCrc, Crc, Bytes, HasRegion
      <4> QED BY <3>2, <4>1, WriteCrcsOwn DEF LoadInv
    <3> QED BY <1>13, <3>1, <3>2 DEF PowerFail
  <2> QED BY <1>13, <2>1 DEF PowerFail, LoadInv
<1> QED BY <1>1, <1>2, <1>3, <1>4, <1>5, <1>6, <1>8, <1>9, <1>10, <1>11, <1>12, <1>13
        DEF Next, Step

\* A load delivers the newest contents if they are those of copy B and B was read
\* without an error, or those of both copies, through any failing reads and writes.
THEOREM DeliveredIfAgreed == Spec => []DeliveredWhenCopiesAgree
<1>1. Init => ChunkOK /\ HasRegion /\ LoadInv
  BY TypeInit DEF Init, HasRegion, LoadInv, CrcsOwn, Blank, WritePc, LoadPc
<1>2. ChunkOK /\ HasRegion /\ LoadInv /\ [Next]_vars => ChunkOK' /\ HasRegion' /\ LoadInv'
  BY TypeStep, LoadStep
<1>3. ChunkOK /\ LoadInv => DeliveredWhenCopiesAgree
  <2> SUFFICES ASSUME ChunkOK, LoadInv, pc = "ready", delivered # NoData,
                      \/ Id("B") > Id("A") /\ transRead["B"] # 0
                      \/ Valid("A") /\ Valid("B") /\ media["A"].payload = media["B"].payload
               PROVE  delivered = Stored
    BY DEF DeliveredWhenCopiesAgree
  <2>1. Id("A") \in Nat /\ Id("B") \in Nat
    BY DEF Id, ChunkOK, Copies, Region
  <2>2. Valid("B")
    BY <2>1 DEF Id
  <2>3. delivered = media["B"].payload
    BY <2>2 DEF LoadInv, Alike
  <2>4. Id("B") # 0
    BY <2>2 DEF Id, Valid
  <2> QED BY <2>1, <2>3, <2>4 DEF Stored
<1> QED BY <1>1, <1>2, <1>3, PTL DEF Spec

-----------------------------------------------------------------------------
(* A chunk among others, which use the work buffer while it is idle *)

\* What the chunk finds in the work buffer is not delivered before it has been
\* overwritten by a whole copy.
OwnBytes ==
    /\ pc = "readB" /\ transRead["A"] # 0 => g_workBuffer \in Bytes
    /\ pc = "select" /\ (transRead["A"] # 0 \/ transRead["B"] # 0) => g_workBuffer \in Bytes
    /\ delivered \in Bytes \cup {NoData}

OwnInv == ChunkOK /\ HasRegion /\ LoadInv /\ OwnBytes

\* The others have used the work buffer.
BufferUsed ==
    /\ pc \in {"off", "ready"}
    /\ UNCHANGED <<media, m_transId, m_dataLen, m_currentRegion, pc, i, invalidate, result,
                   transRead, lenRead, recordLen, delivered, writeFaults, readFaults>>

\* A blank media holds nothing of anybody's.
LEMMA OwnInit == Init => OwnInv
BY TypeInit DEF Init, HasRegion, LoadInv, CrcsOwn, Blank, WritePc, LoadPc, OwnInv, OwnBytes

\* A chunk puts only its own payloads into its regions.
LEMMA OwnStep ==
  ASSUME OwnInv, [Next]_vars
  PROVE  OwnInv'
<1> USE DEF OwnInv
<1>1. ChunkOK' /\ HasRegion' /\ LoadInv'
  BY TypeStep, LoadStep
<1>2. ASSUME NEW r \in Region, GetTransactionId(r), g_workBuffer \in Bytes
      PROVE  g_workBuffer' \in Bytes
  BY <1>2 DEF GetTransactionId, BytesRead, Mix, ChunkOK, Copies, Bytes
<1>3. ASSUME NEW r \in Region, GetTransactionId(r), transRead'[r] # 0
      PROVE  g_workBuffer' \in Bytes
  <2>1. Valid(r) /\ g_workBuffer' \in BytesRead(r)
    BY <1>3 DEF GetTransactionId, ChunkOK
  <2>2. g_workBuffer' = media[r].payload
    BY <2>1, WholeCopyRead DEF LoadInv
  <2> QED BY <2>2 DEF ChunkOK, Copies
<1>4. OwnBytes'
  <2>1. CASE UNCHANGED vars
    BY <2>1 DEF vars, ram, OwnBytes
  <2>2. CASE ReadA
    BY <1>3, <2>2 DEF ReadA, OwnBytes, Region
  <2>3. CASE ReadB
    <3>1. GetTransactionId("B") /\ "B" \in Region /\ pc = "readB" /\ pc' = "select"
          /\ UNCHANGED delivered
      BY <2>3 DEF ReadB, Region
    <3>2. transRead'["A"] = transRead["A"]
      BY <3>1 DEF GetTransactionId, ChunkOK, Region
    <3> QED BY <1>2, <1>3, <3>1, <3>2 DEF OwnBytes
  <2>4. CASE Select
    BY <2>4 DEF Select, OwnBytes, LoadInv
  <2>5. CASE (\E len \in RecordLens : Start(len)) \/ Stop \/ PowerFail
    BY <2>5 DEF Start, Stop, PowerFail, OwnBytes
  <2>6. CASE \E p \in Payloads, inv \in BOOLEAN : UpdateData(p, inv)
    BY <2>6 DEF UpdateData, NextCopy, OwnBytes
  <2>7. CASE WriteTransId \/ WriteDataLen \/ WritePayload
    BY <2>7 DEF WriteTransId, WriteDataLen, WritePayload, OwnBytes
  <2>8. CASE WriteCrc
    BY <2>8 DEF WriteCrc, EndOfCopy, NextCopy, OwnBytes
  <2> QED BY <2>1, <2>2, <2>3, <2>4, <2>5, <2>6, <2>7, <2>8 DEF Next, Step
<1> QED BY <1>1, <1>4

\* While a chunk is not writing, others may use the work buffer.
LEMMA SharedStep ==
  ASSUME BufferUsed
  PROVE  /\ OwnInv => OwnInv'
         /\ IInv => IInv'
         /\ UNCHANGED Atomic!vars
<1> USE DEF BufferUsed, WritePc, LoadPc
<1>1. ~Writing /\ ~Writing'
  BY DEF Writing
<1>2. UNCHANGED Atomic!vars
  BY <1>1, SameStored DEF Atomic!vars, Pending, TakenEffect
<1>3. ChunkOK /\ HasRegion => ChunkOK' /\ HasRegion'
  BY DEF ChunkOK, HasRegion
<1>4. LoadInv /\ OwnBytes => LoadInv' /\ OwnBytes'
  BY DEF LoadInv, CrcsOwn, Alike, Valid, OwnBytes
<1>5. CopyInv => CopyInv'
  <2>1. CrcsNotAhead' = CrcsNotAhead /\ HighestId' = HighestId
        /\ \A r \in Region : Id(r)' = Id(r)
    BY SameMedia
  <2>2. Id(m_currentRegion)' = Id(m_currentRegion)
    BY DEF Id, Valid
  <2> QED BY <2>1, <2>2 DEF CopyInv, Region
<1> QED BY <1>2, <1>3, <1>4, <1>5 DEF OwnInv, IInv

\* A whole copy holds contents of the chunk's own record.
LEMMA StoredOwn ==
  ASSUME OwnInv
  PROVE  Stored \in Payloads \cup {NoData}
<1>1. ASSUME NEW r \in Region, Id(r) # 0 PROVE media[r].payload \in Payloads
  <2>1. Valid(r)
    BY <1>1 DEF Id
  <2>2. media[r].crc # BadCrc
    BY <2>1 DEF Valid, BadCrc, Crc, OwnInv, ChunkOK, Copies
  <2> QED BY <2>1, <2>2 DEF OwnInv, LoadInv, CrcsOwn, Valid, Crc
<1>2. Id("A") \in Nat /\ Id("B") \in Nat
  BY DEF Id, OwnInv, ChunkOK, Copies, Region
<1> QED BY <1>1, <1>2 DEF Stored, Region
=============================================================================
