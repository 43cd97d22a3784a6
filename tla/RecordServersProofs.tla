------------------------- MODULE RecordServersProofs -------------------------
(***************************************************************************)
(* Proofs about RecordServers: two records of one server share the work    *)
(* buffer and do not disturb each other.  What one chunk does and what the *)
(* use of the work buffer by the other does to it is shown in              *)
(* MirroredChunkProofs, of which there is an instance for each record.     *)
(***************************************************************************)
EXTENDS RecordServers, TLAPS

P1 == INSTANCE MirroredChunkProofs WITH
    Payloads <- Payloads1, PayloadLen <- LenOf1, media <- media1,
    m_transId <- m_transId1, m_dataLen <- m_dataLen1,
    m_currentRegion <- m_currentRegion1, pc <- pc1, i <- i1,
    invalidate <- invalidate1, result <- result1, transRead <- transRead1,
    lenRead <- lenRead1, recordLen <- recordLen1, delivered <- delivered1,
    writeFaults <- writeFaults1, readFaults <- readFaults1

P2 == INSTANCE MirroredChunkProofs WITH
    Payloads <- Payloads2, PayloadLen <- LenOf2, media <- media2,
    m_transId <- m_transId2, m_dataLen <- m_dataLen2,
    m_currentRegion <- m_currentRegion2, pc <- pc2, i <- i2,
    invalidate <- invalidate2, result <- result2, transRead <- transRead2,
    lenRead <- lenRead2, recordLen <- recordLen2, delivered <- delivered2,
    writeFaults <- writeFaults2, readFaults <- readFaults2

\* What MirroredChunk assumes of its constants is true of the first record ...
LEMMA Assumed1 == P1!PayloadAssumption /\ P1!BoundAssumption
BY ServersAssumption DEF LenOf1

\* ... and of the second.
LEMMA Assumed2 == P2!PayloadAssumption /\ P2!BoundAssumption
BY ServersAssumption DEF LenOf2

-----------------------------------------------------------------------------
(* The chunks of the servers are those of the proofs. *)

\* The first record begins as a chunk of its own does ...
LEMMA SameInit1 == C1!Init => P1!Init
BY DEF C1!Init, P1!Init, C1!Region, P1!Region, C1!Blank, P1!Blank, C1!BadCrc, P1!BadCrc,
    C1!Crc, P1!Crc

\* ... it stores the same contents ...
LEMMA SameStored1 == C1!Stored = P1!Stored
BY DEF C1!Stored, P1!Stored, C1!Id, P1!Id, C1!Valid, P1!Valid, C1!Crc, P1!Crc

\* ... and loses as much with the power ...
LEMMA SamePowerFail1 == C1!PowerFail => P1!PowerFail
BY DEF C1!PowerFail, P1!PowerFail, C1!WritePc, P1!WritePc, C1!HalfWritten, P1!HalfWritten,
    C1!Target, P1!Target, C1!BadCrc, P1!BadCrc, C1!Crc, P1!Crc, C1!Region, P1!Region

\* ... and does what such a chunk does.
LEMMA SameStep1 == C1!Step => P1!Step
<1> SUFFICES ASSUME C1!Step PROVE P1!Step
  OBVIOUS
<1>1. C1!RecordLens = P1!RecordLens
  BY DEF C1!RecordLens, P1!RecordLens
<1>2. ASSUME NEW len, C1!Start(len) PROVE P1!Start(len)
  BY <1>2 DEF C1!Start, P1!Start
<1>3. ASSUME NEW r, C1!GetTransactionId(r) PROVE P1!GetTransactionId(r)
  BY <1>3 DEF C1!GetTransactionId, P1!GetTransactionId, C1!BytesRead, P1!BytesRead, C1!Mix, P1!Mix, C1!Valid,
    P1!Valid, C1!Crc, P1!Crc
<1>4. C1!ReadA => P1!ReadA
  BY <1>3 DEF C1!ReadA, P1!ReadA
<1>5. C1!ReadB => P1!ReadB
  BY <1>3 DEF C1!ReadB, P1!ReadB
<1>6. C1!Select => P1!Select
  BY DEF C1!Select, P1!Select, C1!Region, P1!Region
<1>7. ASSUME NEW p, NEW inv, C1!UpdateData(p, inv) PROVE P1!UpdateData(p, inv)
  BY <1>7 DEF C1!UpdateData, P1!UpdateData, C1!NextCopy, P1!NextCopy, C1!Other, P1!Other
<1>8. ASSUME NEW copy, NEW ok, C1!Write(copy, ok) PROVE P1!Write(copy, ok)
  BY <1>8 DEF C1!Write, P1!Write, C1!HalfWritten, P1!HalfWritten, C1!Target, P1!Target, C1!BadCrc,
    P1!BadCrc, C1!Crc, P1!Crc
<1>9. C1!Target = P1!Target
  BY DEF C1!Target, P1!Target
<1>10. C1!WriteTransId => P1!WriteTransId
  BY <1>8, <1>9 DEF C1!WriteTransId, P1!WriteTransId
<1>11. C1!WriteDataLen => P1!WriteDataLen
  BY <1>8, <1>9 DEF C1!WriteDataLen, P1!WriteDataLen, C1!AndResult, P1!AndResult
<1>12. C1!WritePayload => P1!WritePayload
  BY <1>8, <1>9 DEF C1!WritePayload, P1!WritePayload, C1!AndResult, P1!AndResult
<1>13. C1!WriteCrc => P1!WriteCrc
  <2>1. C1!CrcToWrite = P1!CrcToWrite
    BY DEF C1!CrcToWrite, P1!CrcToWrite, C1!BadCrc, P1!BadCrc, C1!Crc, P1!Crc
  <2>2. C1!EndOfCopy => P1!EndOfCopy
    BY DEF C1!EndOfCopy, P1!EndOfCopy, C1!NextCopy, P1!NextCopy, C1!Other, P1!Other
  <2> QED BY <1>8, <1>9, <2>1, <2>2 DEF C1!WriteCrc, P1!WriteCrc, C1!AndResult, P1!AndResult
<1>14. C1!Stop => P1!Stop
  BY DEF C1!Stop, P1!Stop
<1> QED BY <1>1, <1>2, <1>4, <1>5, <1>6, <1>7, <1>10, <1>11, <1>12, <1>13, <1>14
        DEF C1!Step, P1!Step

\* The second record begins as a chunk of its own does ...
LEMMA SameInit2 == C2!Init => P2!Init
BY DEF C2!Init, P2!Init, C2!Region, P2!Region, C2!Blank, P2!Blank, C2!BadCrc, P2!BadCrc,
    C2!Crc, P2!Crc

\* ... it stores the same contents ...
LEMMA SameStored2 == C2!Stored = P2!Stored
BY DEF C2!Stored, P2!Stored, C2!Id, P2!Id, C2!Valid, P2!Valid, C2!Crc, P2!Crc

\* ... and loses as much with the power ...
LEMMA SamePowerFail2 == C2!PowerFail => P2!PowerFail
BY DEF C2!PowerFail, P2!PowerFail, C2!WritePc, P2!WritePc, C2!HalfWritten, P2!HalfWritten,
    C2!Target, P2!Target, C2!BadCrc, P2!BadCrc, C2!Crc, P2!Crc, C2!Region, P2!Region

\* ... and does what such a chunk does.
LEMMA SameStep2 == C2!Step => P2!Step
<1> SUFFICES ASSUME C2!Step PROVE P2!Step
  OBVIOUS
<1>1. C2!RecordLens = P2!RecordLens
  BY DEF C2!RecordLens, P2!RecordLens
<1>2. ASSUME NEW len, C2!Start(len) PROVE P2!Start(len)
  BY <1>2 DEF C2!Start, P2!Start
<1>3. ASSUME NEW r, C2!GetTransactionId(r) PROVE P2!GetTransactionId(r)
  BY <1>3 DEF C2!GetTransactionId, P2!GetTransactionId, C2!BytesRead, P2!BytesRead, C2!Mix, P2!Mix, C2!Valid,
    P2!Valid, C2!Crc, P2!Crc
<1>4. C2!ReadA => P2!ReadA
  BY <1>3 DEF C2!ReadA, P2!ReadA
<1>5. C2!ReadB => P2!ReadB
  BY <1>3 DEF C2!ReadB, P2!ReadB
<1>6. C2!Select => P2!Select
  BY DEF C2!Select, P2!Select, C2!Region, P2!Region
<1>7. ASSUME NEW p, NEW inv, C2!UpdateData(p, inv) PROVE P2!UpdateData(p, inv)
  BY <1>7 DEF C2!UpdateData, P2!UpdateData, C2!NextCopy, P2!NextCopy, C2!Other, P2!Other
<1>8. ASSUME NEW copy, NEW ok, C2!Write(copy, ok) PROVE P2!Write(copy, ok)
  BY <1>8 DEF C2!Write, P2!Write, C2!HalfWritten, P2!HalfWritten, C2!Target, P2!Target, C2!BadCrc,
    P2!BadCrc, C2!Crc, P2!Crc
<1>9. C2!Target = P2!Target
  BY DEF C2!Target, P2!Target
<1>10. C2!WriteTransId => P2!WriteTransId
  BY <1>8, <1>9 DEF C2!WriteTransId, P2!WriteTransId
<1>11. C2!WriteDataLen => P2!WriteDataLen
  BY <1>8, <1>9 DEF C2!WriteDataLen, P2!WriteDataLen, C2!AndResult, P2!AndResult
<1>12. C2!WritePayload => P2!WritePayload
  BY <1>8, <1>9 DEF C2!WritePayload, P2!WritePayload, C2!AndResult, P2!AndResult
<1>13. C2!WriteCrc => P2!WriteCrc
  <2>1. C2!CrcToWrite = P2!CrcToWrite
    BY DEF C2!CrcToWrite, P2!CrcToWrite, C2!BadCrc, P2!BadCrc, C2!Crc, P2!Crc
  <2>2. C2!EndOfCopy => P2!EndOfCopy
    BY DEF C2!EndOfCopy, P2!EndOfCopy, C2!NextCopy, P2!NextCopy, C2!Other, P2!Other
  <2> QED BY <1>8, <1>9, <2>1, <2>2 DEF C2!WriteCrc, P2!WriteCrc, C2!AndResult, P2!AndResult
<1>14. C2!Stop => P2!Stop
  BY DEF C2!Stop, P2!Stop
<1> QED BY <1>1, <1>2, <1>4, <1>5, <1>6, <1>7, <1>10, <1>11, <1>12, <1>13, <1>14
        DEF C2!Step, P2!Step

-----------------------------------------------------------------------------
(* Each step is one of a chunk, or one in which others use the work buffer *)

\* With one server, the first record takes a step of a chunk of its own, or it
\* is not writing and the other one uses the buffer.
LEMMA StepOf1 ==
  ASSUME Servers = 1, [Next]_vars
  PROVE  P1!BufferUsed \/ [P1!Next]_(P1!vars)
<1>1. ASSUME UNCHANGED chunk1, pc1 \in {"off", "ready"} PROVE P1!BufferUsed
  BY <1>1 DEF chunk1, P1!BufferUsed
<1>2. CASE UNCHANGED vars
  BY <1>2 DEF vars, chunk1, P1!vars, P1!ram
<1>3. CASE Serve1
  BY <1>3, SameStep1 DEF Serve1, P1!Next
<1>4. CASE Serve2
  BY <1>1, <1>4 DEF Serve2, Busy
<1>5. CASE PowerFail
  BY <1>1, <1>5, SamePowerFail1 DEF PowerFail, P1!Next
<1> QED BY <1>2, <1>3, <1>4, <1>5 DEF Next

\* The same is true of the second record.
LEMMA StepOf2 ==
  ASSUME Servers = 1, [Next]_vars
  PROVE  P2!BufferUsed \/ [P2!Next]_(P2!vars)
<1>1. ASSUME UNCHANGED chunk2, pc2 \in {"off", "ready"} PROVE P2!BufferUsed
  BY <1>1 DEF chunk2, P2!BufferUsed
<1>2. CASE UNCHANGED vars
  BY <1>2 DEF vars, chunk2, P2!vars, P2!ram
<1>3. CASE Serve2
  BY <1>3, SameStep2 DEF Serve2, P2!Next
<1>4. CASE Serve1
  BY <1>1, <1>4 DEF Serve1, Busy
<1>5. CASE PowerFail
  BY <1>1, <1>5, SamePowerFail2 DEF PowerFail, P2!Next
<1> QED BY <1>2, <1>3, <1>4, <1>5 DEF Next

-----------------------------------------------------------------------------
(* The contents of the records *)

\* Each record has a payload of its own, or none, in every place.
OwnInv == P1!OwnInv /\ P2!OwnInv

\* Both records begin with blank media.
LEMMA OwnInit == Init => OwnInv
BY Assumed1, Assumed2, SameInit1, SameInit2, P1!OwnInit, P2!OwnInit DEF Init, OwnInv

\* OwnInv is inductive with one server.
LEMMA OwnStep ==
  ASSUME Servers = 1, OwnInv, [Next]_vars
  PROVE  OwnInv'
<1>1. P1!OwnInv'
  BY Assumed1, StepOf1, P1!OwnStep, P1!SharedStep DEF OwnInv
<1>2. P2!OwnInv'
  BY Assumed2, StepOf2, P2!OwnStep, P2!SharedStep DEF OwnInv
<1> QED BY <1>1, <1>2 DEF OwnInv

\* The records of one server keep to their own contents although they share a
\* work buffer, whatever reads and writes and power failures there are.
THEOREM OwnContentsAlways ==
  ASSUME Servers = 1
  PROVE  Spec => []OwnContents
<1>1. Init => OwnInv
  BY OwnInit
<1>2. OwnInv /\ [Next]_vars => OwnInv'
  BY OwnStep
<1>3. OwnInv => OwnContents
  <2> SUFFICES ASSUME OwnInv PROVE OwnContents
    OBVIOUS
  <2>1. C1!Stored \in Payloads1 \cup {NoData} /\ C2!Stored \in Payloads2 \cup {NoData}
    BY Assumed1, Assumed2, SameStored1, SameStored2, P1!StoredOwn, P2!StoredOwn DEF OwnInv
  <2>2. /\ delivered1 \in Payloads1 \cup {Zeros, Torn, NoData}
        /\ delivered2 \in Payloads2 \cup {Zeros, Torn, NoData}
    BY DEF OwnInv, P1!OwnInv, P2!OwnInv, P1!OwnBytes, P2!OwnBytes, P1!Bytes, P2!Bytes
  <2> QED BY <2>1, <2>2, ServersAssumption DEF OwnContents
<1> QED BY <1>1, <1>2, <1>3, PTL DEF Spec

-----------------------------------------------------------------------------
(* Both are stored atomically *)

PowerFailuresOnly == /\ MaxWriteFaults = 0 /\ MaxReadFaults = 0
                     /\ ~PowerFailsInErase

\* The promise made to the first record is that of a chunk of its own.
LEMMA SameAtomic1 ==
  /\ C1!Atomic!Init <=> P1!Atomic!Init
  /\ C1!Atomic!Next <=> P1!Atomic!Next
  /\ C1!Atomic!vars = P1!Atomic!vars
  /\ (C1!Atomic!vars)' = (P1!Atomic!vars)'
<1>1. C1!Pending = P1!Pending /\ (C1!Pending)' = (P1!Pending)'
  BY DEF C1!Pending, P1!Pending, C1!Writing, P1!Writing, C1!WritePc, P1!WritePc
<1>2. C1!TakenEffect = P1!TakenEffect /\ (C1!TakenEffect)' = (P1!TakenEffect)'
  BY DEF C1!TakenEffect, P1!TakenEffect, C1!Writing, P1!Writing, C1!WritePc, P1!WritePc
<1>3. C1!Stored = P1!Stored /\ (C1!Stored)' = (P1!Stored)'
  BY DEF C1!Stored, P1!Stored, C1!Id, P1!Id, C1!Valid, P1!Valid, C1!Crc, P1!Crc
<1>4. /\ C1!Atomic!vars = P1!Atomic!vars
      /\ (C1!Atomic!vars)' = (P1!Atomic!vars)'
  BY <1>1, <1>2, <1>3 DEF C1!Atomic!vars, P1!Atomic!vars
<1>5. C1!Atomic!Init <=> P1!Atomic!Init
  BY <1>1, <1>2, <1>3 DEF C1!Atomic!Init, P1!Atomic!Init
<1>6. C1!Atomic!Next <=> P1!Atomic!Next
  BY <1>1, <1>2, <1>3
  DEF C1!Atomic!Next, P1!Atomic!Next, C1!Atomic!Begin, P1!Atomic!Begin, C1!Atomic!Commit, P1!Atomic!Commit,
      C1!Atomic!End, P1!Atomic!End, C1!Atomic!PowerFail, P1!Atomic!PowerFail
<1> QED BY <1>4, <1>5, <1>6

\* The promise made to the second record is that of a chunk of its own.
LEMMA SameAtomic2 ==
  /\ C2!Atomic!Init <=> P2!Atomic!Init
  /\ C2!Atomic!Next <=> P2!Atomic!Next
  /\ C2!Atomic!vars = P2!Atomic!vars
  /\ (C2!Atomic!vars)' = (P2!Atomic!vars)'
<1>1. C2!Pending = P2!Pending /\ (C2!Pending)' = (P2!Pending)'
  BY DEF C2!Pending, P2!Pending, C2!Writing, P2!Writing, C2!WritePc, P2!WritePc
<1>2. C2!TakenEffect = P2!TakenEffect /\ (C2!TakenEffect)' = (P2!TakenEffect)'
  BY DEF C2!TakenEffect, P2!TakenEffect, C2!Writing, P2!Writing, C2!WritePc, P2!WritePc
<1>3. C2!Stored = P2!Stored /\ (C2!Stored)' = (P2!Stored)'
  BY DEF C2!Stored, P2!Stored, C2!Id, P2!Id, C2!Valid, P2!Valid, C2!Crc, P2!Crc
<1>4. /\ C2!Atomic!vars = P2!Atomic!vars
      /\ (C2!Atomic!vars)' = (P2!Atomic!vars)'
  BY <1>1, <1>2, <1>3 DEF C2!Atomic!vars, P2!Atomic!vars
<1>5. C2!Atomic!Init <=> P2!Atomic!Init
  BY <1>1, <1>2, <1>3 DEF C2!Atomic!Init, P2!Atomic!Init
<1>6. C2!Atomic!Next <=> P2!Atomic!Next
  BY <1>1, <1>2, <1>3
  DEF C2!Atomic!Next, P2!Atomic!Next, C2!Atomic!Begin, P2!Atomic!Begin, C2!Atomic!Commit, P2!Atomic!Commit,
      C2!Atomic!End, P2!Atomic!End, C2!Atomic!PowerFail, P2!Atomic!PowerFail
<1> QED BY <1>4, <1>5, <1>6

\* The copies of both records are as MirroredChunkProofs says.
CopiesInv == P1!IInv /\ P2!IInv

\* Both records begin with their copies in order.
LEMMA CopiesInit == Init => CopiesInv
BY Assumed1, Assumed2, SameInit1, SameInit2, P1!IInvInit, P2!IInvInit DEF Init, CopiesInv

\* The first record's copies stay in order, and each step is atomic.
LEMMA CopiesStep1 ==
  ASSUME Servers = 1, PowerFailuresOnly, P1!IInv, [Next]_vars
  PROVE  P1!IInv' /\ [C1!Atomic!Next]_(C1!Atomic!vars)
<1>1. P1!PowerFailuresOnly
  BY DEF PowerFailuresOnly, P1!PowerFailuresOnly
<1>2. CASE P1!BufferUsed
  <2>1. P1!IInv' /\ UNCHANGED P1!Atomic!vars
    BY Assumed1, <1>2, P1!SharedStep
  <2>2. UNCHANGED C1!Atomic!vars
    BY <2>1, SameAtomic1
  <2> QED BY <2>1, <2>2
<1>3. CASE [P1!Next]_(P1!vars)
  <2>1. P1!IInv'
    BY Assumed1, <1>1, <1>3, P1!IInvStep, P1!TypeStep DEF P1!IInv
  <2>2. [P1!Atomic!Next]_(P1!Atomic!vars)
    BY Assumed1, <1>1, <1>3, <2>1, P1!AtomicStep
  <2> QED BY <2>1, <2>2, SameAtomic1
<1> QED BY <1>2, <1>3, StepOf1

\* The second record's copies stay in order, and each step is atomic.
LEMMA CopiesStep2 ==
  ASSUME Servers = 1, PowerFailuresOnly, P2!IInv, [Next]_vars
  PROVE  P2!IInv' /\ [C2!Atomic!Next]_(C2!Atomic!vars)
<1>1. P2!PowerFailuresOnly
  BY DEF PowerFailuresOnly, P2!PowerFailuresOnly
<1>2. CASE P2!BufferUsed
  <2>1. P2!IInv' /\ UNCHANGED P2!Atomic!vars
    BY Assumed2, <1>2, P2!SharedStep
  <2>2. UNCHANGED C2!Atomic!vars
    BY <2>1, SameAtomic2
  <2> QED BY <2>1, <2>2
<1>3. CASE [P2!Next]_(P2!vars)
  <2>1. P2!IInv'
    BY Assumed2, <1>1, <1>3, P2!IInvStep, P2!TypeStep DEF P2!IInv
  <2>2. [P2!Atomic!Next]_(P2!Atomic!vars)
    BY Assumed2, <1>1, <1>3, <2>1, P2!AtomicStep
  <2> QED BY <2>1, <2>2, SameAtomic2
<1> QED BY <1>2, <1>3, StepOf2

\* The two records of one server are stored atomically, each of them, across
\* power failures.
THEOREM BothAtomicAlways ==
  ASSUME Servers = 1, PowerFailuresOnly
  PROVE  Spec => BothAtomic
<1>1. Init => CopiesInv /\ C1!Atomic!Init /\ C2!Atomic!Init
  BY Assumed1, Assumed2, SameInit1, SameInit2, CopiesInit, SameAtomic1, SameAtomic2,
     P1!AtomicInit, P2!AtomicInit DEF Init
<1>2. CopiesInv /\ [Next]_vars
        => /\ CopiesInv'
           /\ [C1!Atomic!Next]_(C1!Atomic!vars) /\ [C2!Atomic!Next]_(C2!Atomic!vars)
  BY CopiesStep1, CopiesStep2 DEF CopiesInv
<1> QED BY <1>1, <1>2, PTL
        DEF Spec, BothAtomic, C1!AtomicSpec, C2!AtomicSpec, C1!Atomic!Spec, C2!Atomic!Spec
=============================================================================
