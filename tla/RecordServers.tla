---------------------------- MODULE RecordServers ----------------------------
(***************************************************************************)
(* Two mirrored records and the RecordServer threads that serve them.  The *)
(* records have regions and members of their own; the work buffer they     *)
(* read and write through is one global array.  A RecordServer runs one    *)
(* operation (start and load, update) of one of its records at a time;     *)
(* two RecordServers run side by side.                                     *)
(***************************************************************************)
EXTENDS Naturals

CONSTANTS Payloads1, Payloads2,   \* the contents of each record
          Servers,                \* RecordServers the records are divided over
          DataSpace, Zeros, Torn, NoData,
          MaxTransId, MaxWriteFaults, MaxReadFaults, PowerFailsInErase

ASSUME ServersAssumption ==
    /\ Payloads1 \cap Payloads2 = {}
    /\ {Zeros, Torn, NoData} \cap (Payloads1 \cup Payloads2) = {} /\ Zeros # Torn
    /\ {DataSpace, MaxTransId, MaxWriteFaults, MaxReadFaults} \subseteq Nat
    /\ PowerFailsInErase \in BOOLEAN
    /\ Servers \in {1, 2}

VARIABLES
    media1, m_transId1, m_dataLen1, m_currentRegion1, pc1, i1, invalidate1,
    result1, transRead1, lenRead1, recordLen1, delivered1, writeFaults1,
    readFaults1,
    media2, m_transId2, m_dataLen2, m_currentRegion2, pc2, i2, invalidate2,
    result2, transRead2, lenRead2, recordLen2, delivered2, writeFaults2,
    readFaults2,
    g_workBuffer    \* Private_.cpp: one for the whole program

\* Both records have one length
LenOf1 == [p \in Payloads1 |-> 1]
LenOf2 == [p \in Payloads2 |-> 1]

C1 == INSTANCE MirroredChunk WITH
    Payloads <- Payloads1, PayloadLen <- LenOf1, media <- media1,
    m_transId <- m_transId1, m_dataLen <- m_dataLen1,
    m_currentRegion <- m_currentRegion1, pc <- pc1, i <- i1,
    invalidate <- invalidate1, result <- result1, transRead <- transRead1,
    lenRead <- lenRead1, recordLen <- recordLen1, delivered <- delivered1,
    writeFaults <- writeFaults1, readFaults <- readFaults1

C2 == INSTANCE MirroredChunk WITH
    Payloads <- Payloads2, PayloadLen <- LenOf2, media <- media2,
    m_transId <- m_transId2, m_dataLen <- m_dataLen2,
    m_currentRegion <- m_currentRegion2, pc <- pc2, i <- i2,
    invalidate <- invalidate2, result <- result2, transRead <- transRead2,
    lenRead <- lenRead2, recordLen <- recordLen2, delivered <- delivered2,
    writeFaults <- writeFaults2, readFaults <- readFaults2

chunk1 == <<media1, m_transId1, m_dataLen1, m_currentRegion1, pc1, i1,
            invalidate1, result1, transRead1, lenRead1, recordLen1,
            delivered1, writeFaults1, readFaults1>>
chunk2 == <<media2, m_transId2, m_dataLen2, m_currentRegion2, pc2, i2,
            invalidate2, result2, transRead2, lenRead2, recordLen2,
            delivered2, writeFaults2, readFaults2>>
vars == <<chunk1, chunk2, g_workBuffer>>

Init == C1!Init /\ C2!Init

\* RecordServer runs each operation of a record to its end (it also starts all
\* its records in one go, of which the model makes no use)
Busy(pc) == pc \notin {"off", "ready"}

\* Faulty: an operation starts in the middle of another one
Serve1Anytime == C1!Step /\ UNCHANGED chunk2

Serve1 == /\ Servers = 1 => ~Busy(pc2)
          /\ C1!Step
          /\ UNCHANGED chunk2
Serve2 == /\ Servers = 1 => ~Busy(pc1)
          /\ C2!Step
          /\ UNCHANGED chunk1

\* Power fails for both
PowerFail == /\ C1!PowerFail \/ (pc1 = "off" /\ UNCHANGED chunk1)
             /\ C2!PowerFail \/ (pc2 = "off" /\ UNCHANGED chunk2)
             /\ g_workBuffer' = Zeros

Next == Serve1 \/ Serve2 \/ PowerFail

Spec == Init /\ [][Next]_vars

-----------------------------------------------------------------------------
\* What a record stores is its own: the newest copy of a record that passes its
\* CRC holds contents of that record, neither meaningless bytes nor the other
\* record's contents, and the other's contents are never delivered to it.
OwnContents ==
    /\ C1!Stored \in Payloads1 \cup {NoData}
    /\ C2!Stored \in Payloads2 \cup {NoData}
    /\ delivered1 \notin Payloads2
    /\ delivered2 \notin Payloads1

\* With one server the records do not disturb each other: each of them is
\* stored atomically.
BothAtomic == C1!AtomicSpec /\ C2!AtomicSpec

=============================================================================
