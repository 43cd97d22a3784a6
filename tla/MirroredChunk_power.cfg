SPECIFICATION Spec
CONSTANTS
    p1 = p1
    p2 = p2
    p3 = p3
    Payloads <- MCPayloadsGrown
    PayloadLen <- MCLenGrown
    DataSpace = 2
    Zeros = Zeros
    Torn = Torn
    NoData = NoData
    MaxTransId = 8
    MaxWriteFaults = 0
    MaxReadFaults = 0
    PowerFailsInErase = FALSE
INVARIANTS
    TypeOK
    GoodCopyWhileWriting
    CopyInv
PROPERTIES
    NeverLost
    AtomicSpec
