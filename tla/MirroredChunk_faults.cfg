SPECIFICATION Spec
CONSTANTS
    p1 = p1
    p2 = p2
    p3 = p3
    Payloads <- MCPayloadsFixed
    PayloadLen <- MCLenFixed
    DataSpace = 2
    Zeros = Zeros
    Torn = Torn
    NoData = NoData
    MaxTransId = 4
    MaxWriteFaults = 4
    MaxReadFaults = 1
    PowerFailsInErase = TRUE
INVARIANTS
    TrueMeansStored
    DeliveredWhenCopiesAgree
