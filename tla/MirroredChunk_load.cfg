SPECIFICATION Spec
CONSTANTS
    p1 = p1
    p2 = p2
    p3 = p3
    Payloads <- MCPayloadsFixed
    PayloadLen <- MCLenFixed
    DataSpace = 2
    Zeros = Zeros
    Torn = Torn
    NoData = NoData
    MaxTransId = 6
    MaxWriteFaults = 0
    MaxReadFaults = 0
    PowerFailsInErase = TRUE
INVARIANT
    DeliveredIsStored
