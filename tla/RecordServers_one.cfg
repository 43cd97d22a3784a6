SPECIFICATION Spec
CONSTANTS
    a1 = a1
    a2 = a2
    b1 = b1
    Payloads1 = {a1}
    Payloads2 = {b1}
    Servers = 1
    DataSpace = 2
    Zeros = Zeros
    Torn = Torn
    NoData = NoData
    MaxTransId = 4
    MaxWriteFaults = 0
    MaxReadFaults = 0
    PowerFailsInErase = FALSE
INVARIANTS
    OwnContents
PROPERTIES
    BothAtomic
