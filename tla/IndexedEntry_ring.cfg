SPECIFICATION Spec
CONSTANTS
    N = 4
    MaxIndex = 9
    MaxFaults = 2
INVARIANTS
    
    
    
    Traversal
    BufferIndex

    
