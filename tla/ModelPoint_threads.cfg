SPECIFICATION Spec
CONSTANTS
    pt1 = pt1
    pt2 = pt2
    sub1 = sub1
    sub2 = sub2
    loop1 = loop1
    loop2 = loop2
    data = data
    Null = Null
    Zero = Zero
    Points = {pt1}
    Subs = {sub1, sub2}
    Loops = {loop1, loop2}
    LoopOf <- MCTwoLoops
    Values = {Zero}
    LockRequests = {}
    WriteRequests = {"none"}
    CopyPairs = {}
    SeqMax = 3
    MaxLag = 2
    MaxChanges = 2
    MaxOps = 2
    SwitchInCallback = FALSE
INVARIANTS
    TypeOK
    NoFatal
    OnItsList
    IdleIsCurrent
    NoLostWakeup
PROPERTIES
    Settles
