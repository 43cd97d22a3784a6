SPECIFICATION Spec
CONSTANTS
    pt1 = pt1
    pt2 = pt2
    sub1 = sub1
    sub2 = sub2
    loop1 = loop1
    loop2 = loop2
    data = data
    Null = Null
    Zero = Zero
    Points = {pt1, pt2}
    Subs = {sub1}
    Loops = {loop1}
    LoopOf <- MCOneSub
    Values = {Zero, data}
    LockRequests = {"unlock"}
    WriteRequests = {"none", "lock"}
    CopyPairs <- MCCopy
    SeqMax = 2
    MaxLag = 1
    MaxChanges = 1
    MaxOps = 3
    SwitchInCallback = FALSE
INVARIANT
    NoFatal
