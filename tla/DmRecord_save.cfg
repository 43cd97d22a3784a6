SPECIFICATION Spec
CONSTANTS
    Records = {r1, r2}
    Delay = 1
    MaxDelay = 1
    Ops = {"flush", "erase", "stop", "fail"}
    MaxRequests = 1
    Off = Off
    Wrap = 4
    MaxLag = 1
INVARIANTS
    NotForgotten
    WaitBound
PROPERTY
    Saved
