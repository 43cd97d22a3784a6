SPECIFICATION Spec
CONSTANTS
    Timers = {t1, t2, t3}
    Off = Off
    Durations = {0, 1, 2}
    Wrap = 5
    MaxLag = 2
    MaxCallback = 1
    StartEarly = FALSE
INVARIANTS
    CountsAddUp
    NoneMissed
PROPERTIES
    AlarmSpec
    GoesOff
