SPECIFICATION Spec
CONSTANTS
    NumHeat = 3
    Equipments <- MCEquipments
    PvValues = {0, 50, 100, 110, 150, 210, 250}
    K = 1
    MinOn = 2
    MinOff = 2
    MinUnitOff = 2
    Hysteresis = 2
    MaxAge = 10
    Aborts = TRUE
INVARIANTS
    NoFatal
    OneActive
    OutputsMatch
    ForcedOff
PROPERTIES
    MinOffTime
    MinOnTime
    Completes
