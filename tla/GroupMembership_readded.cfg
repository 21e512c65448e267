SPECIFICATION Spec
CONSTANTS
    Users = {a, b, c}
    Creator = a
    Ahead = NoOne
    NoOne = NoOne
    Skew <- SameClocks
    Tolerance = 0
    StalePeriod = 1
    MaxTime = 2
    MaxOps = 3
    MaxInFlight = 2
    MaxNet = 3
SYMMETRY Symmetry
CHECK_DEADLOCK FALSE

PROPERTIES OutUntilVouched
