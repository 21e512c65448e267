SPECIFICATION Spec
CONSTANTS
    Users = {a, b, c}
    Creator = a
    Ahead = b
    NoOne = NoOne
    Skew <- OneAhead
    Tolerance = 1
    StalePeriod = 10
    MaxTime = 2
    MaxOps = 3
    MaxInFlight = 2
    MaxNet = 3
CHECK_DEADLOCK FALSE
PROPERTIES RowsAdvance OutUntilVouched ChangeTakesEffect
