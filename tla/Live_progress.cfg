SPECIFICATION LiveSpec
CONSTANTS
    Users = {a, b, c}
    Creator = a
    Ahead = NoOne
    NoOne = NoOne
    Skew <- SameClocks
    Tolerance = 2
    StalePeriod = 10
    MaxTime = 1
    MaxOps = 3
    MaxInFlight = 2
    MaxNet = 6
    None = None
    m1 = m1
    m2 = m2

CHECK_DEADLOCK FALSE

PROPERTIES GroupConverges JoinCompletes MailArrives Settles
