SPECIFICATION LiveSpec
CONSTANTS
    Callers = {c1, c2}
    Inboxes = {i1}
    Ops <- LiveOps
    MaxCalls = 3
    MaxPauseGuards = 2
    StartMayFail = TRUE
    LoopsMayHang = FALSE
    NoOne = NoOne
CHECK_DEADLOCK FALSE
PROPERTIES CallsReturn WorkPickedUp
