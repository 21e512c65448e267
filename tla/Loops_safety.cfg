SPECIFICATION LoopsSpec
CONSTANTS
    Callers = {c1, c2, c3}
    Inboxes = {i1}
    Ops <- LifecycleOps
    MaxCalls = 4
    HangingCalls = 2
    Letters = {"m"}
    Recipientless = {}
    NParts = 1
    Receipts = {"r1", "r2"}
    Contact <- ToAlice
    RetryLimit = 2
    Quota = 1
    Events = {"crash", "lost_ok", "resend", "switch"}
    MaxMishaps = 1
    None = None
    Msgs = {small, post}
    KindOf <- SmallAndPost
    Batch = 2
    CanIdle = TRUE
    DeleteAll = TRUE
    MaxFaults = 1
    MaxResets = 1
    small = small
    post = post
    Fleeting = {"a", "b"}
    Durations = {1, 2}
    DeviceAfter = 0
    Long = 4
    MaxTime = 5
    People = {"p1", "p2"}
    Window = 2
    SeenUntil = 5
    MaxPauseGuards = 2
    StartMayFail = FALSE
    LoopsMayHang = FALSE
    NoOne = NoOne
CHECK_DEADLOCK FALSE
INVARIANTS GuardsAccounted OnlyCurrentLoopsRun RequestHonoured GuardsAccountedHanging NoDuplicatesButFaults NoReceiptIsLost  DeletedInTime SeenIsQueued
