SPECIFICATION SendSpec
CONSTANTS
    Msgs = {m1, m2}
    Recipientless = {}
    NParts = 2
    Receipts = {}
    Contact <- OneContact
    RetryLimit = 2
    Quota = 1
    MaxFaults = 1
    Events = {"lost_ok", "delete"}
    SyncSender = TRUE
    None = None
INVARIANTS DeliveredMeansAccepted PendingIsQueued
SYMMETRY Symmetry
CHECK_DEADLOCK FALSE
