SPECIFICATION Spec
CONSTANTS
    Msgs = {m1, m2}
    Recipientless = {}
    NParts = 1
    Receipts = {}
    Contact <- OneContact
    RetryLimit = 2
    Quota = 1
    MaxFaults = 0
    Events = {}
    SyncSender = TRUE
    None = None
INVARIANT SyncSends
CHECK_DEADLOCK FALSE
