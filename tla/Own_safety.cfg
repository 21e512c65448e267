SPECIFICATION OwnSpec
CONSTANTS
    Keys = {k1, k2, k3}
    MaxId = 12
    MaxMessages = 3
    NoKey = NoKey
    Devices = {"d", "e"}
    Addrs = {"a1", "a2"}
    First = "a1"
    Configured = {"a1", "a2"}
    NoAddr = NoAddr
    Relays = 2
    Crossing = FALSE
    MaxTime = 2
    MaxChanges = 2
    MaxUuid = 3
    Fetches = {"f1"}
    MaxFaults = 2
    Own = {"u1", "u2", "u3"}
    Theirs = {"p"}
    Start = {"draft", "sent"}
    SizeMax = 1
    Concurrent = FALSE
    MaxResends = 2
    MaxCrashes = 1
    Callers = {"c"}
    Callees = {"a", "b"}
    Placer = "c"
    Overlap = FALSE
    MaxActions = 2
    Steps <- AllSteps
    Latest <- Newest
    CreatedAt <- DBVERSION
    Created <- TablesSql
    Undisturbed = {59, 73, 77, 132}
    MaxStops = 1
    People = {alice, bob}
    PeerKeys = {k1, k2}
    Msgs = 2
    Batch = 1
INVARIANTS VerifierChainsEnd  KeyIsCurrent IdsAreNotReused NoUpdateLost   ChatsMigrated MessagesRewritten
CHECK_DEADLOCK FALSE
