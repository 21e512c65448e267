SPECIFICATION IncomingSpec
CONSTANTS
    People = {p, q}
    Groups = {g}
    Lists = {l}
    Channels = {h}
    Nothing = Nothing
    Devices = {"a1", "a2"}
    Qrs = {"q1", "q2"}
    Fk <- OneChat
    V3 = {"q2"}
    Timeout = 1
    JoinUntil = 1
    Budgets <- CodesOrHandshake
    None = None
    Split = {TRUE, FALSE}
    Edits = 2
    Copies = 2
    Keep = 2
    UpdatesUntil = 5
    Participants = {"p", "q", "r"}
    Timers = {0, 1, 2}
    MaxWritten = 4
    Crossing = FALSE
    Users = {ann, bea, cem}
    Creator = ann
    NoOne = NoOne
    GroupUntil = 3
    MaxOps = 2
    MaxInFlight = 2
    MaxNet = 2
    Bot = FALSE
    MaxMails = 2
    MaxSent = 1
    MaxChats = 3
    MaxActions = 1
INVARIANTS  OnlyWelcome WithdrawnGone ShownAsSent 
PROPERTIES ImplementsInvitation StaleChangeTakesEffect
CHECK_DEADLOCK FALSE
