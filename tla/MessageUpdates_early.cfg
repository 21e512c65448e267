SPECIFICATION Spec
CONSTANTS
    Split = {TRUE, FALSE}
    Edits = 1
    Copies = 1
    Keep = 2
    MaxTime = 6
INVARIANT DeletionRemembered
CHECK_DEADLOCK FALSE
