SPECIFICATION FairSpec
CONSTANTS
    Tasks = {t1, t2, t3}
    Conns = {c1, c2, c3}
    Values = {v1, v2}
    Ops <- Roles
    NoOne = NoOne
    t1 = t1
    t2 = t2
    t3 = t3
INVARIANTS CheckpointsWhole 
PROPERTY CallsEnd
