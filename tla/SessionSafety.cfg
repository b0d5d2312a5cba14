SPECIFICATION Spec
CONSTANTS
    OpensA = {1, 2}
    OpensB = {}
    Accepters = {1}
    Sizes = {"ok", "bad"}
    ChanSize = 1
    Capacity = 2
    MaxData = 1
    MayCancel = TRUE
    MayClose = FALSE
    Faults = FALSE
CHECK_DEADLOCK FALSE
INVARIANTS
    TypeOK
    Routed
    OnlyRacesKill
