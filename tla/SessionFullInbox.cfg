SPECIFICATION FairSpec
CONSTANTS
    OpensA = {1, 2}
    OpensB = {}
    Accepters = {}
    Sizes = {"ok"}
    ChanSize = 1
    Capacity = 2
    MaxData = 0
    MayCancel = FALSE
    MayClose = TRUE
    Faults = FALSE
CHECK_DEADLOCK FALSE
PROPERTY
    WaitReturns
