SPECIFICATION FairSpec
CONSTANTS
    OpensA = {1, 2}
    OpensB = {3, 4}
    Accepters = {1}
    Sizes = {"ok"}
    ChanSize = 2
    Capacity = 1
    MaxData = 0
    MayCancel = FALSE
    MayClose = FALSE
    Faults = FALSE
CHECK_DEADLOCK FALSE
PROPERTY
    OpenReturns
