SPECIFICATION FairSpec
CONSTANTS
    OpensA = {1}
    OpensB = {}
    Accepters = {1, 2}
    Sizes = {"ok", "bad"}
    ChanSize = 1
    Capacity = 2
    MaxData = 1
    MayCancel = TRUE
    MayClose = TRUE
    Faults = TRUE
CHECK_DEADLOCK FALSE
PROPERTIES
    WaitReturns
    OneAcceptUnblocked
    OpenReturns
    CloseCompletes
