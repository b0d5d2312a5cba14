SPECIFICATION Spec
CONSTANTS
    Cells = 2
    MaxDown = 2
    MaxUp = 4
CHECK_DEADLOCK FALSE
INVARIANTS
    TypeOK
    UplinkAuthentic
    DownlinkExact
PROPERTIES
    JoinReturns
    GoroutinesEnd
    DownlinkDelivered
