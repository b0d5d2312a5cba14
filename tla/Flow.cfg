SPECIFICATION FairSpec
CONSTANTS
    Window = 2
    MaxPacket = 1
    Mod = 4
    MaxBytes = 3
    MaxRead = 2
    Faults = TRUE
CHECK_DEADLOCK FALSE
INVARIANTS
    TypeOK
    NoOverrun
    CreditConserved
    StrayOnlyLateData
PROPERTIES
    ImplementsStream
    WriterProgress
    StreamDelivered
