SPECIFICATION Spec
CONSTANTS
    Window = 2
    MaxPacket = 1
    Mod = 4
    MaxBytes = 2
    MaxRead = 1
    Faults = FALSE
CHECK_DEADLOCK FALSE
PROPERTY
    NoDataAfterClose
