SPECIFICATION Spec
CONSTANTS
    Inputs <- AllInputs
    BlockSize = 4
    SuspectLen = 30
    MaxCiphertext = 40
    MaxHandshake = 26
    BufioSize = 3
    MaxRead = 3
CHECK_DEADLOCK FALSE
INVARIANTS
    TypeOK
    DecodedExact
    OutcomeExact
    ReplayExact
