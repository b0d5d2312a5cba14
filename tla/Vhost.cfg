SPECIFICATION VhostFairSpec
CONSTANTS
    Conns = {"c1", "c2"}
    Hosts = {"x.b", "*.b"}
    Candidates <- WithWildcard
    Owners = {"l1", "l2"}
    None = "none"
    BadRequests = TRUE
    AcceptErrors = TRUE
CHECK_DEADLOCK FALSE
INVARIANTS
    VhostTypeOK
    RegistryExact
    DeliveredByName
    ServedNotClosed
PROPERTY
    ConnSettled
