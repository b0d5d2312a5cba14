SPECIFICATION LocalSpec
CONSTANTS
    Conns = {"v1"}
    Hosts = {"x"}
    Candidates <- NoWildcards
    Owners = {"h1", "h2"}
    None = "none"
    BadRequests = FALSE
    AcceptErrors = FALSE
    Addrs = {"a"}
    Subs = {"free", "high", "other"}
    Limit <- TightLimit
    FatalErrors = TRUE
    MayRefuse = TRUE
CHECK_DEADLOCK FALSE
INVARIANTS
    TunnelTypeOK
    SlotsAccounted
    WithinLimit
PROPERTY
    TunnelReleased
