SPECIFICATION FullSpec
CONSTANTS
    Conns = {"v1", "v2"}
    Hosts = {"x"}
    Candidates <- NoWildcards
    Owners = {"h1"}
    None = "none"
    BadRequests = FALSE
    AcceptErrors = FALSE
    Addrs = {"a"}
    Subs = {"free"}
    Limit <- TightLimit
    FatalErrors = FALSE
    MayRefuse = FALSE
CHECK_DEADLOCK FALSE
PROPERTY
    VisitorServed
