SPECIFICATION Spec
CONSTANTS
    Conns = {"c1", "c2", "c3"}
    Accepters = {"p1", "p2"}
    Closers = {"k1", "k2"}
CHECK_DEADLOCK FALSE
INVARIANTS
    TypeOK
    ErrorsAccounted
PROPERTIES
    BlockedReleased
    CloseReturns
    ServeEnds
