CONSTANTS
    Calls = {hedge, other}
    Streams = {hedge}
    Fresh = {hedge}
    Conns = {c1, c2, c3}
    MaxConnections = 2
    HeadroomFrom = 2
    MaxRetries = 1
    MaxUnanswered = 1
    Mishaps = 1
    None = None
SPECIFICATION FairSpec
CHECK_DEADLOCK FALSE
INVARIANTS
    WithinLimit
    NoStranded
PROPERTY
    FetchEnds
