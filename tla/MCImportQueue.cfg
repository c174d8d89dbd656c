CONSTANTS
    j1 = j1
    j2 = j2
    j3 = j3
    Jobs = {j1, j2, j3}
    Workers = {w1, w2}
    Content <- MCContent
    Priority <- MCPriority
    Concurrency = {2}
    Folders = 2
    StuckLimit = 2
    Pauses = {TRUE}
    Restarts = 1
    None = None
SPECIFICATION FairSpec
ACTION_CONSTRAINT InOrder
INVARIANTS
    NothingTwice
    FolderStaysFree
    NothingLost
PROPERTIES
    NotRerunAtOnce
    CompletesHandedOff
    JobsAreTried
