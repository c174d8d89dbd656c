CONSTANTS
    s1 = s1
    s2 = s2
    s3 = s3
    b1 = b1
    b2 = b2
    None = None
    Total = 3
    Requests <- MCRequests
    Urgent <- MCUrgent
    Asked <- MCAsked
    SweepAt <- MCSweepAt
SPECIFICATION FairSpec
INVARIANTS
    NoStrandedWaiter
PROPERTIES
    InTurn
    WaitersServed
