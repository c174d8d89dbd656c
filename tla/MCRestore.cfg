CONSTANTS
    Restores = 2
    Undos = 1
    Mishaps = 4
SPECIFICATION FairSpec
INVARIANTS
    OpensWhole
    WritesSurvive
    RequestKept
PROPERTY
    RequestEnds
