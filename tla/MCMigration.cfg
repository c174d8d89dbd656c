CONSTANTS
    k1 = k1
    k2 = k2
    Keys = {k1, k2}
    Upgrades = 1
    Mishaps = 3
SPECIFICATION FairSpec
INVARIANTS
    NoWriteIsLost
    LogIsTrue
PROPERTY
    MoveGoesOn
