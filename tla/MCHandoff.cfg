CONSTANTS
    Publishes = 2
    Folders = 2
    Mishaps = 1
SPECIFICATION FairSpec
CHECK_DEADLOCK FALSE
INVARIANTS
    OthersAreSpared
    NothingLeftBehind
    KeptForTheArr
PROPERTY
    HangsPass
