CONSTANTS
    a = a
    b = b
    Readers = {a, b}
    Units <- Halves
    Prefetch = 2
    Capacity = 2
    Cost <- Costs
    Holes <- LastOfA
    Surprises = 1
SPECIFICATION FairSpec
CHECK_DEADLOCK FALSE
INVARIANTS
    InPlace
    BudgetInTurn
PROPERTY
    ReadsReturn
