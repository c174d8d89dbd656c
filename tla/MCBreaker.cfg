CONSTANTS
    Attempts = {a1, a2, a3}
    Window = 6
    Coalesce = 2
    Trips = 3
    Initial = 2
    Longest = 5
    MaxTime = 13
SYMMETRY Symmetry
SPECIFICATION BreakerSpec
CHECK_DEADLOCK FALSE
PROPERTIES
    TripsAsDocumented
    IsACircuit
