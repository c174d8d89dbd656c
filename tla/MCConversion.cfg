CONSTANTS
    Names = 2
    Requests = 2
    Surprises = 2
    None = None
SPECIFICATION ConvertSpec
INVARIANTS
    RescansRemembered
    StatusTrue
PROPERTIES
    LastKept
    ItemKept
