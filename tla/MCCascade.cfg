CONSTANTS
    p1 = p1
    p2 = p2
    backbone = backbone
    None = None
    body = body
    stat = stat
    Requests = {body, stat}
    Stats = {stat}
    Providers <- MCProviders
    Backbone <- MCBackbone
    Priority <- MCPriority
    Metered = {p2}
SPECIFICATION Spec
INVARIANTS
    NoCopyOverlooked
    OpenCircuitsAreTried
    NotFoundIsCertain
PROPERTY
    BreakersAreCircuits
