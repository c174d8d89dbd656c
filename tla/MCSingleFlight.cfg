CONSTANTS
    Callers = {r1, r2, r3, r4}
    Flights = {f1, f2, f3, f4}
    NoFlight = NoFlight
SPECIFICATION FairFlightSpec
PROPERTIES
    ReadersServed
    IsShared
