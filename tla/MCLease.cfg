CONSTANTS
    Streams = {s1, s2}
    Others = {o1, o2}
    Warmers = {w}
    Tests = {t1, t2}
    NoTest = NoTest
SPECIFICATION FairLeaseSpec
INVARIANTS
    LeaseHolds
PROPERTY
    GateOpensAgain
