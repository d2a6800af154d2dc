SPECIFICATION FairSpec
CONSTANTS
    None = None
    c1 = c1
    c2 = c2
    c3 = c3
    Calls = {c1, c2, c3}
    Keys = {k1}
    KindsOf <- MCKindsOf
    Retries = 1
    Limit = 2
    Window = 2
INVARIANTS
    TrafficIsBounded
    LookupsAudited
PROPERTIES
    EveryCallEnds
CHECK_DEADLOCK FALSE
