\* One refresh with room for one look-up at a time, one visitor, two identities.
CONSTANTS
    k1 = k1
    k2 = k2
    Key = {k1, k2}
    Visitor = {v}
    Warm = {w}
    Truth <- MCTruth
    Slots = 1
    Budget = 1
    TTL = 2
SPECIFICATION Spec
INVARIANTS
    TypeOK
PROPERTIES
    FreshIsKept
    RouteArrives
