SPECIFICATION Spec
CONSTANTS
    Node = {n1, n2}
    Proc = {p1, p2, p3}
    Replicas = 2
    MaxHash = 3
    NoNode = NoNode
    Hashing <- AllHashings
    KeyHash = {0, 1, 3}
SYMMETRY Symmetry
INVARIANTS TypeOK OwnersFollowMembers
PROPERTIES MovesOnlyWhereNeeded GetsSeeWholeRings PanicsOnlyForStrangers
CHECK_DEADLOCK FALSE
