SPECIFICATION Spec
CONSTANTS
    n1 = n1
    n2 = n2
    k1 = k1
    k2 = k2
    v1 = v1
    v2 = v2
    Node = {n1, n2}
    NoNode = NoNode
    Value = {v1, v2}
    Err = Err
    Nil = Nil
    EmptyKey = empty
    Hash <- MCHash
    KeyHash <- MCKeyHash
    Source <- MCSource
    Days = {5, 6, 7}
    Client = {c1}
    Key = {k1, k2}
    Wire <- SpaceWire
    Hung = {}
    Booting = {}
    Api = {n1}
    Crashing = {}
    Changing = {}
    MaxHop = 2
    MaxChanges = 0
    MaxCrashes = 0
    MayFail = FALSE
    Evictable = {}
INVARIANT ClientsGetTheirKey
CHECK_DEADLOCK FALSE
