SPECIFICATION FairSpec
CONSTANTS
    n1 = n1
    n2 = n2
    k1 = k1
    k2 = k2
    v1 = v1
    v2 = v2
    Node = {n1, n2}
    NoNode = NoNode
    Value = {v1, v2}
    Err = Err
    Nil = Nil
    EmptyKey = empty
    Hash <- MCHash
    KeyHash <- MCKeyHash
    Source <- MCSource
    Days = {7}
    Client = {c1, c2}
    Key = {k1, k2}
    Wire <- PlainWire
    Hung = {k2}
    Booting = {}
    Api = {n1}
    Crashing = {n1}
    Changing = {k1}
    MaxHop = 1
    MaxChanges = 1
    MaxCrashes = 1
    MayFail = TRUE
    Evictable = {}
INVARIANTS TypeOK AnswersGenuine
PROPERTY SurvivorsReturn
CHECK_DEADLOCK FALSE
