SPECIFICATION FairSpec
CONSTANTS
    Days = {1, 2, 3}
    a = a
    b = b
    ch = ch
    Call = {a, b}
    What <- AnyBeside
    Nil = Nil
    Chan = {ch}
    Done <- Shared
    Cap <- One
    Hasty = FALSE
    MayCut = TRUE
INVARIANTS TypeOK CompletesOnce NoneForgotten ResponsesWhole
PROPERTY RemoteCallSpec
CHECK_DEADLOCK FALSE
