SPECIFICATION FairSpec
CONSTANTS
    Key = {k1, k2}
    Proc = {p1, p2, p3}
    Result = {v1, err}
    MayPanic = TRUE
    Nil = Nil
PROPERTY WaitersReturn
CHECK_DEADLOCK FALSE
