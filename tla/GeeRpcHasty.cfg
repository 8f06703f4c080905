SPECIFICATION FairSpec
CONSTANTS
    Days = {2, 3}
    a = a
    b = b
    ch = ch
    Call = {a, b}
    What <- Answered
    Nil = Nil
    Chan = {a, b}
    Done <- Own
    Cap <- One
    Hasty = TRUE
    MayCut = FALSE
PROPERTY CallsReturn
CHECK_DEADLOCK FALSE
