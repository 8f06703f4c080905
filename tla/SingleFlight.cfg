SPECIFICATION FairSpec
CONSTANTS
    Key = {k1, k2}
    Proc = {p1, p2, p3, p4}
    Result = {v1, err}
    MayPanic = TRUE
    Nil = Nil
INVARIANTS TypeOK OneFlightPerKey SharedResult WaitsForAFlight
PROPERTIES DoReturns KeysForgotten
CHECK_DEADLOCK FALSE
