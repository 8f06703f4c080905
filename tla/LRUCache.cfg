SPECIFICATION FairSpec
CONSTANTS
    k1 = k1
    k2 = k2
    k3 = k3
    k4 = k4
    v0 = v0
    v2 = v2
    w2 = w2
    v5 = v5
    Key = {k1, k2, k3, k4}
    Value = {v0, v2, w2, v5}
    KeyLen <- MCKeyLen
    ValueLen <- MCValueLen
    MaxBytes = 6
    Offers <- FixedLength
    Miss = Miss
    MaxDrift = 0
INVARIANTS TypeOK IndexConsistent RecencyOrder Accounting UsedWithinLimit
PROPERTIES AddTerminates PolicySpec
