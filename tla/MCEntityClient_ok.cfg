CONSTANTS
    c1 = c1
    c2 = c2
    i1 = i1
    i2 = i2
    i3 = i3
    i4 = i4
    i5 = i5
    i6 = i6
    U = U
    L = L
    NoId = NoId
    NoQuery = NoQuery
    Callers <- MCCallers
    Ids <- MCIds
    StoredIds <- MCStoredIds
    LabelNames <- MCLabels
    UniqueLabel = U
    Batches <- MCBatches
    Patches <- MCPatches
    MaxCalls = 2
    MaxNetFaults = 1
SPECIFICATION Spec
SYMMETRY MCSymmetry
INVARIANT TypeOK
CHECK_DEADLOCK FALSE
