CONSTANTS
    p1 = p1  p2 = p2  e1 = e1  e2 = e2  e3 = e3  e4 = e4
    IdIdx = IdIdx  A = A  B = B  O = O  V1 = V1
    ValidationOff = ValidationOff  BadValidator = BadValidator
    BadIndex = BadIndex  NilSchema = NilSchema  NoBuild = NoBuild
    Procs <- MCProcs2
    Entities <- MCEntitiesBad
    IndexNames <- MCIndexNames
    SystemIndexes <- MCSystemIndexes
    Validators <- MCValidators
    Leftovers <- MCLeftovers
    Config <- MCConfigBad
    DDLTries = 3
    MaxFaults = 0
SPECIFICATION Spec
PROPERTY ReconcileOnlyValid
CHECK_DEADLOCK FALSE
