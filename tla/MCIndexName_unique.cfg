CONSTANTS
    KeyNames <- MCKeyNames
    Directions <- MCDirections
    MaxKeys = 2
SPECIFICATION Spec
INVARIANT IndexNameUnique
CHECK_DEADLOCK FALSE
