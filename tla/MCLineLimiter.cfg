CONSTANTS
    Coords <- MCCoords
    Env <- MCEnv
    Inputs <- MCInputs
    MaxCalls = 2
    NoList = NoList
SPECIFICATION Spec
INVARIANTS
    TypeOK
PROPERTY
    LimitImplementsContract
CHECK_DEADLOCK FALSE
