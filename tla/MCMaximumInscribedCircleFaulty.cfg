CONSTANTS
    Inputs <- AllInputs
    NumSegments = {1}
    MaxCalls = 2
    Null = Null
    Freed = Freed
SPECIFICATION Spec
INVARIANT PublicCallsWellDefined
CHECK_DEADLOCK FALSE
