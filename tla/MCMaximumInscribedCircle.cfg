CONSTANTS
    Inputs <- NonEmptyInputs
    NumSegments = {1, 2}
    MaxCalls = 3
    Null = Null
    Freed = Freed
SPECIFICATION Spec
INVARIANTS
    TypeOK
    SitesSampleLargestPolygon
\* the object takes no call after MaxCalls
CHECK_DEADLOCK FALSE
