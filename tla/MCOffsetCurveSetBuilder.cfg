CONSTANTS
    Inputs <- MCInputs
    Distances <- MCDistances
    DegenerateCurves = {TRUE, FALSE}
    MaxGetCurves = 2
SPECIFICATION Spec
INVARIANTS
    TypeOK
    RingCurveLabelsFaceInput
\* getCurves() ends when every geometry has been visited
CHECK_DEADLOCK FALSE
