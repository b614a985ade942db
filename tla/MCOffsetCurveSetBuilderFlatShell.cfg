CONSTANTS
    Inputs <- FlatShellInputs
    Distances = {0}
    DegenerateCurves = {FALSE}
    MaxGetCurves = 1
SPECIFICATION Spec
INVARIANT HolesOnlyWithShell
CHECK_DEADLOCK FALSE
