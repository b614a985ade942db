CONSTANTS
    Tests = {1, 2, 3}
    T1 = T1
    T2 = T2
SPECIFICATION Spec
PROPERTY TestTerminates
\* the test program ends once both joins have returned
CHECK_DEADLOCK FALSE
