CONSTANTS
    Tests = {2}
    T1 = T1
    T2 = T2
SPECIFICATION Spec
INVARIANT CallbackReadsLiveMap
CHECK_DEADLOCK FALSE
