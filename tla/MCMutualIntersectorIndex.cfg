CONSTANTS
    Threads = {t1, t2, t3}
    BaseChains = {c1, c2}
    MaxCalls = 2
SPECIFICATION Spec
INVARIANT
    IndexWriterAlone
PROPERTY
    ProcessImplementsFrozenIndex
CHECK_DEADLOCK FALSE
