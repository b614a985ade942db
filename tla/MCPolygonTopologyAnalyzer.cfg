CONSTANTS
    Geoms <- SimpleGeoms
    Null = Null
SPECIFICATION Spec
INVARIANTS
    TypeOK
    SegmentStringsMatchRings
CHECK_DEADLOCK FALSE
