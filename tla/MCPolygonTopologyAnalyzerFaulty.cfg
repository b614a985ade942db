CONSTANTS
    Geoms <- FaultyGeoms
    Null = Null
SPECIFICATION Spec
INVARIANT SegmentStringsMatchRings
CHECK_DEADLOCK FALSE
