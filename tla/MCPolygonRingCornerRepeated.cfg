CONSTANTS
    Rings <- RepeatedPointRings
    Points <- Grid
    OutOfRange = OutOfRange
SPECIFICATION Spec
INVARIANT CornerIsRingNeighbourhood
CHECK_DEADLOCK FALSE
