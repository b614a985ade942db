CONSTANTS
    Rings <- SimpleRings
    Points <- Grid
    OutOfRange = OutOfRange
SPECIFICATION Spec
INVARIANTS
    TypeOK
    CornerIsRingNeighbourhood
CHECK_DEADLOCK FALSE
