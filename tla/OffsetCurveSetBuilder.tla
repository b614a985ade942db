------------------------ MODULE OffsetCurveSetBuilder ------------------------
(***************************************************************************)
(* geos::operation::buffer::OffsetCurveSetBuilder (OffsetCurveSetBuilder.cpp) *)
(*                                                                         *)
(* getCurves() walks the input geometry (add / addCollection) and, for     *)
(* every point, line and polygon ring, asks the OffsetCurveBuilder for raw *)
(* offset curves on one side of it, labelling each curve with the location *)
(* of the buffer on its left and right (addRingSide / addCurve).  Those    *)
(* labels are what the buffer's noding and polygon building trust.         *)
(*                                                                         *)
(* The recursion of add() is an explicit stack of geometries; one step is *)
(* one add(g) call on a non-collection, with every ring it handles.        *)
(* A ring is abstracted to its size before and after removal of repeated   *)
(* points, its orientation (isCCWArea), and whether the buffer distance    *)
(* erodes it (the envelope and triangle in-centre tests).  The distance   *)
(* is abstracted to its sign.  The OffsetCurveBuilder is outside src/: a   *)
(* call yields one raw curve, of fewer than two points or not.             *)
(***************************************************************************)
EXTENDS Integers, Sequences, SequencesExt

CONSTANTS
    Inputs,     \* the geometries getCurves() may be asked to buffer
    Distances,  \* the buffer distances, by sign: a subset of {-1, 0, 1}
    DegenerateCurves, \* whether a raw curve may have fewer than 2 points
    MaxGetCurves      \* bound on the getCurves() calls on one builder

LinearRingMinimumValidSize == 4   \* LinearRing::MINIMUM_VALID_SIZE

VARIABLES
    inputGeom,            \* the geometry the builder was constructed on
    distance,             \* the buffer distance
    isInvertOrientation,  \* setInvertOrientation()
    stack,                \* the geometries add() has still to visit
    curveList,            \* the curves made: Seq([ring, role, ccw, size, side, left, right])
    getCalls              \* the getCurves() calls made

vars == <<inputGeom, distance, isInvertOrientation, stack, curveList, getCalls>>

Opposite(side) == IF side = "LEFT" THEN "RIGHT" ELSE "LEFT"

---------------------------------------------------------------------------
\* OffsetCurveBuilder::isLineOffsetEmpty (outside src/), two-sided buffers
isLineOffsetEmpty(d) == d <= 0

\* isRingCCW: Orientation::isCCWArea, inverted on request
isRingCCW(r) == IF isInvertOrientation THEN ~r.ccw ELSE r.ccw

\* isErodedCompletely(ring, bufferDistance), with isTriangleErodedCompletely
\* (4 raw points) and the envelope test (more) folded into r.eroded
isErodedCompletely(r, bufferDistance) ==
    IF r.rawSize < 4 THEN bufferDistance < 0
    ELSE IF r.rawSize = 4 THEN r.eroded
    ELSE bufferDistance < 0 /\ r.eroded

\* addCurve: a raw curve of fewer than 2 points is deleted, any other is
\* labelled (BOUNDARY on, leftLoc, rightLoc) and appended to curveList
addCurve(r, role, side, leftLoc, rightLoc, degenerate) ==
    IF degenerate THEN <<>>
    ELSE << [ring |-> r.id, role |-> role, ccw |-> r.ccw, size |-> r.cleanSize,
             side |-> side, left |-> leftLoc, right |-> rightLoc] >>

\* fault used to check the properties: the locations of a counter-clockwise
\* ring are swapped but the offset side is left as given
addRingSideKeepingSide(r, role, offsetDistance, side, cwLeftLoc, cwRightLoc, degenerate) ==
    IF offsetDistance = 0 /\ r.cleanSize < LinearRingMinimumValidSize THEN <<>>
    ELSE IF r.cleanSize >= LinearRingMinimumValidSize /\ isRingCCW(r)
    THEN addCurve(r, role, side, cwRightLoc, cwLeftLoc, degenerate)
    ELSE addCurve(r, role, side, cwLeftLoc, cwRightLoc, degenerate)

\* fault used to check the properties: the swap of the locations of a
\* counter-clockwise ring written as two assignments in a row
addRingSideLostSwap(r, role, offsetDistance, side, cwLeftLoc, cwRightLoc, degenerate) ==
    IF offsetDistance = 0 /\ r.cleanSize < LinearRingMinimumValidSize THEN <<>>
    ELSE IF r.cleanSize >= LinearRingMinimumValidSize /\ isRingCCW(r)
    THEN addCurve(r, role, Opposite(side), cwRightLoc, cwRightLoc, degenerate)
    ELSE addCurve(r, role, side, cwLeftLoc, cwRightLoc, degenerate)

\* addRingSide: skip a flat ring at distance 0; for a counter-clockwise
\* ring swap the locations and offset on the opposite side
addRingSide(r, role, offsetDistance, side, cwLeftLoc, cwRightLoc, degenerate) ==
    IF offsetDistance = 0 /\ r.cleanSize < LinearRingMinimumValidSize THEN <<>>
    ELSE IF r.cleanSize >= LinearRingMinimumValidSize /\ isRingCCW(r)
    THEN addCurve(r, role, Opposite(side), cwRightLoc, cwLeftLoc, degenerate)
    ELSE addCurve(r, role, side, cwLeftLoc, cwRightLoc, degenerate)

\* addRingBothSides: a closed line is offset on both sides
addRingBothSides(r, d, deg1, deg2) ==
    addRingSide(r, "line", d, "LEFT", "EXTERIOR", "INTERIOR", deg1)
    \o addRingSide(r, "line", d, "RIGHT", "INTERIOR", "EXTERIOR", deg2)

\* addPoint
addPoint(g, degenerate) ==
    IF distance <= 0 \/ ~g.valid THEN <<>>
    ELSE addCurve(g, "point", "LEFT", "EXTERIOR", "INTERIOR", degenerate)

\* addLineString: rings get a continuous curve on each side
addLineString(g, deg) ==
    IF isLineOffsetEmpty(distance) THEN <<>>
    ELSE IF g.closed /\ g.cleanSize >= LinearRingMinimumValidSize
    THEN addRingBothSides(g, distance, deg[1], deg[2])
    ELSE addCurve(g, "line", "LEFT", "EXTERIOR", "INTERIOR", deg[1])

\* addPolygon: the shell, then every hole not covered by the buffer,
\* labelled opposite to the shell
addPolygon(p, deg) ==
    LET offsetDistance == IF distance < 0 THEN -distance ELSE distance
        offsetSide == IF distance < 0 THEN "RIGHT" ELSE "LEFT"
        holeCurves(h) ==
            IF distance > 0 /\ isErodedCompletely(p.holes[h], -distance) THEN <<>>
            ELSE addRingSide(p.holes[h], "hole", offsetDistance,
                             Opposite(offsetSide), "INTERIOR", "EXTERIOR", deg[h + 1])
    IN  IF distance < 0 /\ isErodedCompletely(p.shell, distance) THEN <<>>
        ELSE IF distance <= 0 /\ p.shell.cleanSize < 3 THEN <<>>
        ELSE addRingSide(p.shell, "shell", offsetDistance, offsetSide,
                         "EXTERIOR", "INTERIOR", deg[1])
             \o FoldLeft(LAMBDA acc, h : acc \o holeCurves(h), <<>>,
                         [h \in DOMAIN p.holes |-> h])

---------------------------------------------------------------------------
\* the constructor, then setInvertOrientation()
Init ==
    /\ inputGeom \in Inputs
    /\ distance \in Distances
    /\ isInvertOrientation \in BOOLEAN
    /\ stack = <<>>
    /\ curveList = <<>>
    /\ getCalls = 0

\* getCurves(): add(inputGeom), appending to the member curveList, which
\* it returns; a call starts once the previous one has returned
GetCurves ==
    /\ stack = <<>> /\ getCalls < MaxGetCurves
    /\ stack' = <<inputGeom>>
    /\ getCalls' = getCalls + 1
    /\ UNCHANGED <<inputGeom, distance, isInvertOrientation, curveList>>

\* add(g) on an empty geometry or a collection: skip it, or visit the
\* elements in order (addCollection)
AddCollection ==
    /\ stack # <<>>
    /\ LET g == Head(stack)
       IN  /\ g.empty \/ g.kind = "Collection"
           /\ stack' = IF g.empty THEN Tail(stack) ELSE g.geoms \o Tail(stack)
    /\ UNCHANGED <<inputGeom, distance, isInvertOrientation, curveList, getCalls>>

\* add(g) on a non-empty point, line or polygon; deg says which of the
\* OffsetCurveBuilder's raw curves have fewer than two points
AddComponent ==
    /\ stack # <<>>
    /\ LET g == Head(stack)
       IN  /\ ~g.empty /\ g.kind \in {"Point", "LineString", "Polygon"}
           /\ \E deg \in [1..3 -> DegenerateCurves] :
                curveList' = curveList \o
                    CASE g.kind = "Point"      -> addPoint(g, deg[1])
                      [] g.kind = "LineString" -> addLineString(g, deg)
                      [] g.kind = "Polygon"    -> addPolygon(g, deg)
    /\ stack' = Tail(stack)
    /\ UNCHANGED <<inputGeom, distance, isInvertOrientation, getCalls>>

Next == GetCurves \/ AddCollection \/ AddComponent

Spec == Init /\ [][Next]_vars

---------------------------------------------------------------------------
Loc(c, side) == IF side = "LEFT" THEN c.left ELSE c.right

\* the side of a polygon ring on which the polygon's interior lies
InteriorSide(role, ccw) ==
    IF (role = "shell") = ccw THEN "LEFT" ELSE "RIGHT"

\* an input geometry and all the geometries nested in it
RECURSIVE Parts(_)
Parts(g) ==
    {g} \cup IF g.kind = "Collection"
              THEN UNION {Parts(g.geoms[k]) : k \in DOMAIN g.geoms} ELSE {}

TypeOK ==
    /\ inputGeom \in Inputs
    /\ distance \in Distances
    /\ getCalls \in 0..MaxGetCurves
    /\ isInvertOrientation \in BOOLEAN
    /\ stack \in Seq(UNION {Parts(g) : g \in Inputs})
    /\ \A k \in DOMAIN curveList :
          /\ curveList[k].side \in {"LEFT", "RIGHT"}
          /\ {curveList[k].left, curveList[k].right} = {"INTERIOR", "EXTERIOR"}

\* Every offset curve of a ring with a determinate orientation lies on the
\* side of the ring away from the polygon's interior when the buffer grows
\* it (distance >= 0) and towards it when the buffer erodes it, and its
\* label says INTERIOR on the side facing the ring when the buffer grows
\* and EXTERIOR when it erodes; a closed line is grown on both sides.
\* Orientation is the one the builder is told to assume (isInvertOrientation).
RingCurveLabelsFaceInput ==
    \A k \in DOMAIN curveList :
        LET c == curveList[k]
            ccw == IF isInvertOrientation THEN ~c.ccw ELSE c.ccw
            grows == distance >= 0
            facing == IF grows THEN "INTERIOR" ELSE "EXTERIOR"
            away == IF grows THEN "EXTERIOR" ELSE "INTERIOR"
        IN  c.role \in {"shell", "hole", "line"} /\ c.size >= LinearRingMinimumValidSize =>
              /\ Loc(c, Opposite(c.side)) = facing
              /\ Loc(c, c.side) = away
              /\ c.role # "line" =>
                   c.side = IF grows THEN Opposite(InteriorSide(c.role, ccw))
                            ELSE InteriorSide(c.role, ccw)

\* A polygon gets offset curves for its holes only if it gets one for its
\* shell: addPolygon means to return before the holes for "a polygon with
\* too few distinct vertices", and a hole curve labelled against a shell
\* that is not there makes a region of the buffer out of the hole.
HolesOnlyWithShell ==
    \A k \in DOMAIN curveList :
        curveList[k].role = "hole" =>
            \E j \in 1..(k - 1) : curveList[j].role = "shell"

=============================================================================
