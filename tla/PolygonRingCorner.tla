-------------------------- MODULE PolygonRingCorner --------------------------
(***************************************************************************)
(* PolygonTopologyAnalyzer::isSegmentInRing and the index arithmetic under *)
(* it (PolygonTopologyAnalyzer.cpp): isIncidentSegmentInRing,             *)
(* intersectingSegIndex and ringIndexPrev.                                 *)
(*                                                                         *)
(* A call tests whether the segment p0-p1, whose start p0 may lie on the   *)
(* ring, starts inside the ring.  When p0 is on the boundary the code      *)
(* finds the ring segment holding p0, takes the ring corner around p0 and  *)
(* orders it so that the ring interior lies on its right; that corner is   *)
(* what PolygonNode::isInteriorSegment is given.  This module is about     *)
(* the corner: the call ends by returning it.                              *)
(*                                                                         *)
(* Coordinates are integer pairs, so the geometric predicates are exact.   *)
(* Ring indices are the code's 0-based indices; At(k) is ringPts[k].       *)
(***************************************************************************)
EXTENDS Integers, Sequences, SequencesExt

CONSTANTS
    Rings,       \* closed coordinate sequences the call may be given
    Points,      \* candidate segment start points p0
    OutOfRange   \* model value: a read past the end of ringPts

VARIABLES
    ring,     \* ringPts
    p0,       \* the start of the segment (its end only matters to
              \* isInteriorSegment, which is not modelled)
    stage,    \* "locate", "segIndex", "corner", "done", "thrown"
    i,        \* loop index of intersectingSegIndex
    index,    \* the index intersectingSegIndex returned
    result    \* TRUE / FALSE, or the corner [prev, node, next]

vars == <<ring, p0, stage, i, index, result>>

---------------------------------------------------------------------------
(* Geometric primitives (algorithm/, outside src/), exact on integers.     *)

Orient(a, b, c) ==
    (b[1] - a[1]) * (c[2] - a[2]) - (b[2] - a[2]) * (c[1] - a[1])

MinOf(x, y) == IF x < y THEN x ELSE y
MaxOf(x, y) == IF x < y THEN y ELSE x

\* LineIntersector::computeIntersection(p, a, b) followed by hasIntersection()
PointOnSegment(p, a, b) ==
    /\ Orient(a, b, p) = 0
    /\ MinOf(a[1], b[1]) <= p[1] /\ p[1] <= MaxOf(a[1], b[1])
    /\ MinOf(a[2], b[2]) <= p[2] /\ p[2] <= MaxOf(a[2], b[2])

\* ray-crossing count of the half-line to the right of p over edge a-b
Crosses(p, a, b) ==
    \/ a[2] <= p[2] /\ b[2] > p[2] /\ Orient(a, b, p) > 0
    \/ b[2] <= p[2] /\ a[2] > p[2] /\ Orient(a, b, p) < 0

\* PointLocation::locateInRing
LocateInRing(p, r) ==
    IF \E k \in 1..(Len(r) - 1) : PointOnSegment(p, r[k], r[k + 1])
    THEN "BOUNDARY"
    ELSE IF Cardinality({k \in 1..(Len(r) - 1) : Crosses(p, r[k], r[k + 1])}) % 2 = 1
         THEN "INTERIOR" ELSE "EXTERIOR"

\* twice the signed area: positive for a counter-clockwise ring
SignedArea2(r) ==
    FoldLeft(LAMBDA acc, k : acc + r[k][1] * r[k + 1][2] - r[k + 1][1] * r[k][2],
             0, [k \in 1..(Len(r) - 1) |-> k])

\* Orientation::isCCW
IsCCW(r) == SignedArea2(r) > 0

---------------------------------------------------------------------------
At(k) == IF k + 1 \in DOMAIN ring THEN ring[k + 1] ELSE OutOfRange

\* faults used to check the properties: wrapping to the closing point,
\* which repeats the start vertex, or to size(), past the end, instead of
\* the vertex before it
ringIndexPrevToClosingPoint(k) == IF k = 0 THEN Len(ring) - 1 ELSE k - 1
ringIndexPrevPastEnd(k) == IF k = 0 THEN Len(ring) ELSE k - 1

\* ringIndexPrev: the index before index, wrapping past the closing point
ringIndexPrev(k) == IF k = 0 THEN Len(ring) - 2 ELSE k - 1

\* the index the loop returns once segment i holds pt
SegIndexHit(pt, k) == IF pt = At(k + 1) THEN k + 1 ELSE k

\* isIncidentSegmentInRing: the corner handed to isInteriorSegment
IncidentCorner(pt, k) ==
    LET prev0 == IF pt = At(k) THEN At(ringIndexPrev(k)) ELSE At(k)
        next0 == At(k + 1)
        isInteriorOnRight == ~IsCCW(ring)
    IN  IF isInteriorOnRight THEN [prev |-> prev0, node |-> pt, next |-> next0]
                             ELSE [prev |-> next0, node |-> pt, next |-> prev0]

---------------------------------------------------------------------------
Init ==
    /\ ring \in Rings
    /\ p0 \in Points
    /\ stage = "locate"
    /\ i = 0
    /\ index = 0
    /\ result = FALSE

\* isSegmentInRing: locate p0 and return early unless it is on the ring
Locate ==
    /\ stage = "locate"
    /\ LET loc == LocateInRing(p0, ring)
       IN  \/ loc = "EXTERIOR" /\ result' = FALSE /\ stage' = "done"
           \/ loc = "INTERIOR" /\ result' = TRUE /\ stage' = "done"
           \/ loc = "BOUNDARY" /\ stage' = "segIndex" /\ UNCHANGED result
    /\ UNCHANGED <<ring, p0, i, index>>

\* one iteration of the loop of intersectingSegIndex; when the loop runs
\* out it throws IllegalArgumentException("Segment vertex does not
\* intersect ring")
SegIndexStep ==
    /\ stage = "segIndex"
    /\ IF i >= Len(ring) - 1
       THEN stage' = "thrown" /\ UNCHANGED <<i, index>>
       ELSE IF PointOnSegment(p0, At(i), At(i + 1))
       THEN /\ index' = SegIndexHit(p0, i)
            /\ stage' = "corner"
            /\ UNCHANGED i
       ELSE /\ i' = i + 1
            /\ UNCHANGED <<index, stage>>
    /\ UNCHANGED <<ring, p0, result>>

\* isIncidentSegmentInRing after the index is known
Corner ==
    /\ stage = "corner"
    /\ result' = IncidentCorner(p0, index)
    /\ stage' = "done"
    /\ UNCHANGED <<ring, p0, i, index>>

Next == Locate \/ SegIndexStep \/ Corner

Spec == Init /\ [][Next]_vars

---------------------------------------------------------------------------
(* Reference: the ring's distinct vertices in clockwise order; the corner  *)
(* at p0 is the vertex before and the vertex after p0 on that cycle, or    *)
(* the two ends of the edge whose inside holds p0.                         *)

DropRepeats(s) ==
    FoldLeft(LAMBDA acc, c : IF acc # <<>> /\ Last(acc) = c THEN acc
                             ELSE Append(acc, c), <<>>, s)

ClockwiseVertices(r) ==
    LET v == DropRepeats(Front(r))
        w == IF Len(v) > 1 /\ v[1] = Last(v) THEN Front(v) ELSE v
    IN  IF SignedArea2(r) > 0 THEN Reverse(w) ELSE w

Cyc(w, k) == w[((k - 1) % Len(w)) + 1]

RefCorner(r, pt) ==
    LET w == ClockwiseVertices(r)
    IN  IF \E k \in 1..Len(w) : w[k] = pt
        THEN LET k == CHOOSE k \in 1..Len(w) : w[k] = pt
             IN  [prev |-> Cyc(w, k - 1), node |-> pt, next |-> Cyc(w, k + 1)]
        ELSE LET k == CHOOSE k \in 1..Len(w) : PointOnSegment(pt, w[k], Cyc(w, k + 1))
             IN  [prev |-> w[k], node |-> pt, next |-> Cyc(w, k + 1)]

---------------------------------------------------------------------------
TypeOK ==
    /\ ring \in Seq(Int \X Int)
    /\ p0 \in Points
    /\ stage \in {"locate", "segIndex", "corner", "done", "thrown"}
    /\ i \in 0..Len(ring)
    /\ index \in 0..Len(ring)
    /\ IF stage = "done" /\ LocateInRing(p0, ring) = "BOUNDARY"
       THEN result \in [prev : Range(ring), node : Points, next : Range(ring)]
       ELSE result \in BOOLEAN

\* The corner isIncidentSegmentInRing hands to isInteriorSegment is the
\* pair of ring neighbours of p0, ordered with the ring interior on the
\* right, for every position of p0 on the ring: on the start vertex (the
\* wrap of ringIndexPrev), on a vertex reached as the end of the previous
\* segment (the i + 1 return of intersectingSegIndex), inside an edge, and
\* for either ring orientation.
CornerIsRingNeighbourhood ==
    stage = "done" /\ LocateInRing(p0, ring) = "BOUNDARY"
        => result = RefCorner(ring, p0)

=============================================================================
