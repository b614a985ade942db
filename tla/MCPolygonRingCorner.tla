------------------------ MODULE MCPolygonRingCorner ------------------------
(***************************************************************************)
(* PolygonRingCorner over every ring on the 3x3 integer grid.             *)
(* SimpleRings: 3 or 4 distinct vertices, no vertex on an edge it does not *)
(* bound, no crossing edges, non-zero area, both orientations; collinear   *)
(* (straight) vertices are allowed.  RepeatedPointRings: the simple        *)
(* triangles with one vertex, or the closing point, doubled, as LinearRing *)
(* accepts them.  Every grid point is a candidate p0, so p0 falls inside, *)
(* outside, on a vertex (first, last, middle) and inside an edge.         *)
(***************************************************************************)
EXTENDS PolygonRingCorner

Grid == (0..2) \X (0..2)

Close(v) == Append(v, v[1])

Edges(v) == {<<v[k], v[(k % Len(v)) + 1]>> : k \in 1..Len(v)}

SegmentsCross(e, f) ==
    /\ Orient(e[1], e[2], f[1]) * Orient(e[1], e[2], f[2]) < 0
    /\ Orient(f[1], f[2], e[1]) * Orient(f[1], f[2], e[2]) < 0

IsSimple(v) ==
    /\ \A j, k \in 1..Len(v) : j # k => v[j] # v[k]
    /\ \A k \in 1..Len(v), e \in Edges(v) :
          v[k] \notin {e[1], e[2]} => ~PointOnSegment(v[k], e[1], e[2])
    /\ \A e, f \in Edges(v) : ~SegmentsCross(e, f)
    /\ SignedArea2(Close(v)) # 0

SimpleRings ==
    {Close(v) : v \in {v \in UNION {[1..n -> Grid] : n \in 3..4} : IsSimple(v)}}

\* a simple triangle with vertex k doubled (k = 3 doubles the point
\* before the closing point)
RepeatedPointRings ==
    {Close(SubSeq(v, 1, k) \o <<v[k]>> \o SubSeq(v, k + 1, 3)) :
        v \in {v \in [1..3 -> Grid] : IsSimple(v)}, k \in 1..3}
    \cup {Append(Close(v), v[1]) : v \in {v \in [1..3 -> Grid] : IsSimple(v)}}

=============================================================================
