------------------------ MODULE MaximumInscribedCircle ------------------------
(***************************************************************************)
(* geos::algorithm::MaximumInscribedCircle (MaximumInscribedCircle.cpp):   *)
(* one object, built on an input geometry and a number of segments, and    *)
(* the sequence of public calls made on it: getCircle(), getSites() and    *)
(* getVoronoiVertices().  Each call starts with compute(), which samples   *)
(* the rings of the input polygon (of the largest polygon of a            *)
(* MultiPolygon) into the member sites, once, and the envelope of the     *)
(* ring vertices into xmin..ymax.                                          *)
(*                                                                         *)
(* A call is one step.  A site is the triple <<from, to, k>> standing for  *)
(* from + (to - from) * k / inputNumSegments.  The Voronoi diagram        *)
(* builder is outside src/: the coordinates of its edges are abstracted   *)
(* to a fixed cycle of vertex names, each shared by two edges.            *)
(* coordSeqFactory->create(sites) takes ownership of the vector, and the  *)
(* temporary sequence deletes it: sites then dangles, which the model     *)
(* records as the value Freed.                                             *)
(***************************************************************************)
EXTENDS Integers, Sequences, SequencesExt

CONSTANTS
    Inputs,        \* the input geometries
    NumSegments,   \* the values inputNumSegments may have
    MaxCalls,      \* bound on the number of public calls on the object
    Null,          \* model value: nullptr
    Freed          \* model value: sites left dangling after its vector is deleted

VARIABLES
    input, inputNumSegments,   \* the constructor's arguments
    sites,                     \* nullptr, the sites computed, or Freed
    box,                       \* [xmin, xmax, ymin, ymax]
    center,                    \* the centre set for a Point input
    voronoiVertices,           \* the vertices appended so far
    result,                    \* what the last getCircle() or getSites() returned
    stage,                     \* "ok", or "crashed" after a null dereference
                               \* or a use of freed memory
    calls

vars == <<input, inputNumSegments, sites, box, center, voronoiVertices, result,
          stage, calls>>

---------------------------------------------------------------------------
\* Geometry::isEmpty, getNumPoints and Polygon::getArea (outside src/)
Rings(p) == <<p.shell>> \o p.holes

NumPoints(g) ==
    CASE g.kind = "Point"        -> IF g.empty THEN 0 ELSE 1
      [] g.kind = "LineString"   -> g.numPoints
      [] g.kind = "Polygon"      -> FoldLeft(LAMBDA a, r : a + Len(r), 0, Rings(g))
      [] g.kind = "MultiPolygon" ->
            FoldLeft(LAMBDA a, p : a + FoldLeft(LAMBDA b, r : b + Len(r), 0, Rings(p)),
                     0, g.polys)

IsEmpty(g) == NumPoints(g) = 0

Area2(r) ==   \* twice the unsigned area of a ring
    LET s == FoldLeft(LAMBDA a, k : a + r[k][1] * r[k + 1][2] - r[k + 1][1] * r[k][2],
                      0, [k \in 1..(Len(r) - 1) |-> k])
    IN  IF s < 0 THEN -s ELSE s

getArea2(p) == Area2(p.shell) - FoldLeft(LAMBDA a, h : a + Area2(h), 0, p.holes)

---------------------------------------------------------------------------
\* polygonOfMaxArea: the first polygon of strictly largest area (index 0
\* when every area is 0)
polygonOfMaxArea(m) ==
    LET idx == FoldLeft(LAMBDA best, i : IF getArea2(m.polys[i]) > getArea2(m.polys[best])
                                         THEN i ELSE best,
                        1, [i \in DOMAIN m.polys |-> i])
    IN  m.polys[idx]

\* fault used to check the properties: the inner loop runs to
\* k <= inputNumSegments, sampling each segment's end point too
addRingSitesInclusive(S, ring) ==
    IF ring = <<>> THEN [S EXCEPT !.stage = "crashed"]
    ELSE FoldLeft(
           LAMBDA T, i :
             [T EXCEPT !.sites = @ \o [k \in 1..(inputNumSegments + 1) |->
                                          <<ring[i], ring[i + 1], k - 1>>]],
           S, [i \in 1..(Len(ring) - 1) |-> i])

\* addRingSites: inputNumSegments sites on each segment, and the box
\* widened by each segment's start point; on an empty ring the unsigned
\* getNumPoints() - 1 wraps and getPointN(0) has no point to return
addRingSites(S, ring) ==
    IF ring = <<>> THEN [S EXCEPT !.stage = "crashed"]
    ELSE FoldLeft(
           LAMBDA T, i :
             LET from == ring[i]
             IN  [T EXCEPT
                    !.sites = @ \o [k \in 1..inputNumSegments |-> <<from, ring[i + 1], k - 1>>],
                    !.box = [xmin |-> IF from[1] < @.xmin THEN from[1] ELSE @.xmin,
                             xmax |-> IF from[1] > @.xmax THEN from[1] ELSE @.xmax,
                             ymin |-> IF from[2] < @.ymin THEN from[2] ELSE @.ymin,
                             ymax |-> IF from[2] > @.ymax THEN from[2] ELSE @.ymax]],
           S, [i \in 1..(Len(ring) - 1) |-> i])

\* fault used to check the properties: sites computed again on every call
computeSitesAgain(S, poly) ==
    IF poly.shell = <<>> THEN [S EXCEPT !.stage = "crashed"]
    ELSE LET start == poly.shell[1]
             T == [S EXCEPT !.sites = IF S.sites \in {Null, Freed} THEN <<>> ELSE S.sites,
                            !.box = [xmin |-> start[1], xmax |-> start[1],
                                     ymin |-> start[2], ymax |-> start[2]]]
         IN  FoldLeft(LAMBDA U, r : IF U.stage = "ok" THEN addRingSites(U, r) ELSE U,
                      T, Rings(poly))

\* computeSites: only the first time; the box starts at the shell's start
\* point, which getStartPoint() returns as nullptr for an empty shell
computeSites(S, poly) ==
    IF S.sites # Null THEN S
    ELSE IF poly.shell = <<>> THEN [S EXCEPT !.stage = "crashed"]
    ELSE LET start == poly.shell[1]
             T == [S EXCEPT !.sites = <<>>,
                            !.box = [xmin |-> start[1], xmax |-> start[1],
                                     ymin |-> start[2], ymax |-> start[2]]]
         IN  FoldLeft(LAMBDA U, r : IF U.stage = "ok" THEN addRingSites(U, r) ELSE U,
                      T, Rings(poly))

\* compute: dispatch on the input's type; an empty Point has no coordinate
compute(S) ==
    CASE input.kind = "Point" ->
            IF input.empty THEN [S EXCEPT !.stage = "crashed"]
            ELSE [S EXCEPT !.center = input.coord]
      [] input.kind = "Polygon" -> computeSites(S, input)
      [] input.kind = "MultiPolygon" ->
            IF input.polys = <<>> THEN [S EXCEPT !.stage = "crashed"]
            ELSE computeSites(S, polygonOfMaxArea(input))
      [] OTHER -> S

\* VoronoiDiagramBuilder::getDiagramEdges, then getCoordinates() (outside
\* src/): the edges' coordinates, every vertex ending one edge and
\* starting the next; no sites (nullptr makes an empty sequence) give none
DiagramEdgeCoords(s) ==
    IF s = Null \/ s = <<>> THEN <<>>
    ELSE <<"v1", "v2", "v2", "v3", "v3", "v1">>

\* extractUniquePoints: UniqueCoordinateArrayFilter keeps the first
\* occurrence of every coordinate, in order
extractUniquePoints(coords) ==
    FoldLeft(LAMBDA acc, c : IF c \in Range(acc) THEN acc ELSE Append(acc, c),
             <<>>, coords)

\* computeVoronoiVertices: create(sites) adopts the vector and deletes it
\* with the temporary sequence, leaving sites dangling (nullptr makes an
\* empty sequence and nothing is deleted); create() of a vector already
\* deleted reads and deletes it again.  A point per unique diagram vertex
\* is appended to the member.
computeVoronoiVertices(S) ==
    IF S.sites = Freed THEN [S EXCEPT !.stage = "crashed"]
    ELSE [S EXCEPT !.sites = IF S.sites = Null THEN Null ELSE Freed,
                   !.voronoiVertices =
                       @ \o extractUniquePoints(DiagramEdgeCoords(S.sites))]

Members == [sites |-> sites, box |-> box, center |-> center, stage |-> stage,
            voronoiVertices |-> voronoiVertices]

SetMembers(S) ==
    /\ sites' = S.sites /\ box' = S.box /\ center' = S.center /\ stage' = S.stage
    /\ voronoiVertices' = S.voronoiVertices

---------------------------------------------------------------------------
Init ==
    /\ input \in Inputs
    /\ inputNumSegments \in NumSegments
    /\ sites = Null
    /\ box = [xmin |-> 0, xmax |-> 0, ymin |-> 0, ymax |-> 0]
    /\ center = Null
    /\ voronoiVertices = <<>>
    /\ result = "none"
    /\ stage = "ok"
    /\ calls = 0

Call == stage = "ok" /\ calls < MaxCalls /\ calls' = calls + 1

\* getCircle: compute(), then the empty and one-point cases; every other
\* input reaches the end of the function without a return statement
getCircle ==
    /\ Call
    /\ LET S == compute(Members)
       IN  /\ SetMembers(S)
           /\ result' = IF S.stage # "ok" THEN result
                        ELSE IF IsEmpty(input) THEN "emptyPolygon"
                        ELSE IF NumPoints(input) = 1 THEN "clone"
                        ELSE "undefined"
    /\ UNCHANGED <<input, inputNumSegments>>

\* getSites: compute() and return the member, which once deleted is a
\* dangling pointer that computeSites does not replace
getSites ==
    /\ Call
    /\ LET S == compute(Members)
       IN  /\ SetMembers(S)
           /\ result' = IF S.stage = "ok" /\ S.sites = Freed THEN "dangling" ELSE result
    /\ UNCHANGED <<input, inputNumSegments>>

\* getVoronoiVertices: compute(), then computeVoronoiVertices() appends the
\* diagram's vertices to the member and returns all of it
getVoronoiVertices ==
    /\ Call
    /\ LET S == compute(Members)
       IN  SetMembers(IF S.stage = "ok" THEN computeVoronoiVertices(S) ELSE S)
    /\ UNCHANGED <<input, inputNumSegments, result>>

Next == getCircle \/ getSites \/ getVoronoiVertices

Spec == Init /\ [][Next]_vars

---------------------------------------------------------------------------
(* Reference: the polygon sampled is the input, or the first MultiPolygon  *)
(* element of largest area; its rings are sampled shell first, every       *)
(* segment at k / inputNumSegments for k = 0 .. inputNumSegments - 1; the  *)
(* box is the envelope of the ring vertices.                               *)

RefPolygon(g) ==
    IF g.kind = "Polygon" THEN g
    ELSE LET A(i) == getArea2(g.polys[i])
             i0 == CHOOSE i \in DOMAIN g.polys :
                       /\ \A j \in DOMAIN g.polys : A(j) <= A(i)
                       /\ \A j \in 1..(i - 1) : A(j) < A(i)
         IN  g.polys[i0]

RefSites(p, n) ==
    LET RingSites(r) ==
            FlattenSeq([i \in 1..(Len(r) - 1) |->
                          [k \in 1..n |-> <<r[i], r[i + 1], k - 1>>]])
    IN  FlattenSeq([j \in DOMAIN Rings(p) |-> RingSites(Rings(p)[j])])

RefBox(p) ==
    LET V == UNION {Range(r) : r \in Range(Rings(p))}
        Lo(S) == CHOOSE x \in S : \A y \in S : x <= y
        Hi(S) == CHOOSE x \in S : \A y \in S : y <= x
    IN  [xmin |-> Lo({v[1] : v \in V}), xmax |-> Hi({v[1] : v \in V}),
         ymin |-> Lo({v[2] : v \in V}), ymax |-> Hi({v[2] : v \in V})]

---------------------------------------------------------------------------
TypeOK ==
    /\ input \in Inputs /\ inputNumSegments \in NumSegments
    /\ sites \in {Null, Freed} \/ sites \in Seq((Int \X Int) \X (Int \X Int) \X (0..(inputNumSegments - 1)))
    /\ voronoiVertices \in BoundedSeq({"v1", "v2", "v3"}, 3 * MaxCalls)
    /\ result \in {"none", "emptyPolygon", "clone", "undefined", "dangling"}
    /\ stage \in {"ok", "crashed"}
    /\ calls \in 0..MaxCalls

\* While the object still owns its sites vector (before getVoronoiVertices
\* hands it to create()), whatever getCircle / getSites calls have been
\* made, the sites are those of the polygon of largest area (the first of
\* them), each ring segment sampled inputNumSegments times and sampled
\* once only, though computeSites runs on every call; and the box is the
\* envelope of all its vertices.
SitesSampleLargestPolygon ==
    stage = "ok" /\ sites \notin {Null, Freed} =>
        /\ sites = RefSites(RefPolygon(input), inputNumSegments)
        /\ box = RefBox(RefPolygon(input))

\* Every public call returns normally, and getCircle() returns a geometry
\* whatever the input: an empty Polygon for an empty input (its
\* "degenerate or trivial cases"), the input itself for a single point,
\* and the circle otherwise; no call dereferences a null pointer or
\* freed memory, and getSites() never returns a deleted vector.
PublicCallsWellDefined == stage # "crashed" /\ result \notin {"undefined", "dangling"}

=============================================================================
