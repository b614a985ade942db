----------------------- MODULE PolygonTopologyAnalyzer -----------------------
(***************************************************************************)
(* The constructor of geos::operation::valid::PolygonTopologyAnalyzer and  *)
(* the queries on the PolygonRings it builds (PolygonTopologyAnalyzer.cpp). *)
(*                                                                         *)
(* The constructor turns every non-empty ring of the input into a segment  *)
(* string for the noder (createSegmentStrings / createSegString), attaches *)
(* a PolygonRing to the rings whose polygon needs connected-interior       *)
(* analysis (createPolygonRing), collects those PolygonRings               *)
(* (getPolygonRings) and nodes the segment strings.                        *)
(*                                                                         *)
(* A ring is abstracted to whether it is empty and whether its coordinate  *)
(* sequence has repeated points; a coordinate sequence is named by the     *)
(* ring it belongs to (Raw) or as the de-duplicated copy made for it       *)
(* (Copy).  A PolygonRing is its position in polyRingStore (0 = nullptr).  *)
(* The noder and PolygonRing's cycle searches are outside src/: the noder  *)
(* dereferences every segment string's coordinates; a search returns any  *)
(* location, or none.                                                      *)
(***************************************************************************)
EXTENDS Integers, Sequences, SequencesExt

CONSTANTS
    Geoms,      \* inputs: [type, polys |-> Seq([shell |-> Ring, holes |-> Seq(Ring)])]
    Null        \* model value: nullptr for a coordinate sequence

Ring == [empty : BOOLEAN, repeated : BOOLEAN]

VARIABLES
    geom, invertedRingValid,  \* the constructor's arguments
    stage,          \* "ctor", "poly", "holes", "noding", "ready", or how it failed
    gi, hj,         \* the loop indices i and j of createSegmentStrings
    shellRing,      \* the local shellRing of the current polygon
    segStrings,     \* Seq([ring, pts, data]): the segment strings in order
    polyRingStore,  \* Seq([ring, index, shell]): the PolygonRings
    coordSeqStore,  \* the de-duplicated copies the analyzer owns
    polyRings,      \* the PolygonRings getPolygonRings collected
    disconnectionPt \* TRUE when a query found a disconnection point

vars == <<geom, invertedRingValid, stage, gi, hj, shellRing, segStrings,
          polyRingStore, coordSeqStore, polyRings, disconnectionPt>>

Raw(p, r) == <<"raw", p, r>>     \* ring r (0 = shell) of polygon p
Copy(p, r) == <<"copy", p, r>>

---------------------------------------------------------------------------
NumGeometries(g) == IF g.type = "MultiPolygon" THEN Len(g.polys) ELSE 1

IsEmptyGeom(g) == \A p \in DOMAIN g.polys : g.polys[p].shell.empty

\* the Polygon the loop body reads: static_cast<const Polygon*>(geom)
CastPolygon(g) == g.polys[1]

\* fault used to check the properties: the shell's PolygonRing made only
\* for inverted-ring validity
needsShellRingInvertedOnly(poly) == invertedRingValid

\* polygons with no holes do not need connected interior analysis
needsShellRing(poly) == Len(poly.holes) > 0 \/ invertedRingValid

\* createPolygonRing(ring) / createPolygonRing(ring, index, shell)
createPolygonRing(store, ringId, index, shell) ==
    Append(store, [ring |-> ringId, index |-> index, shell |-> shell])

\* createSegString(ring, polyRing): the segment string and the copies owned
createSegString(ringRec, p, r, polyRing) ==
    IF ringRec.repeated
    THEN LET newPts == Copy(p, r)        \* removeRepeatedPoints(pts)
             stored == coordSeqStore \cup {newPts}  \* emplace_back(newPts.release())
             pts == Null                 \* newPts.get() after release()
         IN  [ss |-> [ring |-> <<p, r>>, pts |-> pts, data |-> polyRing],
              owned |-> stored]
    ELSE [ss |-> [ring |-> <<p, r>>, pts |-> Raw(p, r), data |-> polyRing],
          owned |-> coordSeqStore]

\* fault used to check the properties: the data of every segment string,
\* nullptr included
getPolygonRingsUnfiltered(ss) == [k \in DOMAIN ss |-> ss[k].data]

\* getPolygonRings: the non-null data of the segment strings, in order
getPolygonRings(ss) ==
    LET withRing == SelectSeq(ss, LAMBDA s : s.data # 0)
    IN  [k \in DOMAIN withRing |-> withRing[k].data]

---------------------------------------------------------------------------
Init ==
    /\ geom \in Geoms
    /\ invertedRingValid \in BOOLEAN
    /\ stage = "ctor"
    /\ gi = 1 /\ hj = 1
    /\ shellRing = 0
    /\ segStrings = <<>>
    /\ polyRingStore = <<>>
    /\ coordSeqStore = {}
    /\ polyRings = <<>>
    /\ disconnectionPt = FALSE

\* the constructor: an empty input makes no segment strings; a LinearRing
\* is one segment string without PolygonRing
Construct ==
    /\ stage = "ctor"
    /\ IF IsEmptyGeom(geom)
       THEN stage' = "ready" /\ UNCHANGED <<segStrings, coordSeqStore>>
       ELSE IF geom.type = "LinearRing"
       THEN LET c == createSegString(geom.polys[1].shell, 1, 0, 0)
            IN  /\ segStrings' = <<c.ss>>
                /\ coordSeqStore' = c.owned
                /\ stage' = "noding"
       ELSE stage' = "poly" /\ UNCHANGED <<segStrings, coordSeqStore>>
    /\ UNCHANGED <<geom, invertedRingValid, gi, hj, shellRing, polyRingStore,
                   polyRings, disconnectionPt>>

\* one iteration of the outer loop of createSegmentStrings: the shell
PolygonShell ==
    /\ stage = "poly"
    /\ IF gi > NumGeometries(geom)
       THEN stage' = "noding"
            /\ UNCHANGED <<gi, shellRing, segStrings, polyRingStore, coordSeqStore>>
       ELSE IF geom.type # "Polygon"
       THEN \* assert(geom->getGeometryTypeId() == GEOS_POLYGON) fails; without
            \* asserts the MultiPolygon is read as a Polygon: undefined
            stage' = "undefined"
            /\ UNCHANGED <<gi, shellRing, segStrings, polyRingStore, coordSeqStore>>
       ELSE LET poly == CastPolygon(geom)
                store == IF needsShellRing(poly)
                         THEN createPolygonRing(polyRingStore, <<gi, 0>>, -1, 0)
                         ELSE polyRingStore
                shell == IF needsShellRing(poly) THEN Len(store) ELSE 0
                c == createSegString(poly.shell, gi, 0, shell)
            IN  IF poly.shell.empty
                THEN gi' = gi + 1
                     /\ UNCHANGED <<stage, shellRing, segStrings, polyRingStore,
                                    coordSeqStore>>
                ELSE /\ polyRingStore' = store
                     /\ shellRing' = shell
                     /\ segStrings' = Append(segStrings, c.ss)
                     /\ coordSeqStore' = c.owned
                     /\ stage' = "holes"
                     /\ UNCHANGED gi
    /\ hj' = 1
    /\ UNCHANGED <<geom, invertedRingValid, polyRings, disconnectionPt>>

\* one iteration of the inner loop: hole j of the current polygon
PolygonHole ==
    /\ stage = "holes"
    /\ LET holes == CastPolygon(geom).holes
       IN  IF hj > Len(holes)
           THEN /\ stage' = "poly" /\ gi' = gi + 1
                /\ UNCHANGED <<hj, segStrings, polyRingStore, coordSeqStore>>
           ELSE IF holes[hj].empty
           THEN hj' = hj + 1
                /\ UNCHANGED <<stage, gi, segStrings, polyRingStore, coordSeqStore>>
           ELSE LET store == createPolygonRing(polyRingStore, <<gi, hj>>, hj - 1,
                                               shellRing)
                    c == createSegString(holes[hj], gi, hj, Len(store))
                IN  /\ polyRingStore' = store
                    /\ segStrings' = Append(segStrings, c.ss)
                    /\ coordSeqStore' = c.owned
                    /\ hj' = hj + 1
                    /\ UNCHANGED <<stage, gi>>
    /\ UNCHANGED <<geom, invertedRingValid, shellRing, polyRings, disconnectionPt>>

\* getPolygonRings, then MCIndexNoder::computeNodes over the segment
\* strings, which reads the coordinates of each
Noding ==
    /\ stage = "noding"
    /\ polyRings' = getPolygonRings(segStrings)
    /\ stage' = IF \E k \in DOMAIN segStrings : segStrings[k].pts = Null
                THEN "crashed" ELSE "ready"
    /\ UNCHANGED <<geom, invertedRingValid, gi, hj, shellRing, segStrings,
                   polyRingStore, coordSeqStore, disconnectionPt>>

\* isInteriorDisconnectedByRingCycle / isInteriorDisconnectedBySelfTouch:
\* search the PolygonRings when there are any; disconnectionPt is kept
\* otherwise
Disconnected ==
    /\ stage = "ready"
    /\ Len(polyRings) > 0
    /\ \E found \in BOOLEAN : disconnectionPt' = found
    /\ UNCHANGED <<geom, invertedRingValid, stage, gi, hj, shellRing, segStrings,
                   polyRingStore, coordSeqStore, polyRings>>

Next == Construct \/ PolygonShell \/ PolygonHole \/ Noding \/ Disconnected

Spec == Init /\ [][Next]_vars

---------------------------------------------------------------------------
(* Reference: the non-empty rings of each polygon, shell first, holes in   *)
(* order; a ring with repeated points is noded through its de-duplicated   *)
(* copy; a polygon with holes (or any polygon when inverted rings are      *)
(* valid) gives its shell a PolygonRing, and each hole a PolygonRing with  *)
(* its hole index, linked to the shell's.                                  *)

RingIds(g) ==
    IF g.type = "LinearRing"
    THEN IF g.polys[1].shell.empty THEN <<>> ELSE << <<1, 0>> >>
    ELSE FoldLeft(LAMBDA acc, p :
            IF g.polys[p].shell.empty THEN acc
            ELSE acc \o << <<p, 0>> >>
                     \o SelectSeq([h \in DOMAIN g.polys[p].holes |-> <<p, h>>],
                                  LAMBDA id : ~g.polys[p].holes[id[2]].empty),
            <<>>, [p \in DOMAIN g.polys |-> p])

RingOf(g, id) == IF id[2] = 0 THEN g.polys[id[1]].shell ELSE g.polys[id[1]].holes[id[2]]

ExpectedPts(g, id) ==
    IF RingOf(g, id).repeated THEN Copy(id[1], id[2]) ELSE Raw(id[1], id[2])

HasPolygonRing(g, inv, id) ==
    g.type # "LinearRing" /\ (Len(g.polys[id[1]].holes) > 0 \/ inv)

---------------------------------------------------------------------------
TypeOK ==
    /\ geom \in Geoms /\ invertedRingValid \in BOOLEAN
    /\ stage \in {"ctor", "poly", "holes", "noding", "ready", "undefined", "crashed"}
    /\ gi \in Nat /\ hj \in Nat
    /\ shellRing \in 0..Len(polyRingStore)
    /\ \A k \in DOMAIN segStrings : segStrings[k].data \in 0..Len(polyRingStore)
    /\ \A k \in DOMAIN polyRingStore : polyRingStore[k].shell \in 0..Len(polyRingStore)
    /\ polyRings \in Seq(1..Len(polyRingStore))
    /\ disconnectionPt \in BOOLEAN

\* Once the constructor returns, the noder has been given exactly the
\* non-empty rings of every polygon of the input, in order, each with a
\* readable coordinate sequence (the de-duplicated copy when the ring has
\* repeated points), and each segment string carries the PolygonRing the
\* connected-interior analysis needs: holes linked to their own shell's.
SegmentStringsMatchRings ==
    stage \notin {"ctor", "poly", "holes", "noding"} =>
        /\ stage = "ready"
        /\ [k \in DOMAIN segStrings |-> segStrings[k].ring] = RingIds(geom)
        /\ \A k \in DOMAIN segStrings :
              LET s == segStrings[k]
              IN  /\ s.pts = ExpectedPts(geom, s.ring)
                  /\ (s.data # 0) = HasPolygonRing(geom, invertedRingValid, s.ring)
                  /\ s.data # 0 =>
                       LET pr == polyRingStore[s.data]
                       IN  /\ pr.ring = s.ring
                           /\ pr.index = s.ring[2] - 1
                           /\ s.ring[2] > 0 =>
                                /\ pr.shell # 0
                                /\ polyRingStore[pr.shell].ring = <<s.ring[1], 0>>

=============================================================================
