----------------------- MODULE MCOffsetCurveSetBuilder -----------------------
(***************************************************************************)
(* Inputs for OffsetCurveSetBuilder: every kind of geometry add() handles, *)
(* with rings of both orientations, a flat ring, a triangle and a ring the *)
(* distance erodes, polygons with up to two holes, and nested collections. *)
(***************************************************************************)
EXTENDS OffsetCurveSetBuilder

Ring(id, rawSize, cleanSize, ccw, eroded) ==
    [id |-> id, rawSize |-> rawSize, cleanSize |-> cleanSize, ccw |-> ccw, eroded |-> eroded]

CW     == Ring("cw", 5, 5, FALSE, FALSE)
CCW    == Ring("ccw", 5, 5, TRUE, FALSE)
Tri    == Ring("tri", 4, 4, TRUE, TRUE)    \* a triangle the distance erodes
Flat   == Ring("flat", 4, 3, FALSE, FALSE) \* A B B A: three points once cleaned
Thin   == Ring("thin", 6, 6, FALSE, TRUE)  \* narrower than twice the distance

Shells == {CW, CCW, Flat, Thin}
Holes  == {CW, CCW, Tri}

Polygon(shell, holes) ==
    [id |-> "poly", kind |-> "Polygon", empty |-> FALSE, shell |-> shell, holes |-> holes]

Point(valid) == [id |-> "pt", kind |-> "Point", empty |-> FALSE, valid |-> valid,
                cleanSize |-> 1, ccw |-> FALSE]
EmptyPoint   == [id |-> "ept", kind |-> "Point", empty |-> TRUE, valid |-> TRUE]

Line(r, closed) ==
    [id |-> r.id, kind |-> "LineString", empty |-> FALSE, closed |-> closed,
     cleanSize |-> r.cleanSize, ccw |-> r.ccw]
OpenLine == [id |-> "open", kind |-> "LineString", empty |-> FALSE, closed |-> FALSE,
             cleanSize |-> 2, ccw |-> FALSE]

Collection(gs) ==
    [id |-> "gc", kind |-> "Collection", geoms |-> gs,
     empty |-> \A k \in DOMAIN gs : gs[k].empty]

MCInputs ==
    {Polygon(s, h) : s \in Shells, h \in BoundedSeq(Holes, 2)}
    \cup {Point(TRUE), Point(FALSE), EmptyPoint, OpenLine,
          Line(CW, TRUE), Line(CCW, TRUE), Line(Flat, TRUE)}
    \cup {Collection(<<EmptyPoint, Polygon(CCW, <<CW>>),
                       Collection(<<Line(CCW, TRUE), Point(TRUE)>>)>>),
          Collection(<<EmptyPoint>>)}

MCDistances == {-1, 0, 1}

\* a polygon whose shell has two distinct vertices, and a hole
FlatShellInputs == {Polygon(Flat, <<CW>>)}

=============================================================================
