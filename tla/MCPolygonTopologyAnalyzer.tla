--------------------- MODULE MCPolygonTopologyAnalyzer ---------------------
(***************************************************************************)
(* Inputs for PolygonTopologyAnalyzer: LinearRings, Polygons with up to    *)
(* two holes, empty or not, and MultiPolygons of two such Polygons.        *)
(* MultiPolygons and rings with repeated points form a separate input     *)
(* set, the one on which the constructor's two faults show.                *)
(***************************************************************************)
EXTENDS PolygonTopologyAnalyzer

Plain == [empty |-> FALSE, repeated |-> FALSE]
Empty == [empty |-> TRUE, repeated |-> FALSE]
Repeated == [empty |-> FALSE, repeated |-> TRUE]

PolysOver(R) == [shell : R, holes : BoundedSeq(R, 2)]

LinearRings(R) == {[type |-> "LinearRing", polys |-> <<[shell |-> r, holes |-> <<>>]>>] : r \in R}

Polygons(R) == {[type |-> "Polygon", polys |-> <<p>>] : p \in PolysOver(R)}

MultiPolygons(R) ==
    {[type |-> "MultiPolygon", polys |-> <<p, q>>] : p, q \in PolysOver(R)}

\* inputs without repeated points
SimpleGeoms == LinearRings({Plain, Empty}) \cup Polygons({Plain, Empty})

\* MultiPolygons, whose elements the loop never reads
MultiGeoms == MultiPolygons({Plain})

\* Polygons and LinearRings some of whose rings have repeated points
RepeatedGeoms == LinearRings({Repeated}) \cup Polygons({Plain, Repeated})

\* the inputs that reach the two faults of the constructor
FaultyGeoms == MultiGeoms \cup RepeatedGeoms

=============================================================================
