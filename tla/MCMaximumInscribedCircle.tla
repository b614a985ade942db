----------------------- MODULE MCMaximumInscribedCircle -----------------------
(***************************************************************************)
(* Inputs for MaximumInscribedCircle: points, a line, a square, a          *)
(* triangle, a square with a hole, and MultiPolygons whose largest element *)
(* is first, last, or tied; empty inputs and an empty hole apart.          *)
(***************************************************************************)
EXTENDS MaximumInscribedCircle

Square   == <<<<0, 0>>, <<0, 4>>, <<4, 4>>, <<4, 0>>, <<0, 0>>>>
Square2  == <<<<5, 0>>, <<5, 4>>, <<9, 4>>, <<9, 0>>, <<5, 0>>>>
Triangle == <<<<0, 0>>, <<2, 0>>, <<0, 2>>, <<0, 0>>>>
Hole     == <<<<1, 1>>, <<2, 1>>, <<2, 2>>, <<1, 1>>>>

Poly(shell, holes) == [kind |-> "Polygon", shell |-> shell, holes |-> holes]
Multi(ps) == [kind |-> "MultiPolygon", polys |-> ps]

NonEmptyInputs ==
    { [kind |-> "Point", empty |-> FALSE, coord |-> <<1, 1>>],
      [kind |-> "LineString", numPoints |-> 2],
      Poly(Square, <<>>), Poly(Triangle, <<>>), Poly(Square, <<Hole>>),
      Multi(<<Poly(Triangle, <<>>), Poly(Square, <<Hole>>)>>),
      Multi(<<Poly(Square2, <<>>), Poly(Square, <<>>)>>) }

EmptyInputs ==
    { [kind |-> "Point", empty |-> TRUE],
      Poly(<<>>, <<>>), Poly(Square, <<<<>>>>), Multi(<<>>) }

AllInputs == NonEmptyInputs \cup EmptyInputs

=============================================================================
