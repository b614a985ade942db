--------------------------- MODULE MCLineLimiter ---------------------------
(***************************************************************************)
(* LineLimiter on a 3x3 grid with the limit envelope the centre cell.      *)
(* The five coordinates give a point inside the envelope, two outside     *)
(* points whose segment crosses it ((0,0)-(2,2), (0,2)-(2,0)) and outside *)
(* segments that miss it ((0,0)-(0,2)); inputs have up to MaxLen points   *)
(* and repeats, and two calls exercise the reset at the head of limit().   *)
(***************************************************************************)
EXTENDS LineLimiter

MaxLen == 4

MCCoords == {<<1, 1>>, <<0, 0>>, <<2, 2>>, <<0, 2>>, <<2, 0>>}

MCEnv == [minx |-> 1, maxx |-> 1, miny |-> 1, maxy |-> 1]

MCInputs == BoundedSeq(MCCoords, MaxLen)

=============================================================================
