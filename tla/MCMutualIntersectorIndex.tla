--------------------- MODULE MCMutualIntersectorIndex ---------------------
(***************************************************************************)
(* Three threads share one intersector whose base segments give two        *)
(* chains; each thread makes two process() calls, so that first calls     *)
(* overlap the build and later calls find the flag done.                   *)
(***************************************************************************)
EXTENDS MutualIntersectorIndex

=============================================================================
