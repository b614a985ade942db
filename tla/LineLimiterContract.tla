------------------------- MODULE LineLimiterContract -------------------------
(***************************************************************************)
(* What LineLimiter::limit() promises its caller, with the scan hidden: a  *)
(* call takes a coordinate sequence and, in one step, returns the sections *)
(* Clip gives for it.  The result is a reference to a member of the        *)
(* object, so it is only valid until the next call starts, which empties  *)
(* it.                                                                      *)
(***************************************************************************)
EXTENDS Integers, Sequences

CONSTANTS
    Inputs,     \* the coordinate sequences limit() may be called with
    MaxCalls,   \* bound on the number of calls
    Clip(_)     \* the sections of a coordinate sequence

VARIABLES
    arg,      \* the argument of the last call
    result,   \* the sections the last call returned, <<>> while it runs
    busy,     \* a call is running
    count     \* the number of calls made

vars == <<arg, result, busy, count>>

Init == arg = <<>> /\ result = <<>> /\ busy = FALSE /\ count = 0

Call ==
    /\ ~busy /\ count < MaxCalls
    /\ arg' \in Inputs /\ result' = <<>> /\ busy' = TRUE /\ count' = count + 1

Return ==
    /\ busy
    /\ result' = Clip(arg) /\ busy' = FALSE
    /\ UNCHANGED <<arg, count>>

Next == Call \/ Return

Spec == Init /\ [][Next]_vars

=============================================================================
