-------------------------- MODULE FrozenSegmentIndex --------------------------
(***************************************************************************)
(* The prepared-geometry contract for the segment index, as the design     *)
(* states it (build-then-freeze): the index of the base segments is built  *)
(* once, during or before the first use, and never changes after; any     *)
(* number of threads may then query it, and every query is answered, in   *)
(* one step, against all the base chains.                                  *)
(***************************************************************************)
EXTENDS Integers

CONSTANTS
    Threads,      \* threads sharing one prepared geometry
    BaseChains,   \* the monotone chains of the base segment strings
    MaxCalls      \* process() calls per thread

VARIABLES
    shared,   \* the owner has published the intersector to the threads
    busy,     \* per thread: a query is running
    seen,     \* per thread: the base chains its last query was answered against
    calls     \* per thread: queries started

vars == <<shared, busy, seen, calls>>

Init ==
    /\ shared = FALSE
    /\ busy = [t \in Threads |-> FALSE]
    /\ seen = [t \in Threads |-> {}]
    /\ calls = [t \in Threads |-> 0]

Share == shared = FALSE /\ shared' = TRUE /\ UNCHANGED <<busy, seen, calls>>

Begin(t) ==
    /\ shared /\ ~busy[t] /\ calls[t] < MaxCalls
    /\ busy' = [busy EXCEPT ![t] = TRUE]
    /\ calls' = [calls EXCEPT ![t] = @ + 1]
    /\ UNCHANGED <<shared, seen>>

Answer(t) ==
    /\ busy[t]
    /\ seen' = [seen EXCEPT ![t] = BaseChains]
    /\ busy' = [busy EXCEPT ![t] = FALSE]
    /\ UNCHANGED <<shared, calls>>

Next == Share \/ \E t \in Threads : Begin(t) \/ Answer(t)

Spec == Init /\ [][Next]_vars /\ \A t \in Threads : WF_vars(Answer(t))

=============================================================================
