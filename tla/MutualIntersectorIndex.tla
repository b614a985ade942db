------------------------ MODULE MutualIntersectorIndex ------------------------
(***************************************************************************)
(* geos::noding::MCIndexSegmentSetMutualIntersector shared by the threads *)
(* of a prepared geometry.  The owner builds it and calls setBaseSegments *)
(* (the monotone chains of the base segment strings go to indexChains),   *)
(* then publishes it.  Every process() call first runs, under the member  *)
(* once_flag indexBuilt, the insertion of indexChains into the STRtree    *)
(* index, and then queries the index with the chains of its own segments. *)
(*                                                                         *)
(* Only the declaration is under src/; process() and setBaseSegments      *)
(* follow the design's build-then-freeze contract.  std::call_once runs   *)
(* the callable on exactly one thread; the others block until it returns. *)
(* One step inserts one chain.  The index is a TemplateSTRtree: its tree  *)
(* is made by build(), which the callable calls once every chain is in;   *)
(* a query of a tree not yet built runs build() itself, a write.  The     *)
(* query's test of the built flag and its read of the tree are two steps. *)
(***************************************************************************)
EXTENDS Integers, FiniteSets

CONSTANTS
    Threads,      \* threads sharing one prepared geometry
    BaseChains,   \* the monotone chains of the base segment strings
    MaxCalls      \* process() calls per thread

VARIABLES
    indexChains,  \* member indexChains: chains made by setBaseSegments
    index,        \* member index: the chains inserted into the STRtree
    indexBuilt,   \* member once_flag: "unset", "active" (callable running), "done"
    built,        \* the STRtree's tree has been built from the inserted chains
    phase,        \* "construct" (owner only) or "shared"
    pc,           \* per thread: "idle", "once", "insert", "query", "read", "qbuild"
    seen,         \* per thread: the index its last query read
    calls         \* per thread: process() calls started

vars == <<indexChains, index, indexBuilt, built, phase, pc, seen, calls>>

Goto(t, to) == pc' = [pc EXCEPT ![t] = to]

---------------------------------------------------------------------------
\* the constructor: an empty index and an unset once_flag
Init ==
    /\ indexChains = {}
    /\ index = {}
    /\ indexBuilt = "unset"
    /\ built = FALSE
    /\ phase = "construct"
    /\ pc = [t \in Threads |-> "idle"]
    /\ seen = [t \in Threads |-> {}]
    /\ calls = [t \in Threads |-> 0]

\* setBaseSegments on the owner thread, then the intersector is published
SetBaseSegments ==
    /\ phase = "construct"
    /\ indexChains' = BaseChains
    /\ phase' = "shared"
    /\ UNCHANGED <<index, indexBuilt, built, pc, seen, calls>>

\* process(segStrings) called on thread t
Process(t) ==
    /\ phase = "shared" /\ pc[t] = "idle" /\ calls[t] < MaxCalls
    /\ Goto(t, "once")
    /\ calls' = [calls EXCEPT ![t] = @ + 1]
    /\ UNCHANGED <<indexChains, index, indexBuilt, built, phase, seen>>

\* fault used to check the properties: call_once replaced by a flag that is
\* tested and set before the index is filled
CallOnceFlagFirst(t) ==
    /\ pc[t] = "once"
    /\ IF indexBuilt = "unset"
       THEN indexBuilt' = "done" /\ Goto(t, "insert")
       ELSE UNCHANGED indexBuilt /\ Goto(t, "query")
    /\ UNCHANGED <<indexChains, index, built, phase, seen, calls>>

\* std::call_once(indexBuilt, ...): the first thread runs the callable, a
\* thread arriving while it runs blocks, later threads pass straight on
CallOnce(t) ==
    /\ pc[t] = "once"
    /\ indexBuilt # "active"
    /\ IF indexBuilt = "unset"
       THEN indexBuilt' = "active" /\ Goto(t, "insert")
       ELSE UNCHANGED indexBuilt /\ Goto(t, "query")
    /\ UNCHANGED <<indexChains, index, built, phase, seen, calls>>

\* the callable: index.insert(envelope of chain, chain), one chain a step
InsertChain(t) ==
    /\ pc[t] = "insert"
    /\ \E c \in indexChains \ index : index' = index \cup {c}
    /\ UNCHANGED <<indexChains, indexBuilt, built, phase, pc, seen, calls>>

\* the callable ends with index.build(): the tree is made from the chains
BuildIndex(t) ==
    /\ pc[t] = "insert"
    /\ indexChains \subseteq index /\ ~built
    /\ built' = TRUE
    /\ UNCHANGED <<indexChains, index, indexBuilt, phase, pc, seen, calls>>

\* fault used to check the properties: the callable returns without
\* building the tree, leaving build() to the first queries
EndCallOnceBeforeBuild(t) ==
    /\ pc[t] = "insert"
    /\ indexChains \subseteq index
    /\ indexBuilt' = "done"
    /\ Goto(t, "query")
    /\ UNCHANGED <<indexChains, index, built, phase, seen, calls>>

\* the callable returns; call_once marks the flag done and releases waiters
EndCallOnce(t) ==
    /\ pc[t] = "insert"
    /\ indexChains \subseteq index /\ built
    /\ indexBuilt' = "done"
    /\ Goto(t, "query")
    /\ UNCHANGED <<indexChains, index, built, phase, seen, calls>>

\* intersectChains: index.query() first tests whether the tree is built
Query(t) ==
    /\ pc[t] = "query"
    /\ Goto(t, IF built THEN "read" ELSE "qbuild")
    /\ UNCHANGED <<indexChains, index, indexBuilt, built, phase, seen, calls>>

\* the query (after building the tree itself, from "qbuild") looks the
\* thread's chains up in the index; process() returns
Read(t) ==
    /\ pc[t] \in {"read", "qbuild"}
    /\ built' = TRUE
    /\ seen' = [seen EXCEPT ![t] = index]
    /\ Goto(t, "idle")
    /\ UNCHANGED <<indexChains, index, indexBuilt, phase, calls>>

Next ==
    \/ SetBaseSegments
    \/ \E t \in Threads : \/ Process(t) \/ CallOnce(t) \/ InsertChain(t)
                          \/ BuildIndex(t) \/ EndCallOnce(t) \/ Query(t) \/ Read(t)

\* the OS eventually runs a runnable thread; a thread inside process() never
\* gives up; whether and when a thread calls process() is the caller's
Fairness ==
    \A t \in Threads : /\ WF_vars(CallOnce(t)) /\ WF_vars(InsertChain(t))
                       /\ WF_vars(BuildIndex(t)) /\ WF_vars(EndCallOnce(t))
                       /\ WF_vars(Query(t)) /\ WF_vars(Read(t))

Spec == Init /\ [][Next]_vars /\ Fairness

---------------------------------------------------------------------------
(* The refinement mapping: a thread is busy from the start of process()    *)
(* to the end of its query; the insertion steps and the wait are hidden.   *)
Frozen == INSTANCE FrozenSegmentIndex
              WITH shared <- phase = "shared",
                   busy <- [t \in Threads |-> pc[t] # "idle"]

\* Every process() call on the shared intersector returns, and its query is
\* answered against the index of all base chains, whichever thread runs the
\* lazy build and however the other threads' first calls overlap with it.
ProcessImplementsFrozenIndex == Frozen!Spec

\* A thread writing the index (inserting a chain, or building the tree,
\* whether in the call_once callable or lazily in index.query()) is the
\* only thread using it: the STRtree is not safe for a read or a write
\* concurrent with a write, and the once_flag guards only the callable.
Writes(t) == pc[t] \in {"insert", "qbuild"}
Uses(t) == pc[t] \in {"insert", "qbuild", "query", "read"}

IndexWriterAlone ==
    \A t, u \in Threads : t # u /\ Writes(t) => ~Uses(u)

=============================================================================
