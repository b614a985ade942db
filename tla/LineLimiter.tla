---------------------------- MODULE LineLimiter ----------------------------
(***************************************************************************)
(* geos::operation::overlayng::LineLimiter (LineLimiter.cpp).              *)
(*                                                                         *)
(* limit(pts) scans a coordinate sequence once and cuts it into sections   *)
(* that keep every segment whose envelope meets the limit envelope; the   *)
(* object is reused, so every call starts by resetting its members.        *)
(* One step of this module is one iteration of the scan loop of limit();   *)
(* the trailing finishSection() is part of the step that ends the call.    *)
(*                                                                         *)
(* Pointers are indices: lastOutside is an index into pts (0 = nullptr),   *)
(* ptList is NoList (nullptr) or the sequence of coordinates built so far. *)
(***************************************************************************)
EXTENDS Integers, Sequences, SequencesExt

CONSTANTS
    Coords,     \* the coordinates a point may have: pairs <<x, y>>
    Env,        \* the limit envelope [minx, maxx, miny, maxy]
    Inputs,     \* the coordinate sequences limit() may be called with
    MaxCalls,   \* bound on the number of limit() calls on one object
    NoList      \* model value standing for a null ptList

ASSUME MaxCalls \in Nat /\ Inputs \subseteq Seq(Coords)

VARIABLES
    pts,          \* the argument of the current limit() call
    i,            \* loop index of the scan (next point to process)
    lastOutside,  \* index of the last outside point not yet emitted, or 0
    ptList,       \* the open section, or NoList
    sections,     \* the finished sections
    pc,           \* "idle" (no call yet), "scan" (in limit), "done"
    calls         \* number of limit() calls made

vars == <<pts, i, lastOutside, ptList, sections, pc, calls>>

---------------------------------------------------------------------------
(* Envelope predicates (geom/Envelope.h, outside src/).                     *)

EnvIntersectsPt(p) ==
    /\ Env.minx <= p[1] /\ p[1] <= Env.maxx
    /\ Env.miny <= p[2] /\ p[2] <= Env.maxy

\* Envelope::intersects(a, b): the envelope of segment a-b meets Env
EnvIntersectsSeg(a, b) ==
    /\ Env.maxx >= IF a[1] < b[1] THEN a[1] ELSE b[1]
    /\ Env.minx <= IF a[1] > b[1] THEN a[1] ELSE b[1]
    /\ Env.maxy >= IF a[2] < b[2] THEN a[2] ELSE b[2]
    /\ Env.miny <= IF a[2] > b[2] THEN a[2] ELSE b[2]

\* CoordinateSequence::add(c, allowRepeated = false)
AddNoRepeat(list, c) ==
    IF list # <<>> /\ Last(list) = c THEN list ELSE Append(list, c)

---------------------------------------------------------------------------
(* The private helpers act on S = [last, list, secs], the three members.   *)

Members == [last |-> lastOutside, list |-> ptList, secs |-> sections]

isSectionOpen(S) == S.list # NoList

startSection(S) ==
    LET open == IF isSectionOpen(S) THEN S.list ELSE <<>>
    IN  [S EXCEPT !.list = IF S.last # 0 THEN AddNoRepeat(open, pts[S.last])
                                         ELSE open,
                  !.last = 0]

addPoint(S, c) ==
    LET T == startSection(S) IN [T EXCEPT !.list = AddNoRepeat(T.list, c)]

finishSection(S) ==
    IF ~isSectionOpen(S) THEN S
    ELSE LET closed == IF S.last # 0 THEN AddNoRepeat(S.list, pts[S.last])
                                     ELSE S.list
         IN  [last |-> 0, list |-> NoList, secs |-> Append(S.secs, closed)]

isLastSegmentIntersecting(S, c) ==
    IF S.last = 0 THEN isSectionOpen(S)
    ELSE EnvIntersectsSeg(pts[S.last], c)

addOutside(S, k) ==
    LET c == pts[k]
        T == IF ~isLastSegmentIntersecting(S, c) THEN finishSection(S)
             ELSE addPoint(IF S.last # 0 THEN addPoint(S, pts[S.last]) ELSE S, c)
    IN  [T EXCEPT !.last = k]

SetMembers(S) ==
    /\ lastOutside' = S.last
    /\ ptList' = S.list
    /\ sections' = S.secs

---------------------------------------------------------------------------
Init ==
    /\ pts = <<>>
    /\ i = 1
    /\ lastOutside = 0
    /\ ptList = NoList
    /\ sections = <<>>
    /\ pc = "idle"
    /\ calls = 0

(* Faults used to check the properties: a limit() call that does not      *)
(* reset lastOutside or does not clear the sections of the previous call.  *)
LimitKeepingLastOutside(p) ==
    /\ pc # "scan"
    /\ calls < MaxCalls
    /\ pts' = p
    /\ i' = 1
    /\ ptList' = NoList
    /\ sections' = <<>>
    /\ pc' = "scan"
    /\ calls' = calls + 1
    /\ UNCHANGED lastOutside

LimitKeepingSections(p) ==
    /\ pc # "scan"
    /\ calls < MaxCalls
    /\ pts' = p
    /\ i' = 1
    /\ lastOutside' = 0
    /\ ptList' = NoList
    /\ pc' = "scan"
    /\ calls' = calls + 1
    /\ UNCHANGED sections

\* limit(pts): the reset of the members at the head of the call
Limit(p) ==
    /\ pc # "scan"
    /\ calls < MaxCalls
    /\ pts' = p
    /\ i' = 1
    /\ lastOutside' = 0
    /\ ptList' = NoList
    /\ sections' = <<>>
    /\ pc' = "scan"
    /\ calls' = calls + 1

\* one iteration of the loop of limit() on pts[i]
ScanPoint ==
    /\ pc = "scan"
    /\ i <= Len(pts)
    /\ SetMembers(IF EnvIntersectsPt(pts[i]) THEN addPoint(Members, pts[i])
                                             ELSE addOutside(Members, i))
    /\ i' = i + 1
    /\ UNCHANGED <<pts, pc, calls>>

\* loop exit: finishSection() and return sections
Finish ==
    /\ pc = "scan"
    /\ i > Len(pts)
    /\ SetMembers(finishSection(Members))
    /\ pc' = "done"
    /\ UNCHANGED <<pts, i, calls>>

Next ==
    \/ \E p \in Inputs : Limit(p)
    \/ ScanPoint
    \/ Finish

Spec == Init /\ [][Next]_vars

---------------------------------------------------------------------------
(* Reference: the sections are the maximal runs of consecutive segments    *)
(* whose envelope meets Env, without consecutive repeated points; a single *)
(* point inside Env is a section of its own.                               *)

Kept(s, k) == EnvIntersectsSeg(s[k], s[k + 1])

RunStarts(s) ==
    {a \in 1..(Len(s) - 1) : Kept(s, a) /\ (a = 1 \/ ~Kept(s, a - 1))}

RunEnd(s, a) ==
    CHOOSE b \in a..(Len(s) - 1) :
        /\ \A k \in a..b : Kept(s, k)
        /\ b = Len(s) - 1 \/ ~Kept(s, b + 1)

Dedup(s) == FoldLeft(AddNoRepeat, <<>>, s)

RefSections(s) ==
    IF Len(s) = 1
    THEN IF EnvIntersectsPt(s[1]) THEN << <<s[1]>> >> ELSE <<>>
    ELSE LET starts == SetToSortSeq(RunStarts(s), LAMBDA x, y : x < y)
         IN  [j \in DOMAIN starts |->
                Dedup(SubSeq(s, starts[j], RunEnd(s, starts[j]) + 1))]

---------------------------------------------------------------------------
TypeOK ==
    /\ pts \in Seq(Coords)
    /\ i \in 1..(Len(pts) + 1)
    /\ lastOutside \in 0..Len(pts)
    /\ ptList \in Seq(Coords) \cup {NoList}
    /\ sections \in Seq(Seq(Coords))
    /\ pc \in {"idle", "scan", "done"}
    /\ calls \in 0..MaxCalls

(* The refinement mapping: the scan is hidden, the members are read as   *)
(* the result only once limit() has returned.                             *)
Contract == INSTANCE LineLimiterContract
                WITH arg <- pts,
                     result <- IF pc = "done" THEN sections ELSE <<>>,
                     busy <- pc = "scan",
                     count <- calls,
                     Clip <- RefSections

\* Every limit() call on a LineLimiter returns exactly the
\* maximal runs of segments meeting the envelope, in order, whatever the
\* previous calls on the same object left in its members; nothing of a
\* call's partial scan is ever visible as a result.
LimitImplementsContract == Contract!Spec

=============================================================================
