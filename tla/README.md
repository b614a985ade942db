# TLA+ models of parts of GEOS

This directory holds TLA+ specifications of the GEOS sources under `src/`, together with
the TLC configurations that check them. Every module translates the code at the lines
that `PROJECT.json` ("map") gives for each definition. Library code that is not under
`src/` is modelled from the design and marked `spec_modelled`. Examples are the
geometric predicates, `Interrupt` and `Geometry::isEmpty`.

## The parts and how they interact

| Part | Source | Modules |
|---|---|---|
| Line clipping to an envelope (overlayng) | `src/src/operation/overlayng/LineLimiter.cpp` | `LineLimiter`, `MCLineLimiter` |
| Polygon validity: ring graph and segment strings | `src/src/operation/valid/PolygonTopologyAnalyzer.cpp` | `PolygonTopologyAnalyzer`, `MCPolygonTopologyAnalyzer` |
| Polygon validity: corner at a ring point | same file, lines 71-143 | `PolygonRingCorner`, `MCPolygonRingCorner` |
| Buffer: raw offset curves and their labels | `src/src/operation/buffer/OffsetCurveSetBuilder.cpp` | `OffsetCurveSetBuilder`, `MCOffsetCurveSetBuilder` |
| Maximum inscribed circle: site sampling and call protocol | `src/src/algorithm/MaximumInscribedCircle.cpp` | `MaximumInscribedCircle`, `MCMaximumInscribedCircle` |
| Interrupt, as its unit tests 1-3 drive it with threads | `src/tests/unit/util/InterruptTest.cpp` | `InterruptTest` |
| Prepared-geometry segment index, shared by threads | `src/include/geos/noding/MCIndexSegmentSetMutualIntersector.h` (declaration only) | `MutualIntersectorIndex`, `FrozenSegmentIndex`, `MCMutualIntersectorIndex` |
| What `limit()` promises its caller | `LineLimiter.cpp` | `LineLimiterContract` |

The parts do not call one another inside `src/`. Their links run through code outside
`src/`:

- **Overlay and buffer:** overlay uses `LineLimiter` to clip input lines.
- **Buffer:** `BufferBuilder` nodes the curves of `OffsetCurveSetBuilder` and builds
  polygons, trusting the curves' left/right labels.
- **Validity:** `IsValidOp` uses `PolygonTopologyAnalyzer`, and that analyzer uses the
  corner computation.
- **Cancellation:** every long operation polls `GEOS_CHECK_FOR_INTERRUPTS`.
- **Prepared predicates:** a prepared geometry keeps one `MCIndexSegmentSetMutualIntersector` whose index of base chains is filled and built on the first `process()` call, under a `std::once_flag`, by whichever thread gets there first. The index is a `TemplateSTRtree`, whose `query()` would build the tree itself if nobody had called `build()`.

Each part is therefore a module of its own.

## How the modules follow the code

**Loops and handlers**
- A loop iteration is one action.
- The calls a handler makes, trailing ones included, are folded into its action.
- Example: `LineLimiter`'s `ScanPoint` is one iteration of the `for` loop of `limit()`, together with whichever of `addPoint` or `addOutside` it calls. `Finish` is the trailing `finishSection()`.

**Object members**
- Private methods that change object members are operators from a member record `S` to a new record.
- `SetMembers` writes the record back. This is how `compute()`, `computeSites` and `addRingSites` of `MaximumInscribedCircle` compose.

**Pointers**
- Pointers are model values (`Null`) or indices.
- A null dereference or a read past the end is not given a made-up result. The model moves to `stage = "crashed"` or `"undefined"`, or reads `OutOfRange`.
- A pointer whose object has been deleted is the model value `Freed`. `MaximumInscribedCircle` sets `sites` to it when `create()` adopts and deletes the vector; a later use of it is `"crashed"` or `"dangling"`.

**Geometry**
- Coordinates are small integers, so orientation, point-on-segment and point-in-ring are exact.
- `OffsetCurveSetBuilder` abstracts each ring to its point counts, orientation and an "eroded" flag.
- The buffer distance is abstracted to its sign.

**Faulty variants**
- Each module contains "fault" operators next to the code they vary.
- These are mutated forms used to check that each property can fail.
- No specification uses them.

## Abstract specifications and refinement

- **`LineLimiterContract`:** a `limit()` call takes a sequence and returns, in one step, its sections (`Clip`, instantiated with the reference `RefSections`). The result is emptied when the next call starts, since it is a reference to a member.
  - `LineLimiter` implements it under the mapping `result <- IF pc = "done" THEN sections ELSE <<>>`, `busy <- pc = "scan"`.
  - The scan steps are stuttering steps of the contract.
- **`FrozenSegmentIndex`:** the design's build-then-freeze contract for a prepared geometry. A query is answered in one step against all base chains, and every query that starts is answered (weak fairness of `Answer`).
  - `MutualIntersectorIndex` implements it with a thread busy from `process()` to the end of its query.
  - The `call_once`, the wait, the insertions, the tree's `build()` and the query's test of the built flag are hidden.

## Runs

| Run | Expect | What it shows |
|---|---|---|
| `MCLineLimiter.cfg` | pass | Two `limit()` calls on one object, over every sequence of up to 4 points of a 5-point grid, implement `LineLimiterContract` (`LimitImplementsContract`). |
| `MCPolygonRingCorner.cfg` | pass | For every simple ring of 3-4 vertices on a 3x3 grid, both orientations, every rotation and every point on the ring, the corner is the ring neighbourhood, ordered interior-right (`CornerIsRingNeighbourhood`). |
| `MCPolygonRingCornerRepeated.cfg` | violation | Rings with a repeated point give a degenerate corner. |
| `MCPolygonTopologyAnalyzer.cfg` | pass | Rings and polygons with up to 2 holes, some empty, give the noder exactly the non-empty rings, with correct `PolygonRing` links (`SegmentStringsMatchRings`). |
| `MCPolygonTopologyAnalyzerFaulty.cfg` | violation | MultiPolygons reach the cast to Polygon (line 183), and rings with repeated points reach `newPts.get()` after `release()` (line 254). TLC reports the first of these it meets. |
| `MCOffsetCurveSetBuilder.cfg` | pass | With distances -1, 0 and 1, both orientation settings, points, lines, closed lines, polygons with holes and nested collections, and up to two `getCurves()` calls on one builder: every ring curve is on the right side, with the right locations (`RingCurveLabelsFaceInput`). |
| `MCOffsetCurveSetBuilderFlatShell.cfg` | violation | At distance 0 a shell with two distinct vertices passes the check at line 260 and is dropped by `addRingSide`, while its hole still gets a curve (`HolesOnlyWithShell`). This assumes the curve builder returns a curve for every ring (`DegenerateCurves = {FALSE}`). |
| `MCInterruptTest.cfg` | pass | Under weak fairness, tests 1, 2 and 3 always terminate (`TestTerminates`). This holds whichever worker's callback requests and whichever checks first. |
| `MCInterruptTestLateCallback.cfg` | violation | The callback of test 2 outlives the local map it reads (line 89). |
| `MCMaximumInscribedCircle.cfg` | pass | Over up to 3 public calls, while the object still owns its sites vector, the sites are those of the first largest polygon, computed once, and the box is its envelope (`SitesSampleLargestPolygon`). |
| `MCMaximumInscribedCircleFaulty.cfg` | violation | `getCircle()` has no return for inputs of more than one point (line 51). Empty inputs are dereferenced in `compute()` before the empty check (lines 81, 113, 148, 256). After `getVoronoiVertices()` the sites vector has been deleted by the sequence `create()` adopted it into (line 211), so a later `getSites()` returns a dangling pointer and a second `getVoronoiVertices()` deletes it again; TLC reaches this in two calls, behind the shorter traces it reports (`PublicCallsWellDefined`). |
| `MCMutualIntersectorIndex.cfg` | pass | Three threads, each making two `process()` calls on one shared intersector. A thread writing the index, by inserting chains or building the tree, is never concurrent with another thread's use of it (`IndexWriterAlone`). Every call returns, answered against all base chains (`ProcessImplementsFrozenIndex`). |

Every property of a passing run has a mutant in `PROJECT.json`. A mutant is a plausible
coding slip in a mapped definition, and TLC must find the property violated under that
mutant:

- a missing reset;
- an off-by-one in `ringIndexPrev`;
- a lost swap in `addRingSide`;
- sites recomputed;
- a flag cleared on first sight;
- `call_once` replaced by a flag set before the index is filled;
- a `call_once` callable that returns before `build()`, leaving the build to the first queries.

The findings are in `PROJECT.json`. So are the hazards: the places in the code that tests
hardly reach, each with the properties that cover it or the reason none does.

## Bounds

Each bound is the smallest that still contains the cases the code branches on:

- **`LineLimiter`:** sequences of up to 4 points. That is enough for an inside run, an
  outside point whose segment crosses the envelope, two outside points in a row, and a
  return into the envelope. Two calls per object (`MaxCalls`) expose stale members.
- **`PolygonRingCorner`:**
  - The rings include every rotation, so `p0` lands on index 0, where `ringIndexPrev` wraps.
  - `p0` can lie on a vertex, which makes `intersectingSegIndex` return `i + 1`.
  - `p0` can lie inside an edge.
- **`MaximumInscribedCircle`:**
  - `MaxCalls = 3` lets every call follow every other.
  - `NumSegments = {1, 2}` distinguishes `k < n` from `k <= n`.
  - The MultiPolygons include an area tie.
- **`InterruptTest`:** two workers, the number in the test.
- **`MutualIntersectorIndex`:**
  - Three threads let one thread run the build, one wait on it, and one arrive after it.
  - Two calls per thread exercise the fast path of a `once_flag` that is already done.
  - Two chains make a half-filled index observable.
- **`OffsetCurveSetBuilder`:** two `getCurves()` calls (`MaxGetCurves`) show a second call appending to the curves of the first; the flat-shell run makes one. `DegenerateCurves` says whether the external curve builder may return a curve of fewer than two points. The passing run allows it, as an over-approximation.

## Fairness

`InterruptTest` and `MutualIntersectorIndex` have liveness properties. `InterruptTest`
assumes weak fairness of the main thread and of each worker step. `MutualIntersectorIndex`
assumes weak fairness of each step a thread takes inside `process()`. Whether a thread calls
`process()` at all is left to the caller, so that step is not fair. The justification is that the operating system eventually runs a
runnable thread, and no step of the test blocks except `join()`. The model's `join`, and
the wait in `std::call_once`, is an enabling condition. The waiting thread's step is
continuously enabled once the build ends, so weak fairness is enough. No other run assumes
fairness.

## Not modelled

- **Declaration-only headers:** the relate engine headers (`NodeSections.h`, `RelateGeometry.h`) and `CoverageUnion.h`.
  - Their implementation is not under `src/`.
  - The design describes node classification only at the level of the flip rule. It says nothing of the sorting and grouping that `NodeSections` declares.
  - A model would therefore be invented, not translated.
- **`MCIndexSegmentSetMutualIntersector`, beyond the build-then-freeze protocol:** the chain overlap queries and `SegmentOverlapAction`. Their code is in the `.cpp` file, which is not under `src/`, and what they compute is floating-point segment geometry.
- **Tests and benchmark:** the C-API, WKB and robustness unit tests, and the benchmark. They are sequential calls with floating-point or byte-level results.
- **`OffsetCurveBuilder`'s curve geometry, the noder and the Voronoi builder:** these are outside `src/` and contribute only abstract outcomes.
  - The Voronoi diagram's edge coordinates are a fixed cycle of vertex names, enough to show `extractUniquePoints`. The vertices of a second `getVoronoiVertices()` call are never appended: the call uses the deleted sites vector first.
- **Single-sided buffers in `OffsetCurveSetBuilder`:** their rules live in `OffsetCurveBuilder`, outside `src/`, and the design does not describe them.
- **Users of `MCIndexSegmentSetMutualIntersector::getIndex()`:** none is under `src/`, so `process()` is the only user of the index in the model.

## What test 3 of InterruptTest shows

Each worker of test 3 registers its own thread callback and returns at once, and no
thread ever polls for interrupts. The model therefore never runs `cb1` or `cb2`. The
test checks that registration and thread exit terminate, and nothing about what
the comment at line 99 describes, a callback interrupting its own thread.

## Plan for further work

The parts under `src/` with behaviour are modelled. What remains is listed under "Not
modelled", each with the reason a faithful model cannot be written from this repository.
