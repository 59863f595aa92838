# CartoSentry in TLA+

CartoSentry audits recordings of mapping vehicles: it ingests a Boreas
recording, checks trajectory and lidar, matches the trajectory to a road graph
and keeps every analysis as a resumable run of stages. This directory models
the parts of it whose correctness depends on the order of steps, checks them
with TLC on small instances, and proves the central ones with TLAPS.

Paths below are relative to the repository. "The docs" are the files of `docs/`.

## The system and what can go wrong in it

| Component | State | Operations | Hard behaviour |
|---|---|---|---|
| Run root `runstate.py` | directory, `run-inputs.json`, identity in the database, advisory lock | `create`, `open`, `_write_bytes`, `_initialize` | several processes on one root, death between any two of its writes |
| Run state engine `runstate.py` | SQLite stage and artifact rows, attempt directories, completion pointers, `run.json`, process control state | `reconcile`, `run`, `_execute_stage`, `export_run_artifact` | two stores without a common transaction; crash at every boundary; forces, new releases, failing stages, damaged or lost files |
| Recovery qualification `recovery.py`, `runstate_worker.py` | none of its own | kills a worker at each boundary and resumes | only one crash per run, one stage, no release |
| Bounded scheduler `bounded_scheduler.cpp` | six queues, totals, flags, outcomes under one mutex; one condition variable | `submit`, `worker_loop`, `complete_locked`, `close`, `wait`, `request_cancel` | producers racing for the budget, notification after unlock, cancellation at any moment, round robin |
| Scheduler qualification `scheduler_qualification.cpp`, `scheduler.py` | producers and evidence | stress, exclusion and cancellation scenarios | calls the scheduler from several threads |
| Ingestion pass `ingestion.py` | attempt directory, output directory, collected findings, source snapshots | `index_boreas_recording`, `index_recording` | the recording changes under the pass, I/O errors, several passes, findings limit |
| Boreas adapter `adapters/`, `boreas_inspector.cpp` | frame keys fixed at construction; sizes, buffers and accumulators of a reading | `source_files`, `source_chunks`, `calibrations`, `pose_samples`, `frames`; `scan_lidar_frame`, `inspect_trajectory` | each file is opened several times; records across the ends of blocks; files that change size |
| Time and contracts `time.cpp`, `contracts.py` | none | decimal parsing, checked addition and difference | 64-bit boundaries, rounding |
| Road graph import `road_graph.py` | none that outlives an import | reading an extract, choosing ways and directions, cutting into arcs, interpreting restrictions | loops and shared nodes, via nodes inside ways, order of tags, limits |
| Road matching `road_matching.cpp`, `road_matching.py`, `road_decoder.py` | batches of candidates, search queue and rankings, beam of hypotheses | candidates, route search, transition scoring, beam decoding, interval construction, validation of the path | caps and ties, turn restrictions, budgets, pruning, two computations of one result |
| Road bins `road_bins.cpp`, `road_bins.py` | accumulators | validation, splitting, traversal ordinals, evidence merging, ledger | windows that overlap, returns, bounds between bins |
| Topology hypotheses `topology_hypotheses.cpp`, `.py` | clusters | selection, complete-link clustering, node snapping, comparison | dependence on input order |
| Trajectory integrity `trajectory_integrity.py`, `trajectory.py` | raw failures, groups; segments of the reference | rules, pairing of jumps, freezes, consolidation; queries | greedy pairing and grouping, gaps |
| Lidar integrity `lidar_integrity.py` | streaming counters, failure budget | `process_frame`, `finalize` | budgets, grouping of frames, lost frames |
| Fault laboratory `faults.py`, `lidar_faults.py` | fault directories | injection, materialization, verification | faults at a boundary; two injections into one directory |
| Qualification gates `*_qualification.py`, `qualification.py` | tallies | inject, analyse, score, decide | the fault, the analyzer and the score must agree |
| Command line `cli/__init__.py` | outputs, temporaries, exit code | 28 commands | errors and kills at any step, shared outputs, power loss |
| Motion alignment `motion_alignment.py` | voxels of the frames in hand | `process_frame`, `finalize` | floating point |
| Temporal checkpoint, synthetic fixtures, observability, bindings, scripts | none that outlives a call | batch evaluation | sequential; frozen inputs |

The run engine calls stage code and owns the run directory; the stages are the
other components. The scheduler runs work units for any of them and shares
nothing with the run engine. The ingestion pass reads a recording through the
adapter and shares only the file system with other passes. These three interact
with their surroundings through files and threads, which their modules contain,
and not with each other. Where one component calls another its module contains
the other one: the decoder asks the route search for every transition between
two roads (`RoadDecoder` extends `RouteSearch`), what Python publishes is
computed from the decoder's result (`RoadPath` extends `RoadDecoder`), reading a
sequence calculates with timestamps (`BoreasInspection` extends
`TimeArithmetic`), the trajectory detector asks the reference trajectory for its
residuals (`TrajectoryIntegrity` extends `ReferenceTrajectory`), and the two
gates that inject faults contain the fault laboratory and the analyzer they
judge (`LidarIntegrity`, `TrajectoryIntegrity`). The commands share output files
and a fault directory, whatever they compute: `Commands` composes all of them.

What makes them correct:

- run engine: a row says COMPLETE only for bytes that were published, are still
  there, and were made from the present inputs; a force is never undone by a
  crash; a resumed run gives what an uninterrupted run gives; one engine at a
  time works on a run root, on the inputs the root was made with;
- scheduler: the byte budget holds, every admitted unit has exactly one end,
  nobody sleeps for ever, modalities alternate;
- ingestion: what is published describes one state of the recording, nothing is
  published after a blocking finding or twice, a rejection leaves nothing; a
  summary of a scan measures the bytes read, without a wrap of its times;
- road matching: the candidates are the best projections within the radius; a
  route is the least legal one within its budget or is refused for a true
  reason; the decoded path and its runner-up are the two best of all paths
  unless a bound dropped one; every point is in one interval; no result is
  refused by the validators of the published path;
- road graph: arcs cover each way once, in its open directions, and never run
  through a junction; no turn that a restriction is about stays open;
- road bins: exact duplicates of a movement count once (windows that merely
  overlap count each for itself, as the docs say), a bin measures what was
  driven in it, evidence is joined by time;
- topology: a hypothesis has its evidence, and a repeated corridor that stands
  apart is reported in whatever order it is given;
- lidar and trajectory integrity: an event is where the samples that failed
  are, no failure is lost, and every registered fault is found wherever it was
  injected, while those below the threshold are not;
- commands: an output is whole or not there, and the exit code tells which.

## Modules

| Module | Models |
|---|---|
| `RunState` | the run engine, its two stores, process death, and the environment |
| `RunRoot` | creation, locking and opening of a run root by several processes |
| `RunLedger` | what a run directory promises its readers; `RunState` implements it |
| `RunStateProofs` | theorems about the rows and files of `RunState`, and about what its readers, resumes and forced runs may rely on |
| `BoundedScheduler` | the scheduler, its producers, workers, owner and canceller |
| `SchedulerProofs` | theorems about the control, the bytes and the units of `BoundedScheduler` |
| `Ingestion` | ingestion passes over a changing recording |
| `TimeArithmetic` | checked 64-bit timestamps and their conversions |
| `BoreasInspection` | the reading of a sequence by the adapter and by the native inspector; it extends `TimeArithmetic` |
| `IngestionProofs` | theorems about `Ingestion` and `BoreasInspection` |
| `RoadCandidates` | the candidates of a track and the choice by emission |
| `RouteSearch` | the search for a route between two matched points |
| `RoadDecoder` | scoring of transitions, beam decoding, stationary flags and intervals; it extends `RouteSearch` |
| `RoadPath` | the path that Python makes of the decoder's result, and its validators; it extends `RoadDecoder` |
| `RouteProofs` | theorems about `RouteSearch` |
| `DecoderProofs` | theorems about `RoadDecoder` |
| `RoadGraph` | the import of an OpenStreetMap extract |
| `RoadGraphProofs` | theorems about the turn restrictions of `RoadGraph` and about `RoadCandidates` |
| `RoadBins` | bins and traversals, the native kernel and the ledger around it |
| `TopologyHypotheses` | clustering of off-map trajectories into hypotheses |
| `ReferenceTrajectory` | segments, windows and support of the reference trajectory |
| `TrajectoryIntegrity` | the trajectory detector, its faults and its gate |
| `TrajectoryProofs` | theorems about the queries of `ReferenceTrajectory` and about the failures, pairs and events of `TrajectoryIntegrity` |
| `LidarIntegrity` | the streaming lidar analyzer, its faults and its gate |
| `Commands` | every command: what it reads, how it publishes, how it ends |
| `CommandsProofs` | theorems about `Commands` and `RunRoot` |
| `MC<module>` | values of the constants of a module for TLC; `MCRoadDecoder` those of `RouteSearch`, `RoadDecoder` and `RoadPath` |
| `MCCommands` | those of `Commands` and `RunRoot`, one of the two at a time |
| `MCAnalyses` | the reading of a sequence, the import, the candidates and the four analyses, one at a time, for TLC |

### RunState

One step is one SQLite transaction, one atomic rename or one export, so a
`Crash` falls between any two of them, as the enumeration `CommitBoundary` of
`runstate.py` names them. The advisory lock leaves one process (`RunRoot`); its control
state is `pc`, with `cursor` the stage its loop is at.

- `state`, `attempt`, `cacheKey`, `counter`, `required`, `artifact` are the
  columns of the stage table and the artifact rows. `RecordComplete`,
  `MarkState` and `Invalidate` are the transactions of `RunDatabase`.
- `published` holds every attempt ever renamed into `artifacts/`; `lost` and
  `damaged` those removed or altered since. An attempt is its stage, number,
  key and output bytes (`Content`). `pointer` is `completions/<stage>.json`,
  `runJson` the exported document.
- A cache key binds the algorithm version and the bytes of the upstream
  artifacts. Sources, configuration and backend cannot change within a run
  directory and are left out of the key.
- `reconcile()` is `ReconcileBlocked`, `ReconcileStale`, `ReconcileCorrupt`,
  `ReconcileAdopt`, `AdoptRecord`, `AdoptRefused`, `ReconcileMissing` and
  `ReconcileDone`; `run()` and `_execute_stage()` are `LoopSkip`, `LoopEnd`,
  `Begin` up to `ExportReport`. The step between the pointer and the row of an
  adoption is visible.
- The environment may kill the process, let a stage fail, pass
  `--force-stage`, install another release, alter, remove or restore published
  attempts, and disturb a pointer. `MaxFaults` bounds how often.

An unhandled `ValueError` of the engine's own guards is `pc = "refused"`.

### RunRoot

A process is given inputs and stage definitions and creates the root or opens
it. Making the directory, opening `run-inputs.json` with the mode that refuses
an existing file, filling it, loading it, validating the definitions, taking the
lock and opening the database are steps of their own, and a process may die
after each: the lock goes with it, what it wrote stays. A file that was opened
and not filled is `"torn"`. The identity in the database is the pair of inputs
and topology that `_initialize` compares on every opening. What an active engine
does with its root is `RunState`, where one process is taken for granted; that
it may be is what `RunsAreKept` says.

### BoundedScheduler

One critical section of `mutex_` is one step. `condition_.wait(lock, pred)`
passes or puts its thread to sleep (`Sleep`), and `notify_all()`, which the code
calls after the unlock, is the separate step `Notify`. A producer is the thread
of its unit; `Recurring` producers submit again and stand for a stream. A unit
in `Endless` returns only after a stop request. `cancelled` stands for the stop
tokens too: `request_cancel()` sets them in the critical section that sets the
flag.

### Ingestion

One file access is one step. A *version* of a source stands for its bytes and
the size, times and inode a snapshot compares. A pass enumerates, creates its
attempt directory, hashes, reads calibrations, scans, enumerates again, decides
and renames; `todo` holds the sources its present loop still has to visit. A
scan may read a source in several versions, and two parts of different versions
may parse as anything. Several passes share the recording and the output.
Preflight (`PreflightMissing`) returns a finding for every missing source and
does not go through the collector (`AddFindings`), so that the limit of the
findings (`FindingLimit`) is another one for a pass it turned away.

### TimeArithmetic and BoreasInspection

`TimeArithmetic` has the operations of `time.cpp` as the machine executes them:
a signed operation wraps (`Wrapped`), the guards of `CheckedSum` included, and
an unsigned one is taken modulo 2^64. `MaxTime`, `Second` and `Microsecond` are
constants, so that every boundary is within a few units of every other one for
TLC while the theorem holds for any.

`BoreasInspection` reads the scans of a sequence twice over, as `program` tells:
the adapter enumerates all sizes and opens scans later, with `_records` filling a
buffer from reads of any length, the inspector takes a scan at a time, checks
its size and reads chunks; both consume records and refuse what is empty, too
long, cut off or out of range. The inspector goes on to the rows of the
trajectory and the poses. Files may be overwritten at any step (`Overwrite`),
which changes the bytes and the size of a scan but adds and removes none. A
record is decoded by the constant `Decode`, whose value is a time offset or
`Refused`.

Read from the model: only the inspector bounds the number of scans; of the rows
only the inspector's are modelled. The adapter compares the size of a scan with
the one it enumerated when it opens it, and what it has read with that size at
the end (`CheckSize`, `EndScan`); bytes that change under an equal size are
summarised as they were read.

### RoadCandidates

`generate_candidate_batches()` and `best_emission_candidate_index()`: validation
(`GiveTrack`), one step per arc and observation (`ProjectArc`), the order and
the cap of a batch (`FinishBatch`, `BatchOf`) and the choice (`SelectBest`).
Points lie on a grid of the rounding step, arcs run along its lines and headings
are quarter turns: a projection is then a point of the grid and rounding changes
nothing. Likelihoods are negated integers, with the logarithms of the densities
at their means as constants. `CandidatesAreTheBest` compares with all points of
all arcs, where the code clamps one projection per stroke and keeps the best.

### RouteSearch, RoadDecoder and RoadPath

`RouteSearch` is `route()` of `road_matching.cpp`: `query` holds its arguments,
`queue`, `best`, `visited` and `targetRejections` are its locals, and one
iteration of its loop is one step (`Stale`, `Overrun`, `Arrive` or `Expand`).
The state of the C++ search is a node and the arc it was reached by; the arc
fixes the node, so `best` is indexed by arcs. The C++ queue is a heap with a
total order, so what it returns is its least element (`Top`).

`RoadDecoder` is `decode_candidate_batches()`. A step is the scoring of one
(hypothesis, candidate) pair, in the order of the loops, or the pruning after an
observation. A pair of on-road candidates starts a search (`TransitAsk`), whose
steps run until `TransitScored` takes the result. A hypothesis is its sequence
of candidates, its score and its rank. `cut` is a history variable: it records
that the beam width, the score delta or the state budget dropped something that
an exhaustive decoder would keep. The bound per last candidate does not set it:
that this bound is harmless is what `DecodingIsExact` says.

Distances and scores are integers, multiples of the rounding step, so that
`checked_round` changes nothing; observations are one second apart on a line,
so that an elapsed time of zero and its rejection do not occur (the decoder
itself refuses observations that are not in order of time). Candidates are the
input, in `Tracks`, since `RoadCandidates` has grids where `RoadDecoder` has
distances along arcs. The
diagnostics, which count what the model shows, and the runner-up evidence per
interval, which repeats `runner`, are left out too.

`RoadPath` has no state: `decode_road_path()` is one call, so that the path is a
function of the decoder's result (`RoadPathOf`). Python computes confidence,
runner-up evidence, the partition into intervals and their usable distance once
more and refuses a result that differs (`ResultIsAccepted`, `PathIsValid`);
`PathsAreAccepted` says that it never has to. Identities and hashes are left
out, and the ambiguity gap that `validate_path` repeats as a literal is the one
the pinned profile declares.

Read from the model:

- a walk that an arc would take beyond the distance budget is dropped, and the
  rejection says `no_directed_path`; `docs/road_matching.md`, line 55, says that
  an over-budget search is rejected explicitly. `graph_search_budget` is
  reported when the first arc, the arrival or the number of states exceeds it;
- two points on one arc in the direction of travel are joined along it whatever
  their distance, without a look at the budget;
- a target that is the arc of the walk's end appears once in the path;
- the usable distance of an interval adds up differences of offsets, so that a
  drive round the block back to the same arc counts by its offsets alone.

### RoadGraph

`import_osm_road_graph()` in seven steps: the bounded read and its hash
(`ReadSource`), the parser with its limits (`ParseOsm`), the choice of ways and
directions (`SelectWays`), the cutting into arcs (`BuildArcs`,
`BuildArcsOverBudget`), one step per restriction in order of identifiers
(`BuildRestriction`) and the validators of the graph (`PublishGraph`). A tag's
value is the class the profile puts it in, a coordinate a position on a line, an
arc the tuple its identity is the hash of. `WaysAreCutAtJunctions` and
`TurnsFollowRestrictions` are stated in steps of a vehicle along a way, not in
the terms of the code.

Read from the model:

- a stretch shorter than `minimum_arc_length_m` is dropped, so that two
  junctions that close are no longer connected, without a trace
  (`road_graph.py`, line 861);
- an `only_` restriction whose way to take is the only exit generates no rule,
  is booked as `UNKNOWN_DISCONNECTED`, and the mandated turn becomes unknown
  (lines 1036 to 1061);
- a restriction without a `from` member leaves no unknown turn, as there is no
  turn to name; `docs/road_graph_import.md`, line 41, says that unknown
  restrictions are never ignored, and the evidence does list it;
- a node that one way passes twice, and no other way touches, is a junction
  only if it is an end of the way; `generated_rule_count` counts a rule twice
  if two pairs of ways give it;
- the validators of `PublishGraph` never refuse what the steps before it built.

### RoadBins

`aggregate_directed_road_bins()`: validation (`CheckRequest`), `make_pieces()`
of `road_bins.cpp` (`CutPieces`), the bins with their traversals, evidence and
findings (`FillBins`) and the documents that re-validate them
(`ComposeLedger`). Offsets and times are integers. The reference of
`LedgerIsMeasured` is `Moves`, every advance of the request cut at the bounds of
its bins, and a count of ticks.

Read from the model: a piece that two windows hold exactly counts once and keeps
the `road_match_id` of the first path; windows that only overlap in time cut
their advances differently and count twice, as the docs say ("exact duplicate").
A return within the minimum gap is the finding of `bins_returned`.

### TopologyHypotheses

`mine_repeated_topology_disagreements()`: selection of usable intervals in the
order of their identifiers (`SelectIntervals`), first-fit clustering with
complete link (`JoinCluster`, `OpenCluster`), corridor, snapping and comparison
(`CompareClusters`) and the checks of the report (`PublishReport`). A polyline
is its resampled points, on a line. First fit depends on the order: of three
intervals in a row, each like its neighbour, the identifiers decide which two
are a cluster. `HypothesesAreJust` therefore promises a report only for
corridors that stand apart, and evidence for every hypothesis.

### ReferenceTrajectory and TrajectoryIntegrity

`ReferenceTrajectory` cuts a recording into segments at its gaps and answers a
query from the window of its own segment. The robust cubic fit is left out: an
answer is known by its window, its standstill and its headings.

`TrajectoryIntegrity` is `detect_trajectory_integrity()`: structural rules
(`InspectStructure`, `RefuseInput`), continuity, freezes, jumps and residuals
(`InspectContent`), the pairing of jumps (`PairSteps`, `Paired`), the joining of freezes
(`ConsolidateFreezes`) and the events (`ConsolidateEvents`). The loops of the
three are written by what they leave: where the cursor stops over the jumps in
order (`Cursor`), where a run of freezes starts and ends, and the groups after
each item (`Groupings`). `ValidReference` and `EventIsValid` are the validators
of the reference evidence and of an event. `BeginCase` injects
a registered fault at any start the operator may choose, `ScoreCase` and
`ScoreControl` book the report, and `Decide` is the gate. The rules on fitted
derivatives, their controls and the bootstrap of confidence intervals are
abstracted: an upper bound of zero failures is what the gate asks of each.

Read from the model: a displacement longer than the pair ceiling leaves its step
out alone, and its step back is free to pair with a later jump
(`docs/trajectory_integrity.md`, line 27, has one event per excursion).

### LidarIntegrity

`LidarIntegrityAnalyzer`: one frame is one step (`ProcessFrame`, or
`RefuseFrame` for a budget or a malformed frame), `Finalize` groups the raw
failures into events. A partition runs every registered case on every family of
clean frames (`BeginPartition`, `Advance`, which scores and loads the next one);
the public path analyses one recording (`BeginPublic`, `AcceptPublic`); an
exception ends either (`Abort`). The choice of points that a density fault keeps
by hash is nondeterministic.

### Commands

Each command is a record of what it reads, what it makes and where to, whether
its verdict decides the exit code and which exceptions it catches; `Command`
lists all 28. A call goes from arguments over reading, working, the temporary
file, its flush and the rename to the exit code, one file access a step, beside
other calls. Every step may raise, be killed or lose power: `kept` is what a
power loss may leave of a file, which is the flushed bytes after the old or the
new name, since no directory is flushed.

Read from the model:

- a published report may be lost after a power loss, but is never torn; the
  files of a fault directory are not flushed, and a damaged directory blocks
  the next injection;
- an exception that no handler names (a `LookupError`) ends with 1, as a gate
  that failed does; `qualify-topology-hypotheses` raises if a family has no true
  positive, where `docs/topology_hypotheses.md`, line 18, gives status 1;
- a failing command leaves the report of an earlier one in place, so that a
  file alone does not tell the outcome; a command that prints a summary after
  it published may end with 2 although its output is there;
- only `export-portable-artifact` refuses an output that is its input.

## Runs

Three stages (the second downstream of the first, the third of both), two
versions and two contents are the smallest run with a transitive closure, a
stage with two inputs and a key that can change and change back. Every scenario
found needs at most four faults.

| Run | Question | Bounds |
|---|---|---|
| `run_crash` | do crashes, failing stages, forces, stale pointers and bytes altered under a process keep attempt numbers fresh, pointers and `run.json` right and forces honoured? | 4 faults |
| `run_upgrade` | with new releases: are completions current, does a resumed run equal an uninterrupted one, does the engine implement `RunLedger`, does every process end and a resumed run complete? | 3 faults |
| `run_damage` | is every alteration, loss and divergence between runs noticed, and is nothing final recomputed? | stage code that is not deterministic, 3 faults |
| `sched_race` | budget, totals, units, wake-ups and rotation under races and cancellation | 4 units: a stream, one that fills the budget, one too large for it, one that never ends by itself; 2 workers |
| `sched_batch` | does a deterministic batch never block, and is its order its own? | 4 units on 3 modalities, one above the budget |
| `sched_live` | do `submit()` and `wait()` return? | 3 units, 2 workers |
| `ingest` | is what is published one state of a recording that changes, never after a blocking finding and never replaced; does a pass return and leave nothing? | 4 sources, an optional one and a frame absent at first; 2 passes, 2 changes, crashes or errors; at most 3 files, findings limit 1 |
| `road_decode` | is every route the least legal one or honestly refused, are path, runner-up and intervals those of an exhaustive decoding, do the validators accept every path, is every transition one complete search? | 9 arcs with a U-turn, a block, a loop, parallel lanes and a way beyond the budget; 16 sets of turn rules; 7 tracks of 2 to 4 observations; distance budget 6, state budget 5, beam 6, 2 hypotheses per candidate |
| `commands` | are outputs whole, exit codes true and fault directories consistent, for every command beside one that writes, and a verifier beside two injections? do processes that create and open one run root leave it to one of them, as it was made? | 3 processes, 2 files, 2 faults, 1 power loss; 3 processes, 2 inputs, any number of deaths on the root |
| `analyses` | is what is read what the files held; are candidates the best projections; is the graph that of its extract; are bins, hypotheses, events and reports what the inputs say; are faults found wherever they are? | below |

`run_crash` has every boundary of a run under it; `ReadersSeeTheRows` is checked
there, where pointers and documents are disturbed. `commands` starts with each
file absent or holding an artifact, so that an output may be new, replaced, or
the input of the command beside it.

`analyses` takes one reading, one import, the candidates of one track or one
analysis at a time (they share no state) over these inputs, every one of which
is an initial choice of its module:

- lidar: 2 rings and 4 bins; clean families of 6 and 4 frames; 15 registered
  cases, above and below each threshold, over 1 to 3 frames; all recordings of 4
  frames with one of 6 damages in each, and one input for each refusal;
- trajectory: headings that waver, at a standstill too; 12 clean samples, 12 cases injected twice at any target, 8
  controls; all patterns of 6 displacements out of 3, excursions of any length
  with a second jump, all patterns of 4 or 5 time steps, one input for each
  refusal;
- bins: an arc of three bins, the last one partial, and an arc of one; all first
  windows of 3 points out of 8 places, and 8 second windows that repeat it,
  overlap it, follow it, return, or are illegal;
- topology: four intervals out of 5 traces, identifiers in two orders, shared
  traversals, flaws, 4 graphs;
- reading: a 64-bit integer that ends at 15, records of 2 bytes, blocks of 2
  records and scans of at most 2; scans that end between records, within one and
  above the bound, offsets at both ends of the integers, rows at half a
  nanosecond and out of order; one write to the files at any step;
- candidates: 7 networks with arcs that cross, run side by side or backwards,
  turn round, stand on one point or share an identifier, and every observation
  of 24 places, 5 headings and speeds and 3 uncertainties; a cap of 2;
- road graph: 5 nodes, two of them too close for an arc; 4, 4 and 2 paths for 3
  ways in every combination of directions, with 13 restrictions and a pair of
  them; all classes of tags on one way; one extract for each refusal.

Each is small, but complete in the shapes its code tells apart: a run at either
end of a recording, two runs with one clear frame between, an interval that
shares only an instant, a trace like two others that are not alike, a way that
comes back to a node, a via node inside a way.

The network of `road_decode` is small, but it has every shape the search tells
apart: ties of distance, of turns and of arc numbers, a shorter walk with more
turns, a target entered by two arcs, a rule that is both forbidden and unknown,
a loop, and a state budget that some searches exceed. Its tracks have ties of
score that only ranks resolve, beams in which each bound drops something and
beams in which none does, standing and drifting runs, off-map points and a dead
end. `SearchIsExact` compares with all legal walks (`Walks`), `DecodingIsExact`
with all sequences of candidates (`Complete`).

Four properties are conjunctions of named parts: `SearchIsExact` of
`SearchIsSound` and `AnswersAreExact`; `DecodingIsExact` of `BestIsOptimal`,
`RunnerUpIsSecond`, `CoverageIsHonest` and `PathsAreAccepted`; `EventsLocalise` of
`IntervalsAgree`, `EventsAreSeparate` and `EventsAreValid`; and in `MCAnalyses`
`QualificationsFindFaults`, of the promises of the two gates.

The remaining runs each show one disagreement between the code and a statement
of the repository; TLC finds the property violated:

| Run | The statement | The code |
|---|---|---|
| `run_forced_then_upgraded` | a force records a minimum attempt number so a crash cannot re-adopt an older result (`docs/run_recovery.md`, line 38) | a forced run dies with the minimum of a dependent stage still to be met; a later invalidation for another reason resets it to 0 (`runstate.py`, line 761) |
| `bins_returned` | a traversal must advance along its arc (`road_bins.py`, line 286), and pieces within the gap are one traversal (`docs/road_bins.md`, line 41) | the exit is that of the piece that ends last (`road_bins.cpp`, line 433), so a vehicle that returns within the gap gives a traversal the validator refuses, and with it the ledger |

In `run_forced_then_upgraded` a workflow completes, a release of the first stage
is replaced, a forced run executes that stage anew and dies before the second
one, and the release is put back. `reconcile()` finds the first stage stale and
invalidates its closure without a force, which drops the minimum of the second
stage; its attempt from before the force, whose key is current again, is
adopted. `PendingForceHonoured` only speaks of a force that no attempt has met
yet: a force that was carried out and whose result a later release made stale
is not counted. With the minimum kept in `Invalidate` TLC finds no violation
within the same bounds.

`run_crash` checks `ForceHonoured` without releases, under which it need not
hold: once the forced attempt is there, a release that is changed and put back
makes an older attempt current again, and the docs do not say otherwise.
`run_damage` has stage code that is not
deterministic, which `run_upgrade` excludes, since without deterministic stage
code a resumed run need not equal an uninterrupted one.

The model shows more places where the code and its docs differ, for which no
run is kept:

- when the attempt of a COMPLETE row is lost and an older one under the same key
  is left, `reconcile()` moves the row to it, instead of making it FAILED_FINAL
  (`runstate.py`, line 1098; `docs/run_recovery.md`, line 34);
- `submit()` admits producers in no order, so that small units may keep a large
  one out for ever even if the mutex is strongly fair
  (`bounded_scheduler.cpp`, line 77; `docs/scheduler.md`, line 11);
- preflight reports every missing source past `_FindingCollector`, so that a pass
  may return more findings than `maximum_structural_findings` and no
  `FINDING_LIMIT_EXCEEDED` (`ingestion.py`, lines 1005 to 1022;
  `docs/ingestion.md`, line 68);
- a failing flush of the parent directory after the rename is reported as a
  rejection although the output is there (`ingestion.py`, lines 902 and 940;
  `docs/ingestion.md`, line 17);
- `reconcile()` skips a stage whose upstream is incomplete, so that an
  interrupted row behind a final failure stays RUNNING in a returned report
  (`runstate.py`, line 1057; `docs/run_recovery.md`, line 35);
- every attempt under a stage's key is verified, so that damage to a superseded
  one makes a valid completion FAILED_FINAL (`runstate.py`, line 987);
- when the attempt of a FAILED_FINAL row is put back, `record_complete` raises
  in `reconcile()` before `--force-stage` is looked at (`runstate.py`, line 659);
- the second look of an ingestion pass uses the frame keys of the adapter's
  constructor and does not see a frame added meanwhile (`adapters/boreas_v1.py`,
  line 316; `docs/ingestion.md`, line 38).

Deadlock is checked everywhere but in `ingest`, `commands`, `analyses` and
`bins_returned`, whose passes, calls and analyses end. In `BoundedScheduler` the
program ends in `Finished`, in `RoadDecoder` in `Returned`; any other state
without a successor would be an error.

### Fairness

- `RunState!FairSpec`: a process that runs goes on running, and a run that is
  down is resumed. The second half is the operator's; the docs promise
  completion only for runs that are resumed. Faults are bounded, so they stop.
- `BoundedScheduler!FairSpec`: every thread that can take a step takes one.
  Nobody has to call `submit`, `wait` or `request_cancel`; a stream's producer
  does submit again.
- `Ingestion!FairSpec`: a pass goes on.
- `RoadDecoder` states no liveness: the search ends because walks grow by at
  least one unit and are bounded, and the decoder's loops are finite. The
  modules of `analyses` state none either: each is a finite sequence of loops.
  Nor does `Commands`, whose calls may be killed at any step.

## Proofs

`RunStateProofs` proves, for every stage graph, every set of versions and
contents, all stage code and any number of faults:

- `TypeCorrect`: `Spec => []TypeOK`;
- `CompletionsAreBacked`: a COMPLETE row names a published attempt;
- `AttemptsAreFresh`: attempt numbers are unique without their uuid;
- `CompletionsAreCurrent`: a visited COMPLETE stage stands over COMPLETE
  upstream stages under its present key;
- `RowsFollowLifecycle`: the action property `StageLifecycle`;
- `PublicationStaysSound`: the second and third together, the property
  `PublicationIsSound` of the runs.

The assumptions are those of `RunState` (`StageAssumption`, `DataAssumption`,
`FaultAssumption`), which TLC evaluates in every run.

None of the invariants is inductive alone. `IInv` adds `WorkInv`, which ties the
control state to the row and the attempt in hand: while a stage is executed its
row is RUNNING under the expected key with the number just counted
(`RowInHand`), nothing is published under that number before the rename
(`NumberIsNew`), the attempt written is the one the row names
(`AttemptInHand`), and what is about to be recorded is published
(`AttemptIsPublished`). Each conjunct has a lemma that every step preserves it
(`TypeStep`, `CommitStep`, `FreshStep`, `WorkStep`, `InputsStep`). `InputsStep`
is the long one: an invalidation must cover every stage whose key it makes
stale, which is where `ClosureIsClosed` is used.

The second half of the module goes on from there:

- `ReadersAreTold`: `Spec => []ReadersSeeTheRows`, under every kind of fault: at
  all times a pointer and a COMPLETE line of `run.json` name attempts that were
  published and a `run.json` that says COMPLETE shows one history; after a report
  the pointers are those of the rows;
- `CompletionsStayStanding`: `Spec => []CompletionsStand`, if no bytes are altered
  (`"rot" \notin Faults`): an attempt altered under a running process after
  that process verified it is found by the next one only;
- `LedgerIsImplemented`: `Spec => ImplementsLedger`, step by step, if attempts
  are not removed (`"lose" \notin Faults`) or the stages are `Deterministic`:
  what is computed again in place of a lost attempt must be the value the ledger
  holds;
- `ForceStaysHonoured`: `Spec => []ForceHonoured`, if nothing is removed and no
  release changes (`"lose"` and `"upgrade"` are not in `Faults`): a release
  breaks it, as described under "Runs", and so does the loss of the attempt that
  met the force;
- `ResumesAreSemanticallyEqual`: `Spec => []ResumeIsSemanticallyEqual`, if the
  stages are `Deterministic`.

Each hypothesis is a condition on the constant `Faults` or `Deterministic`
that the runs instantiate. The invariants are `ReaderInv` (what a pointer or an
exported line names was published), `EvidenceInv` (what a row was completed
with), `GenuineInv` with `AdoptionAgrees` (a published attempt holds the output
of its stage over its key, so that adopting it changes no value) and
`ForceInv` (a forced stage is not COMPLETE before a number above the one at
which it was forced).

`SchedulerProofs` proves, for any units, any finite set of workers, any budget
and all sizes and modalities:

- `NoSleeperIsForgotten`: `Spec => []NoLostWakeup`;
- `RotationIsFair`: `Spec => RoundRobinFair`;
- `BatchNeverBlocks`: `Spec => []DeterministicNeverBlocks`;
- `CancellationIsHonoured`: `Spec => CancelIsHonoured`.

`ActiveCount` gives `active_units` its meaning, so that taking a unit cannot
make the predicate of `wait()` true: it is the only step that changes a
predicate and does not notify. `RotationOrder` says that the rotation reaches a
waiting queue before every queue that overtook it, measured by `Distance`;
`QueuesByModality` connects the queue served to the unit's modality.
`CancelDrains` and `NoBatchWaits` are the invariants behind the other two.

The same module proves, for any finite set of units (an unbounded
stream is one recurring unit, submitted any number of times):

- `BudgetIsKept`: `Spec => []WithinBudget`;
- `UnitsAreInOnePlace`: `Spec => []OnePlace`;
- `TotalsAreCounted`: `Spec => []Accounting`;
- `WaitingIsOver`: `Spec => []WaitIsFinal`;
- `TypesAreKept`: `Spec => []TypeOK`, so no unsigned counter wraps;
- `WorkStaysConserved`: the first three together, as the runs check them.

None is inductive alone, and they need each other: a completion keeps the
totals only if the unit is active (`ActiveCount`), taking one only if no other
queue or worker holds it (`Placement`), an admission only if its unit is in no
place yet, and the units held stay within the budget only because `resident`
counts them (`Totals`). `WellFormed` says that a malformed unit is refused
before it can wait, which keeps units in the queue of their modality. The
invariant is `BInv`, with one lemma per conjunct (`WellFormedStep`,
`DistinctStep`, `PlacementStep`, `TotalsStep`) over lemmas that say what an
admission, a take and a completion do to the sets of units. `Waited` adds that
past its wait nothing can be admitted and nothing is left to end.

The totals are sums over sets. The first section of the module proves what they
need: a sum gains or loses the bytes of one unit, and a union of disjoint sets
has the sum of its parts. Induction over finite sets is stated there with a set
of subsets in place of a predicate (`SubsetInduction`).

The last theorem is `BatchOrderIsFixed`: `Spec => BatchIsDeterministic`, if no
unit is recurring (`Recurring = {}`): a batch submits each unit once, and one
that came back after the input was closed would be counted twice. The invariant
is `BatchRounds`: nothing is taken before the input is closed, and from then on
the queues that still wait have given the same number of units, one more if the
rotation has passed them in this round (`Round`). `ServedIsSelected` ties what
is served to the queue that `select_locked` chose.

`RouteProofs` proves, for every graph with arcs of positive length, every set of
rules and all budgets:

- `StatesAreCountedOnce`: `SearchSpec => []StatesCountOnce`;
- `BudgetOfArcsSuffices`: no search expands more states than there are arcs;
- `RoutesAreLegal`: `SearchSpec => []RouteIsLegal`;
- `SearchesAreSound`: the first and third together.

The assumptions are `GraphAssumption` and `NothingAssumption`. The invariant
`Inv` adds that every walk of the queue is legal and starts at the previous
point, and that none comes before the walk its state is ranked by: walks leave
the queue in order, since an arc makes a walk longer. That is why a state is
never ranked twice, and why `visited` and `best` agree.

`SearchesAreExact`, `SearchSpec => []SearchIsExact`, which `road_decode` checks,
is `SearchesAreSound` and one theorem more.

That one is `AnswersHold`: `SearchSpec => []AnswersAreExact`, that the
search is the exhaustive one. `Walks()` is a recursive function; `LayersExist`
shows that it has the values its definition says, `WalksHold` that these are the
first walk and the extensions of walks within the budget, and nothing else. The
invariant `Explores` says that the search has walks only, that what continues an
expanded one is in the queue or was outranked (`Reached`), that no expanded one
may enter the target, and which rules the rejections stem from.
`EveryWalkIsCovered` concludes, by induction over their lengths, that no walk is
better than all of the queue and of the ranking: an extension keeps the order of
two walks (`ExtensionsOrder`), so that dropping the worse of two walks with one
end loses nothing. Hence the walk that enters the target first is the first of
all (`ArriveAnswers`), and an empty queue has seen every walk
(`ExhaustAnswers`). The order itself is shown strict and total
(`WalksAreOrdered`), and induction over numbers is stated with a set
(`NumberInduction`).

`DecoderProofs` proves, for every graph, all tracks and all parameters:

- `SearchIsImplemented`: `Spec => ImplementsSearch`, that the decoder calls the
  search as `SearchSpec` lets it be called;
- `TransitionsAreLegal`, `TransitionsAreExact` and, of both,
  `TransitionsSearchExactly`: `SearchIsSound`, `AnswersAreExact` and
  `SearchIsExact` for each of its calls, from the theorems above;
- `BeamStaysSound`: `Spec => []BeamIsSound`.

The assumptions are `TrackAssumption` and `DecoderAssumption`. `DecoderInv` adds
to the invariant of the search what is known of the result in hand, of the
transitions scored so far, each pair once, and of the beam (`BeamFits`) and the
hypotheses expanded from it (`ExpandedInv`). Ranks compare the previous rank and
the last candidate only; that they order whole sequences of identities
(`RanksTell`) holds because hypotheses with one previous path do not differ
otherwise (`Kin`, `LastDecides`), and because a pruned beam is ranked densely by
a strict total order (`Orders`, `RanksCover`).

`IngestionProofs` proves, for any passes, any recording and any changes to it:

- `PassesAreTyped`: `Spec => []TypeOK`;
- `PublicationsAreSound`: `Spec => []PublishedIsSound`;
- `OutputsStay`: an output directory that is there is never changed.

`TypeOK` bounds the findings: by the collector's limit for a pass that preflight
let through, and by one for each required source and one for the frames if it
did not. `Limits` is inductive since only a pass that was let through has fixed
its frame keys.

The invariant is `PassesInv`. Versions of a file only grow, what was parsed lies
between the two enumerations, so that equal enumerations leave one version for
everything between them. The findings are cut at the limit; `BlockingIsKept`
shows that a blocking one survives the cut, from a closed form of
`AddFindings`.

The same module proves `InspectionsAreExact`: `InspectionSpec =>
[]InspectionIsExact`, for any sequences on the disk, sizes of records, blocks
and frames, any decoding of a record and any number of writes to the files. The
assumptions are `TimeAssumption`, with any greatest integer, and
`ReadingAssumption`. That a guard which wraps itself still refuses exactly the
sums out of range, and that the unsigned magnitude of a decimal loses nothing it
does not refuse, is settled first ("its arithmetic and its bytes"). The
invariant `InspectionInv` says that

- the bytes read of the scan at hand are the decoded records followed by the
  block that waits, and the summary measures the records (`ScanInv`), although
  reads end anywhere and the file may change between them;
- every summary measures the bytes it was made of, and scans are at hand,
  awaiting or summarised (`ScannedInv`);
- the rows read so far are in order and counted (`RowsInv`);
- in files that nobody wrote to, a refusal has a cause (`Blame`). For the
  adapter this needs that the sizes it enumerated are those of the files and
  that it opens no scan before it has all of them (`SizesInv`).

`CommandsProofs` proves, for any processes, files, faults and sessions and any
number of power losses:

- `OutputsStayWhole`: `CommandsSpec => []OutputsAreWhole`;
- `ExitCodesAreHonest`: `CommandsSpec => []ExitCodesTellTheOutcome`;
- `FaultsStayTogether`: `CommandsSpec => []VerifiersSeeOneFault`.

The assumption is `CommandsAssumption`. The invariant `Inv` adds what the code
relies on at each place of a call: that an answer was judged before it is
staged, that only a published or printed one is left with exit code 0
(`InOrder`, `ExitTells`), and that what is renamed over an output was written
and then flushed (`Flushed`), without which a power loss could leave an empty
file behind the rename. A derivative that a verifier has read is the one that
is there (`ReadInv`), since a fault directory is moved into place whole and
never replaced (`FolderInv`). `Becoming` says what a step of one call changes, so
that each step needs a proof about that call only.

Of `RunRoot` the module proves, for any processes, inputs and definitions:

- `EnginesAreAlone`: `RootSpec => []OneEngineOnItsRun`;
- `RunsKeepTheirIdentity`: `RootSpec => RunsAreKept`, the property of the run,
  of which the former is a part.

The assumption is `RootAssumption`. The invariant `RootInv` ties each step of a
process to the files: whoever writes the inputs is the only one who does, since
one process made the directory, and until they are whole nobody has loaded any;
whoever has loaded inputs holds those of the file; who is past the lock is its
holder. Hence a database belongs to whole inputs although neither `open` nor
`create` takes the lock before it touches them.

`RoadGraphProofs` proves `RestrictionsAreFollowed`: `RoadGraphSpec =>
[]TurnsFollowRestrictions`, for any extracts, any limits and all positions. The
assumptions are `RoadGraphAssumption` and `MembersAssumption`, that the members
of a relation are identifiers. The invariant `GraphInv` says that the rules are
those of the restrictions interpreted so far (`Generated`), each with its
evidence, and that a relation identifier names one restriction, which is why the
evidence of a restriction is its own. What the interpretation reads does not
change while it runs (`ReadsAreFixed`), so that at the end the rules are those
of all restrictions together.

It also proves `CandidatesBest`: `CandidatesSpec => []CandidatesAreTheBest`, for
any networks and observations on the grid, from `CandidateAssumption` and
`GridAssumption`, that arcs and observations are of integers. `CandidatesInv`
says that the candidates at hand are those of the arcs projected so far
(`NearIsPart`), that a finished batch is the best of all arcs (`IsBatch`), which
is what every winner was chosen from, and that the network then has no arc
without a direction. Four facts about the operators carry it: clamping each
coordinate gives a nearest point of a stroke (`FootIsNearest`), and every point
of an arc lies on a stroke that has a direction (`StrokesCover`), so the nearest
stroke has a nearest point of the arc; lengths add up to a positive whole
(`LengthsGrow`), so a rounded share of the arc's length is an offset on it; and
identifiers that differ make the preference a strict total order
(`CandidatesAreOrdered`), by which ranking is a bijection (`RankingIs`). That
the winner beats also the arcs which the cap cut off follows from the order.

`TrajectoryProofs` proves `QueriesAreAnsweredInSegment`: `TrajectorySpec =>
[]QueriesStayInSegment`, for any recordings, registered controls and cases, any
valid gate and limits. The assumptions are `TrajectoryGateAssumption` and
`RecordingsAssumption`. The invariant `RecordingInv` is that every recording
under inspection, the injected ones too, has samples with integers for its
times, positions and headings; the rest is about any continuous recording:

- segments are the maximal runs without a gap (`SegmentIs`), disjoint
  (`SegmentsAreDisjoint`), and as many as there are samples that no pair
  without a gap starts at (`SegmentsAreCounted`, by a bijection that takes a
  segment to its last sample);
- the window moved back from the end of a segment stays within it, is as wide
  as it can be and keeps the time inside (`WindowHolds`);
- slow neighbours have one run and so one heading (`OneRun`, `OneHeading`);
- the midpoint of a pair is covered exactly if there is no gap
  (`JoinedIsCovered`, `GapIsNotCovered`), which with the count above is the
  coverage gate (`CoveragePasses`).

The gate's hypothesis, every segment fittable and with an eligible sample, is
the one of the property: a recording without it is to be refused.

It proves two more theorems about the detector, for the same constants:

- `EventsAreLocalised`: `TrajectorySpec => []EventsLocalise`;
- `JumpsArePairedOnce`: `TrajectorySpec => PairingIsComplete`, a property of the
  step that pairs.

The loops of the detector are recursive functions over items in order, and
`NumberInduction`, with a set in place of a predicate, carries what each has
reached (`Cursor`, `Groupings`). The items in order are an enumeration of them,
since `Before` is a strict total order of failures of one rule
(`InOrder` and the lemmas of "Items in order"). The invariant `DetectorInv` says
of what is known at each place of the detector (`Sound`) that

- failures have their types, a rule and a first sample tell them apart
  (`Keyed`), each starts before it ends (`Proper`), and only structural ones are
  left in a recording that is structurally invalid;
- in a valid one the times of each failure and event are those of its samples
  (`Localised`), which must outlive the pairing, that takes the end of one jump
  and of the next, and the joining of freezes;
- jumps are single steps until they are paired, so that neighbours in order are
  neighbours in the recording;
- a report loses no failure and its events are further apart than the adjacency
  (`Complete`): groups are separated by the latest end of the group before, not
  by its last item.

`EventIsValid` holds of each event in every recording, an invalid one included:
its validator refuses none of them.

Only model-checked:

- liveness (`CallsReturn`, `RunsEndComplete`, that passes end in
  `PassesSettle`), which the provers here do not treat;
- `DecodingIsExact`, which compares the beam with all sequences of candidates:
  its scores and distances are sums over sequences;
- `QualificationsFindFaults`: that an injected fault is found depends on the
  values of the registered cases and thresholds, which the runs enumerate;
- `ReportIsExact`, `LedgerIsMeasured`, `HypothesesAreJust` and
  `WaysAreCutAtJunctions`: what they compare is built by folds, of which the
  provers know no more than that they are defined: a fact about one needs an
  induction over what it has folded. The loops of the trajectory detector show
  the way, as recursive functions.

## Not modelled

- Dry runs (of which only the exit code of the command is, in `ResumeRunDry`) and
  the semantic report hash of the run engine; metrics per
  stage and peaks of the scheduler; the bytes of the frame index.
- Durability, but for the outputs of commands: elsewhere a crash is the death of
  a process, not of the machine.
- Road matching: geometry off the grid, rounding of scores, identities, hashes
  and diagnostics of its documents. The rows of the adapter, of which only the
  inspector's are modelled. Road graph: coordinates, hashes, the spatial index
  and the normalization of observations. Road bins: speeds, headings and point
  support, which are added up and decide nothing. Topology: resampling.
- Numerical code (geometry, the robust fit and its derivatives, alignment,
  synthetic data, observability): its correctness is about real numbers, not
  about steps. Integers are unbounded but in `TimeArithmetic`; clock mappings and the
  text of a decimal are left out there.
- Of the gates other than those of lidar and trajectory integrity only the
  verdict and the exit code; their bodies compare statistics of the components
  above with thresholds, on frozen inputs.
- The semantic diff of a fault manifest, and the faults on point times, rings
  and calibration of synthetic recordings, which transform one document.
- Bindings and scripts: conversions and development tools.

## Plan

1. The loops of `RoadGraph`, `LidarIntegrity` and `TopologyHypotheses` as
   recursive functions, and `WaysAreCutAtJunctions`, `ReportIsExact` and
   `HypothesesAreJust` as theorems by induction over the ways, frames and
   intervals done.
2. That a bound per last candidate of two keeps the best path and its runner-up,
   the part of `DecodingIsExact` that needs no sum over all sequences.
3. Motion alignment, if its decisions are separated from its statistics.
