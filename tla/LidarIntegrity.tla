--------------------------- MODULE LidarIntegrity ---------------------------
(***************************************************************************)
(* The streaming analyzer of python/cartosentry/lidar_integrity.py, the    *)
(* faults of lidar_faults.py, and the qualification of                     *)
(* lidar_integrity_qualification.py, which injects each registered fault   *)
(* into clean scans and asks the analyzer for it.                          *)
(*                                                                         *)
(* Ranges, times and angles are small integers; an azimuth is its bin.  A  *)
(* value that is not finite is `Nan`.                                      *)
(***************************************************************************)
EXTENDS Integers, Sequences, FiniteSets, FiniteSetsExt, SequencesExt, Functions

CONSTANTS
    Sensor,      \* the selected LidarSensorModel
    Limits,      \* thresholds and budgets of the profile
    Families,    \* sequences of clean recordings: the groups of a partition
    Cases,       \* the registered fault cases, in the order of the gate
    Recordings   \* recordings for the public path: [frames, verified]

Nan == 1000000
NoReport == [events |-> <<>>, refused |-> "none"]

(***************************************************************************)
(* The profile.                                                            *)
(***************************************************************************)
RulePriority == <<"frame_count", "frame_cadence", "nonfinite", "invalid_ring", "range", "intensity",
                  "point_time", "scan_duration", "ring_loss", "sector_loss", "density">>

Rules == Range(RulePriority)
RecordRules == {"nonfinite", "invalid_ring", "range", "intensity", "point_time"}
CoverageRules == {"ring_loss", "sector_loss", "density"}
PriorityOf(rule) == CHOOSE i \in DOMAIN RulePriority : RulePriority[i] = rule

ValidSensor(s) ==
    /\ s.rings # {} /\ s.rings \subseteq Nat /\ s.ringPoints > 0
    /\ s.bins >= 4 /\ s.blank \in 0..(s.bins - 1) /\ s.framePoints > 0
    /\ 0 < s.range[1] /\ s.range[1] < s.range[2]
    /\ s.intensity[1] <= s.intensity[2] /\ s.time[1] < s.time[2]
    /\ s.span > 0 /\ s.scan > 0 /\ s.scanTolerance >= 0
    /\ s.cadence > 0 /\ s.cadenceTolerance >= 0

ValidLimits(l) ==
    /\ l.persistence > 0 /\ l.densityPercent \in 1..99
    /\ l.frames > 0 /\ l.points > 0 /\ l.events > 0 /\ l.raw > 0 /\ l.offsets > 0

ASSUME SensorAssumption == ValidSensor(Sensor) /\ ValidLimits(Limits)

(***************************************************************************)
(* One point.  A frame is [index, ref, start, end, points], a point        *)
(* [range, intensity, ring, bin, time, offset].                            *)
(***************************************************************************)
Within(x, interval) == interval[1] <= x /\ x <= interval[2]

IsFinitePoint(p) == Nan \notin {p.range, p.intensity, p.time}

FinitePoints(f) == { i \in DOMAIN f.points : IsFinitePoint(f.points[i]) }

\* The time of the last finite point before point i, if there is one.
Decreases(f, i) ==
    LET before == { j \in FinitePoints(f) : j < i }
    IN  before # {} /\ f.points[i].time < f.points[Max(before)].time

BrokenRules(f, i) ==
    LET p == f.points[i]
    IN  IF ~IsFinitePoint(p) THEN {"nonfinite"}
        ELSE UNION { IF Within(p.range, Sensor.range) THEN {} ELSE {"range"},
                     IF Within(p.intensity, Sensor.intensity) THEN {} ELSE {"intensity"},
                     IF p.ring \in Sensor.rings THEN {} ELSE {"invalid_ring"},
                     IF Within(p.time, Sensor.time) /\ ~Decreases(f, i) THEN {} ELSE {"point_time"} }

Breaking(f, rule) == { i \in DOMAIN f.points : rule \in BrokenRules(f, i) }

\* The first offsets of the points that break a rule, up to the limit.
OffsetsOf(f, rule) ==
    LET broken == Breaking(f, rule)
    IN  { f.points[i].offset : i \in { j \in broken : Cardinality({ k \in broken : k < j }) < Limits.offsets } }

(***************************************************************************)
(* One frame.                                                              *)
(***************************************************************************)
RawFailure(rule, f, start, end, severity, offsets) ==
    [rule |-> rule, frame |-> f.index, start |-> start, end |-> end,
     severity |-> severity, offsets |-> offsets]

Failing(rule, f, severity) == RawFailure(rule, f, f.start, f.end, severity, {})

When(condition, failure) == IF condition THEN <<failure>> ELSE <<>>

AbsDiff(a, b) == IF a < b THEN b - a ELSE a - b

\* The failure of the interval since the frame before, whose reference time is ref.
CadenceFailure(f, ref) ==
    When(f.ref <= ref \/ AbsDiff(f.ref - ref, Sensor.cadence) > Sensor.cadenceTolerance,
         RawFailure("frame_cadence", f, ref, Max({ref + 1, f.ref}), "critical", {}))

DurationFailure(f) ==
    When(AbsDiff(f.end - f.start, Sensor.scan) > Sensor.scanTolerance,
         Failing("scan_duration", f, "critical"))

RecordFailures(f) ==
    LET failure(rule) == When(Breaking(f, rule) # {},
                              RawFailure(rule, f, f.start, f.end, "critical", OffsetsOf(f, rule)))
    IN  failure("nonfinite") \o failure("invalid_ring") \o failure("range")
          \o failure("intensity") \o failure("point_time")

SpanFailure(f) ==
    LET times == { f.points[i].time : i \in FinitePoints(f) }
    IN  When(times # {} /\ Max(times) - Min(times) < Sensor.span, Failing("scan_duration", f, "critical"))

RingCount(f, ring) == Cardinality({ i \in FinitePoints(f) : f.points[i].ring = ring })

OccupiedBins(f) == { f.points[i].bin : i \in FinitePoints(f) }

\* The longest circular run of empty bins.
BlankBins(f) ==
    IF OccupiedBins(f) = {} THEN Sensor.bins
    ELSE Max({ n \in 0..Sensor.bins :
                 \E b \in 0..(Sensor.bins - 1) :
                   \A k \in 0..(n - 1) : ((b + k) % Sensor.bins) \notin OccupiedBins(f) })

Sparse(f, densest) ==
    \/ Len(f.points) < Sensor.framePoints
    \/ densest > 0 /\ 100 * Len(f.points) < Limits.densityPercent * densest

CoverageFailures(f, densest) ==
    When(\E ring \in Sensor.rings : RingCount(f, ring) < Sensor.ringPoints, Failing("ring_loss", f, "warning"))
      \o When(BlankBins(f) > Sensor.blank, Failing("sector_loss", f, "warning"))
      \o When(Sparse(f, densest), Failing("density", f, "warning"))

(***************************************************************************)
(* The analyzer.  A refused frame ends the analysis: the analyzer is a     *)
(* local of analyze_lidar_integrity, so what the frame had already changed *)
(* is lost with it.                                                        *)
(***************************************************************************)
VARIABLES
    frames,      \* the frames under analysis
    at,          \* how many of them were processed
    raw,         \* the raw failures, in order
    stats,       \* totals: [points, finite, invalid, densest, blank]
    lidarReport, \* the report, or the refusal
    group,       \* the family under qualification, 0 for the public path
    trial,       \* its case, 0 for the clean recording
    truth,       \* the injected interval
    outcomes,    \* one entry per analysed case
    cleanCritical, \* critical events of clean recordings
    lidarVerdict   \* "none", "accepted" or "rejected"

analyzer == <<frames, at, raw, stats, lidarReport>>
gate == <<group, trial, truth, outcomes, cleanCritical, lidarVerdict>>
lidarVars == <<analyzer, gate>>

EmptyStats == [points |-> 0, finite |-> 0, invalid |-> 0, densest |-> 0, blank |-> 0]

Analysing == group >= 0 /\ lidarVerdict = "none" /\ lidarReport = NoReport

NextFrame == frames[at + 1]

FrameFailures(f) ==
    (IF at = 0 THEN <<>> ELSE CadenceFailure(f, frames[at].ref))
      \o DurationFailure(f) \o RecordFailures(f) \o SpanFailure(f) \o CoverageFailures(f, stats.densest)

Unusable(f) ==
    \/ at >= Limits.frames
    \/ f.end <= f.start
    \/ at > 0 /\ f.index <= frames[at].index
    \/ Len(f.points) > Limits.points

ProcessFrame ==
    /\ Analysing /\ at < Len(frames)
    /\ ~Unusable(NextFrame)
    /\ raw' = raw \o FrameFailures(NextFrame)
    /\ Len(raw') <= Limits.raw
    /\ stats' = [points  |-> stats.points + Len(NextFrame.points),
                 finite  |-> stats.finite + Cardinality(FinitePoints(NextFrame)),
                 invalid |-> stats.invalid
                               + Cardinality({ i \in DOMAIN NextFrame.points : BrokenRules(NextFrame, i) # {} }),
                 densest |-> Max({stats.densest, Len(NextFrame.points)}),
                 blank   |-> Max({stats.blank, BlankBins(NextFrame)})]
    /\ at' = at + 1
    /\ UNCHANGED <<frames, lidarReport, gate>>

Refusal(why) == [events |-> <<>>, refused |-> why]

RefuseFrame ==
    /\ Analysing /\ at < Len(frames)
    /\ Unusable(NextFrame) \/ Len(raw \o FrameFailures(NextFrame)) > Limits.raw
    /\ lidarReport' = Refusal("frame")
    /\ UNCHANGED <<frames, at, raw, stats, gate>>

(***************************************************************************)
(* Events: the raw failures of one rule in adjacent frames.                *)
(***************************************************************************)
Precedes(a, b) == \/ PriorityOf(a.rule) < PriorityOf(b.rule)
                  \/ a.rule = b.rule /\ a.frame < b.frame

\* Mutant: adjacent frames are those processed one after the other.
Continues_Processed(last, f) ==
    /\ last.rule = f.rule
    /\ \A k \in DOMAIN frames : ~(last.frame < frames[k].index /\ frames[k].index < f.frame)

Continues(last, f) == last.rule = f.rule /\ f.frame <= last.frame + 1

Grouped(failures) ==
    FoldLeft(LAMBDA groups, f :
               IF groups # <<>> /\ Continues(Last(Last(groups)), f)
               THEN Append(Front(groups), Append(Last(groups), f))
               ELSE Append(groups, <<f>>),
             <<>>, SortSeq(failures, Precedes))

FramesOf(run) == { run[i].frame : i \in DOMAIN run }

Reported(run) == run[1].rule \notin CoverageRules \/ Cardinality(FramesOf(run)) >= Limits.persistence

\* The least offsets of a set, up to the limit.
LeastOffsets(offsets) == { o \in offsets : Cardinality({ p \in offsets : p < o }) < Limits.offsets }

EventOf(run) ==
    [rule     |-> run[1].rule,
     severity |-> IF \E i \in DOMAIN run : run[i].severity = "critical" THEN "critical" ELSE "warning",
     first    |-> Min(FramesOf(run)),
     beyond   |-> Max(FramesOf(run)) + 1,
     start    |-> Min({ run[i].start : i \in DOMAIN run }),
     end      |-> Max({ run[i].end : i \in DOMAIN run }),
     offsets  |-> LeastOffsets(UNION { run[i].offsets : i \in DOMAIN run })]

EventBefore(d, e) == \/ d.first < e.first
                     \/ d.first = e.first /\ PriorityOf(d.rule) < PriorityOf(e.rule)

EventsOf(failures) ==
    LET runs == SelectSeq(Grouped(failures), Reported)
    IN  SortSeq([i \in DOMAIN runs |-> EventOf(runs[i])], EventBefore)

Finalize ==
    /\ Analysing /\ at = Len(frames)
    /\ LET events == EventsOf(raw)
       IN  lidarReport' = CASE at = 0 -> Refusal("empty")
                            [] Len(events) > Limits.events -> Refusal("events")
                            [] OTHER -> [events |-> events, refused |-> "no"]
    /\ UNCHANGED <<frames, at, raw, stats, gate>>

(***************************************************************************)
(* Fault injection.  Positions count from 0, as in the code.               *)
(***************************************************************************)
FaultStart(n, duration, following) ==
    LET available == n - duration - following
    IN  IF available < 1 THEN -1 ELSE Min({2, available})

Kept(f, keep) == [f EXCEPT !.points = SelectSeq(@, LAMBDA p : p \in keep)]

Mapped(f, change) == [f EXCEPT !.points = [i \in DOMAIN @ |-> change[@[i]]]]

LowestRings(f, n) ==
    LET rings == { f.points[i].ring : i \in DOMAIN f.points }
    IN  { r \in rings : Cardinality({ q \in rings : q < r }) < n }

\* A point is mandatory when its ring or its bin is not among those of the mandatory points before it.
MandatoryPoints(f) ==
    FoldLeft(LAMBDA kept, i :
               IF /\ \E j \in kept : f.points[j].ring = f.points[i].ring
                  /\ \E j \in kept : f.points[j].bin = f.points[i].bin
               THEN kept ELSE kept \cup {i},
             {}, [i \in DOMAIN f.points |-> i])

\* What may be kept beside the mandatory points: any points in the order of their hash, or, when
\* the reduction is biased, those of the first bins.
Thinned(f, c) ==
    LET spare == DOMAIN f.points \ MandatoryPoints(f)
        room == Max({1, (Len(f.points) * c.amount) \div 100}) - Cardinality(MandatoryPoints(f))
    IN  { kept \in kSubset(Min({Cardinality(spare), Max({0, room})}), spare) :
            c.biased => \A i \in kept, j \in spare \ kept : f.points[i].bin <= f.points[j].bin }

AtPositions(points, positions) ==
    LET order == SelectSeq([i \in DOMAIN points |-> i], LAMBDA i : i \in positions)
    IN  [k \in DOMAIN order |-> points[order[k]]]

FaultedFrames(f, c) ==
    LET all == Range(f.points)
    IN  CASE c.op = "ring_loss" -> {Kept(f, { p \in all : p.ring \notin LowestRings(f, c.amount) })}
          [] c.op = "sector_loss" -> {Kept(f, { p \in all : p.bin >= c.amount })}
          [] c.op = "density_reduction" ->
               { [f EXCEPT !.points = AtPositions(f.points, MandatoryPoints(f) \cup kept)] : kept \in Thinned(f, c) }
          [] c.op = "nonfinite" ->
               {[f EXCEPT !.points = [i \in DOMAIN f.points |->
                    IF i <= c.amount THEN [f.points[i] EXCEPT !.range = Nan] ELSE f.points[i]]]}
          [] c.op = "range_scale" -> {Mapped(f, [p \in all |-> [p EXCEPT !.range = @ * c.amount]])}
          [] c.op = "shift" -> {Mapped(f, [p \in all |-> [p EXCEPT !.time = @ + c.amount]])}
          [] c.op = "reverse" -> {Mapped(f, [p \in all |-> [p EXCEPT !.time = -@]])}
          [] c.op = "clamp" -> {Mapped(f, [p \in all |-> [p EXCEPT !.time = 0]])}

\* Mutant: the frame after the fault is not asked for.
StartOf_NoFollowing(clean, c) == FaultStart(Len(clean), c.duration, 0)

StartOf(clean, c) == FaultStart(Len(clean), c.duration, IF c.op = "scan_loss" THEN 1 ELSE 0)

\* The recordings a fault case can make of a clean one.
Injected(clean, c) ==
    LET start == StartOf(clean, c)
        hit == (start + 1)..(start + c.duration)
    IN  IF c.op = "scan_loss"
        THEN {SubSeq(clean, 1, start) \o SubSeq(clean, start + c.duration + 1, Len(clean))}
        ELSE { [k \in DOMAIN clean |-> IF k \in hit THEN choice[k] ELSE clean[k]] :
                 choice \in { g \in [hit -> UNION { FaultedFrames(clean[k], c) : k \in hit }] :
                                \A k \in hit : g[k] \in FaultedFrames(clean[k], c) } }

(***************************************************************************)
(* Qualification.                                                          *)
(***************************************************************************)
PrimaryRule(op) ==
    CASE op = "scan_loss" -> "frame_cadence" [] op = "ring_loss" -> "ring_loss"
      [] op = "sector_loss" -> "sector_loss" [] op = "density_reduction" -> "density"
      [] op = "nonfinite" -> "nonfinite"     [] op = "range_scale" -> "range"
      [] op \in {"shift", "reverse", "clamp"} -> "point_time"

ReportedRules == { lidarReport.events[i].rule : i \in DOMAIN lidarReport.events }

CasePassed(c) == IF c.expected # "none" THEN c.expected \in ReportedRules
                                        ELSE PrimaryRule(c.op) \notin ReportedRules

BoundaryError(e) == Max({ Min({ AbsDiff(x, b) : b \in {truth.first, truth.beyond} }) : x \in {e.first, e.beyond} })

Matching(c) == { i \in DOMAIN lidarReport.events : lidarReport.events[i].rule = c.expected }

LoadFrames(f) ==
    /\ frames' = f /\ at' = 0 /\ raw' = <<>> /\ stats' = EmptyStats /\ lidarReport' = NoReport

LidarInit ==
    /\ frames = <<>> /\ at = 0 /\ raw = <<>> /\ stats = EmptyStats /\ lidarReport = NoReport
    /\ group = -1 /\ trial = 0 /\ truth = [first |-> 0, beyond |-> 0]
    /\ outcomes = <<>> /\ cleanCritical = 0 /\ lidarVerdict = "none"

\* A partition begins with the clean recording of its first family.
BeginPartition ==
    /\ group = -1
    /\ group' = 1
    /\ LoadFrames(Families[1])
    /\ UNCHANGED <<trial, truth, outcomes, cleanCritical, lidarVerdict>>

\* The public path refuses frames that are not the pinned ones.
BeginPublic ==
    /\ group = -1
    /\ group' = 0
    /\ \E r \in Recordings :
          /\ LoadFrames(r.frames)
          /\ lidarVerdict' = IF r.verified THEN "none" ELSE "error"
    /\ UNCHANGED <<trial, truth, outcomes, cleanCritical>>

Analysed == group >= 0 /\ lidarVerdict = "none" /\ lidarReport # NoReport

\* A refusal is an exception that ends the qualification.
Abort ==
    /\ Analysed /\ lidarReport.refused # "no"
    /\ lidarVerdict' = "error"
    /\ UNCHANGED <<analyzer, group, trial, truth, outcomes, cleanCritical>>

Score ==
    LET c == Cases[trial]
    IN  Append(outcomes, [family |-> group, case |-> trial, passed |-> CasePassed(c),
                          error |-> IF c.expected = "none" \/ Matching(c) = {} THEN 0
                                    ELSE Min({ BoundaryError(lidarReport.events[i]) : i \in Matching(c) })])

CriticalEvents == Cardinality({ i \in DOMAIN lidarReport.events : lidarReport.events[i].severity = "critical" })

\* The report in hand is booked and the next case, or the next family, is loaded.
Advance ==
    /\ Analysed /\ group > 0 /\ lidarReport.refused = "no"
    /\ outcomes' = IF trial = 0 THEN outcomes ELSE Score
    /\ cleanCritical' = IF trial = 0 THEN cleanCritical + CriticalEvents ELSE cleanCritical
    /\ IF trial < Len(Cases)
       THEN LET c == Cases[trial + 1]
                clean == Families[group]
                start == StartOf(clean, c)
                injected == Injected(clean, c)
            IN  IF start = -1 \/ injected = {clean}
                THEN /\ lidarVerdict' = "error"
                     /\ UNCHANGED <<analyzer, group, trial, truth>>
                ELSE /\ trial' = trial + 1
                     /\ truth' = [first  |-> clean[start + 1].index,
                                  beyond |-> clean[start + c.duration].index + 1]
                     /\ \E f \in injected : LoadFrames(f)
                     /\ UNCHANGED <<group, lidarVerdict>>
       ELSE IF group < Len(Families)
            THEN /\ group' = group + 1 /\ trial' = 0
                 /\ LoadFrames(Families[group + 1])
                 /\ UNCHANGED <<truth, lidarVerdict>>
            ELSE /\ lidarVerdict' = IF /\ \A i \in DOMAIN outcomes' : outcomes'[i].passed /\ outcomes'[i].error <= 1
                                       /\ cleanCritical' = 0
                                    THEN "accepted" ELSE "rejected"
                 /\ UNCHANGED <<analyzer, group, trial, truth>>

\* The public path accepts every report within its memory budget, which the constants keep.
AcceptPublic ==
    /\ Analysed /\ group = 0 /\ lidarReport.refused = "no"
    /\ lidarVerdict' = "accepted"
    /\ UNCHANGED <<analyzer, group, trial, truth, outcomes, cleanCritical>>

LidarDone == lidarVerdict # "none" /\ UNCHANGED lidarVars

LidarNext ==
    \/ BeginPartition \/ BeginPublic
    \/ ProcessFrame \/ RefuseFrame \/ Finalize
    \/ Abort \/ Advance \/ AcceptPublic
    \/ LidarDone

LidarSpec == LidarInit /\ [][LidarNext]_lidarVars

(***************************************************************************)
(* Properties.                                                             *)
(***************************************************************************)
Reports == lidarReport.refused = "no"

AffectedFrames(rule) == { raw[i].frame : i \in { j \in DOMAIN raw : raw[j].rule = rule } }

MaximalRuns(rule) ==
    { <<a, b>> \in AffectedFrames(rule) \X AffectedFrames(rule) :
        /\ a <= b /\ a..b \subseteq AffectedFrames(rule)
        /\ a - 1 \notin AffectedFrames(rule) /\ b + 1 \notin AffectedFrames(rule)
        /\ rule \in CoverageRules => b - a + 1 >= Limits.persistence }

\* The events of a rule are the maximal runs of adjacent frame indices it failed in: no run is split,
\* bridged over a lost frame or reported twice, and a coverage rule needs a run that persists
\* (docs/lidar_integrity.md).  The runs are what the sort and the greedy grouping of _events find.
EventsAreMaximalRuns ==
    Reports =>
        /\ \A rule \in Rules :
             { <<e.first, e.beyond - 1>> : e \in { d \in Range(lidarReport.events) : d.rule = rule } } = MaximalRuns(rule)
        /\ Len(lidarReport.events) = Cardinality(UNION { {rule} \X MaximalRuns(rule) : rule \in Rules })

\* The evidence of an event is real: its interval is not empty, each offset it shows belongs to a
\* record that breaks its rule in one of its frames, and records are invalid exactly when some
\* event of a record rule says so.
EvidenceIsReal ==
    Reports =>
        /\ \A e \in Range(lidarReport.events) :
             /\ e.start < e.end
             /\ e.rule \in RecordRules <=> e.offsets # {}
             /\ \A o \in e.offsets : \E k \in DOMAIN frames :
                  /\ frames[k].index \in e.first..(e.beyond - 1)
                  /\ \E i \in DOMAIN frames[k].points :
                       frames[k].points[i].offset = o /\ e.rule \in BrokenRules(frames[k], i)
        /\ stats.invalid > 0 <=> ReportedRules \cap RecordRules # {}

\* On clean recordings every registered fault is found by its rule within one frame of a boundary
\* it injected, controls below the threshold stay silent, and nothing critical is reported
\* (docs/lidar_integrity.md): the analyzer, the faults and the scoring agree on frames.
FaultsAreFound == lidarVerdict # "rejected"

\* A report is the maximal runs of failing frames, and every one of them is evidenced
\* (_events and process_frame of the analyzer).
ReportIsExact == EventsAreMaximalRuns /\ EvidenceIsReal
=============================================================================
