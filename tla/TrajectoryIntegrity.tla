------------------------- MODULE TrajectoryIntegrity -------------------------
(***************************************************************************)
(* detect_trajectory_integrity of python/cartosentry/trajectory_integrity.py, *)
(* the trajectory faults of faults.py, and the qualification of            *)
(* trajectory_integrity_qualification.py that injects the registered faults *)
(* into a clean recording and asks the detector for them.                  *)
(*                                                                         *)
(* Sample indices start at 1.  A failure is an item                        *)
(* [rule, start, end, from, to, severity, vector] with a half-open time    *)
(* interval and a half-open interval of samples.                           *)
(***************************************************************************)
EXTENDS ReferenceTrajectory, Functions

CONSTANTS
    TrajectoryLimits,     \* thresholds, event consolidation and budgets of the profile
    CleanTrajectory,      \* the straight recording the faults are injected into
    TrajectoryCases,      \* the registered cases: [op, amount, count, referenced, rule, expected]
    Repeats,              \* distinct injections of a case
    TrajectoryControls,   \* [kind, samples, rule, least, most]: bounds on the events with a rule
    TrajectoryRecordings  \* inputs of the public call: [samples, reference]

NoReference == <<>>
NoVector == <<>>

(***************************************************************************)
(* Rules.  "derivative" stands for the four rules on fitted derivatives.   *)
(***************************************************************************)
TrajectoryRules ==
    <<"timestamp_regression", "duplicate_timestamp", "timestamp_gap", "coordinate_continuity",
      "position_freeze", "position_jump", "reference_position_residual", "velocity_residual", "derivative">>

StructuralRules == { TrajectoryRules[i] : i \in 1..4 }

RuleRank(rule) == CHOOSE i \in DOMAIN TrajectoryRules : TrajectoryRules[i] = rule

Severities == <<"INFO", "WARNING", "CRITICAL", "BLOCKING_ANALYSIS">>

SeverityRank(severity) == CHOOSE i \in DOMAIN Severities : Severities[i] = severity

ValidTrajectoryLimits ==
    /\ TrajectoryLimits.adjacency \in Nat
    /\ \A key \in {"pair", "clear", "samples", "raw", "events"} : TrajectoryLimits[key] \in Nat \ {0}
    /\ \A key \in {"gap", "jump", "reference", "velocity", "held", "moving", "freeze"} :
         TrajectoryLimits[key] \in Nat
ASSUME TrajectoryLimitsAssumption == ValidTrajectoryLimits

RegisteredControl == [kind : STRING, samples : Seq(ReferenceSample), rule : STRING, least : Nat, most : Nat]

RegisteredCase ==
    [op : {"timestamp_discontinuity", "position_jump", "position_freeze", "position_bias", "position_drift"},
     amount : Int, count : Nat, referenced : BOOLEAN, rule : STRING, expected : BOOLEAN]

ASSUME RecordingsAssumption ==
    /\ CleanTrajectory \in Seq(ReferenceSample)
    /\ TrajectoryControls \in Seq(RegisteredControl)
    /\ TrajectoryCases \in Seq(RegisteredCase)
    /\ \A recording \in TrajectoryRecordings : recording.samples \in Seq(ReferenceSample)

VARIABLES
    samples,     \* the recording under inspection
    reference,   \* its reference positions [t, x, domain], or NoReference
    phase,       \* what the call does next
    items,       \* the failures found so far
    structural,  \* FALSE once the structure forbids content rules
    tevents,     \* the events of the report, in order
    job,         \* the control or case under qualification, 0 for the public call
    injectedSpan,       \* the injected interval <<start, end>>
    seen,        \* injections made of this case
    tally,       \* counters of the partition
    trajectoryVerdict

detector == <<samples, reference, phase, items, structural, tevents>>
partition == <<job, injectedSpan, seen, tally, trajectoryVerdict>>
trajectoryVars == <<detector, partition>>

(***************************************************************************)
(* Structure.                                                              *)
(***************************************************************************)
Item(rule, start, end, from, to, severity) ==
    [rule |-> rule, start |-> start, end |-> end, from |-> from, to |-> to,
     severity |-> severity, vector |-> NoVector]

Steps(s) == 1..(Len(s) - 1)

Elapsed(s, i) == s[i + 1].t - s[i].t

\* The median of the positive steps.
Stride(s) ==
    LET forward == { i \in Steps(s) : Elapsed(s, i) > 0 }
        upTo(i) == Cardinality({ j \in forward : Elapsed(s, j) <= Elapsed(s, i) })
        ranked(k) == Min({ Elapsed(s, i) : i \in { j \in forward : upTo(j) >= k } })
        n == Cardinality(forward)
    IN  IF n = 0 THEN 1 ELSE (ranked((n + 1) \div 2) + ranked(n \div 2 + 1)) \div 2

IntervalEnd(s, i) ==
    IF i < Len(s) /\ s[i + 1].t > s[i].t THEN s[i + 1].t ELSE s[i].t + Max({1, Stride(s)})

TimeFailures(s) ==
    { Item("duplicate_timestamp", s[i].t, s[i].t + 1, i, i + 1, "BLOCKING_ANALYSIS")
        : i \in { k \in Steps(s) : Elapsed(s, k) = 0 } }
    \cup
    { Item("timestamp_regression", s[i + 1].t, s[i].t, i, i + 1, "BLOCKING_ANALYSIS")
        : i \in { k \in Steps(s) : Elapsed(s, k) < 0 } }
    \cup
    { Item("timestamp_gap", s[i].t, s[i + 1].t, i, i + 1, "CRITICAL")
        : i \in { k \in Steps(s) : Elapsed(s, k) > TrajectoryLimits.gap } }

CoordinateFailures(s) ==
    { Item("coordinate_continuity", s[i].t, IntervalEnd(s, i), i, i + 1, "BLOCKING_ANALYSIS")
        : i \in { k \in DOMAIN s : s[k].domain # s[1].domain } }

StructurallyValid(s) ==
    /\ \A i \in Steps(s) : Elapsed(s, i) > 0
    /\ CoordinateFailures(s) = {}

\* ReferencePositionEvidence.validate_evidence: times increase, in one pair of frames.
ValidReference(ref) ==
    /\ ref # <<>>
    /\ \A i \in Steps(ref) : Elapsed(ref, i) > 0 /\ ref[i + 1].domain = ref[i].domain

Aligned(s, ref) ==
    /\ Len(ref) = Len(s)
    /\ \A i \in DOMAIN s : ref[i].t = s[i].t /\ ref[i].domain = s[i].domain

RefusedInput ==
    \/ samples = <<>> \/ Len(samples) > TrajectoryLimits.samples
    \/ reference # NoReference /\ ~(ValidReference(reference) /\ Aligned(samples, reference))

Refuse ==
    /\ phase' = "refused"
    /\ UNCHANGED <<samples, reference, items, structural, tevents, partition>>

InspectStructure ==
    /\ phase = "structure" /\ ~RefusedInput
    /\ LET found == TimeFailures(samples) \cup CoordinateFailures(samples)
       IN  IF Cardinality(found) > TrajectoryLimits.raw THEN Refuse
           ELSE /\ items' = found
                /\ structural' = StructurallyValid(samples)
                /\ phase' = IF StructurallyValid(samples) THEN "content" ELSE "steps"
                /\ UNCHANGED <<samples, reference, tevents, partition>>

RefuseInput == phase = "structure" /\ RefusedInput /\ Refuse

(***************************************************************************)
(* Content.  Twice the residual keeps the trapezoidal prediction integral. *)
(***************************************************************************)
HasVelocity(s) == \A i \in DOMAIN s : s[i].v # NoVelocity

Moved(s, i) == s[i + 1].x - s[i].x

Residual2(s, i) == 2 * Moved(s, i) - (s[i].v + s[i + 1].v) * Elapsed(s, i)

\* The steps the source velocity is compared on.
Compared(s) == IF HasVelocity(s) THEN { i \in Steps(s) : Elapsed(s, i) <= TrajectoryLimits.gap } ELSE {}

JumpFailures(s) ==
    { [Item("position_jump", s[i].t, s[i + 1].t, i, i + 1, "CRITICAL") EXCEPT !.vector = <<Residual2(s, i)>>]
        : i \in { k \in Compared(s) : Magnitude(Residual2(s, k)) > 2 * TrajectoryLimits.jump } }

VelocityFailures(s) ==
    { Item("velocity_residual", s[i + 1].t, IntervalEnd(s, i + 1), i + 1, i + 2, "WARNING")
        : i \in { k \in Compared(s) :
                    Magnitude(Residual2(s, k)) > 2 * TrajectoryLimits.velocity * Elapsed(s, k) } }

Held(s, i) ==
    /\ Magnitude(Moved(s, i)) <= TrajectoryLimits.held * Elapsed(s, i)
    /\ Magnitude(s[i].v) >= TrajectoryLimits.moving /\ Magnitude(s[i + 1].v) >= TrajectoryLimits.moving

FreezeFailures(s) ==
    { LET last == Min({Len(s), i + 2}) IN Item("position_freeze", s[i].t, s[last].t, i, last, "CRITICAL")
        : i \in { k \in Compared(s) : Held(s, k) } }

ReferenceFailures(s, ref) ==
    IF ref = NoReference THEN {}
    ELSE { Item("reference_position_residual", s[i].t, IntervalEnd(s, i), i, i + 1, "WARNING")
             : i \in { k \in DOMAIN s : Magnitude(s[k].x - ref[k].x) > TrajectoryLimits.reference } }

\* The samples whose fit may exceed a limit: their window is not one straight motion.
Bent(s, i) ==
    LET seg == SegmentWith(s, i)
        window == Window(s, seg, s[i].t)
    IN  Fittable(seg) /\ \E k \in window : {k + 1, k + 2} \subseteq window
                            /\ Moved(s, k) * Elapsed(s, k + 1) # Moved(s, k + 1) * Elapsed(s, k)

\* What the fits may report: all bent samples, from one of them on, or none.
DerivativeFailures(s) ==
    LET bent == { i \in DOMAIN s : Bent(s, i) }
    IN  { { Item("derivative", s[i].t, IntervalEnd(s, i), i, i + 1, "WARNING") : i \in { k \in bent : k >= first } }
            : first \in bent \cup {Len(s) + 1} }

InspectContent ==
    /\ phase = "content"
    /\ IF ~Continuous(samples) THEN Refuse
       ELSE \E derivative \in DerivativeFailures(samples) :
              LET found == JumpFailures(samples) \cup VelocityFailures(samples) \cup FreezeFailures(samples)
                             \cup ReferenceFailures(samples, reference) \cup derivative
              IN  IF Cardinality(items \cup found) > TrajectoryLimits.raw THEN Refuse
                  ELSE /\ items' = items \cup found
                       /\ phase' = "steps"
                       /\ UNCHANGED <<samples, reference, structural, tevents, partition>>

\* RuleSupport of the rules that need more than the samples' times and frames.
Observable(rule) ==
    CASE rule = "reference_position_residual" -> structural /\ reference # NoReference
      [] rule \in {"position_jump", "position_freeze", "velocity_residual"} -> structural /\ HasVelocity(samples)
      [] rule = "derivative" -> structural
      [] OTHER -> TRUE

(***************************************************************************)
(* A jump out and its opposite back are one step.                          *)
(***************************************************************************)
OfRule(found, rule) == { item \in found : item.rule = rule }

Before(a, b) ==
    \/ a.start < b.start
    \/ a.start = b.start /\ a.end < b.end
    \/ a.start = b.start /\ a.end = b.end /\ RuleRank(a.rule) < RuleRank(b.rule)
    \/ a.start = b.start /\ a.end = b.end /\ a.rule = b.rule /\ a.from < b.from

InOrder(found) ==
    LET rank == [item \in found |-> Cardinality({ other \in found : Before(other, item) })]
    IN  [n \in 1..Cardinality(found) |-> CHOOSE item \in found : rank[item] = n - 1]

Opposite(left, right) ==
    LET out == left.vector[1]
        back == right.vector[1]
    IN  /\ out * back < 0
        /\ 4 * Magnitude(out + back)
             <= Max({2 * TrajectoryLimits.jump, Max({Magnitude(out), Magnitude(back)})})
        /\ right.end - left.end <= TrajectoryLimits.pair

PairOf(left, right) == Item("position_jump", left.end, right.end, left.to, right.to, "CRITICAL")

\* Where the cursor stops: at each jump but the second one of a pair.
Cursor(jumps) ==
    LET stops[n \in 1..Len(jumps)] == n = 1 \/ ~(stops[n - 1] /\ Opposite(jumps[n - 1], jumps[n]))
    IN  stops

\* Mutant: a jump whose neighbour does not fit takes the neighbour with it.
Paired_SkipsBoth(jumps) ==
    LET stops == { n \in 1..Len(jumps) : n % 2 = 1 }
        pairs == { n \in stops : n < Len(jumps) /\ Opposite(jumps[n], jumps[n + 1]) }
    IN  { PairOf(jumps[n], jumps[n + 1]) : n \in pairs } \cup { jumps[n] : n \in stops \ pairs }

\* Each jump pairs with the next one, if it fits, or stays alone.
Paired(jumps) ==
    LET stops == { n \in 1..Len(jumps) : Cursor(jumps)[n] }
        pairs == { n \in stops : n < Len(jumps) /\ Opposite(jumps[n], jumps[n + 1]) }
    IN  { PairOf(jumps[n], jumps[n + 1]) : n \in pairs } \cup { jumps[n] : n \in stops \ pairs }

PairSteps ==
    /\ phase = "steps"
    /\ LET jumps == OfRule(items, "position_jump")
       IN  items' = (items \ jumps) \cup Paired(InOrder(jumps))
    /\ phase' = "freezes"
    /\ UNCHANGED <<samples, reference, structural, tevents, partition>>

(***************************************************************************)
(* Overlapping freezes are one, and one that is too short is none.         *)
(***************************************************************************)
\* The first freeze of each run, and the last one of the run it starts.
RunStarts(freezes) == { n \in 1..Len(freezes) : n = 1 \/ freezes[n].from > freezes[n - 1].to }

RunEnd(freezes, n) ==
    Min({ m \in n..Len(freezes) : m = Len(freezes) \/ m + 1 \in RunStarts(freezes) })

FreezeOf(first, last) ==
    Item("position_freeze", first.start, last.end, first.from, last.to, "CRITICAL")

Frozen(freezes) ==
    { FreezeOf(freezes[n], freezes[RunEnd(freezes, n)]) :
        n \in { k \in RunStarts(freezes) :
                  freezes[RunEnd(freezes, k)].end - freezes[k].start >= TrajectoryLimits.freeze } }

ConsolidateFreezes ==
    /\ phase = "freezes"
    /\ LET freezes == OfRule(items, "position_freeze")
       IN  items' = (items \ freezes) \cup Frozen(InOrder(freezes))
    /\ phase' = "events"
    /\ UNCHANGED <<samples, reference, structural, tevents, partition>>

(***************************************************************************)
(* Events: the items that follow one another within the adjacency.         *)
(***************************************************************************)
Adjacency(stride) == Max({TrajectoryLimits.adjacency, TrajectoryLimits.clear * stride})

\* Mutant: the item before, not the latest end of the group.
Joins_LastItem(group, item, stride) ==
    item.start <= (CHOOSE g \in group : \A h \in group : h = g \/ Before(h, g)).end + Adjacency(stride)

Joins(group, item, stride) == item.start <= Max({ g.end : g \in group }) + Adjacency(stride)

\* The groups when another item, the next in order, has come.
Extended(groups, item, stride) ==
    IF groups # <<>> /\ Joins(groups[Len(groups)], item, stride)
    THEN [groups EXCEPT ![Len(groups)] = @ \cup {item}]
    ELSE Append(groups, {item})

\* The groups after each number of items.
Groupings(sorted, stride) ==
    LET after[n \in 0..Len(sorted)] ==
          IF n = 0 THEN <<>> ELSE Extended(after[n - 1], sorted[n], stride)
    IN  after

GroupedItems(sorted, stride) == Groupings(sorted, stride)[Len(sorted)]

RulesOf(group) == { item.rule : item \in group }

PrimaryOf(rules) == TrajectoryRules[Min({ RuleRank(rule) : rule \in rules })]

LongStep(group, stride) ==
    \E item \in group : item.rule = "position_jump" /\ item.end - item.start > 2 * stride

\* The rule whose items bound the event.
BoundaryRule(group, stride) ==
    LET rules == RulesOf(group)
    IN  IF rules \cap StructuralRules # {} THEN PrimaryOf(rules)
        ELSE IF "position_freeze" \in rules THEN "position_freeze"
        ELSE IF LongStep(group, stride) THEN "position_jump"
        ELSE IF "reference_position_residual" \in rules THEN "reference_position_residual"
        ELSE IF "velocity_residual" \in rules THEN "velocity_residual"
        ELSE PrimaryOf(rules)

EventFrom(group, stride) ==
    LET bounds == { item \in group : item.rule = BoundaryRule(group, stride) }
    IN  [start |-> Min({ b.start : b \in bounds }), end |-> Max({ b.end : b \in bounds }),
         from |-> Min({ b.from : b \in bounds }), to |-> Max({ b.to : b \in bounds }),
         primary |-> PrimaryOf(RulesOf(group)), rules |-> RulesOf(group),
         severity |-> Severities[Max({ SeverityRank(item.severity) : item \in group })]]

\* TrajectoryIntegrityEvent.validate_interval, and the measurements it asks for,
\* which every failure brings.
EventIsValid(e) == e.start < e.end /\ e.from < e.to /\ e.from > 0 /\ e.primary \in e.rules

ConsolidateEvents ==
    /\ phase = "events"
    /\ LET stride == Stride(samples)
           groups == GroupedItems(InOrder(items), stride)
       IN  IF Len(groups) > TrajectoryLimits.events THEN Refuse
           ELSE /\ tevents' = [i \in DOMAIN groups |-> EventFrom(groups[i], stride)]
                /\ phase' = "reported"
                /\ UNCHANGED <<samples, reference, items, structural, partition>>

(***************************************************************************)
(* Faults of faults.py on a clean recording.  The seed's hash decides the  *)
(* target; here any target may come.                                       *)
(***************************************************************************)
EndTime(s) == s[Len(s)].t + Stride(s)

Starts(s, case) ==
    CASE case.op = "timestamp_discontinuity" -> 2..(Len(s) - 1)
      [] case.op = "position_bias"           -> 0..2
      [] OTHER                               -> 2..(Len(s) - case.count)

Shifted(s, from, delta) == [i \in DOMAIN s |-> IF i >= from THEN [s[i] EXCEPT !.t = @ + delta] ELSE s[i]]

Translated(s, by) == [i \in DOMAIN s |-> IF i \in DOMAIN by THEN [s[i] EXCEPT !.x = @ + by[i]] ELSE s[i]]

Faulted(s, case, start) ==
    CASE case.op = "timestamp_discontinuity" -> Shifted(s, start, case.amount - Elapsed(s, start - 1))
      [] case.op = "position_jump"   -> Translated(s, [i \in start..(start + case.count - 1) |-> case.amount])
      [] case.op = "position_freeze" -> [i \in DOMAIN s |-> IF i \in start..(start + case.count - 1)
                                                            THEN [s[i] EXCEPT !.x = s[start].x] ELSE s[i]]
      [] case.op = "position_bias"   -> Translated(s, [i \in DOMAIN s |-> case.amount - start])
      [] case.op = "position_drift"  -> Translated(s, [i \in start..Len(s) |-> case.amount * (i - start + 1)])

TruthOf(s, case, start) ==
    CASE case.op = "timestamp_discontinuity" -> <<s[start - 1].t, s[start - 1].t + case.amount>>
      [] case.op = "position_bias"           -> <<s[1].t, EndTime(s)>>
      [] case.op = "position_drift"          -> <<s[start].t, EndTime(s)>>
      [] OTHER                               -> <<s[start].t, s[start + case.count].t>>

(***************************************************************************)
(* The qualification of one partition: the controls, then the cases.       *)
(***************************************************************************)
EmptyTally ==
    [predictions |-> 0, truths |-> 0, matches |-> 0, critical |-> 0, passed |-> TRUE, close |-> 0, far |-> 0]

Inspecting(s, ref) ==
    /\ samples' = s /\ reference' = ref /\ phase' = "structure"
    /\ items' = {} /\ structural' = TRUE /\ tevents' = <<>>

BeginPublicCall ==
    /\ phase = "idle"
    /\ \E recording \in TrajectoryRecordings : Inspecting(recording.samples, recording.reference)
    /\ UNCHANGED partition

NControls == Len(TrajectoryControls)

BeginControl ==
    /\ phase \in {"idle", "scored"} /\ job < NControls
    /\ Inspecting(TrajectoryControls[job + 1].samples, NoReference)
    /\ job' = job + 1
    /\ UNCHANGED <<injectedSpan, seen, tally, trajectoryVerdict>>

CaseOf(j) == TrajectoryCases[j - NControls]

\* The same case again until it was injected Repeats times, then the next case.
NextJob == IF job > NControls /\ Cardinality(seen) < Repeats THEN job ELSE job + 1

BeginCase ==
    /\ phase = "scored" /\ NextJob \in (NControls + 1)..(NControls + Len(TrajectoryCases))
    /\ LET earlier == IF NextJob = job THEN seen ELSE {}
           case == CaseOf(NextJob)
       IN  \E start \in Starts(CleanTrajectory, case) \ earlier :
             /\ Inspecting(Faulted(CleanTrajectory, case, start),
                           IF case.referenced THEN CleanTrajectory ELSE NoReference)
             /\ injectedSpan' = TruthOf(CleanTrajectory, case, start)
             /\ seen' = earlier \cup {start}
    /\ job' = NextJob
    /\ UNCHANGED <<tally, trajectoryVerdict>>

EventsWith(rule) == { e \in Range(tevents) : rule \in e.rules }

\* At least half of the union is shared (minimum_iou of the charter).
OverlapsInjected(e) ==
    LET shared == Max({0, Min({e.end, injectedSpan[2]}) - Max({e.start, injectedSpan[1]})})
        union == Max({e.end, injectedSpan[2]}) - Min({e.start, injectedSpan[1]})
    IN  2 * shared >= union

MatchedEvents(rule) == { e \in EventsWith(rule) : OverlapsInjected(e) }

StructuralPredictions == Cardinality({ e \in Range(tevents) : e.rules \cap StructuralRules # {} })

Critical(e) == SeverityRank(e.severity) >= SeverityRank("CRITICAL")

ScoreControl ==
    /\ phase = "reported" /\ job \in 1..NControls
    /\ LET control == TrajectoryControls[job]
           count == Cardinality(EventsWith(control.rule))
       IN  tally' = [tally EXCEPT
             !.passed = @ /\ count \in control.least..control.most,
             !.predictions = @ + (IF control.kind = "detector" THEN 0 ELSE StructuralPredictions),
             !.critical = @ + (IF control.kind = "duration"
                               THEN Cardinality({ e \in Range(tevents) : Critical(e) }) ELSE 0)]
    /\ phase' = "scored"
    /\ UNCHANGED <<samples, reference, items, structural, tevents, job, injectedSpan, seen, trajectoryVerdict>>

Close(e) == /\ Magnitude(e.start - injectedSpan[1]) <= Stride(CleanTrajectory)
            /\ Magnitude(e.end - injectedSpan[2]) <= Stride(CleanTrajectory)

\* A bias without a reference is declared unobservable, and no jump.
Unseen == ~Observable("reference_position_residual") /\ EventsWith("position_jump") = {}

CaseAdheres(case) ==
    /\ IF case.expected THEN MatchedEvents(case.rule) # {} ELSE EventsWith(case.rule) = {}
    /\ case.op = "position_bias" /\ ~case.referenced => Unseen

Bump(condition) == IF condition THEN 1 ELSE 0

ScoreCase ==
    /\ phase = "reported" /\ job > NControls
    /\ LET case == CaseOf(job)
           due == case.op = "timestamp_discontinuity" /\ case.expected
           located == IF case.op \in {"timestamp_discontinuity", "position_bias"} THEN {}
                      ELSE MatchedEvents(case.rule)
       IN  tally' = [tally EXCEPT
             !.predictions = @ + StructuralPredictions,
             !.truths = @ + Bump(due),
             !.matches = @ + Bump(due /\ MatchedEvents(case.rule) # {}),
             !.passed = @ /\ CaseAdheres(case),
             !.close = @ + Cardinality({ e \in located : Close(e) }),
             !.far = @ + Cardinality({ e \in located : ~Close(e) })]
    /\ phase' = "scored"
    /\ UNCHANGED <<samples, reference, items, structural, tevents, job, injectedSpan, seen, trajectoryVerdict>>

\* The gates: recall and precision of structural events, boundaries, and
\* every case and control as declared.
Decide ==
    /\ phase = "scored" /\ NextJob > NControls + Len(TrajectoryCases)
    /\ trajectoryVerdict' =
         IF tally.passed /\ tally.matches = tally.truths /\ tally.matches = tally.predictions
              /\ tally.critical = 0 /\ tally.far <= tally.close
         THEN "accepted" ELSE "rejected"
    /\ phase' = "decided"
    /\ UNCHANGED <<samples, reference, items, structural, tevents, job, injectedSpan, seen, tally>>

TrajectoryInit ==
    /\ samples = <<>> /\ reference = NoReference /\ phase = "idle"
    /\ items = {} /\ structural = TRUE /\ tevents = <<>>
    /\ job = 0 /\ injectedSpan = <<0, 0>> /\ seen = {} /\ tally = EmptyTally /\ trajectoryVerdict = "none"

TrajectoryNext ==
    \/ BeginPublicCall \/ BeginControl \/ BeginCase
    \/ InspectStructure \/ RefuseInput \/ InspectContent
    \/ PairSteps \/ ConsolidateFreezes \/ ConsolidateEvents
    \/ ScoreControl \/ ScoreCase \/ Decide

TrajectorySpec == TrajectoryInit /\ [][TrajectoryNext]_trajectoryVars

(***************************************************************************)
(* Properties.                                                             *)
(***************************************************************************)
BoundTime(s, i) == IF i <= Len(s) THEN s[i].t ELSE IntervalEnd(s, Len(s))

\* In a recording with sound times, the time interval and the sample interval
\* of every failure and of every event name the same samples, also after steps
\* were paired and freezes joined (_RawFailure, _pair_position_steps,
\* _consolidate_freezes, _consolidate_events).
IntervalsAgree ==
    structural => \A item \in items \cup Range(tevents) :
                    /\ item.start < item.end /\ item.from < item.to
                    /\ item.start = BoundTime(samples, item.from)
                    /\ item.end = BoundTime(samples, item.to)

\* The events of a report are more than the adjacency apart, and no failure is
\* lost: each rule that failed is in the event around its failure
\* (_consolidate_events, two-clear-window hysteresis).
EventsAreSeparate ==
    phase = "reported" =>
        /\ \A i \in 2..Len(tevents) : tevents[i].start > tevents[i - 1].end + Adjacency(Stride(samples))
        /\ \A item \in items : \E e \in Range(tevents) :
              /\ item.rule \in e.rules
              /\ SeverityRank(item.severity) <= SeverityRank(e.severity)

\* No event is refused by its own model, in a recording with unsound times either,
\* where failures may start after they end if the order of the two is not mended
\* (TrajectoryIntegrityEvent.validate_interval).
EventsAreValid == \A e \in Range(tevents) : EventIsValid(e)

\* Failures and events are where the samples are, and a report's events are
\* valid, separate and complete (_pair_position_steps to _consolidate_events).
EventsLocalise == IntervalsAgree /\ EventsAreSeparate /\ EventsAreValid

\* _pair_position_steps uses every jump once, pairs a jump only with the next
\* one, and never leaves two neighbours that fit each other both alone.
PairingIsComplete ==
    [][ phase = "steps" =>
          LET before == InOrder(OfRule(items, "position_jump"))
              after == OfRule(items', "position_jump")
              Alone(i) == before[i] \in after
              Pair(i) == i < Len(before) /\ PairOf(before[i], before[i + 1]) \in after
          IN  /\ \A i \in DOMAIN before :
                    Cardinality({ way \in {"alone", "out", "back"} :
                        CASE way = "alone" -> Alone(i)
                          [] way = "out"   -> Pair(i)
                          [] way = "back"  -> i > 1 /\ Pair(i - 1) }) = 1
              /\ \A i \in 1..(Len(before) - 1) :
                    Alone(i) /\ Alone(i + 1) => ~Opposite(before[i], before[i + 1])
      ]_detector

\* The qualification of a clean detector on the registered cases is accepted:
\* every expected fault is found where it was put, wherever that is, and no
\* case below its threshold is (qualify_trajectory_integrity).
TrajectoryFaultsAreFound == trajectoryVerdict # "rejected"

\* A supported query is answered from one segment only, by as many samples as
\* the segment can give, with the query among them; a standstill has one
\* heading; and the coverage gate passes when every segment can be fitted
\* (_segment_for, _window, _hold_stationary_headings, qualify_reference_trajectory).
QueriesStayInSegment ==
    phase = "content" /\ Continuous(samples) =>
        /\ (\A seg \in Segments(samples) :
               Fittable(seg) /\ \E i \in seg[1]..seg[2] : Eligible(samples, i)) => CoveragePassed(samples)
        /\ \A time \in samples[1].t..samples[Len(samples)].t :
            LET answer == Evaluation(samples, time)
                seg == CHOOSE g \in Covering(samples, time) : TRUE
            IN  answer.support = "SUPPORTED" =>
                    /\ answer.window \subseteq seg[1]..seg[2]
                    /\ Cardinality(answer.window) = Min({Width, seg[2] - seg[1] + 1})
                    /\ samples[Min(answer.window)].t <= time /\ time <= samples[Max(answer.window)].t
                    /\ (\A i \in answer.window : Stationary(samples, i)) => Cardinality(answer.headings) = 1

=============================================================================
