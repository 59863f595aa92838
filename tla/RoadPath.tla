------------------------------ MODULE RoadPath ------------------------------
(***************************************************************************)
(* What road_decoder.py makes of the decoder's result: decode_road_path()   *)
(* refuses a result that contradicts itself, puts the path together, point  *)
(* by point and interval by interval, and the models of its parts and of    *)
(* the whole refuse what their validators find wrong.  It is one call in     *)
(* one thread, so that the path is a function of the result.                *)
(*                                                                         *)
(* An optional value is a set of at most one element.  The pinned profile   *)
(* declares the gap of one that validate_path() repeats.                    *)
(***************************************************************************)
EXTENDS RoadDecoder

CONSTANT MaxObservations  \* maximum_sequence_observations

\* DecoderParameters and validate_exact_profile; speeds are whole numbers, so that
\* a threshold of 0 stands for one below 1.
ValidProfile ==
    /\ PerTerminal >= 2 /\ PerTerminal <= BeamWidth /\ BeamDelta > 0 /\ AmbiguityGap >= 0
    /\ SlowSpeed >= 0 /\ StillTolerance >= 0 /\ StillMinimum >= 2 /\ MaxObservations > 0

\* What decode_road_path() decodes: a track within the budget, in the order of
\* time, which the model gives all of them.
Decodable(t) == t # <<>> /\ Len(t) <= MaxObservations

ASSUME ProfileAssumption == ValidProfile /\ \A t \in Tracks : Decodable(t)

\* The points where the runner-up chooses another candidate.
Differs(r, i) == r.runner # <<>> /\ Chosen(r.runner, i).id # Chosen(r.best, i).id

IsClose(gap) == \E g \in gap : g <= AmbiguityGap

\* decode_road_path: indices that point nowhere, a confidence that contradicts
\* the gap and intervals out of bounds are refused.
ResultIsAccepted(r) ==
    /\ DOMAIN r.best = DOMAIN track
    /\ r.runner = <<>> \/ DOMAIN r.runner = DOMAIN track
    /\ \A i \in DOMAIN r.best : r.best[i] \in DOMAIN track[i].candidates
    /\ \A i \in DOMAIN r.runner : r.runner[i] \in DOMAIN track[i].candidates
    /\ r.close <=> IsClose(r.gap)
    /\ \A i \in DOMAIN track : i \in r.unsure <=> IsClose(r.gap) /\ Differs(r, i)
    /\ \A n \in DOMAIN r.intervals :
         LET v == r.intervals[n]
         IN  1 <= v.first /\ v.first < v.next /\ v.next <= Len(track) + 1

(***************************************************************************)
(* The path: points, intervals, the candidates of the runner-up.           *)
(***************************************************************************)
PointsOf(r) ==
    [i \in DOMAIN track |->
       [candidate |-> Chosen(r.best, i), still |-> i \in r.still, unsure |-> i \in r.unsure,
        runner |-> { Chosen(r.runner, k).id : k \in { j \in {i} : Differs(r, j) } },
        gap |-> IF Differs(r, i) THEN r.gap ELSE {}]]

RoadIntervals(r) ==
    [n \in DOMAIN r.intervals |->
       LET v == r.intervals[n]
           first == PointsOf(r)[v.first]
           last == PointsOf(r)[v.next - 1]
       IN  [first |-> v.first, next |-> v.next, arc |-> first.candidate.arc,
            from |-> first.candidate.off, to |-> last.candidate.off,
            still |-> first.still, unsure |-> first.unsure,
            gap |-> IF v.apart THEN r.gap ELSE {}, usable |-> v.usable]]

RunnersOf(r) == IF r.runner = <<>> THEN <<>> ELSE [i \in DOMAIN track |-> Chosen(r.runner, i)]

RoadPathOf(r) ==
    [gap |-> r.gap, unsure |-> r.close, points |-> PointsOf(r),
     intervals |-> RoadIntervals(r), runners |-> RunnersOf(r)]

(***************************************************************************)
(* The validators.                                                         *)
(***************************************************************************)
\* DecodedMatchPoint.validate_ownership
PointIsValid(p) == p.unsure => p.runner # {} /\ p.gap # {}

\* MatchedRoadInterval.validate_interval
IntervalIsValid(v) ==
    /\ v.first < v.next /\ v.usable >= 0
    /\ v.arc = OffMap \/ v.still \/ v.unsure => v.usable = 0

\* DecodedRoadPath.validate_path: without a runner-up nothing is unsure; with one
\* its evidence is complete, here and at every point.
RunnerIsExplained(path) ==
    /\ path.gap = {} => path.runners = <<>> /\ ~path.unsure
    /\ path.gap # {} =>
         /\ Len(path.runners) = Len(path.points)
         /\ path.unsure <=> IsClose(path.gap)
         /\ \A g \in path.gap : g >= 0
    /\ \A i \in DOMAIN path.points :
         LET p == path.points[i]
             other == { path.runners[k].id : k \in { j \in DOMAIN path.runners \cap {i} :
                                                       path.runners[j].id # p.candidate.id } }
         IN  /\ p.runner = other /\ p.gap = IF other = {} THEN {} ELSE path.gap
             /\ p.unsure <=> path.unsure /\ other # {}

\* The intervals partition the path into points of one kind, and repeat what
\* follows from them.
IntervalIsExplained(path, v) ==
    LET support == v.first..(v.next - 1)
        point(i) == path.points[i]
        counts == ~Off(point(v.first).candidate) /\ ~point(v.first).still /\ ~point(v.first).unsure
        moved == Seqs!FoldLeft(+, 0, [k \in 1..(v.next - v.first - 1) |->
                   Abs(point(v.first + k).candidate.off - point(v.first + k - 1).candidate.off)])
    IN  /\ \A i \in support : /\ point(i).candidate.arc = v.arc
                              /\ point(i).still = v.still /\ point(i).unsure = v.unsure
        /\ v.from = point(v.first).candidate.off /\ v.to = point(v.next - 1).candidate.off
        /\ v.usable = IF counts THEN moved ELSE 0
        /\ v.gap = UNION { point(i).gap : i \in support }

IntervalsPartition(path) ==
    LET end(n) == IF n = 0 THEN 1 ELSE path.intervals[n].next
    IN  /\ \A n \in DOMAIN path.intervals : path.intervals[n].first = end(n - 1)
        /\ end(Len(path.intervals)) = Len(path.points) + 1

PathIsValid(path) ==
    /\ \A i \in DOMAIN path.points : PointIsValid(path.points[i])
    /\ \A n \in DOMAIN path.intervals :
         IntervalIsValid(path.intervals[n]) /\ IntervalIsExplained(path, path.intervals[n])
    /\ RunnerIsExplained(path) /\ IntervalsPartition(path)

(***************************************************************************)
(* Properties.                                                             *)
(***************************************************************************)
\* No result of the native decoder is refused: the validators of road_decoder.py,
\* which compute confidence, evidence, partition and usable distance once more,
\* agree with it (decode_road_path, 488-553 and validate_path, 286-417).
PathsAreAccepted == Decoded => ResultIsAccepted(decoded) /\ PathIsValid(RoadPathOf(decoded))

\* A decoding says what an exhaustive one would: the best path, its runner-up,
\* and the distance that may be counted (decode_candidate_batches, 1022-1091), as
\* a path that its validators accept.
DecodingIsExact == BestIsOptimal /\ RunnerUpIsSecond /\ CoverageIsHonest /\ PathsAreAccepted
=============================================================================
