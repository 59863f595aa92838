---------------------------- MODULE RoadDecoder ----------------------------
(***************************************************************************)
(* decode_candidate_batches() of road_matching.cpp: beam-pruned Viterbi    *)
(* decoding of a track over the candidates of each observation.  Every     *)
(* transition between two roads is scored by one run of RouteSearch.       *)
(*                                                                         *)
(* Scores are integers, multiples of the rounding step, so that            *)
(* checked_round leaves them as they are.  Observations are one second     *)
(* apart and lie on a line.                                                *)
(***************************************************************************)
EXTENDS RouteSearch

CONSTANTS
    Tracks,           \* the inputs: sequences of observations, each with
                      \* its position x, its speed and its candidates
    OffMap,           \* a candidate on no arc
    BeamWidth, PerTerminal, BeamDelta,
                      \* beam_width, hypotheses_per_terminal_candidate,
                      \* beam_score_delta_log_likelihood
    AmbiguityGap,     \* ambiguity_path_separation_log_likelihood
    EnterOffMap, ExitOffMap, StayOffMap,
                      \* off_map_*_log_likelihood, negated
    TurnPenalty, UTurnPenalty, SpeedPenalty,
    SpeedAllowance,   \* observed_speed_excess_allowance_mps
    MaxSpeed,         \* maximum_absolute_speed_mps
    SlowSpeed, StillTolerance, StillMinimum,
                      \* the stationary_* parameters
    NoResult,         \* the decoder has not returned
    NoPath            \* it found no graph-valid path hypothesis

\* The checks on observations and candidates; an identity is its place in their order.
ASSUME TrackAssumption ==
    \A t \in Tracks :
      /\ Len(t) \in Nat \ {0} /\ DOMAIN t = 1..Len(t)
      /\ \A i \in DOMAIN t :
           LET batch == t[i].candidates
           IN  /\ t[i].x \in Int /\ t[i].speed \in Nat
               /\ Len(batch) \in Nat \ {0} /\ DOMAIN batch = 1..Len(batch)
               /\ \A a \in DOMAIN batch :
                    /\ batch[a].arc = OffMap \/ (batch[a].arc \in Arc /\ batch[a].off \in 0..Length[batch[a].arc])
                    /\ batch[a].id \in Int /\ batch[a].emission \in Int
                    /\ \A b \in DOMAIN batch : a # b => batch[a].id # batch[b].id

\* validate_decoder_parameters, and scores that are numbers.
ASSUME DecoderAssumption ==
    /\ BeamWidth \in Nat \ {0} /\ PerTerminal \in Nat \ {0} /\ BeamDelta \in Nat
    /\ {EnterOffMap, ExitOffMap, StayOffMap, TurnPenalty, UTurnPenalty, SpeedPenalty,
        SpeedAllowance, MaxSpeed} \subseteq Int

Seqs == INSTANCE SequencesExt

VARIABLES
    track,      \* observations and candidate_batches
    index,      \* observation_index
    beam,       \* the hypotheses kept for the last observation, in order
    expanded,   \* those for the present one
    pair,       \* the number of the (hypothesis, candidate) pair in hand
    cut,        \* history: a bound dropped a hypothesis or a transition
    decoded     \* the result

vars == <<rules, search, track, index, beam, expanded, pair, cut, decoded>>

Init ==
    /\ SearchInit
    /\ track \in Tracks
    /\ index = 1 /\ beam = <<>> /\ expanded = {} /\ pair = 0
    /\ cut = FALSE /\ decoded = NoResult

Abs(n) == IF n < 0 THEN -n ELSE n

Larger(m, n) == IF m > n THEN m ELSE n

Batch == track[index].candidates

Off(c) == c.arc = OffMap

\* The candidate that a path chooses for observation i.
Chosen(path, i) == track[i].candidates[path[i]]

(***************************************************************************)
(* Hypotheses: one candidate number per observation, the total score, the  *)
(* lexicographic rank, and the rank of the hypothesis it continues.        *)
(***************************************************************************)
IdOf(h) == Chosen(h.path, Len(h.path)).id

\* Mutant: the last candidate counts more than what came before.
RankedBefore_LastFirst(g, h) == IdOf(g) < IdOf(h) \/ (IdOf(g) = IdOf(h) /\ g.before < h.before)

RankedBefore(g, h) == g.before < h.before \/ (g.before = h.before /\ IdOf(g) < IdOf(h))

\* assign_lexicographic_ranks
Ranked(H) == { [h EXCEPT !.rank = Cardinality({ g \in H : RankedBefore(g, h) })] : h \in H }

Better(g, h) == g.score > h.score \/ (g.score = h.score /\ g.rank < h.rank)

\* H in the order hypothesis_order gives it.
Ordered(H) == [i \in 1..Cardinality(H) |->
                 CHOOSE h \in H : Cardinality({ g \in H : Better(g, h) }) = i - 1]

Hypotheses(seq) == { seq[i] : i \in DOMAIN seq }

UTurns(path) ==
    Cardinality({ i \in 2..Len(path) : /\ Way[path[i - 1]] = Way[path[i]]
                                       /\ Reverse[path[i - 1]] # Reverse[path[i]] })

\* The score of a route between observations a and b.
RouteScore(r, a, b) ==
    -(Abs(r.dist - Abs(b.x - a.x))
        + TurnPenalty * Turns(r.path) + UTurnPenalty * UTurns(r.path)
        + SpeedPenalty * Larger(0, r.dist - Larger(a.speed, b.speed) - SpeedAllowance))

Possible(r) == r.reason = "none" /\ r.dist <= MaxSpeed

OffMapScore(p, c) == CASE Off(p) /\ Off(c) -> -StayOffMap
                       [] Off(p) /\ ~Off(c) -> -ExitOffMap
                       [] ~Off(p) /\ Off(c) -> -EnterOffMap

Begun == beam # <<>> /\ decoded = NoResult

\* The pair in hand: a hypothesis of the beam and a candidate.
Pairs == Len(beam) * Len(Batch)

Previous == beam[((pair - 1) \div Len(Batch)) + 1]

PreviousCandidate == Chosen(Previous.path, index - 1)

Choice == ((pair - 1) % Len(Batch)) + 1

Current == Batch[Choice]

Continued(score) ==
    [path |-> Append(Previous.path, Choice), score |-> Previous.score + score + Current.emission,
     before |-> Previous.rank, rank |-> 0]

(***************************************************************************)
(* The steps of the decoder.                                               *)
(***************************************************************************)
FirstHypotheses ==
    Ranked({ [path |-> <<i>>, score |-> Batch[i].emission, before |-> 0, rank |-> 0] :
               i \in DOMAIN Batch })

\* The first n hypotheses of H.
FirstOf(H, n) == { h \in H : Cardinality({ g \in H : Better(g, h) }) < n }

Start ==
    /\ beam = <<>> /\ decoded = NoResult
    /\ beam' = Ordered(FirstOf(FirstHypotheses, BeamWidth))
    /\ cut' = (Cardinality(FirstHypotheses) > BeamWidth)
    /\ index' = 2 /\ pair' = 1
    /\ UNCHANGED <<rules, search, track, expanded, decoded>>

InHand == Begun /\ index <= Len(track) /\ pair <= Pairs

TransitOffMap ==
    /\ InHand /\ (Off(PreviousCandidate) \/ Off(Current))
    /\ expanded' = expanded \cup {Continued(OffMapScore(PreviousCandidate, Current))}
    /\ pair' = pair + 1
    /\ UNCHANGED <<rules, search, track, index, beam, cut, decoded>>

PointOf(c) == [arc |-> c.arc, off |-> c.off]

TransitAsk ==
    /\ InHand /\ ~Off(PreviousCandidate) /\ ~Off(Current)
    /\ Ask(PointOf(PreviousCandidate), PointOf(Current))
    /\ UNCHANGED <<track, index, beam, expanded, pair, cut, decoded>>

\* Mutant: the rankings of one search are kept for the next.
TransitScored_Carry ==
    /\ InHand /\ route # NoRoute
    /\ query' = NoQuery /\ queue' = {} /\ visited' = 0 /\ targetRejections' = {} /\ route' = NoRoute
    /\ expanded' = IF Possible(route)
                   THEN expanded \cup {Continued(RouteScore(route, track[index - 1], track[index]))}
                   ELSE expanded
    /\ pair' = pair + 1
    /\ UNCHANGED <<rules, best, track, index, beam, cut, decoded>>

TransitScored ==
    /\ InHand /\ Forget
    /\ expanded' = IF Possible(route)
                   THEN expanded \cup {Continued(RouteScore(route, track[index - 1], track[index]))}
                   ELSE expanded
    /\ cut' = (cut \/ visited > MaxStates)
    /\ pair' = pair + 1
    /\ UNCHANGED <<track, index, beam, decoded>>

\* The hypotheses before h that end with its candidate.
Rivals(H, h) == { g \in H : IdOf(g) = IdOf(h) /\ Better(g, h) }

\* Mutant: the bound per terminal candidate is one too low.
TerminalPruned_OneFewer(H) == { h \in H : Cardinality(Rivals(H, h)) < PerTerminal - 1 }

\* At most PerTerminal hypotheses end with one candidate.
TerminalPruned(H) == { h \in H : Cardinality(Rivals(H, h)) < PerTerminal }

NearBest(H) == { h \in H : \A g \in H : h.score >= g.score - BeamDelta }

Prune ==
    /\ Begun /\ index <= Len(track) /\ pair > Pairs /\ expanded # {}
    /\ LET terminal == TerminalPruned(Ranked(expanded))
           kept     == FirstOf(NearBest(terminal), BeamWidth)
       IN  /\ beam' = Ordered(Ranked(kept))
           /\ cut' = (cut \/ kept # terminal)
    /\ expanded' = {} /\ index' = index + 1 /\ pair' = 1
    /\ UNCHANGED <<rules, search, track, decoded>>

\* No hypothesis can be continued: an exception.
Fail ==
    /\ Begun /\ index <= Len(track) /\ pair > Pairs /\ expanded = {}
    /\ decoded' = NoPath
    /\ UNCHANGED <<rules, search, track, index, beam, expanded, pair, cut>>

Slow(i) == track[i].speed <= SlowSpeed

Still(a, b) == \A i \in a..b : Abs(track[i].x - track[a].x) <= StillTolerance

\* stationary_flags: the runs of slow observations that stay in one place.
StationaryPoints ==
    LET FirstFast(c) == CHOOSE e \in c..(Len(track) + 1) :
                          /\ e > Len(track) \/ ~Slow(e)
                          /\ \A i \in c..(e - 1) : Slow(i)
        Flags[c \in 1..(Len(track) + 1)] ==
            IF c > Len(track) THEN {}
            ELSE IF ~Slow(c) THEN Flags[c + 1]
            ELSE LET e == FirstFast(c)
                 IN  Flags[e] \cup (IF e - c >= StillMinimum /\ Still(c, e - 1)
                                    THEN c..(e - 1) ELSE {})
    IN  Flags[1]

\* Where the chosen candidates of two paths differ.
Differing(p, q) == { i \in DOMAIN p : p[i] # q[i] }

\* The usable distance of the points c to e - 1 of one interval.
Usable(path, still, unsure, c, e) ==
    IF Off(Chosen(path, c)) \/ c \in still \cup unsure THEN 0
    ELSE Seqs!FoldLeft(+, 0, [i \in 1..(e - c - 1) |->
           Abs(Chosen(path, c + i).off - Chosen(path, c + i - 1).off)])

\* Contiguous points of one arc, motion and confidence are one interval, which
\* knows whether the runner-up differs at one of its points (apart).
IntervalsOf(path, still, unsure, differing) ==
    LET Kind(i) == <<Chosen(path, i).arc, i \in still, i \in unsure>>
        EndOf(c) == CHOOSE e \in (c + 1)..(Len(path) + 1) :
                      /\ e > Len(path) \/ Kind(e) # Kind(c)
                      /\ \A i \in c..(e - 1) : Kind(i) = Kind(c)
        Rest[c \in 1..(Len(path) + 1)] ==
            IF c > Len(path) THEN <<>>
            ELSE <<[first |-> c, next |-> EndOf(c), apart |-> c..(EndOf(c) - 1) \cap differing # {},
                    usable |-> Usable(path, still, unsure, c, EndOf(c))]>> \o Rest[EndOf(c)]
    IN  Rest[1]

\* The first hypothesis, the next one, and what follows from them: how far they
\* are apart (gap, of at most one number), and which points that leaves unsure.
Finish ==
    /\ Begun /\ index > Len(track)
    /\ LET first  == beam[1]
           runner == IF Len(beam) > 1 THEN beam[2].path ELSE <<>>
           gap    == { first.score - beam[k].score : k \in {2} \cap DOMAIN beam }
           close  == \E g \in gap : g <= AmbiguityGap
           differing == IF runner = <<>> THEN {} ELSE Differing(first.path, runner)
           unsure == IF close THEN differing ELSE {}
       IN  decoded' = [best |-> first.path, score |-> first.score, runner |-> runner, gap |-> gap,
                       close |-> close, unsure |-> unsure, still |-> StationaryPoints,
                       intervals |-> IntervalsOf(first.path, StationaryPoints, unsure, differing)]
    /\ UNCHANGED <<rules, search, track, index, beam, expanded, pair, cut>>

Searches == InHand /\ SearchStep /\ UNCHANGED <<track, index, beam, expanded, pair, cut, decoded>>

\* The decoder has returned.
Returned == decoded # NoResult /\ UNCHANGED vars

Next == \/ Start \/ TransitOffMap \/ TransitAsk \/ Searches \/ TransitScored
        \/ Prune \/ Fail \/ Finish \/ Returned

Spec == Init /\ [][Next]_vars

-----------------------------------------------------------------------------
\* Types of the search and of the decoder; the beam respects its bounds.
TypeOK ==
    /\ SearchTypes
    /\ Len(beam) <= BeamWidth
    /\ \A h \in Hypotheses(beam) \cup expanded : h.path \in Seq(Nat) /\ h.score \in Int
    /\ \A h \in Hypotheses(beam) :
         Cardinality({ g \in Hypotheses(beam) : IdOf(g) = IdOf(h) }) <= PerTerminal

\* Property of score_transition_impl() as decode_candidate_batches() calls it,
\* 796-801 and 960-972: every transition is one complete run of the search
\* between two matched points, which leaves nothing for the next.
ImplementsSearch == SearchSpec

-----------------------------------------------------------------------------
(***************************************************************************)
(* What decoding means: every sequence of candidates whose consecutive     *)
(* pairs can be driven is a path, with the sum of its scores.              *)
(***************************************************************************)
Hop(i, p, c) == IF Off(p) \/ Off(c) THEN OffMapScore(p, c)
                ELSE RouteScore(LeastRoute(p, c), track[i - 1], track[i])

Drivable(p, c) == Off(p) \/ Off(c) \/ Possible(LeastRoute(p, c))

Ids(path) == [i \in DOMAIN path |-> Chosen(path, i).id]

Complete ==
    LET Choices(i) == DOMAIN track[i].candidates
        Drive == [i \in 2..Len(track) |->
                    [a \in Choices(i - 1), b \in Choices(i) |->
                       LET p == track[i - 1].candidates[a]
                           c == track[i].candidates[b]
                       IN  IF Drivable(p, c) THEN {Hop(i, p, c) + c.emission} ELSE {}]]
        Upto[i \in DOMAIN track] ==
            IF i = 1
            THEN { [path |-> <<a>>, score |-> track[1].candidates[a].emission] : a \in Choices(1) }
            ELSE UNION { { [path |-> Append(h.path, b), score |-> h.score + hop] :
                             hop \in Drive[i][Seqs!Last(h.path), b] } :
                         h \in Upto[i - 1], b \in Choices(i) }
    IN  Upto[Len(track)]

\* g comes before h: a higher score, then candidate identities in turn.
Preferred(g, h) == \/ g.score > h.score
                   \/ g.score = h.score /\ PathBefore(Ids(g.path), Ids(h.path))

Decoded == decoded # NoResult /\ decoded # NoPath

(***************************************************************************)
(* Properties of the decoder.                                              *)
(***************************************************************************)

\* Property of assign_lexicographic_ranks(), road_matching.cpp 590-610: ranks,
\* which only look at the previous rank and the last candidate, order the kept
\* hypotheses as their whole sequences of candidate identities do, so that a tie
\* of scores is resolved the same way whatever was pruned in between.
RanksAreLexicographic ==
    \A g, h \in Hypotheses(beam) : g.rank < h.rank <=> PathBefore(Ids(g.path), Ids(h.path))

\* The hypotheses kept are within their bounds and in their order, after every
\* pruning (decode_candidate_batches, 590-610 and 919-1024).
BeamIsSound == TypeOK /\ RanksAreLexicographic

\* Property of decode_candidate_batches(), 919-1024: while no bound dropped
\* anything, the decoded path is the first of all complete paths, so that no
\* pruning of hypotheses with a common last candidate loses it, and the decoder
\* gives up only when there is no complete path.
BestIsOptimal ==
    ~cut => /\ decoded = NoPath => Complete = {}
            /\ Decoded => \E first \in Complete :
                 /\ first = [path |-> decoded.best, score |-> decoded.score]
                 /\ \A h \in Complete \ {first} : Preferred(first, h)

\* Property of decode_candidate_batches(), 1022-1045: the runner-up, which decides
\* what is ambiguous, is the second of all complete paths, and there is one
\* whenever there are two paths.
RunnerUpIsSecond ==
    Decoded /\ ~cut /\ PerTerminal > 1 =>
      IF Cardinality(Complete) = 1 THEN decoded.runner = <<>>
      ELSE \E second \in Complete :
             /\ second.path = decoded.runner /\ second.path # decoded.best
             /\ \A h \in Complete : h.path \in {decoded.best, second.path} \/ Preferred(second, h)

\* Property of stationary_flags() and of the intervals, 624-657 and 1046-1091: the
\* intervals cover every point once, and their usable distance is that between
\* neighbours on one arc, both confident and neither part of a whole slow run of
\* the minimal length within the tolerance of its first point.
CoverageIsHonest ==
    Decoded =>
      LET points == DOMAIN track
          path   == decoded.best
          SlowRun(a, b) == /\ \A i \in a..b : Slow(i)
                           /\ a = 1 \/ ~Slow(a - 1)
                           /\ b = Len(track) \/ ~Slow(b + 1)
          stopped == { i \in points : \E a \in 1..i, b \in i..Len(track) :
                         /\ SlowRun(a, b) /\ b - a + 1 >= StillMinimum
                         /\ \A j \in a..b : Abs(track[j].x - track[a].x) <= StillTolerance }
          counted == { i \in points \ {1} : /\ ~Off(Chosen(path, i))
                                            /\ Chosen(path, i).arc = Chosen(path, i - 1).arc
                                            /\ {i - 1, i} \cap (stopped \cup decoded.unsure) = {} }
          interval == decoded.intervals
      IN  /\ decoded.still = stopped
          /\ interval[1].first = 1 /\ interval[Len(interval)].next = Len(track) + 1
          /\ \A n \in 2..Len(interval) : interval[n].first = interval[n - 1].next
          /\ Seqs!FoldLeft(LAMBDA sum, n : sum + n.usable, 0, interval)
               = Seqs!MapThenSumSet(LAMBDA i : Abs(Chosen(path, i).off - Chosen(path, i - 1).off), counted)
=============================================================================
