--------------------------- MODULE RoadCandidates ---------------------------
(***************************************************************************)
(* Candidates of a track (road_matching.cpp): which arcs an observation may *)
(* lie on, where, how likely, and the one that its emission prefers.        *)
(*                                                                         *)
(* Points lie on a grid of the rounding step and arcs run along its lines,  *)
(* so that a projection is a point of the grid; headings are quarter turns. *)
(* A likelihood is a negated integer, a multiple of its rounding step.      *)
(***************************************************************************)
EXTENDS Integers, Sequences, FiniteSets

CONSTANTS
    Networks,       \* graphs: sequences of [id, shape, length]
    Sightings,      \* sequences of [id, at, heading, speed, uncertainty]
    NoHeading, NoUncertainty,
    NoPlace,        \* an observation off the map
    SearchLimits,   \* CandidateParameters: [least, usual, most, factor, count]
    EmissionModel   \* EmissionParameters: [sigma, mostSigma, turnSigma, slow, fast, offMap], and in
                    \* rounding steps one (unit) and the logarithms of the two densities
                    \* at their means, negated (peak, by the square of sigma, and turnPeak)

\* validate_parameters
ValidParameters(limits, emission) ==
    /\ limits.least \in Nat \ {0} /\ limits.usual \in Nat /\ limits.most \in Nat
    /\ limits.least <= limits.usual /\ limits.usual <= limits.most
    /\ limits.factor \in Nat \ {0} /\ limits.count \in Nat \ {0}
    /\ emission.sigma \in Nat \ {0} /\ emission.mostSigma \in Nat /\ emission.sigma <= emission.mostSigma
    /\ emission.turnSigma \in Nat \ {0}
    /\ emission.slow \in Nat /\ emission.fast \in Nat /\ emission.slow < emission.fast
    /\ emission.offMap \in Nat

ASSUME CandidateAssumption ==
    /\ ValidParameters(SearchLimits, EmissionModel)
    /\ EmissionModel.unit \in Nat \ {0} /\ EmissionModel.turnPeak \in Int
    /\ \A s \in 1..(EmissionModel.mostSigma * EmissionModel.mostSigma) : EmissionModel.peak[s] \in Int

\* Arcs and observations are of integers, which no place is.
ASSUME GridAssumption ==
    /\ Networks \subseteq Seq([id : Int, shape : Seq(Int \X Int), length : Int])
    /\ Sightings \subseteq Seq([id : Int, at : Int \X Int, speed : Int,
                                heading : {NoHeading} \cup Int, uncertainty : {NoUncertainty} \cup Int])
    /\ NoPlace \notin Int /\ NoPlace \notin Int \X Int

VARIABLES
    matching,    \* where generate_candidate_batches() is
    network,
    sightings,
    projected,   \* the arcs projected for the observation at hand
    near,        \* the candidates found among them
    batches,     \* the batches of the observations before it
    winners      \* the candidate chosen in each batch

candidateVars == <<matching, network, sightings, projected, near, batches, winners>>

Lower(a, b) == IF b < a THEN b ELSE a
Upper(a, b) == IF b > a THEN b ELSE a

Between(x, low, high) == Upper(low, Lower(x, high))

\* checked_round: n / d to the nearest integer, halves to even.
Rounded(n, d) ==
    LET low == n \div d
        twice == 2 * (n - low * d)
    IN  IF twice > d \/ (twice = d /\ low % 2 = 1) THEN low + 1 ELSE low

\* The distance itself, rounded: the square root of n to the nearest integer.
RoundedRoot(n) == CHOOSE r \in 0..n : (r = 0 \/ (2 * r - 1) * (2 * r - 1) < 4 * n) /\ 4 * n < (2 * r + 1) * (2 * r + 1)

SquaredDistance(p, q) == (p[1] - q[1]) * (p[1] - q[1]) + (p[2] - q[2]) * (p[2] - q[2])

\* The distance of two points on one line of the grid.
LineDistance(p, q) == Upper(p[1] - q[1], q[1] - p[1]) + Upper(p[2] - q[2], q[2] - p[2])

(***************************************************************************)
(* Validation.                                                             *)
(***************************************************************************)
\* validate_graph
ValidNetwork(arcs) ==
    /\ arcs # <<>>
    /\ \A i \in DOMAIN arcs :
         /\ arcs[i].length > 0 /\ Len(arcs[i].shape) >= 2
         /\ \A j \in DOMAIN arcs : i # j => arcs[i].id # arcs[j].id

\* RoadMatchObservation
ValidSighting(o) ==
    /\ o.speed >= 0 /\ o.heading \in {NoHeading} \cup (0..3)
    /\ o.uncertainty = NoUncertainty \/ o.uncertainty > 0

\* validate_observations: each of them, and no identifier twice.
ValidSightings(seen) ==
    /\ seen # <<>>
    /\ \A i \in DOMAIN seen :
         ValidSighting(seen[i]) /\ \A j \in DOMAIN seen : i # j => seen[i].id # seen[j].id

(***************************************************************************)
(* project and tangent_at: segment i of a shape ends at its point i.       *)
(***************************************************************************)
SegmentLength(shape, i) == LineDistance(shape[i - 1], shape[i])

\* The segments that have a direction.
Strokes(shape) == { i \in 2..Len(shape) : SegmentLength(shape, i) # 0 }

LengthTo(shape) ==
    LET to[i \in 1..Len(shape)] == IF i = 1 THEN 0 ELSE to[i - 1] + SegmentLength(shape, i)
    IN  to

\* The point of segment i that is nearest to p.
Foot(shape, i, p) ==
    LET along(k) == Between(p[k], Lower(shape[i - 1][k], shape[i][k]), Upper(shape[i - 1][k], shape[i][k]))
    IN  <<along(1), along(2)>>

\* The first of the segments nearest to p.
NearestSegment(shape, p) ==
    LET squared(i) == SquaredDistance(p, Foot(shape, i, p))
    IN  CHOOSE i \in Strokes(shape) :
          \A j \in Strokes(shape) : squared(i) < squared(j) \/ (squared(i) = squared(j) /\ i <= j)

AlongShape(shape, p) ==
    LET i == NearestSegment(shape, p)
    IN  LengthTo(shape)[i - 1] + LineDistance(shape[i - 1], Foot(shape, i, p))

\* A segment's direction, in quarter turns from the east.
Direction(shape, i) ==
    LET from == shape[i - 1]
        to == shape[i]
    IN  CASE to[1] > from[1] -> 0 [] to[2] > from[2] -> 1 [] to[1] < from[1] -> 2 [] OTHER -> 3

Tangent(shape, along) ==
    Direction(shape, CHOOSE i \in Strokes(shape) :
                       /\ along <= LengthTo(shape)[i]
                       /\ \A j \in Strokes(shape) : along <= LengthTo(shape)[j] => i <= j)

(***************************************************************************)
(* Candidates.                                                             *)
(***************************************************************************)
\* search_radius
SearchRadius(o) ==
    LET wide == IF o.uncertainty = NoUncertainty THEN 0 ELSE o.uncertainty * SearchLimits.factor
    IN  Between(Upper(SearchLimits.usual, wide), SearchLimits.least, SearchLimits.most)

\* heading_weight, of fast - slow: 0 is none.
HeadingWeight(o) ==
    IF o.heading = NoHeading \/ o.speed <= EmissionModel.slow THEN 0
    ELSE Lower(EmissionModel.fast, o.speed) - EmissionModel.slow

\* wrapped_heading_difference
TurnBetween(h, g) == Lower((h - g) % 4, (g - h) % 4)

SquaredSigma(o) ==
    LET u == IF o.uncertainty = NoUncertainty THEN 0 ELSE o.uncertainty
    IN  Lower(EmissionModel.mostSigma * EmissionModel.mostSigma, EmissionModel.sigma * EmissionModel.sigma + u * u)

\* gaussian_log_likelihood of the distance and, weighted, of the heading, negated.
Cost(o, lateral, turn) ==
    LET across == 2 * SquaredSigma(o)
        around == 2 * EmissionModel.turnSigma * EmissionModel.turnSigma
        span == EmissionModel.fast - EmissionModel.slow
        turned == EmissionModel.unit * turn * turn + EmissionModel.turnPeak * around
    IN  EmissionModel.peak[SquaredSigma(o)]
          + Rounded(EmissionModel.unit * lateral * lateral * around * span + HeadingWeight(o) * turned * across,
                    across * around * span)

\* project: the point of arc a, how far away and how far along the shape it is.
Projection(o, a) ==
    LET shape == network[a].shape
        foot == Foot(shape, NearestSegment(shape, o.at), o.at)
        along == AlongShape(shape, o.at)
    IN  [at |-> foot, squared |-> SquaredDistance(o.at, foot), along |-> along, tangent |-> Tangent(shape, along)]

IsNear(o, a) == Projection(o, a).squared <= SearchRadius(o) * SearchRadius(o)

\* make_on_road_candidate, of arc a: the offset is a share of the arc's length.
OnRoad(o, a) ==
    LET p == Projection(o, a)
        whole == LengthTo(network[a].shape)[Len(network[a].shape)]
        lateral == RoundedRoot(p.squared)
    IN  [arc |-> a, at |-> p.at, lateral |-> lateral, tangent |-> p.tangent,
         off |-> Rounded(Lower(network[a].length * whole, p.along * network[a].length), whole),
         cost |-> Cost(o, lateral, IF HeadingWeight(o) = 0 THEN 0 ELSE TurnBetween(o.heading, p.tangent))]

\* make_off_map_candidate
NoRoad == [arc |-> NoPlace, at |-> NoPlace, lateral |-> NoPlace, tangent |-> NoPlace, off |-> NoPlace,
           cost |-> EmissionModel.offMap]

\* RoadCandidate.validate_state_fields: the evidence of a projection is whole, or
\* there is none.
IsCandidate(c) ==
    LET evidence == {"arc", "at", "lateral", "tangent", "off"}
    IN  \/ \A part \in evidence : c[part] = NoPlace
        \/ (\A part \in evidence : c[part] # NoPlace) /\ c.lateral >= 0 /\ c.off >= 0

\* The order of a batch: likelihood, distance, identifier of the arc.
Preferred(c, d) ==
    \/ c.cost < d.cost
    \/ c.cost = d.cost /\ c.lateral < d.lateral
    \/ c.cost = d.cost /\ c.lateral = d.lateral /\ network[c.arc].id < network[d.arc].id

Ranking(C) ==
    [i \in 1..Cardinality(C) |-> CHOOSE c \in C : Cardinality({ d \in C : Preferred(d, c) }) = i - 1]

\* Mutant: the first arcs of the network, in order.
BatchOf_FirstFound(C) ==
    LET kept == { c \in C : Cardinality({ d \in C : d.arc < c.arc }) < SearchLimits.count }
    IN  Append(Ranking(kept), NoRoad)

BatchOf(C) == Append(SubSeq(Ranking(C), 1, Lower(Cardinality(C), SearchLimits.count)), NoRoad)

(***************************************************************************)
(* generate_candidate_batches and best_emission_candidate_index.           *)
(***************************************************************************)
Observation == sightings[Len(batches) + 1]

GiveTrack ==
    /\ matching = "idle"
    /\ network' \in Networks /\ sightings' \in Sightings
    /\ matching' = IF ValidNetwork(network') /\ ValidSightings(sightings') THEN "projecting" ELSE "refused"
    /\ UNCHANGED <<projected, near, batches, winners>>

\* The next arc: no candidate beyond the radius; one without length is refused.
ProjectArc ==
    /\ matching = "projecting" /\ projected < Len(network)
    /\ IF Strokes(network[projected + 1].shape) = {}
       THEN matching' = "refused" /\ UNCHANGED <<projected, near>>
       ELSE /\ projected' = projected + 1
            /\ near' = near \cup { OnRoad(Observation, a) : a \in { i \in {projected + 1} : IsNear(Observation, i) } }
            /\ matching' = matching
    /\ UNCHANGED <<network, sightings, batches, winners>>

\* _candidate_from_native: what is no candidate is refused.
FinishBatch ==
    /\ matching = "projecting" /\ projected = Len(network)
    /\ LET batch == BatchOf(near)
       IN  IF \E i \in DOMAIN batch : ~IsCandidate(batch[i])
           THEN matching' = "refused" /\ UNCHANGED <<projected, near, batches>>
           ELSE /\ batches' = Append(batches, batch)
                /\ projected' = 0 /\ near' = {}
                /\ matching' = IF Len(batches') = Len(sightings) THEN "selecting" ELSE "projecting"
    /\ UNCHANGED <<network, sightings, winners>>

\* The best candidate of the next batch; equal ones are told apart by their
\* identifiers, which are hashes: in any order.
SelectBest ==
    /\ matching = "selecting"
    /\ LET batch == batches[Len(winners) + 1]
       IN  \E best \in DOMAIN batch :
             /\ \A i \in DOMAIN batch : batch[best].cost <= batch[i].cost
             /\ winners' = Append(winners, batch[best])
    /\ matching' = IF Len(winners') = Len(batches) THEN "matched" ELSE "selecting"
    /\ UNCHANGED <<network, sightings, projected, near, batches>>

CandidatesInit ==
    /\ matching = "idle" /\ network = <<>> /\ sightings = <<>>
    /\ projected = 0 /\ near = {} /\ batches = <<>> /\ winners = <<>>

CandidatesNext == GiveTrack \/ ProjectArc \/ FinishBatch \/ SelectBest

CandidatesSpec == CandidatesInit /\ [][CandidatesNext]_candidateVars

(***************************************************************************)
(* Properties.                                                             *)
(***************************************************************************)
\* The points of an arc, and those nearest to an observation.
PointsOf(shape) ==
    UNION { { <<x, y>> : x \in Lower(shape[i - 1][1], shape[i][1])..Upper(shape[i - 1][1], shape[i][1]),
                         y \in Lower(shape[i - 1][2], shape[i][2])..Upper(shape[i - 1][2], shape[i][2]) } :
              i \in 2..Len(shape) }

NearestPoints(shape, p) ==
    { q \in PointsOf(shape) : \A r \in PointsOf(shape) : SquaredDistance(p, q) <= SquaredDistance(p, r) }

IsReached(o, a) ==
    \E q \in PointsOf(network[a].shape) : SquaredDistance(o.at, q) <= SearchRadius(o) * SearchRadius(o)

\* A batch holds, best first, as many arcs within the radius as it may, at a
\* nearest point and an offset the decoder accepts, and no arc left out is better
\* than one kept; the last candidate, and only it, is off the map.  What is
\* selected is beaten by no arc of the whole network, and only a graph or a track
\* that is none is refused (generate_candidate_batches, validate_state_fields,
\* validate_candidate_reference, best_emission_candidate_index).
CandidatesAreTheBest ==
    /\ matching = "refused" =>
         \/ ~ValidNetwork(network) \/ ~ValidSightings(sightings)
         \/ \E a \in DOMAIN network : Strokes(network[a].shape) = {}
    /\ \A n \in DOMAIN batches :
         LET o == sightings[n]
             batch == batches[n]
             reached == { a \in DOMAIN network : IsReached(o, a) }
             kept == { batch[i].arc : i \in 1..(Len(batch) - 1) }
         IN  /\ batch[Len(batch)] = NoRoad
             /\ kept \subseteq reached /\ Cardinality(kept) = Len(batch) - 1
             /\ Cardinality(kept) = Lower(Cardinality(reached), SearchLimits.count)
             /\ \A i \in 1..(Len(batch) - 1) :
                  LET c == batch[i]
                  IN  /\ c.at \in NearestPoints(network[c.arc].shape, o.at)
                      /\ c.off \in 0..network[c.arc].length
                      /\ \A j \in 1..(i - 1) : Preferred(batch[j], c)
                      /\ \A a \in reached \ kept : Preferred(c, OnRoad(o, a))
             /\ n \in DOMAIN winners =>
                  /\ \E i \in DOMAIN batch : winners[n] = batch[i]
                  /\ winners[n].cost <= EmissionModel.offMap
                  /\ \A a \in reached : winners[n].cost <= OnRoad(o, a).cost
=============================================================================
