------------------------- MODULE TopologyHypotheses -------------------------
(***************************************************************************)
(* Repeated off-map trajectories against a road graph:                     *)
(* topology_hypotheses.py and the kernel of topology_hypotheses.cpp.       *)
(*                                                                         *)
(* A polyline is the sequence of its resampled points, and a point is an   *)
(* integer: the plane becomes a line, on which a trace has a direction, a  *)
(* length, two ends and a distance to another one.  The resampling itself  *)
(* and the floating-point checks are left out.  Corridors hold twice the   *)
(* median, so that the mean of two middle values stays an integer.         *)
(***************************************************************************)
EXTENDS Integers, Sequences, FiniteSets, SequencesExt

CONSTANTS
    NodeAt,           \* NodeAt[n]: position of the graph node with index n
    MinLength,        \* minimum_interval_length_m
    MaxMean,          \* maximum_cluster_mean_distance_m
    MaxEnd,           \* maximum_cluster_endpoint_distance_m
    MinTraversals,    \* minimum_independent_traversals
    SnapRadius,       \* endpoint_snap_radius_m
    Disagreement,     \* geometry_disagreement_mean_distance_m
    Tolerance,        \* graph_endpoint_tolerance_m
    MaxPairs,         \* maximum_pairwise_comparisons
    MaxClusters,      \* maximum_clusters
    NoNode, NoCompared,    \* no node within the radius, no arc compared
    Inputs            \* the intervals and arcs the mining may be given

Node == DOMAIN NodeAt

ASSUME TopologyAssumption ==
    /\ NodeAt \in [Node -> Int] /\ NoNode \notin Node
    /\ MinTraversals \in Nat \ {0} /\ MaxClusters \in Nat \ {0}

VARIABLES
    intervals, graphArcs, \* the arguments of mine_repeated_topology_disagreements
    selected,         \* selected_interval_indices, in the order of their identifiers
    next,             \* how many of them are in a cluster
    members,          \* cluster_members, a sequence of sequences of indices
    hypotheses,       \* result.hypotheses
    mining            \* how far the mining has come

topologyVars == <<intervals, graphArcs, selected, next, members, hypotheses, mining>>

MiningStages == {"idle", "given", "clustering", "comparing", "published", "refused"}

TopologyInit ==
    /\ intervals = <<>> /\ graphArcs = <<>> /\ selected = <<>> /\ next = 0
    /\ members = <<>> /\ hypotheses = {} /\ mining = "idle"

(***************************************************************************)
(* Geometry.                                                               *)
(***************************************************************************)
Abs(x) == IF x < 0 THEN -x ELSE x

Most(a, b) == IF a > b THEN a ELSE b

Sum(f) == FoldFunction(+, 0, f)

PolylineLength(t) == Sum([i \in 1..(Len(t) - 1) |-> Abs(t[i + 1] - t[i])])

DirectionOf(t) == IF Last(t) > Head(t) THEN 1 ELSE -1

\* Sum of the distances of corresponding points: Len(s) times their mean.
Apart(s, t) == Sum([i \in DOMAIN s |-> Abs(s[i] - t[i])])

Compatible(s, t) ==
    /\ DirectionOf(s) = DirectionOf(t)
    /\ Abs(Head(s) - Head(t)) <= MaxEnd /\ Abs(Last(s) - Last(t)) <= MaxEnd
    /\ Apart(s, t) <= MaxMean * Len(s)

\* Twice the median of the members' values.
Median2(values) ==
    LET sorted == SortSeq(values, <)
        middle == Len(values) \div 2
    IN  IF Len(values) % 2 = 1 THEN 2 * sorted[middle + 1]
        ELSE sorted[middle] + sorted[middle + 1]

FitCorridor(group) ==
    [i \in DOMAIN intervals[group[1]].trace |->
        Median2([k \in DOMAIN group |-> intervals[group[k]].trace[i]])]

\* The nearest node within the radius; of two as near, the first.
NearestNode(point2) ==
    LET d(n) == Abs(point2 - 2 * NodeAt[n])
        near == { n \in Node : d(n) <= 2 * SnapRadius }
    IN  IF near = {} THEN NoNode
        ELSE CHOOSE n \in near : \A m \in near : d(n) < d(m) \/ (d(n) = d(m) /\ n <= m)

(***************************************************************************)
(* Selection.                                                              *)
(***************************************************************************)
\* The first reason for which an interval is left out.
Rejection(i) ==
    CASE ~i.offMap -> "not_off_map"
      [] i.offMap /\ ~i.observable -> "unobservable"
      [] i.offMap /\ i.observable /\ ~i.direct -> "direction"
      [] i.offMap /\ i.observable /\ i.direct /\ i.stationary -> "stationary"
      [] i.offMap /\ i.observable /\ i.direct /\ ~i.stationary /\ ~i.quality -> "quality"
      [] OTHER ->
            IF PolylineLength(i.trace) < MinLength THEN "short"
            ELSE IF Abs(Last(i.trace) - Head(i.trace)) <= Tolerance THEN "direction" ELSE "none"

Chosen == { i \in DOMAIN intervals : Rejection(intervals[i]) = "none" }

ById(S) == SortSeq(SelectSeq([i \in DOMAIN intervals |-> i], LAMBDA i : i \in S),
                   LAMBDA i, j : intervals[i].id < intervals[j].id)

PairwiseCount(n) == (n * (n - 1)) \div 2

\* Distinct identifiers, one frame, and arcs that end where their nodes are.
InputIsSound ==
    /\ \A i, j \in DOMAIN intervals : intervals[i].id = intervals[j].id => i = j
    /\ \A i \in DOMAIN intervals : intervals[i].frame = "local" /\ PolylineLength(intervals[i].trace) > 0
    /\ \A a \in DOMAIN graphArcs :
          /\ graphArcs[a].from \in Node /\ graphArcs[a].to \in Node
          /\ Abs(Head(graphArcs[a].geometry) - NodeAt[graphArcs[a].from]) <= Tolerance
          /\ Abs(Last(graphArcs[a].geometry) - NodeAt[graphArcs[a].to]) <= Tolerance

(***************************************************************************)
(* Clusters and hypotheses.                                                *)
(***************************************************************************)
\* Mutant: one compatible member is enough to join a cluster.
Links_Single(group, i) == \E m \in ToSet(group) : Compatible(intervals[i].trace, intervals[m].trace)

\* Complete link: compatible with every member.
Links(group, i) == \A m \in ToSet(group) : Compatible(intervals[i].trace, intervals[m].trace)

Traversals(group) == { intervals[m].traversal : m \in ToSet(group) }

StartNode(group) == NearestNode(Head(FitCorridor(group)))

EndNode(group) == NearestNode(Last(FitCorridor(group)))

Supported(group) ==
    /\ Cardinality(Traversals(group)) >= MinTraversals
    /\ StartNode(group) # NoNode /\ EndNode(group) # NoNode /\ StartNode(group) # EndNode(group)

\* The arcs between the corridor's nodes, in its direction.
Joining(group) ==
    { a \in DOMAIN graphArcs : graphArcs[a].from = StartNode(group) /\ graphArcs[a].to = EndNode(group) }

\* Twice the summed distance of an arc from the corridor.
ArcError(group, a) == Apart(FitCorridor(group), [i \in DOMAIN graphArcs[a].geometry |-> 2 * graphArcs[a].geometry[i]])

BestArc(group) ==
    CHOOSE a \in Joining(group) : \A b \in Joining(group) :
        \/ ArcError(group, a) < ArcError(group, b)
        \/ ArcError(group, a) = ArcError(group, b) /\ a <= b

Disagrees(group) ==
    ArcError(group, BestArc(group)) > 2 * Disagreement * Len(graphArcs[BestArc(group)].geometry)

Hypothesis(kind, k, arc) ==
    [kind |-> kind, cluster |-> k, from |-> StartNode(members[k]), to |-> EndNode(members[k]), arc |-> arc]

\* What the cluster k gives rise to.
Hypotheses(k) ==
    LET group == members[k]
    IN  IF ~Supported(group) THEN {}
        ELSE IF Joining(group) = {} THEN {Hypothesis("missing_connection", k, NoCompared)}
        ELSE IF Disagrees(group) THEN {Hypothesis("geometry_disagreement", k, BestArc(group))}
        ELSE {}

\* What the report's models ask of the kernel's result.
ResultIsSound ==
    /\ ToSet(FlattenSeq(members)) = ToSet(selected) /\ Len(FlattenSeq(members)) = Len(selected)
    /\ \A h \in hypotheses : h.cluster \in DOMAIN members /\ ((h.arc = NoCompared) <=> (h.kind = "missing_connection"))

(***************************************************************************)
(* mine_topology_hypotheses.                                               *)
(***************************************************************************)
GiveIntervals ==
    /\ mining = "idle" /\ mining' = "given"
    /\ \E in \in Inputs : intervals' = in.intervals /\ graphArcs' = in.arcs
    /\ UNCHANGED <<selected, next, members, hypotheses>>

RefuseIntervals ==
    /\ mining = "given"
    /\ ~InputIsSound \/ PairwiseCount(Cardinality(Chosen)) > MaxPairs
    /\ mining' = "refused"
    /\ UNCHANGED <<intervals, graphArcs, selected, next, members, hypotheses>>

SelectIntervals ==
    /\ mining = "given" /\ InputIsSound /\ PairwiseCount(Cardinality(Chosen)) <= MaxPairs
    /\ selected' = ById(Chosen)
    /\ mining' = "clustering"
    /\ UNCHANGED <<intervals, graphArcs, next, members, hypotheses>>

Clustering == mining = "clustering" /\ next < Len(selected)

FirstFit(i) == { k \in DOMAIN members :
                    Links(members[k], i) /\ \A j \in 1..(k - 1) : ~Links(members[j], i) }

JoinCluster ==
    /\ Clustering
    /\ \E k \in FirstFit(selected[next + 1]) :
          members' = [members EXCEPT ![k] = Append(@, selected[next + 1])]
    /\ next' = next + 1
    /\ UNCHANGED <<intervals, graphArcs, selected, hypotheses, mining>>

OpenCluster ==
    /\ Clustering /\ FirstFit(selected[next + 1]) = {}
    /\ IF Len(members) >= MaxClusters
       THEN mining' = "refused" /\ UNCHANGED <<members, next>>
       ELSE members' = Append(members, <<selected[next + 1]>>) /\ next' = next + 1 /\ UNCHANGED mining
    /\ UNCHANGED <<intervals, graphArcs, selected, hypotheses>>

CompareClusters ==
    /\ mining = "clustering" /\ next = Len(selected)
    /\ hypotheses' = UNION { Hypotheses(k) : k \in DOMAIN members }
    /\ mining' = "comparing"
    /\ UNCHANGED <<intervals, graphArcs, selected, next, members>>

PublishReport ==
    /\ mining = "comparing"
    /\ mining' = IF ResultIsSound THEN "published" ELSE "refused"
    /\ UNCHANGED <<intervals, graphArcs, selected, next, members, hypotheses>>

TopologyNext ==
    \/ GiveIntervals \/ RefuseIntervals \/ SelectIntervals \/ JoinCluster \/ OpenCluster
    \/ CompareClusters \/ PublishReport

TopologySpec == TopologyInit /\ [][TopologyNext]_topologyVars

(***************************************************************************)
(* Properties.                                                             *)
(***************************************************************************)
\* i is evidence: off the map, moving, observed well, in a known direction.
Evident(i) ==
    /\ i.offMap /\ i.observable /\ i.direct /\ ~i.stationary /\ i.quality
    /\ PolylineLength(i.trace) >= MinLength

\* No hypothesis without its evidence: enough distinct traversals, every one
\* of which went, off the map, from near the one node to near the other and
\* not back; and the graph has no arc that agrees with them.  Complete link,
\* the median corridor, the snapping of its ends and the arc comparison.
HypothesesAreSupported ==
    mining = "published" => \A h \in hypotheses :
        LET group == ToSet(members[h.cluster])
            D(a, i) == Apart(graphArcs[a].geometry, intervals[i].trace)
        IN  /\ Cardinality({ intervals[i].traversal : i \in group }) >= MinTraversals
            /\ \A i \in group :
                  /\ Evident(intervals[i])
                  /\ Abs(Head(intervals[i].trace) - NodeAt[h.from]) <= SnapRadius + MaxEnd
                  /\ Abs(Last(intervals[i].trace) - NodeAt[h.to]) <= SnapRadius + MaxEnd
                  /\ \A j \in group : Compatible(intervals[i].trace, intervals[j].trace)
            /\ \A a \in DOMAIN graphArcs :
                  graphArcs[a].from = h.from /\ graphArcs[a].to = h.to =>
                      \E i \in group : D(a, i) > 0

\* The identifiers of i and of every interval like it.
Alike(i) == { j \in DOMAIN intervals : Evident(intervals[j])
                                       /\ Compatible(intervals[i].trace, intervals[j].trace) }

\* A corridor that stands apart from the others is never missed: when the
\* intervals compatible with one of its own are compatible with each other
\* and with nothing else, enough traversals of it between two nodes without
\* an arc give a missing connection, whatever order the identifiers impose
\* on first-fit clustering (topology_hypotheses.cpp:367).
RepeatedCorridorsAreReported ==
    mining = "published" => \A i \in Chosen :
        LET like == Alike(i)
            group == ById(like)
        IN  /\ \A j \in like : Alike(j) = like
            /\ Cardinality({ intervals[j].traversal : j \in like }) >= MinTraversals
            /\ Supported(group)
            /\ ~\E a \in DOMAIN graphArcs : graphArcs[a].from = StartNode(group) /\ graphArcs[a].to = EndNode(group)
            => \E h \in hypotheses :
                  h.kind = "missing_connection" /\ ToSet(members[h.cluster]) = like

\* The report of a mining: no hypothesis without its evidence, and none missing
\* for a corridor that stands apart (mine_repeated_topology_disagreements).
HypothesesAreJust == HypothesesAreSupported /\ RepeatedCorridorsAreReported
=============================================================================
