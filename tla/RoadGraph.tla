----------------------------- MODULE RoadGraph ------------------------------
(***************************************************************************)
(* The import of an OpenStreetMap extract as a directed multigraph:        *)
(* road_graph.py, import_osm_road_graph.                                   *)
(*                                                                         *)
(* An extract is a record of nodes, ways and relations, in the order of    *)
(* the file.  A tag's value is the class the profile puts it in, the tags  *)
(* looked up in turn are a sequence with one value per key of the profile, *)
(* and a coordinate is a position on a line, which gives a stretch of a    *)
(* way its length.  Hashes, attribution, coordinates and their rounding    *)
(* are left out: an arc is the tuple its identity is the hash of.          *)
(***************************************************************************)
EXTENDS Integers, Sequences, FiniteSets, SequencesExt

CONSTANTS
    PositionOf,        \* PositionOf[n]: position of the node with identifier n
    MinArcLength,      \* minimum_arc_length_m
    MaxNodes, MaxWays, MaxRelations, MaxReferences, MaxArcPoints,   \* limits
    Sources            \* the extracts the import may read

NodeId == DOMAIN PositionOf

ASSUME RoadGraphAssumption == PositionOf \in [NodeId -> Int] /\ MinArcLength \in Nat \ {0}

\* The members of a relation are sequences of positive identifiers, by role.
ASSUME MembersAssumption ==
    \A s \in Sources : \A r \in ToSet(s.relations) :
        {r.from, r.to, r.viaNodes} \subseteq Seq(Nat \ {0})

VARIABLES
    source,            \* the extract
    included,          \* the included ways, as records [way, forward, reverse]
    reasons,           \* exclusion_reasons, by way
    nodes, arcs,       \* the nodes and arcs of the graph
    relations,         \* the relations still to interpret
    rules, evidence,   \* the transition rules and the evidence of the restrictions
    importing          \* how far the import has come

roadGraphVars == <<source, included, reasons, nodes, arcs, relations, rules, evidence, importing>>

NoSource == [nodes |-> <<>>, ways |-> <<>>, relations |-> <<>>, bounds |-> "none",
             pinned |-> FALSE, entities |-> FALSE]

RoadGraphInit ==
    /\ source = NoSource /\ included = <<>> /\ reasons = <<>> /\ nodes = {} /\ arcs = {}
    /\ relations = {} /\ rules = {} /\ evidence = <<>> /\ importing = "idle"

(***************************************************************************)
(* The extract.                                                            *)
(***************************************************************************)
Identifiers(elements) == [i \in DOMAIN elements |-> elements[i].id]

References(ways) == FlattenSeq([i \in DOMAIN ways |-> ways[i].nodes])

\* Unique identifiers, references to nodes of the extract, all within the budgets.
SourceIsSound(s) ==
    /\ ~s.entities /\ s.bounds # "reversed" /\ (s.nodes # <<>> \/ s.bounds = "given")
    /\ Len(s.nodes) <= MaxNodes /\ Len(s.ways) <= MaxWays /\ Len(s.relations) <= MaxRelations
    /\ IsInjective(s.nodes) /\ IsInjective(Identifiers(s.ways)) /\ IsInjective(Identifiers(s.relations))
    /\ Len(References(s.ways)) <= MaxReferences
    /\ ToSet(References(s.ways)) \subseteq ToSet(s.nodes)

(***************************************************************************)
(* The ways a vehicle may drive.                                           *)
(***************************************************************************)
\* The value of the first key that is there.
FirstTag(values) ==
    LET present == SelectSeq(values, LAMBDA v : v # "absent")
    IN  IF present = <<>> THEN "absent" ELSE Head(present)

DirectionalAccess(values) == FirstTag(values) \in {"absent", "allowed"}

AccessIsUnknown(values) == FirstTag(values) = "unknown"

\* The directions of a way by its oneway tag, or by its junction and class.
OnewayForward(w) == FirstTag(w.oneway) # "reverse"

OnewayReverse(w) ==
    \/ FirstTag(w.oneway) \in {"reverse", "both"}
    \/ FirstTag(w.oneway) = "absent" /\ w.junction # "roundabout" /\ w.highway # "motorway"

Forward(w) == OnewayForward(w) /\ DirectionalAccess(w.forwardAccess)

Reversed(w) == OnewayReverse(w) /\ DirectionalAccess(w.backwardAccess)

\* Every reason there is against a way, in the order in which they are tried.
ReasonsAgainst(w) ==
    << <<w.highway \notin {"residential", "motorway"}, "unsupported_highway">>,
       <<"area" \in w.flags, "area">>,
       <<"construction" \in w.flags, "construction">>,
       <<"ferry" \in w.flags, "ferry">>,
       <<"conditional" \in w.flags, "conditional_access">>,
       <<FirstTag(w.access) = "denied", "denied_or_limited_access">>,
       <<AccessIsUnknown(w.access), "unknown_access">>,
       <<Len(w.nodes) < 2, "insufficient_geometry">>,
       <<FirstTag(w.oneway) = "unknown", "unknown_oneway">>,
       <<AccessIsUnknown(w.forwardAccess) \/ AccessIsUnknown(w.backwardAccess), "unknown_directional_access">>,
       <<~Forward(w) /\ ~Reversed(w), "no_allowed_direction">>,
       <<w.layer = "other", "unknown_layer">> >>

IncludeWay(w) ==
    LET against == SelectSeq(ReasonsAgainst(w), LAMBDA r : r[1])
    IN  IF against = <<>> THEN "included" ELSE Head(against)[2]

Ways == { included[i].way : i \in DOMAIN included }

WayIds == { w.id : w \in Ways }

(***************************************************************************)
(* Arcs: the stretches of a way between two topology nodes.                *)
(***************************************************************************)
IsTurnRestriction(r) == r.type = "restriction"

TurnRestrictions == { r \in ToSet(source.relations) : IsTurnRestriction(r) }

RestrictionViaNodes == UNION { ToSet(r.viaNodes) : r \in TurnRestrictions }

\* Mutant: a via node in the middle of a way does not divide it.
Topology_WithoutVia ==
    { n \in NodeId : Cardinality({ w \in Ways : n \in ToSet(w.nodes) }) > 1 }
    \cup UNION { {Head(w.nodes), Last(w.nodes)} : w \in Ways }

\* Nodes of more than one way, the restrictions' via nodes, and the ends of ways.
Topology ==
    { n \in NodeId : Cardinality({ w \in Ways : n \in ToSet(w.nodes) }) > 1 }
    \cup RestrictionViaNodes
    \cup UNION { {Head(w.nodes), Last(w.nodes)} : w \in Ways }

Distance(m, n) == IF PositionOf[m] < PositionOf[n] THEN PositionOf[n] - PositionOf[m] ELSE PositionOf[m] - PositionOf[n]

PathLength(path) == FoldFunction(+, 0, [i \in 1..(Len(path) - 1) |-> Distance(path[i], path[i + 1])])

SplitPositions(w) == SelectSeq([i \in DOMAIN w.nodes |-> i], LAMBDA i : w.nodes[i] \in Topology)

Chains(w) ==
    LET at == SplitPositions(w)
    IN  [k \in 1..(Len(at) - 1) |-> SubSeq(w.nodes, at[k], at[k + 1])]

\* The chains long enough to be arcs.
KeptChains(w) == { k \in DOMAIN Chains(w) : PathLength(Chains(w)[k]) >= MinArcLength }

ArcAlong(w, k, direction, path) == [way |-> w.id, chain |-> k, direction |-> direction, path |-> path]

ArcsOf(choice) ==
    { ArcAlong(choice.way, k, "FORWARD", Chains(choice.way)[k]) :
        k \in { j \in KeptChains(choice.way) : choice.forward } }
    \cup { ArcAlong(choice.way, k, "REVERSE", Reverse(Chains(choice.way)[k])) :
             k \in { j \in KeptChains(choice.way) : choice.reverse } }

FromNode(arc) == Head(arc.path)

ToNode(arc) == Last(arc.path)

ArcsFitBudget == \A w \in Ways : \A k \in DOMAIN Chains(w) : Len(Chains(w)[k]) <= MaxArcPoints

(***************************************************************************)
(* Restrictions.                                                           *)
(***************************************************************************)
RestrictionValue(r) == FirstTag(r.value)

Interpretation(r) ==
    IF r.except THEN "UNKNOWN_EXCEPT"
    ELSE IF r.conditional THEN "UNKNOWN_CONDITIONAL"
    ELSE IF r.viaWays # <<>> THEN "UNKNOWN_VIA_WAY"
    ELSE IF \E members \in {r.from, r.to, r.viaNodes} : Len(members) # 1 THEN "UNKNOWN_MALFORMED"
    ELSE IF RestrictionValue(r) \notin {"no", "only"} THEN "UNKNOWN_VALUE"
    ELSE IF ~(ToSet(r.from) \cup ToSet(r.to) \subseteq WayIds) THEN "INACTIVE_SOURCE_EXCLUDED"
    ELSE IF RestrictionValue(r) = "no" THEN "APPLIED_NO" ELSE "APPLIED_ONLY"

\* Mutant: the arcs of the from way that touch the via node, at either end.
Incoming_Touching(r) ==
    { a \in arcs : a.way \in ToSet(r.from)
                   /\ (Len(r.viaNodes) = 1 => r.viaNodes[1] \in {FromNode(a), ToNode(a)}) }

\* The arcs of the from ways that end in the via node, all of them without a single one.
Incoming(r) ==
    { a \in arcs : a.way \in ToSet(r.from) /\ (Len(r.viaNodes) = 1 => ToNode(a) = r.viaNodes[1]) }

\* The arcs of the to way that start in it: only a plain restriction is applied.
Onto(r) ==
    { b \in arcs : b.way \in ToSet(r.to) /\ FromNode(b) = r.viaNodes[1] }

TurnsOut(r) == { t \in Incoming(r) \X arcs : FromNode(t[2]) = ToNode(t[1]) }

TurnRules(r, turns, state) == { [turn |-> t, state |-> state, relation |-> r.id] : t \in turns }

\* The turns an applied restriction forbids.
Forbidden(r) ==
    CASE Interpretation(r) = "APPLIED_NO" -> { t \in TurnsOut(r) : t[2] \in Onto(r) }
      [] Interpretation(r) = "APPLIED_ONLY" /\ Onto(r) # {} -> { t \in TurnsOut(r) : t[2] \notin Onto(r) }
      [] OTHER -> {}

\* What a restriction comes to, once it is known whether it forbids anything.
Outcome(r) ==
    IF Interpretation(r) \in {"APPLIED_NO", "APPLIED_ONLY"} /\ Forbidden(r) = {}
    THEN "UNKNOWN_DISCONNECTED" ELSE Interpretation(r)

IsUnknown(outcome) == outcome \notin {"APPLIED_NO", "APPLIED_ONLY", "INACTIVE_SOURCE_EXCLUDED"}

Generated(r) ==
    IF IsUnknown(Outcome(r)) THEN TurnRules(r, TurnsOut(r), "UNKNOWN_RESTRICTION")
    ELSE TurnRules(r, Forbidden(r), "FORBIDDEN")

EvidenceOf(r) == [relation |-> r.id, outcome |-> Outcome(r), ruleCount |-> Cardinality(Generated(r))]

\* The validators of the graph and of the evidence.
GraphIsValid ==
    /\ \A a \in arcs : {FromNode(a), ToNode(a)} \subseteq nodes
    /\ \A rule \in rules : {rule.turn[1], rule.turn[2]} \subseteq arcs
    /\ \A e \in ToSet(evidence) : e.outcome \in {"APPLIED_NO", "APPLIED_ONLY"} => e.ruleCount > 0
    /\ IsInjective([i \in DOMAIN evidence |-> evidence[i].relation])
    /\ Len(included) + Len(reasons) = Len(source.ways)

(***************************************************************************)
(* The import.                                                             *)
(***************************************************************************)
RefuseGraph ==
    /\ importing' = "refused"
    /\ UNCHANGED <<source, included, reasons, nodes, arcs, relations, rules, evidence>>

ReadSource ==
    /\ importing = "idle"
    /\ source' \in Sources
    /\ importing' = IF source'.pinned THEN "read" ELSE "refused"
    /\ UNCHANGED <<included, reasons, nodes, arcs, relations, rules, evidence>>

ParseOsm ==
    /\ importing = "read"
    /\ importing' = IF SourceIsSound(source) THEN "parsed" ELSE "refused"
    /\ UNCHANGED <<source, included, reasons, nodes, arcs, relations, rules, evidence>>

SelectWays ==
    /\ importing = "parsed"
    /\ LET kept == SelectSeq(source.ways, LAMBDA w : IncludeWay(w) = "included")
           left == SelectSeq(source.ways, LAMBDA w : IncludeWay(w) # "included")
       IN  /\ included' = [i \in DOMAIN kept |->
                              [way |-> kept[i], forward |-> Forward(kept[i]), reverse |-> Reversed(kept[i])]]
           /\ reasons' = [i \in DOMAIN left |-> IncludeWay(left[i])]
    /\ importing' = "selected"
    /\ UNCHANGED <<source, nodes, arcs, relations, rules, evidence>>

BuildArcs ==
    /\ importing = "selected" /\ ArcsFitBudget
    /\ arcs' = UNION { ArcsOf(choice) : choice \in ToSet(included) }
    /\ nodes' = Topology \cap ToSet(References([i \in DOMAIN included |-> included[i].way]))
    /\ relations' = TurnRestrictions
    /\ importing' = IF arcs' = {} THEN "refused" ELSE "restricting"
    /\ UNCHANGED <<source, included, reasons, rules, evidence>>

BuildArcsOverBudget ==
    /\ importing = "selected" /\ ~ArcsFitBudget
    /\ RefuseGraph

\* One turn of the loop of _build_restrictions, in the order of the identifiers.
BuildRestriction ==
    /\ importing = "restricting"
    /\ \E r \in relations :
         /\ \A q \in relations : r.id <= q.id
         /\ rules' = rules \cup Generated(r)
         /\ evidence' = Append(evidence, EvidenceOf(r))
         /\ relations' = relations \ {r}
    /\ UNCHANGED <<source, included, reasons, nodes, arcs, importing>>

PublishGraph ==
    /\ importing = "restricting" /\ relations = {}
    /\ importing' = IF GraphIsValid THEN "published" ELSE "refused"
    /\ UNCHANGED <<source, included, reasons, nodes, arcs, relations, rules, evidence>>

RoadGraphNext ==
    \/ ReadSource \/ ParseOsm \/ SelectWays
    \/ BuildArcs \/ BuildArcsOverBudget \/ BuildRestriction \/ PublishGraph

RoadGraphSpec == RoadGraphInit /\ [][RoadGraphNext]_roadGraphVars

(***************************************************************************)
(* Properties, in terms of the steps u -> v a vehicle takes along a way.   *)
(***************************************************************************)
\* The steps of a path, each with its place in it.
StepsOf(path) == { <<path[i], path[i + 1]>> : i \in 1..(Len(path) - 1) }

\* How often a path takes a step.
Times(path, step) == Cardinality({ i \in 1..(Len(path) - 1) : <<path[i], path[i + 1]>> = step })

\* The places where a driver may leave the way that the extract shows.
Junctions ==
    { n \in NodeId : \E v, w \in Ways : v # w /\ n \in ToSet(v.nodes) \cap ToSet(w.nodes) }
    \cup { n \in NodeId : \E r \in TurnRestrictions : n \in ToSet(r.viaNodes) }

\* Published arcs cover each included way as often as it runs, in the directions
\* its tags leave open, and only there; what is missing is a step shorter than
\* the shortest arc.  No arc runs through a junction
\* (_build_arcs: usage, topology, the split positions and the reversal).
WaysAreCutAtJunctions ==
    importing = "published" =>
        /\ \A a \in arcs : \A i \in 2..(Len(a.path) - 1) : a.path[i] \notin Junctions
        /\ \A a \in arcs : a.way \in WayIds
        /\ \A w \in Ways : \A direction \in {"FORWARD", "REVERSE"} :
              LET course == IF direction = "FORWARD" THEN w.nodes ELSE Reverse(w.nodes)
                  open == IF direction = "FORWARD" THEN Forward(w) ELSE Reversed(w)
                  own == { a \in arcs : a.way = w.id /\ a.direction = direction }
                  driven(step) == FoldFunction(+, 0, [a \in own |-> Times(a.path, step)])
              IN  \A step \in StepsOf(course) :
                    IF ~open THEN own = {}
                    ELSE IF Distance(step[1], step[2]) >= MinArcLength THEN driven(step) = Times(course, step)
                    ELSE driven(step) <= Times(course, step)

\* A published graph leaves no turn open that a restriction is about: from a step
\* along the from way into its via node, the steps out onto the to way (no_) or
\* onto any other (only_) are forbidden, all of them are unknown where the
\* restriction could not be evaluated, and no other turn is touched.  A plain
\* no_ whose ways meet in the via node is applied (_build_restrictions).
TurnsFollowRestrictions ==
    importing = "published" =>
        \A r \in TurnRestrictions : \A a, b \in arcs :
            LET e == CHOOSE f \in ToSet(evidence) : f.relation = r.id
                state == { rule.state : rule \in { q \in rules : q.turn = <<a, b>> /\ q.relation = r.id } }
                atVia == Len(r.viaNodes) = 1 => Last(a.path) = r.viaNodes[1]
                turn == Last(a.path) = Head(b.path) /\ a.way \in ToSet(r.from) /\ atVia
                onto == b.way \in ToSet(r.to)
                plain == Len(r.viaNodes) = 1 /\ Len(r.from) = 1 /\ Len(r.to) = 1
                         /\ r.viaWays = <<>> /\ ~r.except /\ ~r.conditional
            IN  /\ ~turn => state = {}
                /\ turn => state = CASE e.outcome = "APPLIED_NO" -> (IF onto THEN {"FORBIDDEN"} ELSE {})
                                     [] e.outcome = "APPLIED_ONLY" -> (IF onto THEN {} ELSE {"FORBIDDEN"})
                                     [] e.outcome = "INACTIVE_SOURCE_EXCLUDED" -> {}
                                     [] OTHER -> {"UNKNOWN_RESTRICTION"}
                /\ turn /\ onto /\ plain /\ RestrictionValue(r) = "no" => e.outcome = "APPLIED_NO"
                /\ turn /\ e.outcome = "APPLIED_ONLY" =>
                      \E c \in arcs : Head(c.path) = Last(a.path) /\ c.way \in ToSet(r.to)
=============================================================================
