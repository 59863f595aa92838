---------------------------- MODULE RouteSearch ----------------------------
(***************************************************************************)
(* route() of road_matching.cpp: the search for the least legal walk from  *)
(* one matched point to the next over a directed road graph.               *)
(*                                                                         *)
(* The priority queue holds partial walks; a state of the search is the    *)
(* arc a walk ends with, which fixes its node, so that turn restrictions   *)
(* are part of the state.  Distances are integers.                         *)
(***************************************************************************)
EXTENDS Integers, Sequences, FiniteSets

CONSTANTS
    ArcCount,     \* graph.arcs, numbered by their index
    From, To,     \* From[a], To[a]: the nodes of arc a
    Length,       \* Length[a]: length_m
    Way, Reverse, \* Way[a], Reverse[a]: source_way_id, direction
    Rule,         \* the transition rules a graph may have
    MaxDistance,  \* maximum_graph_search_distance_m
    MaxStates,    \* maximum_graph_search_states
    NoQuery,      \* no route is asked for
    NoRoute       \* the search has not returned

Arc == 1..ArcCount

ASSUME GraphAssumption ==
    /\ ArcCount \in Nat \ {0}
    /\ Length \in [Arc -> Nat \ {0}] /\ Reverse \in [Arc -> BOOLEAN]
    /\ DOMAIN From = Arc /\ DOMAIN To = Arc /\ DOMAIN Way = Arc
    /\ Rule \subseteq [from : Arc, to : Arc, state : {"forbidden", "unknown"}]
    /\ MaxDistance \in Nat \ {0} /\ MaxStates \in Nat \ {0}

\* A matched point: an arc and an offset along it.
Matched == UNION { [arc : {a}, off : 0..Length[a]] : a \in Arc }

\* RouteResult, or a TransitionRejection.
Reason == {"none", "no_directed_path", "forbidden_turn", "unknown_restriction", "graph_search_budget"}

Route == [reason : Reason, dist : Int, path : Seq(Arc)]

ASSUME NothingAssumption == NoQuery \notin Matched \X Matched /\ NoRoute \notin Route

VARIABLES
    rules,             \* graph.transition_rules
    query,             \* <<previous, current>>, the two candidates
    queue, best,       \* partial walks, and the best ranking of each state
    visited,           \* states expanded
    targetRejections,  \* why the target could not be entered
    route              \* the result

search == <<query, queue, best, visited, targetRejections, route>>

SearchInit ==
    /\ rules \in SUBSET Rule
    /\ query = NoQuery /\ queue = {} /\ best = <<>> /\ visited = 0
    /\ targetRejections = {} /\ route = NoRoute

End(walk) == walk.path[Len(walk.path)]

Turns(path) == Len(path) - 1

\* Mutant: only forbidden turns are kept out.
Blocked_ForbiddenOnly(a, b) ==
    IF [from |-> a, to |-> b, state |-> "forbidden"] \in rules THEN "forbidden" ELSE "none"

\* A forbidden rule wins over one that could not be interpreted.
Blocked(a, b) ==
    LET states == { r.state : r \in { r \in rules : r.from = a /\ r.to = b } }
    IN  CASE "forbidden" \in states -> "forbidden"
          [] states = {}            -> "none"
          [] OTHER                  -> "unknown"

PathBefore(p, q) ==
    \E i \in DOMAIN p : p[i] < q[i] /\ \A j \in 1..(i - 1) : p[j] = q[j]

\* The order of the queue and of rankings: distance, turns, arc indices.
Less(v, w) ==
    \/ v.dist < w.dist
    \/ v.dist = w.dist /\ Turns(v.path) < Turns(w.path)
    \/ v.dist = w.dist /\ Turns(v.path) = Turns(w.path) /\ PathBefore(v.path, w.path)

Found(dist, path) == [reason |-> "none", dist |-> dist, path |-> path]

Rejected(reason) == [reason |-> reason, dist |-> 0, path |-> <<>>]

Direct(p, c) == p.arc = c.arc /\ c.off >= p.off

FirstWalk(p) == [dist |-> Length[p.arc] - p.off, path |-> <<p.arc>>]

(***************************************************************************)
(* The steps of the search.                                                *)
(***************************************************************************)
Ask(p, c) ==
    /\ query = NoQuery
    /\ query' = <<p, c>>
    /\ CASE Direct(p, c) ->
              route' = Found(c.off - p.off, <<p.arc>>) /\ UNCHANGED queue
         [] ~Direct(p, c) /\ FirstWalk(p).dist > MaxDistance ->
              route' = Rejected("graph_search_budget") /\ UNCHANGED queue
         [] OTHER ->
              queue' = {FirstWalk(p)} /\ UNCHANGED route
    /\ UNCHANGED <<rules, best, visited, targetRejections>>

Searching == query # NoQuery /\ route = NoRoute

Target == query[2]

\* w is the walk at the top of the queue.
Top(w) == w \in queue /\ \A v \in queue : ~Less(v, w)

\* The state of w was not ranked before, or worse.
Fresh(w) == End(w) \in DOMAIN best => Less(w, best[End(w)])

Stale(w) ==
    /\ Searching /\ Top(w) /\ ~Fresh(w)
    /\ queue' = queue \ {w}
    /\ UNCHANGED <<rules, query, best, visited, targetRejections, route>>

\* The state of w is ranked and counted.
Visit(w) ==
    /\ Searching /\ Top(w) /\ Fresh(w)
    /\ best' = [a \in DOMAIN best \cup {End(w)} |-> IF a = End(w) THEN w ELSE best[a]]
    /\ visited' = visited + 1
    /\ UNCHANGED <<rules, query>>

Overrun(w) ==
    /\ Visit(w) /\ visited >= MaxStates
    /\ queue' = queue \ {w}
    /\ route' = Rejected("graph_search_budget")
    /\ UNCHANGED targetRejections

AtTarget(w) == To[End(w)] = From[Target.arc]

Enters(w) == AtTarget(w) /\ Blocked(End(w), Target.arc) = "none"

PathInto(path, a) == IF path[Len(path)] = a THEN path ELSE Append(path, a)

Arrive(w) ==
    /\ Visit(w) /\ visited < MaxStates /\ Enters(w)
    /\ LET total == w.dist + Target.off
       IN  route' = IF total > MaxDistance THEN Rejected("graph_search_budget")
                    ELSE Found(total, PathInto(w.path, Target.arc))
    /\ queue' = queue \ {w}
    /\ UNCHANGED targetRejections

\* The walks one arc longer than w that the rules and the budget allow.
Successors(w) ==
    { [dist |-> w.dist + Length[a], path |-> Append(w.path, a)] :
        a \in { a \in Arc : /\ From[a] = To[End(w)]
                            /\ Blocked(End(w), a) = "none"
                            /\ w.dist + Length[a] <= MaxDistance } }

Expand(w) ==
    /\ Visit(w) /\ visited < MaxStates /\ ~Enters(w)
    /\ targetRejections' = IF AtTarget(w)
                           THEN targetRejections \cup {Blocked(End(w), Target.arc)}
                           ELSE targetRejections
    /\ queue' = (queue \ {w}) \cup Successors(w)
    /\ UNCHANGED route

Exhaust ==
    /\ Searching /\ queue = {}
    /\ route' = Rejected(CASE "forbidden" \in targetRejections -> "forbidden_turn"
                           [] targetRejections = {"unknown"} -> "unknown_restriction"
                           [] OTHER -> "no_directed_path")
    /\ UNCHANGED <<rules, query, queue, best, visited, targetRejections>>

SearchStep == \/ \E w \in queue : Stale(w) \/ Overrun(w) \/ Arrive(w) \/ Expand(w)
              \/ Exhaust

\* The caller takes the result; the locals of the search are gone.
Forget ==
    /\ route # NoRoute
    /\ query' = NoQuery /\ queue' = {} /\ best' = <<>> /\ visited' = 0
    /\ targetRejections' = {} /\ route' = NoRoute
    /\ UNCHANGED rules

SearchNext == (\E p, c \in Matched : Ask(p, c)) \/ SearchStep \/ Forget

\* One call of route() after another, for any two points.
SearchSpec == SearchInit /\ [][SearchNext]_<<rules, search>>

-----------------------------------------------------------------------------
(***************************************************************************)
(* What a route is: all legal walks within the distance budget.            *)
(***************************************************************************)
Legal(a, b) == To[a] = From[b] /\ \A r \in rules : r.from # a \/ r.to # b

Longer(w) ==
    { [dist |-> w.dist + Length[a], path |-> Append(w.path, a)] :
        a \in { a \in Arc : Legal(End(w), a) } }

\* Every arc is at least one unit long, which bounds the walks.
Walks(p) ==
    LET Within(W) == { w \in W : w.dist <= MaxDistance }
        Upto[n \in Nat] == IF n = 0 THEN Within({FirstWalk(p)})
                           ELSE Upto[n - 1] \cup Within(UNION { Longer(w) : w \in Upto[n - 1] })
    IN  Upto[MaxDistance]

Reaching(p, c) == { w \in Walks(p) : Legal(End(w), c.arc) }

\* The walks after which the target lies within the budget.
Affordable(p, c) == { w \in Reaching(p, c) : w.dist + c.off <= MaxDistance }

\* w comes before every other walk of W: distance, turns, arc indices.
First(w, W) == \A v \in W : \/ v.dist > w.dist
                            \/ v.dist = w.dist /\ Len(v.path) > Len(w.path)
                            \/ v.dist = w.dist /\ Len(v.path) = Len(w.path) /\ ~PathBefore(v.path, w.path)

LeastRoute(p, c) ==
    IF Direct(p, c) THEN Found(c.off - p.off, <<p.arc>>)
    ELSE IF Affordable(p, c) = {} THEN Rejected("none in reach")
    ELSE LET w == CHOOSE w \in Affordable(p, c) : First(w, Affordable(p, c))
         IN  Found(w.dist + c.off, PathInto(w.path, c.arc))

-----------------------------------------------------------------------------
(***************************************************************************)
(* Properties of route().                                                  *)
(***************************************************************************)
Walk == [dist : 0..MaxDistance, path : Seq(Arc) \ {<<>>}]

\* Types of the search; one state more than the budget may be counted.
SearchTypes ==
    /\ rules \subseteq Rule
    /\ query = NoQuery \/ query \in Matched \X Matched
    /\ queue \subseteq Walk
    /\ DOMAIN best \subseteq Arc /\ \A a \in DOMAIN best : best[a] \in Walk
    /\ visited \in 0..(MaxStates + 1)
    /\ targetRejections \subseteq {"forbidden", "unknown"}

\* Property of the best-ranking map, road_matching.cpp 449-468: a state is expanded
\* once, so that maximum_graph_search_states bounds the states of the graph and
\* not the ways in which they are reached.
StatesCountOnce == visited = Cardinality(DOMAIN best)

\* Property of blocked_transition() and of the expansion, 356-371 and 469-508: a
\* route leads from the arc of the previous point into the arc of the current
\* one, arc by arc in their direction, and takes no turn that is forbidden or
\* that could not be interpreted, the turn into the target included.
RouteIsLegal ==
    route # NoRoute /\ route.reason = "none" =>
      /\ route.path[1] = query[1].arc
      /\ route.path[Len(route.path)] = Target.arc
      /\ \A i \in 1..(Len(route.path) - 1) : Legal(route.path[i], route.path[i + 1])

\* What every search keeps, whatever its graph and budgets: no state is expanded
\* twice, and a route takes legal turns only (route, 452-517).
SearchIsSound == StatesCountOnce /\ RouteIsLegal

\* Property of the search order, 402-410 and 452-485: a route is the first of all
\* legal walks into the target arc within the distance budget: the shortest,
\* then the one with the fewest turns, then the one with the lowest arc indices.
RouteIsLeast ==
    route # NoRoute /\ route.reason = "none" => route = LeastRoute(query[1], query[2])

\* Property of the rejections, 442-445, 465-468, 479-481 and 510-517: a rejection
\* says why: no walk within the distance budget reaches the target, the turn
\* into it is forbidden or could not be interpreted, or a budget is exceeded.
RejectionIsHonest ==
    route # NoRoute /\ route.reason # "none" =>
      LET walks    == Walks(query[1])
          reaching == Reaching(query[1], query[2])
          refused(state) == \E w \in walks, r \in rules :
                              AtTarget(w) /\ r = [from |-> End(w), to |-> Target.arc, state |-> state]
      IN  CASE route.reason = "graph_search_budget" ->
                 \/ visited > MaxStates \/ walks = {}
                 \/ reaching # {} /\ Affordable(query[1], query[2]) = {}
            [] route.reason = "forbidden_turn" -> reaching = {} /\ refused("forbidden")
            [] route.reason = "unknown_restriction" ->
                 reaching = {} /\ refused("unknown") /\ ~refused("forbidden")
            [] route.reason = "no_directed_path" ->
                 reaching = {} /\ ~refused("unknown") /\ ~refused("forbidden")

\* A search answers what an exhaustive one would: the least route, or the reason
\* for which there is none (route, 402-517).
AnswersAreExact == RouteIsLeast /\ RejectionIsHonest

\* Property of route (402-517) as a whole: the search counts every state once and
\* takes a legal route, and what it answers is what an exhaustive search would.
SearchIsExact == SearchIsSound /\ AnswersAreExact
=============================================================================
