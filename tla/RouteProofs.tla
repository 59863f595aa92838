----------------------------- MODULE RouteProofs -----------------------------
(***************************************************************************)
(* Theorems about RouteSearch: a state of the graph is expanded once, a    *)
(* route is legal, and the answer is that of an exhaustive search, for     *)
(* every graph, every set of rules and all budgets.                        *)
(***************************************************************************)
EXTENDS RouteSearch, FiniteSetTheorems, SequenceTheorems, WellFoundedInduction, TLAPS

\* The arcs of a walk follow one another and no rule stands between them.
LegalPath(path) ==
    /\ path[1] = query[1].arc
    /\ \A i \in 1..(Len(path) - 1) : Legal(path[i], path[i + 1])

\* Every walk of the queue is a legal one from the previous point, and none
\* comes before the walk that its state is ranked by: the walks leave the
\* queue in order.
Inv ==
    /\ SearchTypes
    /\ visited = Cardinality(DOMAIN best)
    /\ \A w \in queue : LegalPath(w.path)
    /\ \A w \in queue, a \in DOMAIN best : ~Less(w, best[a])
    /\ query = NoQuery => queue = {} /\ DOMAIN best = {} /\ route = NoRoute
    /\ Searching => visited <= MaxStates
    /\ RouteIsLegal

\* FirstWalk() starts on the arc of its point.
LEMMA FirstWalkLegal ==
    ASSUME NEW p \in Matched, FirstWalk(p).dist <= MaxDistance
    PROVE  FirstWalk(p) \in Walk
<1>1. p.arc \in Arc /\ p.off \in 0..Length[p.arc]
  BY DEF Matched
<1>2. FirstWalk(p).dist \in 0..MaxDistance
  BY <1>1, GraphAssumption DEF FirstWalk
<1>3. <<p.arc>> \in Seq(Arc) \ {<<>>}
  BY <1>1
<1> QED
  BY <1>2, <1>3 DEF FirstWalk, Walk

\* Blocked() lets exactly the turns pass that no rule mentions.
LEMMA BlockedIsLegal ==
    ASSUME NEW a, NEW b, To[a] = From[b], Blocked(a, b) = "none"
    PROVE  Legal(a, b)
<1>1. SUFFICES ASSUME NEW r \in rules, r.from = a, r.to = b
               PROVE  FALSE
  BY DEF Legal
<1> DEFINE states == { q.state : q \in { q \in rules : q.from = a /\ q.to = b } }
<1>2. r.state \in states
  BY <1>1
<1>3. states # {}
  BY <1>2
<1>4. Blocked(a, b) = IF "forbidden" \in states THEN "forbidden" ELSE "unknown"
  BY <1>3 DEF Blocked
<1> QED
  BY <1>4

\* A walk extended by a legal turn is legal.
LEMMA AppendLegal ==
    ASSUME NEW w \in Walk, LegalPath(w.path), NEW a \in Arc, Legal(End(w), a)
    PROVE  /\ Append(w.path, a) \in Seq(Arc) \ {<<>>}
           /\ LegalPath(Append(w.path, a))
           /\ Append(w.path, a)[Len(Append(w.path, a))] = a
<1> DEFINE path == Append(w.path, a)
<1>1. w.path \in Seq(Arc) /\ w.path # <<>> /\ Len(w.path) \in Nat \ {0}
  BY DEF Walk
<1>2. /\ path \in Seq(Arc) /\ path # <<>> /\ Len(path) = Len(w.path) + 1
      /\ \A i \in 1..Len(w.path) : path[i] = w.path[i]
      /\ path[Len(w.path) + 1] = a
  BY <1>1, AppendProperties
<1>3. path[1] = w.path[1]
  BY <1>1, <1>2
<1>4. ASSUME NEW i \in 1..(Len(path) - 1)
      PROVE  Legal(path[i], path[i + 1])
  <2>1. CASE i = Len(w.path)
    BY <1>1, <1>2, <2>1 DEF End
  <2>2. CASE i < Len(w.path)
    <3>1. i \in 1..(Len(w.path) - 1) /\ i \in 1..Len(w.path) /\ i + 1 \in 1..Len(w.path)
      BY <1>1, <1>2, <2>2
    <3> QED
      BY <1>2, <3>1 DEF LegalPath
  <2> QED
    BY <1>1, <1>2, <2>1, <2>2
<1> HIDE DEF path
<1>5. LegalPath(path)
  BY <1>3, <1>4 DEF LegalPath
<1> QED
  BY <1>2, <1>5 DEF path

\* A graph has finitely many arcs.
LEMMA ArcIsFinite == IsFiniteSet(Arc)
BY GraphAssumption, FS_Interval DEF Arc

\* What a visit does: the state of w is new, because no walk of the queue comes
\* before the walk that a state is ranked by.
LEMMA VisitRanks ==
    ASSUME Inv, NEW w \in queue, Visit(w)
    PROVE  /\ w \in Walk /\ End(w) \in Arc /\ visited <= MaxStates
           /\ DOMAIN best' \subseteq Arc /\ \A a \in DOMAIN best' : best'[a] \in Walk
           /\ visited' = Cardinality(DOMAIN best') /\ visited' \in 0..(MaxStates + 1)
           /\ End(w) \in DOMAIN best' /\ best'[End(w)] = w
           /\ \A a \in DOMAIN best' : a = End(w) \/ (a \in DOMAIN best /\ best'[a] = best[a])
           /\ \A v \in queue, a \in DOMAIN best' : ~Less(v, best'[a])
<1>1. w \in Walk
  BY DEF Inv, SearchTypes
<1>2. End(w) \in Arc
  <2>1. w.path \in Seq(Arc) /\ w.path # <<>>
    BY <1>1 DEF Walk
  <2>2. Len(w.path) \in 1..Len(w.path)
    BY <2>1, EmptySeq, LenProperties
  <2> QED
    BY <2>1, <2>2, ElementOfSeq DEF End
<1>3. End(w) \notin DOMAIN best
  BY DEF Inv, Visit, Fresh
<1>4. best' = [a \in DOMAIN best \cup {End(w)} |-> IF a = End(w) THEN w ELSE best[a]]
  BY DEF Visit
<1>5. /\ DOMAIN best' = DOMAIN best \cup {End(w)} /\ best'[End(w)] = w
      /\ \A a \in DOMAIN best : best'[a] = best[a]
  BY <1>3, <1>4
<1>6. DOMAIN best \subseteq Arc /\ \A a \in DOMAIN best : best[a] \in Walk
  BY DEF Inv, SearchTypes
<1>7. IsFiniteSet(DOMAIN best)
  BY <1>6, ArcIsFinite, FS_Subset
<1>8. visited' = Cardinality(DOMAIN best')
  <2>1. Cardinality(DOMAIN best \cup {End(w)}) = Cardinality(DOMAIN best) + 1
    BY <1>3, <1>7, FS_AddElement
  <2> QED
    BY <1>5, <2>1 DEF Inv, Visit
<1>9. visited <= MaxStates /\ visited' \in 0..(MaxStates + 1)
  BY GraphAssumption DEF Inv, SearchTypes, Visit
<1>10. ASSUME NEW v \in queue, NEW a \in DOMAIN best'
       PROVE  ~Less(v, best'[a])
  <2>1. CASE a = End(w)
    BY <1>5, <2>1 DEF Visit, Top
  <2>2. CASE a \in DOMAIN best
    BY <1>5, <2>2 DEF Inv
  <2> QED
    BY <1>5, <2>1, <2>2
<1> QED
  BY <1>1, <1>2, <1>5, <1>6, <1>8, <1>9, <1>10

\* No route was asked for.
LEMMA InitEstablishesInv == SearchInit => Inv
<1> SUFFICES ASSUME SearchInit PROVE Inv
  OBVIOUS
<1>1. Cardinality(DOMAIN best) = 0 /\ DOMAIN best = {}
  BY FS_EmptySet DEF SearchInit
<1>2. SearchTypes
  BY <1>1, GraphAssumption DEF SearchInit, SearchTypes
<1>3. RouteIsLegal
  BY DEF SearchInit, RouteIsLegal
<1> QED
  BY <1>1, <1>2, <1>3 DEF SearchInit, Inv, Searching

\* A question starts with the rest of its first arc, or is answered at once.
LEMMA AskKeepsInv ==
    ASSUME Inv, NEW p \in Matched, NEW c \in Matched, Ask(p, c)
    PROVE  Inv'
<1>1. query' = <<p, c>> /\ UNCHANGED <<rules, best, visited, targetRejections>>
  BY DEF Ask
<1>2. query' \in Matched \X Matched /\ query' # NoQuery /\ query'[1] = p /\ query'[2] = c
  BY <1>1, NothingAssumption
<1>3. queue = {} /\ DOMAIN best = {} /\ route = NoRoute /\ visited = 0
  BY FS_EmptySet DEF Inv, Ask
<1>4. /\ queue' = {} \/ (queue' = {FirstWalk(p)} /\ FirstWalk(p).dist <= MaxDistance)
      /\ \/ route' = NoRoute
         \/ Direct(p, c) /\ route' = Found(c.off - p.off, <<p.arc>>)
         \/ route' = Rejected("graph_search_budget")
  <2>1. FirstWalk(p).dist \in Int
    BY GraphAssumption DEF FirstWalk, Matched
  <2>2. CASE Direct(p, c)
    BY <1>3, <2>2 DEF Ask
  <2>3. CASE ~Direct(p, c) /\ FirstWalk(p).dist > MaxDistance
    BY <1>3, <2>3 DEF Ask
  <2>4. CASE ~Direct(p, c) /\ ~(FirstWalk(p).dist > MaxDistance)
    BY <1>3, <2>1, <2>4, GraphAssumption DEF Ask
  <2> QED
    BY <2>2, <2>3, <2>4
<1>5. SearchTypes'
  <2>1. queue' \subseteq Walk
    BY <1>4, FirstWalkLegal
  <2> QED
    BY <1>1, <1>2, <2>1 DEF Inv, SearchTypes
<1>6. ASSUME NEW w \in queue'
      PROVE  LegalPath(w.path)'
  <2>1. w.path = <<p.arc>>
    BY <1>4, <1>6 DEF FirstWalk
  <2> QED
    BY <1>2, <2>1 DEF LegalPath
<1>7. RouteIsLegal'
  <2>1. CASE Direct(p, c) /\ route' = Found(c.off - p.off, <<p.arc>>)
    <3>1. route'.path = <<p.arc>>
      BY <2>1 DEF Found
    <3>2. Len(route'.path) = 1 /\ route'.path[1] = p.arc /\ p.arc = c.arc
      BY <2>1, <3>1 DEF Direct
    <3>3. query'[1].arc = p.arc /\ query'[2].arc = c.arc
      BY <1>2
    <3> QED
      BY <3>2, <3>3 DEF RouteIsLegal, Target
  <2>2. CASE route' = NoRoute
    BY <2>2 DEF RouteIsLegal
  <2>3. CASE route' = Rejected("graph_search_budget")
    BY <2>3 DEF RouteIsLegal, Rejected
  <2> QED
    BY <1>4, <2>1, <2>2, <2>3
<1>8. visited' = Cardinality(DOMAIN best') /\ DOMAIN best' = {} /\ (visited <= MaxStates)'
  BY <1>1, <1>3, GraphAssumption, FS_EmptySet
<1> QED
  BY <1>2, <1>5, <1>6, <1>7, <1>8 DEF Inv

\* A stale walk only leaves the queue.
LEMMA StaleKeepsInv ==
    ASSUME Inv, NEW w \in queue, Stale(w)
    PROVE  Inv'
<1>1. queue' \subseteq queue /\ query' = query /\ best' = best /\ rules' = rules
      /\ visited' = visited /\ route' = route /\ targetRejections' = targetRejections
  BY DEF Stale
<1>2. SearchTypes'
  BY <1>1 DEF Inv, SearchTypes
<1>3. \A v \in queue' : LegalPath(v.path)'
  BY <1>1 DEF Inv, LegalPath, Legal
<1>4. RouteIsLegal'
  BY <1>1 DEF Inv, RouteIsLegal, Target, Legal
<1> QED
  BY <1>1, <1>2, <1>3, <1>4 DEF Inv, Stale, Searching

\* What the three steps with a visit have in common.
LEMMA VisitKeepsInv ==
    ASSUME Inv, NEW w \in queue, Visit(w),
           queue' \subseteq Walk,
           \A v \in queue' : LegalPath(v.path),
           \A v \in queue', a \in DOMAIN best' : ~Less(v, best'[a]),
           targetRejections' \subseteq {"forbidden", "unknown"},
           Searching' => visited' <= MaxStates,
           RouteIsLegal'
    PROVE  Inv'
<1>1. query' = query /\ rules' = rules /\ query # NoQuery
  BY DEF Visit, Searching
<1>2. SearchTypes'
  BY <1>1, VisitRanks DEF Inv, SearchTypes
<1>3. \A v \in queue' : LegalPath(v.path)'
  BY <1>1 DEF LegalPath, Legal
<1> QED
  BY <1>1, <1>2, <1>3, VisitRanks DEF Inv

\* The state budget ends the search.
LEMMA OverrunKeepsInv ==
    ASSUME Inv, NEW w \in queue, Overrun(w)
    PROVE  Inv'
<1>1. Visit(w) /\ queue' \subseteq queue /\ targetRejections' = targetRejections
      /\ route' = Rejected("graph_search_budget")
  BY DEF Overrun
<1>2. route' # NoRoute
  <2>1. Rejected("graph_search_budget") \in Route
    BY EmptySeq DEF Rejected, Route, Reason
  <2> QED
    BY <1>1, <2>1, NothingAssumption
<1>3. RouteIsLegal'
  BY <1>1 DEF RouteIsLegal, Rejected
<1>4. \A v \in queue', a \in DOMAIN best' : ~Less(v, best'[a])
  BY <1>1, VisitRanks
<1> QED
  BY <1>1, <1>2, <1>3, <1>4, VisitKeepsInv DEF Inv, SearchTypes, Searching

\* An empty queue ends it with a reason.
LEMMA ExhaustKeepsInv ==
    ASSUME Inv, Exhaust
    PROVE  Inv'
<1>1. UNCHANGED <<rules, query, queue, best, visited, targetRejections>>
      /\ route'.reason # "none" /\ route' \in Route
  <2>1. Rejected("forbidden_turn") \in Route /\ Rejected("unknown_restriction") \in Route
        /\ Rejected("no_directed_path") \in Route
    BY EmptySeq DEF Rejected, Route, Reason
  <2> QED
    BY <2>1 DEF Exhaust, Rejected
<1>2. SearchTypes'
  BY <1>1 DEF Inv, SearchTypes
<1>3. \A v \in queue' : LegalPath(v.path)'
  BY <1>1 DEF Inv, LegalPath, Legal
<1>4. RouteIsLegal'
  BY <1>1 DEF RouteIsLegal
<1>5. ~Searching' /\ query' # NoQuery
  BY <1>1, NothingAssumption DEF Exhaust, Searching
<1> QED
  BY <1>1, <1>2, <1>3, <1>4, <1>5 DEF Inv

\* The locals of the search are gone.
LEMMA ForgetKeepsInv ==
    ASSUME Inv, Forget
    PROVE  Inv'
<1>1. /\ rules' = rules /\ query' = NoQuery /\ queue' = {} /\ DOMAIN best' = {} /\ visited' = 0
      /\ targetRejections' = {} /\ route' = NoRoute
  BY DEF Forget
<1>2. SearchTypes'
  BY <1>1, GraphAssumption DEF Inv, SearchTypes
<1>3. RouteIsLegal'
  BY <1>1 DEF RouteIsLegal
<1> QED
  BY <1>1, <1>2, <1>3, FS_EmptySet DEF Inv, Searching

\* The turn into the target is looked at as every other turn is.
LEMMA ArriveKeepsInv ==
    ASSUME Inv, NEW w \in queue, Arrive(w)
    PROVE  Inv'
<1> DEFINE total == w.dist + Target.off
           path == PathInto(w.path, Target.arc)
<1>1. Visit(w) /\ Enters(w) /\ queue' \subseteq queue /\ targetRejections' = targetRejections
      /\ query' = query /\ rules' = rules
  BY DEF Arrive, Visit
<1>2. query \in Matched \X Matched /\ Target.arc \in Arc /\ Target.off \in Int
  BY <1>1, GraphAssumption DEF Inv, SearchTypes, Visit, Searching, Target, Matched
<1>3. w \in Walk /\ LegalPath(w.path) /\ w.path \in Seq(Arc) /\ w.path # <<>>
      /\ Len(w.path) \in Nat \ {0} /\ total \in Int
  BY <1>1, <1>2, VisitRanks, EmptySeq DEF Inv, Walk
<1>4. Legal(End(w), Target.arc)
  BY <1>1, BlockedIsLegal DEF Enters, AtTarget
<1>5. /\ path \in Seq(Arc) /\ LegalPath(path) /\ path[Len(path)] = Target.arc
  <2>1. CASE w.path[Len(w.path)] = Target.arc
    BY <1>3, <2>1 DEF PathInto
  <2>2. CASE w.path[Len(w.path)] # Target.arc
    BY <1>2, <1>3, <1>4, <2>2, AppendLegal DEF PathInto
  <2> QED
    BY <2>1, <2>2
<1> HIDE DEF path
<1>6. route' = Rejected("graph_search_budget") \/ route' = Found(total, path)
  BY DEF Arrive, path
<1>7. route' # NoRoute
  <2>1. Rejected("graph_search_budget") \in Route /\ Found(total, path) \in Route
    BY <1>3, <1>5, EmptySeq DEF Rejected, Found, Route, Reason
  <2> QED
    BY <1>6, <2>1, NothingAssumption
<1>8. RouteIsLegal'
  <2>1. CASE route' = Rejected("graph_search_budget")
    BY <2>1 DEF RouteIsLegal, Rejected
  <2>2. CASE route' = Found(total, path)
    <3>1. route'.path = path
      BY <2>2 DEF Found
    <3>2. path[1] = query[1].arc /\ \A i \in 1..(Len(path) - 1) : Legal(path[i], path[i + 1])
      BY <1>5 DEF LegalPath
    <3> QED
      BY <1>1, <1>5, <3>1, <3>2 DEF RouteIsLegal, Target, Legal
  <2> QED
    BY <1>6, <2>1, <2>2
<1>9. \A v \in queue', a \in DOMAIN best' : ~Less(v, best'[a])
  BY <1>1, VisitRanks
<1> QED
  BY <1>1, <1>7, <1>8, <1>9, VisitKeepsInv DEF Inv, SearchTypes, Searching

\* A successor is longer than every walk that has left the queue.
LEMMA ExpandKeepsInv ==
    ASSUME Inv, NEW w \in queue, Expand(w)
    PROVE  Inv'
<1>1. Visit(w) /\ queue' = (queue \ {w}) \cup Successors(w) /\ route' = route /\ visited < MaxStates
      /\ query' = query /\ rules' = rules
  BY DEF Expand, Visit
<1>2. w \in Walk /\ LegalPath(w.path) /\ w.dist \in 0..MaxDistance
  BY <1>1, VisitRanks DEF Inv, Walk
<1>3. ASSUME NEW s \in Successors(w)
      PROVE  s \in Walk /\ LegalPath(s.path) /\ s.dist > w.dist
  <2>1. PICK a \in Arc : /\ s = [dist |-> w.dist + Length[a], path |-> Append(w.path, a)]
                         /\ From[a] = To[End(w)] /\ Blocked(End(w), a) = "none"
                         /\ w.dist + Length[a] <= MaxDistance
    BY <1>3 DEF Successors
  <2>2. w.dist + Length[a] \in 0..MaxDistance /\ w.dist + Length[a] > w.dist
    BY <1>2, <2>1, GraphAssumption
  <2>3. Append(w.path, a) \in Seq(Arc) \ {<<>>} /\ LegalPath(Append(w.path, a))
    BY <1>2, <2>1, BlockedIsLegal, AppendLegal
  <2> QED
    BY <2>1, <2>2, <2>3 DEF Walk
<1>4. queue' \subseteq Walk /\ \A v \in queue' : LegalPath(v.path)
  BY <1>1, <1>3 DEF Inv, SearchTypes
<1>5. ASSUME NEW v \in queue', NEW a \in DOMAIN best'
      PROVE  ~Less(v, best'[a])
  <2>1. CASE v \in queue
    BY <1>1, <2>1, VisitRanks
  <2>2. CASE v \in Successors(w)
    <3>1. best'[a] \in Walk /\ ~Less(w, best'[a])
      BY <1>1, VisitRanks
    <3>2. best'[a].dist <= w.dist
      BY <1>2, <3>1, GraphAssumption DEF Less, Walk
    <3> QED
      BY <1>2, <1>3, <2>2, <3>1, <3>2, GraphAssumption DEF Less, Walk
  <2> QED
    BY <1>1, <2>1, <2>2
<1>6. targetRejections' \subseteq {"forbidden", "unknown"}
  <2>1. CASE ~AtTarget(w)
    BY <2>1 DEF Expand, Inv, SearchTypes
  <2>2. CASE AtTarget(w)
    <3>1. Blocked(End(w), Target.arc) \in {"forbidden", "unknown"}
      BY <2>2 DEF Expand, Enters, Blocked
    <3> QED
      BY <2>2, <3>1 DEF Expand, Inv, SearchTypes
  <2> QED
    BY <2>1, <2>2
<1>7. RouteIsLegal'
  BY <1>1 DEF Visit, Searching, RouteIsLegal
<1>8. visited' <= MaxStates
  BY <1>1, GraphAssumption DEF Visit, Inv, SearchTypes
<1> QED
  BY <1>1, <1>4, <1>5, <1>6, <1>7, <1>8, VisitKeepsInv

\* What the search does not write stays.
LEMMA StutterKeepsInv ==
    ASSUME Inv, UNCHANGED <<rules, search>>
    PROVE  Inv'
<1>1. UNCHANGED <<rules, query, queue, best, visited, targetRejections, route>>
  BY DEF search
<1>2. SearchTypes' /\ RouteIsLegal' /\ \A v \in queue' : LegalPath(v.path)'
  BY <1>1 DEF Inv, SearchTypes, RouteIsLegal, Target, LegalPath, Legal
<1> QED
  BY <1>1, <1>2 DEF Inv, Searching

\* One step of any search.
LEMMA StepKeepsInv == Inv /\ [SearchNext]_<<rules, search>> => Inv'
<1> SUFFICES ASSUME Inv, [SearchNext]_<<rules, search>> PROVE Inv'
  OBVIOUS
<1>1. ASSUME NEW p \in Matched, NEW c \in Matched, Ask(p, c) PROVE Inv'
  BY <1>1, AskKeepsInv
<1>2. ASSUME NEW w \in queue, Stale(w) PROVE Inv'
  BY <1>2, StaleKeepsInv
<1>3. ASSUME NEW w \in queue, Overrun(w) PROVE Inv'
  BY <1>3, OverrunKeepsInv
<1>4. ASSUME NEW w \in queue, Arrive(w) PROVE Inv'
  BY <1>4, ArriveKeepsInv
<1>5. ASSUME NEW w \in queue, Expand(w) PROVE Inv'
  BY <1>5, ExpandKeepsInv
<1>6. CASE Exhaust
  BY <1>6, ExhaustKeepsInv
<1>7. CASE Forget
  BY <1>7, ForgetKeepsInv
<1>8. CASE UNCHANGED <<rules, search>>
  BY <1>8, StutterKeepsInv
<1> QED
  BY <1>1, <1>2, <1>3, <1>4, <1>5, <1>6, <1>7, <1>8 DEF SearchNext, SearchStep

\* The invariant in every reachable state of any search.
THEOREM InvHolds == SearchSpec => []Inv
<1> QED
  BY InitEstablishesInv, StepKeepsInv, PTL DEF SearchSpec

\* The number of states visited is that of the arcs ranked, whatever the number of
\* ways to reach them: maximum_graph_search_states counts states.
THEOREM StatesAreCountedOnce == SearchSpec => []StatesCountOnce
<1>1. Inv => StatesCountOnce
  BY DEF Inv, StatesCountOnce
<1> QED
  BY <1>1, InvHolds, PTL

\* No search of a graph whose arcs do not exceed the budget runs out of it.
THEOREM BudgetOfArcsSuffices == SearchSpec => [](visited <= ArcCount)
<1>1. Inv => visited <= ArcCount
  <2> SUFFICES ASSUME Inv PROVE visited <= ArcCount
    OBVIOUS
  <2>1. DOMAIN best \subseteq Arc /\ visited = Cardinality(DOMAIN best)
    BY DEF Inv, SearchTypes
  <2>2. Cardinality(Arc) = ArcCount
    BY GraphAssumption, FS_Interval DEF Arc
  <2> QED
    BY <2>1, <2>2, ArcIsFinite, FS_Subset
<1> QED
  BY <1>1, InvHolds, PTL

\* route() never takes a turn that a rule forbids or leaves open, and never an arc
\* against its direction, in any graph and with any budgets.
THEOREM RoutesAreLegal == SearchSpec => []RouteIsLegal
<1>1. Inv => RouteIsLegal
  BY DEF Inv
<1> QED
  BY <1>1, InvHolds, PTL

\* Every search of route() expands a state once and returns legal routes only.
THEOREM SearchesAreSound == SearchSpec => []SearchIsSound
<1>1. StatesCountOnce /\ RouteIsLegal => SearchIsSound
  BY DEF SearchIsSound
<1> QED
  BY <1>1, StatesAreCountedOnce, RoutesAreLegal, PTL

(***************************************************************************)
(* Induction over the naturals, with a set in place of a predicate.        *)
(***************************************************************************)

\* What holds of 0, and of a number after it held of the one before, holds of all.
LEMMA NumberInduction ==
    ASSUME NEW P, 0 \in P, \A n \in Nat : n \in P => n + 1 \in P
    PROVE  \A n \in Nat : n \in P
<1> DEFINE T == { n \in Nat : n \notin P }
<1> SUFFICES ASSUME T # {} PROVE FALSE
  OBVIOUS
<1>1. PICK n \in T : \A m \in T : ~(<<m, n>> \in OpToRel(<, Nat))
  <2>1. T \subseteq Nat
    OBVIOUS
  <2> HIDE DEF T
  <2> QED
    BY <2>1, NatLessThanWellFounded, WFMin
<1>2. \A m \in T : ~(m < n)
  BY <1>1 DEF OpToRel
<1>3. n # 0 /\ n - 1 \in Nat /\ n - 1 \notin T
  BY <1>2
<1> QED
  BY <1>3

(***************************************************************************)
(* The lexicographic order of sequences of one length.                     *)
(***************************************************************************)

\* Two sequences of one length that differ have a first difference.
LEMMA FirstDifference ==
    ASSUME NEW n \in Nat, NEW p \in [1..n -> Int], NEW q \in [1..n -> Int], p # q
    PROVE  \E i \in 1..n : p[i] # q[i] /\ \A j \in 1..(i - 1) : p[j] = q[j]
<1> DEFINE T == { i \in Nat : i \in 1..n /\ p[i] # q[i] }
<1>1. PICK k \in 1..n : p[k] # q[k]
  OBVIOUS
<1>2. k \in T /\ T \subseteq Nat
  BY <1>1
<1>3. PICK i \in T : \A j \in T : ~(<<j, i>> \in OpToRel(<, Nat))
  <2> HIDE DEF T
  <2> QED
    BY <1>2, NatLessThanWellFounded, WFMin
<1>4. \A j \in T : ~(j < i)
  BY <1>3 DEF OpToRel
<1>5. ASSUME NEW j \in 1..(i - 1) PROVE p[j] = q[j]
  <2>1. i \in Nat /\ i \in 1..n /\ j \in Nat /\ j \in 1..n /\ j < i
    OBVIOUS
  <2> QED
    BY <1>4, <2>1
<1> QED
  BY <1>5

\* PathBefore() orders sequences of one length strictly.
LEMMA PathsAreOrdered ==
    ASSUME NEW n \in Nat, NEW p \in [1..n -> Int], NEW q \in [1..n -> Int]
    PROVE  /\ ~PathBefore(p, p)
           /\ p # q => PathBefore(p, q) \/ PathBefore(q, p)
           /\ ~(PathBefore(p, q) /\ PathBefore(q, p))
           /\ \A r \in [1..n -> Int] : PathBefore(p, q) /\ PathBefore(q, r) => PathBefore(p, r)
<1>1. ASSUME NEW r \in [1..n -> Int], PathBefore(p, q), PathBefore(q, r)
      PROVE  PathBefore(p, r)
  <2>1. PICK i \in 1..n : p[i] < q[i] /\ \A k \in 1..(i - 1) : p[k] = q[k]
    BY <1>1 DEF PathBefore
  <2>2. PICK j \in 1..n : q[j] < r[j] /\ \A k \in 1..(j - 1) : q[k] = r[k]
    BY <1>1 DEF PathBefore
  <2>3. CASE i <= j
    <3>1. p[i] < r[i] /\ \A k \in 1..(i - 1) : p[k] = r[k]
      BY <2>1, <2>2, <2>3
    <3> QED
      BY <3>1 DEF PathBefore
  <2>4. CASE j < i
    <3>1. p[j] < r[j] /\ \A k \in 1..(j - 1) : p[k] = r[k]
      BY <2>1, <2>2, <2>4
    <3> QED
      BY <3>1 DEF PathBefore
  <2> QED
    BY <2>3, <2>4
<1>2. ~PathBefore(p, p)
  BY DEF PathBefore
<1>3. ASSUME PathBefore(p, q), PathBefore(q, p) PROVE FALSE
  BY <1>1, <1>2, <1>3
<1>4. ASSUME p # q PROVE PathBefore(p, q) \/ PathBefore(q, p)
  <2>1. PICK i \in 1..n : p[i] # q[i] /\ \A j \in 1..(i - 1) : p[j] = q[j]
    BY <1>4, FirstDifference
  <2>2. p[i] < q[i] \/ q[i] < p[i]
    BY <2>1
  <2> QED
    BY <2>1, <2>2 DEF PathBefore
<1> QED
  BY <1>1, <1>2, <1>3, <1>4

\* Of two sequences one longer, the parts before decide, then the last elements.
LEMMA LastDecides ==
    ASSUME NEW n \in Nat, NEW p \in [1..n -> Int], NEW q \in [1..n -> Int],
           NEW u \in [1..(n + 1) -> Int], NEW v \in [1..(n + 1) -> Int],
           \A i \in 1..n : u[i] = p[i] /\ v[i] = q[i]
    PROVE  PathBefore(u, v) <=> PathBefore(p, q) \/ (p = q /\ u[n + 1] < v[n + 1])
<1>1. ASSUME PathBefore(u, v)
      PROVE  PathBefore(p, q) \/ (p = q /\ u[n + 1] < v[n + 1])
  <2>1. PICK i \in 1..(n + 1) : u[i] < v[i] /\ \A j \in 1..(i - 1) : u[j] = v[j]
    BY <1>1 DEF PathBefore
  <2>2. CASE i = n + 1
    BY <2>1, <2>2
  <2>3. CASE i \in 1..n
    <3>1. p[i] < q[i] /\ \A j \in 1..(i - 1) : p[j] = q[j]
      BY <2>1, <2>3
    <3> QED
      BY <2>3, <3>1 DEF PathBefore
  <2> QED
    BY <2>2, <2>3
<1>2. ASSUME PathBefore(p, q) PROVE PathBefore(u, v)
  <2>1. PICK i \in 1..n : p[i] < q[i] /\ \A j \in 1..(i - 1) : p[j] = q[j]
    BY <1>2 DEF PathBefore
  <2>2. i \in 1..(n + 1) /\ u[i] < v[i] /\ \A j \in 1..(i - 1) : u[j] = v[j]
    BY <2>1
  <2> QED
    BY <2>2 DEF PathBefore
<1>3. ASSUME p = q, u[n + 1] < v[n + 1] PROVE PathBefore(u, v)
  <2>1. \A j \in 1..((n + 1) - 1) : u[j] = v[j]
    BY <1>3
  <2> QED
    BY <1>3, <2>1 DEF PathBefore
<1> QED
  BY <1>1, <1>2, <1>3

(***************************************************************************)
(* The order of walks: distance, turns, arcs.                              *)
(***************************************************************************)

\* What a walk has.
LEMMA WalkTyped ==
    ASSUME NEW w \in Walk
    PROVE  /\ w.dist \in Nat /\ w.dist <= MaxDistance /\ Len(w.path) \in Nat \ {0}
           /\ w.path \in Seq(Arc) /\ w.path \in [1..Len(w.path) -> Int]
           /\ Turns(w.path) = Len(w.path) - 1 /\ End(w) \in Arc
           /\ w = [dist |-> w.dist, path |-> w.path]
<1>1. w.dist \in 0..MaxDistance /\ w.path \in Seq(Arc) /\ w.path # <<>>
      /\ w = [dist |-> w.dist, path |-> w.path]
  BY DEF Walk
<1>2. Len(w.path) \in Nat \ {0}
  BY <1>1, EmptySeq, LenProperties
<1>3. w.path \in [1..Len(w.path) -> Arc]
  BY <1>1, LenProperties
<1>4. Arc \subseteq Int
  BY GraphAssumption DEF Arc
<1>5. End(w) \in Arc
  BY <1>2, <1>3 DEF End
<1> QED
  BY <1>1, <1>2, <1>3, <1>4, <1>5, GraphAssumption DEF Turns

\* Less() orders walks strictly and totally.
LEMMA WalksAreOrdered ==
    ASSUME NEW u \in Walk, NEW v \in Walk
    PROVE  /\ ~Less(u, u)
           /\ u # v => Less(u, v) \/ Less(v, u)
           /\ ~(Less(u, v) /\ Less(v, u))
<1>1. /\ u.dist \in Nat /\ Len(u.path) \in Nat /\ u.path \in [1..Len(u.path) -> Int]
      /\ Turns(u.path) = Len(u.path) - 1 /\ u = [dist |-> u.dist, path |-> u.path]
      /\ v.dist \in Nat /\ Len(v.path) \in Nat /\ v.path \in [1..Len(v.path) -> Int]
      /\ Turns(v.path) = Len(v.path) - 1 /\ v = [dist |-> v.dist, path |-> v.path]
  BY WalkTyped
<1>2. ~PathBefore(u.path, u.path)
  BY <1>1, PathsAreOrdered
<1>3. ASSUME Len(u.path) = Len(v.path)
      PROVE  /\ u.path # v.path => PathBefore(u.path, v.path) \/ PathBefore(v.path, u.path)
             /\ ~(PathBefore(u.path, v.path) /\ PathBefore(v.path, u.path))
  BY <1>1, <1>3, PathsAreOrdered
<1>4. ~Less(u, u)
  BY <1>1, <1>2 DEF Less
<1>5. ASSUME u # v PROVE Less(u, v) \/ Less(v, u)
  BY <1>1, <1>3, <1>5 DEF Less
<1>6. ~(Less(u, v) /\ Less(v, u))
  BY <1>1, <1>3 DEF Less
<1> QED
  BY <1>4, <1>5, <1>6

\* Less() is transitive.
LEMMA LessIsTransitive ==
    ASSUME NEW u \in Walk, NEW v \in Walk, NEW w \in Walk, Less(u, v), Less(v, w)
    PROVE  Less(u, w)
<1>1. /\ u.dist \in Nat /\ Len(u.path) \in Nat /\ u.path \in [1..Len(u.path) -> Int]
      /\ Turns(u.path) = Len(u.path) - 1
      /\ v.dist \in Nat /\ Len(v.path) \in Nat /\ v.path \in [1..Len(v.path) -> Int]
      /\ Turns(v.path) = Len(v.path) - 1
      /\ w.dist \in Nat /\ Len(w.path) \in Nat /\ w.path \in [1..Len(w.path) -> Int]
      /\ Turns(w.path) = Len(w.path) - 1
  BY WalkTyped
<1>2. ASSUME Len(u.path) = Len(v.path), Len(v.path) = Len(w.path),
             PathBefore(u.path, v.path), PathBefore(v.path, w.path)
      PROVE  PathBefore(u.path, w.path)
  <2> DEFINE n == Len(u.path)  p == u.path  q == v.path  r == w.path
  <2>1. n \in Nat /\ p \in [1..n -> Int] /\ q \in [1..n -> Int] /\ r \in [1..n -> Int]
    BY <1>1, <1>2
  <2>2. PathBefore(p, q) /\ PathBefore(q, r)
    BY <1>2
  <2> HIDE DEF n, p, q, r
  <2>3. PathBefore(p, r)
    BY <2>1, <2>2, PathsAreOrdered
  <2> QED
    BY <2>3 DEF p, r
<1> QED
  BY <1>1, <1>2 DEF Less

\* What does not come after something does not come after what is after that.
LEMMA LessEqIsTransitive ==
    ASSUME NEW u \in Walk, NEW v \in Walk, NEW w \in Walk, ~Less(v, u), ~Less(w, v)
    PROVE  ~Less(w, u)
<1> SUFFICES ASSUME Less(w, u) PROVE FALSE
  OBVIOUS
<1>1. CASE u = v
  BY <1>1
<1>2. CASE Less(u, v)
  BY <1>2, LessIsTransitive
<1> QED
  BY <1>1, <1>2, WalksAreOrdered

\* w with one arc more.
Ext(w, a) == [dist |-> w.dist + Length[a], path |-> Append(w.path, a)]

\* An arc makes a walk longer, and keeps the order of two walks.
LEMMA ExtensionsOrder ==
    ASSUME NEW u \in Walk, NEW a \in Arc, Ext(u, a).dist <= MaxDistance
    PROVE  /\ Ext(u, a) \in Walk /\ End(Ext(u, a)) = a
           /\ Len(Ext(u, a).path) = Len(u.path) + 1 /\ Ext(u, a).dist > u.dist
           /\ Less(u, Ext(u, a))
           /\ \A v \in Walk : ~Less(v, u) /\ Ext(v, a).dist <= MaxDistance => ~Less(Ext(v, a), Ext(u, a))
<1>0. Length[a] \in Nat \ {0} /\ Arc \subseteq Int /\ MaxDistance \in Nat
  BY GraphAssumption DEF Arc
<1>1. ASSUME NEW w \in Walk, Ext(w, a).dist <= MaxDistance
      PROVE  /\ Ext(w, a) \in Walk /\ End(Ext(w, a)) = a
             /\ Len(Ext(w, a).path) = Len(w.path) + 1 /\ Ext(w, a).dist = w.dist + Length[a]
             /\ Ext(w, a).path \in [1..(Len(w.path) + 1) -> Int]
             /\ Ext(w, a).path[Len(w.path) + 1] = a
             /\ \A i \in 1..Len(w.path) : Ext(w, a).path[i] = w.path[i]
  <2>1. w.dist \in Nat /\ w.path \in Seq(Arc) /\ Len(w.path) \in Nat
    BY WalkTyped
  <2> DEFINE p == Append(w.path, a)
  <2>2. /\ p \in Seq(Arc) /\ p # <<>> /\ Len(p) = Len(w.path) + 1 /\ p[Len(w.path) + 1] = a
        /\ \A i \in 1..Len(w.path) : p[i] = w.path[i]
    BY <2>1, AppendProperties
  <2>3. Ext(w, a).path = p /\ Ext(w, a).dist = w.dist + Length[a] /\ Ext(w, a) = [dist |-> w.dist + Length[a], path |-> p]
    BY DEF Ext
  <2> HIDE DEF p
  <2>4. w.dist + Length[a] \in 0..MaxDistance
    BY <1>0, <1>1, <2>1, <2>3
  <2>5. Ext(w, a) \in Walk
    BY <2>2, <2>3, <2>4 DEF Walk
  <2>6. p \in [1..(Len(w.path) + 1) -> Int]
    <3>1. p \in [1..Len(p) -> Arc]
      BY <2>2, LenProperties
    <3>2. p \in [1..(Len(w.path) + 1) -> Arc]
      BY <2>2, <3>1
    <3> QED
      BY <1>0, <3>2
  <2> QED
    BY <2>2, <2>3, <2>5, <2>6 DEF End
<1>2. Ext(u, a).dist > u.dist /\ Less(u, Ext(u, a))
  <2>1. u.dist \in Nat /\ Ext(u, a).dist = u.dist + Length[a]
    BY <1>1, WalkTyped
  <2>2. u.dist < Ext(u, a).dist /\ Ext(u, a).dist > u.dist
    BY <1>0, <2>1
  <2> QED
    BY <2>2 DEF Less
<1>3. ASSUME NEW v \in Walk, ~Less(v, u), Ext(v, a).dist <= MaxDistance, Less(Ext(v, a), Ext(u, a))
      PROVE  FALSE
  <2> DEFINE n == Len(u.path)
  <2>1. /\ u.dist \in Nat /\ n \in Nat /\ u.path \in [1..n -> Int] /\ Turns(u.path) = n - 1
        /\ v.dist \in Nat /\ Len(v.path) \in Nat /\ v.path \in [1..Len(v.path) -> Int]
        /\ Turns(v.path) = Len(v.path) - 1
    BY WalkTyped
  <2>2. Turns(Ext(u, a).path) = n /\ Turns(Ext(v, a).path) = Len(v.path)
    BY <1>1, <1>3, <2>1 DEF Turns
  <2>3. Ext(u, a).dist = u.dist + Length[a] /\ Ext(v, a).dist = v.dist + Length[a]
    BY <1>1, <1>3
  <2>4. u.dist = v.dist /\ Len(v.path) = n /\ PathBefore(Ext(v, a).path, Ext(u, a).path)
    BY <1>0, <1>3, <2>1, <2>2, <2>3 DEF Less
  <2> DEFINE p == v.path  q == u.path  x == Ext(v, a).path  y == Ext(u, a).path
  <2>5. /\ p \in [1..n -> Int] /\ q \in [1..n -> Int]
        /\ x \in [1..(n + 1) -> Int] /\ y \in [1..(n + 1) -> Int]
        /\ \A i \in 1..n : x[i] = p[i] /\ y[i] = q[i]
        /\ x[n + 1] = a /\ y[n + 1] = a
    BY <1>1, <1>3, <2>1, <2>4
  <2>6. PathBefore(p, q)
    <3>1. PathBefore(x, y) /\ n \in Nat /\ a \in Int
      BY <1>0, <2>1, <2>4
    <3> HIDE DEF p, q, x, y, n
    <3>2. PathBefore(x, y) <=> PathBefore(p, q) \/ (p = q /\ x[n + 1] < y[n + 1])
      BY <2>5, <3>1, LastDecides
    <3> QED
      BY <2>5, <3>1, <3>2
  <2> QED
    BY <1>3, <2>1, <2>4, <2>6 DEF Less
<1> QED
  BY <1>1, <1>2, <1>3

(***************************************************************************)
(* Walks(): the recursive function by which they are defined has values,   *)
(* and they are what it says.  The rules are a parameter here.             *)
(***************************************************************************)
Allows(R, a, b) == To[a] = From[b] /\ \A r \in R : r.from # a \/ r.to # b

LongerIn(R, w) ==
    { [dist |-> w.dist + Length[a], path |-> Append(w.path, a)] :
        a \in { a \in Arc : Allows(R, End(w), a) } }

InBudget(W) == { w \in W : w.dist <= MaxDistance }

\* The walks one arc longer, added.
Grown(R, W) == W \cup InBudget(UNION { LongerIn(R, w) : w \in W })

IsLayers(R, p, g) ==
    g = [n \in Nat |-> IF n = 0 THEN InBudget({FirstWalk(p)})
                       ELSE g[n - 1] \cup InBudget(UNION { LongerIn(R, w) : w \in g[n - 1] })]

WalksIn(R, p) == (CHOOSE g : IsLayers(R, p, g))[MaxDistance]

\* The first n + 1 layers.
IsBegun(R, p, g, n) ==
    g = [k \in 0..n |-> IF k = 0 THEN InBudget({FirstWalk(p)}) ELSE Grown(R, g[k - 1])]

\* There are such layers.
LEMMA BegunExist ==
    ASSUME NEW R, NEW p
    PROVE  \A n \in Nat : \E g : IsBegun(R, p, g, n)
<1> DEFINE P == { n \in Nat : \E g : IsBegun(R, p, g, n) }
<1>1. 0 \in P
  <2> DEFINE g == [k \in 0..0 |-> InBudget({FirstWalk(p)})]
  <2>1. g = [k \in 0..0 |-> IF k = 0 THEN InBudget({FirstWalk(p)}) ELSE Grown(R, g[k - 1])]
    BY \A k \in 0..0 : k = 0
  <2> HIDE DEF g
  <2> QED
    BY <2>1 DEF IsBegun
<1>2. ASSUME NEW n \in Nat, n \in P PROVE n + 1 \in P
  <2>1. PICK g : IsBegun(R, p, g, n)
    BY <1>2
  <2> DEFINE h == [k \in 0..(n + 1) |-> IF k <= n THEN g[k] ELSE Grown(R, g[n])]
             Next1(k) == IF k = 0 THEN InBudget({FirstWalk(p)}) ELSE Grown(R, h[k - 1])
  <2>2. ASSUME NEW k \in 0..(n + 1) PROVE h[k] = Next1(k)
    <3>1. CASE k = 0
      BY <2>1, <3>1 DEF IsBegun
    <3>2. CASE k # 0 /\ k <= n
      <4>1. k \in 0..n /\ k - 1 \in 0..(n + 1) /\ k - 1 <= n
        BY <3>2
      <4>2. g[k] = Grown(R, g[k - 1])
        BY <2>1, <3>2, <4>1 DEF IsBegun
      <4> QED
        BY <3>2, <4>1, <4>2
    <3>3. CASE k = n + 1
      <4>1. k - 1 = n /\ k # 0 /\ ~(k <= n) /\ n \in 0..(n + 1)
        BY <3>3
      <4> QED
        BY <3>3, <4>1
    <3> QED
      BY <3>1, <3>2, <3>3
  <2>3. h = [k \in 0..(n + 1) |-> Next1(k)]
    <3> HIDE DEF Next1
    <3> QED
      BY <2>2
  <2>4. IsBegun(R, p, h, n + 1)
    <3> HIDE DEF h
    <3> QED
      BY <2>3 DEF IsBegun
  <2> QED
    BY <2>4
<1> HIDE DEF P
<1>3. \A n \in Nat : n \in P
  BY <1>1, <1>2, NumberInduction
<1> QED
  BY <1>3 DEF P

\* Two of them agree where both are defined.
LEMMA BegunAgree ==
    ASSUME NEW R, NEW p, NEW n \in Nat, NEW m \in Nat, NEW g, NEW h,
           IsBegun(R, p, g, n), IsBegun(R, p, h, m)
    PROVE  \A k \in Nat : k <= n /\ k <= m => g[k] = h[k]
<1> DEFINE P == { k \in Nat : k <= n /\ k <= m => g[k] = h[k] }
<1>1. 0 \in P
  <2>1. 0 \in 0..n /\ 0 \in 0..m
    OBVIOUS
  <2>2. g[0] = InBudget({FirstWalk(p)}) /\ h[0] = InBudget({FirstWalk(p)})
    BY <2>1 DEF IsBegun
  <2> QED
    BY <2>2
<1>2. ASSUME NEW k \in Nat, k \in P PROVE k + 1 \in P
  <2> SUFFICES ASSUME k + 1 <= n, k + 1 <= m PROVE g[k + 1] = h[k + 1]
    OBVIOUS
  <2>1. k + 1 \in 0..n /\ k + 1 \in 0..m /\ k + 1 # 0 /\ (k + 1) - 1 = k
    OBVIOUS
  <2>2. g[k + 1] = Grown(R, g[k]) /\ h[k + 1] = Grown(R, h[k])
    BY <2>1 DEF IsBegun
  <2>3. g[k] = h[k]
    BY <1>2
  <2> QED
    BY <2>2, <2>3
<1> HIDE DEF P
<1>3. \A k \in Nat : k \in P
  BY <1>1, <1>2, NumberInduction
<1> QED
  BY <1>3 DEF P

\* The layers are what the recursion says.
LEMMA LayersExist ==
    ASSUME NEW R, NEW p
    PROVE  \E f : /\ f[0] = InBudget({FirstWalk(p)})
                  /\ \A n \in Nat : f[n + 1] = Grown(R, f[n])
                  /\ WalksIn(R, p) = f[MaxDistance]
<1> DEFINE F(n) == CHOOSE g : IsBegun(R, p, g, n)
           f == [n \in Nat |-> F(n)[n]]
           Next1(n) == IF n = 0 THEN InBudget({FirstWalk(p)})
                       ELSE f[n - 1] \cup InBudget(UNION { LongerIn(R, w) : w \in f[n - 1] })
<1>1. \A n \in Nat : IsBegun(R, p, F(n), n)
  BY BegunExist
<1> HIDE DEF F
<1>2. ASSUME NEW n \in Nat PROVE f[n] = Next1(n)
  <2>1. CASE n = 0
    <3>1. F(0)[0] = InBudget({FirstWalk(p)})
      <4>1. IsBegun(R, p, F(0), 0) /\ 0 \in 0..0
        BY <1>1
      <4> QED
        BY <4>1 DEF IsBegun
    <3> QED
      BY <2>1, <3>1
  <2>2. CASE n # 0
    <3>1. n - 1 \in Nat /\ n \in 0..n /\ n - 1 <= n
      BY <2>2
    <3>2. F(n)[n] = Grown(R, F(n)[n - 1])
      <4>1. IsBegun(R, p, F(n), n)
        BY <1>1
      <4> QED
        BY <2>2, <3>1, <4>1 DEF IsBegun
    <3>3. F(n)[n - 1] = F(n - 1)[n - 1]
      <4>1. IsBegun(R, p, F(n), n) /\ IsBegun(R, p, F(n - 1), n - 1)
        BY <1>1, <3>1
      <4> QED
        BY <3>1, <4>1, BegunAgree
    <3>4. f[n] = Grown(R, f[n - 1])
      BY <3>1, <3>2, <3>3
    <3> HIDE DEF f
    <3> QED
      BY <2>2, <3>4 DEF Grown
  <2> QED
    BY <2>1, <2>2
<1>3. IsLayers(R, p, f)
  <2>1. f = [n \in Nat |-> Next1(n)]
    <3> HIDE DEF Next1
    <3> QED
      BY <1>2
  <2> HIDE DEF f
  <2> QED
    BY <2>1 DEF IsLayers
<1> HIDE DEF f
<1>4. \E g : IsLayers(R, p, g)
  BY <1>3
<1>5. PICK g : IsLayers(R, p, g) /\ WalksIn(R, p) = g[MaxDistance]
  BY <1>4 DEF WalksIn
<1>6. g[0] = InBudget({FirstWalk(p)})
  BY <1>5 DEF IsLayers
<1>7. ASSUME NEW n \in Nat PROVE g[n + 1] = Grown(R, g[n])
  <2>1. n + 1 \in Nat /\ n + 1 # 0 /\ (n + 1) - 1 = n
    OBVIOUS
  <2> QED
    BY <1>5, <2>1 DEF IsLayers, Grown
<1> QED
  BY <1>5, <1>6, <1>7

\* A longer walk is an extension of the one before.
LEMMA LongerExtends ==
    ASSUME NEW R, NEW w, NEW v
    PROVE  v \in LongerIn(R, w) <=> \E a \in Arc : Allows(R, End(w), a) /\ v = Ext(w, a)
BY DEF LongerIn, Ext

\* A layer holds walks, each since the layer of its length.
LEMMA LayersHold ==
    ASSUME NEW R, NEW p \in Matched, NEW f, f[0] = InBudget({FirstWalk(p)}),
           \A n \in Nat : f[n + 1] = Grown(R, f[n])
    PROVE  \A n \in Nat : \A w \in f[n] :
             /\ w \in Walk /\ Len(w.path) - 1 <= w.dist /\ Len(w.path) - 1 <= n
             /\ w \in f[Len(w.path) - 1]
             /\ w = FirstWalk(p) \/ \E u \in f[n] : w \in LongerIn(R, u)
<1> DEFINE Holds(n, w) ==
             /\ w \in Walk /\ Len(w.path) - 1 <= w.dist /\ Len(w.path) - 1 <= n
             /\ w \in f[Len(w.path) - 1]
             /\ w = FirstWalk(p) \/ \E u \in f[n] : w \in LongerIn(R, u)
           P == { n \in Nat : \A w \in f[n] : Holds(n, w) }
<1>1. 0 \in P
  <2> SUFFICES ASSUME NEW w \in f[0] PROVE Holds(0, w)
    OBVIOUS
  <2>1. w = FirstWalk(p) /\ w.dist <= MaxDistance
    BY DEF InBudget
  <2>2. w \in Walk
    BY <2>1, FirstWalkLegal
  <2>3. Len(w.path) = 1
    BY <2>1 DEF FirstWalk
  <2> QED
    BY <2>1, <2>2, <2>3, WalkTyped
<1>2. ASSUME NEW n \in Nat, n \in P PROVE n + 1 \in P
  <2> SUFFICES ASSUME NEW w \in f[n + 1] PROVE Holds(n + 1, w)
    OBVIOUS
  <2>1. f[n + 1] = f[n] \cup InBudget(UNION { LongerIn(R, u) : u \in f[n] })
    BY DEF Grown
  <2>2. f[n] \subseteq f[n + 1]
    BY <2>1
  <2>3. CASE w \in f[n]
    <3>1. Holds(n, w)
      BY <1>2, <2>3
    <3> HIDE DEF P
    <3>2. Len(w.path) \in Nat
      BY <3>1, WalkTyped
    <3>3. Len(w.path) - 1 <= n + 1
      <4>1. Len(w.path) - 1 <= n
        BY <3>1
      <4> QED
        BY <3>2, <4>1
    <3>4. w = FirstWalk(p) \/ \E u \in f[n + 1] : w \in LongerIn(R, u)
      BY <2>2, <3>1
    <3> QED
      BY <3>1, <3>3, <3>4
  <2>4. CASE w \notin f[n]
    <3>1. PICK u \in f[n] : w \in LongerIn(R, u) /\ w.dist <= MaxDistance
      BY <2>1, <2>4 DEF InBudget
    <3>2. u \in Walk /\ Len(u.path) - 1 <= u.dist /\ Len(u.path) - 1 <= n /\ u \in f[Len(u.path) - 1]
      BY <1>2
    <3> HIDE DEF P
    <3>3. PICK a \in Arc : w = Ext(u, a)
      BY <3>1, LongerExtends
    <3>4. /\ w \in Walk /\ Len(w.path) = Len(u.path) + 1 /\ w.dist > u.dist
          /\ Len(u.path) \in Nat \ {0} /\ u.dist \in Nat /\ w.dist \in Nat
      BY <3>1, <3>2, <3>3, ExtensionsOrder, WalkTyped
    <3> DEFINE m == Len(u.path) - 1
    <3>5. m \in Nat /\ u \in f[m]
      <4>1. m \in Nat
        BY <3>4
      <4>2. u \in f[m]
        BY <3>2
      <4> QED
        BY <4>1, <4>2
    <3>6. m + 1 = Len(w.path) - 1
      BY <3>4
    <3>7. m <= u.dist /\ m <= n
      BY <3>2
    <3> HIDE DEF m
    <3>8. w \in f[m + 1]
      <4>1. f[m + 1] = f[m] \cup InBudget(UNION { LongerIn(R, v) : v \in f[m] })
        BY <3>5 DEF Grown
      <4> QED
        BY <3>1, <3>5, <4>1 DEF InBudget
    <3>9. m + 1 <= w.dist /\ m + 1 <= n + 1
      <4> DEFINE d == u.dist  e == w.dist
      <4>1. d \in Nat /\ e \in Nat /\ e > d /\ m <= d
        BY <3>4, <3>7
      <4> HIDE DEF d, e
      <4>2. m + 1 <= e
        BY <3>5, <4>1
      <4>3. m + 1 <= n + 1
        BY <3>5, <3>7
      <4> QED
        BY <4>2, <4>3 DEF e
    <3>10. \E v \in f[n + 1] : w \in LongerIn(R, v)
      BY <2>2, <3>1
    <3> QED
      BY <3>4, <3>6, <3>8, <3>9, <3>10
  <2> QED
    BY <2>3, <2>4
<1> HIDE DEF P
<1>3. \A n \in Nat : n \in P
  BY <1>1, <1>2, NumberInduction
<1> QED
  BY <1>3 DEF P

\* What Walks() holds: the first walk and, with a walk, its extensions within the
\* budget; and nothing else.
LEMMA WalksHold ==
    ASSUME NEW R, NEW p \in Matched
    PROVE  LET W == WalksIn(R, p)
           IN  /\ W \subseteq Walk
               /\ FirstWalk(p).dist <= MaxDistance => FirstWalk(p) \in W
               /\ \A u \in W : \A w \in LongerIn(R, u) : w.dist <= MaxDistance => w \in W
               /\ \A w \in W : w = FirstWalk(p) \/ \E u \in W : w \in LongerIn(R, u)
<1>1. PICK f : /\ f[0] = InBudget({FirstWalk(p)})
               /\ \A n \in Nat : f[n + 1] = Grown(R, f[n])
               /\ WalksIn(R, p) = f[MaxDistance]
  BY LayersExist
<1> DEFINE W == f[MaxDistance]
<1>2. MaxDistance \in Nat \ {0}
  BY GraphAssumption
<1>3. \A n \in Nat : \A w \in f[n] :
             /\ w \in Walk /\ Len(w.path) - 1 <= w.dist /\ Len(w.path) - 1 <= n
             /\ w \in f[Len(w.path) - 1]
             /\ w = FirstWalk(p) \/ \E u \in f[n] : w \in LongerIn(R, u)
  BY <1>1, LayersHold
<1>4. ASSUME NEW k \in Nat, NEW w \in f[k], NEW n \in Nat, k <= n PROVE w \in f[n]
  <2> DEFINE P == { m \in Nat : w \in f[k + m] }
  <2>1. 0 \in P
    OBVIOUS
  <2>2. ASSUME NEW m \in Nat, m \in P PROVE m + 1 \in P
    <3> DEFINE i == k + m
    <3>1. i \in Nat /\ k + (m + 1) = i + 1 /\ w \in f[i]
      BY <2>2
    <3> HIDE DEF i
    <3>2. w \in f[i + 1]
      <4>1. f[i + 1] = Grown(R, f[i])
        BY <1>1, <3>1
      <4> QED
        BY <3>1, <4>1 DEF Grown
    <3>3. w \in f[k + (m + 1)]
      BY <3>1, <3>2
    <3> QED
      BY <3>3
  <2> HIDE DEF P
  <2>3. \A m \in Nat : m \in P
    BY <2>1, <2>2, NumberInduction
  <2>4. n - k \in Nat /\ k + (n - k) = n
    BY <1>4
  <2> QED
    BY <2>3, <2>4 DEF P
<1>5. W \subseteq Walk /\ \A w \in W : w = FirstWalk(p) \/ \E u \in W : w \in LongerIn(R, u)
  BY <1>2, <1>3
<1>6. ASSUME FirstWalk(p).dist <= MaxDistance PROVE FirstWalk(p) \in W
  <2>1. FirstWalk(p) \in f[0]
    BY <1>1, <1>6 DEF InBudget
  <2> QED
    BY <1>2, <1>4, <2>1
<1>7. ASSUME NEW u \in W, NEW w \in LongerIn(R, u), w.dist <= MaxDistance PROVE w \in W
  <2>1. /\ u \in Walk /\ Len(u.path) - 1 <= u.dist /\ u \in f[Len(u.path) - 1]
        /\ Len(u.path) \in Nat \ {0} /\ u.dist \in Nat
    BY <1>2, <1>3, WalkTyped
  <2>2. PICK a \in Arc : w = Ext(u, a)
    BY <1>7, LongerExtends
  <2>3. w.dist > u.dist /\ w.dist \in Nat
    BY <1>7, <2>1, <2>2, ExtensionsOrder, WalkTyped
  <2> DEFINE m == Len(u.path) - 1
  <2>4. m \in Nat /\ m + 1 <= MaxDistance /\ u \in f[m]
    BY <1>2, <1>7, <2>1, <2>3
  <2> HIDE DEF m
  <2>5. w \in f[m + 1]
    <3>1. f[m + 1] = f[m] \cup InBudget(UNION { LongerIn(R, v) : v \in f[m] })
      BY <1>1, <2>4 DEF Grown
    <3> QED
      BY <1>7, <2>4, <3>1 DEF InBudget
  <2>6. m + 1 \in Nat
    BY <2>4
  <2> QED
    BY <1>2, <1>4, <2>4, <2>5, <2>6
<1> HIDE DEF W
<1>8. WalksIn(R, p) = W
  BY <1>1 DEF W
<1> QED
  BY <1>5, <1>6, <1>7, <1>8

\* There is no walk when the first arc exceeds the budget.
LEMMA NoWalks ==
    ASSUME NEW R, NEW p \in Matched, FirstWalk(p).dist > MaxDistance
    PROVE  WalksIn(R, p) = {}
<1> DEFINE P == { n \in Nat : \A w \in WalksIn(R, p) : Len(w.path) > n }
<1>0. FirstWalk(p).dist \in Int /\ MaxDistance \in Int
  BY GraphAssumption DEF FirstWalk, Matched
<1>1. 0 \in P
  BY WalksHold, WalkTyped
<1>2. ASSUME NEW n \in Nat, n \in P PROVE n + 1 \in P
  <2> SUFFICES ASSUME NEW w \in WalksIn(R, p) PROVE Len(w.path) > n + 1
    OBVIOUS
  <2>1. w \in Walk /\ w # FirstWalk(p)
    BY <1>0, WalksHold, WalkTyped
  <2>2. PICK u \in WalksIn(R, p) : w \in LongerIn(R, u)
    BY <2>1, WalksHold
  <2>3. u \in Walk /\ Len(u.path) > n
    BY <1>2, WalksHold
  <2>4. PICK a \in Arc : w = Ext(u, a)
    BY <2>2, LongerExtends
  <2>5. Len(w.path) = Len(u.path) + 1 /\ Len(u.path) \in Nat
    BY <2>1, <2>3, <2>4, ExtensionsOrder, WalkTyped
  <2> QED
    BY <2>3, <2>5
<1> HIDE DEF P
<1>3. \A n \in Nat : n \in P
  BY <1>1, <1>2, NumberInduction
<1>4. ASSUME NEW w \in WalksIn(R, p) PROVE FALSE
  <2>1. Len(w.path) \in Nat
    BY WalksHold, WalkTyped
  <2>2. Len(w.path) > Len(w.path)
    BY <1>3, <2>1 DEF P
  <2> QED
    BY <2>1, <2>2
<1> QED
  BY <1>4

(***************************************************************************)
(* Blocked(): what the rules say of a turn.                                *)
(***************************************************************************)

\* A forbidding rule wins, an uninterpreted one blocks too, and no rule lets pass.
LEMMA BlockedTells ==
    ASSUME rules \subseteq Rule, NEW a, NEW b
    PROVE  /\ Blocked(a, b) \in {"none", "forbidden", "unknown"}
           /\ Blocked(a, b) = "none" <=> \A r \in rules : r.from # a \/ r.to # b
           /\ Blocked(a, b) = "forbidden" <=> [from |-> a, to |-> b, state |-> "forbidden"] \in rules
           /\ Blocked(a, b) = "unknown" => [from |-> a, to |-> b, state |-> "unknown"] \in rules
<1> DEFINE states == { r.state : r \in { r \in rules : r.from = a /\ r.to = b } }
<1>1. /\ "forbidden" \in states => Blocked(a, b) = "forbidden"
      /\ "forbidden" \notin states /\ states = {} => Blocked(a, b) = "none"
      /\ "forbidden" \notin states /\ states # {} => Blocked(a, b) = "unknown"
  BY DEF Blocked
<1>2. \A r \in rules : r.state \in {"forbidden", "unknown"}
                       /\ r = [from |-> r.from, to |-> r.to, state |-> r.state]
  BY GraphAssumption
<1>3. states = {} <=> \A r \in rules : r.from # a \/ r.to # b
  OBVIOUS
<1>4. "forbidden" \in states <=> [from |-> a, to |-> b, state |-> "forbidden"] \in rules
  BY <1>2
<1>5. ASSUME states # {}, "forbidden" \notin states
      PROVE  [from |-> a, to |-> b, state |-> "unknown"] \in rules
  <2>1. PICK r \in rules : r.from = a /\ r.to = b
    BY <1>5
  <2>2. r.state # "forbidden"
    BY <1>5, <2>1
  <2> QED
    BY <1>2, <2>1, <2>2
<1>6. "forbidden" \in states => states # {}
  OBVIOUS
<1> HIDE DEF states
<1> QED
  BY <1>1, <1>3, <1>4, <1>5, <1>6

\* A walk may be continued by exactly the arcs that Blocked() lets pass.
LEMMA PassingIsAllowed ==
    ASSUME rules \subseteq Rule, NEW w
    PROVE  /\ Successors(w) = { v \in LongerIn(rules, w) : v.dist <= MaxDistance }
           /\ Enters(w) <=> Allows(rules, End(w), Target.arc)
<1>1. ASSUME NEW a
      PROVE  (From[a] = To[End(w)] /\ Blocked(End(w), a) = "none") <=> Allows(rules, End(w), a)
  <2>1. PICK e : e = End(w)
    OBVIOUS
  <2>2. Blocked(e, a) = "none" <=> \A r \in rules : r.from # e \/ r.to # a
    BY BlockedTells
  <2> QED
    BY <2>1, <2>2 DEF Allows
<1>2. Successors(w) = { v \in LongerIn(rules, w) : v.dist <= MaxDistance }
  BY <1>1 DEF Successors, LongerIn
<1>3. Enters(w) <=> Allows(rules, End(w), Target.arc)
  BY <1>1 DEF Enters, AtTarget
<1> QED
  BY <1>2, <1>3

(***************************************************************************)
(* The search covers every walk.                                           *)
(***************************************************************************)

\* v is still to be expanded, or its state was by a walk that is no worse.
Reached(v) == v \in queue \/ (End(v) \in DOMAIN best /\ ~Less(v, best[End(v)]))

\* The rule of a turn into the target.
Into(a, state) == [from |-> a, to |-> Target.arc, state |-> state]

\* While the search goes on, it has walks only, what it expanded did not enter the
\* target, what continues it is reached, and the rejections are those of its states.
Explores ==
    /\ query = NoQuery => targetRejections = {}
    /\ Searching =>
         /\ ~Direct(query[1], query[2])
         /\ queue \subseteq WalksIn(rules, query[1])
         /\ \A a \in DOMAIN best :
              /\ best[a] \in WalksIn(rules, query[1]) /\ End(best[a]) = a
              /\ ~Allows(rules, a, Target.arc)
              /\ \A v \in LongerIn(rules, best[a]) : v.dist <= MaxDistance => Reached(v)
         /\ Reached(FirstWalk(query[1]))
         /\ \A state \in targetRejections :
              \E a \in DOMAIN best : To[a] = From[Target.arc] /\ Into(a, state) \in rules
         /\ \A a \in DOMAIN best : To[a] = From[Target.arc] =>
              /\ targetRejections # {}
              /\ Into(a, "forbidden") \in rules => "forbidden" \in targetRejections

\* v is no better than the walk its state is ranked by, or than one of the queue.
Covered(v) == \/ End(v) \in DOMAIN best /\ ~Less(v, best[End(v)])
              \/ \E u \in queue : ~Less(v, u)

\* No walk is better than all that the search has or had.
LEMMA EveryWalkIsCovered ==
    ASSUME Inv, Explores, Searching
    PROVE  \A v \in WalksIn(rules, query[1]) : Covered(v)
<1> DEFINE p == query[1]
           W == WalksIn(rules, p)
           P == { n \in Nat : \A v \in W : Len(v.path) <= n => Covered(v) }
<1>1. p \in Matched /\ queue \subseteq Walk /\ \A a \in DOMAIN best : best[a] \in Walk
  BY DEF Inv, SearchTypes, Searching
<1>2. W \subseteq Walk
  BY <1>1, WalksHold
<1> HIDE DEF W
<1>3. ASSUME NEW v \in W, Reached(v) PROVE Covered(v)
  BY <1>2, <1>3, WalksAreOrdered DEF Reached, Covered
<1>4. 0 \in P
  BY <1>2, WalkTyped
<1>5. ASSUME NEW n \in Nat, n \in P PROVE n + 1 \in P
  <2> SUFFICES ASSUME NEW v \in W, Len(v.path) <= n + 1 PROVE Covered(v)
    OBVIOUS
  <2>1. CASE v = FirstWalk(p)
    BY <1>3, <2>1 DEF Explores
  <2>2. CASE v # FirstWalk(p)
    <3>1. PICK u \in W : v \in LongerIn(rules, u)
      BY <1>1, <2>2, WalksHold DEF W
    <3>2. PICK a \in Arc : Allows(rules, End(u), a) /\ v = Ext(u, a)
      BY <3>1, LongerExtends
    <3>3. u \in Walk /\ v \in Walk /\ v.dist <= MaxDistance
      BY <1>2, WalkTyped
    <3>4. /\ Len(v.path) = Len(u.path) + 1 /\ Less(u, v) /\ End(v) = a
          /\ \A x \in Walk : ~Less(x, u) /\ Ext(x, a).dist <= MaxDistance => ~Less(Ext(x, a), v)
      BY <3>2, <3>3, ExtensionsOrder
    <3>5. Len(u.path) <= n /\ Len(u.path) \in Nat
      BY <3>3, <3>4, WalkTyped
    <3>6. Covered(u)
      BY <1>5, <3>5
    <3> HIDE DEF P
    <3>7. CASE \E x \in queue : ~Less(u, x)
      <4>1. PICK x \in queue : ~Less(u, x)
        BY <3>7
      <4>2. x \in Walk /\ ~Less(v, u)
        BY <1>1, <3>3, <3>4, WalksAreOrdered
      <4>3. ~Less(v, x)
        BY <3>3, <4>1, <4>2, LessEqIsTransitive
      <4> QED
        BY <4>3 DEF Covered
    <3>8. CASE End(u) \in DOMAIN best /\ ~Less(u, best[End(u)])
      <4> DEFINE b == best[End(u)]
                 x == Ext(b, a)
      <4>1. b \in Walk /\ End(b) = End(u) /\ b \in W
            /\ \A y \in LongerIn(rules, b) : y.dist <= MaxDistance => Reached(y)
        BY <1>1, <3>8 DEF Explores, W
      <4>2. x \in LongerIn(rules, b)
        BY <3>2, <4>1, LongerExtends
      <4>3. x.dist <= MaxDistance
        <5>1. b.dist <= u.dist
          BY <3>3, <3>8, <4>1, WalkTyped DEF Less
        <5>2. x.dist = b.dist + Length[a] /\ v.dist = u.dist + Length[a]
          BY <3>2 DEF Ext
        <5>3. b.dist \in Nat /\ u.dist \in Nat /\ Length[a] \in Nat /\ MaxDistance \in Nat
          BY <3>3, <4>1, GraphAssumption, WalkTyped
        <5> QED
          BY <3>3, <5>1, <5>2, <5>3
      <4>4. x \in Walk /\ End(x) = a
        BY <4>1, <4>3, ExtensionsOrder
      <4>5. ~Less(v, x)
        <5>1. \A y \in Walk : ~Less(y, b) /\ Ext(y, a).dist <= MaxDistance => ~Less(Ext(y, a), Ext(b, a))
          BY <4>1, <4>3, ExtensionsOrder
        <5>2. ~Less(u, b)
          BY <3>8
        <5> QED
          BY <3>2, <3>3, <5>1, <5>2
      <4>6. Reached(x)
        BY <4>1, <4>2, <4>3
      <4> HIDE DEF x, b
      <4>7. CASE x \in queue
        BY <4>5, <4>7 DEF Covered
      <4>8. CASE a \in DOMAIN best /\ ~Less(x, best[a])
        <5>1. best[a] \in Walk
          BY <1>1, <4>8
        <5>2. ~Less(v, best[a])
          BY <3>3, <4>4, <4>5, <4>8, <5>1, LessEqIsTransitive
        <5> QED
          BY <3>4, <4>8, <5>2 DEF Covered
      <4> QED
        BY <4>4, <4>6, <4>7, <4>8 DEF Reached
    <3> QED
      BY <3>6, <3>7, <3>8 DEF Covered
  <2> QED
    BY <2>1, <2>2
<1> HIDE DEF P
<1>6. \A n \in Nat : n \in P
  BY <1>4, <1>5, NumberInduction
<1>7. ASSUME NEW v \in W PROVE Covered(v)
  <2>1. Len(v.path) \in Nat
    BY <1>2, WalkTyped
  <2>2. Len(v.path) <= Len(v.path)
    BY <2>1
  <2> QED
    BY <1>6, <2>1, <2>2 DEF P
<1> QED
  BY <1>7 DEF W

(***************************************************************************)
(* What an exact answer is, with the rules and the points as parameters.   *)
(***************************************************************************)
ReachingIn(R, p, c) == { w \in WalksIn(R, p) : Allows(R, End(w), c.arc) }

AffordableIn(R, p, c) == { w \in ReachingIn(R, p, c) : w.dist + c.off <= MaxDistance }

FirstOfAll(A) == CHOOSE w \in A : First(w, A)

LeastIn(R, p, c) ==
    IF Direct(p, c) THEN Found(c.off - p.off, <<p.arc>>)
    ELSE IF AffordableIn(R, p, c) = {} THEN Rejected("none in reach")
    ELSE Found(FirstOfAll(AffordableIn(R, p, c)).dist + c.off,
               PathInto(FirstOfAll(AffordableIn(R, p, c)).path, c.arc))

RefusedIn(R, p, c, state) ==
    \E w \in WalksIn(R, p), r \in R :
       To[End(w)] = From[c.arc] /\ r = [from |-> End(w), to |-> c.arc, state |-> state]

Exact(R, p, c, r, v) ==
    IF r.reason = "none" THEN r = LeastIn(R, p, c)
    ELSE CASE r.reason = "graph_search_budget" ->
                 \/ v > MaxStates \/ WalksIn(R, p) = {}
                 \/ ReachingIn(R, p, c) # {} /\ AffordableIn(R, p, c) = {}
            [] r.reason = "forbidden_turn" -> ReachingIn(R, p, c) = {} /\ RefusedIn(R, p, c, "forbidden")
            [] r.reason = "unknown_restriction" ->
                 /\ ReachingIn(R, p, c) = {} /\ RefusedIn(R, p, c, "unknown")
                 /\ ~RefusedIn(R, p, c, "forbidden")
            [] r.reason = "no_directed_path" ->
                 /\ ReachingIn(R, p, c) = {} /\ ~RefusedIn(R, p, c, "unknown")
                 /\ ~RefusedIn(R, p, c, "forbidden")

\* The property says that every answer is exact, before and after a step.
LEMMA ExactUnfolds ==
    /\ AnswersAreExact <=> (route # NoRoute => Exact(rules, query[1], query[2], route, visited))
    /\ AnswersAreExact' <=> (route' # NoRoute => Exact(rules', query'[1], query'[2], route', visited'))
<1>1. ASSUME NEW p, NEW c
      PROVE  /\ Walks(p) = WalksIn(rules, p) /\ Walks(p)' = WalksIn(rules', p)
             /\ Reaching(p, c) = ReachingIn(rules, p, c)
             /\ Reaching(p, c)' = ReachingIn(rules', p, c)
             /\ Affordable(p, c) = AffordableIn(rules, p, c)
             /\ Affordable(p, c)' = AffordableIn(rules', p, c)
  <2>1. Walks(p) = WalksIn(rules, p) /\ Walks(p)' = WalksIn(rules', p)
    BY DEF Walks, WalksIn, IsLayers, InBudget, LongerIn, Allows, Longer, Legal
  <2>2. Reaching(p, c) = ReachingIn(rules, p, c) /\ Reaching(p, c)' = ReachingIn(rules', p, c)
    BY <2>1 DEF Reaching, ReachingIn, Legal, Allows
  <2> QED
    BY <2>1, <2>2 DEF Affordable, AffordableIn
<1>2. ASSUME NEW p, NEW c
      PROVE  /\ LeastRoute(p, c) = LeastIn(rules, p, c)
             /\ LeastRoute(p, c)' = LeastIn(rules', p, c)
  BY DEF LeastRoute, LeastIn, FirstOfAll, Affordable, AffordableIn, Reaching, ReachingIn,
         Walks, WalksIn, IsLayers, InBudget, LongerIn, Allows, Longer, Legal
<1>3. /\ RouteIsLeast <=> (route # NoRoute /\ route.reason = "none" => route = LeastIn(rules, query[1], query[2]))
      /\ RouteIsLeast' <=> (route' # NoRoute /\ route'.reason = "none" => route' = LeastIn(rules', query'[1], query'[2]))
  BY <1>2 DEF RouteIsLeast
<1> DEFINE Why(R, p, c, r, v) ==
             CASE r.reason = "graph_search_budget" ->
                    \/ v > MaxStates \/ WalksIn(R, p) = {}
                    \/ ReachingIn(R, p, c) # {} /\ AffordableIn(R, p, c) = {}
               [] r.reason = "forbidden_turn" -> ReachingIn(R, p, c) = {} /\ RefusedIn(R, p, c, "forbidden")
               [] r.reason = "unknown_restriction" ->
                    /\ ReachingIn(R, p, c) = {} /\ RefusedIn(R, p, c, "unknown")
                    /\ ~RefusedIn(R, p, c, "forbidden")
               [] r.reason = "no_directed_path" ->
                    /\ ReachingIn(R, p, c) = {} /\ ~RefusedIn(R, p, c, "unknown")
                    /\ ~RefusedIn(R, p, c, "forbidden")
<1>4. /\ RejectionIsHonest <=> (route # NoRoute /\ route.reason # "none" =>
                                 Why(rules, query[1], query[2], route, visited))
      /\ RejectionIsHonest' <=> (route' # NoRoute /\ route'.reason # "none" =>
                                 Why(rules', query'[1], query'[2], route', visited'))
  BY DEF RejectionIsHonest, RefusedIn, AtTarget, Target, Affordable, AffordableIn, Reaching, ReachingIn,
         Walks, WalksIn, IsLayers, InBudget, LongerIn, Allows, Longer, Legal
<1>5. \A R, p, c, r, v : Exact(R, p, c, r, v) <=> IF r.reason = "none" THEN r = LeastIn(R, p, c)
                                                  ELSE Why(R, p, c, r, v)
  BY DEF Exact
<1> HIDE DEF Why
<1> QED
  BY <1>3, <1>4, <1>5 DEF AnswersAreExact

(***************************************************************************)
(* Every step keeps what the search covers.                                *)
(***************************************************************************)

\* A rejection and a found route are results.
LEMMA ResultsAreRoutes ==
    /\ \A reason \in Reason : Rejected(reason) # NoRoute /\ Rejected(reason).reason = reason
    /\ \A dist \in Int, path \in Seq(Arc) : Found(dist, path) # NoRoute
<1>1. ASSUME NEW reason \in Reason PROVE Rejected(reason) \in Route
  <2>1. <<>> \in Seq(Arc)
    BY EmptySeq
  <2> QED
    BY <2>1 DEF Rejected, Route
<1>2. ASSUME NEW dist \in Int, NEW path \in Seq(Arc) PROVE Found(dist, path) \in Route
  BY DEF Found, Route, Reason
<1> QED
  BY <1>1, <1>2, NothingAssumption DEF Rejected

\* A question: the queue has the first walk, unless it is answered at once.
LEMMA AskExplores ==
    ASSUME Inv, Explores, NEW p \in Matched, NEW c \in Matched, Ask(p, c)
    PROVE  Explores' /\ AnswersAreExact'
<1>1. /\ query' = <<p, c>> /\ query'[1] = p /\ query'[2] = c /\ query' # NoQuery
      /\ rules' = rules /\ best' = best /\ visited' = visited /\ targetRejections' = targetRejections
  BY NothingAssumption DEF Ask
<1>2. queue = {} /\ DOMAIN best = {} /\ route = NoRoute /\ targetRejections = {}
  BY DEF Inv, Explores, Ask
<1>3. FirstWalk(p).dist \in Int /\ MaxDistance \in Int
  BY GraphAssumption DEF FirstWalk, Matched
<1>4. CASE Direct(p, c)
  <2>1. route' = Found(c.off - p.off, <<p.arc>>) /\ route'.reason = "none"
    BY <1>4 DEF Ask, Found
  <2>2. route' # NoRoute
    <3>1. c.off - p.off \in Int /\ <<p.arc>> \in Seq(Arc)
      BY GraphAssumption DEF Matched
    <3> QED
      BY <2>1, <3>1, ResultsAreRoutes
  <2>3. Exact(rules', query'[1], query'[2], route', visited')
    BY <1>1, <1>4, <2>1 DEF Exact, LeastIn
  <2> QED
    BY <1>1, <2>2, <2>3, ExactUnfolds DEF Explores, Searching
<1>5. CASE ~Direct(p, c) /\ FirstWalk(p).dist > MaxDistance
  <2>1. route' = Rejected("graph_search_budget") /\ route'.reason = "graph_search_budget"
    BY <1>5 DEF Ask, Rejected
  <2>2. route' # NoRoute
    BY <2>1, ResultsAreRoutes DEF Reason
  <2>3. WalksIn(rules, p) = {}
    BY <1>5, NoWalks
  <2>4. Exact(rules', query'[1], query'[2], route', visited')
    BY <1>1, <2>1, <2>3 DEF Exact
  <2> QED
    BY <1>1, <2>2, <2>4, ExactUnfolds DEF Explores, Searching
<1>6. CASE ~Direct(p, c) /\ ~(FirstWalk(p).dist > MaxDistance)
  <2>1. queue' = {FirstWalk(p)} /\ route' = NoRoute
    BY <1>2, <1>6 DEF Ask
  <2>2. FirstWalk(p) \in WalksIn(rules, p)
    <3>1. FirstWalk(p).dist <= MaxDistance
      BY <1>3, <1>6
    <3> QED
      BY <3>1, WalksHold
  <2>3. Reached(FirstWalk(p))'
    BY <2>1 DEF Reached
  <2>4. Reached(FirstWalk(query[1]))'
    BY <1>1, <2>1 DEF Reached
  <2>5. Explores'
    BY <1>1, <1>2, <1>6, <2>1, <2>2, <2>4 DEF Explores
  <2> QED
    BY <2>1, <2>5, ExactUnfolds
<1> QED
  BY <1>4, <1>5, <1>6

\* A stale walk leaves the queue: its state was by one that is no worse.
LEMMA StaleExplores ==
    ASSUME Inv, Explores, NEW w \in queue, Stale(w)
    PROVE  Explores' /\ AnswersAreExact'
<1>1. /\ Searching /\ queue' = queue \ {w} /\ route' = NoRoute /\ query' = query /\ rules' = rules
      /\ best' = best /\ targetRejections' = targetRejections
      /\ End(w) \in DOMAIN best /\ ~Less(w, best[End(w)])
  BY DEF Stale, Searching, Fresh
<1>2. \A v : Reached(v) => Reached(v)'
  BY <1>1 DEF Reached
<1>3. Reached(FirstWalk(query[1]))'
  <2>1. PICK v : v = FirstWalk(query[1])
    OBVIOUS
  <2>2. Reached(v)'
    BY <1>1, <1>2, <2>1 DEF Explores
  <2> QED
    BY <1>1, <2>1, <2>2 DEF Reached
<1>4. ASSUME NEW a \in DOMAIN best, NEW v \in LongerIn(rules, best[a]), v.dist <= MaxDistance
      PROVE  Reached(v)'
  <2>1. Reached(v)
    BY <1>1, <1>4 DEF Explores
  <2> QED
    BY <1>2, <2>1
<1>5. Explores'
  BY <1>1, <1>3, <1>4 DEF Explores, Target, Into, Searching
<1> QED
  BY <1>1, <1>5, ExactUnfolds

\* The state budget is exceeded.
LEMMA OverrunAnswers ==
    ASSUME Inv, Explores, NEW w \in queue, Overrun(w)
    PROVE  Explores' /\ AnswersAreExact'
<1>1. /\ Searching /\ query' = query /\ query # NoQuery
      /\ visited' = visited + 1 /\ visited >= MaxStates
      /\ route' = Rejected("graph_search_budget")
  BY DEF Overrun, Visit, Searching
<1>2. route'.reason = "graph_search_budget" /\ route' # NoRoute
  BY <1>1, ResultsAreRoutes DEF Reason
<1>3. visited' > MaxStates
  BY <1>1, GraphAssumption DEF Inv, SearchTypes
<1>4. Exact(rules', query'[1], query'[2], route', visited')
  BY <1>2, <1>3 DEF Exact
<1> QED
  BY <1>1, <1>2, <1>4, ExactUnfolds DEF Explores, Searching

\* What the step looks at.
LEMMA Searched ==
    ASSUME Inv, Searching
    PROVE  \E p \in Matched, c \in Matched :
             /\ query = <<p, c>> /\ query[1] = p /\ query[2] = c /\ Target = c
             /\ c.arc \in Arc /\ c.off \in Nat
<1>1. query \in Matched \X Matched
  BY DEF Inv, SearchTypes, Searching
<1>2. PICK p \in Matched, c \in Matched : query = <<p, c>>
  BY <1>1
<1>3. c.arc \in Arc /\ c.off \in Nat
  BY GraphAssumption DEF Matched
<1> QED
  BY <1>2, <1>3 DEF Target

\* The walk that enters the target is the first of all that reach it.
LEMMA ArriveAnswers ==
    ASSUME Inv, Explores, NEW w \in queue, Arrive(w)
    PROVE  Explores' /\ AnswersAreExact'
<1>1. Searching /\ Top(w) /\ query' = query /\ query # NoQuery /\ rules' = rules /\ Enters(w)
  BY DEF Arrive, Visit, Searching
<1>2. PICK p \in Matched, c \in Matched :
             /\ query = <<p, c>> /\ query[1] = p /\ query[2] = c /\ Target = c
             /\ c.arc \in Arc /\ c.off \in Nat
  BY <1>1, Searched
<1>3. PICK W : W = WalksIn(rules, p)
  OBVIOUS
<1>4. PICK Goals : Goals = ReachingIn(rules, p, c)
  OBVIOUS
<1>5. PICK A : A = AffordableIn(rules, p, c)
  OBVIOUS
<1>6. W \subseteq Walk /\ Goals \subseteq W /\ A = { v \in Goals : v.dist + c.off <= MaxDistance }
      /\ \A v \in Goals : Allows(rules, End(v), c.arc)
  BY <1>3, <1>4, <1>5, WalksHold DEF ReachingIn, AffordableIn
<1>7. w \in Goals /\ w \in Walk /\ queue \subseteq Walk
  <2>1. w \in W
    BY <1>1, <1>2, <1>3 DEF Explores
  <2>2. Allows(rules, End(w), c.arc)
    BY <1>1, <1>2, PassingIsAllowed DEF Inv, SearchTypes
  <2> QED
    BY <1>3, <1>4, <1>6, <2>1, <2>2 DEF ReachingIn, Inv, SearchTypes
<1>8. ASSUME NEW v \in Goals PROVE ~Less(v, w)
  <2>1. Covered(v) /\ v \in Walk
    BY <1>1, <1>2, <1>3, <1>6, EveryWalkIsCovered
  <2>2. End(v) \notin DOMAIN best
    BY <1>1, <1>2, <1>6 DEF Explores
  <2>3. PICK u \in queue : ~Less(v, u)
    BY <2>1, <2>2 DEF Covered
  <2>4. ~Less(u, w)
    BY <1>1 DEF Top
  <2> QED
    BY <1>7, <2>1, <2>3, <2>4, LessEqIsTransitive
<1>9. \A v \in Goals : v.dist >= w.dist /\ v.dist \in Nat
  BY <1>6, <1>7, <1>8, WalkTyped DEF Less
<1> DEFINE total == w.dist + c.off
<1>10. w.dist \in Nat /\ MaxDistance \in Nat /\ total \in Int
  BY <1>2, <1>7, WalkTyped, GraphAssumption
<1>11. ~Direct(p, c)
  BY <1>1, <1>2 DEF Explores
<1>12. /\ total > MaxDistance => route' = Rejected("graph_search_budget")
       /\ ~(total > MaxDistance) => route' = Found(total, PathInto(w.path, c.arc))
  BY <1>2 DEF Arrive
<1>13. CASE total > MaxDistance
  <2>1. route' # NoRoute /\ route'.reason = "graph_search_budget"
    BY <1>12, <1>13, ResultsAreRoutes DEF Reason
  <2>2. A = {} /\ Goals # {}
    BY <1>2, <1>6, <1>7, <1>9, <1>10, <1>13
  <2>3. Exact(rules', query'[1], query'[2], route', visited')
    BY <1>1, <1>2, <1>4, <1>5, <2>1, <2>2 DEF Exact
  <2> QED
    BY <1>1, <2>1, <2>3, ExactUnfolds DEF Explores, Searching
<1>14. CASE ~(total > MaxDistance)
  <2>1. w \in A
    BY <1>6, <1>7, <1>10, <1>14
  <2>2. First(w, A)
    <3> SUFFICES ASSUME NEW v \in A
                 PROVE  \/ v.dist > w.dist
                        \/ v.dist = w.dist /\ Len(v.path) > Len(w.path)
                        \/ v.dist = w.dist /\ Len(v.path) = Len(w.path) /\ ~PathBefore(v.path, w.path)
      BY DEF First
    <3>1. ~Less(v, w) /\ v \in Walk
      BY <1>6, <1>8
    <3>2. /\ v.dist \in Nat /\ w.dist \in Nat /\ Len(v.path) \in Nat /\ Len(w.path) \in Nat
          /\ Turns(v.path) = Len(v.path) - 1 /\ Turns(w.path) = Len(w.path) - 1
      BY <1>7, <3>1, WalkTyped
    <3> QED
      BY <3>1, <3>2 DEF Less
  <2>3. ASSUME NEW x \in A, First(x, A) PROVE x = w
    <3>1. x \in Walk /\ ~Less(x, w)
      BY <1>6, <1>8
    <3>2. \/ w.dist > x.dist
          \/ w.dist = x.dist /\ Len(w.path) > Len(x.path)
          \/ w.dist = x.dist /\ Len(w.path) = Len(x.path) /\ ~PathBefore(w.path, x.path)
      BY <2>1, <2>3 DEF First
    <3>3. /\ x.dist \in Nat /\ w.dist \in Nat /\ Len(x.path) \in Nat /\ Len(w.path) \in Nat
          /\ Turns(x.path) = Len(x.path) - 1 /\ Turns(w.path) = Len(w.path) - 1
      BY <1>7, <3>1, WalkTyped
    <3>4. ~Less(w, x)
      BY <3>2, <3>3 DEF Less
    <3> QED
      BY <1>7, <3>1, <3>4, WalksAreOrdered
  <2>4. FirstOfAll(A) = w
    BY <2>1, <2>2, <2>3 DEF FirstOfAll
  <2>5. LeastIn(rules, p, c) = Found(total, PathInto(w.path, c.arc))
    BY <1>5, <1>11, <2>1, <2>4 DEF LeastIn
  <2>6. route' = LeastIn(rules, p, c) /\ route'.reason = "none"
    BY <1>12, <1>14, <2>5 DEF Found
  <2>7. Exact(rules', query'[1], query'[2], route', visited')
    BY <1>1, <1>2, <2>6 DEF Exact
  <2>8. ~Searching'
    <3>1. PathInto(w.path, c.arc) \in Seq(Arc)
      <4>1. w.path \in Seq(Arc)
        BY <1>7, WalkTyped
      <4> QED
        BY <1>2, <4>1, AppendProperties DEF PathInto
    <3>2. route' # NoRoute
      BY <1>10, <1>12, <1>14, <3>1, ResultsAreRoutes
    <3> QED
      BY <3>2 DEF Searching
  <2> QED
    BY <1>1, <2>7, <2>8, ExactUnfolds DEF Explores
<1> QED
  BY <1>13, <1>14

\* A walk is expanded: its state is ranked, and what continues it is queued.
LEMMA ExpandExplores ==
    ASSUME Inv, Explores, NEW w \in queue, Expand(w)
    PROVE  Explores' /\ AnswersAreExact'
<1>1. /\ Visit(w) /\ Searching /\ query' = query /\ rules' = rules /\ route' = NoRoute /\ ~Enters(w)
      /\ queue' = (queue \ {w}) \cup Successors(w)
  BY DEF Expand, Visit, Searching
<1>2. PICK p \in Matched, c \in Matched :
             /\ query = <<p, c>> /\ query[1] = p /\ query[2] = c /\ Target = c
             /\ c.arc \in Arc /\ c.off \in Nat
  BY <1>1, Searched
<1>3. PICK W : W = WalksIn(rules, p)
  OBVIOUS
<1>4. /\ ~Direct(p, c) /\ queue \subseteq W /\ Reached(FirstWalk(p))
      /\ \A a \in DOMAIN best :
           /\ best[a] \in W /\ End(best[a]) = a /\ ~Allows(rules, a, c.arc)
           /\ \A v \in LongerIn(rules, best[a]) : v.dist <= MaxDistance => Reached(v)
      /\ \A state \in targetRejections :
           \E a \in DOMAIN best : To[a] = From[c.arc] /\ Into(a, state) \in rules
      /\ \A a \in DOMAIN best : To[a] = From[c.arc] =>
           /\ targetRejections # {}
           /\ Into(a, "forbidden") \in rules => "forbidden" \in targetRejections
  BY <1>1, <1>2, <1>3 DEF Explores
<1>5. PICK e : e = End(w)
  OBVIOUS
<1>6. /\ e \notin DOMAIN best /\ w \in Walk /\ w \in W
      /\ DOMAIN best' = DOMAIN best \cup {e} /\ best'[e] = w
      /\ \A a \in DOMAIN best : best'[a] = best[a]
  <2>1. e \notin DOMAIN best
    BY <1>1, <1>5 DEF Inv, Visit, Fresh
  <2>2. best' = [a \in DOMAIN best \cup {e} |-> IF a = e THEN w ELSE best[a]]
    BY <1>1, <1>5 DEF Visit
  <2>3. DOMAIN best' = DOMAIN best \cup {e} /\ best'[e] = w /\ \A a \in DOMAIN best : best'[a] = best[a]
    BY <2>1, <2>2
  <2> QED
    BY <1>4, <2>1, <2>3 DEF Inv, SearchTypes
<1>7. Successors(w) = { v \in LongerIn(rules, w) : v.dist <= MaxDistance } /\ ~Allows(rules, e, c.arc)
  BY <1>1, <1>2, <1>5, PassingIsAllowed DEF Inv, SearchTypes
<1>8. queue' \subseteq W
  BY <1>1, <1>3, <1>4, <1>6, <1>7, WalksHold
<1>9. ASSUME NEW v, Reached(v) PROVE Reached(v)'
  <2>1. CASE v = w
    BY <1>5, <1>6, <2>1, WalksAreOrdered DEF Reached
  <2>2. CASE v # w /\ v \in queue
    BY <1>1, <2>2 DEF Reached
  <2>3. CASE End(v) \in DOMAIN best /\ ~Less(v, best[End(v)])
    BY <1>6, <2>3 DEF Reached
  <2> QED
    BY <1>9, <2>1, <2>2, <2>3 DEF Reached
<1>10. ASSUME NEW a \in DOMAIN best'
       PROVE  /\ best'[a] \in W /\ End(best'[a]) = a /\ ~Allows(rules, a, c.arc)
              /\ \A v \in LongerIn(rules, best'[a]) : v.dist <= MaxDistance => Reached(v)'
  <2>1. CASE a = e
    <3>1. ASSUME NEW v \in LongerIn(rules, w), v.dist <= MaxDistance PROVE Reached(v)'
      BY <1>1, <1>7, <3>1 DEF Reached
    <3> QED
      BY <1>5, <1>6, <1>7, <2>1, <3>1
  <2>2. CASE a \in DOMAIN best
    <3>1. ASSUME NEW v \in LongerIn(rules, best[a]), v.dist <= MaxDistance PROVE Reached(v)'
      BY <1>4, <1>9, <2>2, <3>1
    <3> QED
      BY <1>4, <1>6, <2>2, <3>1
  <2> QED
    BY <1>6, <2>1, <2>2
<1>11. PICK b : b = Blocked(e, c.arc)
  OBVIOUS
<1>12. /\ b \in {"none", "forbidden", "unknown"}
       /\ b = "none" <=> \A r \in rules : r.from # e \/ r.to # c.arc
       /\ b = "forbidden" <=> [from |-> e, to |-> c.arc, state |-> "forbidden"] \in rules
       /\ b = "unknown" => [from |-> e, to |-> c.arc, state |-> "unknown"] \in rules
  BY <1>11, BlockedTells DEF Inv, SearchTypes
<1>13. targetRejections' = IF To[e] = From[c.arc] THEN targetRejections \cup {b} ELSE targetRejections
  BY <1>2, <1>5, <1>11 DEF Expand, AtTarget
<1>14. Into(e, "forbidden") = [from |-> e, to |-> c.arc, state |-> "forbidden"]
       /\ Into(e, "unknown") = [from |-> e, to |-> c.arc, state |-> "unknown"]
       /\ \A a, state : Into(a, state)' = Into(a, state)
  BY <1>1, <1>2 DEF Into, Target
<1>15. To[e] = From[c.arc] => b # "none"
  BY <1>7, <1>12 DEF Allows
<1>16. ASSUME NEW state \in targetRejections'
       PROVE  \E a \in DOMAIN best' : To[a] = From[c.arc] /\ Into(a, state) \in rules
  <2>1. CASE state \in targetRejections
    BY <1>4, <1>6, <2>1
  <2>2. CASE To[e] = From[c.arc] /\ state = b
    <3>1. Into(e, state) \in rules
      BY <1>12, <1>14, <1>15, <2>2
    <3> QED
      BY <1>6, <2>2, <3>1
  <2> QED
    BY <1>13, <2>1, <2>2
<1>17. ASSUME NEW a \in DOMAIN best', To[a] = From[c.arc]
       PROVE  /\ targetRejections' # {}
              /\ Into(a, "forbidden") \in rules => "forbidden" \in targetRejections'
  <2>1. CASE a = e
    BY <1>12, <1>13, <1>14, <1>17, <2>1
  <2>2. CASE a \in DOMAIN best
    BY <1>4, <1>13, <1>17, <2>2
  <2> QED
    BY <1>6, <2>1, <2>2
<1>18. Reached(FirstWalk(query[1]))'
  <2>1. PICK v : v = FirstWalk(p)
    OBVIOUS
  <2>2. Reached(v)'
    BY <1>4, <1>9, <2>1
  <2> QED
    BY <1>1, <1>2, <2>1, <2>2 DEF Reached
<1>19. Explores'
  <2>1. query'[1] = p /\ query'[2] = c /\ Target' = c /\ query' # NoQuery
    BY <1>1, <1>2 DEF Target, Searching
  <2> QED
    BY <1>1, <1>3, <1>4, <1>8, <1>10, <1>14, <1>16, <1>17, <1>18, <2>1 DEF Explores
<1> QED
  BY <1>1, <1>19, ExactUnfolds

\* The queue is empty: every walk was covered, and none enters the target.
LEMMA ExhaustAnswers ==
    ASSUME Inv, Explores, Exhaust
    PROVE  Explores' /\ AnswersAreExact'
<1>1. Searching /\ query' = query /\ query # NoQuery /\ rules' = rules /\ queue = {}
  BY DEF Exhaust, Searching
<1>2. PICK p \in Matched, c \in Matched :
             /\ query = <<p, c>> /\ query[1] = p /\ query[2] = c /\ Target = c
             /\ c.arc \in Arc /\ c.off \in Nat
  BY <1>1, Searched
<1>3. PICK W : W = WalksIn(rules, p)
  OBVIOUS
<1>4. /\ \A a \in DOMAIN best : best[a] \in W /\ End(best[a]) = a /\ ~Allows(rules, a, c.arc)
      /\ \A state \in targetRejections :
           \E a \in DOMAIN best : To[a] = From[c.arc] /\ Into(a, state) \in rules
      /\ \A a \in DOMAIN best : To[a] = From[c.arc] =>
           /\ targetRejections # {}
           /\ Into(a, "forbidden") \in rules => "forbidden" \in targetRejections
  BY <1>1, <1>2, <1>3 DEF Explores
<1>5. \A v \in W : End(v) \in DOMAIN best
  BY <1>1, <1>2, <1>3, EveryWalkIsCovered DEF Covered
<1>6. ReachingIn(rules, p, c) = {}
  BY <1>3, <1>4, <1>5 DEF ReachingIn
<1>7. \A a, state : Into(a, state) = [from |-> a, to |-> c.arc, state |-> state]
  BY <1>2 DEF Into
<1>8. ASSUME NEW state
      PROVE  RefusedIn(rules, p, c, state) <=>
               \E a \in DOMAIN best : To[a] = From[c.arc] /\ Into(a, state) \in rules
  <2>1. ASSUME NEW a \in DOMAIN best, To[a] = From[c.arc], Into(a, state) \in rules
        PROVE  RefusedIn(rules, p, c, state)
    <3>1. best[a] \in WalksIn(rules, p) /\ End(best[a]) = a
      BY <1>3, <1>4
    <3> QED
      BY <1>7, <2>1, <3>1 DEF RefusedIn
  <2>2. ASSUME NEW v \in W, To[End(v)] = From[c.arc], Into(End(v), state) \in rules
        PROVE  \E a \in DOMAIN best : To[a] = From[c.arc] /\ Into(a, state) \in rules
    BY <1>5, <2>2
  <2> QED
    BY <1>3, <1>7, <2>1, <2>2 DEF RefusedIn
<1>9. targetRejections \subseteq {"forbidden", "unknown"}
  BY DEF Inv, SearchTypes
<1>10. CASE "forbidden" \in targetRejections
  <2>1. route' = Rejected("forbidden_turn")
    BY <1>10 DEF Exhaust
  <2>2. route'.reason = "forbidden_turn" /\ route' # NoRoute
    BY <2>1, ResultsAreRoutes DEF Reason
  <2>3. RefusedIn(rules, p, c, "forbidden")
    BY <1>4, <1>8, <1>10
  <2>4. Exact(rules', query'[1], query'[2], route', visited')
    BY <1>1, <1>2, <1>6, <2>2, <2>3 DEF Exact
  <2> QED
    BY <1>1, <2>2, <2>4, ExactUnfolds DEF Explores, Searching
<1>11. CASE targetRejections = {"unknown"}
  <2>1. route' = Rejected("unknown_restriction")
    BY <1>11 DEF Exhaust
  <2>2. route'.reason = "unknown_restriction" /\ route' # NoRoute
    BY <2>1, ResultsAreRoutes DEF Reason
  <2>3. RefusedIn(rules, p, c, "unknown") /\ ~RefusedIn(rules, p, c, "forbidden")
    BY <1>4, <1>8, <1>11
  <2>4. Exact(rules', query'[1], query'[2], route', visited')
    BY <1>1, <1>2, <1>6, <2>2, <2>3 DEF Exact
  <2> QED
    BY <1>1, <2>2, <2>4, ExactUnfolds DEF Explores, Searching
<1>12. CASE targetRejections = {}
  <2>1. route' = Rejected("no_directed_path")
    BY <1>12 DEF Exhaust
  <2>2. route'.reason = "no_directed_path" /\ route' # NoRoute
    BY <2>1, ResultsAreRoutes DEF Reason
  <2>3. ~RefusedIn(rules, p, c, "unknown") /\ ~RefusedIn(rules, p, c, "forbidden")
    BY <1>4, <1>8, <1>12
  <2>4. Exact(rules', query'[1], query'[2], route', visited')
    BY <1>1, <1>2, <1>6, <2>2, <2>3 DEF Exact
  <2> QED
    BY <1>1, <2>2, <2>4, ExactUnfolds DEF Explores, Searching
<1> QED
  BY <1>9, <1>10, <1>11, <1>12

\* One step of any search.
LEMMA StepAnswers ==
    ASSUME Inv, Explores, AnswersAreExact, [SearchNext]_<<rules, search>>
    PROVE  Explores' /\ AnswersAreExact'
<1>1. ASSUME NEW p \in Matched, NEW c \in Matched, Ask(p, c) PROVE Explores' /\ AnswersAreExact'
  BY <1>1, AskExplores
<1>2. ASSUME NEW w \in queue, Stale(w) PROVE Explores' /\ AnswersAreExact'
  BY <1>2, StaleExplores
<1>3. ASSUME NEW w \in queue, Overrun(w) PROVE Explores' /\ AnswersAreExact'
  BY <1>3, OverrunAnswers
<1>4. ASSUME NEW w \in queue, Arrive(w) PROVE Explores' /\ AnswersAreExact'
  BY <1>4, ArriveAnswers
<1>5. ASSUME NEW w \in queue, Expand(w) PROVE Explores' /\ AnswersAreExact'
  BY <1>5, ExpandExplores
<1>6. CASE Exhaust
  BY <1>6, ExhaustAnswers
<1>7. CASE Forget
  <2>1. query' = NoQuery /\ targetRejections' = {} /\ route' = NoRoute
    BY <1>7 DEF Forget
  <2> QED
    BY <2>1, ExactUnfolds DEF Explores, Searching
<1>8. CASE UNCHANGED <<rules, search>>
  <2>1. UNCHANGED <<rules, query, queue, best, visited, targetRejections, route>>
    BY <1>8 DEF search
  <2>2. Explores'
    BY <2>1 DEF Explores, Searching, Target, Into, Reached
  <2> QED
    BY <2>1, <2>2, ExactUnfolds
<1> QED
  BY <1>1, <1>2, <1>3, <1>4, <1>5, <1>6, <1>7, <1>8 DEF SearchNext, SearchStep

\* A search answers what an exhaustive one would: the least of all legal walks into
\* the target within the distance budget, or the reason for which there is none
\* (route, road_matching.cpp 402-517).
THEOREM AnswersHold == SearchSpec => []AnswersAreExact
<1>1. SearchInit => Explores /\ AnswersAreExact
  <2> SUFFICES ASSUME SearchInit PROVE Explores /\ AnswersAreExact
    OBVIOUS
  <2>1. Explores
    BY DEF SearchInit, Explores, Searching
  <2> QED
    BY <2>1, ExactUnfolds DEF SearchInit
<1>2. Inv /\ Explores /\ AnswersAreExact /\ [SearchNext]_<<rules, search>> => Explores' /\ AnswersAreExact'
  BY StepAnswers
<1> QED
  BY <1>1, <1>2, InitEstablishesInv, StepKeepsInv, PTL DEF SearchSpec

\* The search as a whole: no state is counted twice, a route is a legal walk, and the
\* answer, route or reason, is the one of an exhaustive search (route,
\* road_matching.cpp 402-517).
THEOREM SearchesAreExact == SearchSpec => []SearchIsExact
<1>1. SearchIsSound /\ AnswersAreExact => SearchIsExact
  BY DEF SearchIsExact
<1> QED
  BY <1>1, SearchesAreSound, AnswersHold, PTL
=============================================================================
