-------------------------- MODULE RoadGraphProofs ---------------------------
(***************************************************************************)
(* Proofs about RoadGraph, for every extract, every position of its nodes  *)
(* and all limits: what the restrictions make of the turns of a graph; and *)
(* about RoadCandidates, for every graph, track and all parameters: which  *)
(* arcs become the candidates of an observation.                           *)
(***************************************************************************)
EXTENDS RoadGraph, RoadCandidates, FiniteSetTheorems, WellFoundedInduction, TLAPS

(***************************************************************************)
(* The rules of one restriction.                                           *)
(***************************************************************************)

\* A turn a restriction is about: from its from ways, at its via node.
IsTurnOf(r, a, b) ==
    /\ ToNode(a) = FromNode(b) /\ a.way \in ToSet(r.from)
    /\ Len(r.viaNodes) = 1 => ToNode(a) = r.viaNodes[1]

\* The state a restriction with this outcome gives such a turn, if any.
StatesOf(r, b) ==
    CASE Outcome(r) = "APPLIED_NO" -> IF b.way \in ToSet(r.to) THEN {"FORBIDDEN"} ELSE {}
      [] Outcome(r) = "APPLIED_ONLY" -> IF b.way \in ToSet(r.to) THEN {} ELSE {"FORBIDDEN"}
      [] Outcome(r) = "INACTIVE_SOURCE_EXCLUDED" -> {}
      [] OTHER -> {"UNKNOWN_RESTRICTION"}

\* The turns the code walks are these.
LEMMA TurnsAreThese ==
    ASSUME NEW r, NEW a \in arcs, NEW b \in arcs
    PROVE  <<a, b>> \in TurnsOut(r) <=> IsTurnOf(r, a, b)
<1>1. a \in Incoming(r) <=> a.way \in ToSet(r.from)
                            /\ (Len(r.viaNodes) = 1 => ToNode(a) = r.viaNodes[1])
  BY DEF Incoming
<1>2. <<a, b>> \in TurnsOut(r) <=> a \in Incoming(r) /\ FromNode(b) = ToNode(a)
  BY DEF TurnsOut
<1> QED
  BY <1>1, <1>2 DEF IsTurnOf

\* Every interpretation and outcome is one of these.
LEMMA OutcomesAre ==
    ASSUME NEW r
    PROVE  /\ Interpretation(r) \in {"UNKNOWN_EXCEPT", "UNKNOWN_CONDITIONAL", "UNKNOWN_VIA_WAY",
                                     "UNKNOWN_MALFORMED", "UNKNOWN_VALUE", "INACTIVE_SOURCE_EXCLUDED",
                                     "APPLIED_NO", "APPLIED_ONLY"}
           /\ Outcome(r) \in {Interpretation(r), "UNKNOWN_DISCONNECTED"}
           /\ Outcome(r) \in {"APPLIED_NO", "APPLIED_ONLY", "INACTIVE_SOURCE_EXCLUDED"} =>
                Outcome(r) = Interpretation(r)
<1>1. Interpretation(r) \in {"UNKNOWN_EXCEPT", "UNKNOWN_CONDITIONAL", "UNKNOWN_VIA_WAY",
                             "UNKNOWN_MALFORMED", "UNKNOWN_VALUE", "INACTIVE_SOURCE_EXCLUDED",
                             "APPLIED_NO", "APPLIED_ONLY"}
  BY DEF Interpretation
<1>2. Outcome(r) \in {Interpretation(r), "UNKNOWN_DISCONNECTED"}
  BY DEF Outcome
<1> QED
  BY <1>1, <1>2

\* Only a plain restriction between included ways is applied.
LEMMA AppliedIsPlain ==
    ASSUME NEW r, Interpretation(r) \in {"APPLIED_NO", "APPLIED_ONLY"}
    PROVE  /\ Len(r.viaNodes) = 1 /\ Len(r.from) = 1 /\ Len(r.to) = 1
           /\ Interpretation(r) = "APPLIED_NO" <=> RestrictionValue(r) = "no"
BY DEF Interpretation

\* The arcs an applied restriction is about, among those a turn of it leads to.
LEMMA OntoTheToWay ==
    ASSUME NEW r, NEW a \in arcs, NEW b \in arcs, IsTurnOf(r, a, b), Len(r.viaNodes) = 1
    PROVE  b \in Onto(r) <=> b.way \in ToSet(r.to)
BY DEF Onto, IsTurnOf

\* The rules made for a turn give it the states of the outcome, and there are
\* none for other turns.
LEMMA GeneratedStates ==
    ASSUME NEW r, NEW a \in arcs, NEW b \in arcs
    PROVE  { rule.state : rule \in { q \in Generated(r) : q.turn = <<a, b>> /\ q.relation = r.id } }
             = IF IsTurnOf(r, a, b) THEN StatesOf(r, b) ELSE {}
<1> DEFINE States(rules_) == { rule.state : rule \in { q \in rules_ : q.turn = <<a, b>> /\ q.relation = r.id } }
<1>1. ASSUME NEW turns, NEW state
      PROVE  States(TurnRules(r, turns, state)) = IF <<a, b>> \in turns THEN {state} ELSE {}
  <2>1. \A q \in TurnRules(r, turns, state) : q.state = state /\ q.relation = r.id /\ q.turn \in turns
    BY DEF TurnRules
  <2>2. <<a, b>> \in turns => [turn |-> <<a, b>>, state |-> state, relation |-> r.id] \in TurnRules(r, turns, state)
    BY DEF TurnRules
  <2> QED
    BY <2>1, <2>2
<1> HIDE DEF States
<1>2. CASE IsUnknown(Outcome(r))
  <2>1. States(Generated(r)) = IF <<a, b>> \in TurnsOut(r) THEN {"UNKNOWN_RESTRICTION"} ELSE {}
    BY <1>1, <1>2 DEF Generated
  <2>2. StatesOf(r, b) = {"UNKNOWN_RESTRICTION"}
    BY <1>2 DEF IsUnknown, StatesOf
  <2> QED
    BY <2>1, <2>2, TurnsAreThese DEF States
<1>3. CASE ~IsUnknown(Outcome(r))
  <2>1. States(Generated(r)) = IF <<a, b>> \in Forbidden(r) THEN {"FORBIDDEN"} ELSE {}
    BY <1>1, <1>3 DEF Generated
  <2>2. Outcome(r) = Interpretation(r)
    BY <1>3, OutcomesAre DEF IsUnknown
  <2>3. CASE Outcome(r) = "APPLIED_NO"
    <3>1. <<a, b>> \in Forbidden(r) <=> <<a, b>> \in TurnsOut(r) /\ b \in Onto(r)
      BY <2>2, <2>3 DEF Forbidden
    <3>2. IsTurnOf(r, a, b) => (b \in Onto(r) <=> b.way \in ToSet(r.to))
      <4>1. Interpretation(r) \in {"APPLIED_NO", "APPLIED_ONLY"}
        BY <2>2, <2>3
      <4>2. Len(r.viaNodes) = 1
        BY <4>1, AppliedIsPlain
      <4> QED
        BY <4>2, OntoTheToWay
    <3>3. StatesOf(r, b) = IF b.way \in ToSet(r.to) THEN {"FORBIDDEN"} ELSE {}
      BY <2>3 DEF StatesOf
    <3> QED
      BY <2>1, <3>1, <3>2, <3>3, TurnsAreThese DEF States
  <2>4. CASE Outcome(r) = "APPLIED_ONLY"
    <3>1. Forbidden(r) # {}
      BY <2>4, <2>2 DEF Outcome
    <3>2. Interpretation(r) # "APPLIED_NO"
      BY <2>2, <2>4
    <3>3. Onto(r) # {}
      BY <3>1, <3>2 DEF Forbidden
    <3>4. <<a, b>> \in Forbidden(r) <=> <<a, b>> \in TurnsOut(r) /\ b \notin Onto(r)
      BY <2>2, <2>4, <3>3 DEF Forbidden
    <3>5. IsTurnOf(r, a, b) => (b \in Onto(r) <=> b.way \in ToSet(r.to))
      <4>1. Interpretation(r) \in {"APPLIED_NO", "APPLIED_ONLY"}
        BY <2>2, <2>4
      <4>2. Len(r.viaNodes) = 1
        BY <4>1, AppliedIsPlain
      <4> QED
        BY <4>2, OntoTheToWay
    <3>6. StatesOf(r, b) = IF b.way \in ToSet(r.to) THEN {} ELSE {"FORBIDDEN"}
      BY <2>4 DEF StatesOf
    <3> QED
      BY <2>1, <3>4, <3>5, <3>6, TurnsAreThese DEF States
  <2>5. CASE Outcome(r) = "INACTIVE_SOURCE_EXCLUDED"
    <3>1. Forbidden(r) = {}
      BY <2>2, <2>5 DEF Forbidden
    <3>2. StatesOf(r, b) = {}
      BY <2>5 DEF StatesOf
    <3> QED
      BY <2>1, <3>1, <3>2 DEF States
  <2> QED
    BY <1>3, <2>3, <2>4, <2>5 DEF IsUnknown
<1> QED
  BY <1>2, <1>3

\* The only member of a list of one.
LEMMA OnlyMember ==
    ASSUME NEW S, NEW s \in Seq(S), Len(s) = 1
    PROVE  s = <<s[1]>>
OBVIOUS

\* A plain no_ restriction that some turn of the graph meets is applied.
LEMMA PlainIsApplied ==
    ASSUME NEW r, NEW a \in arcs, NEW b \in arcs, IsTurnOf(r, a, b), b.way \in ToSet(r.to),
           \A c \in arcs : c.way \in WayIds,
           {r.from, r.to, r.viaNodes} \subseteq Seq(Nat \ {0}),
           Len(r.viaNodes) = 1, Len(r.from) = 1, Len(r.to) = 1,
           r.viaWays = <<>>, ~r.except, ~r.conditional, RestrictionValue(r) = "no"
    PROVE  Outcome(r) = "APPLIED_NO"
<1>1. PICK f : r.from = <<f>>
  BY OnlyMember
<1>2. PICK t : r.to = <<t>>
  BY OnlyMember
<1>3. a.way = f /\ b.way = t
  BY <1>1, <1>2 DEF IsTurnOf, ToSet
<1>4. ToSet(r.from) \cup ToSet(r.to) \subseteq WayIds
  <2>1. ToSet(<<f>>) = {f} /\ ToSet(<<t>>) = {t}
    BY DEF ToSet
  <2> QED
    BY <1>1, <1>2, <1>3, <2>1
<1>5. Interpretation(r) = "APPLIED_NO"
  BY <1>4 DEF Interpretation
<1>6. <<a, b>> \in Forbidden(r)
  BY <1>5, TurnsAreThese, OntoTheToWay DEF Forbidden
<1> QED
  BY <1>5, <1>6 DEF Outcome

(***************************************************************************)
(* The import.                                                             *)
(***************************************************************************)

\* The restrictions interpreted so far.
Interpreted == TurnRestrictions \ relations

\* The rules are those of the restrictions interpreted so far, each with its
\* evidence; an identifier names one restriction; and arcs lie on included ways.
GraphInv ==
    /\ source \in Sources \cup {NoSource}
    /\ importing \in {"idle", "read", "parsed", "selected"} => rules = {} /\ evidence = <<>>
    /\ importing \in {"parsed", "selected", "restricting", "published"} =>
         SourceIsSound(source) /\ source \in Sources
    /\ importing \in {"restricting", "published"} =>
         /\ \A a \in arcs : a.way \in WayIds
         /\ relations \subseteq TurnRestrictions
         /\ evidence \in Seq({ EvidenceOf(r) : r \in TurnRestrictions })
         /\ rules = UNION { Generated(r) : r \in Interpreted }
         /\ ToSet(evidence) = { EvidenceOf(r) : r \in Interpreted }
    /\ importing = "published" => relations = {}

\* What the interpretation of a restriction reads does not change while the
\* restrictions are interpreted.
LEMMA ReadsAreFixed ==
    ASSUME UNCHANGED <<source, included, arcs>>
    PROVE  /\ TurnRestrictions' = TurnRestrictions /\ WayIds' = WayIds
           /\ \A r : Generated(r)' = Generated(r) /\ EvidenceOf(r)' = EvidenceOf(r)
<1>1. TurnRestrictions' = TurnRestrictions /\ WayIds' = WayIds
  BY DEF TurnRestrictions, WayIds, Ways
<1>2. ASSUME NEW r
      PROVE  /\ Incoming(r)' = Incoming(r) /\ Onto(r)' = Onto(r)
             /\ Interpretation(r)' = Interpretation(r)
  BY <1>1 DEF Incoming, Onto, Interpretation
<1>3. ASSUME NEW r
      PROVE  TurnsOut(r)' = TurnsOut(r) /\ Forbidden(r)' = Forbidden(r)
  <2>1. TurnsOut(r)' = TurnsOut(r)
    BY <1>2 DEF TurnsOut
  <2>2. CASE Interpretation(r) = "APPLIED_NO"
    BY <1>2, <2>1, <2>2 DEF Forbidden
  <2>3. CASE Interpretation(r) = "APPLIED_ONLY" /\ Onto(r) # {}
    BY <1>2, <2>1, <2>3 DEF Forbidden
  <2>4. CASE /\ Interpretation(r) # "APPLIED_NO"
             /\ Interpretation(r) # "APPLIED_ONLY" \/ Onto(r) = {}
    BY <1>2, <2>1, <2>4 DEF Forbidden
  <2> QED
    BY <2>1, <2>2, <2>3, <2>4
<1>4. ASSUME NEW r
      PROVE  Outcome(r)' = Outcome(r)
  BY <1>2, <1>3 DEF Outcome
<1>5. ASSUME NEW r
      PROVE  Generated(r)' = Generated(r)
  BY <1>3, <1>4 DEF Generated
<1> QED
  BY <1>1, <1>4, <1>5 DEF EvidenceOf

\* An extract that is sound has one relation for an identifier.
LEMMA OneRelation ==
    ASSUME SourceIsSound(source), NEW q \in TurnRestrictions, NEW r \in TurnRestrictions, q.id = r.id
    PROVE  q = r
<1>1. PICK i \in DOMAIN source.relations : q = source.relations[i]
  BY DEF TurnRestrictions, ToSet
<1>2. PICK j \in DOMAIN source.relations : r = source.relations[j]
  BY DEF TurnRestrictions, ToSet
<1>3. IsInjective(Identifiers(source.relations))
  BY DEF SourceIsSound
<1>4. i = j
  BY <1>1, <1>2, <1>3 DEF IsInjective, Identifiers
<1> QED
  BY <1>1, <1>2, <1>4

\* What a sequence with one more element holds.
LEMMA AppendedSet ==
    ASSUME NEW S, NEW s \in Seq(S), NEW e \in S
    PROVE  /\ Append(s, e) \in Seq(S)
           /\ ToSet(Append(s, e)) = ToSet(s) \cup {e}
<1>1. /\ Append(s, e) \in Seq(S) /\ Len(Append(s, e)) = Len(s) + 1 /\ Len(s) \in Nat
      /\ \A i \in 1..Len(s) : Append(s, e)[i] = s[i]
      /\ Append(s, e)[Len(s) + 1] = e
      /\ DOMAIN s = 1..Len(s) /\ DOMAIN Append(s, e) = 1..(Len(s) + 1)
  OBVIOUS
<1>2. \A x \in ToSet(Append(s, e)) : x \in ToSet(s) \cup {e}
  <2> SUFFICES ASSUME NEW i \in 1..(Len(s) + 1) PROVE Append(s, e)[i] \in ToSet(s) \cup {e}
    BY <1>1 DEF ToSet
  <2>1. i \in 1..Len(s) \/ i = Len(s) + 1
    BY <1>1
  <2> QED
    BY <1>1, <2>1 DEF ToSet
<1>3. \A x \in ToSet(s) \cup {e} : x \in ToSet(Append(s, e))
  <2>1. Len(s) + 1 \in 1..(Len(s) + 1) /\ 1..Len(s) \subseteq 1..(Len(s) + 1)
    BY <1>1
  <2> QED
    BY <1>1, <2>1 DEF ToSet
<1> QED
  BY <1>1, <1>2, <1>3

\* Arcs run along included ways.
LEMMA BuiltArcs ==
    ASSUME NEW a \in UNION { ArcsOf(choice) : choice \in ToSet(included) }
    PROVE  a.way \in WayIds
<1>1. PICK choice \in ToSet(included) : a \in ArcsOf(choice)
  OBVIOUS
<1>2. a.way = choice.way.id
  BY <1>1 DEF ArcsOf, ArcAlong
<1>3. choice.way \in Ways
  BY <1>1 DEF Ways, ToSet
<1> QED
  BY <1>2, <1>3 DEF WayIds

\* Every step of the import keeps the invariant.
LEMMA GraphStep == GraphInv /\ [RoadGraphNext]_roadGraphVars => GraphInv'
<1> SUFFICES ASSUME GraphInv, [RoadGraphNext]_roadGraphVars PROVE GraphInv'
  OBVIOUS
<1> USE DEF GraphInv
<1>1. ASSUME UNCHANGED <<source, included, arcs, relations, rules, evidence>>
      PROVE  /\ TurnRestrictions' = TurnRestrictions /\ WayIds' = WayIds
             /\ Interpreted' = Interpreted
             /\ { EvidenceOf(r) : r \in TurnRestrictions }' = { EvidenceOf(r) : r \in TurnRestrictions }
             /\ UNION { Generated(r) : r \in Interpreted }' = UNION { Generated(r) : r \in Interpreted }
             /\ { EvidenceOf(r) : r \in Interpreted }' = { EvidenceOf(r) : r \in Interpreted }
  BY <1>1, ReadsAreFixed DEF Interpreted
<1>2. CASE UNCHANGED roadGraphVars
  BY <1>1, <1>2 DEF roadGraphVars
<1>3. CASE ReadSource
  BY <1>3 DEF ReadSource
<1>4. CASE ParseOsm
  BY <1>4 DEF ParseOsm, NoSource, SourceIsSound
<1>5. CASE SelectWays
  BY <1>5 DEF SelectWays, SourceIsSound
<1>6. CASE BuildArcs
  <2>1. importing' \in {"refused", "restricting"} /\ UNCHANGED <<source, rules, evidence, included>>
    BY <1>6 DEF BuildArcs
  <2>2. relations' = TurnRestrictions' /\ Interpreted' = {}
    BY <1>6 DEF BuildArcs, TurnRestrictions, Interpreted
  <2>3. \A a \in arcs' : a.way \in WayIds'
    BY <1>6, BuiltArcs DEF BuildArcs, WayIds, Ways
  <2>4. rules = {} /\ evidence = <<>> /\ SourceIsSound(source)
    BY <1>6 DEF BuildArcs
  <2>5. ToSet(<<>>) = {}
    BY DEF ToSet
  <2>6. evidence' \in Seq({ EvidenceOf(r) : r \in TurnRestrictions }')
    BY <2>1, <2>4
  <2>7. /\ rules' = {} /\ ToSet(evidence') = {} /\ relations' \subseteq TurnRestrictions'
        /\ (UNION { Generated(r) : r \in Interpreted })' = {}
        /\ { EvidenceOf(r) : r \in Interpreted }' = {}
    BY <2>1, <2>2, <2>4, <2>5
  <2>8. SourceIsSound(source)' /\ source' = source /\ source \in Sources
    BY <1>6, <2>1 DEF BuildArcs, SourceIsSound
  <2> QED
    BY <2>1, <2>3, <2>6, <2>7, <2>8
<1>7. CASE BuildArcsOverBudget
  BY <1>7 DEF BuildArcsOverBudget, RefuseGraph
<1>8. CASE BuildRestriction
  <2>1. PICK r \in relations : /\ rules' = rules \cup Generated(r)
                               /\ evidence' = Append(evidence, EvidenceOf(r))
                               /\ relations' = relations \ {r}
    BY <1>8 DEF BuildRestriction
  <2>2. importing = "restricting" /\ UNCHANGED <<source, included, arcs, importing>>
    BY <1>8 DEF BuildRestriction
  <2>3. /\ TurnRestrictions' = TurnRestrictions /\ WayIds' = WayIds
        /\ \A q : Generated(q)' = Generated(q) /\ EvidenceOf(q)' = EvidenceOf(q)
    BY <2>2, ReadsAreFixed
  <2>4. Interpreted' = Interpreted \cup {r} /\ r \in TurnRestrictions
    BY <2>1, <2>2, <2>3 DEF Interpreted
  <2> DEFINE All == { EvidenceOf(q) : q \in TurnRestrictions }
  <2>5. All' = All
    BY <2>3
  <2>6. evidence' \in Seq(All) /\ ToSet(evidence') = ToSet(evidence) \cup {EvidenceOf(r)}
    BY <2>1, <2>2, <2>4, AppendedSet
  <2>7. rules' = UNION { Generated(q) : q \in Interpreted' }
    BY <2>1, <2>2, <2>4
  <2>8. ToSet(evidence') = { EvidenceOf(q) : q \in Interpreted' }
    BY <2>2, <2>4, <2>6
  <2>9. (rules = UNION { Generated(q) : q \in Interpreted })'
    BY <2>3, <2>7
  <2>10. (ToSet(evidence) = { EvidenceOf(q) : q \in Interpreted })'
    BY <2>3, <2>8
  <2>11. source' = source /\ importing' = "restricting" /\ SourceIsSound(source') /\ source \in Sources
    BY <2>2 DEF SourceIsSound
  <2>12. (\A a \in arcs : a.way \in WayIds)' /\ relations' \subseteq TurnRestrictions'
    BY <2>1, <2>2, <2>3
  <2>13. (evidence \in Seq({ EvidenceOf(q) : q \in TurnRestrictions }))'
    BY <2>5, <2>6
  <2> QED
    BY <2>9, <2>10, <2>11, <2>12, <2>13
<1>9. CASE PublishGraph
  BY <1>1, <1>9 DEF PublishGraph, SourceIsSound
<1> QED
  BY <1>2, <1>3, <1>4, <1>5, <1>6, <1>7, <1>8, <1>9 DEF RoadGraphNext

\* import_osm_road_graph and _build_restrictions: for every extract and all
\* limits, the turns of a published graph are those its restrictions leave.
THEOREM RestrictionsAreFollowed == RoadGraphSpec => []TurnsFollowRestrictions
<1>1. RoadGraphInit => GraphInv
  BY DEF RoadGraphInit, GraphInv
<1>2. GraphInv => TurnsFollowRestrictions
  <2> SUFFICES ASSUME GraphInv, importing = "published",
                      NEW r \in TurnRestrictions, NEW a \in arcs, NEW b \in arcs
               PROVE
            LET e == CHOOSE f \in ToSet(evidence) : f.relation = r.id
                state == { rule.state : rule \in { q \in rules : q.turn = <<a, b>> /\ q.relation = r.id } }
                atVia == Len(r.viaNodes) = 1 => Last(a.path) = r.viaNodes[1]
                turn == Last(a.path) = Head(b.path) /\ a.way \in ToSet(r.from) /\ atVia
                onto == b.way \in ToSet(r.to)
                plain == Len(r.viaNodes) = 1 /\ Len(r.from) = 1 /\ Len(r.to) = 1
                         /\ r.viaWays = <<>> /\ ~r.except /\ ~r.conditional
            IN  /\ ~turn => state = {}
                /\ turn => state = CASE e.outcome = "APPLIED_NO" -> (IF onto THEN {"FORBIDDEN"} ELSE {})
                                     [] e.outcome = "APPLIED_ONLY" -> (IF onto THEN {} ELSE {"FORBIDDEN"})
                                     [] e.outcome = "INACTIVE_SOURCE_EXCLUDED" -> {}
                                     [] OTHER -> {"UNKNOWN_RESTRICTION"}
                /\ turn /\ onto /\ plain /\ RestrictionValue(r) = "no" => e.outcome = "APPLIED_NO"
                /\ turn /\ e.outcome = "APPLIED_ONLY" =>
                      \E c \in arcs : Head(c.path) = Last(a.path) /\ c.way \in ToSet(r.to)
    BY DEF TurnsFollowRestrictions
  <2> DEFINE e == CHOOSE f \in ToSet(evidence) : f.relation = r.id
             state == { rule.state : rule \in { q \in rules : q.turn = <<a, b>> /\ q.relation = r.id } }
             turn == /\ Last(a.path) = Head(b.path) /\ a.way \in ToSet(r.from)
                     /\ Len(r.viaNodes) = 1 => Last(a.path) = r.viaNodes[1]
             onto == b.way \in ToSet(r.to)
  <2>1. /\ SourceIsSound(source) /\ source \in Sources
        /\ \A c \in arcs : c.way \in WayIds
        /\ rules = UNION { Generated(q) : q \in TurnRestrictions }
        /\ ToSet(evidence) = { EvidenceOf(q) : q \in TurnRestrictions }
    BY DEF GraphInv, Interpreted
  <2>2. turn <=> IsTurnOf(r, a, b)
    BY DEF IsTurnOf, ToNode, FromNode
  <2>3. e = EvidenceOf(r)
    <3>1. EvidenceOf(r) \in ToSet(evidence) /\ EvidenceOf(r).relation = r.id
      BY <2>1 DEF EvidenceOf
    <3>2. \A f \in ToSet(evidence) : f.relation = r.id => f = EvidenceOf(r)
      <4> SUFFICES ASSUME NEW q \in TurnRestrictions, EvidenceOf(q).relation = r.id
                   PROVE  EvidenceOf(q) = EvidenceOf(r)
        BY <2>1
      <4>1. q.id = r.id
        BY DEF EvidenceOf
      <4> QED
        BY <2>1, <4>1, OneRelation
    <3> QED
      BY <3>1, <3>2
  <2> HIDE DEF e
  <2>4. e.outcome = Outcome(r)
    <3>1. EvidenceOf(r).outcome = Outcome(r)
      BY DEF EvidenceOf
    <3> QED
      BY <2>3, <3>1
  <2>5. state = { rule.state : rule \in { q \in Generated(r) : q.turn = <<a, b>> /\ q.relation = r.id } }
    <3>1. \A s \in TurnRestrictions : \A q \in Generated(s) : q.relation = s.id
      BY DEF Generated, TurnRules
    <3>2. \A q \in rules : q.relation = r.id => q \in Generated(r)
      <4> SUFFICES ASSUME NEW s \in TurnRestrictions, NEW q \in Generated(s), q.relation = r.id
                   PROVE  q \in Generated(r)
        BY <2>1
      <4>1. s.id = r.id
        BY <3>1
      <4> QED
        BY <2>1, <4>1, OneRelation
    <3>3. Generated(r) \subseteq rules
      BY <2>1
    <3> QED
      BY <3>2, <3>3
  <2>6. state = IF turn THEN StatesOf(r, b) ELSE {}
    BY <2>2, <2>5, GeneratedStates
  <2>7. ~turn => state = {}
    BY <2>6
  <2>8. turn => state = CASE e.outcome = "APPLIED_NO" -> (IF onto THEN {"FORBIDDEN"} ELSE {})
                          [] e.outcome = "APPLIED_ONLY" -> (IF onto THEN {} ELSE {"FORBIDDEN"})
                          [] e.outcome = "INACTIVE_SOURCE_EXCLUDED" -> {}
                          [] OTHER -> {"UNKNOWN_RESTRICTION"}
    BY <2>4, <2>6 DEF StatesOf
  <2>9. ASSUME turn, onto, Len(r.viaNodes) = 1, Len(r.from) = 1, Len(r.to) = 1,
               r.viaWays = <<>>, ~r.except, ~r.conditional, RestrictionValue(r) = "no"
        PROVE  e.outcome = "APPLIED_NO"
    <3>1. r \in ToSet(source.relations)
      BY DEF TurnRestrictions
    <3>2. {r.from, r.to, r.viaNodes} \subseteq Seq(Nat \ {0})
      BY <2>1, <3>1, MembersAssumption
    <3> QED
      BY <2>1, <2>2, <2>4, <2>9, <3>2, PlainIsApplied
  <2>10. ASSUME turn, e.outcome = "APPLIED_ONLY"
         PROVE  \E c \in arcs : Head(c.path) = Last(a.path) /\ c.way \in ToSet(r.to)
    <3>1. Outcome(r) = "APPLIED_ONLY" /\ Interpretation(r) = "APPLIED_ONLY"
      BY <2>4, <2>10, OutcomesAre
    <3>2. Forbidden(r) # {}
      BY <3>1 DEF Outcome
    <3>3. PICK c \in Onto(r) : TRUE
      BY <3>1, <3>2 DEF Forbidden
    <3>4. Len(r.viaNodes) = 1
      BY <3>1, AppliedIsPlain
    <3>5. c \in arcs /\ c.way \in ToSet(r.to) /\ Head(c.path) = r.viaNodes[1]
      BY <3>3 DEF Onto, FromNode
    <3> QED
      BY <2>10, <3>4, <3>5
  <2> USE DEF e
  <2> QED
    BY <2>7, <2>8, <2>9, <2>10
<1> QED
  BY <1>1, <1>2, GraphStep, PTL DEF RoadGraphSpec

(***************************************************************************)
(* Candidates: numbers.                                                    *)
(***************************************************************************)

\* Naturals that are not empty have a least one.
LEMMA LeastNatural ==
    ASSUME NEW T \in SUBSET Nat, T # {}
    PROVE  \E n \in T : \A m \in T : n <= m
<1>1. PICK n \in T : \A m \in T : ~(<<m, n>> \in OpToRel(<, Nat))
  BY NatLessThanWellFounded, WFMin
<1>2. \A m \in T : ~(m < n)
  BY <1>1 DEF OpToRel
<1> QED
  BY <1>2

\* A set of numbers that has 0 and the successor of each of its numbers has all.
LEMMA NumberInduction ==
    ASSUME NEW P, 0 \in P, \A n \in Nat : n \in P => n + 1 \in P
    PROVE  \A n \in Nat : n \in P
<1> SUFFICES ASSUME Nat \ P # {} PROVE FALSE
  OBVIOUS
<1>1. PICK n \in Nat \ P : \A m \in Nat \ P : n <= m
  BY LeastNatural
<1>2. n - 1 \in Nat /\ n - 1 + 1 = n
  BY <1>1
<1>3. n - 1 \in P
  BY <1>1, <1>2
<1> QED
  BY <1>1, <1>2, <1>3

\* Products of integers keep signs and order.
LEMMA Products ==
    ASSUME NEW a \in Nat, NEW b \in Nat
    PROVE  /\ a * b \in Nat
           /\ a # 0 /\ b # 0 => a * b # 0
           /\ \A c \in Nat : a <= b => a * c <= b * c
OBVIOUS

\* The squares of integers are ordered as their amounts.
LEMMA Squares ==
    ASSUME NEW a \in Int, NEW b \in Int, Upper(a, -a) <= Upper(b, -b)
    PROVE  a * a \in Nat /\ b * b \in Nat /\ a * a <= b * b
<1> DEFINE m == Upper(a, -a)
           n == Upper(b, -b)
<1>1. m \in Nat /\ n \in Nat /\ m <= n
  BY DEF Upper
<1>2. m * m = a * a /\ n * n = b * b
  <2>1. (-a) * (-a) = a * a /\ (-b) * (-b) = b * b
    OBVIOUS
  <2> QED
    BY <2>1 DEF Upper
<1> HIDE DEF m, n
<1>3. m * m <= n * m /\ m * n <= n * n /\ n * m = m * n /\ m * m \in Nat /\ n * n \in Nat
  BY <1>1, Products
<1> QED
  BY <1>1, <1>2, <1>3

\* The quotient rounded to the nearest integer.
LEMMA RoundedIs ==
    ASSUME NEW n \in Int, NEW d \in Nat \ {0}
    PROVE  /\ Rounded(n, d) \in Int
           /\ n \in Nat => Rounded(n, d) \in Nat
           /\ \A most \in Nat : n <= most * d => Rounded(n, d) <= most
<1> DEFINE low == n \div d
           left == n - low * d
<1>1. low \in Int /\ left \in 0..(d - 1)
  <2>1. n = d * (n \div d) + (n % d) /\ (n % d) \in 0..(d - 1) /\ (n \div d) \in Int
    OBVIOUS
  <2>2. d * (n \div d) = (n \div d) * d
    BY <2>1
  <2> QED
    BY <2>1, <2>2
<1>2. n = low * d + left /\ low * d \in Int
  BY <1>1
<1>3. Rounded(n, d) = IF 2 * left > d \/ (2 * left = d /\ low % 2 = 1) THEN low + 1 ELSE low
  BY DEF Rounded
<1> HIDE DEF low, left
<1>4. n \in Nat => low \in Nat
  <2> SUFFICES ASSUME n \in Nat, low < 0 PROVE FALSE
    BY <1>1
  <2>1. (-low - 1) \in Nat /\ (-low - 1) * d \in Nat
    BY <1>1, Products
  <2>2. (-low - 1) * d = -(low * d) - d
    BY <1>1
  <2> QED
    BY <1>1, <1>2, <2>1, <2>2
<1>5. ASSUME NEW most \in Nat, n <= most * d
      PROVE  low < most \/ (low = most /\ left = 0)
  <2> SUFFICES ASSUME low >= most PROVE low = most /\ left = 0
    BY <1>1
  <2>1. (low - most) \in Nat /\ (low - most) * d \in Nat
    BY <1>1, Products
  <2>2. (low - most) * d = low * d - most * d /\ most * d \in Int
    BY <1>1
  <2>3. low * d <= most * d /\ left = 0
    BY <1>1, <1>2, <1>5, <2>1, <2>2
  <2>4. (low - most) * d = 0
    BY <1>1, <1>2, <2>1, <2>2, <2>3
  <2>5. PICK k \in Nat : k = low - most
    BY <2>1
  <2>6. k = 0
    BY <2>4, <2>5, Products
  <2> QED
    BY <1>1, <2>3, <2>5, <2>6
<1> QED
  BY <1>1, <1>3, <1>4, <1>5

\* A rounded root is a natural number.
LEMMA RoundedRootIs ==
    ASSUME NEW n \in Nat
    PROVE  RoundedRoot(n) \in Nat
<1> DEFINE Below(r) == r = 0 \/ (2 * r - 1) * (2 * r - 1) < 4 * n
           T == { k \in Nat : ~Below(k + 1) }
<1>1. ASSUME NEW r \in Nat
      PROVE  (2 * r + 1) * (2 * r + 1) = 4 * (r * r) + 4 * r + 1 /\ r * r \in Nat
  BY Products
<1>2. n \in T
  <2>1. (2 * n + 1) * (2 * n + 1) = 4 * (n * n) + 4 * n + 1 /\ n * n \in Nat
    BY <1>1
  <2>2. 2 * (n + 1) - 1 = 2 * n + 1 /\ n + 1 # 0
    OBVIOUS
  <2> QED
    BY <2>1, <2>2
<1>3. PICK r \in T : \A m \in T : r <= m
  <2>1. T \in SUBSET Nat /\ T # {}
    BY <1>2
  <2> HIDE DEF T
  <2> QED
    BY <2>1, LeastNatural
<1>4. r \in 0..n
  BY <1>2, <1>3
<1>5. Below(r)
  <2> SUFFICES ASSUME r # 0, ~Below(r) PROVE FALSE
    OBVIOUS
  <2>1. r - 1 \in Nat /\ (r - 1) + 1 = r
    BY <1>4
  <2>2. r - 1 \in T
    BY <2>1
  <2> QED
    BY <1>3, <1>4, <2>2
<1>6. 4 * n < (2 * r + 1) * (2 * r + 1)
  <2>1. ~Below(r + 1)
    BY <1>3
  <2>2. 2 * (r + 1) - 1 = 2 * r + 1
    BY <1>4
  <2>3. ~((2 * r + 1) * (2 * r + 1) < 4 * n)
    BY <2>1, <2>2
  <2>4. (2 * r + 1) * (2 * r + 1) = 4 * (r * r) + 4 * r + 1 /\ r * r \in Nat
    BY <1>1, <1>4
  <2> QED
    BY <1>4, <2>3, <2>4
<1>7. \E k \in 0..n : (k = 0 \/ (2 * k - 1) * (2 * k - 1) < 4 * n) /\ 4 * n < (2 * k + 1) * (2 * k + 1)
  BY <1>4, <1>5, <1>6
<1>8. RoundedRoot(n) \in 0..n
  BY <1>7, Zenon DEF RoundedRoot
<1> QED
  BY <1>8

(***************************************************************************)
(* Candidates: points, segments and projections.                           *)
(***************************************************************************)
Points == Int \X Int

\* The points of segment i.
Segment(shape, i) ==
    { <<x, y>> : x \in Lower(shape[i - 1][1], shape[i][1])..Upper(shape[i - 1][1], shape[i][1]),
                 y \in Lower(shape[i - 1][2], shape[i][2])..Upper(shape[i - 1][2], shape[i][2]) }

\* A point is the pair of its coordinates.
LEMMA PointIs ==
    ASSUME NEW p \in Points
    PROVE  p[1] \in Int /\ p[2] \in Int /\ p = <<p[1], p[2]>>
BY DEF Points

\* A point of the shape is a pair of integers.
LEMMA PointsAre ==
    ASSUME NEW shape \in Seq(Points), NEW i \in 2..Len(shape)
    PROVE  /\ i \in 1..Len(shape) /\ i - 1 \in 1..Len(shape)
           /\ shape[i] \in Points /\ shape[i - 1] \in Points
           /\ shape[i][1] \in Int /\ shape[i][2] \in Int /\ shape[i - 1][1] \in Int /\ shape[i - 1][2] \in Int
<1>1. i \in 1..Len(shape) /\ i - 1 \in 1..Len(shape)
  OBVIOUS
<1>2. shape[i] \in Points /\ shape[i - 1] \in Points
  BY <1>1
<1> QED
  BY <1>1, <1>2 DEF Points

\* Clamping gives the nearest number of an interval.
LEMMA BetweenIs ==
    ASSUME NEW x \in Int, NEW low \in Int, NEW high \in Int, low <= high
    PROVE  /\ Between(x, low, high) \in low..high
           /\ \A y \in low..high : Upper(x - Between(x, low, high), -(x - Between(x, low, high))) <= Upper(x - y, -(x - y))
BY DEF Between, Upper, Lower

\* The foot of a segment is the point of it that is nearest.
LEMMA FootIsNearest ==
    ASSUME NEW shape \in Seq(Points), NEW i \in 2..Len(shape), NEW p \in Points
    PROVE  /\ Foot(shape, i, p) \in Segment(shape, i) /\ Foot(shape, i, p) \in Points
           /\ SquaredDistance(p, Foot(shape, i, p)) \in Nat
           /\ \A q \in Segment(shape, i) : SquaredDistance(p, Foot(shape, i, p)) <= SquaredDistance(p, q)
<1> DEFINE low(k) == Lower(shape[i - 1][k], shape[i][k])
           high(k) == Upper(shape[i - 1][k], shape[i][k])
           foot == Foot(shape, i, p)
<1>1. p[1] \in Int /\ p[2] \in Int
  BY DEF Points
<1>2. low(1) \in Int /\ high(1) \in Int /\ low(1) <= high(1) /\ low(2) \in Int /\ high(2) \in Int /\ low(2) <= high(2)
  BY PointsAre DEF Lower, Upper
<1>3. foot = <<Between(p[1], low(1), high(1)), Between(p[2], low(2), high(2))>>
  BY DEF Foot
<1>4. Segment(shape, i) = { <<x, y>> : x \in low(1)..high(1), y \in low(2)..high(2) }
  BY DEF Segment
<1> HIDE DEF low, high, foot
<1>5. foot[1] \in low(1)..high(1) /\ foot[2] \in low(2)..high(2)
  BY <1>1, <1>2, <1>3, BetweenIs
<1>6. foot \in Segment(shape, i) /\ foot \in Points
  <2>1. foot = <<foot[1], foot[2]>>
    BY <1>3
  <2> QED
    BY <1>2, <1>4, <1>5, <2>1 DEF Points
<1>7. ASSUME NEW q \in Segment(shape, i)
      PROVE  SquaredDistance(p, foot) \in Nat /\ SquaredDistance(p, foot) <= SquaredDistance(p, q)
  <2>1. PICK x \in low(1)..high(1), y \in low(2)..high(2) : q = <<x, y>>
    BY <1>4
  <2>2. q[1] = x /\ q[2] = y
    BY <2>1
  <2>3. ASSUME NEW a \in Int, NEW l \in Int, NEW h \in Int, l <= h, NEW b \in l..h, NEW c, c = Between(a, l, h)
        PROVE  (a - c) * (a - c) \in Nat /\ (a - b) * (a - b) \in Nat /\ (a - c) * (a - c) <= (a - b) * (a - b)
    <3>1. c \in l..h /\ Upper(a - c, -(a - c)) <= Upper(a - b, -(a - b))
      BY <2>3, BetweenIs
    <3>2. a - c \in Int /\ a - b \in Int
      BY <3>1
    <3> QED
      BY <3>1, <3>2, Squares
  <2>4. foot[1] = Between(p[1], low(1), high(1)) /\ foot[2] = Between(p[2], low(2), high(2))
    BY <1>3
  <2>5. /\ (p[1] - foot[1]) * (p[1] - foot[1]) \in Nat /\ (p[1] - q[1]) * (p[1] - q[1]) \in Nat
        /\ (p[1] - foot[1]) * (p[1] - foot[1]) <= (p[1] - q[1]) * (p[1] - q[1])
    BY <1>1, <1>2, <2>1, <2>2, <2>3, <2>4
  <2>6. /\ (p[2] - foot[2]) * (p[2] - foot[2]) \in Nat /\ (p[2] - q[2]) * (p[2] - q[2]) \in Nat
        /\ (p[2] - foot[2]) * (p[2] - foot[2]) <= (p[2] - q[2]) * (p[2] - q[2])
    BY <1>1, <1>2, <2>1, <2>2, <2>3, <2>4
  <2>7. ASSUME NEW a \in Nat, NEW b \in Nat, NEW c \in Nat, NEW d \in Nat, a <= c, b <= d
        PROVE  a + b \in Nat /\ a + b <= c + d
    BY <2>7
  <2> QED
    BY <2>5, <2>6, <2>7 DEF SquaredDistance
<1>8. foot \in Segment(shape, i)
  BY <1>6
<1> USE DEF foot
<1> QED
  BY <1>6, <1>7, <1>8

\* Every point of a shape lies on a segment that has a direction, if one has.
LEMMA StrokesCover ==
    ASSUME NEW shape \in Seq(Points), Strokes(shape) # {}, NEW i \in 2..Len(shape), NEW q \in Segment(shape, i)
    PROVE  \E j \in Strokes(shape) : q \in Segment(shape, j)
<1> DEFINE Covered(k) == \E j \in Strokes(shape) : shape[k] \in Segment(shape, j)
<1>1. Strokes(shape) \subseteq 2..Len(shape)
  BY DEF Strokes
<1>2. ASSUME NEW j \in 2..Len(shape)
      PROVE  shape[j] \in Segment(shape, j) /\ shape[j - 1] \in Segment(shape, j)
  <2>1. shape[j] = <<shape[j][1], shape[j][2]>> /\ shape[j - 1] = <<shape[j - 1][1], shape[j - 1][2]>>
    BY PointsAre, PointIs
  <2>2. /\ shape[j][1] \in Lower(shape[j - 1][1], shape[j][1])..Upper(shape[j - 1][1], shape[j][1])
        /\ shape[j][2] \in Lower(shape[j - 1][2], shape[j][2])..Upper(shape[j - 1][2], shape[j][2])
        /\ shape[j - 1][1] \in Lower(shape[j - 1][1], shape[j][1])..Upper(shape[j - 1][1], shape[j][1])
        /\ shape[j - 1][2] \in Lower(shape[j - 1][2], shape[j][2])..Upper(shape[j - 1][2], shape[j][2])
    BY PointsAre DEF Lower, Upper
  <2> QED
    BY <2>1, <2>2 DEF Segment
<1>3. ASSUME NEW j \in 2..Len(shape), j \notin Strokes(shape)
      PROVE  shape[j - 1] = shape[j] /\ Segment(shape, j) = {shape[j]}
  <2>1. LineDistance(shape[j - 1], shape[j]) = 0
    BY <1>3 DEF Strokes, SegmentLength
  <2>2. shape[j - 1][1] = shape[j][1] /\ shape[j - 1][2] = shape[j][2]
    <3>1. PICK a \in Int, b \in Int, c \in Int, d \in Int :
            a = shape[j - 1][1] /\ b = shape[j][1] /\ c = shape[j - 1][2] /\ d = shape[j][2]
      BY PointsAre
    <3>2. Upper(a - b, b - a) + Upper(c - d, d - c) = 0
      BY <2>1, <3>1 DEF LineDistance
    <3>3. a = b /\ c = d
      BY <3>2 DEF Upper
    <3> QED
      BY <3>1, <3>3
  <2>3. shape[j] = <<shape[j][1], shape[j][2]>> /\ shape[j - 1] = <<shape[j - 1][1], shape[j - 1][2]>>
    BY PointsAre, PointIs
  <2>4. PICK x \in Int, y \in Int : x = shape[j][1] /\ y = shape[j][2]
    BY PointsAre
  <2>5. Segment(shape, j) = { <<a, b>> : a \in x..x, b \in y..y }
    BY <2>2, <2>4 DEF Segment, Lower, Upper
  <2>6. x..x = {x} /\ y..y = {y}
    OBVIOUS
  <2>7. Segment(shape, j) = {<<x, y>>}
    BY <2>5, <2>6
  <2>8. shape[j] = <<x, y>> /\ shape[j - 1] = <<x, y>>
    BY <2>2, <2>3, <2>4
  <2> QED
    BY <2>7, <2>8
<1>4. ASSUME NEW j \in 2..Len(shape)
      PROVE  Covered(j - 1) <=> Covered(j)
  <2>1. CASE j \in Strokes(shape)
    BY <1>2, <2>1
  <2>2. CASE j \notin Strokes(shape)
    BY <1>3, <2>2
  <2> QED
    BY <2>1, <2>2
<1>5. PICK s \in Strokes(shape) : TRUE
  OBVIOUS
<1>6. s \in 2..Len(shape) /\ Covered(s)
  BY <1>1, <1>2, <1>5
<1> HIDE DEF Covered
<1> DEFINE P == { n \in Nat : (s + n <= Len(shape) => Covered(s + n)) /\ (s - n >= 1 => Covered(s - n)) }
<1>7. 0 \in P
  BY <1>6
<1>8. ASSUME NEW n \in Nat, n \in P
      PROVE  n + 1 \in P
  <2>1. s + (n + 1) <= Len(shape) => Covered(s + (n + 1))
    <3> SUFFICES ASSUME s + (n + 1) <= Len(shape) PROVE Covered(s + (n + 1))
      OBVIOUS
    <3>1. s + (n + 1) \in 2..Len(shape) /\ (s + (n + 1)) - 1 = s + n /\ s + n <= Len(shape)
      BY <1>6
    <3> QED
      BY <1>4, <1>8, <3>1
  <2>2. s - (n + 1) >= 1 => Covered(s - (n + 1))
    <3> SUFFICES ASSUME s - (n + 1) >= 1 PROVE Covered(s - (n + 1))
      OBVIOUS
    <3>1. s - n \in 2..Len(shape) /\ (s - n) - 1 = s - (n + 1) /\ s - n >= 1
      BY <1>6
    <3> QED
      BY <1>4, <1>8, <3>1
  <2> QED
    BY <2>1, <2>2
<1>9. \A n \in Nat : n \in P
  <2> HIDE DEF P
  <2> QED
    BY <1>7, <1>8, NumberInduction
<1>10. Covered(i)
  <2>1. CASE i >= s
    <3>1. i - s \in Nat /\ s + (i - s) = i /\ s + (i - s) <= Len(shape)
      BY <1>6, <2>1
    <3>2. i - s \in P
      BY <1>9, <3>1
    <3> QED
      BY <3>1, <3>2
  <2>2. CASE i < s
    <3>1. s - i \in Nat /\ s - (s - i) = i /\ s - (s - i) >= 1
      BY <1>6, <2>2
    <3>2. s - i \in P
      BY <1>9, <3>1
    <3> QED
      BY <3>1, <3>2
  <2> QED
    BY <1>6, <2>1, <2>2
<1> QED
  BY <1>3, <1>10 DEF Covered

\* The nearest segment is one with a direction, and none is nearer.
LEMMA NearestSegmentIs ==
    ASSUME NEW shape \in Seq(Points), Strokes(shape) # {}, NEW p \in Points
    PROVE  /\ NearestSegment(shape, p) \in Strokes(shape)
           /\ \A j \in Strokes(shape) :
                SquaredDistance(p, Foot(shape, NearestSegment(shape, p), p)) <= SquaredDistance(p, Foot(shape, j, p))
<1> DEFINE squared(i) == SquaredDistance(p, Foot(shape, i, p))
           T == { squared(i) : i \in Strokes(shape) }
<1>1. Strokes(shape) \subseteq 2..Len(shape)
  BY DEF Strokes
<1>2. \A i \in Strokes(shape) : squared(i) \in Nat
  BY <1>1, FootIsNearest
<1> HIDE DEF squared
<1>3. PICK v \in T : \A w \in T : v <= w
  <2>1. T \in SUBSET Nat /\ T # {}
    BY <1>2
  <2> HIDE DEF T
  <2> QED
    BY <2>1, LeastNatural
<1> DEFINE U == { i \in Strokes(shape) : squared(i) = v }
<1>4. PICK n \in U : \A m \in U : n <= m
  <2>1. U \in SUBSET Nat /\ U # {}
    BY <1>1, <1>3
  <2> HIDE DEF U
  <2> QED
    BY <2>1, LeastNatural
<1>5. ASSUME NEW j \in Strokes(shape)
      PROVE  squared(n) < squared(j) \/ (squared(n) = squared(j) /\ n <= j)
  <2>1. v <= squared(j) /\ squared(n) = v /\ v \in Nat /\ squared(j) \in Nat
    BY <1>2, <1>3, <1>4
  <2>2. squared(j) = v => n <= j
    BY <1>4
  <2> QED
    BY <2>1, <2>2
<1>6. n \in Strokes(shape)
  BY <1>4
<1> DEFINE IsIt(i) == \A j \in Strokes(shape) : squared(i) < squared(j) \/ (squared(i) = squared(j) /\ i <= j)
<1>7. NearestSegment(shape, p) = CHOOSE i \in Strokes(shape) : IsIt(i)
  BY Zenon DEF NearestSegment, squared
<1>8. NearestSegment(shape, p) \in Strokes(shape) /\ IsIt(NearestSegment(shape, p))
  <2>1. IsIt(n)
    BY <1>5
  <2> HIDE DEF IsIt
  <2> QED
    BY <1>6, <1>7, <2>1, Zenon
<1>9. ASSUME NEW j \in Strokes(shape)
      PROVE  squared(NearestSegment(shape, p)) <= squared(j)
  BY <1>2, <1>8
<1> QED
  BY <1>8, <1>9 DEF squared

\* An observation is projected onto a nearest point of the shape.
LEMMA ProjectionIsNearest ==
    ASSUME NEW shape \in Seq(Points), Strokes(shape) # {}, NEW p \in Points
    PROVE  /\ Foot(shape, NearestSegment(shape, p), p) \in Points
           /\ Foot(shape, NearestSegment(shape, p), p) \in NearestPoints(shape, p)
           /\ SquaredDistance(p, Foot(shape, NearestSegment(shape, p), p)) \in Nat
           /\ \A q \in PointsOf(shape) : SquaredDistance(p, q) \in Nat
<1> DEFINE n == NearestSegment(shape, p)
           foot == Foot(shape, n, p)
<1>1. Strokes(shape) \subseteq 2..Len(shape)
  BY DEF Strokes
<1>2. n \in Strokes(shape) /\ n \in 2..Len(shape)
  BY <1>1, NearestSegmentIs
<1>3. PointsOf(shape) = UNION { Segment(shape, i) : i \in 2..Len(shape) }
  BY DEF PointsOf, Segment
<1>4. foot \in Points /\ SquaredDistance(p, foot) \in Nat /\ foot \in PointsOf(shape)
  BY <1>2, <1>3, FootIsNearest
<1>5. ASSUME NEW q \in PointsOf(shape)
      PROVE  SquaredDistance(p, q) \in Nat /\ SquaredDistance(p, foot) <= SquaredDistance(p, q)
  <2>1. PICK i \in 2..Len(shape) : q \in Segment(shape, i)
    BY <1>3
  <2>2. PICK j \in Strokes(shape) : q \in Segment(shape, j)
    BY <2>1, StrokesCover
  <2>3. SquaredDistance(p, foot) <= SquaredDistance(p, Foot(shape, j, p))
    BY NearestSegmentIs
  <2>4. /\ SquaredDistance(p, Foot(shape, j, p)) \in Nat
        /\ SquaredDistance(p, Foot(shape, j, p)) <= SquaredDistance(p, q)
    BY <1>1, <2>2, FootIsNearest
  <2>5. SquaredDistance(p, q) \in Nat
    <3>1. q[1] \in Int /\ q[2] \in Int
      <4>1. /\ Lower(shape[i - 1][1], shape[i][1]) \in Int /\ Upper(shape[i - 1][1], shape[i][1]) \in Int
            /\ Lower(shape[i - 1][2], shape[i][2]) \in Int /\ Upper(shape[i - 1][2], shape[i][2]) \in Int
        BY PointsAre DEF Lower, Upper
      <4> QED
        BY <2>1, <4>1 DEF Segment
    <3>2. p[1] \in Int /\ p[2] \in Int
      BY PointIs
    <3>3. PICK a \in Int, b \in Int : a = p[1] - q[1] /\ b = p[2] - q[2]
      BY <3>1, <3>2
    <3>4. a * a \in Nat /\ b * b \in Nat
      BY Squares DEF Upper
    <3>5. SquaredDistance(p, q) = a * a + b * b
      BY <3>3 DEF SquaredDistance
    <3> QED
      BY <3>4, <3>5
  <2> QED
    BY <1>4, <2>3, <2>4, <2>5
<1>6. foot \in NearestPoints(shape, p)
  BY <1>4, <1>5 DEF NearestPoints
<1> QED
  BY <1>4, <1>5, <1>6

(***************************************************************************)
(* Candidates: lengths and offsets.                                        *)
(***************************************************************************)

\* The length of a shape up to each of its first N points.
IsLengthTo(shape, f, N) ==
    f = [i \in 1..N |-> IF i = 1 THEN 0 ELSE f[i - 1] + SegmentLength(shape, i)]

\* A segment's length is a natural number, and positive where it has a direction.
LEMMA SegmentLengths ==
    ASSUME NEW shape \in Seq(Points), NEW i \in 2..Len(shape)
    PROVE  SegmentLength(shape, i) \in Nat
<1>1. PICK a \in Int, b \in Int, c \in Int, d \in Int :
        a = shape[i - 1][1] /\ b = shape[i][1] /\ c = shape[i - 1][2] /\ d = shape[i][2]
  BY PointsAre
<1>2. SegmentLength(shape, i) = Upper(a - b, b - a) + Upper(c - d, d - c)
  BY <1>1 DEF SegmentLength, LineDistance
<1> QED
  BY <1>2 DEF Upper

\* Lengths add up along a shape.
LEMMA LengthsAre ==
    ASSUME NEW shape \in Seq(Points)
    PROVE  \A i \in 1..Len(shape) :
             LengthTo(shape)[i] = IF i = 1 THEN 0 ELSE LengthTo(shape)[i - 1] + SegmentLength(shape, i)
<1> DEFINE P == { N \in Nat : \E f : IsLengthTo(shape, f, N) }
<1>1. 0 \in P
  <2>1. IsLengthTo(shape, [i \in 1..0 |-> 0], 0)
    BY DEF IsLengthTo
  <2> QED
    BY <2>1
<1>2. ASSUME NEW N \in Nat, N \in P
      PROVE  N + 1 \in P
  <2>1. PICK f : IsLengthTo(shape, f, N)
    BY <1>2
  <2> DEFINE g == [i \in 1..(N + 1) |-> IF i = 1 THEN 0 ELSE f[i - 1] + SegmentLength(shape, i)]
  <2>2. ASSUME NEW i \in 1..N
        PROVE  g[i] = f[i]
    <3>1. f[i] = IF i = 1 THEN 0 ELSE f[i - 1] + SegmentLength(shape, i)
      BY <2>1 DEF IsLengthTo
    <3>2. i \in 1..(N + 1)
      OBVIOUS
    <3> QED
      BY <3>1, <3>2, Zenon
  <2>3. ASSUME NEW i \in 1..(N + 1)
        PROVE  (IF i = 1 THEN 0 ELSE f[i - 1] + SegmentLength(shape, i))
                 = (IF i = 1 THEN 0 ELSE g[i - 1] + SegmentLength(shape, i))
    <3>1. CASE i = 1
      BY <3>1
    <3>2. CASE i # 1
      <4>1. i - 1 \in 1..N
        BY <3>2
      <4>2. g[i - 1] = f[i - 1]
        BY <2>2, <4>1
      <4> QED
        BY <4>2, Zenon
    <3> QED
      BY <3>1, <3>2
  <2>4. IsLengthTo(shape, g, N + 1)
    <3>1. g = [i \in 1..(N + 1) |-> IF i = 1 THEN 0 ELSE g[i - 1] + SegmentLength(shape, i)]
      BY <2>3, Zenon
    <3> HIDE DEF g
    <3> QED
      BY <3>1 DEF IsLengthTo
  <2> QED
    BY <2>4
<1> HIDE DEF P
<1>3. Len(shape) \in P
  <2>1. Len(shape) \in Nat
    OBVIOUS
  <2> QED
    BY <1>1, <1>2, <2>1, NumberInduction
<1>4. PICK f : IsLengthTo(shape, f, Len(shape)) /\ LengthTo(shape) = f
  <2>1. \E g : IsLengthTo(shape, g, Len(shape))
    BY <1>3 DEF P
  <2> QED
    BY <2>1, Zenon DEF LengthTo, IsLengthTo
<1> QED
  BY <1>4, Zenon DEF IsLengthTo

\* They are natural numbers that do not shrink, and the whole length is positive
\* where a segment has a direction.
LEMMA LengthsGrow ==
    ASSUME NEW shape \in Seq(Points), Strokes(shape) # {}
    PROVE  /\ \A i \in 1..Len(shape) : LengthTo(shape)[i] \in Nat
           /\ LengthTo(shape)[Len(shape)] \in Nat \ {0}
<1> DEFINE to == LengthTo(shape)
           size == Len(shape)
           P == { n \in Nat : n + 1 <= size => to[n + 1] \in Nat }
<1>1. /\ 1 \in 1..size => to[1] = 0
      /\ \A i \in 2..size : to[i] = to[i - 1] + SegmentLength(shape, i)
  BY LengthsAre
<1>2. size \in Nat
  OBVIOUS
<1>3. \A i \in 2..size : SegmentLength(shape, i) \in Nat
  BY SegmentLengths
<1>4. PICK s \in 2..size : SegmentLength(shape, s) # 0
  BY DEF Strokes
<1> HIDE DEF to, size
<1>5. 0 \in P
  BY <1>1, <1>4
<1>6. ASSUME NEW n \in Nat, n \in P
      PROVE  n + 1 \in P
  <2> SUFFICES ASSUME n + 2 <= size PROVE to[n + 2] \in Nat
    <3>1. (n + 1) + 1 = n + 2
      OBVIOUS
    <3> QED
      BY <3>1
  <2>1. n + 2 \in 2..size /\ (n + 2) - 1 = n + 1 /\ n + 1 <= size
    BY <1>2
  <2>2. to[n + 2] = to[n + 1] + SegmentLength(shape, n + 2) /\ SegmentLength(shape, n + 2) \in Nat
    BY <1>1, <1>3, <2>1
  <2>3. to[n + 1] \in Nat
    BY <1>6, <2>1
  <2> QED
    BY <2>2, <2>3
<1>7. ASSUME NEW i \in 1..size
      PROVE  to[i] \in Nat
  <2>1. i - 1 \in Nat /\ (i - 1) + 1 = i /\ i <= size
    BY <1>2
  <2>2. i - 1 \in P
    <3> HIDE DEF P
    <3> QED
      BY <1>5, <1>6, <2>1, NumberInduction
  <2> QED
    BY <2>1, <2>2
<1> HIDE DEF P
<1> DEFINE Q == { n \in Nat : s + n <= size => to[s + n] # 0 }
<1>8. 0 \in Q
  <2>1. s - 1 \in 1..size /\ s \in 1..size
    BY <1>2, <1>4
  <2>2. to[s] = to[s - 1] + SegmentLength(shape, s) /\ to[s - 1] \in Nat /\ SegmentLength(shape, s) \in Nat
    BY <1>1, <1>3, <1>4, <1>7, <2>1
  <2>3. to[s] # 0
    BY <1>4, <2>2
  <2>4. s + 0 = s
    BY <1>4
  <2> QED
    BY <2>3, <2>4
<1>9. ASSUME NEW n \in Nat, n \in Q
      PROVE  n + 1 \in Q
  <2> SUFFICES ASSUME s + (n + 1) <= size PROVE to[s + (n + 1)] # 0
    OBVIOUS
  <2>1. s + (n + 1) \in 2..size /\ (s + (n + 1)) - 1 = s + n /\ s + n \in 1..size
    BY <1>2, <1>4
  <2>2. to[s + (n + 1)] = to[s + n] + SegmentLength(shape, s + (n + 1))
    BY <1>1, <2>1
  <2>3. to[s + n] \in Nat /\ SegmentLength(shape, s + (n + 1)) \in Nat /\ to[s + n] # 0
    BY <1>3, <1>7, <1>9, <2>1
  <2> QED
    BY <2>2, <2>3
<1>10. to[size] # 0
  <2>1. size - s \in Nat /\ s + (size - s) = size
    BY <1>2, <1>4
  <2>2. size - s \in Q
    <3> HIDE DEF Q
    <3> QED
      BY <1>8, <1>9, <2>1, NumberInduction
  <2> QED
    BY <1>2, <2>1, <2>2
<1>11. to[size] \in Nat \ {0}
  BY <1>2, <1>4, <1>7, <1>10
<1> QED
  BY <1>7, <1>11 DEF to, size

\* How far along the shape a projection is is a natural number.
LEMMA AlongIs ==
    ASSUME NEW shape \in Seq(Points), Strokes(shape) # {}, NEW p \in Points
    PROVE  AlongShape(shape, p) \in Nat
<1> DEFINE n == NearestSegment(shape, p)
           foot == Foot(shape, n, p)
<1>1. n \in 2..Len(shape)
  BY NearestSegmentIs DEF Strokes
<1>2. n - 1 \in 1..Len(shape) /\ shape[n - 1] \in Points
  BY <1>1, PointsAre
<1>3. foot \in Points
  BY ProjectionIsNearest
<1>4. LengthTo(shape)[n - 1] \in Nat
  BY <1>2, LengthsGrow
<1>5. PICK a \in Int, b \in Int, c \in Int, d \in Int :
        a = shape[n - 1][1] /\ b = foot[1] /\ c = shape[n - 1][2] /\ d = foot[2]
  BY <1>2, <1>3, PointIs
<1>6. LineDistance(shape[n - 1], foot) = Upper(a - b, b - a) + Upper(c - d, d - c)
  BY <1>5 DEF LineDistance
<1>7. LineDistance(shape[n - 1], foot) \in Nat
  BY <1>6 DEF Upper
<1>8. AlongShape(shape, p) = LengthTo(shape)[n - 1] + LineDistance(shape[n - 1], foot)
  BY DEF AlongShape
<1> HIDE DEF n, foot
<1> QED
  BY <1>4, <1>7, <1>8

\* The offset of a candidate is one of its arc's.
LEMMA OffsetIs ==
    ASSUME NEW length \in Nat, NEW whole \in Nat \ {0}, NEW along \in Nat
    PROVE  Rounded(Lower(length * whole, along * length), whole) \in 0..length
<1>1. length * whole \in Nat /\ along * length \in Nat
  BY Products
<1>2. PICK n \in Nat : n = Lower(length * whole, along * length) /\ n <= length * whole
  BY <1>1 DEF Lower
<1>3. Rounded(n, whole) \in Nat /\ Rounded(n, whole) <= length
  BY <1>2, RoundedIs
<1> QED
  BY <1>2, <1>3

(***************************************************************************)
(* Candidates: their evidence and their cost.                              *)
(***************************************************************************)
Roads == [id : Int, shape : Seq(Points), length : Int]

Seen == [id : Int, at : Points, speed : Int, heading : {NoHeading} \cup Int, uncertainty : {NoUncertainty} \cup Int]

\* The parameters are integers in their order.
LEMMA ParametersAre ==
    /\ SearchLimits.least \in Nat /\ SearchLimits.usual \in Nat /\ SearchLimits.most \in Nat
    /\ SearchLimits.factor \in Nat /\ SearchLimits.count \in Nat \ {0}
    /\ SearchLimits.least <= SearchLimits.usual /\ SearchLimits.usual <= SearchLimits.most
    /\ EmissionModel.sigma \in Nat \ {0} /\ EmissionModel.mostSigma \in Nat \ {0}
    /\ EmissionModel.turnSigma \in Nat \ {0}
    /\ EmissionModel.slow \in Nat /\ EmissionModel.fast \in Nat /\ EmissionModel.slow < EmissionModel.fast
    /\ EmissionModel.offMap \in Nat /\ EmissionModel.unit \in Nat /\ EmissionModel.turnPeak \in Int
BY CandidateAssumption DEF ValidParameters

\* The radius of a search is an integer.
LEMMA RadiusIs ==
    ASSUME NEW o \in Seen
    PROVE  SearchRadius(o) * SearchRadius(o) \in Int
<1> DEFINE wide == IF o.uncertainty = NoUncertainty THEN 0 ELSE o.uncertainty * SearchLimits.factor
<1>1. wide \in Int
  <2>1. o.uncertainty = NoUncertainty \/ o.uncertainty \in Int
    BY DEF Seen
  <2> QED
    BY <2>1, ParametersAre
<1> HIDE DEF wide
<1>2. Between(Upper(SearchLimits.usual, wide), SearchLimits.least, SearchLimits.most) \in Int
  BY <1>1, ParametersAre DEF Between, Upper, Lower
<1>3. SearchRadius(o) \in Int
  BY <1>2 DEF SearchRadius, wide
<1> QED
  BY <1>3

\* The spread of an observation is one that has a density.
LEMMA SigmaIs ==
    ASSUME NEW o \in Seen
    PROVE  SquaredSigma(o) \in 1..(EmissionModel.mostSigma * EmissionModel.mostSigma)
<1> DEFINE u == IF o.uncertainty = NoUncertainty THEN 0 ELSE o.uncertainty
<1>1. u \in Int
  BY DEF Seen
<1>2. SquaredSigma(o) = Lower(EmissionModel.mostSigma * EmissionModel.mostSigma,
                              EmissionModel.sigma * EmissionModel.sigma + u * u)
  BY DEF SquaredSigma
<1> HIDE DEF u
<1>3. PICK a \in Nat \ {0}, b \in Nat \ {0} : a = EmissionModel.mostSigma /\ b = EmissionModel.sigma
  BY ParametersAre
<1>4. u * u \in Nat
  BY <1>1, Squares DEF Upper
<1>5. a * a \in Nat /\ a * a # 0 /\ b * b \in Nat /\ b * b # 0
  BY <1>3, Products
<1>6. PICK x \in Nat \ {0}, y \in Nat \ {0} : x = a * a /\ y = b * b + u * u
  <2>1. PICK x \in Nat \ {0} : x = a * a
    BY <1>5
  <2>2. PICK v \in Nat \ {0} : v = b * b
    BY <1>5
  <2>3. PICK w \in Nat : w = u * u
    BY <1>4
  <2>4. v + w \in Nat \ {0}
    OBVIOUS
  <2> QED
    BY <2>1, <2>2, <2>3, <2>4
<1>7. Lower(x, y) \in 1..x
  BY <1>6 DEF Lower
<1> QED
  BY <1>2, <1>3, <1>6, <1>7

\* A cost is an integer.
LEMMA CostIs ==
    ASSUME NEW o \in Seen, NEW lateral \in Int, NEW turn \in Int
    PROVE  Cost(o, lateral, turn) \in Int
<1> DEFINE across == 2 * SquaredSigma(o)
           around == 2 * EmissionModel.turnSigma * EmissionModel.turnSigma
           span == EmissionModel.fast - EmissionModel.slow
           turned == EmissionModel.unit * turn * turn + EmissionModel.turnPeak * around
           n == EmissionModel.unit * lateral * lateral * around * span + HeadingWeight(o) * turned * across
           d == across * around * span
<1>1. across \in Nat \ {0} /\ EmissionModel.peak[SquaredSigma(o)] \in Int
  <2>1. PICK most \in Int : most = EmissionModel.mostSigma * EmissionModel.mostSigma
    BY ParametersAre
  <2>2. SquaredSigma(o) \in 1..most /\ \A s \in 1..most : EmissionModel.peak[s] \in Int
    BY <2>1, SigmaIs, CandidateAssumption
  <2> QED
    BY <2>1, <2>2
<1>2. around \in Nat \ {0}
  <2>1. PICK b \in Nat \ {0} : b = EmissionModel.turnSigma
    BY ParametersAre
  <2>2. 2 * b \in Nat /\ 2 * b # 0
    BY <2>1
  <2> QED
    BY <2>1, <2>2, Products
<1>3. span \in Nat \ {0}
  BY ParametersAre
<1>4. HeadingWeight(o) \in Int
  <2>1. o.speed \in Int
    BY DEF Seen
  <2> QED
    BY <2>1, ParametersAre DEF HeadingWeight, Lower
<1> HIDE DEF across, around, span
<1>5. d \in Nat \ {0}
  <2>1. across * around \in Nat /\ across * around # 0
    BY <1>1, <1>2, Products
  <2> HIDE DEF d
  <2>2. d = (across * around) * span
    BY DEF d
  <2> QED
    BY <1>3, <2>1, <2>2, Products
<1>6. turned \in Int
  BY <1>2, ParametersAre
<1> HIDE DEF turned
<1>7. n \in Int
  BY <1>1, <1>2, <1>3, <1>4, <1>6, ParametersAre
<1>8. Rounded(n, d) \in Int
  <2> HIDE DEF n, d
  <2> QED
    BY <1>5, <1>7, RoundedIs
<1>9. Cost(o, lateral, turn) = EmissionModel.peak[SquaredSigma(o)] + Rounded(n, d)
  BY Zenon DEF Cost, n, d, across, around, span, turned
<1> HIDE DEF n, d
<1> QED
  BY <1>1, <1>8, <1>9

\* An arc of a network has a shape and a length.
LEMMA RoadIs ==
    ASSUME network \in Seq(Roads), NEW a \in DOMAIN network
    PROVE  /\ a \in Int /\ network[a] \in Roads
           /\ network[a].id \in Int /\ network[a].shape \in Seq(Points) /\ network[a].length \in Int
<1>1. a \in 1..Len(network) /\ Len(network) \in Nat
  OBVIOUS
<1>2. network[a] \in Roads
  BY <1>1
<1> QED
  BY <1>1, <1>2 DEF Roads

\* A direction is a quarter turn.
LEMMA DirectionIs ==
    ASSUME NEW shape, NEW i
    PROVE  Direction(shape, i) \in 0..3
<1>1. Direction(shape, i) = 0 \/ Direction(shape, i) = 1 \/ Direction(shape, i) = 2 \/ Direction(shape, i) = 3
  <2> DEFINE east == shape[i][1] > shape[i - 1][1]
             north == shape[i][2] > shape[i - 1][2]
             west == shape[i][1] < shape[i - 1][1]
  <2>1. Direction(shape, i) = CASE east -> 0 [] north -> 1 [] west -> 2 [] OTHER -> 3
    BY Zenon DEF Direction
  <2> HIDE DEF east, north, west
  <2> QED
    BY <2>1
<1> QED
  BY <1>1

\* What a candidate of an arc that has a direction is made of.
LEMMA OnRoadIs ==
    ASSUME NEW o \in Seen, ValidSighting(o), network \in Seq(Roads), NEW a \in DOMAIN network,
           network[a].length > 0, Strokes(network[a].shape) # {}
    PROVE  /\ OnRoad(o, a).arc = a
           /\ OnRoad(o, a).at \in Points /\ OnRoad(o, a).at \in NearestPoints(network[a].shape, o.at)
           /\ OnRoad(o, a).lateral \in Nat
           /\ OnRoad(o, a).tangent \in Int
           /\ OnRoad(o, a).off \in 0..network[a].length
           /\ OnRoad(o, a).cost \in Int
           /\ IsNear(o, a) <=> IsReached(o, a)
<1> DEFINE shape == network[a].shape
           p == Projection(o, a)
           foot == Foot(shape, NearestSegment(shape, o.at), o.at)
           along == AlongShape(shape, o.at)
           whole == LengthTo(shape)[Len(shape)]
           c == OnRoad(o, a)
           turn == IF HeadingWeight(o) = 0 THEN 0 ELSE TurnBetween(o.heading, p.tangent)
<1>1. network[a] \in Roads /\ shape \in Seq(Points) /\ network[a].length \in Nat /\ o.at \in Points
  BY RoadIs DEF Seen
<1>2. /\ foot \in Points /\ foot \in NearestPoints(shape, o.at)
      /\ SquaredDistance(o.at, foot) \in Nat
      /\ \A q \in PointsOf(shape) : SquaredDistance(o.at, q) \in Nat
  BY <1>1, ProjectionIsNearest
<1>3. along \in Nat /\ whole \in Nat \ {0}
  BY <1>1, AlongIs, LengthsGrow
<1>4. p.at = foot /\ p.squared = SquaredDistance(o.at, foot) /\ p.along = along /\ p.tangent = Tangent(shape, along)
  BY DEF Projection
<1>5. p.tangent \in 0..3
  BY <1>4, DirectionIs DEF Tangent
<1>6. RoundedRoot(p.squared) \in Nat
  BY <1>2, <1>4, RoundedRootIs
<1>7. Rounded(Lower(network[a].length * whole, p.along * network[a].length), whole) \in 0..network[a].length
  BY <1>1, <1>3, <1>4, OffsetIs
<1>8. turn \in Int
  <2>1. CASE HeadingWeight(o) = 0
    BY <2>1
  <2>2. CASE HeadingWeight(o) # 0
    <3>1. o.heading # NoHeading
      BY <2>2 DEF HeadingWeight
    <3>2. PICK h \in 0..3, g \in 0..3 : h = o.heading /\ g = p.tangent
      BY <1>5, <3>1 DEF ValidSighting
    <3>3. (h - g) % 4 \in Int /\ (g - h) % 4 \in Int
      <4>1. PICK m \in Int, n \in Int : m = h - g /\ n = g - h
        BY <3>2
      <4>2. (m % 4) \in Int /\ (n % 4) \in Int
        OBVIOUS
      <4> QED
        BY <4>1, <4>2
    <3>4. TurnBetween(h, g) \in Int
      BY <3>3 DEF TurnBetween, Lower
    <3> QED
      BY <2>2, <3>2, <3>4
  <2> QED
    BY <2>1, <2>2
<1>9. Cost(o, RoundedRoot(p.squared), turn) \in Int
  <2> HIDE DEF turn, p
  <2>1. RoundedRoot(p.squared) \in Int
    BY <1>6
  <2> QED
    BY <1>8, <2>1, CostIs
<1>10. /\ c.arc = a /\ c.at = p.at /\ c.lateral = RoundedRoot(p.squared) /\ c.tangent = p.tangent
       /\ c.off = Rounded(Lower(network[a].length * whole, p.along * network[a].length), whole)
       /\ c.cost = Cost(o, RoundedRoot(p.squared), turn)
  BY DEF OnRoad
<1>11. IsNear(o, a) <=> IsReached(o, a)
  <2>1. PICK limit \in Int : limit = SearchRadius(o) * SearchRadius(o)
    BY RadiusIs
  <2>2. IsNear(o, a) <=> SquaredDistance(o.at, foot) <= limit
    BY <1>4, <2>1 DEF IsNear
  <2>3. IsReached(o, a) <=> \E q \in PointsOf(shape) : SquaredDistance(o.at, q) <= limit
    BY <2>1 DEF IsReached
  <2>4. foot \in PointsOf(shape) /\ \A q \in PointsOf(shape) : SquaredDistance(o.at, foot) <= SquaredDistance(o.at, q)
    BY <1>2 DEF NearestPoints
  <2> HIDE DEF foot, shape
  <2> QED
    BY <1>2, <2>1, <2>2, <2>3, <2>4
<1> HIDE DEF p, foot, along, whole, turn
<1>12. c.tangent \in Int
  BY <1>5, <1>10
<1> QED
  BY <1>1, <1>2, <1>4, <1>6, <1>7, <1>9, <1>10, <1>11, <1>12

\* Such a candidate is one, and so is the one that is off the map.
LEMMA CandidatesAre ==
    ASSUME NEW o \in Seen, ValidSighting(o), network \in Seq(Roads), NEW a \in DOMAIN network,
           network[a].length > 0, Strokes(network[a].shape) # {}
    PROVE  IsCandidate(OnRoad(o, a)) /\ IsCandidate(NoRoad) /\ OnRoad(o, a) # NoRoad
<1> DEFINE c == OnRoad(o, a)
<1>1. /\ c.arc = a /\ c.at \in Points /\ c.lateral \in Nat /\ c.tangent \in Int
      /\ c.off \in 0..network[a].length
  BY OnRoadIs
<1>2. a \in Int /\ c.off \in Nat
  <2>1. network[a].length \in Int
    BY RoadIs
  <2> QED
    BY <1>1, <2>1, RoadIs
<1> HIDE DEF c
<1>3. c.arc # NoPlace /\ c.at # NoPlace /\ c.lateral # NoPlace /\ c.tangent # NoPlace /\ c.off # NoPlace
  <2>1. c.at \in Int \X Int
    BY <1>1 DEF Points
  <2> QED
    BY <1>1, <1>2, <2>1, GridAssumption
<1>4. c["arc"] # NoPlace /\ c["at"] # NoPlace /\ c["lateral"] # NoPlace /\ c["tangent"] # NoPlace /\ c["off"] # NoPlace
  BY <1>3
<1>5. \A part \in {"arc", "at", "lateral", "tangent", "off"} : c[part] # NoPlace
  BY <1>4
<1>6. IsCandidate(c)
  <2>1. c.lateral >= 0 /\ c.off >= 0
    BY <1>1, <1>2
  <2> QED
    BY <1>5, <2>1 DEF IsCandidate
<1>7. NoRoad.arc = NoPlace
  BY DEF NoRoad
<1>8. IsCandidate(NoRoad)
  <2>1. \A part \in {"arc", "at", "lateral", "tangent", "off"} : NoRoad[part] = NoPlace
    BY DEF NoRoad
  <2> QED
    BY <2>1 DEF IsCandidate
<1> QED
  BY <1>3, <1>6, <1>7, <1>8 DEF c

(***************************************************************************)
(* Candidates: the order of a batch.                                       *)
(***************************************************************************)

\* Candidates of one observation, one at most for an arc.
AreCandidates(C, o) ==
    \A c \in C : c.arc \in DOMAIN network /\ c = OnRoad(o, c.arc) /\ c.cost \in Int /\ c.lateral \in Int

\* C is strictly and totally ordered.
PreferenceOrders(C) ==
    /\ \A c \in C : ~Preferred(c, c)
    /\ \A c, d, e \in C : Preferred(c, d) /\ Preferred(d, e) => Preferred(c, e)
    /\ \A c, d \in C : c # d => Preferred(c, d) \/ Preferred(d, c)

\* Arcs that are told apart order their candidates.
LEMMA CandidatesAreOrdered ==
    ASSUME NEW o, NEW C, AreCandidates(C, o), network \in Seq(Roads), ValidNetwork(network)
    PROVE  PreferenceOrders(C)
<1> DEFINE id(c) == network[c.arc].id
<1>1. \A c \in C : c.cost \in Int /\ c.lateral \in Int /\ id(c) \in Int
  BY RoadIs DEF AreCandidates
<1>2. \A c, d \in C : c # d => id(c) # id(d)
  <2> SUFFICES ASSUME NEW c \in C, NEW d \in C, c # d PROVE id(c) # id(d)
    OBVIOUS
  <2>1. c.arc \in DOMAIN network /\ d.arc \in DOMAIN network /\ c.arc # d.arc
    BY DEF AreCandidates
  <2> QED
    BY <2>1 DEF ValidNetwork
<1>3. \A c, d \in C : Preferred(c, d) <=> (\/ c.cost < d.cost
                                          \/ (c.cost = d.cost /\ c.lateral < d.lateral)
                                          \/ (c.cost = d.cost /\ c.lateral = d.lateral /\ id(c) < id(d)))
  BY DEF Preferred
<1> HIDE DEF id
<1>4. \A c \in C : ~Preferred(c, c)
  BY <1>1, <1>3
<1>5. \A c, d, e \in C : Preferred(c, d) /\ Preferred(d, e) => Preferred(c, e)
  BY <1>1, <1>3
<1>6. ASSUME NEW c \in C, NEW d \in C, c # d
      PROVE  Preferred(c, d) \/ Preferred(d, c)
  <2>1. id(c) # id(d) /\ id(c) \in Int /\ id(d) \in Int
    BY <1>1, <1>2, <1>6
  <2>2. c.cost \in Int /\ d.cost \in Int /\ c.lateral \in Int /\ d.lateral \in Int
    BY <1>1
  <2> QED
    BY <1>3, <2>1, <2>2
<1> QED
  BY <1>4, <1>5, <1>6 DEF PreferenceOrders

\* How many candidates of C are preferred to one.
Better(C, c) == Cardinality({ d \in C : Preferred(d, c) })

\* They are fewer than C has, and more for one that is less preferred.
LEMMA BetterOrders ==
    ASSUME NEW C, IsFiniteSet(C), PreferenceOrders(C)
    PROVE  /\ \A c \in C : Better(C, c) \in 0..(Cardinality(C) - 1)
           /\ \A c, d \in C : Preferred(c, d) => Better(C, c) < Better(C, d)
           /\ \A c, d \in C : Better(C, c) = Better(C, d) => c = d
<1> DEFINE Above(c) == { d \in C : Preferred(d, c) }
<1>1. ASSUME NEW S, IsFiniteSet(S), NEW T, T \subseteq S, NEW x \in S, x \notin T
      PROVE  Cardinality(T) \in Nat /\ Cardinality(S) \in Nat /\ Cardinality(T) < Cardinality(S)
  <2>1. IsFiniteSet(S \ {x}) /\ Cardinality(S \ {x}) = Cardinality(S) - 1
    BY <1>1, FS_RemoveElement
  <2>2. T \subseteq S \ {x}
    BY <1>1
  <2>3. IsFiniteSet(T) /\ Cardinality(T) <= Cardinality(S \ {x})
    BY <2>1, <2>2, FS_Subset
  <2> QED
    BY <1>1, <2>1, <2>3, FS_CardinalityType
<1>2. \A c \in C : Better(C, c) = Cardinality(Above(c))
  BY DEF Better
<1>3. \A c \in C : IsFiniteSet(Above(c)) /\ Above(c) \subseteq C /\ c \notin Above(c)
  BY FS_Subset DEF PreferenceOrders
<1>4. ASSUME NEW c \in C
      PROVE  Better(C, c) \in 0..(Cardinality(C) - 1)
  <2> HIDE DEF Above
  <2>1. Cardinality(Above(c)) \in Nat /\ Cardinality(C) \in Nat /\ Cardinality(Above(c)) < Cardinality(C)
    BY <1>1, <1>3
  <2> QED
    BY <1>2, <2>1
<1>5. ASSUME NEW c \in C, NEW d \in C, Preferred(c, d)
      PROVE  Better(C, c) < Better(C, d)
  <2>1. Above(c) \subseteq Above(d) /\ c \in Above(d)
    BY <1>5 DEF PreferenceOrders
  <2> HIDE DEF Above
  <2>2. Cardinality(Above(c)) < Cardinality(Above(d))
    BY <1>1, <1>3, <2>1
  <2> QED
    BY <1>2, <2>2
<1>6. ASSUME NEW c \in C, NEW d \in C, Better(C, c) = Better(C, d)
      PROVE  c = d
  <2>1. Better(C, c) \in Int /\ Better(C, d) \in Int
    BY <1>4
  <2>2. ~Preferred(c, d) /\ ~Preferred(d, c)
    BY <1>5, <1>6, <2>1
  <2> QED
    BY <2>2 DEF PreferenceOrders
<1> QED
  BY <1>4, <1>5, <1>6

\* Every candidate of C once, the preferred ones first.
LEMMA RankingIs ==
    ASSUME NEW C, IsFiniteSet(C), PreferenceOrders(C)
    PROVE  /\ Cardinality(C) \in Nat /\ Ranking(C) \in [1..Cardinality(C) -> C]
           /\ \A c \in C : \E i \in 1..Cardinality(C) : Ranking(C)[i] = c
           /\ \A i, j \in 1..Cardinality(C) : i < j => Preferred(Ranking(C)[i], Ranking(C)[j])
<1> DEFINE n == Cardinality(C)
           f == [c \in C |-> Better(C, c)]
<1>1. n \in Nat /\ IsFiniteSet(0..(n - 1)) /\ Cardinality(0..(n - 1)) = n
  <2>1. n \in Nat
    BY FS_CardinalityType
  <2>2. PICK m \in Nat : m = n
    BY <2>1
  <2>3. IsFiniteSet(0..(m - 1)) /\ Cardinality(0..(m - 1)) = m
    BY FS_Interval
  <2> QED
    BY <2>2, <2>3
<1>2. ASSUME NEW k \in 0..(n - 1)
      PROVE  \E c \in C : Better(C, c) = k
  <2> SUFFICES ASSUME \A c \in C : Better(C, c) # k PROVE FALSE
    OBVIOUS
  <2> DEFINE Ranks == (0..(n - 1)) \ {k}
  <2>1. IsFiniteSet(Ranks) /\ Cardinality(Ranks) = n - 1
    BY <1>1, FS_RemoveElement
  <2>2. f \in [C -> Ranks]
    BY BetterOrders
  <2>3. \E c, d \in C : c # d /\ f[c] = f[d]
    <3> HIDE DEF f, Ranks
    <3>1. Cardinality(Ranks) < Cardinality(C)
      BY <1>1, <2>1
    <3> QED
      BY <2>1, <2>2, <3>1, FS_PigeonHole
  <2> QED
    BY <2>3, BetterOrders
<1>3. Ranking(C) = [k \in 1..n |-> CHOOSE c \in C : Better(C, c) = k - 1]
  BY Zenon DEF Ranking, Better
<1>4. ASSUME NEW k \in 1..n
      PROVE  Ranking(C)[k] \in C /\ Better(C, Ranking(C)[k]) = k - 1
  <2>1. k - 1 \in 0..(n - 1)
    BY <1>1
  <2>2. \E c \in C : Better(C, c) = k - 1
    BY <1>2, <2>1
  <2>3. Ranking(C)[k] = CHOOSE c \in C : Better(C, c) = k - 1
    BY <1>3
  <2> QED
    BY <2>2, <2>3, Zenon
<1>5. Ranking(C) \in [1..n -> C]
  BY <1>3, <1>4
<1>6. ASSUME NEW c \in C
      PROVE  \E i \in 1..n : Ranking(C)[i] = c
  <2>1. Better(C, c) \in 0..(n - 1)
    BY BetterOrders
  <2>2. PICK i \in 1..n : i = Better(C, c) + 1
    BY <1>1, <2>1
  <2>3. Ranking(C)[i] \in C /\ Better(C, Ranking(C)[i]) = Better(C, c)
    BY <1>4, <2>1, <2>2
  <2> QED
    BY <2>3, BetterOrders
<1>7. ASSUME NEW i \in 1..n, NEW j \in 1..n, i < j
      PROVE  Preferred(Ranking(C)[i], Ranking(C)[j])
  <2>1. PICK c, d \in C : c = Ranking(C)[i] /\ d = Ranking(C)[j]
    BY <1>4
  <2>2. Better(C, c) = i - 1 /\ Better(C, d) = j - 1
    BY <1>4, <2>1
  <2>3. c # d /\ ~Preferred(d, c)
    <3>1. ~(Better(C, d) < Better(C, c)) /\ Better(C, c) # Better(C, d)
      BY <1>7, <2>2
    <3> QED
      BY <3>1, BetterOrders
  <2> QED
    BY <2>1, <2>3 DEF PreferenceOrders
<1> QED
  BY <1>1, <1>5, <1>6, <1>7

\* A batch has the preferred ones of C, and the one that is off the map at its end.
LEMMA BatchOfIs ==
    ASSUME NEW C, IsFiniteSet(C), PreferenceOrders(C)
    PROVE  LET n == Lower(Cardinality(C), SearchLimits.count)
           IN  /\ n \in 0..Cardinality(C)
               /\ Len(BatchOf(C)) = n + 1 /\ DOMAIN BatchOf(C) = 1..(n + 1)
               /\ BatchOf(C)[n + 1] = NoRoad
               /\ \A i \in 1..n : BatchOf(C)[i] \in C
               /\ \A i, j \in 1..n : i < j => Preferred(BatchOf(C)[i], BatchOf(C)[j])
               /\ \A c \in C : \/ \E i \in 1..n : BatchOf(C)[i] = c
                               \/ \A i \in 1..n : Preferred(BatchOf(C)[i], c)
<1> DEFINE size == Cardinality(C)
           n == Lower(size, SearchLimits.count)
           r == Ranking(C)
           first == SubSeq(r, 1, n)
           b == BatchOf(C)
<1>1. /\ size \in Nat /\ r \in [1..size -> C]
      /\ \A c \in C : \E i \in 1..size : r[i] = c
      /\ \A i, j \in 1..size : i < j => Preferred(r[i], r[j])
  BY RankingIs
<1>2. n \in 0..size
  BY <1>1, ParametersAre DEF Lower
<1>3. b = Append(first, NoRoad)
  BY Zenon DEF BatchOf
<1> HIDE DEF r, b, n, size
<1>4. r \in Seq(C) /\ Len(r) = size
  BY <1>1
<1>5. first \in Seq(C) /\ Len(first) = n /\ \A i \in 1..n : first[i] = r[i]
  BY <1>1, <1>2, <1>4
<1> HIDE DEF first
<1>6. /\ Len(b) = n + 1 /\ DOMAIN b = 1..(n + 1) /\ b[n + 1] = NoRoad
      /\ \A i \in 1..n : b[i] = r[i]
  <2> DEFINE S == C \cup {NoRoad}
  <2>1. first \in Seq(S) /\ NoRoad \in S
    BY <1>5
  <2> HIDE DEF S
  <2>2. /\ Append(first, NoRoad) \in Seq(S) /\ Len(Append(first, NoRoad)) = Len(first) + 1
        /\ Append(first, NoRoad)[Len(first) + 1] = NoRoad
        /\ \A i \in 1..Len(first) : Append(first, NoRoad)[i] = first[i]
    BY <2>1
  <2> QED
    BY <1>3, <1>5, <2>2
<1>7. \A i \in 1..n : b[i] \in C
  BY <1>1, <1>2, <1>6
<1>8. \A i, j \in 1..n : i < j => Preferred(b[i], b[j])
  BY <1>1, <1>2, <1>6
<1>9. ASSUME NEW c \in C
      PROVE  (\E i \in 1..n : b[i] = c) \/ \A i \in 1..n : Preferred(b[i], c)
  <2>1. PICK j \in 1..size : r[j] = c
    BY <1>1
  <2>2. CASE j <= n
    BY <1>1, <1>2, <1>6, <2>1, <2>2
  <2>3. CASE j > n
    BY <1>1, <1>2, <1>6, <2>1, <2>3
  <2> QED
    BY <1>1, <1>2, <2>2, <2>3
<1> QED
  BY <1>2, <1>6, <1>7, <1>8, <1>9 DEF n, size, b

(***************************************************************************)
(* Candidates: batches and winners.                                        *)
(***************************************************************************)

\* Every arc of the network has a direction somewhere.
NetworkGoes ==
    /\ network \in Seq(Roads) /\ ValidNetwork(network)
    /\ \A a \in DOMAIN network : Strokes(network[a].shape) # {}

Reached(o) == { a \in DOMAIN network : IsReached(o, a) }

Kept(batch) == { batch[i].arc : i \in 1..(Len(batch) - 1) }

\* The candidates found among the first k arcs.
NearUpTo(o, k) == { OnRoad(o, a) : a \in { i \in 1..k : IsNear(o, i) } }

\* A candidate at its place in a batch: better than what comes later or is left out.
IsBatchItem(o, batch, i) ==
    /\ batch[i] = OnRoad(o, batch[i].arc)
    /\ batch[i].at \in NearestPoints(network[batch[i].arc].shape, o.at)
    /\ batch[i].off \in 0..network[batch[i].arc].length
    /\ \A j \in 1..(i - 1) : Preferred(batch[j], batch[i])
    /\ \A a \in Reached(o) \ Kept(batch) : Preferred(batch[i], OnRoad(o, a))

\* The best candidates of an observation, best first, and the one off the map.
IsBatch(o, batch) ==
    /\ Len(batch) \in Nat \ {0} /\ DOMAIN batch = 1..Len(batch) /\ batch[Len(batch)] = NoRoad
    /\ Kept(batch) \subseteq Reached(o) /\ Cardinality(Kept(batch)) = Len(batch) - 1
    /\ Cardinality(Kept(batch)) = Lower(Cardinality(Reached(o)), SearchLimits.count)
    /\ Reached(o) # {} => Len(batch) > 1
    /\ \A i \in 1..(Len(batch) - 1) : IsBatchItem(o, batch, i)

\* A candidate of the batch that none is likelier than.
IsWinner(batch, c) ==
    /\ \E i \in DOMAIN batch : c = batch[i]
    /\ \A i \in DOMAIN batch : c.cost <= batch[i].cost

\* A function that is one to one has as many values as arguments.
LEMMA OneToOne ==
    ASSUME NEW S, IsFiniteSet(S), NEW f, f \in [S -> { f[x] : x \in S }], \A x, y \in S : f[x] = f[y] => x = y
    PROVE  IsFiniteSet({ f[x] : x \in S }) /\ Cardinality({ f[x] : x \in S }) = Cardinality(S)
<1> DEFINE T == { f[x] : x \in S }
<1>1. f \in [S -> T] /\ \A t \in T : \E x \in S : f[x] = t
  OBVIOUS
<1> HIDE DEF T
<1>2. f \in Surjection(S, T) /\ f \in Injection(S, T)
  BY <1>1 DEF Surjection, Injection, IsInjective
<1>3. IsFiniteSet(T) /\ Cardinality(T) = Cardinality(S)
  BY <1>2, FS_Surjection
<1> QED
  BY <1>3 DEF T

\* What the arcs of a network make of an observation.
LEMMA NearAre ==
    ASSUME NEW o \in Seen, ValidSighting(o), NetworkGoes
    PROVE  LET C == NearUpTo(o, Len(network))
           IN  /\ IsFiniteSet(Reached(o)) /\ IsFiniteSet(C) /\ Cardinality(C) = Cardinality(Reached(o))
               /\ C = { OnRoad(o, a) : a \in Reached(o) }
               /\ AreCandidates(C, o) /\ PreferenceOrders(C)
               /\ \A a \in Reached(o) : OnRoad(o, a).arc = a
<1> DEFINE R == Reached(o)
           f == [a \in R |-> OnRoad(o, a)]
           C == { f[a] : a \in R }
<1>1. DOMAIN network = 1..Len(network) /\ Len(network) \in Nat
  BY DEF NetworkGoes
<1>2. ASSUME NEW a \in DOMAIN network
      PROVE  /\ OnRoad(o, a).arc = a /\ OnRoad(o, a).cost \in Int /\ OnRoad(o, a).lateral \in Int
             /\ IsNear(o, a) <=> IsReached(o, a)
  <2>1. network[a].length > 0 /\ Strokes(network[a].shape) # {} /\ network \in Seq(Roads)
    BY DEF NetworkGoes, ValidNetwork
  <2>2. OnRoad(o, a).arc = a /\ OnRoad(o, a).cost \in Int /\ OnRoad(o, a).lateral \in Nat
    BY <2>1, OnRoadIs
  <2>3. IsNear(o, a) <=> IsReached(o, a)
    BY <2>1, OnRoadIs
  <2> QED
    BY <2>2, <2>3
<1>3. R \subseteq DOMAIN network /\ IsFiniteSet(R)
  <2>1. IsFiniteSet(1..Len(network))
    BY <1>1, FS_Interval
  <2> QED
    BY <1>1, <2>1, FS_Subset DEF Reached
<1>4. NearUpTo(o, Len(network)) = { OnRoad(o, a) : a \in R }
  <2>1. { i \in 1..Len(network) : IsNear(o, i) } = R
    BY <1>1, <1>2 DEF Reached
  <2> HIDE DEF R
  <2> QED
    BY <2>1 DEF NearUpTo
<1>5. { OnRoad(o, a) : a \in R } = C
  OBVIOUS
<1>6. IsFiniteSet(C) /\ Cardinality(C) = Cardinality(R)
  <2>1. \A a, b \in R : f[a] = f[b] => a = b
    BY <1>2, <1>3
  <2>2. f \in [R -> { f[a] : a \in R }]
    OBVIOUS
  <2> HIDE DEF f, R
  <2> QED
    BY <1>3, <2>1, <2>2, OneToOne
<1>7. AreCandidates({ OnRoad(o, a) : a \in R }, o)
  BY <1>2, <1>3 DEF AreCandidates
<1>8. PreferenceOrders({ OnRoad(o, a) : a \in R })
  BY <1>7, CandidatesAreOrdered DEF NetworkGoes
<1>9. \A a \in R : OnRoad(o, a).arc = a
  BY <1>2, <1>3
<1> HIDE DEF C
<1> QED
  BY <1>3, <1>4, <1>5, <1>6, <1>7, <1>8, <1>9

\* What FinishBatch makes of them is a batch of candidates.
LEMMA BatchIs ==
    ASSUME NEW o \in Seen, ValidSighting(o), NetworkGoes
    PROVE  LET batch == BatchOf(NearUpTo(o, Len(network)))
           IN  IsBatch(o, batch) /\ \A i \in DOMAIN batch : IsCandidate(batch[i])
<1> DEFINE C == NearUpTo(o, Len(network))
           R == Reached(o)
           batch == BatchOf(C)
           n == Lower(Cardinality(C), SearchLimits.count)
<1>1. /\ IsFiniteSet(R) /\ IsFiniteSet(C) /\ Cardinality(C) = Cardinality(R)
      /\ C = { OnRoad(o, a) : a \in R }
      /\ AreCandidates(C, o) /\ PreferenceOrders(C)
      /\ \A a \in R : OnRoad(o, a).arc = a
  BY NearAre
<1> HIDE DEF C
<1>2. /\ n \in 0..Cardinality(C)
      /\ Len(batch) = n + 1 /\ DOMAIN batch = 1..(n + 1)
      /\ batch[n + 1] = NoRoad
      /\ \A i \in 1..n : batch[i] \in C
      /\ \A i, j \in 1..n : i < j => Preferred(batch[i], batch[j])
      /\ \A c \in C : (\E i \in 1..n : batch[i] = c) \/ \A i \in 1..n : Preferred(batch[i], c)
  BY <1>1, BatchOfIs
<1>3. Cardinality(C) \in Nat /\ n = Lower(Cardinality(R), SearchLimits.count)
  BY <1>1, FS_CardinalityType
<1>4. n \in Nat
  BY <1>2, <1>3
<1>5. R # {} => n >= 1
  <2>1. R # {} => Cardinality(R) # 0
    BY <1>1, FS_EmptySet
  <2>2. PICK size \in Nat, most \in Nat \ {0} : size = Cardinality(R) /\ most = SearchLimits.count
    BY <1>1, <1>3, ParametersAre
  <2>3. size # 0 => Lower(size, most) >= 1
    BY DEF Lower
  <2> QED
    BY <1>3, <2>1, <2>2, <2>3
<1> HIDE DEF batch, n
<1>6. ASSUME NEW i \in 1..n
      PROVE  batch[i] \in C /\ batch[i].arc \in R /\ batch[i] = OnRoad(o, batch[i].arc)
  <2>1. batch[i] \in C
    BY <1>2
  <2>2. PICK a \in R : batch[i] = OnRoad(o, a)
    BY <1>1, <2>1
  <2> QED
    BY <1>1, <2>1, <2>2
<1>7. Kept(batch) = { batch[i].arc : i \in 1..n }
  <2>1. Len(batch) - 1 = n
    BY <1>2, <1>4
  <2> QED
    BY <2>1 DEF Kept
<1>8. Cardinality(Kept(batch)) = n
  <2> DEFINE g == [i \in 1..n |-> batch[i].arc]
  <2>1. Kept(batch) = { g[i] : i \in 1..n } /\ g \in [1..n -> { g[i] : i \in 1..n }]
    BY <1>7
  <2>2. ASSUME NEW i \in 1..n, NEW j \in 1..n, g[i] = g[j]
        PROVE  i = j
    <3>1. batch[i] = batch[j] /\ batch[i] \in C
      BY <1>6, <2>2
    <3>2. ~Preferred(batch[i], batch[j]) /\ ~Preferred(batch[j], batch[i])
      BY <1>1, <3>1 DEF PreferenceOrders
    <3>3. ~(i < j) /\ ~(j < i)
      BY <1>2, <3>2
    <3> QED
      BY <1>4, <3>3
  <2>3. IsFiniteSet(1..n) /\ Cardinality(1..n) = n
    BY <1>4, FS_Interval
  <2>4. \A i, j \in 1..n : g[i] = g[j] => i = j
    BY <2>2
  <2> HIDE DEF g
  <2> DEFINE S == 1..n
  <2>5. IsFiniteSet(S) /\ Cardinality(S) = n /\ (\A i, j \in S : g[i] = g[j] => i = j)
        /\ g \in [S -> { g[i] : i \in S }] /\ Kept(batch) = { g[i] : i \in S }
    BY <2>1, <2>3, <2>4
  <2> HIDE DEF S
  <2>6. Cardinality({ g[i] : i \in S }) = Cardinality(S)
    BY <2>5, OneToOne
  <2> QED
    BY <2>5, <2>6
<1>9. Kept(batch) \subseteq R
  BY <1>6, <1>7
<1>10. ASSUME NEW i \in 1..n
       PROVE  /\ batch[i].at \in NearestPoints(network[batch[i].arc].shape, o.at)
              /\ batch[i].off \in 0..network[batch[i].arc].length
              /\ IsCandidate(batch[i]) /\ IsCandidate(NoRoad)
  <2>1. PICK a \in R : a = batch[i].arc
    BY <1>6
  <2>2. /\ a \in DOMAIN network /\ network \in Seq(Roads) /\ network[a].length > 0
        /\ Strokes(network[a].shape) # {}
    BY DEF Reached, NetworkGoes, ValidNetwork
  <2>3. batch[i] = OnRoad(o, a)
    BY <1>6, <2>1
  <2>4. /\ OnRoad(o, a).at \in NearestPoints(network[a].shape, o.at)
        /\ OnRoad(o, a).off \in 0..network[a].length
    BY <2>2, OnRoadIs
  <2>5. IsCandidate(OnRoad(o, a)) /\ IsCandidate(NoRoad)
    BY <2>2, CandidatesAre
  <2> QED
    BY <2>1, <2>3, <2>4, <2>5
<1>11. ASSUME NEW i \in 1..n, NEW a \in R \ Kept(batch)
       PROVE  Preferred(batch[i], OnRoad(o, a))
  <2>1. OnRoad(o, a) \in C /\ OnRoad(o, a).arc = a
    BY <1>1
  <2>2. ~\E j \in 1..n : batch[j] = OnRoad(o, a)
    BY <1>7, <1>11, <2>1
  <2> QED
    BY <1>2, <2>1, <2>2
<1>12. IsCandidate(NoRoad)
  <2>1. \A part \in {"arc", "at", "lateral", "tangent", "off"} : NoRoad[part] = NoPlace
    BY DEF NoRoad
  <2> QED
    BY <2>1 DEF IsCandidate
<1>13. \A i \in 1..(n + 1) : IsCandidate(batch[i])
  <2>1. \A i \in 1..(n + 1) : i \in 1..n \/ i = n + 1
    BY <1>4
  <2> QED
    BY <1>2, <1>10, <1>12, <2>1
<1>14. ASSUME NEW i \in 1..n, NEW j \in 1..(i - 1)
       PROVE  Preferred(batch[j], batch[i])
  <2>1. j \in 1..n /\ j < i
    BY <1>4
  <2> QED
    BY <1>2, <2>1
<1>15. IsBatch(o, batch)
  <2>1. Len(batch) \in Nat \ {0} /\ Len(batch) - 1 = n /\ Len(batch) = n + 1
    BY <1>2, <1>4
  <2>2. R # {} => Len(batch) > 1
    BY <1>4, <1>5, <2>1
  <2> QED
    BY <1>2, <1>3, <1>6, <1>8, <1>9, <1>10, <1>11, <1>14, <2>1, <2>2 DEF IsBatch, IsBatchItem
<1> QED
  BY <1>2, <1>13, <1>15 DEF batch, C

\* The winner of a batch is beaten by nothing that is reached.
LEMMA WinnerIs ==
    ASSUME NEW o \in Seen, ValidSighting(o), NetworkGoes, NEW batch, IsBatch(o, batch), NEW c, IsWinner(batch, c)
    PROVE  /\ c.cost <= EmissionModel.offMap
           /\ \A a \in Reached(o) : c.cost <= OnRoad(o, a).cost
<1>1. \A a \in Reached(o) : OnRoad(o, a).cost \in Int
  <2>1. \A a \in Reached(o) : /\ a \in DOMAIN network /\ network \in Seq(Roads) /\ network[a].length > 0
                              /\ Strokes(network[a].shape) # {}
    BY DEF Reached, NetworkGoes, ValidNetwork
  <2> QED
    BY <2>1, OnRoadIs
<1>2. /\ Len(batch) \in Nat \ {0} /\ DOMAIN batch = 1..Len(batch) /\ batch[Len(batch)] = NoRoad
      /\ Kept(batch) \subseteq Reached(o)
      /\ Reached(o) # {} => Len(batch) > 1
      /\ \A i \in 1..(Len(batch) - 1) : batch[i] = OnRoad(o, batch[i].arc)
      /\ \A i \in 1..(Len(batch) - 1) : \A a \in Reached(o) \ Kept(batch) : Preferred(batch[i], OnRoad(o, a))
  BY DEF IsBatch, IsBatchItem
<1>3. NoRoad.cost = EmissionModel.offMap /\ EmissionModel.offMap \in Nat
  BY ParametersAre DEF NoRoad
<1>4. \A i \in 1..Len(batch) : i = Len(batch) \/ i \in 1..(Len(batch) - 1)
  <2>1. PICK n \in Nat : n = Len(batch)
    BY <1>2
  <2>2. \A i \in 1..n : i = n \/ i \in 1..(n - 1)
    OBVIOUS
  <2> QED
    BY <2>1, <2>2
<1>5. \A i \in 1..(Len(batch) - 1) : batch[i].arc \in Kept(batch)
  BY DEF Kept
<1>6. ASSUME NEW i \in 1..Len(batch)
      PROVE  batch[i].cost \in Int
  <2>1. CASE i = Len(batch)
    BY <1>2, <1>3, <2>1
  <2>2. CASE i \in 1..(Len(batch) - 1)
    <3>1. batch[i].arc \in Reached(o) /\ batch[i] = OnRoad(o, batch[i].arc)
      BY <1>2, <1>5, <2>2
    <3> QED
      BY <1>1, <3>1
  <2> QED
    BY <1>4, <2>1, <2>2
<1>7. c.cost \in Int /\ \A i \in 1..Len(batch) : c.cost <= batch[i].cost
  BY <1>2, <1>6 DEF IsWinner
<1>8. c.cost <= EmissionModel.offMap
  <2>1. Len(batch) \in 1..Len(batch)
    BY <1>2
  <2> QED
    BY <1>2, <1>3, <1>7, <2>1
<1>9. ASSUME NEW a \in Reached(o)
      PROVE  c.cost <= OnRoad(o, a).cost
  <2>1. CASE a \in Kept(batch)
    <3>1. PICK i \in 1..(Len(batch) - 1) : batch[i].arc = a
      BY <2>1 DEF Kept
    <3>2. batch[i] = OnRoad(o, a) /\ i \in 1..Len(batch)
      BY <1>2, <3>1
    <3> QED
      BY <1>7, <3>2
  <2>2. CASE a \notin Kept(batch)
    <3>1. 1 \in 1..(Len(batch) - 1) /\ 1 \in 1..Len(batch)
      BY <1>2
    <3>2. Preferred(batch[1], OnRoad(o, a))
      BY <1>2, <2>2, <3>1
    <3>3. batch[1].cost < OnRoad(o, a).cost \/ batch[1].cost = OnRoad(o, a).cost
      BY <3>2 DEF Preferred
    <3>4. c.cost <= batch[1].cost /\ batch[1].cost \in Int /\ OnRoad(o, a).cost \in Int
      BY <1>1, <1>6, <1>7, <3>1
    <3> QED
      BY <1>7, <3>3, <3>4
  <2> QED
    BY <2>1, <2>2
<1> QED
  BY <1>8, <1>9

(***************************************************************************)
(* Candidates: the invariant.                                              *)
(***************************************************************************)

\* A sequence of something.
Listed(s) == \E S : s \in Seq(S)

\* A sequence with one more element.
LEMMA Longer ==
    ASSUME NEW s, Listed(s), NEW x
    PROVE  /\ Len(s) \in Nat /\ DOMAIN s = 1..Len(s)
           /\ Listed(Append(s, x)) /\ Len(Append(s, x)) = Len(s) + 1
           /\ Append(s, x)[Len(s) + 1] = x
           /\ \A i \in 1..Len(s) : Append(s, x)[i] = s[i]
<1>1. PICK S : s \in Seq(S)
  BY DEF Listed
<1> DEFINE T == S \cup {x}
<1>2. s \in Seq(T) /\ x \in T
  BY <1>1
<1> HIDE DEF T
<1>3. Append(s, x) \in Seq(T)
  BY <1>2
<1> QED
  BY <1>2, <1>3 DEF Listed

CandidatesTyped ==
    /\ matching \in {"idle", "projecting", "selecting", "matched", "refused"}
    /\ network \in Seq(Roads) /\ sightings \in Seq(Seen)
    /\ Listed(batches) /\ Listed(winners) /\ projected \in Nat
    /\ matching = "idle" => projected = 0 /\ near = {} /\ batches = <<>> /\ winners = <<>>

\* Only what is no graph or no track is refused.
RefusalIsJust ==
    matching = "refused" =>
      \/ ~ValidNetwork(network) \/ ~ValidSightings(sightings)
      \/ \E a \in DOMAIN network : Strokes(network[a].shape) = {}

\* The candidates at hand are those of the arcs projected so far.
NearIsPart ==
    matching = "projecting" =>
      /\ ValidNetwork(network) /\ ValidSightings(sightings)
      /\ Len(batches) < Len(sightings) /\ projected <= Len(network) /\ winners = <<>>
      /\ \A a \in 1..projected : Strokes(network[a].shape) # {}
      /\ near = NearUpTo(Observation, projected)

BatchesAreBest ==
    batches # <<>> =>
      /\ NetworkGoes /\ ValidSightings(sightings) /\ Len(batches) <= Len(sightings)
      /\ \A n \in 1..Len(batches) : IsBatch(sightings[n], batches[n])

WinnersAreBest ==
    /\ Len(winners) <= Len(batches) /\ (matching = "selecting" => Len(winners) < Len(batches))
    /\ \A n \in 1..Len(winners) : IsWinner(batches[n], winners[n])

CandidatesInv == CandidatesTyped /\ RefusalIsJust /\ NearIsPart /\ BatchesAreBest /\ WinnersAreBest

\* Where the network stays, so do its candidates, and what is a batch of them.
LEMMA CandidatesStay ==
    ASSUME network' = network, NEW o
    PROVE  /\ \A a : OnRoad(o, a)' = OnRoad(o, a) /\ IsNear(o, a)' = IsNear(o, a)
           /\ Reached(o)' = Reached(o)
           /\ NetworkGoes' <=> NetworkGoes
           /\ \A c, d : Preferred(c, d)' <=> Preferred(c, d)
           /\ \A batch : IsBatch(o, batch)' <=> IsBatch(o, batch)
<1>1. ASSUME NEW a
      PROVE  OnRoad(o, a)' = OnRoad(o, a) /\ IsNear(o, a)' = IsNear(o, a)
  BY Zenon DEF OnRoad, IsNear, Projection
<1>2. Reached(o)' = Reached(o)
  BY Zenon DEF Reached, IsReached
<1>3. NetworkGoes' <=> NetworkGoes
  BY Zenon DEF NetworkGoes
<1>4. ASSUME NEW c, NEW d
      PROVE  Preferred(c, d)' <=> Preferred(c, d)
  BY Zenon DEF Preferred
<1>5. ASSUME NEW batch, NEW i
      PROVE  IsBatchItem(o, batch, i)' <=> IsBatchItem(o, batch, i)
  <2>1. OnRoad(o, batch[i].arc)' = OnRoad(o, batch[i].arc)
    BY <1>1
  <2>2. \A a : Preferred(batch[i], OnRoad(o, a))' <=> Preferred(batch[i], OnRoad(o, a))
    <3> SUFFICES ASSUME NEW a PROVE Preferred(batch[i], OnRoad(o, a))' <=> Preferred(batch[i], OnRoad(o, a))
      OBVIOUS
    <3> QED
      BY <1>1, Zenon DEF Preferred
  <2>3. \A j : Preferred(batch[j], batch[i])' <=> Preferred(batch[j], batch[i])
    BY <1>4
  <2> QED
    BY <1>2, <2>1, <2>2, <2>3, Zenon DEF IsBatchItem
<1>6. ASSUME NEW batch
      PROVE  IsBatch(o, batch)' <=> IsBatch(o, batch)
  BY <1>2, <1>5, Zenon DEF IsBatch
<1> QED
  BY <1>1, <1>2, <1>3, <1>4, <1>6

\* Batches that stay are the best ones still.
LEMMA BatchesStay ==
    ASSUME BatchesAreBest, network' = network, sightings' = sightings, batches' = batches
    PROVE  BatchesAreBest'
<1> SUFFICES ASSUME batches # <<>>
             PROVE  /\ NetworkGoes' /\ ValidSightings(sightings) /\ Len(batches) <= Len(sightings)
                    /\ \A n \in 1..Len(batches) : IsBatch(sightings[n], batches[n])'
  BY DEF BatchesAreBest
<1>1. /\ NetworkGoes /\ ValidSightings(sightings) /\ Len(batches) <= Len(sightings)
      /\ \A n \in 1..Len(batches) : IsBatch(sightings[n], batches[n])
  BY DEF BatchesAreBest
<1>2. NetworkGoes'
  BY <1>1, CandidatesStay
<1>3. ASSUME NEW n \in 1..Len(batches)
      PROVE  IsBatch(sightings[n], batches[n])'
  <2>1. PICK o, b : o = sightings[n] /\ b = batches[n]
    OBVIOUS
  <2>2. IsBatch(o, b)'
    BY <1>1, <2>1, CandidatesStay
  <2> QED
    BY <2>1, <2>2
<1> QED
  BY <1>1, <1>2, <1>3

\* The next observation is one of the track.
LEMMA ObservationIs ==
    ASSUME CandidatesTyped, NearIsPart, matching = "projecting"
    PROVE  /\ Observation \in Seen /\ ValidSighting(Observation) /\ Len(network) \in Nat
           /\ DOMAIN network = 1..Len(network)
<1>1. Len(batches) \in Nat /\ Len(batches) < Len(sightings) /\ ValidSightings(sightings) /\ sightings \in Seq(Seen)
  BY Longer DEF CandidatesTyped, NearIsPart
<1>2. Len(batches) + 1 \in 1..Len(sightings) /\ DOMAIN sightings = 1..Len(sightings)
  BY <1>1
<1>3. sightings[Len(batches) + 1] \in Seen /\ ValidSighting(sightings[Len(batches) + 1])
  BY <1>1, <1>2 DEF ValidSightings
<1> QED
  BY <1>3 DEF Observation, CandidatesTyped

\* The invariant holds initially.
LEMMA CandidatesStart ==
    CandidatesInit => CandidatesInv
<1> SUFFICES ASSUME CandidatesInit PROVE CandidatesInv
  OBVIOUS
<1> USE DEF CandidatesInit
<1>1. Listed(<<>>)
  BY DEF Listed
<1> QED
  BY <1>1 DEF CandidatesInv, CandidatesTyped, RefusalIsJust, NearIsPart, BatchesAreBest, WinnersAreBest

\* A graph and a track are given.
LEMMA GiveTrackKeeps ==
    ASSUME CandidatesInv, GiveTrack
    PROVE  CandidatesInv'
<1>1. /\ matching = "idle" /\ projected' = 0 /\ near' = {} /\ batches' = <<>> /\ winners' = <<>>
      /\ network' \in Networks /\ sightings' \in Sightings
      /\ matching' = IF ValidNetwork(network') /\ ValidSightings(sightings') THEN "projecting" ELSE "refused"
  BY DEF GiveTrack, CandidatesInv, CandidatesTyped
<1>2. network' \in Seq(Roads) /\ sightings' \in Seq(Seen)
  BY <1>1, GridAssumption DEF Roads, Seen, Points
<1>3. Listed(<<>>)
  BY DEF Listed
<1>4. CandidatesTyped'
  BY <1>1, <1>2, <1>3 DEF CandidatesTyped
<1>5. RefusalIsJust'
  BY <1>1 DEF RefusalIsJust
<1>6. NearIsPart'
  <2> SUFFICES ASSUME matching' = "projecting"
               PROVE  /\ ValidNetwork(network') /\ ValidSightings(sightings') /\ 0 < Len(sightings')
                      /\ 0 <= Len(network') /\ {} = NearUpTo(Observation, 0)'
    BY <1>1 DEF NearIsPart
  <2>1. ValidNetwork(network') /\ ValidSightings(sightings')
    BY <1>1
  <2>2. 0 < Len(sightings') /\ 0 <= Len(network')
    BY <1>2, <2>1 DEF ValidSightings
  <2>3. { i \in 1..0 : IsNear(Observation, i)' } = {}
    OBVIOUS
  <2> QED
    BY <2>1, <2>2, <2>3 DEF NearUpTo
<1>7. BatchesAreBest'
  BY <1>1 DEF BatchesAreBest
<1>8. WinnersAreBest'
  BY <1>1 DEF WinnersAreBest
<1> QED
  BY <1>4, <1>5, <1>6, <1>7, <1>8 DEF CandidatesInv

\* An arc is projected.
LEMMA ProjectArcKeeps ==
    ASSUME CandidatesInv, ProjectArc
    PROVE  CandidatesInv'
<1> USE DEF CandidatesInv
<1>1. /\ matching = "projecting" /\ projected < Len(network)
      /\ network' = network /\ sightings' = sightings /\ batches' = batches /\ winners' = winners
  BY DEF ProjectArc
<1>2. /\ Observation \in Seen /\ ValidSighting(Observation) /\ Len(network) \in Nat /\ projected \in Nat
      /\ DOMAIN network = 1..Len(network)
  BY <1>1, ObservationIs DEF CandidatesTyped
<1>3. Observation' = Observation
  BY <1>1 DEF Observation
<1>4. BatchesAreBest'
  BY <1>1, BatchesStay
<1>5. CASE Strokes(network[projected + 1].shape) = {}
  <2>1. matching' = "refused" /\ projected' = projected /\ near' = near
    BY <1>5 DEF ProjectArc
  <2>2. projected + 1 \in DOMAIN network
    BY <1>1, <1>2
  <2> QED
    BY <1>1, <1>4, <1>5, <2>1, <2>2 DEF CandidatesTyped, RefusalIsJust, NearIsPart, WinnersAreBest
<1>6. CASE Strokes(network[projected + 1].shape) # {}
  <2>1. /\ matching' = "projecting" /\ projected' = projected + 1
        /\ near' = near \cup { OnRoad(Observation, a) : a \in { i \in {projected + 1} : IsNear(Observation, i) } }
    BY <1>1, <1>6 DEF ProjectArc
  <2>2. /\ ValidNetwork(network) /\ ValidSightings(sightings) /\ Len(batches) < Len(sightings) /\ winners = <<>>
        /\ \A a \in 1..projected : Strokes(network[a].shape) # {}
        /\ near = NearUpTo(Observation, projected)
    BY <1>1 DEF NearIsPart
  <2>3. 1..(projected + 1) = (1..projected) \cup {projected + 1}
    BY <1>2
  <2>4. \A a \in 1..(projected + 1) : Strokes(network[a].shape) # {}
    BY <1>6, <2>2, <2>3
  <2>5. near' = NearUpTo(Observation, projected + 1)
    BY <2>1, <2>2, <2>3 DEF NearUpTo
  <2>6. NearUpTo(Observation, projected + 1) = NearUpTo(Observation, projected)'
    <3>1. PICK o, k : o = Observation /\ k = projected + 1
      OBVIOUS
    <3>2. NearUpTo(o, k) = NearUpTo(o, k)'
      BY <1>1, CandidatesStay DEF NearUpTo
    <3> QED
      BY <1>3, <2>1, <3>1, <3>2
  <2>7. NearIsPart'
    BY <1>1, <1>2, <2>1, <2>2, <2>4, <2>5, <2>6 DEF NearIsPart
  <2> QED
    BY <1>1, <1>2, <1>4, <2>1, <2>7 DEF CandidatesTyped, RefusalIsJust, WinnersAreBest
<1> QED
  BY <1>5, <1>6

\* A batch is finished.
LEMMA FinishBatchKeeps ==
    ASSUME CandidatesInv, FinishBatch
    PROVE  CandidatesInv'
<1> USE DEF CandidatesInv
<1> DEFINE batch == BatchOf(near)
<1>1. /\ matching = "projecting" /\ projected = Len(network)
      /\ network' = network /\ sightings' = sightings /\ winners' = winners
  BY DEF FinishBatch
<1>2. /\ Observation \in Seen /\ ValidSighting(Observation) /\ Len(network) \in Nat
      /\ DOMAIN network = 1..Len(network)
  BY <1>1, ObservationIs
<1>3. /\ ValidNetwork(network) /\ ValidSightings(sightings) /\ Len(batches) < Len(sightings) /\ winners = <<>>
      /\ \A a \in 1..Len(network) : Strokes(network[a].shape) # {}
      /\ near = NearUpTo(Observation, Len(network))
  BY <1>1 DEF NearIsPart
<1>4. NetworkGoes
  BY <1>2, <1>3 DEF NetworkGoes, CandidatesTyped
<1>5. IsBatch(Observation, batch) /\ \A i \in DOMAIN batch : IsCandidate(batch[i])
  BY <1>2, <1>3, <1>4, BatchIs
<1>6. /\ batches' = Append(batches, batch) /\ projected' = 0 /\ near' = {}
      /\ matching' = IF Len(batches') = Len(sightings) THEN "selecting" ELSE "projecting"
  <2> HIDE DEF batch
  <2>1. ~\E i \in DOMAIN batch : ~IsCandidate(batch[i])
    BY <1>5
  <2> USE DEF batch
  <2> QED
    BY <2>1, Zenon DEF FinishBatch
<1> HIDE DEF batch
<1>7. Listed(batches) /\ sightings \in Seq(Seen) /\ Len(sightings) \in Nat
  BY DEF CandidatesTyped
<1>8. /\ Len(batches) \in Nat /\ Listed(batches') /\ Len(batches') = Len(batches) + 1
      /\ batches'[Len(batches) + 1] = batch /\ \A n \in 1..Len(batches) : batches'[n] = batches[n]
  BY <1>6, <1>7, Longer
<1>9. BatchesAreBest'
  <2>1. NetworkGoes'
    BY <1>1, <1>4, CandidatesStay
  <2>2. ASSUME NEW n \in 1..Len(batches')
        PROVE  IsBatch(sightings[n], batches[n])'
    <3>1. PICK o, b : o = sightings[n] /\ b = batches'[n]
      OBVIOUS
    <3>2. IsBatch(o, b)
      <4>1. CASE n = Len(batches) + 1
        <5>1. o = Observation /\ b = batch
          BY <1>8, <3>1, <4>1 DEF Observation
        <5> QED
          BY <1>5, <5>1
      <4>2. CASE n # Len(batches) + 1
        <5>1. n \in 1..Len(batches) /\ batches # <<>>
          BY <1>8, <4>2
        <5>2. IsBatch(sightings[n], batches[n])
          BY <5>1 DEF BatchesAreBest
        <5> QED
          BY <1>8, <3>1, <5>1, <5>2
      <4> QED
        BY <4>1, <4>2
    <3>3. IsBatch(o, b)'
      BY <1>1, <3>2, CandidatesStay
    <3> QED
      BY <1>1, <3>1, <3>3
  <2>3. Len(batches') <= Len(sightings)
    BY <1>3, <1>7, <1>8
  <2> QED
    BY <1>1, <1>3, <2>1, <2>2, <2>3 DEF BatchesAreBest
<1>10. NearIsPart'
  <2> SUFFICES ASSUME matching' = "projecting"
               PROVE  Len(batches') < Len(sightings) /\ 0 <= Len(network) /\ {} = NearUpTo(Observation, 0)'
    BY <1>1, <1>3, <1>6 DEF NearIsPart
  <2>1. Len(batches') < Len(sightings)
    BY <1>3, <1>6, <1>7, <1>8
  <2>2. { i \in 1..0 : IsNear(Observation, i)' } = {}
    OBVIOUS
  <2> QED
    BY <1>2, <2>1, <2>2 DEF NearUpTo
<1>11. WinnersAreBest'
  BY <1>1, <1>3, <1>8 DEF WinnersAreBest
<1>12. CandidatesTyped'
  BY <1>1, <1>6, <1>8 DEF CandidatesTyped
<1>13. RefusalIsJust'
  BY <1>6 DEF RefusalIsJust
<1> QED
  BY <1>9, <1>10, <1>11, <1>12, <1>13

\* A winner is chosen.
LEMMA SelectBestKeeps ==
    ASSUME CandidatesInv, SelectBest
    PROVE  CandidatesInv'
<1> USE DEF CandidatesInv
<1>1. /\ matching = "selecting"
      /\ matching' = IF Len(winners') = Len(batches) THEN "matched" ELSE "selecting"
      /\ network' = network /\ sightings' = sightings /\ projected' = projected /\ near' = near /\ batches' = batches
  BY DEF SelectBest
<1>2. PICK best \in DOMAIN batches[Len(winners) + 1] :
        /\ \A i \in DOMAIN batches[Len(winners) + 1] :
             batches[Len(winners) + 1][best].cost <= batches[Len(winners) + 1][i].cost
        /\ winners' = Append(winners, batches[Len(winners) + 1][best])
  BY DEF SelectBest
<1>3. Listed(winners) /\ Listed(batches) /\ Len(winners) < Len(batches) /\ Len(batches) \in Nat
  BY <1>1, Longer DEF CandidatesTyped, WinnersAreBest
<1>4. /\ Len(winners) \in Nat /\ Listed(winners') /\ Len(winners') = Len(winners) + 1
      /\ winners'[Len(winners) + 1] = batches[Len(winners) + 1][best]
      /\ \A n \in 1..Len(winners) : winners'[n] = winners[n]
  BY <1>2, <1>3, Longer
<1>5. IsWinner(batches[Len(winners) + 1], winners'[Len(winners) + 1])
  BY <1>2, <1>4 DEF IsWinner
<1>6. \A n \in 1..Len(winners') : IsWinner(batches[n], winners'[n])
  <2>1. \A n \in 1..Len(winners') : n = Len(winners) + 1 \/ n \in 1..Len(winners)
    BY <1>4
  <2>2. \A n \in 1..Len(winners) : IsWinner(batches[n], winners[n])
    BY DEF WinnersAreBest
  <2> QED
    BY <1>4, <1>5, <2>1, <2>2
<1>7. WinnersAreBest'
  BY <1>1, <1>3, <1>4, <1>6 DEF WinnersAreBest
<1>8. BatchesAreBest'
  BY <1>1, BatchesStay
<1>9. CandidatesTyped' /\ RefusalIsJust' /\ NearIsPart'
  BY <1>1, <1>4 DEF CandidatesTyped, RefusalIsJust, NearIsPart
<1> QED
  BY <1>7, <1>8, <1>9

\* The invariant gives what is said of batches and winners.
LEMMA BatchesAreTheBest ==
    CandidatesInv => CandidatesAreTheBest
<1> SUFFICES ASSUME CandidatesInv PROVE CandidatesAreTheBest
  OBVIOUS
<1> USE DEF CandidatesInv
<1>1. matching = "refused" =>
        \/ ~ValidNetwork(network) \/ ~ValidSightings(sightings)
        \/ \E a \in DOMAIN network : Strokes(network[a].shape) = {}
  BY DEF RefusalIsJust
<1>2. Len(batches) \in Nat /\ DOMAIN batches = 1..Len(batches) /\ DOMAIN winners = 1..Len(winners) /\ Len(winners) \in Nat
  BY Longer DEF CandidatesTyped
<1>3. ASSUME NEW n \in DOMAIN batches
      PROVE  LET o == sightings[n]
                 batch == batches[n]
                 reached == { a \in DOMAIN network : IsReached(o, a) }
                 kept == { batch[i].arc : i \in 1..(Len(batch) - 1) }
             IN  /\ batch[Len(batch)] = NoRoad
                 /\ kept \subseteq reached /\ Cardinality(kept) = Len(batch) - 1
                 /\ Cardinality(kept) = Lower(Cardinality(reached), SearchLimits.count)
                 /\ \A i \in 1..(Len(batch) - 1) :
                      LET c == batch[i]
                      IN  /\ c.at \in NearestPoints(network[c.arc].shape, o.at)
                          /\ c.off \in 0..network[c.arc].length
                          /\ \A j \in 1..(i - 1) : Preferred(batch[j], c)
                          /\ \A a \in reached \ kept : Preferred(c, OnRoad(o, a))
                 /\ n \in DOMAIN winners =>
                      /\ \E i \in DOMAIN batch : winners[n] = batch[i]
                      /\ winners[n].cost <= EmissionModel.offMap
                      /\ \A a \in reached : winners[n].cost <= OnRoad(o, a).cost
  <2> DEFINE o == sightings[n]
             batch == batches[n]
             reached == { a \in DOMAIN network : IsReached(o, a) }
             kept == { batch[i].arc : i \in 1..(Len(batch) - 1) }
  <2>1. n \in 1..Len(batches) /\ batches # <<>>
    BY <1>2
  <2>2. NetworkGoes /\ ValidSightings(sightings) /\ Len(batches) <= Len(sightings) /\ IsBatch(o, batch)
    BY <2>1 DEF BatchesAreBest
  <2>3. o \in Seen /\ ValidSighting(o)
    <3>1. sightings \in Seq(Seen) /\ n \in 1..Len(sightings)
      BY <1>2, <2>1, <2>2 DEF CandidatesTyped
    <3>2. n \in DOMAIN sightings
      BY <3>1
    <3> QED
      BY <2>2, <3>1, <3>2 DEF ValidSightings
  <2>4. reached = Reached(o) /\ kept = Kept(batch)
    BY DEF Reached, Kept
  <2>5. ASSUME n \in DOMAIN winners
        PROVE  /\ \E i \in DOMAIN batch : winners[n] = batch[i]
               /\ winners[n].cost <= EmissionModel.offMap
               /\ \A a \in reached : winners[n].cost <= OnRoad(o, a).cost
    <3>1. IsWinner(batch, winners[n])
      BY <1>2, <2>5 DEF WinnersAreBest
    <3> HIDE DEF o, batch, reached, kept
    <3>2. winners[n].cost <= EmissionModel.offMap /\ \A a \in Reached(o) : winners[n].cost <= OnRoad(o, a).cost
      BY <2>2, <2>3, <3>1, WinnerIs
    <3> QED
      BY <2>4, <3>1, <3>2 DEF IsWinner
  <2> HIDE DEF o, batch, reached, kept
  <2>6. /\ batch[Len(batch)] = NoRoad
        /\ kept \subseteq reached /\ Cardinality(kept) = Len(batch) - 1
        /\ Cardinality(kept) = Lower(Cardinality(reached), SearchLimits.count)
        /\ \A i \in 1..(Len(batch) - 1) : IsBatchItem(o, batch, i)
    BY <2>2, <2>4 DEF IsBatch
  <2>7. ASSUME NEW i \in 1..(Len(batch) - 1)
        PROVE  /\ batch[i].at \in NearestPoints(network[batch[i].arc].shape, o.at)
               /\ batch[i].off \in 0..network[batch[i].arc].length
               /\ \A j \in 1..(i - 1) : Preferred(batch[j], batch[i])
               /\ \A a \in reached \ kept : Preferred(batch[i], OnRoad(o, a))
    BY <2>4, <2>6 DEF IsBatchItem
  <2> USE DEF o, batch, reached, kept
  <2> QED
    BY <2>5, <2>6, <2>7, Zenon
<1> QED
  BY <1>1, <1>3, Zenon DEF CandidatesAreTheBest

\* For every graph and track: each batch holds, best first, the best of the arcs
\* within the radius, at a nearest point and an offset of the arc, and the one that is
\* off the map last; a winner is beaten by no arc of the network, and only what is no
\* graph or no track is refused (generate_candidate_batches,
\* best_emission_candidate_index).
THEOREM CandidatesBest == CandidatesSpec => []CandidatesAreTheBest
<1>1. CandidatesInit => CandidatesInv
  BY CandidatesStart
<1>2. CandidatesInv /\ [CandidatesNext]_candidateVars => CandidatesInv'
  <2> SUFFICES ASSUME CandidatesInv, [CandidatesNext]_candidateVars
               PROVE  CandidatesInv'
    OBVIOUS
  <2>1. CASE GiveTrack
    BY <2>1, GiveTrackKeeps
  <2>2. CASE ProjectArc
    BY <2>2, ProjectArcKeeps
  <2>3. CASE FinishBatch
    BY <2>3, FinishBatchKeeps
  <2>4. CASE SelectBest
    BY <2>4, SelectBestKeeps
  <2>5. CASE UNCHANGED candidateVars
    <3>1. /\ matching' = matching /\ network' = network /\ sightings' = sightings /\ projected' = projected
          /\ near' = near /\ batches' = batches /\ winners' = winners
      BY <2>5 DEF candidateVars
    <3>2. CandidatesTyped' /\ RefusalIsJust' /\ WinnersAreBest'
      BY <3>1 DEF CandidatesInv, CandidatesTyped, RefusalIsJust, WinnersAreBest
    <3>3. NearIsPart'
      <4>1. NearUpTo(Observation, projected)' = NearUpTo(Observation, projected)
        <5>1. PICK o, k : o = Observation /\ k = projected
          OBVIOUS
        <5>2. NearUpTo(o, k)' = NearUpTo(o, k)
          BY <3>1, CandidatesStay DEF NearUpTo
        <5>3. Observation' = Observation
          BY <3>1 DEF Observation
        <5> QED
          BY <3>1, <5>1, <5>2, <5>3
      <4> QED
        BY <3>1, <4>1 DEF CandidatesInv, NearIsPart
    <3>4. BatchesAreBest'
      BY <3>1, BatchesStay DEF CandidatesInv
    <3> QED
      BY <3>2, <3>3, <3>4 DEF CandidatesInv
  <2> QED
    BY <2>1, <2>2, <2>3, <2>4, <2>5 DEF CandidatesNext
<1>3. CandidatesInv => CandidatesAreTheBest
  BY BatchesAreTheBest
<1> QED
  BY <1>1, <1>2, <1>3, PTL DEF CandidatesSpec
=============================================================================
