---------------------------- MODULE DecoderProofs ----------------------------
(***************************************************************************)
(* Theorems about RoadDecoder: it calls the search as RouteSearch promises *)
(* its callers to be called, and its beam keeps its bounds and its order,  *)
(* for every graph, all tracks and all parameters.                         *)
(***************************************************************************)
EXTENDS RoadDecoder, RouteProofs

(***************************************************************************)
(* Strict total orders on finite sets, and the ranks they give.            *)
(***************************************************************************)

\* R orders the elements of H.
Orders(R, H) ==
    /\ \A g \in H : <<g, g>> \notin R
    /\ \A f, g, h \in H : <<f, g>> \in R /\ <<g, h>> \in R => <<f, h>> \in R
    /\ \A g, h \in H : g # h => <<g, h>> \in R \/ <<h, g>> \in R

\* How many elements of H come before h.
Rank(R, H, h) == Cardinality({ g \in H : <<g, h>> \in R })

\* A part of a finite set without one of its elements is smaller.
LEMMA Fewer ==
    ASSUME NEW S, IsFiniteSet(S), NEW T, T \subseteq S, NEW x \in S, x \notin T
    PROVE  /\ IsFiniteSet(T) /\ Cardinality(T) \in Nat /\ Cardinality(S) \in Nat
           /\ Cardinality(T) < Cardinality(S)
<1>1. IsFiniteSet(S \ {x}) /\ Cardinality(S \ {x}) = Cardinality(S) - 1
  BY FS_RemoveElement
<1>2. T \subseteq S \ {x}
  OBVIOUS
<1>3. IsFiniteSet(T) /\ Cardinality(T) <= Cardinality(S \ {x})
  BY <1>1, <1>2, FS_Subset
<1> QED
  BY <1>1, <1>3, FS_CardinalityType

\* Ranks are numbers below the size of the set, and order it as R does.
LEMMA RanksOrder ==
    ASSUME NEW H, NEW R, IsFiniteSet(H), Orders(R, H)
    PROVE  /\ \A h \in H : Rank(R, H, h) \in 0..(Cardinality(H) - 1)
           /\ \A g, h \in H : Rank(R, H, g) < Rank(R, H, h) <=> <<g, h>> \in R
           /\ \A g, h \in H : Rank(R, H, g) = Rank(R, H, h) => g = h
<1> DEFINE Below(h) == { g \in H : <<g, h>> \in R }
<1>1. ASSUME NEW h \in H
      PROVE  Rank(R, H, h) \in 0..(Cardinality(H) - 1)
  <2>1. Below(h) \subseteq H /\ h \notin Below(h)
    BY DEF Orders
  <2> HIDE DEF Below
  <2>2. Cardinality(Below(h)) \in Nat /\ Cardinality(H) \in Nat
        /\ Cardinality(Below(h)) < Cardinality(H)
    BY <2>1, Fewer
  <2>3. Rank(R, H, h) = Cardinality(Below(h))
    BY DEF Rank, Below
  <2> QED
    BY <2>2, <2>3
<1>2. ASSUME NEW g \in H, NEW h \in H, <<g, h>> \in R
      PROVE  Rank(R, H, g) < Rank(R, H, h)
  <2>1. Below(g) \subseteq Below(h) /\ g \in Below(h) /\ g \notin Below(g)
    BY <1>2 DEF Orders
  <2>2. IsFiniteSet(Below(h))
    BY FS_Subset
  <2> HIDE DEF Below
  <2>3. Cardinality(Below(g)) < Cardinality(Below(h))
    BY <2>1, <2>2, Fewer
  <2>4. Rank(R, H, g) = Cardinality(Below(g)) /\ Rank(R, H, h) = Cardinality(Below(h))
    BY DEF Rank, Below
  <2> QED
    BY <2>3, <2>4
<1>3. ASSUME NEW g \in H, NEW h \in H
      PROVE  /\ Rank(R, H, g) < Rank(R, H, h) <=> <<g, h>> \in R
             /\ Rank(R, H, g) = Rank(R, H, h) => g = h
  <2>1. g = h \/ <<g, h>> \in R \/ <<h, g>> \in R
    BY DEF Orders
  <2>2. Rank(R, H, g) \in Int /\ Rank(R, H, h) \in Int
    BY <1>1
  <2>3. CASE g = h
    BY <2>2, <2>3 DEF Orders
  <2>4. CASE <<g, h>> \in R
    BY <1>2, <2>2, <2>4
  <2>5. CASE <<h, g>> \in R
    <3>1. <<g, h>> \notin R
      BY <2>5 DEF Orders
    <3> QED
      BY <1>2, <2>2, <2>5, <3>1
  <2> QED
    BY <2>1, <2>3, <2>4, <2>5
<1> QED
  BY <1>1, <1>3

\* Every number below the size of the set is the rank of an element.
LEMMA RanksCover ==
    ASSUME NEW H, NEW R, IsFiniteSet(H), Orders(R, H), NEW k \in 0..(Cardinality(H) - 1)
    PROVE  \E h \in H : Rank(R, H, h) = k
<1> SUFFICES ASSUME \A h \in H : Rank(R, H, h) # k PROVE FALSE
  OBVIOUS
<1> DEFINE n == Cardinality(H)
           Places == (0..(n - 1)) \ {k}
           f == [h \in H |-> Rank(R, H, h)]
<1>1. n \in Nat /\ IsFiniteSet(0..(n - 1)) /\ Cardinality(0..(n - 1)) = n
  BY FS_CardinalityType, FS_Interval
<1>2. IsFiniteSet(Places) /\ Cardinality(Places) = n - 1
  BY <1>1, FS_RemoveElement
<1>3. f \in [H -> Places]
  BY RanksOrder
<1>4. \E g, h \in H : g # h /\ f[g] = f[h]
  <2> HIDE DEF f, Places
  <2>1. Cardinality(Places) < Cardinality(H)
    BY <1>1, <1>2
  <2> QED
    BY <1>2, <1>3, <2>1, FS_PigeonHole
<1> QED
  BY <1>4, RanksOrder

\* At most n elements have a rank below n.
LEMMA FewRankLow ==
    ASSUME NEW H, NEW R, IsFiniteSet(H), Orders(R, H), NEW n \in Nat
    PROVE  Cardinality({ h \in H : Rank(R, H, h) < n }) <= n
<1> DEFINE L == { h \in H : Rank(R, H, h) < n }
           f == [h \in L |-> Rank(R, H, h)]
<1>1. IsFiniteSet(L) /\ Cardinality(L) \in Nat
  BY FS_Subset, FS_CardinalityType
<1>2. IsFiniteSet(0..(n - 1)) /\ Cardinality(0..(n - 1)) = n
  BY FS_Interval
<1>3. f \in [L -> 0..(n - 1)]
  BY RanksOrder
<1>4. \A g, h \in L : f[g] = f[h] => g = h
  BY RanksOrder
<1> HIDE DEF f, L
<1>5. ~(Cardinality(0..(n - 1)) < Cardinality(L))
  BY <1>1, <1>2, <1>3, <1>4, FS_PigeonHole
<1> QED
  BY <1>1, <1>2, <1>5 DEF L

(***************************************************************************)
(* Hypotheses for the first n observations.                                *)
(***************************************************************************)
Hypothesis == [path : Seq(Nat), score : Int, before : Nat, rank : Nat]

\* One candidate for each of the first n observations.
Chooses(path, n) ==
    /\ path \in Seq(Nat) /\ Len(path) = n
    /\ \A i \in 1..n : path[i] \in DOMAIN track[i].candidates

Lexically(g, h) == PathBefore(Ids(g.path), Ids(h.path))

\* Different paths, and the previous ranks with the last candidates tell their order.
Kin(H, n) ==
    /\ IsFiniteSet(H) /\ H \subseteq Hypothesis
    /\ \A h \in H : Chooses(h.path, n)
    /\ \A g, h \in H : g.path = h.path => g = h
    /\ \A g, h \in H : RankedBefore(g, h) <=> Lexically(g, h)

\* The ranks tell it.
RanksTell(H) == \A g, h \in H : g.rank < h.rank <=> Lexically(g, h)

TrackInv == track \in Tracks /\ index \in 1..(Len(track) + 1) /\ pair \in Nat

\* The identities of a path are numbers, and tell it from others.
LEMMA IdsTell ==
    ASSUME TrackInv, NEW n \in 1..Len(track), NEW p, NEW q, Chooses(p, n), Chooses(q, n)
    PROVE  /\ Ids(p) \in [1..n -> Int]
           /\ Ids(p) = Ids(q) => p = q
<1>1. /\ p \in Seq(Nat) /\ DOMAIN p = 1..n /\ p \in [1..n -> Nat]
      /\ q \in Seq(Nat) /\ DOMAIN q = 1..n /\ q \in [1..n -> Nat]
  BY LenProperties DEF Chooses
<1>2. \A i \in 1..n : i \in DOMAIN track
  BY TrackAssumption DEF TrackInv
<1>3. ASSUME NEW i \in 1..n
      PROVE  /\ Ids(p)[i] = track[i].candidates[p[i]].id /\ Ids(p)[i] \in Int
             /\ Ids(q)[i] = track[i].candidates[q[i]].id
             /\ Ids(p)[i] = Ids(q)[i] => p[i] = q[i]
  <2> DEFINE batch == track[i].candidates
  <2>1. p[i] \in DOMAIN batch /\ q[i] \in DOMAIN batch
    BY DEF Chooses
  <2>2. \A a \in DOMAIN batch :
          /\ batch[a].id \in Int
          /\ \A b \in DOMAIN batch : a # b => batch[a].id # batch[b].id
    BY <1>2, TrackAssumption DEF TrackInv
  <2>3. Ids(p)[i] = batch[p[i]].id /\ Ids(q)[i] = batch[q[i]].id
    BY <1>1 DEF Ids, Chosen
  <2> QED
    BY <2>1, <2>2, <2>3
<1>4. Ids(p) \in [1..n -> Int]
  <2>1. Ids(p) = [i \in 1..n |-> Chosen(p, i).id]
    BY <1>1 DEF Ids
  <2>2. \A i \in 1..n : Chosen(p, i).id \in Int
    BY <1>3, <2>1
  <2> QED
    BY <2>1, <2>2
<1>5. ASSUME Ids(p) = Ids(q) PROVE p = q
  BY <1>1, <1>3, <1>5
<1> QED
  BY <1>4, <1>5

LexicalOrder(H) == { pairs \in H \X H : Lexically(pairs[1], pairs[2]) }

\* The identities order the hypotheses of a step.
LEMMA KinAreOrdered ==
    ASSUME TrackInv, NEW n \in 1..Len(track), NEW H, Kin(H, n)
    PROVE  Orders(LexicalOrder(H), H)
<1>1. \A g, h \in H : Ids(g.path) \in [1..n -> Int] /\ (g # h => Ids(g.path) # Ids(h.path))
  BY IdsTell DEF Kin
<1>2. \A g \in H : ~Lexically(g, g)
  BY <1>1, PathsAreOrdered DEF Lexically
<1>3. \A g, h \in H : g # h => Lexically(g, h) \/ Lexically(h, g)
  BY <1>1, PathsAreOrdered DEF Lexically
<1>4. ASSUME NEW f \in H, NEW g \in H, NEW h \in H, Lexically(f, g), Lexically(g, h)
      PROVE  Lexically(f, h)
  <2> DEFINE p == Ids(f.path)  q == Ids(g.path)  r == Ids(h.path)
  <2>1. n \in Nat /\ p \in [1..n -> Int] /\ q \in [1..n -> Int] /\ r \in [1..n -> Int]
    BY <1>1
  <2>2. PathBefore(p, q) /\ PathBefore(q, r)
    BY <1>4 DEF Lexically
  <2> HIDE DEF p, q, r
  <2>3. PathBefore(p, r)
    BY <2>1, <2>2, PathsAreOrdered
  <2> QED
    BY <2>3 DEF Lexically, p, r
<1> QED
  BY <1>2, <1>3, <1>4 DEF Orders, LexicalOrder

\* The image of a finite set under a function is finite, and not larger.
LEMMA ImageIsFinite ==
    ASSUME NEW S, IsFiniteSet(S), NEW f
    PROVE  LET T == { f[x] : x \in S }
           IN  IsFiniteSet(T) /\ Cardinality(T) <= Cardinality(S)
<1> DEFINE T == { f[x] : x \in S }
           g == [x \in S |-> f[x]]
<1>1. g \in Surjection(S, T)
  BY DEF Surjection
<1> HIDE DEF g
<1>2. IsFiniteSet(T) /\ Cardinality(T) <= Cardinality(S)
  <2> HIDE DEF T
  <2> QED
    BY <1>1, FS_Surjection
<1> QED
  BY <1>2

\* assign_lexicographic_ranks: a hypothesis with its rank in H.
WithRank(H, h) == [h EXCEPT !.rank = Cardinality({ g \in H : RankedBefore(g, h) })]

\* The rank given is the place in the order of identities, and nothing else changes.
LEMMA RanksAreGiven ==
    ASSUME TrackInv, NEW n \in 1..Len(track), NEW H, Kin(H, n), NEW h \in H
    PROVE  /\ WithRank(H, h) \in Hypothesis
           /\ WithRank(H, h).path = h.path /\ WithRank(H, h).before = h.before
           /\ WithRank(H, h).score = h.score
           /\ WithRank(H, h).rank = Rank(LexicalOrder(H), H, h)
<1>1. h \in Hypothesis
  BY DEF Kin
<1>2. { g \in H : RankedBefore(g, h) } = { g \in H : <<g, h>> \in LexicalOrder(H) }
  BY DEF Kin, LexicalOrder
<1>3. Cardinality({ g \in H : RankedBefore(g, h) }) = Rank(LexicalOrder(H), H, h)
  BY <1>2 DEF Rank
<1>4. Rank(LexicalOrder(H), H, h) \in 0..(Cardinality(H) - 1)
  BY KinAreOrdered, RanksOrder DEF Kin
<1>5. Rank(LexicalOrder(H), H, h) \in Nat
  BY <1>4
<1> QED
  BY <1>1, <1>3, <1>5 DEF WithRank, Hypothesis

\* Ranking keeps what hypotheses are, and gives them ranks that tell their order.
LEMMA RankingTells ==
    ASSUME TrackInv, NEW n \in 1..Len(track), NEW H, Kin(H, n)
    PROVE  Kin(Ranked(H), n) /\ RanksTell(Ranked(H))
<1>1. Ranked(H) = { WithRank(H, h) : h \in H }
  BY DEF Ranked, WithRank
<1>2. IsFiniteSet(Ranked(H))
  <2> DEFINE f == [h \in H |-> WithRank(H, h)]
  <2>1. Ranked(H) = { f[h] : h \in H }
    BY <1>1
  <2> HIDE DEF f
  <2> QED
    BY <2>1, ImageIsFinite DEF Kin
<1>3. ASSUME NEW g \in Ranked(H)
      PROVE  \E b \in H : /\ g = WithRank(H, b) /\ g \in Hypothesis
                          /\ g.path = b.path /\ g.before = b.before
                          /\ g.rank = Rank(LexicalOrder(H), H, b)
  <2>1. PICK b \in H : g = WithRank(H, b)
    BY <1>1
  <2> QED
    BY <2>1, RanksAreGiven
<1>4. Ranked(H) \subseteq Hypothesis /\ \A g \in Ranked(H) : Chooses(g.path, n)
  BY <1>3 DEF Kin
<1>5. ASSUME NEW g \in Ranked(H), NEW h \in Ranked(H)
      PROVE  /\ g.path = h.path => g = h
             /\ RankedBefore(g, h) <=> Lexically(g, h)
             /\ g.rank < h.rank <=> Lexically(g, h)
  <2>1. PICK a \in H : /\ g = WithRank(H, a) /\ g.path = a.path /\ g.before = a.before
                       /\ g.rank = Rank(LexicalOrder(H), H, a)
    BY <1>3
  <2>2. PICK b \in H : /\ h = WithRank(H, b) /\ h.path = b.path /\ h.before = b.before
                       /\ h.rank = Rank(LexicalOrder(H), H, b)
    BY <1>3
  <2>3. g.path = h.path => g = h
    BY <2>1, <2>2 DEF Kin
  <2>4. Lexically(g, h) <=> Lexically(a, b)
    BY <2>1, <2>2 DEF Lexically
  <2>5. RankedBefore(g, h) <=> RankedBefore(a, b)
    BY <2>1, <2>2 DEF RankedBefore, IdOf
  <2>6. g.rank < h.rank <=> <<a, b>> \in LexicalOrder(H)
    BY <2>1, <2>2, KinAreOrdered, RanksOrder DEF Kin
  <2> QED
    BY <2>3, <2>4, <2>5, <2>6 DEF Kin, LexicalOrder
<1> QED
  BY <1>2, <1>4, <1>5 DEF Kin, RanksTell

\* A part of such hypotheses is like them.
LEMMA PartsAreKin ==
    ASSUME NEW n, NEW H, Kin(H, n), NEW K \in SUBSET H
    PROVE  Kin(K, n) /\ (RanksTell(H) => RanksTell(K))
<1>1. IsFiniteSet(K)
  BY FS_Subset DEF Kin
<1> QED
  BY <1>1 DEF Kin, RanksTell

Preference(H) == { pairs \in H \X H : Better(pairs[1], pairs[2]) }

\* Scores and ranks order the hypotheses of a step.
LEMMA PreferenceOrders ==
    ASSUME TrackInv, NEW n \in 1..Len(track), NEW H, Kin(H, n), RanksTell(H)
    PROVE  Orders(Preference(H), H)
<1>1. Orders(LexicalOrder(H), H)
  BY KinAreOrdered
<1>2. \A h \in H : h.score \in Int /\ h.rank \in Nat
  BY DEF Kin, Hypothesis
<1>3. \A g, h \in H : g # h => g.rank < h.rank \/ h.rank < g.rank
  BY <1>1 DEF Orders, LexicalOrder, RanksTell
<1>4. \A g \in H : ~Better(g, g)
  BY <1>2 DEF Better
<1>5. \A g, h \in H : g # h => Better(g, h) \/ Better(h, g)
  BY <1>2, <1>3 DEF Better
<1>6. ASSUME NEW f \in H, NEW g \in H, NEW h \in H, Better(f, g), Better(g, h)
      PROVE  Better(f, h)
  BY <1>2, <1>6 DEF Better
<1> QED
  BY <1>4, <1>5, <1>6 DEF Orders, Preference

\* The place of a hypothesis in the order of preference.
LEMMA PlacesAreRanks ==
    ASSUME NEW K, NEW h \in K
    PROVE  Cardinality({ g \in K : Better(g, h) }) = Rank(Preference(K), K, h)
<1>1. { g \in K : Better(g, h) } = { g \in K : <<g, h>> \in Preference(K) }
  BY DEF Preference
<1> QED
  BY <1>1 DEF Rank

\* hypothesis_order lists every hypothesis once.
LEMMA OrderedLists ==
    ASSUME TrackInv, NEW n \in 1..Len(track), NEW K, Kin(K, n), RanksTell(K)
    PROVE  /\ Ordered(K) \in Seq(K) /\ Len(Ordered(K)) = Cardinality(K)
           /\ Hypotheses(Ordered(K)) = K
           /\ \A i, j \in 1..Len(Ordered(K)) : Ordered(K)[i].path = Ordered(K)[j].path => i = j
<1> DEFINE N == Cardinality(K)
           At(i) == CHOOSE h \in K : Cardinality({ g \in K : Better(g, h) }) = i - 1
           place == Ordered(K)
<1>1. IsFiniteSet(K) /\ Orders(Preference(K), K) /\ N \in Nat
  BY PreferenceOrders, FS_CardinalityType DEF Kin
<1>2. place = [i \in 1..N |-> At(i)]
  BY DEF Ordered
<1>3. ASSUME NEW i \in 1..N
      PROVE  place[i] \in K /\ Rank(Preference(K), K, place[i]) = i - 1
  <2>1. i - 1 \in 0..(Cardinality(K) - 1)
    BY <1>1
  <2>2. \E h \in K : Rank(Preference(K), K, h) = i - 1
    BY <1>1, <2>1, RanksCover
  <2>3. \E h \in K : Cardinality({ g \in K : Better(g, h) }) = i - 1
    BY <2>2, PlacesAreRanks
  <2>4. At(i) \in K /\ Cardinality({ g \in K : Better(g, At(i)) }) = i - 1
    BY <2>3
  <2> HIDE DEF At, place
  <2>5. place[i] = At(i)
    BY <1>2
  <2> QED
    BY <2>4, <2>5, PlacesAreRanks
<1> HIDE DEF At
<1>4. place \in [1..N -> K]
  BY <1>2, <1>3
<1>5. place \in Seq(K) /\ Len(place) = N /\ DOMAIN place = 1..N
  <2> HIDE DEF place, N
  <2>1. place \in Seq(K) /\ DOMAIN place = 1..N
    BY <1>1, <1>4, SeqDef
  <2>2. Len(place) \in Nat /\ DOMAIN place = 1..Len(place)
    BY <2>1, LenProperties
  <2> QED
    BY <1>1, <2>1, <2>2
<1>6. ASSUME NEW h \in K PROVE \E i \in 1..N : place[i] = h
  <2> DEFINE r == Rank(Preference(K), K, h)
  <2>1. r \in 0..(N - 1)
    BY <1>1, RanksOrder
  <2> HIDE DEF r, place, N
  <2>2. r + 1 \in 1..N /\ (r + 1) - 1 = r
    BY <1>1, <2>1
  <2>3. place[r + 1] \in K /\ Rank(Preference(K), K, place[r + 1]) = r
    BY <1>3, <2>2
  <2>4. place[r + 1] = h
    BY <1>1, <2>3, RanksOrder DEF r
  <2> QED
    BY <2>2, <2>4
<1>7. Hypotheses(place) = K
  BY <1>3, <1>5, <1>6 DEF Hypotheses
<1>8. ASSUME NEW i \in 1..N, NEW j \in 1..N, place[i].path = place[j].path PROVE i = j
  <2>1. place[i] \in K /\ place[j] \in K
    BY <1>3
  <2>2. place[i] = place[j]
    BY <1>8, <2>1 DEF Kin
  <2>3. i - 1 = j - 1
    BY <1>3, <2>2
  <2> QED
    BY <2>3
<1> QED
  BY <1>5, <1>7, <1>8

\* The first n hypotheses are at most n, and one at least is among them.
LEMMA FirstAreFew ==
    ASSUME TrackInv, NEW n \in 1..Len(track), NEW K, Kin(K, n), RanksTell(K),
           NEW m \in Nat \ {0}
    PROVE  /\ FirstOf(K, m) \subseteq K
           /\ IsFiniteSet(FirstOf(K, m)) /\ Cardinality(FirstOf(K, m)) <= m
           /\ K # {} => FirstOf(K, m) # {}
<1>1. IsFiniteSet(K) /\ Orders(Preference(K), K) /\ Cardinality(K) \in Nat
  BY PreferenceOrders, FS_CardinalityType DEF Kin
<1>2. FirstOf(K, m) = { h \in K : Rank(Preference(K), K, h) < m }
  BY PlacesAreRanks DEF FirstOf
<1>3. FirstOf(K, m) \subseteq K /\ IsFiniteSet(FirstOf(K, m))
  BY <1>1, <1>2, FS_Subset
<1>4. Cardinality(FirstOf(K, m)) <= m
  BY <1>1, <1>2, FewRankLow
<1>5. ASSUME K # {} PROVE FirstOf(K, m) # {}
  <2>1. Cardinality(K) # 0
    BY <1>1, <1>5, FS_EmptySet
  <2>2. 0 \in 0..(Cardinality(K) - 1)
    BY <1>1, <2>1
  <2>3. PICK h \in K : Rank(Preference(K), K, h) = 0
    BY <1>1, <2>2, RanksCover
  <2> QED
    BY <1>2, <2>3
<1> QED
  BY <1>3, <1>4, <1>5

\* The hypotheses that end with one candidate, of which at most PerTerminal stay.
Ending(H, id) == { h \in H : IdOf(h) = id }

\* hypotheses_per_terminal_candidate bounds every class, and empties none.
LEMMA TerminalsAreFew ==
    ASSUME TrackInv, NEW n \in 1..Len(track), NEW H, Kin(H, n), RanksTell(H)
    PROVE  /\ TerminalPruned(H) \subseteq H
           /\ \A id : Cardinality(Ending(TerminalPruned(H), id)) <= PerTerminal
           /\ H # {} => TerminalPruned(H) # {}
<1>1. PerTerminal \in Nat \ {0}
  BY DecoderAssumption
<1>2. ASSUME NEW h \in H
      PROVE  /\ Rivals(H, h) = { g \in Ending(H, IdOf(h)) : Better(g, h) }
             /\ h \in Ending(H, IdOf(h))
  BY DEF Rivals, Ending
<1>3. ASSUME NEW id
      PROVE  /\ Kin(Ending(H, id), n) /\ RanksTell(Ending(H, id))
             /\ Ending(TerminalPruned(H), id) = FirstOf(Ending(H, id), PerTerminal)
  <2>1. Ending(H, id) \in SUBSET H
    BY DEF Ending
  <2>2. Kin(Ending(H, id), n) /\ RanksTell(Ending(H, id))
    BY <2>1, PartsAreKin
  <2>3. \A h \in H : IdOf(h) = id => Rivals(H, h) = { g \in Ending(H, id) : Better(g, h) }
    BY <1>2
  <2>4. Ending(TerminalPruned(H), id) = FirstOf(Ending(H, id), PerTerminal)
    BY <2>3 DEF Ending, TerminalPruned, FirstOf
  <2> QED
    BY <2>2, <2>4
<1>4. ASSUME NEW id PROVE Cardinality(Ending(TerminalPruned(H), id)) <= PerTerminal
  BY <1>1, <1>3, FirstAreFew
<1>5. ASSUME NEW h \in H PROVE TerminalPruned(H) # {}
  <2>1. FirstOf(Ending(H, IdOf(h)), PerTerminal) # {}
    BY <1>1, <1>2, <1>3, FirstAreFew
  <2>2. Ending(TerminalPruned(H), IdOf(h)) # {}
    BY <1>3, <2>1
  <2> QED
    BY <2>2 DEF Ending
<1> QED
  BY <1>4, <1>5 DEF TerminalPruned

\* The score delta keeps the best hypothesis.
LEMMA NearBestStays ==
    ASSUME TrackInv, NEW n \in 1..Len(track), NEW H, Kin(H, n), RanksTell(H), H # {}
    PROVE  NearBest(H) \subseteq H /\ NearBest(H) # {}
<1>1. 1 \in Nat \ {0} /\ FirstOf(H, 1) # {} /\ FirstOf(H, 1) \subseteq H
  BY FirstAreFew
<1>2. PICK h \in H : Cardinality({ g \in H : Better(g, h) }) < 1
  BY <1>1 DEF FirstOf
<1>3. IsFiniteSet({ g \in H : Better(g, h) })
  BY FS_Subset DEF Kin
<1>4. Cardinality({ g \in H : Better(g, h) }) = 0
  BY <1>2, <1>3, FS_CardinalityType
<1>5. { g \in H : Better(g, h) } = {}
  BY <1>3, <1>4, FS_EmptySet
<1>6. ASSUME NEW g \in H PROVE h.score >= g.score - BeamDelta
  <2>1. ~Better(g, h) /\ g.score \in Int /\ h.score \in Int
    BY <1>5 DEF Kin, Hypothesis
  <2> QED
    BY <2>1, DecoderAssumption DEF Better
<1> QED
  BY <1>6 DEF NearBest

\* What the beam holds for the first n observations: hypotheses within the bounds,
\* listed once, with ranks that tell the order of their identities.
BeamFits(b, n) ==
    /\ b \in Seq(Hypothesis) /\ b # <<>> /\ Len(b) <= BeamWidth
    /\ \A i, j \in 1..Len(b) : b[i].path = b[j].path => i = j
    /\ Kin(Hypotheses(b), n) /\ RanksTell(Hypotheses(b))
    /\ \A id : Cardinality(Ending(Hypotheses(b), id)) <= PerTerminal

\* A set of hypotheses within the bounds makes such a beam.
LEMMA BeamIsMade ==
    ASSUME TrackInv, NEW n \in 1..Len(track), NEW K, Kin(K, n), RanksTell(K), K # {},
           Cardinality(K) <= BeamWidth, \A id : Cardinality(Ending(K, id)) <= PerTerminal
    PROVE  BeamFits(Ordered(K), n)
<1> DEFINE b == Ordered(K)
<1>1. /\ b \in Seq(K) /\ Len(b) = Cardinality(K) /\ Hypotheses(b) = K
      /\ \A i, j \in 1..Len(b) : b[i].path = b[j].path => i = j
  BY OrderedLists
<1> HIDE DEF b
<1>2. b \in Seq(Hypothesis)
  BY <1>1, ElementOfSeq DEF Kin
<1>3. b # <<>>
  BY <1>1, EmptySeq DEF Hypotheses
<1>4. BeamFits(b, n)
  BY <1>1, <1>2, <1>3 DEF BeamFits
<1> QED
  BY <1>4 DEF b

\* What a pruning keeps of the hypotheses of a step.
LEMMA PruningFits ==
    ASSUME TrackInv, NEW n \in 1..Len(track), NEW H, Kin(H, n), H # {}
    PROVE  BeamFits(Ordered(Ranked(FirstOf(NearBest(TerminalPruned(Ranked(H))), BeamWidth))), n)
<1> DEFINE R == Ranked(H)
           T == TerminalPruned(R)
           B == NearBest(T)
           F == FirstOf(B, BeamWidth)
           K == Ranked(F)
<1>1. Kin(R, n) /\ RanksTell(R) /\ R # {}
  BY RankingTells DEF Ranked
<1> HIDE DEF R
<1>2. T \subseteq R /\ T # {} /\ \A id : Cardinality(Ending(T, id)) <= PerTerminal
  BY <1>1, TerminalsAreFew
<1>3. Kin(T, n) /\ RanksTell(T)
  BY <1>1, <1>2, PartsAreKin
<1> HIDE DEF T
<1>4. B \subseteq T /\ B # {}
  BY <1>2, <1>3, NearBestStays
<1>5. Kin(B, n) /\ RanksTell(B)
  BY <1>3, <1>4, PartsAreKin
<1> HIDE DEF B
<1>6. F \subseteq B /\ IsFiniteSet(F) /\ Cardinality(F) <= BeamWidth /\ F # {}
  BY <1>4, <1>5, FirstAreFew, DecoderAssumption
<1>7. Kin(F, n)
  BY <1>5, <1>6, PartsAreKin
<1> HIDE DEF F
<1>8. Kin(K, n) /\ RanksTell(K)
  BY <1>7, RankingTells
<1>9. K = { WithRank(F, h) : h \in F }
  BY DEF Ranked, WithRank
<1>10. \A h \in F : WithRank(F, h).path = h.path
  BY <1>7, RanksAreGiven
<1>11. Cardinality(F) \in Nat /\ BeamWidth \in Nat /\ PerTerminal \in Nat /\ Cardinality(K) \in Nat
  BY <1>6, <1>8, FS_CardinalityType, DecoderAssumption DEF Kin
<1> HIDE DEF K
<1>12. Cardinality(K) <= BeamWidth
  <2> DEFINE f == [h \in F |-> WithRank(F, h)]
  <2>1. K = { f[h] : h \in F }
    BY <1>9
  <2> HIDE DEF f
  <2>2. Cardinality(K) <= Cardinality(F)
    BY <1>6, <2>1, ImageIsFinite
  <2> QED
    BY <1>6, <1>11, <2>2
<1>13. ASSUME NEW id PROVE Cardinality(Ending(K, id)) <= PerTerminal
  <2> DEFINE S == Ending(F, id)
             f == [h \in F |-> WithRank(F, h)]
  <2>1. \A h \in F : IdOf(WithRank(F, h)) = IdOf(h)
    BY <1>10 DEF IdOf
  <2>2. Ending(K, id) = { f[h] : h \in S }
    BY <1>9, <2>1 DEF Ending
  <2>3. S \in SUBSET Ending(T, id) /\ IsFiniteSet(Ending(T, id)) /\ IsFiniteSet(S)
    <3>1. S \subseteq F /\ S \subseteq Ending(T, id)
      BY <1>4, <1>6 DEF Ending
    <3>2. IsFiniteSet(T) /\ Ending(T, id) \subseteq T
      BY <1>3 DEF Kin, Ending
    <3> QED
      BY <1>6, <3>1, <3>2, FS_Subset
  <2> HIDE DEF f, S
  <2>4. IsFiniteSet(Ending(K, id)) /\ Cardinality(Ending(K, id)) <= Cardinality(S)
    BY <2>2, <2>3, ImageIsFinite
  <2>5. Cardinality(S) <= Cardinality(Ending(T, id))
    BY <2>3, FS_Subset
  <2>6. /\ Cardinality(Ending(K, id)) \in Nat /\ Cardinality(S) \in Nat
        /\ Cardinality(Ending(T, id)) \in Nat
    BY <2>3, <2>4, FS_CardinalityType
  <2> QED
    BY <1>2, <1>11, <2>4, <2>5, <2>6
<1>14. K # {}
  BY <1>6, <1>9
<1>15. BeamFits(Ordered(K), n)
  BY <1>8, <1>12, <1>13, <1>14, BeamIsMade
<1> QED
  BY <1>15 DEF K, F, B, T, R

(***************************************************************************)
(* The invariant of the decoder.                                           *)
(***************************************************************************)

\* Before the first step there is no beam; after it, one for the last observation.
BeamInv ==
    IF beam = <<>> THEN index = 1
    ELSE index - 1 \in 1..Len(track) /\ pair \in Nat \ {0} /\ BeamFits(beam, index - 1)

\* A hypothesis that continues the i-th of the beam with candidate c, at its turn.
Continues(h, i, c) ==
    /\ i \in 1..Len(beam) /\ c \in 1..Len(Batch)
    /\ (i - 1) * Len(Batch) + c < pair
    /\ h.path = Append(beam[i].path, c) /\ h.before = beam[i].rank

\* The hypotheses for the present observation continue those of the beam, each pair once.
ExpandedInv ==
    /\ IsFiniteSet(expanded) /\ expanded \subseteq Hypothesis
    /\ expanded # {} => beam # <<>> /\ index <= Len(track)
    /\ \A h \in expanded : \E i, c \in Nat : Continues(h, i, c)
    /\ \A g, h \in expanded : g.path = h.path => g = h

RouteTyped == route = NoRoute \/ route \in Route

DecoderInv == Inv /\ RouteTyped /\ TrackInv /\ BeamInv /\ ExpandedInv

\* The candidates of an observation.
LEMMA CandidatesTyped ==
    ASSUME TrackInv, NEW i \in 1..Len(track), NEW a \in DOMAIN track[i].candidates
    PROVE  LET c == track[i].candidates[a]
           IN  /\ ~Off(c) => PointOf(c) \in Matched
               /\ c.id \in Int /\ c.emission \in Int
BY TrackAssumption DEF TrackInv, Off, PointOf, Matched

\* The first hypotheses, one per candidate.
LEMMA FirstAreKin ==
    ASSUME TrackInv, index = 1
    PROVE  Kin(FirstHypotheses, 1) /\ RanksTell(FirstHypotheses) /\ FirstHypotheses # {}
<1> DEFINE Single(i) == [path |-> <<i>>, score |-> Batch[i].emission, before |-> 0, rank |-> 0]
           H == { Single(i) : i \in DOMAIN Batch }
<1>1. /\ 1 \in 1..Len(track) /\ 1 \in DOMAIN track /\ Batch = track[1].candidates
      /\ Len(Batch) \in Nat \ {0} /\ DOMAIN Batch = 1..Len(Batch)
  BY TrackAssumption DEF TrackInv, Batch
<1>2. ASSUME NEW i \in DOMAIN Batch
      PROVE  Single(i) \in Hypothesis /\ Chooses(<<i>>, 1) /\ IdOf(Single(i)) = Batch[i].id
  <2>1. i \in Nat /\ Batch[i].emission \in Int
    BY <1>1, CandidatesTyped
  <2>2. <<i>> \in Seq(Nat) /\ Len(<<i>>) = 1 /\ <<i>>[1] = i
    BY <2>1
  <2> QED
    BY <1>1, <2>1, <2>2 DEF Hypothesis, Chooses, IdOf, Chosen
<1>3. IsFiniteSet(H)
  <2> DEFINE f == [i \in DOMAIN Batch |-> Single(i)]
  <2>1. H = { f[i] : i \in DOMAIN Batch }
    OBVIOUS
  <2>2. IsFiniteSet(DOMAIN Batch)
    BY <1>1, FS_Interval
  <2> HIDE DEF f, H
  <2> QED
    BY <2>1, <2>2, ImageIsFinite
<1>4. ASSUME NEW i \in DOMAIN Batch, NEW j \in DOMAIN Batch
      PROVE  /\ Single(i).path = Single(j).path => Single(i) = Single(j)
             /\ RankedBefore(Single(i), Single(j)) <=> Lexically(Single(i), Single(j))
  <2>1. <<i>> = <<j>> => i = j
    OBVIOUS
  <2>2. RankedBefore(Single(i), Single(j)) <=> Batch[i].id < Batch[j].id
    BY <1>2 DEF RankedBefore
  <2>3. /\ DOMAIN Ids(<<i>>) = {1} /\ Ids(<<i>>)[1] = Batch[i].id
        /\ DOMAIN Ids(<<j>>) = {1} /\ Ids(<<j>>)[1] = Batch[j].id
    BY <1>1 DEF Ids, Chosen
  <2>4. PathBefore(Ids(<<i>>), Ids(<<j>>)) <=> Batch[i].id < Batch[j].id
    <3> DEFINE p == Ids(<<i>>)  q == Ids(<<j>>)
    <3>1. DOMAIN p = {1} /\ p[1] = Batch[i].id /\ q[1] = Batch[j].id
      BY <2>3
    <3> HIDE DEF p, q
    <3>2. PathBefore(p, q) => p[1] < q[1]
      BY <3>1 DEF PathBefore
    <3>3. ASSUME p[1] < q[1] PROVE PathBefore(p, q)
      <4>1. 1 \in DOMAIN p /\ \A k \in 1..(1 - 1) : p[k] = q[k]
        BY <3>1
      <4> QED
        BY <3>3, <4>1 DEF PathBefore
    <3>4. PathBefore(p, q) <=> Batch[i].id < Batch[j].id
      BY <3>1, <3>2, <3>3
    <3> QED
      BY <3>4 DEF p, q
  <2> QED
    BY <2>1, <2>2, <2>4 DEF Lexically
<1>5. Kin(H, 1)
  <2>1. H \subseteq Hypothesis /\ \A h \in H : Chooses(h.path, 1)
    BY <1>2
  <2>2. \A g, h \in H : /\ g.path = h.path => g = h
                        /\ RankedBefore(g, h) <=> Lexically(g, h)
    <3> HIDE DEF Single
    <3> QED
      BY <1>4
  <2> HIDE DEF H
  <2> QED
    BY <1>3, <2>1, <2>2 DEF Kin
<1>6. FirstHypotheses = Ranked(H)
  BY DEF FirstHypotheses
<1>7. H # {}
  <2>1. 1 \in DOMAIN Batch
    BY <1>1
  <2>2. Single(1) \in H
    BY <2>1
  <2> QED
    BY <2>2
<1> HIDE DEF H
<1>8. Ranked(H) # {}
  BY <1>7 DEF Ranked
<1> QED
  BY <1>1, <1>5, <1>6, <1>8, RankingTells

\* The hypotheses for one more observation: the previous rank, then the last
\* candidate, tell the order of whole sequences of identities.
LEMMA ExpandedAreKin ==
    ASSUME DecoderInv, beam # <<>>, index <= Len(track)
    PROVE  Kin(expanded, index)
<1> DEFINE n == index - 1
<1>1. /\ TrackInv /\ ExpandedInv /\ BeamFits(beam, n) /\ n \in 1..Len(track) /\ index \in 1..Len(track)
      /\ n + 1 = index /\ n \in Nat
  BY DEF DecoderInv, BeamInv, TrackInv
<1>2. /\ Len(track) \in Nat /\ Len(Batch) \in Nat \ {0} /\ DOMAIN Batch = 1..Len(Batch)
      /\ Batch = track[index].candidates
  BY <1>1, TrackAssumption DEF TrackInv, Batch
<1> HIDE DEF n
<1>3. ASSUME NEW h \in expanded
      PROVE  \E i \in 1..Len(beam), c \in DOMAIN Batch :
               /\ h.path = Append(beam[i].path, c) /\ h.before = beam[i].rank
               /\ beam[i] \in Hypotheses(beam) /\ Chooses(beam[i].path, n)
               /\ Chooses(h.path, n + 1) /\ IdOf(h) = Ids(h.path)[n + 1]
               /\ \A k \in 1..n : Ids(h.path)[k] = Ids(beam[i].path)[k]
  <2>1. PICK i \in 1..Len(beam), c \in DOMAIN Batch :
           h.path = Append(beam[i].path, c) /\ h.before = beam[i].rank
    BY <1>1, <1>2 DEF ExpandedInv, Continues
  <2>2. beam[i] \in Hypotheses(beam)
    BY <1>1, LenProperties DEF BeamFits, Hypotheses
  <2>3. Chooses(beam[i].path, n)
    BY <1>1, <2>2 DEF BeamFits, Kin
  <2> DEFINE p == beam[i].path
             u == h.path
  <2>4. p \in Seq(Nat) /\ Len(p) = n /\ c \in Nat
    BY <1>2, <2>3 DEF Chooses
  <2>5. u \in Seq(Nat) /\ Len(u) = n + 1 /\ u[n + 1] = c /\ \A k \in 1..n : u[k] = p[k]
    BY <2>1, <2>4, AppendProperties
  <2>6. Chooses(u, n + 1)
    <3>1. u[n + 1] \in DOMAIN track[n + 1].candidates
      BY <1>1, <1>2, <2>5
    <3>2. \A k \in 1..n : u[k] \in DOMAIN track[k].candidates
      BY <2>3, <2>5 DEF Chooses
    <3>3. \A k \in 1..(n + 1) : k = n + 1 \/ k \in 1..n
      BY <1>1
    <3> QED
      BY <2>5, <3>1, <3>2, <3>3 DEF Chooses
  <2>7. DOMAIN u = 1..(n + 1) /\ DOMAIN p = 1..n
    BY <2>4, <2>5, LenProperties
  <2>8. IdOf(h) = Ids(u)[n + 1]
    BY <1>1, <2>5, <2>7 DEF IdOf, Ids
  <2>9. \A k \in 1..n : Ids(u)[k] = Ids(p)[k]
    BY <1>1, <2>5, <2>7 DEF Ids, Chosen
  <2> QED
    BY <2>1, <2>2, <2>3, <2>6, <2>8, <2>9
<1>4. ASSUME NEW g \in expanded, NEW h \in expanded
      PROVE  RankedBefore(g, h) <=> Lexically(g, h)
  <2>1. PICK i \in 1..Len(beam), c \in DOMAIN Batch :
               /\ g.path = Append(beam[i].path, c) /\ g.before = beam[i].rank
               /\ beam[i] \in Hypotheses(beam) /\ Chooses(beam[i].path, n)
               /\ Chooses(g.path, n + 1) /\ IdOf(g) = Ids(g.path)[n + 1]
               /\ \A k \in 1..n : Ids(g.path)[k] = Ids(beam[i].path)[k]
    BY <1>3
  <2>2. PICK j \in 1..Len(beam), d \in DOMAIN Batch :
               /\ h.path = Append(beam[j].path, d) /\ h.before = beam[j].rank
               /\ beam[j] \in Hypotheses(beam) /\ Chooses(beam[j].path, n)
               /\ Chooses(h.path, n + 1) /\ IdOf(h) = Ids(h.path)[n + 1]
               /\ \A k \in 1..n : Ids(h.path)[k] = Ids(beam[j].path)[k]
    BY <1>3
  <2> DEFINE p == Ids(beam[i].path)  q == Ids(beam[j].path)
             u == Ids(g.path)  v == Ids(h.path)
  <2>3. p \in [1..n -> Int] /\ q \in [1..n -> Int] /\ u \in [1..(n + 1) -> Int] /\ v \in [1..(n + 1) -> Int]
    BY <1>1, <2>1, <2>2, IdsTell
  <2>4. PathBefore(u, v) <=> PathBefore(p, q) \/ (p = q /\ u[n + 1] < v[n + 1])
    <3> HIDE DEF p, q, u, v
    <3>1. \A k \in 1..n : u[k] = p[k] /\ v[k] = q[k]
      BY <2>1, <2>2 DEF p, q, u, v
    <3> QED
      BY <1>1, <2>3, <3>1, LastDecides
  <2>5. PathBefore(p, q) <=> g.before < h.before
    BY <1>1, <2>1, <2>2 DEF BeamFits, RanksTell, Lexically
  <2>6. p = q <=> g.before = h.before
    <3>1. p = q => beam[i] = beam[j]
      BY <1>1, <2>1, <2>2, IdsTell DEF BeamFits, Kin
    <3>2. ASSUME p # q PROVE beam[i].rank # beam[j].rank
      <4>1. PathBefore(p, q) \/ PathBefore(q, p)
        <5> HIDE DEF p, q
        <5> QED
          BY <1>1, <2>3, <3>2, PathsAreOrdered
      <4>2. beam[i].rank < beam[j].rank \/ beam[j].rank < beam[i].rank
        BY <1>1, <2>1, <2>2, <4>1 DEF BeamFits, RanksTell, Lexically
      <4>3. beam[i].rank \in Nat /\ beam[j].rank \in Nat
        BY <1>1, <2>1, <2>2 DEF BeamFits, Kin, Hypothesis
      <4> QED
        BY <4>2, <4>3
    <3> QED
      BY <2>1, <2>2, <3>1, <3>2
  <2> QED
    BY <2>1, <2>2, <2>4, <2>5, <2>6 DEF RankedBefore, Lexically
<1>5. \A h \in expanded : Chooses(h.path, index)
  BY <1>1, <1>3
<1> QED
  BY <1>1, <1>4, <1>5 DEF ExpandedInv, Kin

\* Products grow with a factor.
LEMMA ProductsGrow ==
    ASSUME NEW a \in Nat, NEW b \in Nat, NEW l \in Nat, a <= b
    PROVE  a * l <= b * l
<1>1. PICK d \in Nat : b = a + d
  <2>1. b - a \in Nat /\ b = a + (b - a)
    OBVIOUS
  <2> QED
    BY <2>1
<1>2. b * l = a * l + d * l /\ d * l >= 0
  BY <1>1
<1>3. a * l \in Int /\ d * l \in Int
  OBVIOUS
<1> QED
  BY <1>2, <1>3

\* Quotient and remainder number the pairs row by row.
LEMMA PairsAreNumbered ==
    ASSUME NEW l \in Nat \ {0}, NEW b \in Nat, NEW k \in 1..(b * l)
    PROVE  /\ ((k - 1) \div l) + 1 \in 1..b /\ ((k - 1) % l) + 1 \in 1..l
           /\ ((((k - 1) \div l) + 1) - 1) * l + (((k - 1) % l) + 1) = k
<1> DEFINE q == (k - 1) \div l
           r == (k - 1) % l
<1>1. k - 1 \in Nat
  OBVIOUS
<1>2. q \in Nat /\ r \in 0..(l - 1) /\ k - 1 = q * l + r
  BY <1>1, SMTT(30)
<1> HIDE DEF q, r
<1>3. q < b
  <2> SUFFICES ASSUME b <= q PROVE FALSE
    BY <1>2
  <2>1. b * l <= q * l
    BY <1>2, ProductsGrow
  <2>2. b * l \in Int /\ q * l \in Int
    BY <1>2
  <2> QED
    BY <1>2, <2>1, <2>2
<1>4. ((q + 1) - 1) * l + (r + 1) = k
  <2>1. (q + 1) - 1 = q /\ q * l \in Int
    BY <1>2
  <2> QED
    BY <1>2, <2>1
<1>5. q + 1 \in 1..b /\ r + 1 \in 1..l
  BY <1>2, <1>3
<1> QED
  BY <1>4, <1>5 DEF q, r

\* A search returns a result.
LEMMA ResultsAreTyped ==
    ASSUME Inv, RouteTyped, [SearchNext]_<<rules, search>>
    PROVE  RouteTyped'
<1>1. ASSUME NEW p \in Matched, NEW c \in Matched, Ask(p, c) PROVE RouteTyped'
  <2>1. \/ Direct(p, c) /\ route' = Found(c.off - p.off, <<p.arc>>)
        \/ route' = Rejected("graph_search_budget")
        \/ route' = route
    <3>1. CASE Direct(p, c)
      BY <1>1, <3>1 DEF Ask
    <3>2. CASE ~Direct(p, c) /\ FirstWalk(p).dist > MaxDistance
      BY <1>1, <3>2 DEF Ask
    <3>3. CASE ~Direct(p, c) /\ ~(FirstWalk(p).dist > MaxDistance)
      BY <1>1, <3>3 DEF Ask
    <3> QED
      BY <3>1, <3>2, <3>3
  <2>2. p.arc \in Arc /\ c.off - p.off \in Int
    BY GraphAssumption DEF Matched
  <2>3. Found(c.off - p.off, <<p.arc>>) \in Route /\ Rejected("graph_search_budget") \in Route
    BY <2>2 DEF Found, Rejected, Route, Reason
  <2> QED
    BY <2>1, <2>3 DEF RouteTyped
<1>2. ASSUME NEW w \in queue, Stale(w) \/ Expand(w) PROVE RouteTyped'
  BY <1>2 DEF Stale, Expand, RouteTyped
<1>3. ASSUME NEW w \in queue, Overrun(w) PROVE RouteTyped'
  BY <1>3 DEF Overrun, Rejected, Route, Reason, RouteTyped
<1>4. ASSUME NEW w \in queue, Arrive(w) PROVE RouteTyped'
  <2> DEFINE total == w.dist + Target.off
             path == PathInto(w.path, Target.arc)
  <2>1. Visit(w) /\ (route' = Rejected("graph_search_budget") \/ route' = Found(total, path))
    BY <1>4 DEF Arrive
  <2>2. query \in Matched \X Matched /\ w \in Walk
    BY <2>1 DEF Inv, SearchTypes, Visit, Searching
  <2>3. Target.arc \in Arc /\ total \in Int /\ w.path \in Seq(Arc)
    BY <2>2, GraphAssumption DEF Target, Matched, Walk
  <2>4. path \in Seq(Arc)
    BY <2>3, AppendProperties DEF PathInto
  <2> HIDE DEF path, total
  <2>5. Found(total, path) \in Route /\ Rejected("graph_search_budget") \in Route
    BY <2>3, <2>4 DEF Found, Rejected, Route, Reason
  <2> QED
    BY <2>1, <2>5 DEF RouteTyped
<1>5. CASE Exhaust
  <2>1. \/ route' = Rejected("forbidden_turn") \/ route' = Rejected("unknown_restriction")
        \/ route' = Rejected("no_directed_path")
    BY <1>5 DEF Exhaust
  <2>2. /\ Rejected("forbidden_turn") \in Route /\ Rejected("unknown_restriction") \in Route
        /\ Rejected("no_directed_path") \in Route
    BY DEF Rejected, Route, Reason
  <2> QED
    BY <2>1, <2>2 DEF RouteTyped
<1>6. CASE Forget
  BY <1>6 DEF Forget, RouteTyped
<1>7. CASE UNCHANGED <<rules, search>>
  BY <1>7 DEF search, RouteTyped
<1> QED
  BY <1>1, <1>2, <1>3, <1>4, <1>5, <1>6, <1>7 DEF SearchNext, SearchStep

\* The pair in hand names a hypothesis of the beam and a candidate.
LEMMA PairIsValid ==
    ASSUME DecoderInv, InHand
    PROVE  \E i \in 1..Len(beam), c \in 1..Len(Batch) :
             /\ Previous = beam[i] /\ Choice = c /\ (i - 1) * Len(Batch) + c = pair
             /\ beam[i] \in Hypothesis /\ Chooses(beam[i].path, index - 1)
             /\ Current = track[index].candidates[c] /\ c \in DOMAIN track[index].candidates
<1>1. /\ TrackInv /\ BeamFits(beam, index - 1) /\ index - 1 \in 1..Len(track) /\ index \in 1..Len(track)
      /\ pair \in 1..(Len(beam) * Len(Batch)) /\ Len(beam) \in Nat
  <2>1. /\ TrackInv /\ BeamFits(beam, index - 1) /\ index - 1 \in 1..Len(track)
        /\ index <= Len(track) /\ pair \in Nat \ {0} /\ pair <= Len(beam) * Len(Batch)
    BY DEF DecoderInv, BeamInv, InHand, Begun, Pairs
  <2>2. Len(beam) \in Nat
    BY <2>1, LenProperties DEF BeamFits
  <2>3. Len(Batch) \in Nat /\ index \in 1..Len(track)
    BY <2>1, TrackAssumption DEF TrackInv, Batch
  <2>4. Len(beam) * Len(Batch) \in Nat
    BY <2>2, <2>3
  <2> QED
    BY <2>1, <2>2, <2>3, <2>4
<1>2. Len(Batch) \in Nat \ {0} /\ DOMAIN Batch = 1..Len(Batch) /\ Batch = track[index].candidates
  BY <1>1, TrackAssumption DEF TrackInv, Batch
<1> DEFINE i == ((pair - 1) \div Len(Batch)) + 1
           c == ((pair - 1) % Len(Batch)) + 1
<1>3. i \in 1..Len(beam) /\ c \in 1..Len(Batch) /\ (i - 1) * Len(Batch) + c = pair
  BY <1>1, <1>2, PairsAreNumbered
<1>4. Previous = beam[i] /\ Choice = c /\ Current = track[index].candidates[c]
  BY <1>2 DEF Previous, Choice, Current
<1> HIDE DEF i, c
<1>5. beam[i] \in Hypotheses(beam)
  BY <1>1, <1>3, LenProperties DEF BeamFits, Hypotheses
<1>6. beam[i] \in Hypothesis /\ Chooses(beam[i].path, index - 1)
  BY <1>1, <1>5 DEF BeamFits, Kin
<1> QED
  BY <1>2, <1>3, <1>4, <1>6

\* The beam and the track stay what they are while pairs are taken up.
LEMMA BeamStays ==
    ASSUME track' = track, BeamFits(beam', index' - 1)
    PROVE  BeamFits(beam, index - 1)'
<1>1. \A h : IdOf(h)' = IdOf(h) /\ Ids(h.path)' = Ids(h.path)
  BY DEF IdOf, Ids, Chosen
<1>2. \A g, h : (Lexically(g, h)' <=> Lexically(g, h)) /\ (RankedBefore(g, h)' <=> RankedBefore(g, h))
  BY <1>1 DEF Lexically, PathBefore, RankedBefore
<1>3. Hypotheses(beam)' = Hypotheses(beam')
  BY DEF Hypotheses
<1>4. \A path : Chooses(path, index - 1)' <=> Chooses(path, index' - 1)
  BY DEF Chooses
<1>5. Kin(Hypotheses(beam), index - 1)' /\ RanksTell(Hypotheses(beam))'
  BY <1>2, <1>3, <1>4 DEF BeamFits, Kin, RanksTell
<1>6. \A id : Ending(Hypotheses(beam), id)' = Ending(Hypotheses(beam'), id)
  BY <1>1, <1>3 DEF Ending
<1> QED
  BY <1>5, <1>6 DEF BeamFits

\* The pair in hand adds its hypothesis, or none.
LEMMA TakingKeepsInv ==
    ASSUME DecoderInv, InHand, Inv', RouteTyped', NEW score \in Int,
           expanded' \in {expanded, expanded \cup {Continued(score)}},
           pair' = pair + 1, UNCHANGED <<track, index, beam>>
    PROVE  DecoderInv'
<1>1. PICK i \in 1..Len(beam), c \in 1..Len(Batch) :
             /\ Previous = beam[i] /\ Choice = c /\ (i - 1) * Len(Batch) + c = pair
             /\ beam[i] \in Hypothesis /\ Chooses(beam[i].path, index - 1)
             /\ Current = track[index].candidates[c] /\ c \in DOMAIN track[index].candidates
  BY PairIsValid
<1>0. PICK h : h = Continued(score)
  OBVIOUS
<1>2. /\ TrackInv /\ ExpandedInv /\ BeamInv /\ beam # <<>> /\ index <= Len(track) /\ index \in 1..Len(track)
      /\ BeamFits(beam, index - 1) /\ pair \in Nat
  BY DEF DecoderInv, InHand, Begun, BeamInv, TrackInv
<1>3. h.path = Append(beam[i].path, c) /\ h.before = beam[i].rank
  BY <1>0, <1>1 DEF Continued
<1>4. h \in Hypothesis
  <2>1. Current.emission \in Int /\ c \in Nat
    BY <1>1, <1>2, CandidatesTyped
  <2>2. Previous.path \in Seq(Nat) /\ Previous.score \in Int /\ Previous.rank \in Nat
    BY <1>1 DEF Hypothesis
  <2>3. Append(Previous.path, Choice) \in Seq(Nat)
    BY <1>1, <2>1, <2>2, AppendProperties
  <2>4. Previous.score + score + Current.emission \in Int
    BY <2>1, <2>2
  <2> QED
    BY <1>0, <2>2, <2>3, <2>4 DEF Continued, Hypothesis
<1>5. ASSUME NEW g \in expanded, g.path = h.path PROVE FALSE
  <2>1. PICK j \in Nat, d \in Nat : Continues(g, j, d)
    BY <1>2 DEF ExpandedInv
  <2>2. /\ beam[j] \in Hypotheses(beam) /\ beam[i] \in Hypotheses(beam)
        /\ j \in 1..Len(beam) /\ d \in Nat /\ g.path = Append(beam[j].path, d)
    BY <1>2, <2>1, LenProperties DEF Continues, BeamFits, Hypotheses
  <2>3. Hypotheses(beam) \subseteq Hypothesis /\ c \in Nat
    BY <1>2 DEF BeamFits, Kin
  <2> DEFINE p == beam[j].path  q == beam[i].path
  <2>4. p \in Seq(Nat) /\ q \in Seq(Nat)
    BY <2>2, <2>3 DEF Hypothesis
  <2>5. Append(p, d) = Append(q, c)
    BY <1>3, <1>5, <2>2
  <2>6. p = q /\ d = c
    <3> HIDE DEF p, q
    <3> QED
      BY <2>2, <2>3, <2>4, <2>5, AppendInjective
  <2>7. j = i
    BY <1>2, <2>2, <2>6 DEF BeamFits
  <2> QED
    BY <1>1, <1>2, <2>1, <2>6, <2>7 DEF Continues
<1>6. Batch' = Batch
  BY DEF Batch
<1>7. ASSUME NEW g \in expanded' PROVE \E j, d \in Nat : Continues(g, j, d)'
  <2>1. CASE g \in expanded
    <3>1. PICK j \in Nat, d \in Nat : Continues(g, j, d)
      BY <1>2, <2>1 DEF ExpandedInv
    <3>2. (j - 1) * Len(Batch) + d < pair + 1
      BY <1>2, <3>1 DEF Continues
    <3>3. Continues(g, j, d)'
      BY <1>6, <3>1, <3>2 DEF Continues
    <3> QED
      BY <3>3
  <2>2. CASE g = h
    <3>1. pair < pair + 1
      BY <1>2
    <3>2. Continues(h, i, c)'
      BY <1>1, <1>3, <1>6, <3>1 DEF Continues
    <3>3. i \in Nat /\ c \in Nat
      OBVIOUS
    <3> QED
      BY <2>2, <3>2, <3>3
  <2> QED
    BY <1>0, <2>1, <2>2
<1>8. ExpandedInv'
  <2>1. IsFiniteSet(expanded') /\ expanded' \subseteq Hypothesis
    BY <1>0, <1>2, <1>4, FS_AddElement DEF ExpandedInv
  <2>2. \A g, f \in expanded' : g.path = f.path => g = f
    BY <1>0, <1>2, <1>5 DEF ExpandedInv
  <2> QED
    BY <1>2, <1>7, <2>1, <2>2 DEF ExpandedInv
<1>9. BeamInv'
  <2>1. BeamFits(beam, index - 1)'
    BY <1>2, BeamStays
  <2> QED
    BY <1>2, <2>1 DEF BeamInv
<1>10. TrackInv'
  BY <1>2 DEF TrackInv
<1> QED
  BY <1>8, <1>9, <1>10 DEF DecoderInv

\* The two candidates of the pair in hand are candidates of two observations.
LEMMA PairIsTyped ==
    ASSUME DecoderInv, InHand
    PROVE  /\ ~Off(PreviousCandidate) => PointOf(PreviousCandidate) \in Matched
           /\ ~Off(Current) => PointOf(Current) \in Matched
<1>1. TrackInv /\ index - 1 \in 1..Len(track) /\ index \in 1..Len(track)
  BY DEF DecoderInv, InHand, Begun, BeamInv, TrackInv
<1>2. PICK i \in 1..Len(beam), c \in 1..Len(Batch) :
             /\ Previous = beam[i] /\ Chooses(beam[i].path, index - 1)
             /\ Current = track[index].candidates[c] /\ c \in DOMAIN track[index].candidates
  BY PairIsValid
<1>3. ~Off(Current) => PointOf(Current) \in Matched
  BY <1>1, <1>2, CandidatesTyped
<1> DEFINE n == index - 1
           a == Previous.path[n]
<1>4. a \in DOMAIN track[n].candidates
  <2>1. Chooses(Previous.path, n)
    BY <1>2
  <2>2. n \in 1..n
    BY <1>1, TrackAssumption DEF TrackInv
  <2> HIDE DEF n
  <2> QED
    BY <2>1, <2>2 DEF Chooses
<1>5. PreviousCandidate = track[n].candidates[a]
  BY DEF PreviousCandidate, Chosen
<1> HIDE DEF n, a
<1>6. ~Off(PreviousCandidate) => PointOf(PreviousCandidate) \in Matched
  BY <1>1, <1>4, <1>5, CandidatesTyped DEF n
<1> QED
  BY <1>3, <1>6

\* Every step of the decoder is one of the search, as its callers promise, or none.
LEMMA StepsSearch ==
    ASSUME DecoderInv, [Next]_vars
    PROVE  [SearchNext]_<<rules, search>>
<1>1. CASE Start \/ TransitOffMap \/ Prune \/ Fail \/ Finish \/ Returned \/ UNCHANGED vars
  BY <1>1 DEF Start, TransitOffMap, Prune, Fail, Finish, Returned, vars
<1>2. CASE TransitAsk
  <2>1. PointOf(PreviousCandidate) \in Matched /\ PointOf(Current) \in Matched
    BY <1>2, PairIsTyped DEF TransitAsk
  <2>2. Ask(PointOf(PreviousCandidate), PointOf(Current))
    BY <1>2 DEF TransitAsk
  <2> QED
    BY <2>1, <2>2 DEF SearchNext
<1>3. CASE Searches
  BY <1>3 DEF Searches, SearchNext
<1>4. CASE TransitScored
  BY <1>4 DEF TransitScored, SearchNext
<1> QED
  BY <1>1, <1>2, <1>3, <1>4 DEF Next

\* The scores of transitions are numbers.
LEMMA ScoresAreNumbers ==
    ASSUME DecoderInv, InHand
    PROVE  /\ Off(PreviousCandidate) \/ Off(Current) => OffMapScore(PreviousCandidate, Current) \in Int
           /\ route # NoRoute => RouteScore(route, track[index - 1], track[index]) \in Int
<1>1. ASSUME Off(PreviousCandidate) \/ Off(Current)
      PROVE  OffMapScore(PreviousCandidate, Current) \in Int
  <2>1. -StayOffMap \in Int /\ -ExitOffMap \in Int /\ -EnterOffMap \in Int
    BY DecoderAssumption
  <2> QED
    BY <1>1, <2>1 DEF OffMapScore
<1>2. ASSUME route # NoRoute
      PROVE  RouteScore(route, track[index - 1], track[index]) \in Int
  <2>1. index - 1 \in 1..Len(track) /\ index \in 1..Len(track) /\ TrackInv
    BY DEF DecoderInv, InHand, Begun, BeamInv, TrackInv
  <2>2. /\ track[index - 1].x \in Int /\ track[index - 1].speed \in Int
        /\ track[index].x \in Int /\ track[index].speed \in Int
    BY <2>1, TrackAssumption DEF TrackInv
  <2>3. route.dist \in Int /\ route.path \in Seq(Arc)
    BY <1>2 DEF DecoderInv, RouteTyped, Route
  <2>4. Turns(route.path) \in Int /\ Len(route.path) \in Nat
    BY <2>3, LenProperties DEF Turns
  <2>5. UTurns(route.path) \in Int
    <3> DEFINE I == 2..Len(route.path)
               U == { i \in I : /\ Way[route.path[i - 1]] = Way[route.path[i]]
                                /\ Reverse[route.path[i - 1]] # Reverse[route.path[i]] }
    <3>0. IsFiniteSet(I)
      BY <2>4, FS_Interval
    <3>1. IsFiniteSet(I) /\ U \subseteq I
      BY <3>0
    <3>2. UTurns(route.path) = Cardinality(U)
      BY DEF UTurns
    <3> HIDE DEF U, I
    <3>3. Cardinality(U) \in Nat
      BY <3>1, FS_Subset, FS_CardinalityType
    <3> QED
      BY <3>2, <3>3
  <2> DEFINE a == track[index - 1]  b == track[index]
  <2>6. /\ TurnPenalty * Turns(route.path) \in Int /\ UTurnPenalty * UTurns(route.path) \in Int
    BY <2>4, <2>5, DecoderAssumption
  <2>7. Abs(route.dist - Abs(b.x - a.x)) \in Int
    BY <2>2, <2>3 DEF Abs
  <2>8. Larger(0, route.dist - Larger(a.speed, b.speed) - SpeedAllowance) \in Int
    <3>1. Larger(a.speed, b.speed) \in Int /\ SpeedAllowance \in Int
      BY <2>2, DecoderAssumption DEF Larger
    <3>2. route.dist - Larger(a.speed, b.speed) - SpeedAllowance \in Int
      BY <2>3, <3>1
    <3> HIDE DEF a, b
    <3> QED
      BY <3>2 DEF Larger
  <2>9. SpeedPenalty * Larger(0, route.dist - Larger(a.speed, b.speed) - SpeedAllowance) \in Int
    BY <2>8, DecoderAssumption
  <2> QED
    BY <2>6, <2>7, <2>9 DEF RouteScore
<1> QED
  BY <1>1, <1>2

\* The initial states.
LEMMA DecoderStarts == Init => DecoderInv
<1> SUFFICES ASSUME Init PROVE DecoderInv
  OBVIOUS
<1>1. Inv /\ RouteTyped
  BY InitEstablishesInv DEF Init, SearchInit, RouteTyped
<1>2. TrackInv
  BY TrackAssumption DEF Init, TrackInv
<1>3. BeamInv /\ ExpandedInv
  BY FS_EmptySet DEF Init, BeamInv, ExpandedInv
<1> QED
  BY <1>1, <1>2, <1>3 DEF DecoderInv

\* The first beam.
LEMMA StartKeepsInv ==
    ASSUME DecoderInv, Start, Inv', RouteTyped'
    PROVE  DecoderInv'
<1> DEFINE K == FirstOf(FirstHypotheses, BeamWidth)
<1>1. /\ TrackInv /\ beam = <<>> /\ index = 1 /\ expanded = {}
      /\ index' = 2 /\ pair' = 1 /\ track' = track /\ expanded' = expanded /\ beam' = Ordered(K)
  BY DEF DecoderInv, BeamInv, ExpandedInv, Start
<1>2. 1 \in 1..Len(track) /\ Len(track) \in Nat
  BY <1>1, TrackAssumption DEF TrackInv
<1>3. Kin(FirstHypotheses, 1) /\ RanksTell(FirstHypotheses) /\ FirstHypotheses # {}
  BY <1>1, FirstAreKin
<1>4. K \subseteq FirstHypotheses /\ Cardinality(K) <= BeamWidth /\ K # {}
  BY <1>1, <1>2, <1>3, FirstAreFew, DecoderAssumption
<1>5. Kin(K, 1) /\ RanksTell(K)
  BY <1>3, <1>4, PartsAreKin
<1> HIDE DEF K
<1>6. ASSUME NEW id PROVE Cardinality(Ending(K, id)) <= PerTerminal
  <2>1. \A g, h \in Ending(K, id) : g = h
    <3> SUFFICES ASSUME NEW g \in Ending(K, id), NEW h \in Ending(K, id) PROVE g = h
      OBVIOUS
    <3>1. /\ g \in K /\ h \in K /\ IdOf(g) = id /\ IdOf(h) = id
          /\ Chooses(g.path, 1) /\ Chooses(h.path, 1)
      BY <1>5 DEF Ending, Kin
    <3>2. Ids(g.path) \in [1..1 -> Int] /\ Ids(h.path) \in [1..1 -> Int]
          /\ (Ids(g.path) = Ids(h.path) => g.path = h.path)
      BY <1>1, <1>2, <3>1, IdsTell
    <3>3. Ids(g.path)[1] = id /\ Ids(h.path)[1] = id
      <4>1. DOMAIN g.path = 1..1 /\ DOMAIN h.path = 1..1
        BY <3>1, LenProperties DEF Chooses
      <4> QED
        BY <3>1, <4>1 DEF Ids, IdOf, Chooses
    <3>4. Ids(g.path) = Ids(h.path)
      BY <3>2, <3>3
    <3> QED
      BY <1>5, <3>1, <3>2, <3>4 DEF Kin
  <2>2. IsFiniteSet(Ending(K, id))
    BY <1>5, FS_Subset DEF Ending, Kin
  <2>3. Cardinality(Ending(K, id)) \in Nat /\ Cardinality(Ending(K, id)) <= 1
    <3>1. CASE Ending(K, id) = {}
      BY <3>1, FS_EmptySet
    <3>2. CASE Ending(K, id) # {}
      <4>1. PICK h : Ending(K, id) = {h}
        BY <2>1, <3>2
      <4> QED
        BY <4>1, FS_Singleton
    <3> QED
      BY <3>1, <3>2
  <2> QED
    BY <2>3, DecoderAssumption
<1>7. BeamFits(beam', 1)
  BY <1>1, <1>2, <1>4, <1>5, <1>6, BeamIsMade
<1>8. BeamFits(beam, index - 1)'
  BY <1>1, <1>7, BeamStays
<1>9. BeamInv'
  <2>1. index' - 1 \in 1..Len(track') /\ pair' \in Nat \ {0}
    BY <1>1, <1>2
  <2>2. beam' # <<>>
    BY <1>7 DEF BeamFits
  <2> QED
    BY <1>8, <2>1, <2>2 DEF BeamInv
<1>10. TrackInv' /\ ExpandedInv'
  BY <1>1, <1>2, FS_EmptySet DEF TrackInv, ExpandedInv
<1> QED
  BY <1>9, <1>10 DEF DecoderInv

\* The beam for the next observation.
LEMMA PruneKeepsInv ==
    ASSUME DecoderInv, Prune, Inv', RouteTyped'
    PROVE  DecoderInv'
<1>1. /\ TrackInv /\ beam # <<>> /\ index \in 1..Len(track) /\ Len(track) \in Nat /\ expanded # {}
      /\ index' = index + 1 /\ pair' = 1 /\ track' = track /\ expanded' = {}
      /\ beam' = Ordered(Ranked(FirstOf(NearBest(TerminalPruned(Ranked(expanded))), BeamWidth)))
  BY TrackAssumption DEF DecoderInv, TrackInv, Prune, Begun
<1>2. Kin(expanded, index)
  BY <1>1, ExpandedAreKin
<1>3. BeamFits(beam', index)
  BY <1>1, <1>2, PruningFits
<1>4. index' - 1 = index /\ index' - 1 \in 1..Len(track') /\ pair' \in Nat \ {0}
  BY <1>1
<1>5. BeamInv'
  <2>1. BeamFits(beam, index - 1)'
    BY <1>1, <1>3, <1>4, BeamStays
  <2>2. beam' # <<>>
    BY <1>3 DEF BeamFits
  <2> QED
    BY <1>4, <2>1, <2>2 DEF BeamInv
<1>6. TrackInv' /\ ExpandedInv'
  BY <1>1, FS_EmptySet DEF TrackInv, ExpandedInv
<1> QED
  BY <1>5, <1>6 DEF DecoderInv

\* A step that leaves the decoder's own state alone.
LEMMA OthersKeepInv ==
    ASSUME DecoderInv, UNCHANGED <<track, index, beam, expanded, pair>>, Inv', RouteTyped'
    PROVE  DecoderInv'
<1>1. TrackInv' /\ ExpandedInv'
  BY DEF DecoderInv, TrackInv, ExpandedInv, Continues, Batch
<1>2. BeamInv'
  BY BeamStays DEF DecoderInv, BeamInv
<1> QED
  BY <1>1, <1>2 DEF DecoderInv

\* One step of the decoder.
LEMMA DecoderKeepsInv == DecoderInv /\ [Next]_vars => DecoderInv'
<1> SUFFICES ASSUME DecoderInv, [Next]_vars PROVE DecoderInv'
  OBVIOUS
<1>1. Inv' /\ RouteTyped'
  BY StepsSearch, StepKeepsInv, ResultsAreTyped DEF DecoderInv
<1>2. CASE Start
  BY <1>1, <1>2, StartKeepsInv
<1>3. CASE TransitOffMap
  <2>1. OffMapScore(PreviousCandidate, Current) \in Int
    BY <1>3, ScoresAreNumbers DEF TransitOffMap
  <2> QED
    BY <1>1, <1>3, <2>1, TakingKeepsInv DEF TransitOffMap
<1>4. CASE TransitScored
  <2>1. RouteScore(route, track[index - 1], track[index]) \in Int
    BY <1>4, ScoresAreNumbers DEF TransitScored, Forget
  <2> QED
    BY <1>1, <1>4, <2>1, TakingKeepsInv DEF TransitScored
<1>5. CASE Prune
  BY <1>1, <1>5, PruneKeepsInv
<1>6. CASE TransitAsk \/ Searches \/ Fail \/ Finish \/ Returned \/ UNCHANGED vars
  <2>1. UNCHANGED <<track, index, beam, expanded, pair>>
    BY <1>6 DEF TransitAsk, Searches, Fail, Finish, Returned, vars
  <2> QED
    BY <1>1, <2>1, OthersKeepInv
<1> QED
  BY <1>2, <1>3, <1>4, <1>5, <1>6 DEF Next

\* The invariant of the decoder in every reachable state.
THEOREM DecoderInvHolds == Spec => []DecoderInv
<1> QED
  BY DecoderStarts, DecoderKeepsInv, PTL DEF Spec

\* The decoder calls the search as it may be called: between two matched points,
\* one call after the other, each with locals of its own (road_matching.cpp, 796-801
\* and 960-972); so that whatever is proved of SearchSpec holds of its searches.
THEOREM SearchIsImplemented == Spec => ImplementsSearch
<1>1. Init => SearchInit
  BY DEF Init
<1>2. DecoderInv /\ [Next]_vars => [SearchNext]_<<rules, search>>
  BY StepsSearch
<1> QED
  BY <1>1, <1>2, DecoderInvHolds, PTL DEF Spec, ImplementsSearch, SearchSpec

\* Every transition that is scored takes a legal route, found without expanding a
\* state twice: what route() promises holds in every call of the decoder.
THEOREM TransitionsAreLegal == Spec => []SearchIsSound
<1>1. DecoderInv => SearchIsSound
  BY DEF DecoderInv, Inv, SearchIsSound, StatesCountOnce
<1> QED
  BY <1>1, DecoderInvHolds, PTL

\* Every transition is scored with the answer of an exhaustive search: the least legal
\* route within the distance budget, or the reason for which there is none
\* (route, road_matching.cpp 402-517, as decode_candidate_batches calls it).
THEOREM TransitionsAreExact == Spec => []AnswersAreExact
BY SearchIsImplemented, AnswersHold, PTL DEF ImplementsSearch

\* After every pruning the beam is within its width, no candidate ends more of its
\* hypotheses than hypotheses_per_terminal_candidate, and the ranks, which look only
\* at the previous rank and the last candidate, order the hypotheses as their whole
\* sequences of identities do (decode_candidate_batches, 590-610 and 919-1024).
THEOREM BeamStaysSound == Spec => []BeamIsSound
<1>1. DecoderInv => BeamIsSound
  <2> SUFFICES ASSUME DecoderInv PROVE BeamIsSound
    OBVIOUS
  <2>1. SearchTypes /\ BeamInv /\ expanded \subseteq Hypothesis
    BY DEF DecoderInv, Inv, ExpandedInv
  <2>2. CASE beam = <<>>
    <3>1. Hypotheses(beam) = {} /\ Len(beam) = 0
      BY <2>2 DEF Hypotheses
    <3>2. \A h \in expanded : h.path \in Seq(Nat) /\ h.score \in Int
      BY <2>1 DEF Hypothesis
    <3> QED
      BY <2>1, <3>1, <3>2, DecoderAssumption DEF BeamIsSound, TypeOK, RanksAreLexicographic
  <2>3. CASE beam # <<>>
    <3>1. BeamFits(beam, index - 1)
      BY <2>1, <2>3 DEF BeamInv
    <3>2. \A h \in Hypotheses(beam) \cup expanded : h.path \in Seq(Nat) /\ h.score \in Int
      BY <2>1, <3>1 DEF BeamFits, Kin, Hypothesis
    <3>3. \A h \in Hypotheses(beam) :
            { g \in Hypotheses(beam) : IdOf(g) = IdOf(h) } = Ending(Hypotheses(beam), IdOf(h))
      BY DEF Ending
    <3>4. TypeOK
      BY <2>1, <3>1, <3>2, <3>3 DEF BeamFits, TypeOK
    <3>5. RanksAreLexicographic
      BY <3>1 DEF BeamFits, RanksTell, Lexically, RanksAreLexicographic
    <3> QED
      BY <3>4, <3>5 DEF BeamIsSound
  <2> QED
    BY <2>2, <2>3
<1> QED
  BY <1>1, DecoderInvHolds, PTL

\* Every transition the decoder scores stands on such a search, whichever candidates
\* it pairs and in whatever order the beam asks (decode_candidate_batches,
\* road_matching.cpp 960-972).
THEOREM TransitionsSearchExactly == Spec => []SearchIsExact
<1>1. SearchIsSound /\ AnswersAreExact => SearchIsExact
  BY DEF SearchIsExact
<1> QED
  BY <1>1, TransitionsAreLegal, TransitionsAreExact, PTL
=============================================================================
