-------------------------- MODULE TrajectoryProofs --------------------------
(***************************************************************************)
(* Proofs about ReferenceTrajectory and TrajectoryIntegrity for every      *)
(* recording, all registered cases and controls, and every valid gate: a   *)
(* query is answered from its own segment, jumps are paired once, and the  *)
(* failures and events of a report are localised, separate and complete.   *)
(***************************************************************************)
EXTENDS TrajectoryIntegrity, FiniteSetTheorems, WellFoundedInduction, TLAPS

(***************************************************************************)
(* Least and greatest elements.                                            *)
(***************************************************************************)

\* Naturals that are not empty have a least one.
LEMMA LeastNatural ==
    ASSUME NEW T \in SUBSET Nat, T # {}
    PROVE  \E n \in T : \A m \in T : n <= m
<1>1. PICK n \in T : \A m \in T : ~(<<m, n>> \in OpToRel(<, Nat))
  BY NatLessThanWellFounded, WFMin
<1>2. \A m \in T : ~(m < n)
  BY <1>1 DEF OpToRel
<1> QED
  BY <1>2

\* Min and Max of integers in an interval.
LEMMA Extremes ==
    ASSUME NEW a \in Int, NEW b \in Int, NEW S \in SUBSET (a..b), S # {}
    PROVE  /\ Min(S) \in S /\ \A x \in S : Min(S) <= x
           /\ Max(S) \in S /\ \A x \in S : x <= Max(S)
<1>1. \E m \in S : \A x \in S : m <= x
  <2> DEFINE T == { x - a : x \in S }
  <2>1. T \in SUBSET Nat /\ T # {}
    OBVIOUS
  <2>2. PICK n \in T : \A x \in T : n <= x
    BY <2>1, LeastNatural
  <2>3. PICK m \in S : n = m - a
    BY <2>2
  <2>4. \A x \in S : n <= x - a
    BY <2>2
  <2> QED
    BY <2>3, <2>4
<1>2. \E m \in S : \A x \in S : m >= x
  <2> DEFINE T == { b - x : x \in S }
  <2>1. T \in SUBSET Nat /\ T # {}
    <3>1. \A x \in S : b - x \in Nat
      OBVIOUS
    <3>2. PICK x \in S : TRUE
      OBVIOUS
    <3> QED
      BY <3>1, <3>2
  <2>2. PICK n \in T : \A x \in T : n <= x
    BY <2>1, LeastNatural
  <2>3. PICK m \in S : n = b - m
    BY <2>2
  <2>4. \A x \in S : n <= b - x
    BY <2>2
  <2> QED
    BY <2>3, <2>4
<1> QED
  BY <1>1, <1>2 DEF Min, Max

\* Min and Max of two integers.
LEMMA ExtremesOfTwo ==
    ASSUME NEW a \in Int, NEW b \in Int
    PROVE  /\ Min({a, b}) = IF a <= b THEN a ELSE b
           /\ Max({a, b}) = IF a <= b THEN b ELSE a
BY DEF Min, Max

(***************************************************************************)
(* Recordings a continuous trajectory accepts.                             *)
(***************************************************************************)

\* Times that increase from sample to sample increase.
LEMMA TimesIncreaseBySteps ==
    ASSUME NEW s \in Seq(ReferenceSample), \A i \in 1..(Len(s) - 1) : s[i].t < s[i + 1].t
    PROVE  \A i, j \in 1..Len(s) : i < j => s[i].t < s[j].t
<1>1. Len(s) \in Nat /\ \A i \in 1..Len(s) : s[i].t \in Int
  <2>1. \A i \in 1..Len(s) : s[i] \in ReferenceSample
    OBVIOUS
  <2> QED
    BY <2>1 DEF ReferenceSample
<1>2. \A i \in 1..(Len(s) - 1) : s[i].t < s[i + 1].t
  OBVIOUS
<1> SUFFICES ASSUME NEW i \in 1..Len(s),
                    { j \in 1..Len(s) : i < j /\ ~(s[i].t < s[j].t) } # {}
             PROVE  FALSE
  BY <1>1
<1> DEFINE T == { j \in 1..Len(s) : i < j /\ ~(s[i].t < s[j].t) }
<1>3. T \in SUBSET Nat /\ T # {}
  OBVIOUS
<1>4. PICK j \in T : \A k \in T : j <= k
  BY <1>3, LeastNatural
<1>5. j - 1 \in 1..(Len(s) - 1) /\ j - 1 \notin T /\ j - 1 + 1 = j
  BY <1>1, <1>4
<1>6. s[j - 1].t < s[j].t
  BY <1>2, <1>5
<1>7. CASE j - 1 = i
  BY <1>4, <1>6, <1>7
<1>8. CASE j - 1 > i
  BY <1>1, <1>4, <1>5, <1>6, <1>8
<1> QED
  BY <1>4, <1>7, <1>8

\* A sample in a continuous trajectory comes after those before it.
LEMMA TimesIncrease ==
    ASSUME NEW s \in Seq(ReferenceSample), Continuous(s)
    PROVE  \A i, j \in 1..Len(s) : i < j => s[i].t < s[j].t
BY TimesIncreaseBySteps DEF Continuous

(***************************************************************************)
(* Segments.                                                               *)
(***************************************************************************)

\* A maximal run a..b of samples without a gap.
IsSegment(s, a, b) ==
    /\ a \in 1..Len(s) /\ b \in 1..Len(s) /\ a <= b
    /\ \A k \in a..(b - 1) : ~GapAfter(s, k)
    /\ a = 1 \/ GapAfter(s, a - 1)
    /\ b = Len(s) \/ GapAfter(s, b)

\* The segment computed for a sample is one, and holds the sample.
LEMMA SegmentIs ==
    ASSUME NEW s, Len(s) \in Nat, NEW i \in 1..Len(s)
    PROVE  \E a, b \in 1..Len(s) : /\ SegmentWith(s, i) = <<a, b>> /\ a <= i /\ i <= b
                                   /\ IsSegment(s, a, b)
<1> DEFINE A == {1} \cup { k + 1 : k \in { j \in 1..(i - 1) : GapAfter(s, j) } }
           B == {Len(s)} \cup { k \in i..(Len(s) - 1) : GapAfter(s, k) }
<1>1. A \in SUBSET (1..i) /\ A # {} /\ B \in SUBSET (i..Len(s)) /\ B # {}
  OBVIOUS
<1> HIDE DEF A, B
<1>2. PICK a : a = Max(A)
  OBVIOUS
<1>3. PICK b : b = Min(B)
  OBVIOUS
<1>4. a \in A /\ \A x \in A : x <= a
  <2>1. 1 \in Int /\ i \in Int
    OBVIOUS
  <2>2. Max(A) \in A /\ \A x \in A : x <= Max(A)
    BY <1>1, <2>1, Extremes
  <2> QED
    BY <1>2, <2>2
<1>5. b \in B /\ \A x \in B : b <= x
  <2>1. Len(s) \in Int /\ i \in Int
    OBVIOUS
  <2>2. Min(B) \in B /\ \A x \in B : Min(B) <= x
    BY <1>1, <2>1, Extremes
  <2> QED
    BY <1>3, <2>2
<1>6. a \in 1..i /\ b \in i..Len(s)
  BY <1>1, <1>4, <1>5
<1>7. a = 1 \/ GapAfter(s, a - 1)
  BY <1>4 DEF A
<1>8. b = Len(s) \/ GapAfter(s, b)
  BY <1>5 DEF B
<1>9. ASSUME NEW k \in a..(b - 1), GapAfter(s, k)
      PROVE  FALSE
  <2>1. CASE k < i
    <3>1. k + 1 \in A
      BY <1>6, <1>9, <2>1 DEF A
    <3> QED
      BY <1>4, <1>6, <3>1
  <2>2. CASE k >= i
    <3>1. k \in B
      BY <1>6, <1>9, <2>2 DEF B
    <3> QED
      BY <1>5, <1>6, <3>1
  <2> QED
    BY <1>6, <2>1, <2>2
<1>10. SegmentWith(s, i) = <<a, b>>
  BY <1>2, <1>3 DEF SegmentWith, A, B
<1> QED
  BY <1>6, <1>7, <1>8, <1>9, <1>10 DEF IsSegment

\* Two segments that share a sample are the same.
LEMMA SegmentsAreDisjoint ==
    ASSUME NEW s, Len(s) \in Nat, NEW a, NEW b, NEW c, NEW d, NEW i \in 1..Len(s),
           IsSegment(s, a, b), a <= i, i <= b, IsSegment(s, c, d), c <= i, i <= d
    PROVE  a = c /\ b = d
<1>1. /\ a \in 1..Len(s) /\ b \in 1..Len(s) /\ c \in 1..Len(s) /\ d \in 1..Len(s)
      /\ \A k \in a..(b - 1) : ~GapAfter(s, k)
      /\ \A k \in c..(d - 1) : ~GapAfter(s, k)
  BY DEF IsSegment
<1>2. ~(a < c)
  <2> SUFFICES ASSUME a < c PROVE FALSE
    OBVIOUS
  <2>1. c - 1 \in a..(b - 1) /\ c # 1
    BY <1>1
  <2> QED
    BY <1>1, <2>1 DEF IsSegment
<1>3. ~(c < a)
  <2> SUFFICES ASSUME c < a PROVE FALSE
    OBVIOUS
  <2>1. a - 1 \in c..(d - 1) /\ a # 1
    BY <1>1
  <2> QED
    BY <1>1, <2>1 DEF IsSegment
<1>4. ~(b < d)
  <2> SUFFICES ASSUME b < d PROVE FALSE
    OBVIOUS
  <2>1. b \in c..(d - 1) /\ b # Len(s)
    BY <1>1, c <= i, i <= b
  <2> QED
    BY <1>1, <2>1 DEF IsSegment
<1>5. ~(d < b)
  <2> SUFFICES ASSUME d < b PROVE FALSE
    OBVIOUS
  <2>1. d \in a..(b - 1) /\ d # Len(s)
    BY <1>1
  <2> QED
    BY <1>1, <2>1 DEF IsSegment
<1> QED
  BY <1>1, <1>2, <1>3, <1>4, <1>5

\* What Segments holds.
LEMMA SegmentsAre ==
    ASSUME NEW s \in Seq(ReferenceSample), NEW seg \in Segments(s)
    PROVE  /\ seg = <<seg[1], seg[2]>> /\ IsSegment(s, seg[1], seg[2])
           /\ \A i \in seg[1]..seg[2] : i \in 1..Len(s) /\ SegmentWith(s, i) = seg
<1>1. Len(s) \in Nat /\ DOMAIN s = 1..Len(s)
  OBVIOUS
<1>2. PICK j \in 1..Len(s) : seg = SegmentWith(s, j)
  BY <1>1 DEF Segments
<1>3. PICK a, b \in 1..Len(s) : seg = <<a, b>> /\ IsSegment(s, a, b)
  BY <1>1, <1>2, SegmentIs
<1>4. ASSUME NEW i \in a..b
      PROVE  SegmentWith(s, i) = <<a, b>>
  <2>1. i \in 1..Len(s) /\ a <= i /\ i <= b
    BY <1>1
  <2>2. PICK c, d \in 1..Len(s) : SegmentWith(s, i) = <<c, d>> /\ c <= i /\ i <= d /\ IsSegment(s, c, d)
    BY <1>1, <2>1, SegmentIs
  <2>3. IsSegment(s, a, b) /\ IsSegment(s, c, d)
    BY <1>3, <2>2
  <2>4. a = c /\ b = d
    BY <1>1, <2>1, <2>2, <2>3, SegmentsAreDisjoint
  <2> QED
    BY <2>2, <2>4
<1> QED
  BY <1>1, <1>3, <1>4

\* The times of a continuous recording, and the gate's constants.
LEMMA Numbers ==
    ASSUME NEW s \in Seq(ReferenceSample), Continuous(s)
    PROVE  /\ Len(s) \in Nat /\ Len(s) >= 4 /\ DOMAIN s = 1..Len(s)
           /\ \A i \in 1..Len(s) : s[i].t \in Int
           /\ TrajectoryGate.half \in Nat /\ TrajectoryGate.half >= 2
           /\ TrajectoryGate.gap \in Nat /\ TrajectoryGate.gap >= 1
           /\ TrajectoryGate.degree = 3 /\ TrajectoryGate.exclusion \in Nat
<1>1. \A i \in 1..Len(s) : s[i] \in ReferenceSample
  OBVIOUS
<1>2. \A i \in 1..Len(s) : s[i].t \in Int
  BY <1>1 DEF ReferenceSample
<1>3. /\ TrajectoryGate.half \in Nat \ {0, 1} /\ TrajectoryGate.gap \in Nat \ {0}
      /\ TrajectoryGate.degree = 3 /\ TrajectoryGate.exclusion \in Nat
  BY TrajectoryGateAssumption DEF ValidTrajectoryGate
<1>4. Len(s) \in Nat /\ DOMAIN s = 1..Len(s)
  OBVIOUS
<1>5. Len(s) > 3
  BY <1>3 DEF Continuous
<1> QED
  BY <1>2, <1>3, <1>4, <1>5

(***************************************************************************)
(* The window of a query.                                                  *)
(***************************************************************************)

\* Where _window starts and ends for the insertion point n of the segment a..b.
Placed(a, b, n, h, w) ==
    \E start, end, first \in Int :
        /\ Max({a, n - h}) = start /\ Min({b + 1, start + w}) = end
        /\ Max({a, end - w}) = first
        /\ a <= first /\ first <= n /\ n <= end - 1 /\ end - 1 <= b
        /\ n > a => first <= n - 1
        /\ end - first = IF w <= b - a + 1 THEN w ELSE b - a + 1

\* The arithmetic of _window.
LEMMA WindowArithmetic ==
    ASSUME NEW a \in Int, NEW b \in Int, NEW n \in Int, NEW h \in Int, NEW w \in Int,
           a <= n, n <= b, h >= 2, w = 2 * h + 1
    PROVE  Placed(a, b, n, h, w)
<1> DEFINE ahead == n - h
<1>1. ahead \in Int
  OBVIOUS
<1>2. PICK start : start = IF a <= ahead THEN ahead ELSE a
  OBVIOUS
<1>3. start \in Int
  BY <1>1, <1>2
<1>4. PICK far : far = start + w
  OBVIOUS
<1>5. PICK past : past = b + 1
  OBVIOUS
<1>6. far \in Int /\ past \in Int
  BY <1>3, <1>4, <1>5
<1>7. PICK end : end = IF past <= far THEN past ELSE far
  OBVIOUS
<1>8. end \in Int
  BY <1>6, <1>7
<1>9. PICK back : back = end - w
  OBVIOUS
<1>10. back \in Int
  BY <1>8, <1>9
<1>11. PICK first : first = IF a <= back THEN back ELSE a
  OBVIOUS
<1>12. first \in Int
  BY <1>10, <1>11
<1>13. Max({a, ahead}) = start
  BY <1>1, <1>2, ExtremesOfTwo
<1>14. Min({past, far}) = end
  BY <1>6, <1>7, ExtremesOfTwo
<1>15. Max({a, back}) = first
  BY <1>10, <1>11, ExtremesOfTwo
<1>16. /\ a <= first /\ first <= n /\ n <= end - 1 /\ end - 1 <= b
       /\ n > a => first <= n - 1
       /\ end - first = IF w <= b - a + 1 THEN w ELSE b - a + 1
  BY <1>1, <1>2, <1>3, <1>4, <1>5, <1>6, <1>7, <1>8, <1>9, <1>10, <1>11, <1>12
<1>17. Max({a, n - h}) = start
  BY <1>13
<1>18. Min({b + 1, start + w}) = end
  BY <1>4, <1>5, <1>14
<1>19. Max({a, end - w}) = first
  BY <1>9, <1>15
<1> QED
  BY <1>3, <1>8, <1>12, <1>16, <1>17, <1>18, <1>19 DEF Placed

\* _window: within the segment, as wide as it can be, with the time inside.
LEMMA WindowHolds ==
    ASSUME NEW s \in Seq(ReferenceSample), Continuous(s), NEW a, NEW b, IsSegment(s, a, b),
           NEW time \in Int, s[a].t <= time, time <= s[b].t
    PROVE  \E first, last \in Int :
             /\ Window(s, <<a, b>>, time) = first..last
             /\ a <= first /\ first <= last /\ last <= b
             /\ last - first + 1 = IF Width <= b - a + 1 THEN Width ELSE b - a + 1
             /\ s[first].t <= time /\ time <= s[last].t
<1>1. /\ a \in 1..Len(s) /\ b \in 1..Len(s) /\ a <= b
  BY DEF IsSegment
<1>2. PICK h \in Nat : h = TrajectoryGate.half /\ h >= 2
  BY Numbers
<1>20. PICK w \in Int : w = Width /\ w = 2 * h + 1
  BY <1>2 DEF Width
<1> DEFINE I == { i \in a..b : s[i].t >= time } \cup {b + 1}
<1>3. I \in SUBSET (a..(b + 1)) /\ I # {} /\ b \in I
  BY <1>1, Numbers
<1> HIDE DEF I
<1>4. PICK n : n = Min(I)
  OBVIOUS
<1>5. n \in I /\ \A x \in I : n <= x
  <2>1. a \in Int /\ b + 1 \in Int
    BY <1>1
  <2>2. Min(I) \in I /\ \A x \in I : Min(I) <= x
    BY <1>3, <2>1, Extremes
  <2> QED
    BY <1>4, <2>2
<1>6. n \in a..b /\ s[n].t >= time
  <2>1. n <= b /\ n \in a..(b + 1)
    BY <1>3, <1>5
  <2> QED
    BY <1>1, <1>5, <2>1 DEF I
<1>7. n > a => s[n - 1].t < time
  <2> SUFFICES ASSUME n > a, ~(s[n - 1].t < time) PROVE FALSE
    OBVIOUS
  <2>1. n - 1 \in a..b /\ n - 1 \in 1..Len(s)
    BY <1>1, <1>6
  <2>2. s[n - 1].t >= time
    BY <2>1, Numbers
  <2>3. n - 1 \in I
    BY <2>1, <2>2 DEF I
  <2> QED
    BY <1>5, <1>6, <2>3
<1>8. Insertion(s, <<a, b>>, time) = n
  BY <1>4 DEF Insertion, I
<1>9. a \in Int /\ b \in Int /\ n \in Int /\ h \in Int /\ a <= n /\ n <= b
  BY <1>1, <1>2, <1>6
<1>22. Placed(a, b, n, h, w)
  BY <1>2, <1>9, <1>20, WindowArithmetic
<1>10. PICK start, end, first \in Int :
             /\ Max({a, n - h}) = start /\ Min({b + 1, start + w}) = end
             /\ Max({a, end - w}) = first
             /\ a <= first /\ first <= n /\ n <= end - 1 /\ end - 1 <= b
             /\ n > a => first <= n - 1
             /\ end - first = IF w <= b - a + 1 THEN w ELSE b - a + 1
  BY <1>22 DEF Placed
<1>12. Window(s, <<a, b>>, time) = first..(end - 1)
  BY <1>2, <1>8, <1>10, <1>20 DEF Window
<1>16. time <= s[end - 1].t
  <2>1. n \in 1..Len(s) /\ end - 1 \in 1..Len(s)
    BY <1>1, <1>9, <1>10
  <2>2. n = end - 1 \/ s[n].t < s[end - 1].t
    BY <1>10, <2>1, TimesIncrease
  <2>3. s[n].t \in Int /\ s[end - 1].t \in Int
    BY <2>1, Numbers
  <2> QED
    BY <1>6, <2>2, <2>3
<1>17. s[first].t <= time
  <2>1. CASE n = a
    BY <1>10, <2>1, <1>9
  <2>2. CASE n > a
    <3>1. n - 1 \in 1..Len(s) /\ first \in 1..Len(s)
      BY <1>1, <1>9, <1>10, <2>2
    <3>2. first = n - 1 \/ s[first].t < s[n - 1].t
      BY <1>10, <2>2, <3>1, TimesIncrease
    <3>3. s[first].t \in Int /\ s[n - 1].t \in Int
      BY <3>1, Numbers
    <3> QED
      BY <1>7, <2>2, <3>2, <3>3
  <2> QED
    BY <1>9, <2>1, <2>2
<1>18. PICK last \in Int : last = end - 1
  OBVIOUS
<1>19. last - first + 1 = IF Width <= b - a + 1 THEN Width ELSE b - a + 1
  BY <1>10, <1>18, <1>20
<1>21. /\ Window(s, <<a, b>>, time) = first..last
       /\ a <= first /\ first <= last /\ last <= b
  BY <1>9, <1>10, <1>12, <1>18
<1> QED
  BY <1>10, <1>16, <1>17, <1>18, <1>19, <1>21

(***************************************************************************)
(* Support.                                                                *)
(***************************************************************************)

\* The times of a segment's ends are within the recording.
LEMMA SegmentTimes ==
    ASSUME NEW s \in Seq(ReferenceSample), Continuous(s), NEW a, NEW b, IsSegment(s, a, b)
    PROVE  /\ a \in 1..Len(s) /\ b \in 1..Len(s) /\ a <= b
           /\ \A i \in a..b : i \in 1..Len(s) /\ s[a].t <= s[i].t /\ s[i].t <= s[b].t
           /\ s[1].t <= s[a].t /\ s[b].t <= s[Len(s)].t
<1>1. a \in 1..Len(s) /\ b \in 1..Len(s) /\ a <= b
  BY DEF IsSegment
<1>2. ASSUME NEW i \in 1..Len(s), NEW j \in 1..Len(s), i <= j
      PROVE  s[i].t <= s[j].t
  <2>1. i = j \/ s[i].t < s[j].t
    BY <1>2, TimesIncrease
  <2>2. s[i].t \in Int /\ s[j].t \in Int
    BY Numbers
  <2> QED
    BY <2>1, <2>2
<1>3. Len(s) \in Nat /\ 1 \in 1..Len(s) /\ Len(s) \in 1..Len(s)
  BY Numbers
<1>4. s[1].t <= s[a].t
  BY <1>1, <1>2, <1>3
<1>5. s[b].t <= s[Len(s)].t
  BY <1>1, <1>2, <1>3
<1>6. ASSUME NEW i \in a..b
      PROVE  i \in 1..Len(s) /\ s[a].t <= s[i].t /\ s[i].t <= s[b].t
  <2>1. i \in 1..Len(s) /\ a <= i /\ i <= b
    BY <1>1
  <2> QED
    BY <1>1, <1>2, <2>1
<1> QED
  BY <1>1, <1>4, <1>5, <1>6

\* _segment_for: a supported time is covered by segments that can be fitted.
LEMMA SupportedIsCovered ==
    ASSUME NEW s, NEW time, Support(s, time) = "SUPPORTED"
    PROVE  Covering(s, time) # {} /\ \A seg \in Covering(s, time) : Fittable(seg)
BY DEF Support

\* ... and a time that is covered by segments that can be fitted is supported.
LEMMA CoveredIsSupported ==
    ASSUME NEW s \in Seq(ReferenceSample), Continuous(s), NEW time \in Int, NEW seg \in Covering(s, time),
           \A g \in Covering(s, time) : Fittable(g)
    PROVE  Support(s, time) = "SUPPORTED"
<1>1. seg \in Segments(s) /\ s[seg[1]].t <= time /\ time <= s[seg[2]].t
  BY DEF Covering
<1>2. IsSegment(s, seg[1], seg[2])
  BY <1>1, SegmentsAre
<1>3. PICK a, b \in 1..Len(s) : a = seg[1] /\ b = seg[2]
  BY <1>2 DEF IsSegment
<1>4. s[1].t <= s[a].t /\ s[b].t <= s[Len(s)].t
  BY <1>2, <1>3, SegmentTimes
<1>5. /\ s[1].t \in Int /\ s[a].t \in Int /\ s[b].t \in Int /\ s[Len(s)].t \in Int
  <2>1. 1 \in 1..Len(s) /\ Len(s) \in 1..Len(s)
    BY Numbers
  <2> QED
    BY <1>3, <2>1, Numbers
<1>6. ~(time < s[1].t \/ time > s[Len(s)].t)
  BY <1>1, <1>3, <1>4, <1>5
<1>7. Covering(s, time) # {}
  OBVIOUS
<1> QED
  BY <1>6, <1>7 DEF Support

(***************************************************************************)
(* A standstill has one heading.                                           *)
(***************************************************************************)

\* The run of slow samples of the segment a..b around first..last.
RunAround(s, a, b, first, last) ==
    << Max({a} \cup { k + 1 : k \in { j \in a..(first - 1) : ~Slow(s, j) } }),
       Min({b} \cup { k - 1 : k \in { j \in (last + 1)..b : ~Slow(s, j) } }) >>

\* Slow samples in a row are in one run.
LEMMA OneRun ==
    ASSUME NEW s, NEW a \in Int, NEW b \in Int, NEW first \in Int, NEW last \in Int,
           a <= first, last <= b, NEW i \in first..last,
           \A j \in first..last : SegmentWith(s, j) = <<a, b>> /\ Slow(s, j)
    PROVE  SlowRun(s, i) = RunAround(s, a, b, first, last)
<1>1. { j \in a..(i - 1) : ~Slow(s, j) } = { j \in a..(first - 1) : ~Slow(s, j) }
  OBVIOUS
<1>2. { j \in (i + 1)..b : ~Slow(s, j) } = { j \in (last + 1)..b : ~Slow(s, j) }
  OBVIOUS
<1>3. SegmentWith(s, i) = <<a, b>>
  OBVIOUS
<1>4. SlowRun(s, i) =
        << Max({a} \cup { k + 1 : k \in { j \in a..(i - 1) : ~Slow(s, j) } }),
           Min({b} \cup { k - 1 : k \in { j \in (i + 1)..b : ~Slow(s, j) } }) >>
  BY <1>3 DEF SlowRun
<1> QED
  BY <1>1, <1>2, <1>4 DEF RunAround

\* The headings an answer from the window first..last combines.
Headings(s, first, last) == { Heading(s, i) : i \in first..last }

\* _hold_stationary_headings: the samples of a window that stands still have
\* the same heading.
LEMMA OneHeading ==
    ASSUME NEW s, NEW a \in Int, NEW b \in Int, NEW first \in Int, NEW last \in Int,
           a <= first, first <= last, last <= b,
           \A j \in first..last : SegmentWith(s, j) = <<a, b>> /\ Stationary(s, j)
    PROVE  Cardinality(Headings(s, first, last)) = 1
<1>1. \A j \in first..last : SegmentWith(s, j) = <<a, b>> /\ Slow(s, j)
  BY DEF Stationary
<1>2. PICK run : run = RunAround(s, a, b, first, last)
  OBVIOUS
<1>3. ASSUME NEW i \in first..last
      PROVE  SlowRun(s, i) = run
  BY <1>1, <1>2, OneRun
<1>4. \A i \in first..last : Heading(s, i) = HeldHeading(s, run, <<a, b>>)
  BY <1>3 DEF Heading
<1>5. first \in first..last
  OBVIOUS
<1>6. Headings(s, first, last) = { HeldHeading(s, run, <<a, b>>) }
  BY <1>4, <1>5 DEF Headings
<1> QED
  BY <1>6, FS_Singleton

(***************************************************************************)
(* Answers.                                                                *)
(***************************************************************************)

\* What QueriesStayInSegment says of the answer to one query.
StaysInSegment(s, time) ==
    LET answer == Evaluation(s, time)
        seg == CHOOSE g \in Covering(s, time) : TRUE
    IN  answer.support = "SUPPORTED" =>
            /\ answer.window \subseteq seg[1]..seg[2]
            /\ Cardinality(answer.window) = Min({Width, seg[2] - seg[1] + 1})
            /\ s[Min(answer.window)].t <= time /\ time <= s[Max(answer.window)].t
            /\ (\A i \in answer.window : Stationary(s, i)) => Cardinality(answer.headings) = 1

\* _evaluate: a query is answered from its own segment.
LEMMA AnswersStayInSegment ==
    ASSUME NEW s \in Seq(ReferenceSample), Continuous(s), NEW time \in Int
    PROVE  StaysInSegment(s, time)
<1> DEFINE answer == Evaluation(s, time)
<1>1. PICK seg : seg = CHOOSE g \in Covering(s, time) : TRUE
  OBVIOUS
<1>2. CASE Support(s, time) # "SUPPORTED"
  <2>1. answer.support = Support(s, time)
    BY <1>2 DEF Evaluation
  <2> QED
    BY <1>2, <2>1 DEF StaysInSegment
<1>3. CASE Support(s, time) = "SUPPORTED"
  <2>1. seg \in Covering(s, time)
    BY <1>1, <1>3, SupportedIsCovered
  <2>2. seg \in Segments(s) /\ s[seg[1]].t <= time /\ time <= s[seg[2]].t
    BY <2>1 DEF Covering
  <2>3. PICK a, b : a = seg[1] /\ b = seg[2]
    OBVIOUS
  <2>4. /\ seg = <<a, b>> /\ IsSegment(s, a, b)
        /\ \A i \in a..b : SegmentWith(s, i) = <<a, b>>
    BY <2>2, <2>3, SegmentsAre
  <2>5. a \in Int /\ b \in Int /\ a <= b
    BY <2>4 DEF IsSegment
  <2>6. s[a].t <= time /\ time <= s[b].t
    BY <2>2, <2>3
  <2>7. PICK first, last \in Int :
             /\ Window(s, <<a, b>>, time) = first..last
             /\ a <= first /\ first <= last /\ last <= b
             /\ last - first + 1 = IF Width <= b - a + 1 THEN Width ELSE b - a + 1
             /\ s[first].t <= time /\ time <= s[last].t
    BY <2>4, <2>6, WindowHolds
  <2>8. /\ answer.window = first..last
        /\ answer.headings = Headings(s, first, last)
    BY <1>1, <1>3, <2>4, <2>7 DEF Evaluation, Headings
  <2>9. first..last \subseteq a..b
    BY <2>5, <2>7
  <2>10. Cardinality(first..last) = Min({Width, b - a + 1})
    <3>1. Cardinality(first..last) = last - first + 1
      BY <2>7, FS_Interval
    <3>2. PICK size \in Int : size = b - a + 1
      BY <2>5
    <3>3. PICK w \in Int : w = Width
      BY Numbers DEF Width
    <3>4. Min({w, size}) = IF w <= size THEN w ELSE size
      BY ExtremesOfTwo
    <3> QED
      BY <2>7, <3>1, <3>2, <3>3, <3>4
  <2>11. Min(first..last) = first /\ Max(first..last) = last
    <3>1. first..last # {} /\ first \in first..last /\ last \in first..last
      BY <2>7
    <3>2. /\ Min(first..last) \in first..last /\ \A x \in first..last : Min(first..last) <= x
          /\ Max(first..last) \in first..last /\ \A x \in first..last : x <= Max(first..last)
      BY <3>1, Extremes
    <3>3. Min(first..last) <= first /\ last <= Max(first..last)
      BY <3>1, <3>2
    <3> QED
      BY <2>7, <3>2, <3>3
  <2>12. ASSUME \A i \in first..last : Stationary(s, i)
         PROVE  Cardinality(Headings(s, first, last)) = 1
    <3>1. \A i \in first..last : SegmentWith(s, i) = <<a, b>> /\ Stationary(s, i)
      BY <2>4, <2>9, <2>12
    <3> QED
      BY <2>5, <2>7, <3>1, OneHeading
  <2> HIDE DEF answer
  <2>13. /\ answer.window \subseteq seg[1]..seg[2]
         /\ Cardinality(answer.window) = Min({Width, seg[2] - seg[1] + 1})
         /\ s[Min(answer.window)].t <= time /\ time <= s[Max(answer.window)].t
    BY <2>3, <2>7, <2>8, <2>9, <2>10, <2>11
  <2>14. (\A i \in answer.window : Stationary(s, i)) => Cardinality(answer.headings) = 1
    BY <2>8, <2>12
  <2> QED
    BY <1>1, <2>13, <2>14 DEF StaysInSegment, answer
<1> QED
  BY <1>2, <1>3

(***************************************************************************)
(* The coverage gate.                                                      *)
(***************************************************************************)

\* The pairs of neighbours without a gap.
Joined(s) == { i \in 1..(Len(s) - 1) : ~GapAfter(s, i) }

\* The midpoint of two neighbours is between them, strictly so across a gap.
LEMMA Midpoints ==
    ASSUME NEW s \in Seq(ReferenceSample), Continuous(s), NEW i \in 1..(Len(s) - 1)
    PROVE  /\ i \in 1..Len(s) /\ i + 1 \in 1..Len(s) /\ Midpoint(s, i) \in Int
           /\ s[i].t <= Midpoint(s, i) /\ Midpoint(s, i) <= s[i + 1].t
           /\ GapAfter(s, i) => s[i].t < Midpoint(s, i) /\ Midpoint(s, i) < s[i + 1].t
<1>1. i \in 1..Len(s) /\ i + 1 \in 1..Len(s)
  BY Numbers
<1>2. PICK x, y \in Int : x = s[i].t /\ y = s[i + 1].t
  BY <1>1, Numbers
<1>3. x < y
  BY <1>2 DEF Continuous
<1>4. PICK g \in Int : g = TrajectoryGate.gap /\ g >= 1
  BY Numbers
<1>5. Midpoint(s, i) = (x + y) \div 2
  BY <1>2 DEF Midpoint
<1>6. GapAfter(s, i) => y - x > g
  BY <1>2, <1>4 DEF GapAfter
<1>7. PICK m : m = (x + y) \div 2
  OBVIOUS
<1>8. m \in Int /\ 2 * m <= x + y /\ x + y <= 2 * m + 1
  BY <1>7
<1>9. x <= m /\ m <= y /\ (y - x > g => x < m /\ m < y)
  BY <1>3, <1>4, <1>8
<1> QED
  BY <1>1, <1>2, <1>5, <1>6, <1>7, <1>8, <1>9

\* A pair without a gap is in one segment, which covers its midpoint.
LEMMA JoinedIsCovered ==
    ASSUME NEW s \in Seq(ReferenceSample), Continuous(s), NEW i \in Joined(s)
    PROVE  SegmentWith(s, i) \in Covering(s, Midpoint(s, i))
<1>1. i \in 1..(Len(s) - 1) /\ ~GapAfter(s, i)
  BY DEF Joined
<1>2. /\ i \in 1..Len(s) /\ i + 1 \in 1..Len(s) /\ Midpoint(s, i) \in Int
      /\ s[i].t <= Midpoint(s, i) /\ Midpoint(s, i) <= s[i + 1].t
  BY <1>1, Midpoints
<1>3. PICK a, b \in 1..Len(s) : SegmentWith(s, i) = <<a, b>> /\ a <= i /\ i <= b /\ IsSegment(s, a, b)
  BY <1>2, Numbers, SegmentIs
<1>4. b # i
  BY <1>1, <1>3, Numbers DEF IsSegment
<1>5. i \in a..b /\ i + 1 \in a..b
  <2>1. Len(s) \in Nat /\ i \in Int /\ a \in Int /\ b \in Int
    BY <1>2, <1>3, Numbers
  <2>2. a <= i /\ i <= b
    BY <1>3
  <2> QED
    BY <1>4, <2>1, <2>2
<1>6. s[a].t <= s[i].t /\ s[i + 1].t <= s[b].t
  BY <1>3, <1>5, SegmentTimes
<1>7. s[a].t \in Int /\ s[b].t \in Int /\ s[i].t \in Int /\ s[i + 1].t \in Int
  BY <1>2, <1>3, Numbers
<1>8. s[a].t <= Midpoint(s, i) /\ Midpoint(s, i) <= s[b].t
  BY <1>2, <1>6, <1>7
<1>9. <<a, b>> \in Segments(s)
  BY <1>2, <1>3, Numbers DEF Segments
<1> QED
  BY <1>3, <1>8, <1>9 DEF Covering

\* Nothing covers the midpoint of a gap.
LEMMA GapIsNotCovered ==
    ASSUME NEW s \in Seq(ReferenceSample), Continuous(s), NEW i \in 1..(Len(s) - 1), GapAfter(s, i)
    PROVE  Covering(s, Midpoint(s, i)) = {}
<1> SUFFICES ASSUME NEW seg \in Covering(s, Midpoint(s, i))
             PROVE  FALSE
  OBVIOUS
<1>1. seg \in Segments(s) /\ s[seg[1]].t <= Midpoint(s, i) /\ Midpoint(s, i) <= s[seg[2]].t
  BY DEF Covering
<1>2. PICK a, b : a = seg[1] /\ b = seg[2]
  OBVIOUS
<1>3. IsSegment(s, a, b)
  BY <1>1, <1>2, SegmentsAre
<1>4. a \in 1..Len(s) /\ b \in 1..Len(s) /\ \A k \in a..(b - 1) : ~GapAfter(s, k)
  BY <1>3 DEF IsSegment
<1>5. /\ i \in 1..Len(s) /\ i + 1 \in 1..Len(s) /\ Midpoint(s, i) \in Int
      /\ s[i].t < Midpoint(s, i) /\ Midpoint(s, i) < s[i + 1].t
  BY Midpoints
<1>6. s[a].t \in Int /\ s[b].t \in Int /\ s[i].t \in Int /\ s[i + 1].t \in Int
  BY <1>4, <1>5, Numbers
<1>7. ~(i + 1 <= a)
  <2>1. i + 1 < a => s[i + 1].t < s[a].t
    BY <1>4, <1>5, TimesIncrease
  <2> QED
    BY <1>1, <1>2, <1>4, <1>5, <1>6, <2>1
<1>8. ~(b <= i)
  <2>1. b < i => s[b].t < s[i].t
    BY <1>4, <1>5, TimesIncrease
  <2> QED
    BY <1>1, <1>2, <1>4, <1>5, <1>6, <2>1
<1>9. i \in a..(b - 1)
  BY <1>4, <1>5, <1>7, <1>8
<1> QED
  BY <1>4, <1>9

\* There are as many segments as samples that no pair without a gap starts at:
\* each segment has one such sample, its last.
LEMMA SegmentsAreCounted ==
    ASSUME NEW s \in Seq(ReferenceSample), Continuous(s)
    PROVE  Cardinality(Joined(s)) = Len(s) - Cardinality(Segments(s))
<1> DEFINE N == 1..Len(s)
           J == Joined(s)
           E == N \ J
           S == Segments(s)
<1>1. Len(s) \in Nat /\ Len(s) >= 4 /\ DOMAIN s = N
  BY Numbers
<1>2. IsFiniteSet(N) /\ Cardinality(N) = Len(s)
  BY <1>1, FS_Interval
<1>3. J \subseteq N /\ N \cap J = J
  BY <1>1 DEF Joined
<1>4. IsFiniteSet(E) /\ Cardinality(E) = Len(s) - Cardinality(J)
  <2> HIDE DEF N, J
  <2>1. IsFiniteSet(N \ J) /\ Cardinality(N \ J) = Cardinality(N) - Cardinality(N \cap J)
    BY <1>2, FS_Difference
  <2> QED
    BY <1>2, <1>3, <2>1
<1>5. IsFiniteSet(J) /\ Cardinality(J) \in Nat /\ Cardinality(E) \in Nat
  BY <1>2, <1>3, <1>4, FS_Subset, FS_CardinalityType
<1>6. \A e \in E : SegmentWith(s, e) \in S /\ SegmentWith(s, e)[2] = e
  <2> SUFFICES ASSUME NEW e \in E
               PROVE  SegmentWith(s, e) \in S /\ SegmentWith(s, e)[2] = e
    OBVIOUS
  <2>1. e \in 1..Len(s)
    OBVIOUS
  <2>2. PICK a, b \in 1..Len(s) : SegmentWith(s, e) = <<a, b>> /\ a <= e /\ e <= b /\ IsSegment(s, a, b)
    BY <1>1, <2>1, SegmentIs
  <2>3. ~(e < b)
    <3> SUFFICES ASSUME e < b PROVE FALSE
      OBVIOUS
    <3>1. e \in a..(b - 1) /\ e \in 1..(Len(s) - 1)
      BY <1>1, <2>1, <2>2
    <3>2. ~GapAfter(s, e)
      BY <2>2, <3>1 DEF IsSegment
    <3> QED
      BY <3>1, <3>2 DEF Joined
  <2>4. SegmentWith(s, e)[2] = e
    BY <2>1, <2>2, <2>3
  <2> QED
    BY <1>1, <2>1, <2>4 DEF Segments
<1>7. \A g \in S : g[2] \in E /\ SegmentWith(s, g[2]) = g
  <2> SUFFICES ASSUME NEW g \in S
               PROVE  g[2] \in E /\ SegmentWith(s, g[2]) = g
    OBVIOUS
  <2>1. PICK a, b : a = g[1] /\ b = g[2]
    OBVIOUS
  <2>2. IsSegment(s, a, b) /\ \A i \in a..b : SegmentWith(s, i) = g
    BY <2>1, SegmentsAre
  <2>3. a \in N /\ b \in N /\ a <= b /\ (b = Len(s) \/ GapAfter(s, b))
    BY <2>2 DEF IsSegment
  <2>4. b \notin J
    <3>1. b = Len(s) => b \notin 1..(Len(s) - 1)
      BY <1>1
    <3> QED
      BY <2>3, <3>1 DEF Joined
  <2>5. b \in a..b
    BY <2>3
  <2> QED
    BY <2>1, <2>2, <2>3, <2>4, <2>5
<1> DEFINE f == [e \in E |-> SegmentWith(s, e)]
<1> HIDE DEF E, S, J
<1>8. f \in Bijection(E, S)
  <2>1. f \in [E -> S]
    BY <1>6
  <2>2. \A d, e \in E : f[d] = f[e] => d = e
    BY <1>6
  <2>3. \A g \in S : \E e \in E : f[e] = g
    BY <1>7
  <2> HIDE DEF f
  <2> QED
    BY <2>1, <2>2, <2>3 DEF Bijection, Injection, Surjection, IsInjective
<1>9. ExistsBijection(E, S)
  BY <1>8 DEF ExistsBijection
<1>10. Cardinality(S) = Cardinality(E)
  BY <1>4, <1>9, FS_Bijection
<1>11. Cardinality(J) = Len(s) - Cardinality(S)
  BY <1>1, <1>4, <1>5, <1>10
<1> QED
  BY <1>11 DEF J, S

\* qualify_reference_trajectory: the coverage gate passes when every segment
\* can be fitted and holds a sample away from the ends of the recording.
LEMMA CoveragePasses ==
    ASSUME NEW s \in Seq(ReferenceSample), Continuous(s),
           \A seg \in Segments(s) : Fittable(seg) /\ \E i \in seg[1]..seg[2] : Eligible(s, i)
    PROVE  CoveragePassed(s)
<1> DEFINE Q == { i \in 1..(Len(s) - 1) : Support(s, Midpoint(s, i)) = "SUPPORTED" }
<1>1. \A time : \A seg \in Covering(s, time) : seg \in Segments(s) /\ Fittable(seg)
  BY DEF Covering
<1>2. Q = Joined(s)
  <2>1. ASSUME NEW i \in Joined(s)
        PROVE  i \in Q
    <3>1. i \in 1..(Len(s) - 1)
      BY DEF Joined
    <3>2. Midpoint(s, i) \in Int
      BY <3>1, Midpoints
    <3>3. SegmentWith(s, i) \in Covering(s, Midpoint(s, i))
      BY JoinedIsCovered
    <3>4. Support(s, Midpoint(s, i)) = "SUPPORTED"
      BY <1>1, <3>2, <3>3, CoveredIsSupported
    <3> QED
      BY <3>1, <3>4
  <2>2. ASSUME NEW i \in Q
        PROVE  i \in Joined(s)
    <3>1. i \in 1..(Len(s) - 1) /\ Covering(s, Midpoint(s, i)) # {}
      BY SupportedIsCovered
    <3>2. ~GapAfter(s, i)
      BY <3>1, GapIsNotCovered
    <3> QED
      BY <3>1, <3>2 DEF Joined
  <2> QED
    BY <2>1, <2>2
<1> HIDE DEF Q
<1>3. Cardinality(Q) = Len(s) - Cardinality(Segments(s))
  BY <1>2, SegmentsAreCounted
<1>4. ASSUME NEW seg \in Segments(s)
      PROVE  /\ \E i \in Q : seg \in Covering(s, Midpoint(s, i))
             /\ \E i \in DOMAIN s : Eligible(s, i) /\ Support(s, s[i].t) = "SUPPORTED"
                                      /\ seg[1] <= i /\ i <= seg[2]
  <2>1. PICK a, b : a = seg[1] /\ b = seg[2]
    OBVIOUS
  <2>2. IsSegment(s, a, b) /\ \A i \in a..b : SegmentWith(s, i) = seg
    BY <2>1, SegmentsAre
  <2>3. a \in 1..Len(s) /\ b \in 1..Len(s) /\ \A k \in a..(b - 1) : ~GapAfter(s, k)
    BY <2>2 DEF IsSegment
  <2>4. b - a >= 3
    BY <2>1, Numbers DEF Fittable
  <2>5. a \in a..b /\ a \in a..(b - 1) /\ a \in 1..(Len(s) - 1)
    BY <2>3, <2>4, Numbers
  <2>6. a \in Joined(s)
    BY <2>3, <2>5 DEF Joined
  <2>7. seg \in Covering(s, Midpoint(s, a))
    BY <2>2, <2>5, <2>6, JoinedIsCovered
  <2>8. PICK i \in a..b : Eligible(s, i)
    BY <2>1
  <2>9. i \in 1..Len(s) /\ s[a].t <= s[i].t /\ s[i].t <= s[b].t
    BY <2>2, <2>8, SegmentTimes
  <2>10. seg \in Covering(s, s[i].t)
    BY <2>1, <2>9 DEF Covering
  <2>11. Support(s, s[i].t) = "SUPPORTED"
    <3>1. s[i].t \in Int
      BY <2>9, Numbers
    <3>2. \A g \in Covering(s, s[i].t) : Fittable(g)
      BY <1>1
    <3> QED
      BY <2>10, <3>1, <3>2, CoveredIsSupported
  <2>12. i \in DOMAIN s /\ a <= i /\ i <= b
    BY <2>3, <2>9, Numbers
  <2>13. \E k \in Q : seg \in Covering(s, Midpoint(s, k))
    BY <1>2, <2>6, <2>7
  <2> QED
    BY <2>1, <2>8, <2>11, <2>12, <2>13
<1> QED
  BY <1>3, <1>4 DEF CoveragePassed, Q

(***************************************************************************)
(* Recordings under inspection.                                            *)
(***************************************************************************)

\* A recording with some samples changed is one.
LEMMA ChangedRecording ==
    ASSUME NEW s \in Seq(ReferenceSample), NEW f, DOMAIN f = DOMAIN s,
           \A i \in DOMAIN s : f[i] \in ReferenceSample, f = [i \in DOMAIN s |-> f[i]]
    PROVE  f \in Seq(ReferenceSample)
<1>1. Len(s) \in Nat /\ DOMAIN s = 1..Len(s)
  OBVIOUS
<1>2. f \in [1..Len(s) -> ReferenceSample]
  BY <1>1
<1> QED
  BY <1>1, <1>2

\* inject_fault: moved times leave a recording.
LEMMA ShiftedRecording ==
    ASSUME NEW s \in Seq(ReferenceSample), NEW from \in Int, NEW delta \in Int
    PROVE  Shifted(s, from, delta) \in Seq(ReferenceSample)
<1> DEFINE f == Shifted(s, from, delta)
<1>1. \A i \in DOMAIN s : s[i] \in ReferenceSample
  OBVIOUS
<1>2. DOMAIN f = DOMAIN s /\ f = [i \in DOMAIN s |-> f[i]]
  BY DEF Shifted
<1>3. ASSUME NEW i \in DOMAIN s
      PROVE  f[i] \in ReferenceSample
  <2>1. s[i] \in ReferenceSample
    BY <1>1
  <2>2. s[i].t + delta \in Int
    BY <2>1 DEF ReferenceSample
  <2>3. [s[i] EXCEPT !.t = @ + delta] \in ReferenceSample
    BY <2>1, <2>2 DEF ReferenceSample
  <2>4. f[i] = IF i >= from THEN [s[i] EXCEPT !.t = @ + delta] ELSE s[i]
    BY DEF Shifted
  <2> QED
    BY <2>1, <2>3, <2>4
<1> HIDE DEF f
<1>4. f \in Seq(ReferenceSample)
  BY <1>2, <1>3, ChangedRecording
<1> QED
  BY <1>4 DEF f

\* inject_fault: moved positions leave a recording.
LEMMA TranslatedRecording ==
    ASSUME NEW s \in Seq(ReferenceSample), NEW by, \A i \in DOMAIN by : by[i] \in Int
    PROVE  Translated(s, by) \in Seq(ReferenceSample)
<1> DEFINE f == Translated(s, by)
<1>1. \A i \in DOMAIN s : s[i] \in ReferenceSample
  OBVIOUS
<1>2. DOMAIN f = DOMAIN s /\ f = [i \in DOMAIN s |-> f[i]]
  BY DEF Translated
<1>3. ASSUME NEW i \in DOMAIN s
      PROVE  f[i] \in ReferenceSample
  <2>1. s[i] \in ReferenceSample
    BY <1>1
  <2>2. CASE i \in DOMAIN by
    <3>1. s[i].x + by[i] \in Int
      BY <2>1, <2>2 DEF ReferenceSample
    <3>2. [s[i] EXCEPT !.x = @ + by[i]] \in ReferenceSample
      BY <2>1, <3>1 DEF ReferenceSample
    <3>3. f[i] = [s[i] EXCEPT !.x = @ + by[i]]
      BY <2>2 DEF Translated
    <3> QED
      BY <3>2, <3>3
  <2>3. CASE i \notin DOMAIN by
    <3>1. f[i] = s[i]
      BY <2>3 DEF Translated
    <3> QED
      BY <2>1, <3>1
  <2> QED
    BY <2>2, <2>3
<1> HIDE DEF f
<1>4. f \in Seq(ReferenceSample)
  BY <1>2, <1>3, ChangedRecording
<1> QED
  BY <1>4 DEF f

\* Samples that hold one position.
Holding(s, held, x) == [i \in DOMAIN s |-> IF i \in held THEN [s[i] EXCEPT !.x = x] ELSE s[i]]

\* inject_fault: held positions leave a recording.
LEMMA HeldRecording ==
    ASSUME NEW s \in Seq(ReferenceSample), NEW held, NEW x \in Int
    PROVE  Holding(s, held, x) \in Seq(ReferenceSample)
<1> DEFINE f == [i \in DOMAIN s |-> IF i \in held THEN [s[i] EXCEPT !.x = x] ELSE s[i]]
<1>1. DOMAIN f = DOMAIN s /\ f = [i \in DOMAIN s |-> f[i]]
  OBVIOUS
<1>2. ASSUME NEW i \in DOMAIN s
      PROVE  f[i] \in ReferenceSample
  <2>1. s[i] \in ReferenceSample
    OBVIOUS
  <2>2. [s[i] EXCEPT !.x = x] \in ReferenceSample
    BY <2>1 DEF ReferenceSample
  <2>3. f[i] = IF i \in held THEN [s[i] EXCEPT !.x = x] ELSE s[i]
    OBVIOUS
  <2> HIDE DEF f
  <2> QED
    BY <2>1, <2>2, <2>3
<1> HIDE DEF f
<1>3. f \in Seq(ReferenceSample)
  BY <1>1, <1>2, ChangedRecording
<1> QED
  BY <1>3 DEF f, Holding

\* What is registered.
LEMMA Registered ==
    /\ \A j \in 1..Len(TrajectoryControls) : TrajectoryControls[j].samples \in Seq(ReferenceSample)
    /\ \A j \in 1..Len(TrajectoryCases) : TrajectoryCases[j] \in RegisteredCase
<1>1. TrajectoryControls \in Seq(RegisteredControl)
  BY RecordingsAssumption
<1>2. TrajectoryCases \in Seq(RegisteredCase)
  BY RecordingsAssumption
<1>3. \A j \in 1..Len(TrajectoryControls) : TrajectoryControls[j] \in RegisteredControl
  BY <1>1
<1>4. \A j \in 1..Len(TrajectoryCases) : TrajectoryCases[j] \in RegisteredCase
  BY <1>2
<1>5. \A c \in RegisteredControl : c.samples \in Seq(ReferenceSample)
  BY DEF RegisteredControl
<1> QED
  BY <1>3, <1>4, <1>5

\* inject_fault: what is injected into a recording leaves a recording.
LEMMA FaultedRecording ==
    ASSUME NEW s \in Seq(ReferenceSample), NEW case \in RegisteredCase, NEW start \in Starts(s, case)
    PROVE  Faulted(s, case, start) \in Seq(ReferenceSample)
<1>1. /\ case.amount \in Int /\ case.count \in Nat
      /\ case.op \in {"timestamp_discontinuity", "position_jump", "position_freeze",
                     "position_bias", "position_drift"}
  BY DEF RegisteredCase
<1>2. Len(s) \in Nat /\ DOMAIN s = 1..Len(s) /\ \A i \in 1..Len(s) : s[i].t \in Int /\ s[i].x \in Int
  <2>1. \A i \in DOMAIN s : s[i] \in ReferenceSample
    OBVIOUS
  <2>2. \A i \in DOMAIN s : s[i].t \in Int /\ s[i].x \in Int
    BY <2>1 DEF ReferenceSample
  <2> QED
    BY <2>2
<1>3. CASE case.op = "timestamp_discontinuity"
  <2>1. start \in 2..(Len(s) - 1)
    BY <1>3 DEF Starts
  <2>2. start - 1 \in 1..Len(s) /\ start - 1 + 1 \in 1..Len(s) /\ start \in Int
    BY <1>2, <2>1
  <2>3. Elapsed(s, start - 1) \in Int
    BY <1>2, <2>2 DEF Elapsed
  <2>4. PICK delta \in Int : delta = case.amount - Elapsed(s, start - 1)
    BY <1>1, <2>3
  <2>5. Faulted(s, case, start) = Shifted(s, start, delta)
    BY <1>3, <2>4 DEF Faulted
  <2> QED
    BY <2>2, <2>5, ShiftedRecording
<1>4. CASE case.op = "position_jump"
  <2>1. PICK by : by = [i \in start..(start + case.count - 1) |-> case.amount]
    OBVIOUS
  <2>2. \A i \in DOMAIN by : by[i] \in Int
    BY <1>1, <2>1
  <2>3. Faulted(s, case, start) = Translated(s, by)
    BY <1>4, <2>1 DEF Faulted
  <2> QED
    BY <2>2, <2>3, TranslatedRecording
<1>5. CASE case.op = "position_freeze"
  <2>1. start \in 2..(Len(s) - case.count)
    BY <1>5 DEF Starts
  <2>2. start \in 1..Len(s)
    BY <1>1, <1>2, <2>1
  <2>3. PICK x \in Int : x = s[start].x
    BY <1>2, <2>2
  <2>4. PICK held : held = start..(start + case.count - 1)
    OBVIOUS
  <2>5. Faulted(s, case, start) = Holding(s, held, x)
    BY <1>5, <2>3, <2>4 DEF Faulted, Holding
  <2> QED
    BY <2>5, HeldRecording
<1>6. CASE case.op = "position_bias"
  <2>1. start \in 0..2
    BY <1>6 DEF Starts
  <2>2. PICK by : by = [i \in DOMAIN s |-> case.amount - start]
    OBVIOUS
  <2>3. \A i \in DOMAIN by : by[i] \in Int
    BY <1>1, <2>1, <2>2
  <2>4. Faulted(s, case, start) = Translated(s, by)
    BY <1>6, <2>2 DEF Faulted
  <2> QED
    BY <2>3, <2>4, TranslatedRecording
<1>7. CASE case.op = "position_drift"
  <2>1. start \in 2..(Len(s) - case.count)
    BY <1>7 DEF Starts
  <2>2. PICK by : by = [i \in start..Len(s) |-> case.amount * (i - start + 1)]
    OBVIOUS
  <2>3. ASSUME NEW i \in DOMAIN by
        PROVE  by[i] \in Int
    <3>1. i \in start..Len(s) /\ i - start + 1 \in Int
      BY <2>1, <2>2
    <3>2. by[i] = case.amount * (i - start + 1)
      BY <2>2, <3>1
    <3> QED
      BY <1>1, <3>1, <3>2
  <2>4. Faulted(s, case, start) = Translated(s, by)
    BY <1>7, <2>2 DEF Faulted
  <2> QED
    BY <2>3, <2>4, TranslatedRecording
<1> QED
  BY <1>1, <1>3, <1>4, <1>5, <1>6, <1>7

\* What is inspected is a recording, and jobs are counted.
RecordingInv == samples \in Seq(ReferenceSample) /\ job \in Nat

\* Every step inspects a recording.
LEMMA RecordingInductive ==
    ASSUME RecordingInv, [TrajectoryNext]_trajectoryVars
    PROVE  RecordingInv'
<1> USE DEF RecordingInv
<1>1. Len(TrajectoryControls) \in Nat /\ Len(TrajectoryCases) \in Nat
  BY RecordingsAssumption
<1>2. CASE BeginPublicCall
  BY <1>2, RecordingsAssumption DEF BeginPublicCall, Inspecting, partition
<1>3. CASE BeginControl
  <2>1. job + 1 \in 1..Len(TrajectoryControls) /\ job + 1 \in Nat
    BY <1>1, <1>3 DEF BeginControl, NControls
  <2>2. TrajectoryControls[job + 1].samples \in Seq(ReferenceSample)
    BY <2>1, Registered
  <2>3. samples' = TrajectoryControls[job + 1].samples /\ job' = job + 1
    BY <1>3 DEF BeginControl, Inspecting
  <2> QED
    BY <2>1, <2>2, <2>3
<1>4. CASE BeginCase
  <2>1. NextJob \in (NControls + 1)..(NControls + Len(TrajectoryCases))
    BY <1>4 DEF BeginCase
  <2>2. NextJob \in Nat /\ NextJob - NControls \in 1..Len(TrajectoryCases)
    BY <1>1, <2>1 DEF NControls
  <2>3. PICK case : case = CaseOf(NextJob)
    OBVIOUS
  <2>4. case \in RegisteredCase
    BY <2>2, <2>3, Registered DEF CaseOf
  <2>5. PICK start \in Starts(CleanTrajectory, case) : samples' = Faulted(CleanTrajectory, case, start)
    BY <1>4, <2>3 DEF BeginCase, Inspecting
  <2>6. job' = NextJob
    BY <1>4 DEF BeginCase
  <2>7. CleanTrajectory \in Seq(ReferenceSample)
    BY RecordingsAssumption
  <2>8. samples' \in Seq(ReferenceSample)
    BY <2>4, <2>5, <2>7, FaultedRecording
  <2> QED
    BY <2>2, <2>6, <2>8
<1>5. CASE InspectStructure
  BY <1>5 DEF InspectStructure, Refuse, partition
<1>6. CASE RefuseInput
  BY <1>6 DEF RefuseInput, Refuse, partition
<1>7. CASE InspectContent
  BY <1>7 DEF InspectContent, Refuse, partition
<1>8. CASE PairSteps
  BY <1>8 DEF PairSteps, partition
<1>9. CASE ConsolidateFreezes
  BY <1>9 DEF ConsolidateFreezes, partition
<1>10. CASE ConsolidateEvents
  BY <1>10 DEF ConsolidateEvents, Refuse, partition
<1>11. CASE ScoreControl
  BY <1>11 DEF ScoreControl
<1>12. CASE ScoreCase
  BY <1>12 DEF ScoreCase
<1>13. CASE Decide
  BY <1>13 DEF Decide
<1>14. CASE UNCHANGED trajectoryVars
  BY <1>14 DEF trajectoryVars, detector, partition
<1> QED
  BY <1>2, <1>3, <1>4, <1>5, <1>6, <1>7, <1>8, <1>9, <1>10, <1>11, <1>12, <1>13, <1>14 DEF TrajectoryNext

\* In every recording the detector accepts as continuous, a supported query is
\* answered from one segment, by as many samples as it can give and with the
\* query among them; a standstill has one heading; and the coverage gate passes
\* when every segment can be fitted (_segment_for, _window,
\* _hold_stationary_headings, qualify_reference_trajectory).
THEOREM QueriesAreAnsweredInSegment == TrajectorySpec => []QueriesStayInSegment
<1>1. TrajectoryInit => RecordingInv
  BY DEF TrajectoryInit, RecordingInv
<1>2. RecordingInv /\ [TrajectoryNext]_trajectoryVars => RecordingInv'
  BY RecordingInductive
<1>3. RecordingInv => QueriesStayInSegment
  <2> SUFFICES ASSUME RecordingInv, Continuous(samples)
               PROVE  /\ (\A seg \in Segments(samples) :
                            Fittable(seg) /\ \E i \in seg[1]..seg[2] : Eligible(samples, i))
                             => CoveragePassed(samples)
                      /\ \A time \in samples[1].t..samples[Len(samples)].t : StaysInSegment(samples, time)
    BY DEF QueriesStayInSegment, StaysInSegment
  <2>1. samples \in Seq(ReferenceSample)
    BY DEF RecordingInv
  <2>2. \A time \in samples[1].t..samples[Len(samples)].t : time \in Int
    OBVIOUS
  <2>3. \A time \in samples[1].t..samples[Len(samples)].t : StaysInSegment(samples, time)
    BY <2>1, <2>2, AnswersStayInSegment
  <2> QED
    BY <2>1, <2>3, CoveragePasses
<1> QED
  BY <1>1, <1>2, <1>3, PTL DEF TrajectorySpec

(***************************************************************************)
(* Items in order.                                                         *)
(***************************************************************************)

\* A set of numbers that has 0 and the successor of each of its numbers has all.
LEMMA NumberInduction ==
    ASSUME NEW P, 0 \in P, \A n \in Nat : n \in P => n + 1 \in P
    PROVE  \A n \in Nat : n \in P
<1> SUFFICES ASSUME Nat \ P # {} PROVE FALSE
  OBVIOUS
<1>1. PICK n \in Nat \ P : \A m \in Nat \ P : n <= m
  BY LeastNatural
<1>2. n - 1 \in Nat /\ n - 1 + 1 = n
  BY <1>1
<1>3. n - 1 \in P
  BY <1>1, <1>2
<1> QED
  BY <1>1, <1>2, <1>3

\* Before orders the items of F.
Ordered(F) ==
    /\ \A a \in F : ~Before(a, a)
    /\ \A a, b, c \in F : Before(a, b) /\ Before(b, c) => Before(a, c)
    /\ \A a, b \in F : a # b => Before(a, b) \/ Before(b, a)

\* How many items of F come before an item.
Place(F, a) == Cardinality({ other \in F : Before(other, a) })

\* Places are numbers below the size of the set, and order it.
LEMMA PlacesOrder ==
    ASSUME NEW F, IsFiniteSet(F), Ordered(F)
    PROVE  /\ \A a \in F : Place(F, a) \in 0..(Cardinality(F) - 1)
           /\ \A a, b \in F : Before(a, b) => Place(F, a) < Place(F, b)
           /\ \A a, b \in F : Place(F, a) = Place(F, b) => a = b
<1> DEFINE Below(a) == { other \in F : Before(other, a) }
<1>1. ASSUME NEW S, IsFiniteSet(S), NEW T, T \subseteq S, NEW x \in S, x \notin T
      PROVE  Cardinality(T) \in Nat /\ Cardinality(S) \in Nat /\ Cardinality(T) < Cardinality(S)
  <2>1. IsFiniteSet(S \ {x}) /\ Cardinality(S \ {x}) = Cardinality(S) - 1
    BY <1>1, FS_RemoveElement
  <2>2. T \subseteq S \ {x}
    BY <1>1
  <2>3. IsFiniteSet(T) /\ Cardinality(T) <= Cardinality(S \ {x})
    BY <2>1, <2>2, FS_Subset
  <2> QED
    BY <1>1, <2>1, <2>3, FS_CardinalityType
<1>2. ASSUME NEW a \in F
      PROVE  Place(F, a) \in 0..(Cardinality(F) - 1)
  <2>1. Below(a) \subseteq F /\ a \notin Below(a)
    BY DEF Ordered
  <2> HIDE DEF Below
  <2>2. /\ Cardinality(Below(a)) \in Nat /\ Cardinality(F) \in Nat
        /\ Cardinality(Below(a)) < Cardinality(F)
    BY <1>1, <2>1
  <2>3. Place(F, a) = Cardinality(Below(a))
    BY DEF Place, Below
  <2> QED
    BY <2>2, <2>3
<1>3. ASSUME NEW a \in F, NEW b \in F, Before(a, b)
      PROVE  Place(F, a) < Place(F, b)
  <2>1. Below(a) \subseteq Below(b) /\ a \in Below(b) /\ a \notin Below(a)
    BY <1>3 DEF Ordered
  <2>2. IsFiniteSet(Below(b))
    BY FS_Subset
  <2> HIDE DEF Below
  <2>3. Cardinality(Below(a)) < Cardinality(Below(b))
    BY <1>1, <2>1, <2>2
  <2>4. Place(F, a) = Cardinality(Below(a)) /\ Place(F, b) = Cardinality(Below(b))
    BY DEF Place, Below
  <2> QED
    BY <2>3, <2>4
<1>4. ASSUME NEW a \in F, NEW b \in F, Place(F, a) = Place(F, b)
      PROVE  a = b
  <2>1. Place(F, a) \in Int /\ Place(F, b) \in Int
    BY <1>2
  <2>2. ~Before(a, b) /\ ~Before(b, a)
    BY <1>3, <1>4, <2>1
  <2> QED
    BY <2>2 DEF Ordered
<1> QED
  BY <1>2, <1>3, <1>4

\* The items of F, each once, in order.
Sorted(q, F) ==
    /\ q \in Seq(F) /\ Len(q) \in Nat
    /\ \A a \in F : \E i \in 1..Len(q) : q[i] = a
    /\ \A i, j \in 1..Len(q) : i < j => Before(q[i], q[j])

\* InOrder sorts.
LEMMA InOrderSorts ==
    ASSUME NEW F, IsFiniteSet(F), Ordered(F)
    PROVE  Sorted(InOrder(F), F)
<1> DEFINE n == Cardinality(F)
           f == [a \in F |-> Place(F, a)]
<1>1. n \in Nat /\ IsFiniteSet(0..(n - 1)) /\ Cardinality(0..(n - 1)) = n
  <2>1. n \in Nat
    BY FS_CardinalityType
  <2>2. PICK m \in Nat : m = n
    BY <2>1
  <2>3. IsFiniteSet(0..(m - 1)) /\ Cardinality(0..(m - 1)) = m
    BY FS_Interval
  <2> QED
    BY <2>2, <2>3
<1>2. ASSUME NEW k \in 0..(n - 1)
      PROVE  \E a \in F : Place(F, a) = k
  <2> SUFFICES ASSUME \A a \in F : Place(F, a) # k PROVE FALSE
    OBVIOUS
  <2> DEFINE Places == (0..(n - 1)) \ {k}
  <2>1. IsFiniteSet(Places) /\ Cardinality(Places) = n - 1
    BY <1>1, FS_RemoveElement
  <2>2. f \in [F -> Places]
    BY PlacesOrder
  <2>3. \E a, b \in F : a # b /\ f[a] = f[b]
    <3> HIDE DEF f, Places
    <3>1. Cardinality(Places) < Cardinality(F)
      BY <1>1, <2>1
    <3> QED
      BY <2>1, <2>2, <3>1, FS_PigeonHole
  <2> QED
    BY <2>3, PlacesOrder
<1>3. InOrder(F) = [k \in 1..n |-> CHOOSE a \in F : f[a] = k - 1]
  BY DEF InOrder, Place
<1>4. ASSUME NEW k \in 1..n
      PROVE  InOrder(F)[k] \in F /\ Place(F, InOrder(F)[k]) = k - 1
  <2>1. k - 1 \in 0..(n - 1)
    BY <1>1
  <2>2. \E a \in F : f[a] = k - 1
    BY <1>2, <2>1
  <2>3. InOrder(F)[k] = CHOOSE a \in F : f[a] = k - 1
    BY <1>3
  <2> QED
    BY <2>2, <2>3
<1>5. InOrder(F) \in Seq(F) /\ Len(InOrder(F)) = n
  <2>1. InOrder(F) \in [1..n -> F]
    BY <1>3, <1>4
  <2> QED
    BY <1>1, <2>1
<1>6. ASSUME NEW a \in F
      PROVE  \E i \in 1..n : InOrder(F)[i] = a
  <2>1. Place(F, a) \in 0..(n - 1)
    BY PlacesOrder
  <2>2. PICK i \in 1..n : i = Place(F, a) + 1
    BY <1>1, <2>1
  <2>3. InOrder(F)[i] \in F /\ Place(F, InOrder(F)[i]) = Place(F, a)
    BY <1>4, <2>1, <2>2
  <2> QED
    BY <2>3, PlacesOrder
<1>7. ASSUME NEW i \in 1..n, NEW j \in 1..n, i < j
      PROVE  Before(InOrder(F)[i], InOrder(F)[j])
  <2>1. PICK a, b \in F : a = InOrder(F)[i] /\ b = InOrder(F)[j]
    BY <1>4
  <2>2. Place(F, a) = i - 1 /\ Place(F, b) = j - 1
    BY <1>4, <2>1
  <2>3. a # b /\ ~Before(b, a)
    <3>1. ~(Place(F, b) < Place(F, a)) /\ Place(F, a) # Place(F, b)
      BY <1>7, <2>2
    <3> QED
      BY <3>1, PlacesOrder
  <2> QED
    BY <2>1, <2>3 DEF Ordered
<1> HIDE DEF n
<1> QED
  BY <1>1, <1>5, <1>6, <1>7 DEF Sorted

(***************************************************************************)
(* Recursive functions.                                                    *)
(***************************************************************************)

\* The cursor up to the jump N.
IsCursor(jumps, f, N) ==
    f = [n \in 1..N |-> n = 1 \/ ~(f[n - 1] /\ Opposite(jumps[n - 1], jumps[n]))]

\* The cursor stops at the first jump, and at the next one unless it is a second.
LEMMA CursorStops ==
    ASSUME NEW jumps, Len(jumps) \in Nat
    PROVE  \A n \in 1..Len(jumps) :
             Cursor(jumps)[n] <=> n = 1 \/ ~(Cursor(jumps)[n - 1] /\ Opposite(jumps[n - 1], jumps[n]))
<1> DEFINE P == { N \in Nat : \E f : IsCursor(jumps, f, N) }
<1>1. 0 \in P
  <2>1. IsCursor(jumps, [n \in 1..0 |-> TRUE], 0)
    BY DEF IsCursor
  <2> QED
    BY <2>1
<1>2. ASSUME NEW N \in Nat, N \in P
      PROVE  N + 1 \in P
  <2>1. PICK f : IsCursor(jumps, f, N)
    BY <1>2
  <2> DEFINE g == [n \in 1..(N + 1) |->
                     n = 1 \/ ~(f[n - 1] /\ Opposite(jumps[n - 1], jumps[n]))]
  <2>2. ASSUME NEW n \in 1..N
        PROVE  g[n] = f[n]
    <3>1. f[n] = (n = 1 \/ ~(f[n - 1] /\ Opposite(jumps[n - 1], jumps[n])))
      BY <2>1 DEF IsCursor
    <3>2. n \in 1..(N + 1)
      OBVIOUS
    <3> QED
      BY <3>1, <3>2, Zenon
  <2>3. ASSUME NEW n \in 1..(N + 1)
        PROVE  (n = 1 \/ ~(f[n - 1] /\ Opposite(jumps[n - 1], jumps[n])))
                 = (n = 1 \/ ~(g[n - 1] /\ Opposite(jumps[n - 1], jumps[n])))
    <3>1. CASE n = 1
      BY <3>1
    <3>2. CASE n # 1
      <4>1. n - 1 \in 1..N
        BY <3>2
      <4>2. g[n - 1] = f[n - 1]
        BY <2>2, <4>1
      <4> QED
        BY <4>2, Zenon
    <3> QED
      BY <3>1, <3>2
  <2>4. IsCursor(jumps, g, N + 1)
    <3>1. g = [n \in 1..(N + 1) |-> n = 1 \/ ~(g[n - 1] /\ Opposite(jumps[n - 1], jumps[n]))]
      BY <2>3, Zenon
    <3> HIDE DEF g
    <3> QED
      BY <3>1 DEF IsCursor
  <2> QED
    BY <2>4
<1> HIDE DEF P
<1>3. Len(jumps) \in P
  BY <1>1, <1>2, NumberInduction
<1>4. PICK f : IsCursor(jumps, f, Len(jumps)) /\ Cursor(jumps) = f
  <2>1. \E g : IsCursor(jumps, g, Len(jumps))
    BY <1>3 DEF P
  <2> QED
    BY <2>1, Zenon DEF Cursor, IsCursor
<1> QED
  BY <1>4, Zenon DEF IsCursor

\* The groups after each of N items.
IsGrouping(sorted, stride, f, N) ==
    f = [n \in 0..N |-> IF n = 0 THEN <<>> ELSE Extended(f[n - 1], sorted[n], stride)]

\* No group before the first item, and each item extends the groups before it.
LEMMA GroupingsExtend ==
    ASSUME NEW sorted, Len(sorted) \in Nat, NEW stride
    PROVE  /\ Groupings(sorted, stride)[0] = <<>>
           /\ \A n \in 1..Len(sorted) :
                Groupings(sorted, stride)[n] = Extended(Groupings(sorted, stride)[n - 1], sorted[n], stride)
<1> DEFINE P == { N \in Nat : \E f : IsGrouping(sorted, stride, f, N) }
<1>1. 0 \in P
  <2>1. IsGrouping(sorted, stride, [n \in 0..0 |-> <<>>], 0)
    BY DEF IsGrouping
  <2> QED
    BY <2>1
<1>2. ASSUME NEW N \in Nat, N \in P
      PROVE  N + 1 \in P
  <2>1. PICK f : IsGrouping(sorted, stride, f, N)
    BY <1>2
  <2> DEFINE g == [n \in 0..(N + 1) |-> IF n = 0 THEN <<>> ELSE Extended(f[n - 1], sorted[n], stride)]
  <2>2. ASSUME NEW n \in 0..N
        PROVE  g[n] = f[n]
    <3>1. n \in 0..(N + 1)
      OBVIOUS
    <3>2. f[n] = IF n = 0 THEN <<>> ELSE Extended(f[n - 1], sorted[n], stride)
      BY <2>1, Zenon DEF IsGrouping
    <3> QED
      BY <3>1, <3>2, Zenon
  <2>3. ASSUME NEW n \in 0..(N + 1)
        PROVE  (IF n = 0 THEN <<>> ELSE Extended(f[n - 1], sorted[n], stride))
                 = (IF n = 0 THEN <<>> ELSE Extended(g[n - 1], sorted[n], stride))
    <3>1. CASE n = 0
      BY <3>1
    <3>2. CASE n # 0
      <4>1. n - 1 \in 0..N
        BY <3>2
      <4>2. g[n - 1] = f[n - 1]
        BY <2>2, <4>1
      <4> QED
        BY <4>2, Zenon
    <3> QED
      BY <3>1, <3>2
  <2>4. IsGrouping(sorted, stride, g, N + 1)
    <3>1. g = [n \in 0..(N + 1) |-> IF n = 0 THEN <<>> ELSE Extended(g[n - 1], sorted[n], stride)]
      BY <2>3, Zenon
    <3> HIDE DEF g
    <3> QED
      BY <3>1, Zenon DEF IsGrouping
  <2> QED
    BY <2>4
<1> HIDE DEF P
<1>3. Len(sorted) \in P
  BY <1>1, <1>2, NumberInduction
<1>4. PICK f : IsGrouping(sorted, stride, f, Len(sorted)) /\ Groupings(sorted, stride) = f
  <2>1. \E g : IsGrouping(sorted, stride, g, Len(sorted))
    BY <1>3 DEF P
  <2> QED
    BY <2>1, Zenon DEF Groupings, IsGrouping
<1>5. f[0] = <<>>
  BY <1>4, 0 \in 0..Len(sorted), Zenon DEF IsGrouping
<1>6. ASSUME NEW n \in 1..Len(sorted)
      PROVE  f[n] = Extended(f[n - 1], sorted[n], stride)
  <2>1. n \in 0..Len(sorted) /\ n # 0
    OBVIOUS
  <2> QED
    BY <1>4, <2>1, Zenon DEF IsGrouping
<1> QED
  BY <1>4, <1>5, <1>6

(***************************************************************************)
(* Extremes of finite sets, and the median.                                *)
(***************************************************************************)

\* Finitely many numbers have a least and a greatest one.
LEMMA FiniteExtremes ==
    ASSUME NEW G, IsFiniteSet(G), G # {}, NEW f \in [G -> Int]
    PROVE  \E low, high \in G : \A g \in G : f[low] <= f[g] /\ f[g] <= f[high]
<1>1. PICK n \in Nat : n = Cardinality(G) /\ ExistsBijection(1..n, G)
  BY FS_CardinalityType
<1>2. PICK b : /\ b \in [1..n -> G]
               /\ \A g \in G : \E i \in 1..n : b[i] = g
  BY <1>1 DEF ExistsBijection, Bijection, Surjection, Injection
<1>3. PICK d \in [1..n -> Int] : \A i \in 1..n : d[i] = f[b[i]]
  <2>1. [i \in 1..n |-> f[b[i]]] \in [1..n -> Int]
    BY <1>2
  <2> QED
    BY <2>1
<1> DEFINE Bounded(m) == \E low, high \in 1..m : \A i \in 1..m : d[low] <= d[i] /\ d[i] <= d[high]
           P == { m \in Nat : m + 1 <= n => Bounded(m + 1) }
<1>4. 0 \in P
  <2> SUFFICES ASSUME 1 <= n PROVE Bounded(1)
    OBVIOUS
  <2>1. 1 \in 1..1 /\ 1 \in 1..n /\ \A i \in 1..1 : i = 1
    BY <1>1
  <2>2. d[1] \in Int
    BY <2>1
  <2> QED
    BY <2>1, <2>2
<1>5. ASSUME NEW m \in Nat, m \in P
      PROVE  m + 1 \in P
  <2> SUFFICES ASSUME m + 1 + 1 <= n PROVE Bounded(m + 1 + 1)
    BY <1>5
  <2>1. PICK low, high \in 1..(m + 1) :
            \A i \in 1..(m + 1) : d[low] <= d[i] /\ d[i] <= d[high]
    BY <1>1, <1>5
  <2>2. PICK k \in Nat : k = m + 1 + 1
    OBVIOUS
  <2>3. \A i \in 1..k : d[i] \in Int /\ (i = k \/ i \in 1..(m + 1))
    BY <1>1, <2>2
  <2>4. low \in 1..k /\ high \in 1..k /\ k \in 1..k
    BY <2>2
  <2>5. PICK l \in 1..k : \A i \in 1..k : d[l] <= d[i]
    <3>1. PICK l \in {low, k} : d[l] <= d[low] /\ d[l] <= d[k]
      BY <2>3, <2>4
    <3>2. l \in 1..k
      BY <2>4, <3>1
    <3>3. ASSUME NEW i \in 1..k PROVE d[l] <= d[i]
      <4>1. i = k \/ d[low] <= d[i]
        BY <2>1, <2>3
      <4>2. d[l] \in Int /\ d[i] \in Int /\ d[low] \in Int
        BY <2>3, <2>4, <3>2
      <4> QED
        BY <3>1, <4>1, <4>2
    <3> QED
      BY <3>2, <3>3
  <2>6. PICK h \in 1..k : \A i \in 1..k : d[i] <= d[h]
    <3>1. PICK h \in {high, k} : d[high] <= d[h] /\ d[k] <= d[h]
      BY <2>3, <2>4
    <3>2. h \in 1..k
      BY <2>4, <3>1
    <3>3. ASSUME NEW i \in 1..k PROVE d[i] <= d[h]
      <4>1. i = k \/ d[i] <= d[high]
        BY <2>1, <2>3
      <4>2. d[h] \in Int /\ d[i] \in Int /\ d[high] \in Int
        BY <2>3, <2>4, <3>2
      <4> QED
        BY <3>1, <4>1, <4>2
    <3> QED
      BY <3>2, <3>3
  <2> QED
    BY <2>2, <2>5, <2>6
<1> HIDE DEF P, Bounded
<1>6. PICK m \in Nat : m + 1 = n
  <2>1. n # 0
    BY <1>1, FS_EmptySet
  <2>2. n - 1 \in Nat /\ n - 1 + 1 = n
    BY <2>1
  <2> QED
    BY <2>2
<1>7. m \in P
  BY <1>4, <1>5, NumberInduction
<1>8. PICK low, high \in 1..n : \A i \in 1..n : d[low] <= d[i] /\ d[i] <= d[high]
  <2>1. Bounded(m + 1)
    BY <1>6, <1>7 DEF P
  <2> QED
    BY <1>6, <2>1 DEF Bounded
<1>9. b[low] \in G /\ b[high] \in G
  BY <1>2
<1>10. ASSUME NEW g \in G PROVE f[b[low]] <= f[g] /\ f[g] <= f[b[high]]
  <2>1. PICK i \in 1..n : b[i] = g
    BY <1>2
  <2>2. d[i] = f[g] /\ d[low] = f[b[low]] /\ d[high] = f[b[high]]
    BY <1>3, <2>1
  <2> QED
    BY <1>8, <2>2
<1> QED
  BY <1>9, <1>10

\* The least and the greatest value of finitely many.
LEMMA FiniteMinMax ==
    ASSUME NEW G, IsFiniteSet(G), G # {}, NEW f \in [G -> Int], NEW V, V = { f[g] : g \in G }
    PROVE  /\ Min(V) \in V /\ \A v \in V : Min(V) <= v
           /\ Max(V) \in V /\ \A v \in V : v <= Max(V)
<1>1. PICK low, high \in G : \A g \in G : f[low] <= f[g] /\ f[g] <= f[high]
  BY FiniteExtremes
<1>2. f[low] \in V /\ \A v \in V : f[low] <= v
  BY <1>1
<1>3. f[high] \in V /\ \A v \in V : f[high] >= v
  BY <1>1
<1>4. V \subseteq Int
  OBVIOUS
<1> QED
  BY <1>2, <1>3, <1>4 DEF Min, Max

\* The steps of positive length.
Forward(s) == { i \in Steps(s) : Elapsed(s, i) > 0 }

\* How many of them are not longer than step i, and the kth shortest.
UpTo(s, i) == Cardinality({ j \in Forward(s) : Elapsed(s, j) <= Elapsed(s, i) })

Ranked(s, k) == Min({ Elapsed(s, i) : i \in { j \in Forward(s) : UpTo(s, j) >= k } })

\* The median is a number.
LEMMA StrideIsNumber ==
    ASSUME NEW s \in Seq(ReferenceSample)
    PROVE  Stride(s) \in Int
<1>1. \A i \in 1..Len(s) : s[i].t \in Int
  <2>1. \A i \in 1..Len(s) : s[i] \in ReferenceSample
    OBVIOUS
  <2> QED
    BY <2>1 DEF ReferenceSample
<1>2. \A i \in Forward(s) : Elapsed(s, i) \in Int
  BY <1>1 DEF Forward, Steps, Elapsed
<1>3. IsFiniteSet(Forward(s))
  <2>1. Len(s) - 1 \in Int /\ 1 \in Int
    OBVIOUS
  <2>2. Forward(s) \subseteq 1..(Len(s) - 1)
    BY DEF Forward, Steps
  <2> QED
    BY <2>1, <2>2, FS_Interval, FS_Subset
<1>4. PICK n \in Nat : n = Cardinality(Forward(s))
  BY <1>3, FS_CardinalityType
<1>5. ASSUME NEW k \in Int, k <= n, n # 0
      PROVE  Ranked(s, k) \in Int
  <2> DEFINE G == { j \in Forward(s) : UpTo(s, j) >= k }
             f == [i \in Forward(s) |-> Elapsed(s, i)]
             g == [i \in G |-> Elapsed(s, i)]
             V == { g[i] : i \in G }
  <2>1. Forward(s) # {}
    BY <1>3, <1>4, <1>5, FS_EmptySet
  <2>2. f \in [Forward(s) -> Int] /\ g \in [G -> Int]
    BY <1>2
  <2>3. PICK high \in Forward(s) : \A i \in Forward(s) : f[i] <= f[high]
    <3> HIDE DEF f
    <3> QED
      BY <1>3, <2>1, <2>2, FiniteExtremes
  <2>4. UpTo(s, high) = n
    <3>1. { j \in Forward(s) : Elapsed(s, j) <= Elapsed(s, high) } = Forward(s)
      BY <2>3
    <3> QED
      BY <1>4, <3>1 DEF UpTo
  <2>5. G # {} /\ IsFiniteSet(G)
    BY <1>3, <1>4, <1>5, <2>4, FS_Subset
  <2>6. V = { Elapsed(s, i) : i \in G }
    OBVIOUS
  <2>7. Ranked(s, k) = Min(V)
    BY <2>6 DEF Ranked
  <2>8. V \subseteq Int
    BY <2>2
  <2>9. Min(V) \in V
    <3> HIDE DEF g, G
    <3>1. PICK W : W = V
      OBVIOUS
    <3>2. Min(W) \in W
      BY <2>2, <2>5, <3>1, FiniteMinMax
    <3> QED
      BY <3>1, <3>2
  <2> QED
    BY <2>7, <2>8, <2>9
<1>6. Stride(s) = IF n = 0 THEN 1 ELSE (Ranked(s, (n + 1) \div 2) + Ranked(s, n \div 2 + 1)) \div 2
  BY <1>4, Zenon DEF Stride, Ranked, UpTo, Forward
<1>7. CASE n # 0
  <2>1. PICK k \in Int : k = (n + 1) \div 2
    OBVIOUS
  <2>2. PICK l \in Int : l = n \div 2 + 1
    OBVIOUS
  <2>3. k <= n /\ l <= n
    BY <1>7, <2>1, <2>2
  <2>4. PICK x, y \in Int : x = Ranked(s, k) /\ y = Ranked(s, l)
    BY <1>5, <1>7, <2>3
  <2>5. Stride(s) = (x + y) \div 2
    BY <1>6, <1>7, <2>1, <2>2, <2>4
  <2> QED
    BY <2>5
<1> QED
  BY <1>6, <1>7

(***************************************************************************)
(* Times of sample bounds.                                                 *)
(***************************************************************************)

\* In a valid structure later bounds have later times, and the interval of one
\* sample ends at the next bound.
LEMMA BoundsIncrease ==
    ASSUME NEW s \in Seq(ReferenceSample), StructurallyValid(s), Len(s) >= 1
    PROVE  /\ \A i \in 1..(Len(s) + 1) : BoundTime(s, i) \in Int
           /\ \A i, j \in 1..(Len(s) + 1) : i < j => BoundTime(s, i) < BoundTime(s, j)
           /\ \A i \in 1..Len(s) : BoundTime(s, i) = s[i].t /\ IntervalEnd(s, i) = BoundTime(s, i + 1)
<1>1. Len(s) \in Nat /\ \A i \in 1..Len(s) : s[i].t \in Int
  <2>1. \A i \in 1..Len(s) : s[i] \in ReferenceSample
    OBVIOUS
  <2> QED
    BY <2>1 DEF ReferenceSample
<1>2. \A i \in 1..(Len(s) - 1) : s[i].t < s[i + 1].t
  <2> SUFFICES ASSUME NEW i \in 1..(Len(s) - 1) PROVE s[i].t < s[i + 1].t
    OBVIOUS
  <2>1. s[i + 1].t - s[i].t > 0
    BY DEF StructurallyValid, Steps, Elapsed
  <2>2. i \in 1..Len(s) /\ i + 1 \in 1..Len(s)
    BY <1>1
  <2> QED
    BY <1>1, <2>1, <2>2
<1>3. \A i, j \in 1..Len(s) : i < j => s[i].t < s[j].t
  BY <1>1, <1>2, TimesIncreaseBySteps
<1>4. PICK step \in Int : step = Stride(s)
  BY StrideIsNumber
<1>5. PICK longer \in Int : longer = Max({1, step}) /\ longer >= 1
  <2>1. 1 \in Int
    OBVIOUS
  <2>2. Max({1, step}) = IF 1 <= step THEN step ELSE 1
    BY <2>1, ExtremesOfTwo
  <2> QED
    BY <2>2
<1>6. BoundTime(s, Len(s) + 1) = s[Len(s)].t + longer
  BY <1>1, <1>4, <1>5 DEF BoundTime, IntervalEnd
<1>7. \A i \in 1..Len(s) : BoundTime(s, i) = s[i].t
  BY <1>1 DEF BoundTime
<1>8. Len(s) \in 1..Len(s)
  BY <1>1
<1>9. ASSUME NEW i \in 1..(Len(s) + 1)
      PROVE  BoundTime(s, i) \in Int
  BY <1>1, <1>5, <1>6, <1>7, <1>8
<1>10. ASSUME NEW i \in 1..(Len(s) + 1), NEW j \in 1..(Len(s) + 1), i < j
       PROVE  BoundTime(s, i) < BoundTime(s, j)
  <2>1. i \in 1..Len(s)
    BY <1>1, <1>10
  <2>2. CASE j \in 1..Len(s)
    BY <1>3, <1>7, <1>10, <2>1, <2>2
  <2>3. CASE j = Len(s) + 1
    <3>1. s[i].t <= s[Len(s)].t
      BY <1>1, <1>3, <1>8, <2>1
    <3> QED
      BY <1>1, <1>5, <1>6, <1>7, <1>8, <2>1, <2>3, <3>1
  <2> QED
    BY <1>1, <2>2, <2>3
<1>11. ASSUME NEW i \in 1..Len(s)
       PROVE  IntervalEnd(s, i) = BoundTime(s, i + 1)
  <2>1. CASE i < Len(s)
    <3>1. s[i + 1].t > s[i].t /\ i + 1 \in 1..Len(s)
      <4>1. i \in 1..(Len(s) - 1) /\ i + 1 \in 1..Len(s)
        BY <1>1, <2>1
      <4> QED
        BY <1>1, <1>2, <4>1
    <3>2. IntervalEnd(s, i) = s[i + 1].t
      BY <2>1, <3>1 DEF IntervalEnd
    <3> QED
      BY <1>7, <3>1, <3>2
  <2>2. CASE i = Len(s)
    BY <1>1, <1>4, <1>5, <1>6, <2>2 DEF IntervalEnd
  <2> QED
    BY <1>1, <2>1, <2>2
<1> QED
  BY <1>7, <1>9, <1>10, <1>11

(***************************************************************************)
(* Failures.                                                               *)
(***************************************************************************)
RuleSet == { TrajectoryRules[i] : i \in 1..9 }

SeveritySet == { Severities[i] : i \in 1..4 }

\* Failures of a recording of n samples.
Typed(found, n) ==
    \A item \in found :
        /\ item.rule \in RuleSet /\ item.severity \in SeveritySet
        /\ item.start \in Int /\ item.end \in Int
        /\ item.from \in 1..n /\ item.to \in 1..(n + 1)

\* The rule and the first sample tell a failure from others.
Keyed(found) == \A a, b \in found : a.rule = b.rule /\ a.from = b.from => a = b

\* Ranks are positions in the lists.
LEMMA RankIs ==
    /\ \A rule \in RuleSet : RuleRank(rule) \in 1..9 /\ TrajectoryRules[RuleRank(rule)] = rule
    /\ \A k \in 1..4 : SeverityRank(Severities[k]) = k
<1>1. DOMAIN TrajectoryRules = 1..9 /\ DOMAIN Severities = 1..4
  BY DEF TrajectoryRules, Severities
<1>2. ASSUME NEW rule \in RuleSet
      PROVE  RuleRank(rule) \in 1..9 /\ TrajectoryRules[RuleRank(rule)] = rule
  <2>1. \E i \in DOMAIN TrajectoryRules : TrajectoryRules[i] = rule
    BY <1>1 DEF RuleSet
  <2> QED
    BY <1>1, <2>1 DEF RuleRank
<1>3. ASSUME NEW k \in 1..4
      PROVE  SeverityRank(Severities[k]) = k
  <2>1. \A i \in DOMAIN Severities : Severities[i] = Severities[k] => i = k
    BY DEF Severities
  <2> QED
    BY <1>1, <2>1 DEF SeverityRank
<1> QED
  BY <1>2, <1>3

\* Failures that are told apart by rule and sample are finitely many, and
\* Before orders them.
LEMMA FailuresAreOrdered ==
    ASSUME NEW n \in Nat, NEW F, Typed(F, n), Keyed(F)
    PROVE  IsFiniteSet(F) /\ Ordered(F)
<1>1. ASSUME NEW a \in F
      PROVE  /\ a.start \in Int /\ a.end \in Int /\ a.from \in 1..n
             /\ RuleRank(a.rule) \in 1..9 /\ TrajectoryRules[RuleRank(a.rule)] = a.rule
  BY RankIs DEF Typed
<1>2. IsFiniteSet(F)
  <2> DEFINE key == [a \in F |-> 9 * a.from + RuleRank(a.rule)]
             Keys == 1..(9 * n + 9)
  <2>1. key \in [F -> Keys]
    BY <1>1
  <2>2. ASSUME NEW a \in F, NEW b \in F, key[a] = key[b]
        PROVE  a = b
    <3>1. PICK i, j \in 1..n : i = a.from /\ j = b.from
      BY <1>1
    <3>2. PICK k, l \in 1..9 : k = RuleRank(a.rule) /\ l = RuleRank(b.rule)
      BY <1>1
    <3>3. 9 * i + k = 9 * j + l
      BY <2>2, <3>1, <3>2
    <3>4. i = j /\ k = l
      BY <3>3
    <3>5. a.rule = b.rule
      BY <1>1, <3>2, <3>4
    <3> QED
      BY <3>1, <3>4, <3>5 DEF Keyed
  <2>3. key \in Injection(F, Keys)
    <3> HIDE DEF Keys
    <3> QED
      BY <2>1, <2>2 DEF Injection, IsInjective
  <2>4. IsFiniteSet(Keys)
    <3>1. 1 \in Int /\ 9 * n + 9 \in Int
      OBVIOUS
    <3> QED
      BY <3>1, FS_Interval
  <2> HIDE DEF key, Keys
  <2> QED
    BY <2>3, <2>4, FS_Injection
<1>3. \A a \in F : ~Before(a, a)
  BY <1>1 DEF Before
<1>4. ASSUME NEW a \in F, NEW b \in F, NEW c \in F, Before(a, b), Before(b, c)
      PROVE  Before(a, c)
  BY <1>1, <1>4 DEF Before
<1>5. ASSUME NEW a \in F, NEW b \in F, a # b
      PROVE  Before(a, b) \/ Before(b, a)
  <2>1. a.rule # b.rule \/ a.from # b.from
    BY <1>5 DEF Keyed
  <2>2. a.rule # b.rule => RuleRank(a.rule) # RuleRank(b.rule)
    BY <1>1
  <2> QED
    BY <1>1, <2>1, <2>2 DEF Before
<1> QED
  BY <1>2, <1>3, <1>4, <1>5 DEF Ordered

\* The extremes of the failures of a group.
LEMMA GroupExtremes ==
    ASSUME NEW n \in Nat, NEW group, Typed(group, n), IsFiniteSet(group), group # {}
    PROVE  /\ \E b \in group : Min({ g.start : g \in group }) = b.start
           /\ \E b \in group : Max({ g.end : g \in group }) = b.end
           /\ \E b \in group : Min({ g.from : g \in group }) = b.from
           /\ \E b \in group : Max({ g.to : g \in group }) = b.to
           /\ \A b \in group : /\ Min({ g.start : g \in group }) <= b.start
                               /\ b.end <= Max({ g.end : g \in group })
                               /\ Min({ g.from : g \in group }) <= b.from
                               /\ b.to <= Max({ g.to : g \in group })
<1>1. /\ [g \in group |-> g.start] \in [group -> Int] /\ [g \in group |-> g.end] \in [group -> Int]
      /\ [g \in group |-> g.from] \in [group -> Int] /\ [g \in group |-> g.to] \in [group -> Int]
  BY DEF Typed
<1>2. /\ \E b \in group : Min({ g.start : g \in group }) = b.start
      /\ \A b \in group : Min({ g.start : g \in group }) <= b.start
  <2>1. PICK f \in [group -> Int] : f = [g \in group |-> g.start]
    BY <1>1
  <2>2. PICK V : V = { f[g] : g \in group }
    OBVIOUS
  <2>4. V = { g.start : g \in group }
    BY <2>1, <2>2
  <2>3. Min(V) \in V /\ \A v \in V : Min(V) <= v
    BY <2>2, FiniteMinMax, Zenon
  <2> QED
    BY <2>3, <2>4
<1>3. /\ \E b \in group : Max({ g.end : g \in group }) = b.end
      /\ \A b \in group : b.end <= Max({ g.end : g \in group })
  <2>1. PICK f \in [group -> Int] : f = [g \in group |-> g.end]
    BY <1>1
  <2>2. PICK V : V = { f[g] : g \in group }
    OBVIOUS
  <2>4. V = { g.end : g \in group }
    BY <2>1, <2>2
  <2>3. Max(V) \in V /\ \A v \in V : v <= Max(V)
    BY <2>2, FiniteMinMax, Zenon
  <2> QED
    BY <2>3, <2>4
<1>4. /\ \E b \in group : Min({ g.from : g \in group }) = b.from
      /\ \A b \in group : Min({ g.from : g \in group }) <= b.from
  <2>1. PICK f \in [group -> Int] : f = [g \in group |-> g.from]
    BY <1>1
  <2>2. PICK V : V = { f[g] : g \in group }
    OBVIOUS
  <2>4. V = { g.from : g \in group }
    BY <2>1, <2>2
  <2>3. Min(V) \in V /\ \A v \in V : Min(V) <= v
    BY <2>2, FiniteMinMax, Zenon
  <2> QED
    BY <2>3, <2>4
<1>5. /\ \E b \in group : Max({ g.to : g \in group }) = b.to
      /\ \A b \in group : b.to <= Max({ g.to : g \in group })
  <2>1. PICK f \in [group -> Int] : f = [g \in group |-> g.to]
    BY <1>1
  <2>2. PICK V : V = { f[g] : g \in group }
    OBVIOUS
  <2>4. V = { g.to : g \in group }
    BY <2>1, <2>2
  <2>3. Max(V) \in V /\ \A v \in V : v <= Max(V)
    BY <2>2, FiniteMinMax, Zenon
  <2> QED
    BY <2>3, <2>4
<1> QED
  BY <1>2, <1>3, <1>4, <1>5

\* The rule an event is named for is one of its rules.
LEMMA PrimaryIsOne ==
    ASSUME NEW rules, rules \subseteq RuleSet, rules # {}
    PROVE  PrimaryOf(rules) \in rules
<1> DEFINE ranks == { RuleRank(rule) : rule \in rules }
<1>1. ranks \in SUBSET (1..9) /\ ranks # {}
  BY RankIs
<1>2. Min(ranks) \in ranks
  <2> HIDE DEF ranks
  <2>1. 1 \in Int /\ 9 \in Int
    OBVIOUS
  <2> QED
    BY <1>1, <2>1, Extremes
<1>3. PICK rule \in rules : Min(ranks) = RuleRank(rule)
  BY <1>2
<1>4. PrimaryOf(rules) = TrajectoryRules[RuleRank(rule)]
  BY <1>3 DEF PrimaryOf
<1> QED
  BY <1>4, RankIs

\* The rule that bounds an event is one of its rules.
LEMMA BoundaryIsOne ==
    ASSUME NEW n \in Nat, NEW group, Typed(group, n), group # {}, NEW stride
    PROVE  /\ RulesOf(group) \subseteq RuleSet /\ RulesOf(group) # {}
           /\ BoundaryRule(group, stride) \in RulesOf(group)
<1>1. RulesOf(group) \subseteq RuleSet /\ RulesOf(group) # {}
  BY DEF RulesOf, Typed
<1>2. PrimaryOf(RulesOf(group)) \in RulesOf(group)
  BY <1>1, PrimaryIsOne
<1>3. LongStep(group, stride) => "position_jump" \in RulesOf(group)
  BY DEF LongStep, RulesOf
<1> QED
  BY <1>1, <1>2, <1>3 DEF BoundaryRule

\* The failures that bound an event.
Bounds(group, stride) == { item \in group : item.rule = BoundaryRule(group, stride) }

\* _consolidate_events: an event starts and ends with failures of its group,
\* has all their rules, and is as severe as each of them.
LEMMA EventSpans ==
    ASSUME NEW n \in Nat, NEW group, Typed(group, n), IsFiniteSet(group), group # {}, NEW stride
    PROVE  /\ Bounds(group, stride) \subseteq group
           /\ \E b \in Bounds(group, stride) : EventFrom(group, stride).start = b.start
           /\ \E b \in Bounds(group, stride) : EventFrom(group, stride).end = b.end
           /\ \E b \in Bounds(group, stride) : EventFrom(group, stride).from = b.from
           /\ \E b \in Bounds(group, stride) : EventFrom(group, stride).to = b.to
           /\ \A b \in Bounds(group, stride) :
                 /\ EventFrom(group, stride).start <= b.start
                 /\ b.end <= EventFrom(group, stride).end
                 /\ EventFrom(group, stride).from <= b.from
                 /\ b.to <= EventFrom(group, stride).to
           /\ \A item \in group :
                 /\ item.rule \in EventFrom(group, stride).rules
                 /\ SeverityRank(item.severity) <= SeverityRank(EventFrom(group, stride).severity)
<1> DEFINE B == Bounds(group, stride)
           e == EventFrom(group, stride)
           ranks == { SeverityRank(item.severity) : item \in group }
<1>1. B \subseteq group /\ B # {}
  <2>1. BoundaryRule(group, stride) \in RulesOf(group)
    BY BoundaryIsOne
  <2> QED
    BY <2>1 DEF Bounds, RulesOf
<1>2. IsFiniteSet(B) /\ Typed(B, n)
  <2>1. Typed(B, n)
    BY <1>1 DEF Typed
  <2> QED
    BY <1>1, <2>1, FS_Subset
<1>3. /\ e.start = Min({ b.start : b \in B }) /\ e.end = Max({ b.end : b \in B })
      /\ e.from = Min({ b.from : b \in B }) /\ e.to = Max({ b.to : b \in B })
      /\ e.rules = RulesOf(group) /\ e.severity = Severities[Max(ranks)]
  BY DEF EventFrom, Bounds
<1>4. ranks \in SUBSET (1..4) /\ ranks # {}
  BY RankIs DEF Typed, SeveritySet
<1>5. Max(ranks) \in ranks /\ \A r \in ranks : r <= Max(ranks)
  <2> HIDE DEF ranks
  <2>1. 1 \in Int /\ 4 \in Int
    OBVIOUS
  <2> QED
    BY <1>4, <2>1, Extremes
<1>6. ASSUME NEW item \in group
      PROVE  item.rule \in e.rules /\ SeverityRank(item.severity) <= SeverityRank(e.severity)
  <2>1. SeverityRank(e.severity) = Max(ranks)
    BY <1>3, <1>4, <1>5, RankIs
  <2> QED
    BY <1>3, <1>5, <2>1 DEF RulesOf
<1> HIDE DEF e, B
<1>7. /\ \E b \in B : Min({ g.start : g \in B }) = b.start
      /\ \E b \in B : Max({ g.end : g \in B }) = b.end
      /\ \E b \in B : Min({ g.from : g \in B }) = b.from
      /\ \E b \in B : Max({ g.to : g \in B }) = b.to
      /\ \A b \in B : /\ Min({ g.start : g \in B }) <= b.start
                       /\ b.end <= Max({ g.end : g \in B })
                       /\ Min({ g.from : g \in B }) <= b.from
                       /\ b.to <= Max({ g.to : g \in B })
  BY <1>1, <1>2, GroupExtremes
<1>8. /\ \E b \in B : e.start = b.start
      /\ \E b \in B : e.end = b.end
      /\ \E b \in B : e.from = b.from
      /\ \E b \in B : e.to = b.to
      /\ \A b \in B : e.start <= b.start /\ b.end <= e.end /\ e.from <= b.from /\ b.to <= e.to
  BY <1>3, <1>7
<1> QED
  BY <1>1, <1>6, <1>8 DEF e, B

\* Failures whose times are those of their samples in the recording s.
Localised(found, s) ==
    \A item \in found :
        /\ item.start < item.end /\ item.from < item.to
        /\ item.start = BoundTime(s, item.from)
        /\ item.end = BoundTime(s, item.to)

\* Failures that start before they end.
Proper(found) == \A item \in found : item.start < item.end /\ item.from < item.to

\* TrajectoryIntegrityEvent.validate_interval: an event of proper failures is valid.
LEMMA ProperEvents ==
    ASSUME NEW n \in Nat, NEW group, Typed(group, n), IsFiniteSet(group), group # {}, Proper(group), NEW stride
    PROVE  EventIsValid(EventFrom(group, stride))
<1>1. PICK e, B : e = EventFrom(group, stride) /\ B = Bounds(group, stride)
  OBVIOUS
<1>2. /\ B \subseteq group
      /\ \E b \in B : e.start = b.start
      /\ \E b \in B : e.end = b.end
      /\ \E b \in B : e.from = b.from
      /\ \E b \in B : e.to = b.to
      /\ \A b \in B : e.start <= b.start /\ b.end <= e.end /\ e.from <= b.from /\ b.to <= e.to
  BY <1>1, EventSpans
<1>3. PICK first, last, left, right \in B :
         e.start = first.start /\ e.end = last.end /\ e.from = left.from /\ e.to = right.to
  BY <1>2
<1>4. \A b \in B : /\ b.start \in Int /\ b.end \in Int /\ b.start < b.end
                  /\ b.from \in 1..n /\ b.to \in 1..(n + 1) /\ b.from < b.to
  BY <1>2 DEF Typed, Proper
<1>5. e.start < e.end
  BY <1>2, <1>3, <1>4
<1>6. e.from < e.to /\ e.from > 0
  BY <1>2, <1>3, <1>4
<1>7. e.primary \in e.rules
  <2>1. RulesOf(group) \subseteq RuleSet /\ RulesOf(group) # {}
    BY BoundaryIsOne
  <2>2. e.primary = PrimaryOf(RulesOf(group)) /\ e.rules = RulesOf(group)
    BY <1>1 DEF EventFrom
  <2> QED
    BY <2>1, <2>2, PrimaryIsOne
<1> QED
  BY <1>1, <1>5, <1>6, <1>7 DEF EventIsValid

\* A valid recording, and failures of one rule in it.
OneRule(F, rule, s) ==
    /\ s \in Seq(ReferenceSample) /\ StructurallyValid(s)
    /\ Typed(F, Len(s)) /\ Keyed(F) /\ Localised(F, s)
    /\ \A item \in F : item.rule = rule

\* In order of time they are in order of their samples.
LEMMA OrderIsOfSamples ==
    ASSUME NEW F, NEW rule, NEW s, OneRule(F, rule, s), NEW q, Sorted(q, F)
    PROVE  /\ \A i \in 1..Len(q) : q[i] \in F
           /\ \A i, j \in 1..Len(q) : i < j => q[i].from < q[j].from
<1>1. \A i \in 1..Len(q) : q[i] \in F
  BY DEF Sorted
<1>2. ASSUME NEW i \in 1..Len(q), NEW j \in 1..Len(q), i < j
      PROVE  q[i].from < q[j].from
  <2>1. PICK a, b \in F : a = q[i] /\ b = q[j]
    BY <1>1
  <2>2. Before(a, b)
    BY <1>2, <2>1 DEF Sorted
  <2>3. /\ a.from \in 1..Len(s) /\ b.from \in 1..Len(s)
        /\ a.start = BoundTime(s, a.from) /\ b.start = BoundTime(s, b.from)
        /\ a.start \in Int /\ b.start \in Int /\ a.end \in Int /\ b.end \in Int
        /\ a.rule = b.rule /\ RuleRank(a.rule) \in Int
    <3>1. /\ a.from \in 1..Len(s) /\ b.from \in 1..Len(s) /\ a.rule \in RuleSet
          /\ a.start \in Int /\ b.start \in Int /\ a.end \in Int /\ b.end \in Int
      BY DEF OneRule, Typed
    <3>2. a.start = BoundTime(s, a.from) /\ b.start = BoundTime(s, b.from) /\ a.rule = b.rule
      BY DEF OneRule, Localised
    <3>3. RuleRank(a.rule) \in 1..9
      BY <3>1, RankIs
    <3> QED
      BY <3>1, <3>2, <3>3
  <2>4. a.start <= b.start
    BY <2>2, <2>3 DEF Before
  <2>5. a.from # b.from
    <3>1. a.from = b.from => a = b
      BY <2>3 DEF OneRule, Keyed
    <3>2. ~Before(a, a)
      BY <2>3 DEF Before
    <3> QED
      BY <2>2, <3>1, <3>2
  <2>6. ~(b.from < a.from)
    <3> SUFFICES ASSUME b.from < a.from PROVE FALSE
      OBVIOUS
    <3>1. s \in Seq(ReferenceSample) /\ StructurallyValid(s) /\ Len(s) \in Nat /\ Len(s) >= 1
      BY <2>3 DEF OneRule
    <3>2. a.from \in 1..(Len(s) + 1) /\ b.from \in 1..(Len(s) + 1)
      BY <2>3, <3>1
    <3>3. BoundTime(s, b.from) < BoundTime(s, a.from)
      BY <3>1, <3>2, BoundsIncrease
    <3> QED
      BY <2>3, <2>4, <3>3
  <2> QED
    BY <2>1, <2>3, <2>5, <2>6
<1> QED
  BY <1>1, <1>2

(***************************************************************************)
(* Pairs of jumps.                                                         *)
(***************************************************************************)

\* The jumps that pair with the next one, and those that stay alone.
Firsts(jumps) ==
    { n \in 1..Len(jumps) : Cursor(jumps)[n] /\ n < Len(jumps) /\ Opposite(jumps[n], jumps[n + 1]) }

Alones(jumps) == { n \in 1..Len(jumps) : Cursor(jumps)[n] } \ Firsts(jumps)

\* Steps from one sample to the next.
AreSteps(J) == \A item \in J : item.to = item.from + 1 /\ item.vector # NoVector

\* What _pair_position_steps returns for the jumps q.
PairedExactly(q) ==
    /\ \A item \in Paired(q) : \/ \E i \in Alones(q) : item = q[i]
                               \/ \E i \in Firsts(q) : item = PairOf(q[i], q[i + 1])
    /\ \A i \in 1..Len(q) : q[i] \in Paired(q) <=> i \in Alones(q)
    /\ \A i \in 1..(Len(q) - 1) : PairOf(q[i], q[i + 1]) \in Paired(q) <=> i \in Firsts(q)

\* Pairs and single jumps are told apart.
LEMMA PairsAreTold ==
    ASSUME NEW J, NEW s, OneRule(J, "position_jump", s), AreSteps(J), NEW q, Sorted(q, J)
    PROVE  PairedExactly(q)
<1>1. /\ \A i \in 1..Len(q) : q[i] \in J
      /\ \A i, j \in 1..Len(q) : i < j => q[i].from < q[j].from
  BY OrderIsOfSamples
<1>2. \A i \in 1..Len(q) : q[i].from \in Int /\ q[i].to = q[i].from + 1 /\ q[i].vector # NoVector
  BY <1>1 DEF OneRule, Typed, AreSteps
<1>3. Len(q) \in Nat
  BY DEF Sorted
<1>4. \A i, j \in 1..Len(q) : q[i].from = q[j].from => i = j
  <2> SUFFICES ASSUME NEW i \in 1..Len(q), NEW j \in 1..Len(q), q[i].from = q[j].from
               PROVE  i = j
    OBVIOUS
  <2>1. ~(q[i].from < q[j].from) /\ ~(q[j].from < q[i].from)
    BY <1>2
  <2>2. ~(i < j) /\ ~(j < i)
    BY <1>1, <2>1
  <2> QED
    BY <2>2
<1>5. Paired(q) = { PairOf(q[i], q[i + 1]) : i \in Firsts(q) } \cup { q[i] : i \in Alones(q) }
  <2>1. { n \in { k \in 1..Len(q) : Cursor(q)[k] } : n < Len(q) /\ Opposite(q[n], q[n + 1]) } = Firsts(q)
    BY DEF Firsts
  <2> QED
    BY <2>1, Zenon DEF Paired, Alones
<1>6. \A a, b : /\ PairOf(a, b).from = a.to /\ PairOf(a, b).vector = NoVector
  BY DEF PairOf, Item
<1>7. Firsts(q) \subseteq 1..(Len(q) - 1) /\ Alones(q) \subseteq 1..Len(q)
  BY <1>3 DEF Firsts, Alones
<1>8. ASSUME NEW i \in 1..Len(q)
      PROVE  q[i] \in Paired(q) <=> i \in Alones(q)
  <2>1. ASSUME NEW k \in Firsts(q) PROVE q[i] # PairOf(q[k], q[k + 1])
    BY <1>2, <1>6
  <2>2. ASSUME NEW k \in Alones(q), q[i] = q[k] PROVE i \in Alones(q)
    BY <1>4, <1>7, <2>2
  <2> QED
    BY <1>5, <2>1, <2>2
<1>9. ASSUME NEW i \in 1..(Len(q) - 1)
      PROVE  PairOf(q[i], q[i + 1]) \in Paired(q) <=> i \in Firsts(q)
  <2>1. i \in 1..Len(q)
    BY <1>3
  <2>2. ASSUME NEW k \in Firsts(q), PairOf(q[i], q[i + 1]) = PairOf(q[k], q[k + 1]) PROVE i \in Firsts(q)
    <3>1. k \in 1..Len(q)
      BY <1>3, <1>7
    <3>2. q[i].to = q[k].to
      BY <1>6, <2>2
    <3>3. q[i].from = q[k].from
      BY <1>2, <2>1, <3>1, <3>2
    <3>4. i = k
      BY <1>4, <2>1, <3>1, <3>3
    <3> QED
      BY <3>4
  <2>3. ASSUME NEW k \in Alones(q) PROVE PairOf(q[i], q[i + 1]) # q[k]
    BY <1>2, <1>6, <1>7
  <2> QED
    BY <1>5, <2>2, <2>3
<1>10. \A item \in Paired(q) : \/ \E i \in Alones(q) : item = q[i]
                               \/ \E i \in Firsts(q) : item = PairOf(q[i], q[i + 1])
  BY <1>5
<1> QED
  BY <1>8, <1>9, <1>10 DEF PairedExactly

\* What PairingIsComplete says of the jumps before and after.
EachOnce(before, after) ==
    LET Alone(i) == before[i] \in after
        Pair(i) == i < Len(before) /\ PairOf(before[i], before[i + 1]) \in after
    IN  /\ \A i \in DOMAIN before :
              Cardinality({ way \in {"alone", "out", "back"} :
                  CASE way = "alone" -> Alone(i)
                    [] way = "out"   -> Pair(i)
                    [] way = "back"  -> i > 1 /\ Pair(i - 1) }) = 1
        /\ \A i \in 1..(Len(before) - 1) :
              Alone(i) /\ Alone(i + 1) => ~Opposite(before[i], before[i + 1])

\* Each jump is used once, and no two neighbours that fit stay alone.
LEMMA PairingUsesOnce ==
    ASSUME NEW J, NEW s, OneRule(J, "position_jump", s), AreSteps(J), NEW q, Sorted(q, J)
    PROVE  EachOnce(q, Paired(q))
<1> DEFINE Alone(i) == q[i] \in Paired(q)
           Pair(i) == i < Len(q) /\ PairOf(q[i], q[i + 1]) \in Paired(q)
<1>1. PairedExactly(q)
  BY PairsAreTold
<1>2. Len(q) \in Nat /\ DOMAIN q = 1..Len(q)
  BY DEF Sorted
<1>3. \A n \in 1..Len(q) :
        Cursor(q)[n] <=> n = 1 \/ ~(Cursor(q)[n - 1] /\ Opposite(q[n - 1], q[n]))
  BY <1>2, CursorStops
<1>4. \A i \in 1..Len(q) : Alone(i) <=> i \in Alones(q)
  BY <1>1 DEF PairedExactly
<1>5. \A i \in 1..Len(q) : Pair(i) <=> i \in Firsts(q)
  <2> SUFFICES ASSUME NEW i \in 1..Len(q) PROVE Pair(i) <=> i \in Firsts(q)
    OBVIOUS
  <2>1. CASE i < Len(q)
    <3>1. i \in 1..(Len(q) - 1)
      BY <1>2, <2>1
    <3> QED
      BY <1>1, <2>1, <3>1 DEF PairedExactly
  <2>2. CASE ~(i < Len(q))
    BY <2>2 DEF Firsts
  <2> QED
    BY <2>1, <2>2
<1> HIDE DEF Alone, Pair
<1>6. ASSUME NEW i \in 1..Len(q)
      PROVE  \E one \in {"alone", "out", "back"} :
               /\ Alone(i) <=> one = "alone"
               /\ Pair(i) <=> one = "out"
               /\ i > 1 /\ Pair(i - 1) <=> one = "back"
  <2>1. i > 1 => i - 1 \in 1..Len(q) /\ i - 1 + 1 = i /\ i - 1 < Len(q)
    BY <1>2
  <2>2. i > 1 /\ Pair(i - 1) <=> i > 1 /\ Cursor(q)[i - 1] /\ Opposite(q[i - 1], q[i])
    <3>1. CASE i > 1
      <4>1. i - 1 \in Firsts(q) <=> Cursor(q)[i - 1] /\ Opposite(q[i - 1], q[i])
        BY <2>1, <3>1 DEF Firsts
      <4> QED
        BY <1>5, <2>1, <3>1, <4>1
    <3> QED
      BY <3>1
  <2>3. Cursor(q)[i] <=> ~(i > 1 /\ Pair(i - 1))
    <3>1. i = 1 <=> ~(i > 1)
      BY <1>2
    <3> QED
      BY <1>3, <2>2, <3>1, Zenon
  <2>4. CASE i > 1 /\ Pair(i - 1)
    <3>1. ~Alone(i) /\ ~Pair(i)
      BY <1>4, <1>5, <2>3, <2>4 DEF Alones, Firsts
    <3> QED
      BY <2>4, <3>1
  <2>5. CASE ~(i > 1 /\ Pair(i - 1)) /\ i \in Firsts(q)
    <3>1. ~Alone(i) /\ Pair(i)
      BY <1>4, <1>5, <2>5 DEF Alones
    <3> QED
      BY <2>5, <3>1
  <2>6. CASE ~(i > 1 /\ Pair(i - 1)) /\ i \notin Firsts(q)
    <3>1. Alone(i) /\ ~Pair(i)
      BY <1>4, <1>5, <2>3, <2>6 DEF Alones
    <3> QED
      BY <2>6, <3>1
  <2> QED
    BY <2>4, <2>5, <2>6
<1>7. ASSUME NEW i \in 1..Len(q)
      PROVE  Cardinality({ way \in {"alone", "out", "back"} :
                CASE way = "alone" -> Alone(i)
                  [] way = "out"   -> Pair(i)
                  [] way = "back"  -> i > 1 /\ Pair(i - 1) }) = 1
  <2>1. PICK one \in {"alone", "out", "back"} :
               /\ Alone(i) <=> one = "alone"
               /\ Pair(i) <=> one = "out"
               /\ i > 1 /\ Pair(i - 1) <=> one = "back"
    BY <1>6
  <2>2. { way \in {"alone", "out", "back"} :
                CASE way = "alone" -> Alone(i)
                  [] way = "out"   -> Pair(i)
                  [] way = "back"  -> i > 1 /\ Pair(i - 1) } = {one}
    BY <2>1
  <2> QED
    BY <2>2, FS_Singleton
<1>8. ASSUME NEW i \in 1..(Len(q) - 1), Alone(i), Alone(i + 1)
      PROVE  ~Opposite(q[i], q[i + 1])
  <2>1. i \in 1..Len(q) /\ i < Len(q)
    BY <1>2
  <2> QED
    BY <1>4, <1>8, <2>1 DEF Alones, Firsts
<1> QED
  BY <1>2, <1>7, <1>8 DEF EachOnce, Alone, Pair

\* The paired failures are failures of the recording.
LEMMA PairedAreFailures ==
    ASSUME NEW J, NEW s, OneRule(J, "position_jump", s), AreSteps(J), NEW q, Sorted(q, J)
    PROVE  OneRule(Paired(q), "position_jump", s)
<1>1. /\ \A i \in 1..Len(q) : q[i] \in J
      /\ \A i, j \in 1..Len(q) : i < j => q[i].from < q[j].from
  BY OrderIsOfSamples
<1>2. PairedExactly(q)
  BY PairsAreTold
<1>3. /\ Len(q) \in Nat /\ s \in Seq(ReferenceSample) /\ StructurallyValid(s) /\ Len(s) \in Nat
  BY DEF Sorted, OneRule
<1>4. Firsts(q) \subseteq 1..(Len(q) - 1) /\ Alones(q) \subseteq 1..Len(q)
  BY <1>3 DEF Firsts, Alones
<1>5. ASSUME NEW i \in Firsts(q)
      PROVE  /\ i \in 1..Len(q) /\ i + 1 \in 1..Len(q) /\ q[i] \in J /\ q[i + 1] \in J
             /\ q[i].from < q[i + 1].from
  BY <1>1, <1>3, <1>4
<1>6. ASSUME NEW a \in J, NEW b \in J, a.from < b.from
      PROVE  /\ PairOf(a, b).rule = "position_jump" /\ PairOf(a, b).severity \in SeveritySet
             /\ PairOf(a, b).from = a.from + 1 /\ PairOf(a, b).to = b.to
             /\ PairOf(a, b).from \in 1..Len(s) /\ PairOf(a, b).to \in 1..(Len(s) + 1)
             /\ PairOf(a, b).from < PairOf(a, b).to
             /\ PairOf(a, b).start = BoundTime(s, PairOf(a, b).from)
             /\ PairOf(a, b).end = BoundTime(s, PairOf(a, b).to)
             /\ PairOf(a, b).start \in Int /\ PairOf(a, b).end \in Int
             /\ PairOf(a, b).start < PairOf(a, b).end
  <2>1. /\ PairOf(a, b).rule = "position_jump" /\ PairOf(a, b).severity = "CRITICAL"
        /\ PairOf(a, b).from = a.to /\ PairOf(a, b).to = b.to
        /\ PairOf(a, b).start = a.end /\ PairOf(a, b).end = b.end
    BY DEF PairOf, Item
  <2>2. /\ a.from \in 1..Len(s) /\ b.from \in 1..Len(s) /\ a.to \in 1..(Len(s) + 1) /\ b.to \in 1..(Len(s) + 1)
        /\ a.to = a.from + 1 /\ b.to = b.from + 1
        /\ a.end = BoundTime(s, a.to) /\ b.end = BoundTime(s, b.to)
        /\ a.end \in Int /\ b.end \in Int
    BY DEF OneRule, Typed, Localised, AreSteps
  <2>3. a.to \in 1..Len(s) /\ a.to < b.to
    BY <1>3, <1>6, <2>2
  <2>4. a.end < b.end
    <3>1. Len(s) >= 1
      BY <1>3, <2>2
    <3>2. BoundTime(s, a.to) < BoundTime(s, b.to)
      BY <1>3, <2>2, <2>3, <3>1, BoundsIncrease
    <3> QED
      BY <2>2, <3>2
  <2>5. "CRITICAL" \in SeveritySet
    <3>1. Severities[3] = "CRITICAL" /\ 3 \in 1..4
      BY DEF Severities
    <3> QED
      BY <3>1 DEF SeveritySet
  <2> QED
    BY <2>1, <2>2, <2>3, <2>4, <2>5
<1>7. ASSUME NEW item \in Paired(q)
      PROVE  item \in J \/ \E a, b \in J : a.from < b.from /\ item = PairOf(a, b)
  <2>1. CASE \E i \in Alones(q) : item = q[i]
    BY <1>1, <1>4, <2>1
  <2>2. CASE \E i \in Firsts(q) : item = PairOf(q[i], q[i + 1])
    BY <1>5, <2>2
  <2> QED
    BY <1>2, <2>1, <2>2 DEF PairedExactly
<1>8. "position_jump" \in RuleSet
  <2>1. TrajectoryRules[6] = "position_jump" /\ 6 \in 1..9
    BY DEF TrajectoryRules
  <2> QED
    BY <2>1 DEF RuleSet
<1>9. /\ Typed(Paired(q), Len(s)) /\ Localised(Paired(q), s)
      /\ \A item \in Paired(q) : item.rule = "position_jump"
  <2> SUFFICES ASSUME NEW item \in Paired(q)
               PROVE  /\ item.rule = "position_jump"
                      /\ item.severity \in SeveritySet
                      /\ item.start \in Int /\ item.end \in Int
                      /\ item.from \in 1..Len(s) /\ item.to \in 1..(Len(s) + 1)
                      /\ item.start < item.end /\ item.from < item.to
                      /\ item.start = BoundTime(s, item.from)
                      /\ item.end = BoundTime(s, item.to)
    BY <1>8 DEF Typed, Localised
  <2>1. CASE item \in J
    BY <2>1 DEF OneRule, Typed, Localised
  <2>2. CASE \E a, b \in J : a.from < b.from /\ item = PairOf(a, b)
    BY <1>6, <2>2
  <2> QED
    BY <1>7, <2>1, <2>2
<1>10. Keyed(Paired(q))
  <2> SUFFICES ASSUME NEW x \in Paired(q), NEW y \in Paired(q), x.from = y.from
               PROVE  x = y
    BY DEF Keyed
  \* The alone jump i and the pair from j start at different samples.
  <2>1. ASSUME NEW i \in Alones(q), NEW j \in Firsts(q), q[i].from = q[j].from + 1
        PROVE  FALSE
    <3>1. i \in 1..Len(q) /\ j \in 1..Len(q) /\ j + 1 \in 1..Len(q)
      BY <1>4, <1>5
    <3>2. \A k \in 1..Len(q) : q[k].from \in Int
      BY <1>1 DEF OneRule, Typed
    <3>3. ~(i < j + 1)
      <4>1. i < j + 1 => i = j \/ i < j
        BY <3>1
      <4>2. i < j => q[i].from < q[j].from
        BY <1>1, <3>1
      <4> QED
        BY <2>1, <3>1, <3>2, <4>1, <4>2
    <3>4. ~(j + 1 < i)
      <4>1. j + 1 < i => q[j + 1].from < q[i].from
        BY <1>1, <3>1
      <4> QED
        BY <1>5, <2>1, <3>1, <3>2, <4>1
    <3>5. i = j + 1
      BY <3>1, <3>3, <3>4
    <3>6. ~Cursor(q)[i]
      <4>1. Cursor(q)[j] /\ Opposite(q[j], q[j + 1])
        BY DEF Firsts
      <4>2. Cursor(q)[j + 1] <=> j + 1 = 1 \/ ~(Cursor(q)[j + 1 - 1] /\ Opposite(q[j + 1 - 1], q[j + 1]))
        BY <1>3, <3>1, CursorStops
      <4>3. j + 1 # 1 /\ j + 1 - 1 = j
        BY <3>1
      <4> QED
        BY <3>5, <4>1, <4>2, <4>3
    <3> QED
      BY <3>6 DEF Alones
  <2>2. ASSUME NEW j \in Firsts(q)
        PROVE  PairOf(q[j], q[j + 1]).from = q[j].from + 1
    BY <1>5, <1>6
  <2>3. ASSUME NEW i \in 1..Len(q), NEW j \in 1..Len(q), q[i].from = q[j].from
        PROVE  i = j
    <3>1. q[i].from \in Int /\ q[j].from \in Int
      BY <1>1 DEF OneRule, Typed
    <3>2. ~(i < j) /\ ~(j < i)
      BY <1>1, <2>3, <3>1
    <3> QED
      BY <3>2
  <2>4. CASE \E i, j \in Alones(q) : x = q[i] /\ y = q[j]
    BY <1>4, <2>3, <2>4
  <2>5. CASE \E i \in Alones(q), j \in Firsts(q) : x = q[i] /\ y = PairOf(q[j], q[j + 1])
    BY <2>1, <2>2, <2>5
  <2>6. CASE \E i \in Alones(q), j \in Firsts(q) : y = q[i] /\ x = PairOf(q[j], q[j + 1])
    BY <2>1, <2>2, <2>6
  <2>7. CASE \E i, j \in Firsts(q) : x = PairOf(q[i], q[i + 1]) /\ y = PairOf(q[j], q[j + 1])
    <3>1. PICK i, j \in Firsts(q) : x = PairOf(q[i], q[i + 1]) /\ y = PairOf(q[j], q[j + 1])
      BY <2>7
    <3>2. q[i].from + 1 = q[j].from + 1
      BY <2>2, <3>1
    <3>3. q[i].from = q[j].from
      <4>1. q[i].from \in Int /\ q[j].from \in Int
        BY <1>5 DEF OneRule, Typed
      <4> QED
        BY <3>2, <4>1
    <3>4. i = j
      BY <1>5, <2>3, <3>3
    <3> QED
      BY <3>1, <3>4
  <2> QED
    BY <1>2, <2>4, <2>5, <2>6, <2>7 DEF PairedExactly
<1> QED
  BY <1>3, <1>9, <1>10 DEF OneRule

(***************************************************************************)
(* Runs of freezes.                                                        *)
(***************************************************************************)

\* The joined freezes are failures of the recording.
LEMMA FrozenAreFailures ==
    ASSUME NEW J, NEW s, OneRule(J, "position_freeze", s), NEW q, Sorted(q, J)
    PROVE  OneRule(Frozen(q), "position_freeze", s)
<1>1. /\ \A i \in 1..Len(q) : q[i] \in J
      /\ \A i, j \in 1..Len(q) : i < j => q[i].from < q[j].from
  BY OrderIsOfSamples
<1>2. /\ Len(q) \in Nat /\ s \in Seq(ReferenceSample) /\ StructurallyValid(s) /\ Len(s) \in Nat
  BY DEF Sorted, OneRule
<1>3. ASSUME NEW i \in 1..Len(q)
      PROVE  RunEnd(q, i) \in i..Len(q)
  <2> DEFINE ends == { m \in i..Len(q) : m = Len(q) \/ m + 1 \in RunStarts(q) }
  <2>1. ends \in SUBSET (i..Len(q)) /\ ends # {}
    BY <1>2
  <2>2. i \in Int /\ Len(q) \in Int
    BY <1>2
  <2>3. Min(ends) \in ends
    <3> HIDE DEF ends
    <3> QED
      BY <2>1, <2>2, Extremes
  <2> QED
    BY <2>3 DEF RunEnd
<1>4. \A i \in 1..Len(q) :
         /\ q[i].from \in 1..Len(s) /\ q[i].to \in 1..(Len(s) + 1) /\ q[i].from < q[i].to
         /\ q[i].start = BoundTime(s, q[i].from) /\ q[i].end = BoundTime(s, q[i].to)
         /\ q[i].start \in Int /\ q[i].end \in Int
  BY <1>1 DEF OneRule, Typed, Localised
<1>5. \A a, b : /\ FreezeOf(a, b).rule = "position_freeze" /\ FreezeOf(a, b).severity = "CRITICAL"
                /\ FreezeOf(a, b).from = a.from /\ FreezeOf(a, b).to = b.to
                /\ FreezeOf(a, b).start = a.start /\ FreezeOf(a, b).end = b.end
  BY DEF FreezeOf, Item
<1>6. ASSUME NEW item \in Frozen(q)
      PROVE  \E i, j \in 1..Len(q) : i <= j /\ j = RunEnd(q, i) /\ item = FreezeOf(q[i], q[j])
  <2>1. PICK i \in RunStarts(q) : item = FreezeOf(q[i], q[RunEnd(q, i)])
    BY DEF Frozen
  <2>2. i \in 1..Len(q)
    BY <2>1 DEF RunStarts
  <2>3. RunEnd(q, i) \in 1..Len(q) /\ i <= RunEnd(q, i)
    BY <1>2, <1>3, <2>2
  <2> QED
    BY <2>1, <2>2, <2>3
<1>7. ASSUME NEW i \in 1..Len(q), NEW j \in 1..Len(q), i <= j
      PROVE  q[i].from < q[j].to /\ q[i].start < q[j].end
  <2>1. q[i].from <= q[j].from
    <3>1. i = j \/ i < j
      BY <1>7
    <3>2. q[i].from \in Int /\ q[j].from \in Int
      BY <1>4
    <3> QED
      BY <1>1, <3>1, <3>2
  <2>2. q[i].from < q[j].to
    BY <1>4, <2>1
  <2>3. q[i].from \in 1..(Len(s) + 1) /\ q[j].to \in 1..(Len(s) + 1) /\ Len(s) >= 1
    BY <1>2, <1>4
  <2>4. BoundTime(s, q[i].from) < BoundTime(s, q[j].to)
    BY <1>2, <2>2, <2>3, BoundsIncrease
  <2> QED
    BY <1>4, <2>2, <2>4
<1>8. "position_freeze" \in RuleSet /\ "CRITICAL" \in SeveritySet
  <2>1. TrajectoryRules[5] = "position_freeze" /\ 5 \in 1..9 /\ Severities[3] = "CRITICAL" /\ 3 \in 1..4
    BY DEF TrajectoryRules, Severities
  <2> QED
    BY <2>1 DEF RuleSet, SeveritySet
<1>9. /\ Typed(Frozen(q), Len(s)) /\ Localised(Frozen(q), s)
      /\ \A item \in Frozen(q) : item.rule = "position_freeze"
  <2> SUFFICES ASSUME NEW item \in Frozen(q)
               PROVE  /\ item.rule = "position_freeze" /\ item.severity = "CRITICAL"
                      /\ item.start \in Int /\ item.end \in Int
                      /\ item.from \in 1..Len(s) /\ item.to \in 1..(Len(s) + 1)
                      /\ item.start < item.end /\ item.from < item.to
                      /\ item.start = BoundTime(s, item.from)
                      /\ item.end = BoundTime(s, item.to)
    BY <1>8 DEF Typed, Localised
  <2>1. PICK i, j \in 1..Len(q) : i <= j /\ item = FreezeOf(q[i], q[j])
    BY <1>6
  <2>2. /\ item.rule = "position_freeze" /\ item.severity = "CRITICAL"
        /\ item.from = q[i].from /\ item.to = q[j].to
        /\ item.start = q[i].start /\ item.end = q[j].end
    BY <1>5, <2>1
  <2>3. q[i].from < q[j].to /\ q[i].start < q[j].end
    BY <1>7, <2>1
  <2> QED
    BY <1>4, <2>2, <2>3
<1>10. Keyed(Frozen(q))
  <2> SUFFICES ASSUME NEW x \in Frozen(q), NEW y \in Frozen(q), x.from = y.from
               PROVE  x = y
    BY DEF Keyed
  <2>1. PICK i, k \in 1..Len(q) : k = RunEnd(q, i) /\ x = FreezeOf(q[i], q[k])
    BY <1>6
  <2>2. PICK j, l \in 1..Len(q) : l = RunEnd(q, j) /\ y = FreezeOf(q[j], q[l])
    BY <1>6
  <2>3. q[i].from = q[j].from
    BY <1>5, <2>1, <2>2
  <2>4. i = j
    <3>1. q[i].from \in Int /\ q[j].from \in Int
      BY <1>4
    <3>2. ~(i < j) /\ ~(j < i)
      BY <1>1, <2>3, <3>1
    <3> QED
      BY <3>2
  <2> QED
    BY <2>1, <2>2, <2>4
<1> QED
  BY <1>2, <1>9, <1>10 DEF OneRule

(***************************************************************************)
(* Groups and events.                                                      *)
(***************************************************************************)

\* Every failure of the first n is in a group, and a group begins later than
\* the adjacency after all of the group before it.
Separated(groups, q, n, stride) ==
    /\ groups \in Seq(SUBSET { q[k] : k \in 1..n })
    /\ \A i \in 1..Len(groups) : groups[i] # {}
    /\ \A k \in 1..n : \E i \in 1..Len(groups) : q[k] \in groups[i]
    /\ \A i \in 1..Len(groups) : i > 1 =>
         \A x \in groups[i], y \in groups[i - 1] : x.start > y.end + Adjacency(stride)

\* The adjacency is a number.
LEMMA AdjacencyIsNumber ==
    ASSUME NEW stride \in Int
    PROVE  Adjacency(stride) \in Int
<1>1. TrajectoryLimits.adjacency \in Int /\ TrajectoryLimits.clear \in Int
  BY TrajectoryLimitsAssumption DEF ValidTrajectoryLimits
<1>2. PICK a, b \in Int : a = TrajectoryLimits.adjacency /\ b = TrajectoryLimits.clear * stride
  BY <1>1
<1>3. Max({a, b}) \in Int
  BY ExtremesOfTwo
<1> QED
  BY <1>2, <1>3 DEF Adjacency

\* A failure that joins no group is later than the adjacency after the last one.
LEMMA JoinsOrIsLater ==
    ASSUME NEW n \in Nat, NEW group, Typed(group, n), IsFiniteSet(group), group # {},
           NEW item, item.start \in Int, NEW stride \in Int, ~Joins(group, item, stride), NEW y \in group
    PROVE  item.start > y.end + Adjacency(stride)
<1>1. PICK last \in Int : last = Max({ g.end : g \in group })
  <2>1. \E b \in group : Max({ g.end : g \in group }) = b.end
    BY GroupExtremes
  <2> QED
    BY <2>1 DEF Typed
<1>2. y.end <= last
  <2>1. y.end <= Max({ g.end : g \in group })
    BY GroupExtremes
  <2> QED
    BY <1>1, <2>1
<1>3. PICK a \in Int : a = Adjacency(stride)
  BY AdjacencyIsNumber
<1>4. ~(item.start <= last + a)
  BY <1>1, <1>3 DEF Joins
<1>5. y.end \in Int
  BY DEF Typed
<1> QED
  BY <1>1, <1>2, <1>3, <1>4, <1>5

\* _consolidate_events separates the failures it has sorted.
LEMMA GroupsAreSeparated ==
    ASSUME NEW n \in Nat, NEW F, Typed(F, n), Keyed(F), NEW q, Sorted(q, F), NEW stride \in Int
    PROVE  Separated(GroupedItems(q, stride), q, Len(q), stride)
<1> DEFINE G == Groupings(q, stride)
           P == { m \in Nat : m <= Len(q) => Separated(G[m], q, m, stride) }
<1>1. Len(q) \in Nat /\ \A i \in 1..Len(q) : q[i] \in F
  BY DEF Sorted
<1>2. /\ G[0] = <<>>
      /\ \A m \in 1..Len(q) : G[m] = Extended(G[m - 1], q[m], stride)
  BY <1>1, GroupingsExtend
<1>3. IsFiniteSet(F)
  BY FailuresAreOrdered
<1>4. \A i \in 1..Len(q) : q[i].start \in Int /\ q[i].end \in Int
  BY <1>1 DEF Typed
<1> HIDE DEF G
<1>5. 0 \in P
  <2>1. <<>> \in Seq(SUBSET { q[k] : k \in 1..0 })
    OBVIOUS
  <2>2. Len(<<>>) = 0 /\ 1..0 = {}
    OBVIOUS
  <2>3. Separated(<<>>, q, 0, stride)
    BY <2>1, <2>2 DEF Separated
  <2> QED
    BY <1>2, <2>3
<1>6. ASSUME NEW m \in Nat, m \in P
      PROVE  m + 1 \in P
  <2> SUFFICES ASSUME m + 1 <= Len(q) PROVE Separated(G[m + 1], q, m + 1, stride)
    BY <1>6
  <2>1. PICK old : old = G[m] /\ Separated(old, q, m, stride)
    BY <1>1, <1>6
  <2>2. PICK x : x = q[m + 1] /\ x \in F /\ m + 1 \in 1..Len(q)
    BY <1>1
  <2>3. G[m + 1] = Extended(old, x, stride)
    BY <1>2, <2>1, <2>2
  <2>9. PICK S, T : S = { q[k] : k \in 1..m } /\ T = { q[k] : k \in 1..(m + 1) }
    OBVIOUS
  <2>4. T = S \cup {x} /\ S \subseteq F /\ T \subseteq F
    BY <1>1, <2>2, <2>9
  <2>5. /\ old \in Seq(SUBSET S) /\ Len(old) \in Nat
        /\ \A i \in 1..Len(old) : old[i] # {} /\ old[i] \subseteq S
    <3>1. old \in Seq(SUBSET S)
      BY <2>1, <2>9 DEF Separated
    <3> QED
      BY <2>1, <3>1 DEF Separated
  <2>6. PICK last \in Nat : last = Len(old)
    BY <2>5
  <2>7. CASE old # <<>> /\ Joins(old[Len(old)], x, stride)
    <3>1. last \in 1..last
      BY <2>5, <2>6, <2>7
    <3>2. G[m + 1] = [old EXCEPT ![last] = @ \cup {x}]
      BY <2>3, <2>6, <2>7 DEF Extended
    <3>3. PICK new : new = G[m + 1]
      OBVIOUS
    <3>4. /\ new \in Seq(SUBSET T) /\ Len(new) = last
          /\ new[last] = old[last] \cup {x}
          /\ \A i \in 1..last : i # last => new[i] = old[i]
      <4>1. DOMAIN old = 1..last /\ old \in [1..last -> SUBSET S]
        BY <2>5, <2>6
      <4>2. new = [i \in 1..last |-> IF i = last THEN old[last] \cup {x} ELSE old[i]]
        BY <3>1, <3>2, <3>3, <4>1
      <4>3. ASSUME NEW i \in 1..last PROVE new[i] \in SUBSET T
        <5>1. old[i] \subseteq S /\ old[last] \subseteq S
          BY <3>1, <4>1
        <5>2. S \cup {x} = T
          BY <2>4
        <5>3. new[i] = IF i = last THEN old[last] \cup {x} ELSE old[i]
          BY <4>2
        <5> QED
          BY <5>1, <5>2, <5>3
      <4>4. new \in [1..last -> SUBSET T]
        BY <4>2, <4>3
      <4>5. new \in Seq(SUBSET T) /\ Len(new) = last
        BY <4>4
      <4>6. new[last] = old[last] \cup {x}
        BY <3>1, <4>2
      <4>7. \A i \in 1..last : i # last => new[i] = old[i]
        BY <4>2
      <4> QED
        BY <4>5, <4>6, <4>7
    <3>5. \A i \in 1..last : old[i] \subseteq new[i]
      BY <3>4
    <3>6. \A i \in 1..last : new[i] # {}
      BY <2>5, <2>6, <3>5
    <3>7. ASSUME NEW k \in 1..(m + 1)
          PROVE  \E i \in 1..last : q[k] \in new[i]
      <4>1. CASE k = m + 1
        BY <2>2, <3>1, <3>4, <4>1
      <4>2. CASE k \in 1..m
        <5>1. PICK i \in 1..last : q[k] \in old[i]
          BY <2>1, <2>6, <4>2 DEF Separated
        <5> QED
          BY <3>5, <5>1
      <4> QED
        BY <4>1, <4>2
    <3>8. ASSUME NEW i \in 1..last, i > 1, NEW u \in new[i], NEW y \in new[i - 1]
          PROVE  u.start > y.end + Adjacency(stride)
      <4>1. i - 1 \in 1..last /\ i - 1 # last /\ y \in old[i - 1]
        BY <3>4, <3>8
      <4>2. \A z \in old[i] : z.start > y.end + Adjacency(stride)
        BY <2>1, <2>6, <3>8, <4>1 DEF Separated
      <4>3. CASE u \in old[i]
        BY <4>2, <4>3
      <4>4. CASE u = x
        <5>1. PICK z \in old[i] : TRUE
          BY <2>5, <2>6
        <5>2. PICK k \in 1..m : z = q[k]
          <6>1. z \in S
            BY <2>5, <2>6, <5>1
          <6> QED
            BY <2>9, <6>1
        <5>3. Before(z, x)
          <6>1. k \in 1..Len(q) /\ k < m + 1
            BY <1>1
          <6> QED
            BY <2>2, <5>2, <6>1 DEF Sorted
        <5>4. z.start \in Int /\ x.start \in Int /\ y.end \in Int /\ Adjacency(stride) \in Int
          <6>1. z \in F /\ y \in F
            BY <2>4, <2>5, <2>6, <4>1, <5>1
          <6> QED
            BY <2>2, <6>1, AdjacencyIsNumber DEF Typed
        <5>5. z.start <= x.start
          BY <5>3, <5>4 DEF Before
        <5>6. z.start > y.end + Adjacency(stride)
          BY <4>2, <5>1
        <5> QED
          BY <4>4, <5>4, <5>5, <5>6
      <4>5. u \in old[i] \/ u = x
        BY <3>4, <3>8
      <4> QED
        BY <4>3, <4>4, <4>5
    <3>9. new \in Seq(SUBSET { q[k] : k \in 1..(m + 1) })
      BY <2>9, <3>4
    <3> QED
      BY <3>3, <3>4, <3>6, <3>7, <3>8, <3>9 DEF Separated
  <2>8. CASE ~(old # <<>> /\ Joins(old[Len(old)], x, stride))
    <3>1. PICK new : new = G[m + 1] /\ new = Append(old, {x})
      BY <2>3, <2>8 DEF Extended
    <3>2. /\ new \in Seq(SUBSET T) /\ Len(new) = last + 1
          /\ new[last + 1] = {x}
          /\ \A i \in 1..last : new[i] = old[i]
      <4>1. {x} \in SUBSET T
        BY <2>4
      <4>2. old \in Seq(SUBSET T)
        <5>1. \A i \in 1..Len(old) : old[i] \in SUBSET T
          BY <2>4, <2>5
        <5> QED
          BY <2>5, <5>1
      <4> QED
        BY <2>6, <3>1, <4>1, <4>2
    <3>3. \A i \in 1..(last + 1) : i = last + 1 \/ i \in 1..last
      OBVIOUS
    <3>4. \A i \in 1..(last + 1) : new[i] # {}
      BY <2>5, <2>6, <3>2, <3>3
    <3>5. ASSUME NEW k \in 1..(m + 1)
          PROVE  \E i \in 1..(last + 1) : q[k] \in new[i]
      <4>1. CASE k = m + 1
        BY <2>2, <3>2, <4>1
      <4>2. CASE k \in 1..m
        <5>1. PICK i \in 1..last : q[k] \in old[i]
          BY <2>1, <2>6, <4>2 DEF Separated
        <5>2. i \in 1..(last + 1)
          OBVIOUS
        <5> QED
          BY <3>2, <5>1, <5>2
      <4> QED
        BY <4>1, <4>2
    <3>6. ASSUME NEW i \in 1..(last + 1), i > 1, NEW u \in new[i], NEW y \in new[i - 1]
          PROVE  u.start > y.end + Adjacency(stride)
      <4>1. i - 1 \in 1..last /\ y \in old[i - 1]
        BY <3>2, <3>6
      <4>2. CASE i \in 1..last
        BY <2>1, <2>6, <3>2, <3>6, <4>1, <4>2 DEF Separated
      <4>3. CASE i = last + 1
        <5>1. u = x /\ y \in old[last] /\ last \in 1..last
          BY <3>2, <3>6, <4>1, <4>3
        <5>2. old # <<>>
          BY <2>6, <5>1
        <5>3. old[last] \subseteq F
          BY <2>4, <2>5, <2>6, <5>1
        <5>4. Typed(old[last], n) /\ IsFiniteSet(old[last]) /\ old[last] # {}
          <6>1. Typed(old[last], n)
            BY <5>3 DEF Typed
          <6> QED
            BY <1>3, <5>1, <5>3, <6>1, FS_Subset
        <5>5. ~Joins(old[last], x, stride)
          BY <2>6, <2>8, <5>2
        <5>6. x.start \in Int
          BY <2>2 DEF Typed
        <5> QED
          BY <5>1, <5>4, <5>5, <5>6, JoinsOrIsLater
      <4> QED
        BY <3>3, <4>2, <4>3
    <3>7. new \in Seq(SUBSET { q[k] : k \in 1..(m + 1) })
      BY <2>9, <3>2
    <3> QED
      BY <3>1, <3>2, <3>4, <3>5, <3>6, <3>7 DEF Separated
  <2> QED
    BY <2>7, <2>8
<1> HIDE DEF P
<1>7. Len(q) \in P
  BY <1>1, <1>5, <1>6, NumberInduction
<1> QED
  BY <1>1, <1>7 DEF P, G, GroupedItems

(***************************************************************************)
(* The report.                                                             *)
(***************************************************************************)

\* The report of a recording's failures.
EventsOf(found, stride) ==
    LET groups == GroupedItems(InOrder(found), stride)
    IN  [i \in DOMAIN groups |-> EventFrom(groups[i], stride)]

\* Events are apart, and each failure is in one that has its rule and is as severe.
Complete(report, found, stride) ==
    /\ \A i \in 2..Len(report) : report[i].start > report[i - 1].end + Adjacency(stride)
    /\ \A item \in found : \E e \in Range(report) :
          /\ item.rule \in e.rules
          /\ SeverityRank(item.severity) <= SeverityRank(e.severity)

\* What the groups of a report hold.
LEMMA GroupsOfReport ==
    ASSUME NEW n \in Nat, NEW F, Typed(F, n), Keyed(F), NEW stride \in Int
    PROVE  \E groups, q :
             /\ Sorted(q, F) /\ Separated(groups, q, Len(q), stride)
             /\ EventsOf(F, stride) = [i \in 1..Len(groups) |-> EventFrom(groups[i], stride)]
             /\ Len(groups) \in Nat
             /\ \A i \in 1..Len(groups) :
                  /\ groups[i] \subseteq F /\ Typed(groups[i], n) /\ IsFiniteSet(groups[i])
                  /\ groups[i] # {}
<1>1. IsFiniteSet(F) /\ Ordered(F)
  BY FailuresAreOrdered
<1>2. PICK q : q = InOrder(F) /\ Sorted(q, F)
  BY <1>1, InOrderSorts
<1>3. PICK groups : groups = GroupedItems(q, stride) /\ Separated(groups, q, Len(q), stride)
  BY <1>2, GroupsAreSeparated
<1>4. PICK S : S = { q[k] : k \in 1..Len(q) } /\ S \subseteq F
  <2>1. \A k \in 1..Len(q) : q[k] \in F
    BY <1>2 DEF Sorted
  <2> QED
    BY <2>1
<1>5. groups \in Seq(SUBSET S)
  BY <1>3, <1>4 DEF Separated
<1>6. ASSUME NEW i \in 1..Len(groups)
      PROVE  /\ groups[i] \subseteq F /\ Typed(groups[i], n) /\ IsFiniteSet(groups[i])
             /\ groups[i] # {}
  <2>1. groups[i] \subseteq F
    BY <1>4, <1>5
  <2>2. groups[i] # {}
    BY <1>3 DEF Separated
  <2>3. Typed(groups[i], n)
    BY <2>1 DEF Typed
  <2>4. IsFiniteSet(groups[i])
    BY <1>1, <2>1, FS_Subset
  <2> QED
    BY <2>1, <2>2, <2>3, <2>4
<1>7. DOMAIN groups = 1..Len(groups) /\ Len(groups) \in Nat
  BY <1>5
<1>8. EventsOf(F, stride) = [i \in 1..Len(groups) |-> EventFrom(groups[i], stride)]
  BY <1>2, <1>3, <1>7, Zenon DEF EventsOf
<1> QED
  BY <1>2, <1>3, <1>6, <1>7, <1>8

\* A report is separate and complete.
LEMMA ReportIsComplete ==
    ASSUME NEW n \in Nat, NEW F, Typed(F, n), Keyed(F), NEW stride \in Int
    PROVE  Complete(EventsOf(F, stride), F, stride)
<1>1. PICK groups, q :
             /\ Sorted(q, F) /\ Separated(groups, q, Len(q), stride)
             /\ EventsOf(F, stride) = [i \in 1..Len(groups) |-> EventFrom(groups[i], stride)]
             /\ Len(groups) \in Nat
             /\ \A i \in 1..Len(groups) :
                  /\ groups[i] \subseteq F /\ Typed(groups[i], n) /\ IsFiniteSet(groups[i])
                  /\ groups[i] # {}
  BY GroupsOfReport
<1>2. PICK report : report = EventsOf(F, stride)
  OBVIOUS
<1>3. Len(report) = Len(groups) /\ \A i \in 1..Len(groups) : report[i] = EventFrom(groups[i], stride)
  BY <1>1, <1>2
<1>4. ASSUME NEW i \in 2..Len(report)
      PROVE  report[i].start > report[i - 1].end + Adjacency(stride)
  <2>1. i \in 1..Len(groups) /\ i - 1 \in 1..Len(groups) /\ i > 1
    BY <1>1, <1>3
  <2>2. \E b \in groups[i] : report[i].start = b.start
    BY <1>1, <1>3, <2>1, EventSpans
  <2>3. \E b \in groups[i - 1] : report[i - 1].end = b.end
    BY <1>1, <1>3, <2>1, EventSpans
  <2>4. \A x \in groups[i], y \in groups[i - 1] : x.start > y.end + Adjacency(stride)
    BY <1>1, <2>1 DEF Separated
  <2> QED
    BY <2>2, <2>3, <2>4
<1>5. ASSUME NEW item \in F
      PROVE  \E e \in Range(report) :
                /\ item.rule \in e.rules
                /\ SeverityRank(item.severity) <= SeverityRank(e.severity)
  <2>1. PICK k \in 1..Len(q) : q[k] = item
    BY <1>1 DEF Sorted
  <2>2. PICK i \in 1..Len(groups) : item \in groups[i]
    BY <1>1, <2>1 DEF Separated
  <2>3. report[i] \in Range(report)
    BY <1>1, <1>2, <2>2 DEF Range
  <2>4. /\ item.rule \in report[i].rules
        /\ SeverityRank(item.severity) <= SeverityRank(report[i].severity)
    <3>1. PICK group : group = groups[i]
      OBVIOUS
    <3>2. Typed(group, n) /\ IsFiniteSet(group) /\ group # {} /\ item \in group
      BY <1>1, <2>2, <3>1
    <3>3. /\ item.rule \in EventFrom(group, stride).rules
          /\ SeverityRank(item.severity) <= SeverityRank(EventFrom(group, stride).severity)
      BY <3>2, EventSpans
    <3> QED
      BY <1>3, <3>1, <3>3
  <2> QED
    BY <2>3, <2>4
<1> QED
  BY <1>2, <1>4, <1>5 DEF Complete

\* The events of proper failures are valid.
LEMMA ReportIsValid ==
    ASSUME NEW n \in Nat, NEW F, Typed(F, n), Keyed(F), Proper(F), NEW stride \in Int
    PROVE  \A e \in Range(EventsOf(F, stride)) : EventIsValid(e)
<1>1. PICK groups, q :
             /\ Sorted(q, F) /\ Separated(groups, q, Len(q), stride)
             /\ EventsOf(F, stride) = [i \in 1..Len(groups) |-> EventFrom(groups[i], stride)]
             /\ Len(groups) \in Nat
             /\ \A i \in 1..Len(groups) :
                  /\ groups[i] \subseteq F /\ Typed(groups[i], n) /\ IsFiniteSet(groups[i])
                  /\ groups[i] # {}
  BY GroupsOfReport
<1>2. ASSUME NEW e \in Range(EventsOf(F, stride))
      PROVE  EventIsValid(e)
  <2>1. PICK i \in 1..Len(groups) : e = EventFrom(groups[i], stride)
    BY <1>1 DEF Range
  <2>2. PICK group : group = groups[i]
    OBVIOUS
  <2>3. Typed(group, n) /\ IsFiniteSet(group) /\ group # {} /\ group \subseteq F
    BY <1>1, <2>2
  <2>4. Proper(group)
    BY <2>3 DEF Proper
  <2> QED
    BY <2>1, <2>2, <2>3, <2>4, ProperEvents
<1> QED
  BY <1>2

\* The events of located failures are located.
LEMMA ReportIsLocalised ==
    ASSUME NEW s \in Seq(ReferenceSample), StructurallyValid(s), NEW F, Typed(F, Len(s)), Keyed(F),
           Localised(F, s), NEW stride \in Int
    PROVE  Localised(Range(EventsOf(F, stride)), s)
<1>1. PICK n \in Nat : n = Len(s)
  OBVIOUS
<1>2. PICK groups, q :
             /\ Sorted(q, F) /\ Separated(groups, q, Len(q), stride)
             /\ EventsOf(F, stride) = [i \in 1..Len(groups) |-> EventFrom(groups[i], stride)]
             /\ Len(groups) \in Nat
             /\ \A i \in 1..Len(groups) :
                  /\ groups[i] \subseteq F /\ Typed(groups[i], n) /\ IsFiniteSet(groups[i])
                  /\ groups[i] # {}
  <2>1. Typed(F, n)
    BY <1>1
  <2> QED
    BY <2>1, GroupsOfReport
<1>3. ASSUME NEW e \in Range(EventsOf(F, stride))
      PROVE  /\ e.start < e.end /\ e.from < e.to
             /\ e.start = BoundTime(s, e.from)
             /\ e.end = BoundTime(s, e.to)
  <2>1. PICK i \in 1..Len(groups) : e = EventFrom(groups[i], stride)
    BY <1>2 DEF Range
  <2>2. PICK group : group = groups[i]
    OBVIOUS
  <2>3. group \subseteq F /\ Typed(group, n) /\ IsFiniteSet(group) /\ group # {} /\ e = EventFrom(group, stride)
    BY <1>2, <2>1, <2>2
  <2>4. PICK B : B = Bounds(group, stride)
    OBVIOUS
  <2>5. /\ B \subseteq group
        /\ \E b \in B : e.start = b.start
        /\ \E b \in B : e.end = b.end
        /\ \E b \in B : e.from = b.from
        /\ \E b \in B : e.to = b.to
        /\ \A b \in B : e.start <= b.start /\ b.end <= e.end /\ e.from <= b.from /\ b.to <= e.to
    BY <2>3, <2>4, EventSpans
  <2>6. PICK first, last, left, right \in B :
           e.start = first.start /\ e.end = last.end /\ e.from = left.from /\ e.to = right.to
    BY <2>5
  <2>7. ASSUME NEW b \in B
        PROVE  /\ b.from \in 1..(n + 1) /\ b.to \in 1..(n + 1) /\ b.from < b.to
               /\ b.start \in Int /\ b.end \in Int /\ b.start < b.end
               /\ b.start = BoundTime(s, b.from) /\ b.end = BoundTime(s, b.to)
               /\ e.start <= b.start /\ b.end <= e.end /\ e.from <= b.from /\ b.to <= e.to
    <3>1. b \in F
      BY <2>3, <2>5
    <3>2. b.from \in 1..n /\ b.to \in 1..(n + 1) /\ b.start \in Int /\ b.end \in Int
      BY <1>1, <3>1 DEF Typed
    <3>3. /\ b.start < b.end /\ b.from < b.to
          /\ b.start = BoundTime(s, b.from) /\ b.end = BoundTime(s, b.to)
      BY <3>1 DEF Localised
    <3> QED
      BY <2>5, <3>2, <3>3
  <2>8. Len(s) >= 1
    BY <1>1, <2>3, <2>5, <2>6 DEF Typed
  <2>9. ASSUME NEW i1 \in 1..(n + 1), NEW j1 \in 1..(n + 1), i1 <= j1
        PROVE  BoundTime(s, i1) <= BoundTime(s, j1)
    <3>1. BoundTime(s, i1) \in Int /\ BoundTime(s, j1) \in Int
      BY <1>1, <2>8, BoundsIncrease
    <3>2. i1 < j1 => BoundTime(s, i1) < BoundTime(s, j1)
      BY <1>1, <2>8, BoundsIncrease
    <3>3. i1 < j1 \/ i1 = j1
      BY <2>9
    <3> QED
      BY <3>1, <3>2, <3>3
  <2>10. e.start = BoundTime(s, e.from)
    <3>1. left.from <= first.from
      BY <2>6, <2>7
    <3>2. left.start <= first.start
      BY <2>7, <2>9, <3>1
    <3>3. left.start = first.start
      <4>1. left.start \in Int /\ first.start \in Int /\ first.start <= left.start
        BY <2>6, <2>7
      <4> QED
        BY <3>2, <4>1
    <3> QED
      BY <2>6, <2>7, <3>3
  <2>11. e.end = BoundTime(s, e.to)
    <3>1. last.to <= right.to
      BY <2>6, <2>7
    <3>2. last.end <= right.end
      BY <2>7, <2>9, <3>1
    <3>3. last.end = right.end
      <4>1. last.end \in Int /\ right.end \in Int /\ right.end <= last.end
        BY <2>6, <2>7
      <4> QED
        BY <3>2, <4>1
    <3> QED
      BY <2>6, <2>7, <3>3
  <2>12. e.start < e.end
    <3>1. first.start \in Int /\ first.end \in Int /\ last.end \in Int /\ first.end <= last.end
      BY <2>6, <2>7
    <3> QED
      BY <2>6, <2>7, <3>1
  <2>13. e.from < e.to
    <3>1. left.from \in Int /\ left.to \in Int /\ right.to \in Int /\ left.to <= right.to
      BY <2>6, <2>7
    <3> QED
      BY <2>6, <2>7, <3>1
  <2> QED
    BY <2>10, <2>11, <2>12, <2>13
<1> QED
  BY <1>3 DEF Localised

(***************************************************************************)
(* What the inspection finds.                                              *)
(***************************************************************************)

\* The failure of a rule at a sample.
Made(s, rule, i) ==
    IF rule = "duplicate_timestamp" THEN Item(rule, s[i].t, s[i].t + 1, i, i + 1, "BLOCKING_ANALYSIS")
    ELSE IF rule = "timestamp_regression" THEN Item(rule, s[i + 1].t, s[i].t, i, i + 1, "BLOCKING_ANALYSIS")
    ELSE IF rule = "timestamp_gap" THEN Item(rule, s[i].t, s[i + 1].t, i, i + 1, "CRITICAL")
    ELSE IF rule = "coordinate_continuity"
    THEN Item(rule, s[i].t, IntervalEnd(s, i), i, i + 1, "BLOCKING_ANALYSIS")
    ELSE IF rule = "position_jump"
    THEN [Item(rule, s[i].t, s[i + 1].t, i, i + 1, "CRITICAL") EXCEPT !.vector = <<Residual2(s, i)>>]
    ELSE IF rule = "position_freeze"
    THEN LET last == Min({Len(s), i + 2}) IN Item(rule, s[i].t, s[last].t, i, last, "CRITICAL")
    ELSE Item(rule, s[i].t, IntervalEnd(s, i), i, i + 1, "WARNING")

\* Rules on the step from a sample to the next one.
StepRules == {"duplicate_timestamp", "timestamp_regression", "timestamp_gap", "position_jump", "position_freeze"}

\* Failures as they are found: each at a sample, with a step where the rule needs one.
FoundIn(found, s, rules) ==
    \A item \in found : \E i \in 1..Len(s) :
        /\ item.rule \in rules /\ item = Made(s, item.rule, i)
        /\ item.rule \in StepRules => i < Len(s)

\* The end of an interval is a number.
LEMMA IntervalEndIsNumber ==
    ASSUME NEW s \in Seq(ReferenceSample), NEW i \in 1..Len(s)
    PROVE  s[i].t \in Int /\ IntervalEnd(s, i) \in Int /\ s[i].t < IntervalEnd(s, i)
<1>1. Len(s) \in Nat /\ \A k \in 1..Len(s) : s[k].t \in Int
  <2>1. \A k \in 1..Len(s) : s[k] \in ReferenceSample
    OBVIOUS
  <2> QED
    BY <2>1 DEF ReferenceSample
<1>2. PICK step \in Int : step = Stride(s)
  BY StrideIsNumber
<1>3. Max({1, step}) \in Int /\ Max({1, step}) >= 1
  <2>1. 1 \in Int
    OBVIOUS
  <2>2. Max({1, step}) = (IF 1 <= step THEN step ELSE 1)
    BY <2>1, ExtremesOfTwo
  <2> QED
    BY <2>2
<1>4. i < Len(s) => s[i + 1].t \in Int
  BY <1>1
<1> QED
  BY <1>1, <1>2, <1>3, <1>4 DEF IntervalEnd

\* The rules are rules.
LEMMA RulesAre ==
    /\ RuleSet = {"timestamp_regression", "duplicate_timestamp", "timestamp_gap", "coordinate_continuity",
                  "position_freeze", "position_jump", "reference_position_residual", "velocity_residual",
                  "derivative"}
    /\ StructuralRules = {"timestamp_regression", "duplicate_timestamp", "timestamp_gap",
                          "coordinate_continuity"}
    /\ {"WARNING", "CRITICAL", "BLOCKING_ANALYSIS"} \subseteq SeveritySet
<1>1. /\ TrajectoryRules[1] = "timestamp_regression" /\ TrajectoryRules[2] = "duplicate_timestamp"
      /\ TrajectoryRules[3] = "timestamp_gap" /\ TrajectoryRules[4] = "coordinate_continuity"
      /\ TrajectoryRules[5] = "position_freeze" /\ TrajectoryRules[6] = "position_jump"
      /\ TrajectoryRules[7] = "reference_position_residual"
      /\ TrajectoryRules[8] = "velocity_residual" /\ TrajectoryRules[9] = "derivative"
  BY DEF TrajectoryRules
<1>2. 1..9 = {1, 2, 3, 4, 5, 6, 7, 8, 9} /\ 1..4 = {1, 2, 3, 4}
  OBVIOUS
<1>3. RuleSet = { TrajectoryRules[i] : i \in {1, 2, 3, 4, 5, 6, 7, 8, 9} }
  BY <1>2 DEF RuleSet
<1>4. StructuralRules = { TrajectoryRules[i] : i \in {1, 2, 3, 4} }
  BY <1>2 DEF StructuralRules
<1>5. Severities[2] = "WARNING" /\ Severities[3] = "CRITICAL" /\ Severities[4] = "BLOCKING_ANALYSIS"
  BY DEF Severities
<1>6. SeveritySet = { Severities[i] : i \in {1, 2, 3, 4} }
  BY <1>2 DEF SeveritySet
<1> QED
  BY <1>1, <1>3, <1>4, <1>5, <1>6

\* A failure as it is found has its rule, its sample and numbers for times.
LEMMA MadeIs ==
    ASSUME NEW s \in Seq(ReferenceSample), NEW rule \in RuleSet, NEW i \in 1..Len(s),
           rule \in StepRules => i < Len(s)
    PROVE  /\ Made(s, rule, i).rule = rule /\ Made(s, rule, i).from = i
           /\ Made(s, rule, i).severity \in SeveritySet
           /\ Made(s, rule, i).start \in Int /\ Made(s, rule, i).end \in Int
           /\ Made(s, rule, i).to \in 1..(Len(s) + 1)
           /\ rule = "position_jump" => Made(s, rule, i).to = i + 1 /\ Made(s, rule, i).vector # NoVector
<1>1. s[i].t \in Int /\ IntervalEnd(s, i) \in Int
  BY IntervalEndIsNumber
<1>2. i < Len(s) => s[i + 1].t \in Int
  <2>1. i < Len(s) => i + 1 \in 1..Len(s)
    OBVIOUS
  <2> QED
    BY <2>1, IntervalEndIsNumber
<1>3. \A r, a, b, c, d, e :
        /\ Item(r, a, b, c, d, e).rule = r /\ Item(r, a, b, c, d, e).from = c
        /\ Item(r, a, b, c, d, e).severity = e /\ Item(r, a, b, c, d, e).to = d
        /\ Item(r, a, b, c, d, e).start = a /\ Item(r, a, b, c, d, e).end = b
  BY DEF Item
<1>4. i \in 1..(Len(s) + 1) /\ i + 1 \in 1..(Len(s) + 1)
  OBVIOUS
<1>5. CASE rule = "position_jump"
  <2>1. PICK r : r = Residual2(s, i)
    OBVIOUS
  <2>2. Made(s, rule, i) =
          [Item(rule, s[i].t, s[i + 1].t, i, i + 1, "CRITICAL") EXCEPT !.vector = <<r>>]
    BY <1>5, <2>1 DEF Made
  <2>3. /\ Made(s, rule, i).rule = rule /\ Made(s, rule, i).from = i /\ Made(s, rule, i).to = i + 1
        /\ Made(s, rule, i).severity = "CRITICAL" /\ Made(s, rule, i).start = s[i].t
        /\ Made(s, rule, i).end = s[i + 1].t /\ Made(s, rule, i).vector = <<r>>
    BY <2>2 DEF Item
  <2>4. i < Len(s)
    BY <1>5 DEF StepRules
  <2>5. <<r>> # <<>>
    OBVIOUS
  <2>6. Made(s, rule, i).start \in Int /\ Made(s, rule, i).end \in Int
    BY <1>1, <1>2, <2>3, <2>4
  <2>7. Made(s, rule, i).severity \in SeveritySet
    BY <2>3, RulesAre
  <2>8. Made(s, rule, i).to \in 1..(Len(s) + 1)
    BY <1>4, <2>3
  <2>9. Made(s, rule, i).vector # NoVector
    BY <2>3, <2>5 DEF NoVector
  <2> QED
    BY <2>3, <2>6, <2>7, <2>8, <2>9
<1>6. CASE rule = "position_freeze"
  <2>1. Len(s) \in Int /\ i + 2 \in Int
    OBVIOUS
  <2>2. PICK last \in Int : last = Min({Len(s), i + 2})
    BY <2>1, ExtremesOfTwo
  <2>3. last = IF Len(s) <= i + 2 THEN Len(s) ELSE i + 2
    BY <2>1, <2>2, ExtremesOfTwo
  <2>4. last \in 1..Len(s) /\ last \in 1..(Len(s) + 1)
    BY <1>6, <2>3 DEF StepRules
  <2>5. s[last].t \in Int
    BY <2>4, IntervalEndIsNumber
  <2>6. Made(s, rule, i) = Item(rule, s[i].t, s[last].t, i, last, "CRITICAL")
    BY <1>6, <2>2 DEF Made
  <2> QED
    BY <1>1, <1>3, <1>6, <2>4, <2>5, <2>6, RulesAre
<1>7. CASE rule \in {"duplicate_timestamp", "timestamp_regression", "timestamp_gap"}
  BY <1>1, <1>2, <1>3, <1>4, <1>7, RulesAre DEF Made, StepRules
<1>8. CASE rule = "coordinate_continuity"
  BY <1>1, <1>3, <1>4, <1>8, RulesAre DEF Made
<1>9. CASE rule \in {"reference_position_residual", "velocity_residual", "derivative"}
  <2>1. Made(s, rule, i) = Item(rule, s[i].t, IntervalEnd(s, i), i, i + 1, "WARNING")
    BY <1>9 DEF Made
  <2> QED
    BY <1>1, <1>3, <1>4, <1>9, <2>1, RulesAre
<1> QED
  BY <1>5, <1>6, <1>7, <1>8, <1>9, RulesAre

\* In a valid recording it is located.
LEMMA MadeIsLocalised ==
    ASSUME NEW s \in Seq(ReferenceSample), StructurallyValid(s), NEW rule \in RuleSet,
           rule \notin {"duplicate_timestamp", "timestamp_regression"}, NEW i \in 1..Len(s),
           rule \in StepRules => i < Len(s)
    PROVE  /\ Made(s, rule, i).from < Made(s, rule, i).to
           /\ Made(s, rule, i).start < Made(s, rule, i).end
           /\ Made(s, rule, i).start = BoundTime(s, Made(s, rule, i).from)
           /\ Made(s, rule, i).end = BoundTime(s, Made(s, rule, i).to)
<1>1. Len(s) >= 1 /\ i \in 1..(Len(s) + 1) /\ i + 1 \in 1..(Len(s) + 1)
  OBVIOUS
<1>2. s[i].t = BoundTime(s, i) /\ IntervalEnd(s, i) = BoundTime(s, i + 1)
  BY <1>1, BoundsIncrease
<1>3. i < Len(s) => s[i + 1].t = BoundTime(s, i + 1)
  <2>1. i < Len(s) => i + 1 \in 1..Len(s)
    OBVIOUS
  <2> QED
    BY <1>1, <2>1, BoundsIncrease
<1>4. BoundTime(s, i) < BoundTime(s, i + 1) /\ i < i + 1
  BY <1>1, BoundsIncrease
<1>5. \A r, a, b, c, d, e :
        /\ Item(r, a, b, c, d, e).from = c /\ Item(r, a, b, c, d, e).to = d
        /\ Item(r, a, b, c, d, e).start = a /\ Item(r, a, b, c, d, e).end = b
  BY DEF Item
<1>6. CASE rule = "position_jump"
  <2>1. PICK r : r = Residual2(s, i)
    OBVIOUS
  <2>2. Made(s, rule, i) =
          [Item(rule, s[i].t, s[i + 1].t, i, i + 1, "CRITICAL") EXCEPT !.vector = <<r>>]
    BY <1>6, <2>1 DEF Made
  <2>3. /\ Made(s, rule, i).from = i /\ Made(s, rule, i).to = i + 1
        /\ Made(s, rule, i).start = s[i].t /\ Made(s, rule, i).end = s[i + 1].t
    BY <2>2 DEF Item
  <2> QED
    BY <1>2, <1>3, <1>4, <1>6, <2>3 DEF StepRules
<1>7. CASE rule = "position_freeze"
  <2>1. Len(s) \in Int /\ i + 2 \in Int
    OBVIOUS
  <2>2. PICK last \in Int : last = Min({Len(s), i + 2})
    BY <2>1, ExtremesOfTwo
  <2>3. last = IF Len(s) <= i + 2 THEN Len(s) ELSE i + 2
    BY <2>1, <2>2, ExtremesOfTwo
  <2>4. last \in 1..Len(s) /\ last \in 1..(Len(s) + 1) /\ i < last
    BY <1>7, <2>3 DEF StepRules
  <2>5. s[last].t = BoundTime(s, last) /\ BoundTime(s, i) < BoundTime(s, last)
    BY <1>1, <2>4, BoundsIncrease
  <2>6. Made(s, rule, i) = Item(rule, s[i].t, s[last].t, i, last, "CRITICAL")
    BY <1>7, <2>2 DEF Made
  <2> QED
    BY <1>2, <1>5, <2>4, <2>5, <2>6
<1>8. CASE rule = "timestamp_gap"
  BY <1>2, <1>3, <1>4, <1>5, <1>8 DEF Made, StepRules
<1>9. CASE rule = "coordinate_continuity"
  BY <1>2, <1>4, <1>5, <1>9 DEF Made
<1>10. CASE rule \in {"reference_position_residual", "velocity_residual", "derivative"}
  <2>1. Made(s, rule, i) = Item(rule, s[i].t, IntervalEnd(s, i), i, i + 1, "WARNING")
    BY <1>10 DEF Made
  <2> QED
    BY <1>2, <1>4, <1>5, <2>1
<1> QED
  BY <1>6, <1>7, <1>8, <1>9, <1>10, RulesAre

\* What is found is typed and told apart.
LEMMA FoundAreFailures ==
    ASSUME NEW s \in Seq(ReferenceSample), NEW rules, rules \subseteq RuleSet,
           NEW found, FoundIn(found, s, rules)
    PROVE  /\ Typed(found, Len(s)) /\ Keyed(found)
           /\ \A item \in found : item.rule \in rules
           /\ AreSteps(OfRule(found, "position_jump"))
           /\ (/\ StructurallyValid(s)
               /\ rules \cap {"duplicate_timestamp", "timestamp_regression"} = {}) => Localised(found, s)
<1>1. ASSUME NEW item \in found
      PROVE  \E i \in 1..Len(s) :
                /\ item.rule \in rules /\ item.rule \in RuleSet /\ item = Made(s, item.rule, i)
                /\ item.rule \in StepRules => i < Len(s)
                /\ item.from = i /\ item.severity \in SeveritySet
                /\ item.start \in Int /\ item.end \in Int /\ item.to \in 1..(Len(s) + 1)
                /\ item.rule = "position_jump" => item.to = i + 1 /\ item.vector # NoVector
  <2>1. PICK i \in 1..Len(s) :
              /\ item.rule \in rules /\ item = Made(s, item.rule, i)
              /\ item.rule \in StepRules => i < Len(s)
    BY DEF FoundIn
  <2>2. PICK rule \in RuleSet : rule = item.rule
    BY <2>1
  <2>3. /\ Made(s, rule, i).rule = rule /\ Made(s, rule, i).from = i
        /\ Made(s, rule, i).severity \in SeveritySet
        /\ Made(s, rule, i).start \in Int /\ Made(s, rule, i).end \in Int
        /\ Made(s, rule, i).to \in 1..(Len(s) + 1)
        /\ rule = "position_jump" => Made(s, rule, i).to = i + 1 /\ Made(s, rule, i).vector # NoVector
    BY <2>1, <2>2, MadeIs
  <2>4. item = Made(s, rule, i)
    BY <2>1, <2>2
  <2> QED
    BY <2>1, <2>2, <2>3, <2>4
<1>2. Typed(found, Len(s))
  BY <1>1 DEF Typed
<1>3. Keyed(found)
  <2> SUFFICES ASSUME NEW a \in found, NEW b \in found, a.rule = b.rule, a.from = b.from
               PROVE  a = b
    BY DEF Keyed
  <2>1. a = Made(s, a.rule, a.from) /\ b = Made(s, b.rule, b.from)
    BY <1>1
  <2> QED
    BY <2>1
<1>4. AreSteps(OfRule(found, "position_jump"))
  BY <1>1 DEF AreSteps, OfRule
<1>5. ASSUME StructurallyValid(s), rules \cap {"duplicate_timestamp", "timestamp_regression"} = {}
      PROVE  Localised(found, s)
  <2> SUFFICES ASSUME NEW item \in found
               PROVE  /\ item.start < item.end /\ item.from < item.to
                      /\ item.start = BoundTime(s, item.from)
                      /\ item.end = BoundTime(s, item.to)
    BY DEF Localised
  <2>1. PICK i \in 1..Len(s) :
                /\ item.rule \in rules /\ item.rule \in RuleSet /\ item = Made(s, item.rule, i)
                /\ item.rule \in StepRules => i < Len(s)
    BY <1>1
  <2>2. PICK rule \in RuleSet : rule = item.rule /\ rule \notin {"duplicate_timestamp", "timestamp_regression"}
    BY <1>5, <2>1
  <2>3. /\ Made(s, rule, i).from < Made(s, rule, i).to
        /\ Made(s, rule, i).start < Made(s, rule, i).end
        /\ Made(s, rule, i).start = BoundTime(s, Made(s, rule, i).from)
        /\ Made(s, rule, i).end = BoundTime(s, Made(s, rule, i).to)
    BY <1>5, <2>1, <2>2, MadeIsLocalised
  <2>4. item = Made(s, rule, i)
    BY <2>1, <2>2
  <2> QED
    BY <2>3, <2>4
<1> QED
  BY <1>1, <1>2, <1>3, <1>4, <1>5

\* The inspection of the structure finds failures of structural rules, and in a
\* valid structure gaps only.
LEMMA StructureFinds ==
    ASSUME NEW s \in Seq(ReferenceSample), NEW found, found = TimeFailures(s) \cup CoordinateFailures(s)
    PROVE  /\ FoundIn(found, s, StructuralRules)
           /\ StructurallyValid(s) => FoundIn(found, s, {"timestamp_gap"})
           /\ Proper(found)
<1>1. Steps(s) \subseteq 1..Len(s) /\ \A i \in Steps(s) : i < Len(s)
  BY DEF Steps
<1>2. \A r, a, b, c, d, e : Item(r, a, b, c, d, e).rule = r
  BY DEF Item
<1>3. ASSUME NEW item \in TimeFailures(s)
      PROVE  \E i \in Steps(s) :
               \/ item = Made(s, "duplicate_timestamp", i) /\ item.rule = "duplicate_timestamp" /\ Elapsed(s, i) = 0
               \/ item = Made(s, "timestamp_regression", i) /\ item.rule = "timestamp_regression" /\ Elapsed(s, i) < 0
               \/ item = Made(s, "timestamp_gap", i) /\ item.rule = "timestamp_gap"
  <2>1. CASE \E i \in Steps(s) : Elapsed(s, i) = 0
                 /\ item = Item("duplicate_timestamp", s[i].t, s[i].t + 1, i, i + 1, "BLOCKING_ANALYSIS")
    BY <1>2, <2>1 DEF Made
  <2>2. CASE \E i \in Steps(s) : Elapsed(s, i) < 0
                 /\ item = Item("timestamp_regression", s[i + 1].t, s[i].t, i, i + 1, "BLOCKING_ANALYSIS")
    BY <1>2, <2>2 DEF Made
  <2>3. CASE \E i \in Steps(s) : item = Item("timestamp_gap", s[i].t, s[i + 1].t, i, i + 1, "CRITICAL")
    BY <1>2, <2>3 DEF Made
  <2> QED
    BY <2>1, <2>2, <2>3 DEF TimeFailures
<1>4. ASSUME NEW item \in CoordinateFailures(s)
      PROVE  \E i \in 1..Len(s) : item = Made(s, "coordinate_continuity", i) /\ item.rule = "coordinate_continuity"
  <2>1. PICK i \in 1..Len(s) : item = Item("coordinate_continuity", s[i].t, IntervalEnd(s, i), i, i + 1, "BLOCKING_ANALYSIS")
    BY DEF CoordinateFailures
  <2> QED
    BY <1>2, <2>1 DEF Made
<1>5. FoundIn(found, s, StructuralRules)
  <2> SUFFICES ASSUME NEW item \in found
               PROVE  \E i \in 1..Len(s) :
                        /\ item.rule \in StructuralRules /\ item = Made(s, item.rule, i)
                        /\ item.rule \in StepRules => i < Len(s)
    BY DEF FoundIn
  <2>1. CASE item \in TimeFailures(s)
    BY <1>1, <1>3, <2>1, RulesAre
  <2>2. CASE item \in CoordinateFailures(s)
    BY <1>4, <2>2, RulesAre DEF StepRules
  <2> QED
    BY <2>1, <2>2
<1>6. ASSUME StructurallyValid(s) PROVE FoundIn(found, s, {"timestamp_gap"})
  <2> SUFFICES ASSUME NEW item \in found
               PROVE  \E i \in 1..Len(s) :
                        /\ item.rule = "timestamp_gap" /\ item = Made(s, item.rule, i)
                        /\ i < Len(s)
    BY DEF FoundIn
  <2>1. item \in TimeFailures(s) /\ \A i \in Steps(s) : Elapsed(s, i) > 0
    BY <1>6 DEF StructurallyValid
  <2>2. \A i \in Steps(s) : Elapsed(s, i) # 0 /\ ~(Elapsed(s, i) < 0)
    <3>1. \A i \in Steps(s) : Elapsed(s, i) \in Int
      <4>1. \A i \in Steps(s) : s[i].t \in Int /\ s[i + 1].t \in Int
        <5>1. \A i \in Steps(s) : i \in 1..Len(s) /\ i + 1 \in 1..Len(s)
          BY DEF Steps
        <5> QED
          BY <5>1, IntervalEndIsNumber
      <4> QED
        BY <4>1 DEF Elapsed
    <3> QED
      BY <2>1, <3>1
  <2> QED
    BY <1>1, <1>3, <2>1, <2>2
<1>7. ASSUME NEW item \in found
      PROVE  item.start < item.end /\ item.from < item.to
  <2>1. \A r, a, b, c, d, e :
          /\ Item(r, a, b, c, d, e).start = a /\ Item(r, a, b, c, d, e).end = b
          /\ Item(r, a, b, c, d, e).from = c /\ Item(r, a, b, c, d, e).to = d
    BY DEF Item
  <2>2. \A i \in Steps(s) : s[i].t \in Int /\ s[i + 1].t \in Int /\ i < i + 1
    <3>1. \A i \in Steps(s) : i \in 1..Len(s) /\ i + 1 \in 1..Len(s) /\ i < i + 1
      BY DEF Steps
    <3> QED
      BY <3>1, IntervalEndIsNumber
  <2>3. \A i \in 1..Len(s) : s[i].t < IntervalEnd(s, i) /\ i < i + 1
    BY IntervalEndIsNumber
  <2>4. CASE item \in CoordinateFailures(s)
    <3>1. PICK i \in 1..Len(s) :
            item = Item("coordinate_continuity", s[i].t, IntervalEnd(s, i), i, i + 1, "BLOCKING_ANALYSIS")
      BY <2>4 DEF CoordinateFailures
    <3> QED
      BY <2>1, <2>3, <3>1
  <2>5. CASE \E i \in Steps(s) : item = Item("duplicate_timestamp", s[i].t, s[i].t + 1, i, i + 1, "BLOCKING_ANALYSIS")
    BY <2>1, <2>2, <2>5
  <2>6. CASE \E i \in Steps(s) : Elapsed(s, i) < 0
                 /\ item = Item("timestamp_regression", s[i + 1].t, s[i].t, i, i + 1, "BLOCKING_ANALYSIS")
    BY <2>1, <2>2, <2>6 DEF Elapsed
  <2>7. CASE \E i \in Steps(s) : Elapsed(s, i) > TrajectoryLimits.gap
                 /\ item = Item("timestamp_gap", s[i].t, s[i + 1].t, i, i + 1, "CRITICAL")
    <3>1. TrajectoryLimits.gap \in Nat
      BY TrajectoryLimitsAssumption DEF ValidTrajectoryLimits
    <3> QED
      BY <2>1, <2>2, <2>7, <3>1 DEF Elapsed
  <2> QED
    BY <2>4, <2>5, <2>6, <2>7 DEF TimeFailures
<1>8. Proper(found)
  BY <1>7 DEF Proper
<1> QED
  BY <1>5, <1>6, <1>8

\* Rules on the content.
ContentRules == {"position_jump", "position_freeze", "velocity_residual", "reference_position_residual", "derivative"}

\* The inspection of the content finds failures of content rules.
LEMMA ContentFinds ==
    ASSUME NEW s \in Seq(ReferenceSample), NEW ref, NEW derivative \in DerivativeFailures(s), NEW found,
           found = JumpFailures(s) \cup VelocityFailures(s) \cup FreezeFailures(s)
                     \cup ReferenceFailures(s, ref) \cup derivative
    PROVE  FoundIn(found, s, ContentRules)
<1>1. Compared(s) \subseteq Steps(s) /\ Steps(s) \subseteq 1..Len(s) /\ \A i \in Steps(s) : i < Len(s)
  BY DEF Compared, Steps
<1>2. \A r, a, b, c, d, e : Item(r, a, b, c, d, e).rule = r
  BY DEF Item
<1>3. ASSUME NEW item \in JumpFailures(s)
      PROVE  \E i \in Steps(s) : item = Made(s, "position_jump", i) /\ item.rule = "position_jump"
  <2>1. PICK i \in Compared(s) : item = Made(s, "position_jump", i)
    BY DEF JumpFailures, Made
  <2>2. i \in 1..Len(s) /\ i < Len(s) /\ "position_jump" \in RuleSet
    BY <1>1, RulesAre
  <2> QED
    BY <1>1, <2>1, <2>2, MadeIs
<1>4. ASSUME NEW item \in FreezeFailures(s)
      PROVE  \E i \in Steps(s) : item = Made(s, "position_freeze", i) /\ item.rule = "position_freeze"
  <2>1. PICK i \in Compared(s) : item = Made(s, "position_freeze", i)
    BY DEF FreezeFailures, Made
  <2>2. i \in 1..Len(s) /\ i < Len(s) /\ "position_freeze" \in RuleSet
    BY <1>1, RulesAre
  <2> QED
    BY <1>1, <2>1, <2>2, MadeIs
<1>5. ASSUME NEW item \in VelocityFailures(s)
      PROVE  \E i \in 1..Len(s) : item = Made(s, "velocity_residual", i) /\ item.rule = "velocity_residual"
  <2>1. PICK i \in Compared(s) :
          item = Item("velocity_residual", s[i + 1].t, IntervalEnd(s, i + 1), i + 1, i + 2, "WARNING")
    BY DEF VelocityFailures
  <2>2. PICK k : k = i + 1
    OBVIOUS
  <2>3. k \in 1..Len(s) /\ i + 2 = k + 1
    BY <1>1, <2>2 DEF Steps
  <2>4. item = Item("velocity_residual", s[k].t, IntervalEnd(s, k), k, k + 1, "WARNING")
    BY <2>1, <2>2, <2>3
  <2> QED
    BY <1>2, <2>3, <2>4 DEF Made
<1>6. ASSUME NEW item \in ReferenceFailures(s, ref)
      PROVE  \E i \in 1..Len(s) : item = Made(s, "reference_position_residual", i) /\ item.rule = "reference_position_residual"
  <2>1. PICK i \in 1..Len(s) :
          item = Item("reference_position_residual", s[i].t, IntervalEnd(s, i), i, i + 1, "WARNING")
    BY DEF ReferenceFailures
  <2> QED
    BY <1>2, <2>1 DEF Made
<1>7. ASSUME NEW item \in derivative
      PROVE  \E i \in 1..Len(s) : item = Made(s, "derivative", i) /\ item.rule = "derivative"
  <2>1. PICK i \in 1..Len(s) : item = Item("derivative", s[i].t, IntervalEnd(s, i), i, i + 1, "WARNING")
    BY DEF DerivativeFailures
  <2> QED
    BY <1>2, <2>1 DEF Made
<1> SUFFICES ASSUME NEW item \in found
             PROVE  \E i \in 1..Len(s) :
                      /\ item.rule \in ContentRules /\ item = Made(s, item.rule, i)
                      /\ item.rule \in StepRules => i < Len(s)
  BY DEF FoundIn
<1>8. CASE item \in JumpFailures(s)
  BY <1>1, <1>3, <1>8 DEF ContentRules
<1>9. CASE item \in FreezeFailures(s)
  BY <1>1, <1>4, <1>9 DEF ContentRules
<1>10. CASE item \in VelocityFailures(s)
  BY <1>5, <1>10 DEF ContentRules, StepRules
<1>11. CASE item \in ReferenceFailures(s, ref)
  BY <1>6, <1>11 DEF ContentRules, StepRules
<1>12. CASE item \in derivative
  BY <1>7, <1>12 DEF ContentRules, StepRules
<1> QED
  BY <1>8, <1>9, <1>10, <1>11, <1>12

(***************************************************************************)
(* The inductive invariant of the detector.                                *)
(***************************************************************************)

\* In a recording s, at phase ph, with the failures it, the structure str and
\* the events ev.  Failures are of the recording and no two have rule and first
\* sample in common and all are proper; content rules ran on a valid recording
\* only; failures and events are localised in one; and before steps are paired
\* each jump is one step.
Sound(s, ph, it, str, ev) ==
    /\ Typed(it, Len(s)) /\ Keyed(it) /\ Proper(it)
    /\ \A e \in Range(ev) : EventIsValid(e)
    /\ str /\ (it # {} \/ ph \in {"content", "steps", "freezes", "events"}) => StructurallyValid(s)
    /\ ph = "structure" => ev = <<>>
    /\ ph = "content" => str
    /\ ~str \/ ph = "content" => \A item \in it : item.rule \in StructuralRules
    /\ str => Localised(it, s) /\ Localised(Range(ev), s)
    /\ ph = "steps" => AreSteps(OfRule(it, "position_jump"))
    /\ ph = "reported" => Complete(ev, it, Stride(s))

DetectorInv == RecordingInv /\ Sound(samples, phase, items, structural, tevents)

\* A step that leaves the report alone leaves it sound.
LEMMA SoundIsKept ==
    ASSUME NEW s, NEW ph, NEW it, NEW str, NEW ev, Sound(s, ph, it, str, ev),
           NEW next, next \notin {"structure", "content", "steps", "freezes", "events", "reported"}
    PROVE  Sound(s, next, it, str, ev)
BY DEF Sound

\* A new recording starts sound.
LEMMA SoundAtStart ==
    ASSUME NEW s, NEW ph \in {"idle", "structure"}
    PROVE  Sound(s, ph, {}, TRUE, <<>>)
<1>1. Range(<<>>) = {}
  BY DEF Range
<1> QED
  BY <1>1 DEF Sound, Typed, Keyed, Localised, Proper

\* The structural inspection.
LEMMA SoundStructure ==
    ASSUME NEW s \in Seq(ReferenceSample), NEW it, NEW str, NEW ev, Sound(s, "structure", it, str, ev),
           NEW found, found = TimeFailures(s) \cup CoordinateFailures(s),
           NEW ph, ph = IF StructurallyValid(s) THEN "content" ELSE "steps"
    PROVE  Sound(s, ph, found, StructurallyValid(s), ev)
<1>1. FoundIn(found, s, StructuralRules) /\ StructuralRules \subseteq RuleSet
  BY StructureFinds, RulesAre
<1>2. /\ Typed(found, Len(s)) /\ Keyed(found) /\ Proper(found)
      /\ \A item \in found : item.rule \in StructuralRules
      /\ AreSteps(OfRule(found, "position_jump"))
  BY <1>1, FoundAreFailures, StructureFinds
<1>3. StructurallyValid(s) => Localised(found, s)
  <2> SUFFICES ASSUME StructurallyValid(s) PROVE Localised(found, s)
    OBVIOUS
  <2>1. FoundIn(found, s, {"timestamp_gap"})
    BY StructureFinds
  <2>2. {"timestamp_gap"} \subseteq RuleSet
    BY RulesAre
  <2>3. {"timestamp_gap"} \cap {"duplicate_timestamp", "timestamp_regression"} = {}
    OBVIOUS
  <2> QED
    BY <2>1, <2>2, <2>3, FoundAreFailures
<1>4. ev = <<>> /\ Localised(Range(ev), s) /\ \A e \in Range(ev) : EventIsValid(e)
  <2>1. ev = <<>>
    BY DEF Sound
  <2>2. Range(<<>>) = {}
    BY DEF Range
  <2> QED
    BY <2>1, <2>2 DEF Localised
<1> QED
  BY <1>2, <1>3, <1>4 DEF Sound

\* The inspection of the content.
LEMMA SoundContent ==
    ASSUME NEW s \in Seq(ReferenceSample), NEW it, NEW str, NEW ev, Sound(s, "content", it, str, ev),
           NEW found, FoundIn(found, s, ContentRules)
    PROVE  Sound(s, "steps", it \cup found, str, ev)
<1>1. ContentRules \subseteq RuleSet /\ ContentRules \cap StructuralRules = {}
      /\ ContentRules \cap {"duplicate_timestamp", "timestamp_regression"} = {}
      /\ "position_jump" \notin StructuralRules
  BY RulesAre DEF ContentRules
<1>2. str /\ StructurallyValid(s)
  BY DEF Sound
<1>3. /\ Typed(found, Len(s)) /\ Keyed(found) /\ Localised(found, s)
      /\ \A item \in found : item.rule \in ContentRules
      /\ AreSteps(OfRule(found, "position_jump"))
  BY <1>1, <1>2, FoundAreFailures
<1>4. /\ Typed(it, Len(s)) /\ Keyed(it) /\ Localised(it, s)
      /\ \A item \in it : item.rule \in StructuralRules
      /\ Localised(Range(ev), s) /\ \A e \in Range(ev) : EventIsValid(e)
  BY <1>2 DEF Sound
<1>5. Typed(it \cup found, Len(s)) /\ Localised(it \cup found, s) /\ Proper(it \cup found)
  BY <1>3, <1>4 DEF Typed, Localised, Proper
<1>6. Keyed(it \cup found)
  BY <1>1, <1>3, <1>4 DEF Keyed
<1>7. AreSteps(OfRule(it \cup found, "position_jump"))
  BY <1>1, <1>3, <1>4 DEF AreSteps, OfRule
<1> QED
  BY <1>2, <1>4, <1>5, <1>6, <1>7 DEF Sound

\* The failures of a content rule: none, or those of a valid recording.
LEMMA ContentIsOneRule ==
    ASSUME NEW s \in Seq(ReferenceSample), NEW ph, NEW it, NEW str, NEW ev, Sound(s, ph, it, str, ev),
           NEW rule \in ContentRules, NEW F, F = OfRule(it, rule), NEW q, q = InOrder(F)
    PROVE  Sorted(q, F) /\ (F = {} \/ (str /\ OneRule(F, rule, s)))
<1>1. Len(s) \in Nat /\ rule \notin StructuralRules
  BY RulesAre DEF ContentRules
<1>2. F \subseteq it /\ \A item \in F : item.rule = rule
  BY DEF OfRule
<1>3. Typed(F, Len(s)) /\ Keyed(F)
  BY <1>2 DEF Sound, Typed, Keyed
<1>4. IsFiniteSet(F) /\ Ordered(F)
  BY <1>1, <1>3, FailuresAreOrdered
<1>5. Sorted(q, F)
  BY <1>4, InOrderSorts
<1>6. F # {} => str /\ StructurallyValid(s) /\ Localised(F, s)
  BY <1>1, <1>2 DEF Sound, Localised
<1> QED
  BY <1>2, <1>3, <1>5, <1>6 DEF OneRule

\* Failures of one rule in the place of others of that rule.
LEMMA ReplacedAreFailures ==
    ASSUME NEW s, NEW it, Typed(it, Len(s)), Keyed(it), Localised(it, s), NEW rule, NEW P, OneRule(P, rule, s),
           NEW result, result = (it \ OfRule(it, rule)) \cup P
    PROVE  Typed(result, Len(s)) /\ Keyed(result) /\ Localised(result, s) /\ Proper(result)
BY DEF OneRule, Typed, Keyed, Localised, OfRule, Proper

\* A sorted empty set is empty.
LEMMA SortedNothing ==
    ASSUME NEW q, Sorted(q, {})
    PROVE  Len(q) = 0 /\ DOMAIN q = {} /\ Paired(q) = {} /\ Frozen(q) = {}
<1>1. Len(q) = 0 /\ DOMAIN q = {}
  BY DEF Sorted
<1>2. 1..Len(q) = {}
  BY <1>1
<1> QED
  BY <1>1, <1>2 DEF Paired, Frozen, RunStarts

\* Steps are paired.
LEMMA SoundPairs ==
    ASSUME NEW s \in Seq(ReferenceSample), NEW it, NEW str, NEW ev, Sound(s, "steps", it, str, ev),
           NEW J, J = OfRule(it, "position_jump"), NEW q, q = InOrder(J),
           NEW result, result = (it \ J) \cup Paired(q)
    PROVE  /\ Sound(s, "freezes", result, str, ev)
           /\ EachOnce(q, Paired(q)) /\ OfRule(result, "position_jump") = Paired(q)
<1>1. Sorted(q, J) /\ (J = {} \/ (str /\ OneRule(J, "position_jump", s)))
  <2>1. "position_jump" \in ContentRules
    BY DEF ContentRules
  <2> QED
    BY <2>1, ContentIsOneRule
<1>2. AreSteps(J)
  BY DEF Sound
<1>3. CASE J = {}
  <2>1. DOMAIN q = {} /\ Paired(q) = {} /\ Len(q) = 0
    BY <1>1, <1>3, SortedNothing
  <2>2. result = it
    BY <1>3, <2>1
  <2>3. EachOnce(q, {})
    <3>1. 1..(Len(q) - 1) = {}
      BY <2>1
    <3> QED
      BY <2>1, <3>1 DEF EachOnce
  <2>4. Sound(s, "freezes", it, str, ev)
    BY DEF Sound
  <2> QED
    BY <1>3, <2>1, <2>2, <2>3, <2>4
<1>4. CASE J # {}
  <2>1. str /\ OneRule(J, "position_jump", s)
    BY <1>1, <1>4
  <2>2. OneRule(Paired(q), "position_jump", s)
    BY <1>1, <1>2, <2>1, PairedAreFailures
  <2>3. EachOnce(q, Paired(q))
    BY <1>1, <1>2, <2>1, PairingUsesOnce
  <2>4. StructurallyValid(s) /\ Typed(it, Len(s)) /\ Keyed(it) /\ Localised(it, s) /\ Localised(Range(ev), s)
    BY <2>1 DEF OneRule, Sound
  <2>5. Typed(result, Len(s)) /\ Keyed(result) /\ Localised(result, s) /\ Proper(result)
    BY <2>2, <2>4, ReplacedAreFailures
  <2>6. \A item \in Paired(q) : item.rule = "position_jump"
    BY <2>2 DEF OneRule
  <2>7. OfRule(result, "position_jump") = Paired(q)
    BY <2>6 DEF OfRule
  <2>8. Sound(s, "freezes", result, str, ev)
    BY <2>1, <2>4, <2>5 DEF Sound
  <2> QED
    BY <2>3, <2>7, <2>8
<1> QED
  BY <1>3, <1>4

\* Freezes are joined.
LEMMA SoundFreezes ==
    ASSUME NEW s \in Seq(ReferenceSample), NEW it, NEW str, NEW ev, Sound(s, "freezes", it, str, ev),
           NEW J, J = OfRule(it, "position_freeze"), NEW q, q = InOrder(J),
           NEW result, result = (it \ J) \cup Frozen(q)
    PROVE  Sound(s, "events", result, str, ev)
<1>1. Sorted(q, J) /\ (J = {} \/ (str /\ OneRule(J, "position_freeze", s)))
  <2>1. "position_freeze" \in ContentRules
    BY DEF ContentRules
  <2> QED
    BY <2>1, ContentIsOneRule
<1>2. CASE J = {}
  <2>1. result = it
    BY <1>1, <1>2, SortedNothing
  <2>2. Sound(s, "events", it, str, ev)
    BY DEF Sound
  <2> QED
    BY <2>1, <2>2
<1>3. CASE J # {}
  <2>1. str /\ OneRule(J, "position_freeze", s)
    BY <1>1, <1>3
  <2>2. OneRule(Frozen(q), "position_freeze", s)
    BY <1>1, <2>1, FrozenAreFailures
  <2>3. StructurallyValid(s) /\ Typed(it, Len(s)) /\ Keyed(it) /\ Localised(it, s) /\ Localised(Range(ev), s)
    BY <2>1 DEF OneRule, Sound
  <2>4. Typed(result, Len(s)) /\ Keyed(result) /\ Localised(result, s) /\ Proper(result)
    BY <2>2, <2>3, ReplacedAreFailures
  <2> QED
    BY <2>1, <2>3, <2>4 DEF Sound
<1> QED
  BY <1>2, <1>3

\* Events are formed.
LEMMA SoundEvents ==
    ASSUME NEW s \in Seq(ReferenceSample), NEW it, NEW str, NEW ev, Sound(s, "events", it, str, ev),
           NEW report, report = EventsOf(it, Stride(s))
    PROVE  Sound(s, "reported", it, str, report)
<1>1. Stride(s) \in Int /\ Len(s) \in Nat
  BY StrideIsNumber
<1>2. Typed(it, Len(s)) /\ Keyed(it) /\ Proper(it)
  BY DEF Sound
<1>3. Complete(report, it, Stride(s))
  BY <1>1, <1>2, ReportIsComplete
<1>4. str => StructurallyValid(s) /\ Localised(it, s)
  BY DEF Sound
<1>5. str => Localised(Range(report), s)
  BY <1>1, <1>2, <1>4, ReportIsLocalised
<1>6. \A e \in Range(report) : EventIsValid(e)
  BY <1>1, <1>2, ReportIsValid
<1> QED
  BY <1>2, <1>3, <1>4, <1>5, <1>6 DEF Sound

\* Every step keeps the invariant.
LEMMA DetectorInductive ==
    ASSUME DetectorInv, [TrajectoryNext]_trajectoryVars
    PROVE  DetectorInv'
<1>1. RecordingInv'
  BY RecordingInductive DEF DetectorInv
<1>2. Sound(samples, phase, items, structural, tevents) /\ samples \in Seq(ReferenceSample)
  BY DEF DetectorInv, RecordingInv
<1>3. ASSUME samples' = samples, items' = items, structural' = structural, tevents' = tevents,
             phase' \notin {"structure", "content", "steps", "freezes", "events", "reported"}
      PROVE  DetectorInv'
  BY <1>1, <1>2, <1>3, SoundIsKept DEF DetectorInv
<1>4. ASSUME Refuse
      PROVE  DetectorInv'
  BY <1>3, <1>4 DEF Refuse
<1>5. ASSUME phase' = "structure", items' = {}, structural' = TRUE, tevents' = <<>>
      PROVE  DetectorInv'
  BY <1>1, <1>5, SoundAtStart DEF DetectorInv
<1>6. CASE BeginPublicCall
  BY <1>5, <1>6 DEF BeginPublicCall, Inspecting
<1>7. CASE BeginControl
  BY <1>5, <1>7 DEF BeginControl, Inspecting
<1>8. CASE BeginCase
  <2>1. phase' = "structure" /\ items' = {} /\ structural' = TRUE /\ tevents' = <<>>
    BY <1>8 DEF BeginCase, Inspecting
  <2> QED
    BY <1>5, <2>1
<1>9. CASE InspectStructure
  <2>1. PICK found : found = TimeFailures(samples) \cup CoordinateFailures(samples)
    OBVIOUS
  <2>2. CASE Refuse
    BY <1>4, <2>2
  <2>3. CASE /\ phase = "structure" /\ items' = found /\ structural' = StructurallyValid(samples)
             /\ phase' = IF StructurallyValid(samples) THEN "content" ELSE "steps"
             /\ samples' = samples /\ tevents' = tevents
    <3>1. Sound(samples, "structure", items, structural, tevents)
      BY <1>2, <2>3
    <3>2. Sound(samples, phase', found, StructurallyValid(samples), tevents)
      BY <1>2, <2>1, <2>3, <3>1, SoundStructure
    <3> QED
      BY <1>1, <2>3, <3>2 DEF DetectorInv
  <2> QED
    BY <1>9, <2>1, <2>2, <2>3 DEF InspectStructure
<1>10. CASE RefuseInput
  BY <1>4, <1>10 DEF RefuseInput
<1>11. CASE InspectContent
  <2>1. CASE Refuse
    BY <1>4, <2>1
  <2>2. CASE ~Refuse
    <3>1. PICK derivative \in DerivativeFailures(samples) :
            /\ phase = "content" /\ phase' = "steps"
            /\ items' = items \cup (JumpFailures(samples) \cup VelocityFailures(samples) \cup FreezeFailures(samples)
                                       \cup ReferenceFailures(samples, reference) \cup derivative)
            /\ samples' = samples /\ structural' = structural /\ tevents' = tevents
      BY <1>11, <2>2 DEF InspectContent
    <3> PICK found :
            found = JumpFailures(samples) \cup VelocityFailures(samples) \cup FreezeFailures(samples)
                      \cup ReferenceFailures(samples, reference) \cup derivative
      OBVIOUS
    <3>2. FoundIn(found, samples, ContentRules)
      BY <1>2, <3>1, ContentFinds
    <3>3. Sound(samples, "steps", items \cup found, structural, tevents)
      BY <1>2, <3>1, <3>2, SoundContent
    <3> QED
      BY <1>1, <3>1, <3>3 DEF DetectorInv
  <2> QED
    BY <2>1, <2>2
<1>12. CASE PairSteps
  <2>1. PICK J : J = OfRule(items, "position_jump")
    OBVIOUS
  <2>2. PICK q : q = InOrder(J)
    OBVIOUS
  <2>3. PICK result : result = (items \ J) \cup Paired(q)
    OBVIOUS
  <2>4. /\ phase = "steps" /\ items' = result /\ phase' = "freezes"
        /\ samples' = samples /\ structural' = structural /\ tevents' = tevents
    BY <1>12, <2>1, <2>2, <2>3 DEF PairSteps
  <2>5. Sound(samples, "freezes", result, structural, tevents)
    BY <1>2, <2>1, <2>2, <2>3, <2>4, SoundPairs
  <2> QED
    BY <1>1, <2>4, <2>5 DEF DetectorInv
<1>13. CASE ConsolidateFreezes
  <2>1. PICK J : J = OfRule(items, "position_freeze")
    OBVIOUS
  <2>2. PICK q : q = InOrder(J)
    OBVIOUS
  <2>3. PICK result : result = (items \ J) \cup Frozen(q)
    OBVIOUS
  <2>4. /\ phase = "freezes" /\ items' = result /\ phase' = "events"
        /\ samples' = samples /\ structural' = structural /\ tevents' = tevents
    BY <1>13, <2>1, <2>2, <2>3 DEF ConsolidateFreezes
  <2>5. Sound(samples, "events", result, structural, tevents)
    BY <1>2, <2>1, <2>2, <2>3, <2>4, SoundFreezes
  <2> QED
    BY <1>1, <2>4, <2>5 DEF DetectorInv
<1>14. CASE ConsolidateEvents
  <2>1. CASE Refuse
    BY <1>4, <2>1
  <2>2. CASE ~Refuse
    <3>1. PICK report : report = EventsOf(items, Stride(samples))
      OBVIOUS
    <3>2. /\ phase = "events" /\ tevents' = report /\ phase' = "reported"
          /\ samples' = samples /\ items' = items /\ structural' = structural
      BY <1>14, <2>2, <3>1 DEF ConsolidateEvents, EventsOf
    <3>3. Sound(samples, "reported", items, structural, report)
      BY <1>2, <3>1, <3>2, SoundEvents
    <3> QED
      BY <1>1, <3>2, <3>3 DEF DetectorInv
  <2> QED
    BY <2>1, <2>2
<1>15. CASE ScoreControl
  BY <1>3, <1>15 DEF ScoreControl
<1>16. CASE ScoreCase
  BY <1>3, <1>16 DEF ScoreCase
<1>17. CASE Decide
  BY <1>3, <1>17 DEF Decide
<1>18. CASE UNCHANGED trajectoryVars
  BY <1>1, <1>2, <1>18 DEF trajectoryVars, detector, DetectorInv
<1> QED
  BY <1>6, <1>7, <1>8, <1>9, <1>10, <1>11, <1>12, <1>13, <1>14, <1>15, <1>16, <1>17, <1>18 DEF TrajectoryNext

\* It holds always.
LEMMA DetectorIsSound == TrajectorySpec => []DetectorInv
<1>1. TrajectoryInit => DetectorInv
  <2> SUFFICES ASSUME TrajectoryInit PROVE DetectorInv
    OBVIOUS
  <2>1. RecordingInv
    BY DEF TrajectoryInit, RecordingInv
  <2>2. Sound(samples, "idle", {}, TRUE, <<>>)
    BY SoundAtStart
  <2> QED
    BY <2>1, <2>2 DEF TrajectoryInit, DetectorInv
<1>2. DetectorInv /\ [TrajectoryNext]_trajectoryVars => DetectorInv'
  BY DetectorInductive
<1> QED
  BY <1>1, <1>2, PTL DEF TrajectorySpec

\* For every recording: failures and events are where the samples are, no event is
\* refused by its own model, and a report's events are apart and complete, also after steps were paired and
\* freezes joined (_pair_position_steps to _consolidate_events).
THEOREM EventsAreLocalised == TrajectorySpec => []EventsLocalise
<1>1. DetectorInv => EventsLocalise
  <2> SUFFICES ASSUME DetectorInv PROVE EventsLocalise
    OBVIOUS
  <2>1. Sound(samples, phase, items, structural, tevents)
    BY DEF DetectorInv
  <2>2. IntervalsAgree
    BY <2>1 DEF IntervalsAgree, Sound, Localised
  <2>3. EventsAreSeparate
    BY <2>1 DEF EventsAreSeparate, Sound, Complete
  <2>4. EventsAreValid
    BY <2>1 DEF EventsAreValid, Sound
  <2> QED
    BY <2>2, <2>3, <2>4 DEF EventsLocalise
<1> QED
  BY <1>1, DetectorIsSound, PTL

\* _pair_position_steps uses every jump once, pairs it only with the next one,
\* and leaves no two neighbours that fit each other alone, however many jumps
\* a recording has.
THEOREM JumpsArePairedOnce == TrajectorySpec => PairingIsComplete
<1> DEFINE PairedStep ==
      phase = "steps" =>
          LET before == InOrder(OfRule(items, "position_jump"))
              after == OfRule(items', "position_jump")
              Alone(i) == before[i] \in after
              Pair(i) == i < Len(before) /\ PairOf(before[i], before[i + 1]) \in after
          IN  /\ \A i \in DOMAIN before :
                    Cardinality({ way \in {"alone", "out", "back"} :
                        CASE way = "alone" -> Alone(i)
                          [] way = "out"   -> Pair(i)
                          [] way = "back"  -> i > 1 /\ Pair(i - 1) }) = 1
              /\ \A i \in 1..(Len(before) - 1) :
                    Alone(i) /\ Alone(i + 1) => ~Opposite(before[i], before[i + 1])
<1>1. DetectorInv /\ [TrajectoryNext]_trajectoryVars => [PairedStep]_detector
  <2> SUFFICES ASSUME DetectorInv, TrajectoryNext, phase = "steps", detector' # detector
               PROVE  EachOnce(InOrder(OfRule(items, "position_jump")), OfRule(items', "position_jump"))
    BY DEF trajectoryVars, EachOnce
  <2>1. PairSteps
    BY DEF TrajectoryNext, BeginPublicCall, BeginControl, BeginCase, InspectStructure, RefuseInput,
           InspectContent, ConsolidateFreezes, ConsolidateEvents, ScoreControl, ScoreCase, Decide
  <2>2. PICK J : J = OfRule(items, "position_jump")
    OBVIOUS
  <2>3. PICK q : q = InOrder(J)
    OBVIOUS
  <2>4. PICK result : result = (items \ J) \cup Paired(q)
    OBVIOUS
  <2>5. items' = result
    BY <2>1, <2>2, <2>3, <2>4 DEF PairSteps
  <2>6. Sound(samples, "steps", items, structural, tevents) /\ samples \in Seq(ReferenceSample)
    BY DEF DetectorInv, RecordingInv
  <2>7. EachOnce(q, Paired(q)) /\ OfRule(result, "position_jump") = Paired(q)
    BY <2>2, <2>3, <2>4, <2>6, SoundPairs
  <2> QED
    BY <2>2, <2>3, <2>5, <2>7
<1> QED
  BY <1>1, DetectorIsSound, PTL DEF TrajectorySpec, PairingIsComplete

==============================================================================
