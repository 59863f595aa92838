------------------------- MODULE ReferenceTrajectory -------------------------
(***************************************************************************)
(* ContinuousReferenceTrajectory of python/cartosentry/trajectory.py: the  *)
(* source samples are cut into segments at the gaps, and a query is        *)
(* answered only from the window of its own segment.                       *)
(*                                                                         *)
(* A sample is [t, x, v, h, domain]: time, position, source velocity (or   *)
(* NoVelocity), unwrapped heading, and the time domain and frame pair.     *)
(* Motion is along one axis.  The robust cubic fit is not computed: what a *)
(* query answers is known by the samples its window holds.                 *)
(***************************************************************************)
EXTENDS Integers, Sequences, FiniteSets, FiniteSetsExt

CONSTANT TrajectoryGate   \* [gap, degree, half, slow, still, exclusion]

NoVelocity == 1000000

ValidTrajectoryGate ==
    TrajectoryGate \in [gap : Nat \ {0}, degree : {3}, half : Nat \ {0, 1},
                        slow : Nat, still : Nat \ {0}, exclusion : Nat]
ASSUME TrajectoryGateAssumption == ValidTrajectoryGate

ReferenceSample == [t : Int, x : Int, v : Int, h : Int, domain : STRING]

Magnitude(n) == IF n < 0 THEN -n ELSE n

\* What the constructor accepts.
Continuous(s) ==
    /\ Len(s) > TrajectoryGate.degree
    /\ \A i \in DOMAIN s : s[i].domain = s[1].domain
    /\ \A i \in 1..(Len(s) - 1) : s[i].t < s[i + 1].t

(***************************************************************************)
(* Segments: the maximal runs <<first, last>> without a gap.               *)
(***************************************************************************)
GapAfter(s, i) == s[i + 1].t - s[i].t > TrajectoryGate.gap

\* The segment of a sample.
SegmentWith(s, i) ==
    << Max({1} \cup { k + 1 : k \in { j \in 1..(i - 1) : GapAfter(s, j) } }),
       Min({Len(s)} \cup { k \in i..(Len(s) - 1) : GapAfter(s, k) }) >>

Segments(s) == { SegmentWith(s, i) : i \in DOMAIN s }

Fittable(seg) == seg[2] - seg[1] >= TrajectoryGate.degree

Covering(s, time) == { seg \in Segments(s) : s[seg[1]].t <= time /\ time <= s[seg[2]].t }

Support(s, time) ==
    CASE time < s[1].t \/ time > s[Len(s)].t               -> "OUTSIDE_SOURCE_SUPPORT"
      [] Covering(s, time) = {}                            -> "UNSUPPORTED_GAP"
      [] \E seg \in Covering(s, time) : ~Fittable(seg)     -> "INSUFFICIENT_DERIVATIVE_SUPPORT"
      [] OTHER                                             -> "SUPPORTED"

Width == 2 * TrajectoryGate.half + 1

\* The first sample of the segment at or after the time, one past it if there is none.
Insertion(s, seg, time) ==
    Min({ i \in seg[1]..seg[2] : s[i].t >= time } \cup {seg[2] + 1})

\* Mutant: a window that met the end of the segment is not moved back.
Window_NotMoved(s, seg, time) ==
    LET start == Max({seg[1], Insertion(s, seg, time) - TrajectoryGate.half})
    IN  start..(Min({seg[2] + 1, start + Width}) - 1)

Window(s, seg, time) ==
    LET start == Max({seg[1], Insertion(s, seg, time) - TrajectoryGate.half})
        end == Min({seg[2] + 1, start + Width})
    IN  Max({seg[1], end - Width})..(end - 1)

(***************************************************************************)
(* Standstill.  Without a source velocity the speed of a sample is fitted  *)
(* and smoothed by a median; here it is the mean speed over the window.    *)
(***************************************************************************)
FittedSlow(s, i) ==
    LET seg == SegmentWith(s, i)
        window == Window(s, seg, s[i].t)
    IN  /\ Fittable(seg)
        /\ Magnitude(s[Max(window)].x - s[Min(window)].x)
             <= TrajectoryGate.slow * (s[Max(window)].t - s[Min(window)].t)

Slow(s, i) == IF s[i].v = NoVelocity THEN FittedSlow(s, i) ELSE Magnitude(s[i].v) <= TrajectoryGate.slow

\* The run of slow samples around a slow sample, within its segment.
SlowRun(s, i) ==
    LET seg == SegmentWith(s, i)
    IN  << Max({seg[1]} \cup { k + 1 : k \in { j \in seg[1]..(i - 1) : ~Slow(s, j) } }),
           Min({seg[2]} \cup { k - 1 : k \in { j \in (i + 1)..seg[2] : ~Slow(s, j) } }) >>

Stationary(s, i) ==
    Slow(s, i) /\ LET run == SlowRun(s, i) IN s[run[2]].t - s[run[1]].t >= TrajectoryGate.still

\* The heading of a standstill is the one before it, else the one after it,
\* else the median of its own (here the lower of two middle ones).
HeldHeading(s, run, seg) ==
    LET below(h) == Cardinality({ k \in run[1]..run[2] : s[k].h < h })
        upto(h) == Cardinality({ k \in run[1]..run[2] : s[k].h <= h })
        half == run[2] - run[1] + 1
    IN  IF run[1] > seg[1] THEN s[run[1] - 1].h
        ELSE IF run[2] < seg[2] THEN s[run[2] + 1].h
        ELSE CHOOSE h \in { s[k].h : k \in run[1]..run[2] } : 2 * below(h) < half /\ half <= 2 * upto(h)

Heading(s, i) == IF Stationary(s, i) THEN HeldHeading(s, SlowRun(s, i), SegmentWith(s, i)) ELSE s[i].h

\* The answer to a query, as far as the samples decide it.
Evaluation(s, time) ==
    IF Support(s, time) # "SUPPORTED" THEN [support |-> Support(s, time), window |-> {}, headings |-> {}, stationary |-> FALSE]
    ELSE LET seg == CHOOSE g \in Covering(s, time) : TRUE
             window == Window(s, seg, time)
             distance(i) == Magnitude(s[i].t - time)
             nearest == Min({ i \in window : \A k \in window : distance(i) <= distance(k) })
         IN  [support |-> "SUPPORTED", window |-> window,
              headings |-> { Heading(s, i) : i \in window }, stationary |-> Stationary(s, nearest)]

(***************************************************************************)
(* The coverage gate of qualify_reference_trajectory: every pair of        *)
(* neighbours without a gap answers at its midpoint, and every segment     *)
(* answers at a sample that is not near an end of the recording.           *)
(***************************************************************************)
Eligible(s, i) ==
    /\ s[i].t - s[1].t >= TrajectoryGate.exclusion
    /\ s[Len(s)].t - s[i].t >= TrajectoryGate.exclusion

Midpoint(s, i) == (s[i].t + s[i + 1].t) \div 2

CoveragePassed(s) ==
    LET queried == { i \in 1..(Len(s) - 1) : Support(s, Midpoint(s, i)) = "SUPPORTED" }
    IN  /\ Cardinality(queried) = Len(s) - Cardinality(Segments(s))
        /\ \A seg \in Segments(s) :
             /\ \E i \in queried : seg \in Covering(s, Midpoint(s, i))
             /\ \E i \in DOMAIN s : Eligible(s, i) /\ Support(s, s[i].t) = "SUPPORTED"
                                      /\ seg[1] <= i /\ i <= seg[2]

=============================================================================
