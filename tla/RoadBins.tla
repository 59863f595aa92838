------------------------------ MODULE RoadBins ------------------------------
(***************************************************************************)
(* Directed road bins: road_bins.py and the batch kernel of road_bins.cpp. *)
(*                                                                         *)
(* A request holds decoded paths over the arcs of a road graph, modality   *)
(* evidence and findings.  The kernel cuts every confident advance along   *)
(* an arc into pieces, one per bin; gathers the pieces of an arc into      *)
(* independent traversals; joins evidence and findings to the traversals   *)
(* by time; and Python re-validates what comes back into a ledger.         *)
(*                                                                         *)
(* Offsets and times are integers.  Speeds, headings and point support are *)
(* carried along by the code and decide nothing: they are left out.        *)
(***************************************************************************)
EXTENDS Integers, Sequences, FiniteSets, SequencesExt

CONSTANTS
    ArcLength,    \* ArcLength[a]: length_m of the arc with index a
    BinLength,    \* bin_length_m
    Gap,          \* independent_traversal_minimum_gap_ns
    MaxPaths, MaxPointsPerPath, MaxTotalPoints, MaxBins, MaxEvidence, MaxFindings,
    Modality,     \* SensorModality
    NoArc,        \* a point off the road
    Requests      \* what may be asked for

BinArcs == DOMAIN ArcLength

ASSUME BinsAssumption ==
    /\ ArcLength \in [BinArcs -> Nat \ {0}] /\ BinLength \in Nat \ {0} /\ Gap \in Nat
    /\ NoArc \notin BinArcs

VARIABLES
    request,   \* the arguments of aggregate_directed_road_bins
    pieces,    \* the kernel's pieces, each with its traversal ordinal
    bins,      \* AggregationResult.bins, keyed by <<arc, bin>>
    stage      \* how far the request has come

binVars == <<request, pieces, bins, stage>>

Stages == {"idle", "asked", "sound", "cut", "filled", "published", "refused"}

BinsInit == request = <<>> /\ pieces = <<>> /\ bins = <<>> /\ stage = "idle"

Total(f) == FoldFunction(+, 0, f)

Count(s) == Cardinality(ToSet(s))

(***************************************************************************)
(* What is refused before anything is aggregated.                          *)
(***************************************************************************)
BinCount(a) == (ArcLength[a] + BinLength - 1) \div BinLength

Unique(s) == Count([i \in DOMAIN s |-> s[i].id]) = Len(s)

\* Sequence identifiers, their clock and their source group.
SequencesAgree(paths) ==
    \A i, j \in DOMAIN paths :
        paths[i].sequence = paths[j].sequence =>
            paths[i].group = paths[j].group /\ paths[i].clock = paths[j].clock

\* Evidence and findings name a sequence of a path, on its clock.
Joinable(paths, items) ==
    \A i \in DOMAIN items :
        /\ items[i].to > items[i].from
        /\ \E p \in ToSet(paths) :
              p.sequence = items[i].sequence /\ p.clock = items[i].clock

PathIsSound(path) ==
    /\ Len(path.points) \in 1..MaxPointsPerPath
    /\ \A i \in DOMAIN path.points :
          /\ i > 1 => path.points[i].time > path.points[i - 1].time
          /\ path.points[i].arc # NoArc => path.points[i].off \in 0..ArcLength[path.points[i].arc]

\* The checks of Python's aggregate, and validate_inputs of the kernel.
RequestIsSound(r) ==
    /\ ~r.foreign
    /\ Len(r.paths) \in 1..MaxPaths /\ Unique(r.paths)
    /\ Total([i \in DOMAIN r.paths |-> Len(r.paths[i].points)]) <= MaxTotalPoints
    /\ \A i \in DOMAIN r.paths : PathIsSound(r.paths[i])
    /\ SequencesAgree(r.paths)
    /\ Len(r.evidence) <= MaxEvidence /\ Unique(r.evidence) /\ Joinable(r.paths, r.evidence)
    /\ Len(r.findings) <= MaxFindings /\ Unique(r.findings) /\ Joinable(r.paths, r.findings)
    /\ Total([a \in BinArcs |-> BinCount(a)]) <= MaxBins

(***************************************************************************)
(* Pieces.                                                                 *)
(***************************************************************************)
\* interpolate_time: std::round of a fraction n/d of a duration.
Interpolated(start, duration, n, d) == start + (2 * duration * n + d) \div (2 * d)

\* Two consecutive points: confident, moving, on one arc, and forward.
Advances(p, q) ==
    p.state = "moving" /\ q.state = "moving" /\ p.arc # NoArc /\ p.arc = q.arc /\ q.off > p.off

\* The piece of an advance from p to q that lies in bin b.
PieceOf(path, p, q, b) ==
    LET cursor == IF p.off > b * BinLength THEN p.off ELSE b * BinLength
        exit   == IF q.off < (b + 1) * BinLength THEN q.off ELSE (b + 1) * BinLength
        At(x)  == Interpolated(p.time, q.time - p.time, x - p.off, q.off - p.off)
    IN  [arc |-> p.arc, bin |-> b, match |-> path.id, sequence |-> path.sequence,
         start |-> At(cursor), end |-> At(exit), entry |-> cursor, exit |-> exit]

\* One piece per bin, in order; the movement ends before its last offset.
Split(path, p, q) ==
    LET first == p.off \div BinLength
        last  == (q.off - 1) \div BinLength
    IN  IF Advances(p, q)
        THEN [i \in 1..(last - first + 1) |-> PieceOf(path, p, q, first + i - 1)]
        ELSE <<>>

Identity(p) == <<p.sequence, p.arc, p.start, p.end, p.entry, p.exit>>

\* A piece is kept if it lasts and was not seen before.
Keep(kept, p) ==
    IF p.end > p.start /\ \A k \in ToSet(kept) : Identity(k) # Identity(p)
    THEN Append(kept, p) ELSE kept

PathPieces(path) ==
    FlattenSeq([i \in 1..(Len(path.points) - 1) |-> Split(path, path.points[i], path.points[i + 1])])

Lexically(k, l) == \E i \in DOMAIN k : k[i] < l[i] /\ \A j \in 1..(i - 1) : k[j] = l[j]

SortKey(p) == <<p.sequence, p.arc, p.start, p.end, p.bin, p.entry>>

Ordered(ps) == SortSeq(ps, LAMBDA p, q : Lexically(SortKey(p), SortKey(q)))

Larger(a, b) == IF a > b THEN a ELSE b

Smaller(a, b) == IF a < b THEN a ELSE b

\* The latest end of the pieces that came before on the arc.
PreviousEnd(before) == FoldLeft(LAMBDA e, p : Larger(e, p.end), before[1].end, before)

\* p with its ordinal, after the pieces done with theirs.
Numbered(done, p) ==
    LET before == SelectSeq(done, LAMBDA d : d.sequence = p.sequence /\ d.arc = p.arc)
        last   == before[Len(before)].ordinal
        own    == IF before = <<>> THEN 0
                  ELSE IF p.start - PreviousEnd(before) > Gap THEN last + 1 ELSE last
    IN  Append(done, p @@ [ordinal |-> own])

MakePieces(paths) ==
    LET all == FlattenSeq([i \in DOMAIN paths |-> PathPieces(paths[i])])
    IN  FoldLeft(Numbered, <<>>, Ordered(FoldLeft(Keep, <<>>, all)))

(***************************************************************************)
(* Traversals.                                                             *)
(***************************************************************************)
Overlaps(p, from, to) == Larger(p.start, from) < Smaller(p.end, to)

\* Mutant: overlapping intervals are added up.
MergedDuration_Summed(intervals) ==
    Total([i \in DOMAIN intervals |-> intervals[i][2] - intervals[i][1]])

\* The sweep of merged_duration over intervals <<start, end>>.
MergedDuration(intervals) ==
    LET sorted == SortSeq(intervals, Lexically)
        Sweep(s, i) == IF i[1] <= s.end THEN [s EXCEPT !.end = Larger(s.end, i[2])]
                       ELSE [start |-> i[1], end |-> i[2], sum |-> s.sum + s.end - s.start]
        done == FoldLeft(Sweep, [start |-> sorted[1][1], end |-> sorted[1][1], sum |-> 0], sorted)
    IN  IF intervals = <<>> THEN 0 ELSE done.sum + done.end - done.start

\* What the evidence items say of the pieces of a traversal.
Joined(ps, items) ==
    LET Of(e) == LET hit == SelectSeq(ps, LAMBDA p : Overlaps(p, e.from, e.to))
                 IN  [i \in DOMAIN hit |-> <<Larger(hit[i].start, e.from), Smaller(hit[i].end, e.to)>>]
    IN  FlattenSeq([i \in DOMAIN items |-> Of(items[i])])

ModalityOf(ps, m) ==
    LET usable  == SelectSeq(request.evidence,
                       LAMBDA e : e.usable /\ e.modality = m /\ e.sequence = ps[1].sequence)
        stamped == SelectSeq(usable, LAMBDA e : e.stamped)
    IN  [valid |-> MergedDuration(Joined(ps, usable)),
         stamped |-> MergedDuration(Joined(ps, stamped)),
         evidence |-> { e.id : e \in { e \in ToSet(usable) : Joined(ps, <<e>>) # <<>> } }]

Affects(f, ps) ==
    f.sequence = ps[1].sequence /\ \E p \in ToSet(ps) : Overlaps(p, f.from, f.to)

\* make_traversal: the pieces of one ordinal in one bin, in order.
Traversal(ps) ==
    LET last == FoldLeft(LAMBDA e, p : Larger(e, p.end), ps[1].end, ps)
        ends == SelectSeq(ps, LAMBDA p : p.end = last)
        hits == { f \in ToSet(request.findings) : Affects(f, ps) }
    IN  [sequence |-> ps[1].sequence, ordinal |-> ps[1].ordinal,
         first |-> ps[1].start, last |-> last,
         entry |-> ps[1].entry, exit |-> ends[Len(ends)].exit,
         duration |-> Total([i \in DOMAIN ps |-> ps[i].end - ps[i].start]),
         distance |-> Total([i \in DOMAIN ps |-> ps[i].exit - ps[i].entry]),
         matches |-> { p.match : p \in ToSet(ps) },
         modalities |-> [m \in Modality |-> ModalityOf(ps, m)],
         findings |-> { f.id : f \in hits },
         critical |-> { f.id : f \in { f \in hits : f.critical } }]

BinKeys == UNION { {a} \X (0..(BinCount(a) - 1)) : a \in BinArcs }

InBin(key) == SelectSeq(pieces, LAMBDA p : <<p.arc, p.bin>> = key)

TraversalsOf(key) ==
    LET of(k) == SelectSeq(InBin(key), LAMBDA p : <<p.sequence, p.ordinal>> = k)
    IN  { Traversal(of(k)) : k \in { <<p.sequence, p.ordinal>> : p \in ToSet(InBin(key)) } }

\* Every bin of every arc, with or without a traversal.
BinCoverage(key) ==
    LET ts == TraversalsOf(key)
    IN  [traversals |-> ts,
         from |-> key[2] * BinLength,
         to |-> Smaller(ArcLength[key[1]], (key[2] + 1) * BinLength),
         duration |-> MapThenSumSet(LAMBDA t : t.duration, ts),
         distance |-> MapThenSumSet(LAMBDA t : t.distance, ts),
         modalities |-> [m \in Modality |->
             [valid |-> MapThenSumSet(LAMBDA t : t.modalities[m].valid, ts),
              stamped |-> MapThenSumSet(LAMBDA t : t.modalities[m].stamped, ts),
              evidence |-> UNION { t.modalities[m].evidence : t \in ts }]],
         findings |-> UNION { t.findings : t \in ts },
         critical |-> UNION { t.critical : t \in ts }]

\* finding_localizations: the bins that name a finding.
Localization(id) == { key \in DOMAIN bins : id \in bins[key].findings }

(***************************************************************************)
(* The validators of the ledger's models.                                  *)
(***************************************************************************)
ModalityIsValid(m) == m.stamped <= m.valid

TraversalIsValid(t) ==
    /\ t.last > t.first /\ t.exit > t.entry /\ t.duration > 0
    /\ t.critical \subseteq t.findings
    /\ \A m \in Modality : ModalityIsValid(t.modalities[m])

BinIsValid(b) ==
    /\ b.to > b.from /\ b.critical \subseteq b.findings
    /\ \A t \in b.traversals : TraversalIsValid(t)
    /\ \A m \in Modality : ModalityIsValid(b.modalities[m])

LedgerIsValid == \A key \in DOMAIN bins : BinIsValid(bins[key])

(***************************************************************************)
(* aggregate_directed_road_bins.                                           *)
(***************************************************************************)
RequestCoverage ==
    /\ stage = "idle" /\ stage' = "asked"
    /\ request' \in Requests
    /\ UNCHANGED <<pieces, bins>>

CheckRequest ==
    /\ stage = "asked"
    /\ stage' = IF RequestIsSound(request) THEN "sound" ELSE "refused"
    /\ UNCHANGED <<request, pieces, bins>>

CutPieces ==
    /\ stage = "sound" /\ stage' = "cut"
    /\ pieces' = MakePieces(request.paths)
    /\ UNCHANGED <<request, bins>>

FillBins ==
    /\ stage = "cut" /\ stage' = "filled"
    /\ bins' = [key \in BinKeys |-> BinCoverage(key)]
    /\ UNCHANGED <<request, pieces>>

ComposeLedger ==
    /\ stage = "filled"
    /\ stage' = IF LedgerIsValid THEN "published" ELSE "refused"
    /\ UNCHANGED <<request, pieces, bins>>

BinsNext == RequestCoverage \/ CheckRequest \/ CutPieces \/ FillBins \/ ComposeLedger

BinsSpec == BinsInit /\ [][BinsNext]_binVars

(***************************************************************************)
(* Properties.                                                             *)
(***************************************************************************)
\* Every advance of the request, cut at the bounds of one bin: the reference
\* the kernel's splitting, sorting and gathering are held against.
Moves ==
    UNION { { PieceOf(path, path.points[i], path.points[i + 1], key[2]) :
                i \in { i \in 1..(Len(path.points) - 1) :
                   LET p == path.points[i]  q == path.points[i + 1]
                   IN  /\ p.state = "moving" /\ q.state = "moving"
                       /\ p.arc = key[1] /\ q.arc = key[1]
                       /\ Overlaps([start |-> p.off, end |-> q.off],
                                   key[2] * BinLength, (key[2] + 1) * BinLength) } } :
            path \in ToSet(request.paths), key \in BinKeys }

Lasting == { m \in Moves : m.end > m.start }

Aggregated == stage \in {"filled", "published"} \/ (stage = "refused" /\ bins # <<>>)

\* A period longer than Gap in which nothing advances on the arc parts p and q.
Parted(p, q) ==
    LET same == { r \in ToSet(pieces) : r.sequence = p.sequence /\ r.arc = p.arc }
    IN  \E e \in { r.end : r \in same }, s \in { r.start : r \in same } :
          /\ s - e > Gap
          /\ \A r \in same : r.end <= e \/ r.start >= s
          /\ (p.end <= e /\ q.start >= s) \/ (q.end <= e /\ p.start >= s)

\* Overlapping or adjacent windows, in whatever order they are given, never
\* inflate the traversals: two pieces of a sequence on an arc belong to one
\* traversal unless a long enough period without movement parts them.  The
\* loop over sorted pieces with a running end in make_pieces.
TraversalsAreIndependent ==
    Aggregated =>
        /\ \A p, q \in ToSet(pieces) :
              p.sequence = q.sequence /\ p.arc = q.arc =>
                  ((p.ordinal # q.ordinal) <=> Parted(p, q))
        /\ LET Known(ps) == { <<Identity(p), p.ordinal>> : p \in ToSet(ps) }
           IN  Known(pieces) = Known(MakePieces(Reverse(request.paths)))

\* Every bin of the graph is there, and its distance and duration are those
\* of the distinct confident advances inside it: nothing is lost at a bound
\* between bins or counted on both of its sides.  Split and the sums of
\* aggregate_directed_road_bins.
CoverageIsMeasured ==
    Aggregated => \A key \in BinKeys :
        LET distinct == { Identity(m) : m \in { m \in Lasting : <<m.arc, m.bin>> = key } }
        IN  /\ bins[key].distance = MapThenSumSet(LAMBDA m : m[6] - m[5], distinct)
            /\ bins[key].duration = MapThenSumSet(LAMBDA m : m[4] - m[3], distinct)

\* The ticks at which a traversal of a bin moves and usable evidence is there.
Ticks(key, t, m, stamped) ==
    UNION { Larger(p.start, e.from)..(Smaller(p.end, e.to) - 1) :
              p \in { p \in ToSet(InBin(key)) : p.sequence = t.sequence /\ p.ordinal = t.ordinal },
              e \in { e \in ToSet(request.evidence) :
                         /\ e.sequence = t.sequence /\ e.modality = m /\ e.usable
                         /\ stamped => e.stamped } }

\* Findings name exactly the bins their sequence moved in while they lasted,
\* and a modality's support of a traversal is the union of the times in which
\* it moved and evidence was usable, however evidence and windows overlap.
EvidenceIsJoinedByTime ==
    Aggregated =>
        /\ \A f \in ToSet(request.findings) :
              Localization(f.id) =
                  { <<m.arc, m.bin>> : m \in { m \in Lasting :
                        m.sequence = f.sequence /\ Overlaps(m, f.from, f.to) } }
        /\ \A key \in BinKeys : \A t \in bins[key].traversals, m \in Modality :
              /\ t.modalities[m].valid = Cardinality(Ticks(key, t, m, FALSE))
              /\ t.modalities[m].stamped = Cardinality(Ticks(key, t, m, TRUE))

\* The ledger's traversals, sums and joins are those of what the sequences did,
\* whatever the windows that recorded them share (make_pieces,
\* aggregate_directed_road_bins).
LedgerIsMeasured == TraversalsAreIndependent /\ CoverageIsMeasured /\ EvidenceIsJoinedByTime

\* What the validator of a traversal asserts of every traversal the kernel
\* returns (road_bins.py:286, "must advance along its directed arc").
TraversalsAdvance ==
    Aggregated => \A key \in BinKeys : \A t \in bins[key].traversals : t.exit > t.entry

=============================================================================
