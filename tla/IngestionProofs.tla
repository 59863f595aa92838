--------------------------- MODULE IngestionProofs ---------------------------
(***************************************************************************)
(* Proofs about Ingestion for any number of passes over any recording, for *)
(* every change of it, every crash and every I/O error; and about          *)
(* BoreasInspection for any sequences, sizes and writes to the files.      *)
(***************************************************************************)
EXTENDS Ingestion, BoreasInspection, FiniteSetTheorems, SequenceTheorems, WellFoundedInduction, TLAPS

(***************************************************************************)
(* The next source of a loop.                                              *)
(***************************************************************************)

\* A nonempty set of sources has a first one.
LEMMA FirstSource ==
    ASSUME NEW S \in SUBSET Nat, S # {}
    PROVE  \E s \in S : \A t \in S : s <= t
<1>1. PICK n \in S : TRUE
  OBVIOUS
<1> DEFINE Heads == { 0..s : s \in { t \in S : t <= n } }
           Order == StrictSubsetOrdering(0..n)
<1>2. n \in Nat /\ \A s \in S : s \in Nat
  BY <1>1
<1>3. Heads \subseteq SUBSET (0..n) /\ Heads # {}
  BY <1>1, <1>2
<1>4. Heads \subseteq FiniteSubsetsOf(0..n)
  <2>1. IsFiniteSet(0..n)
    BY <1>2, FS_Interval
  <2>2. FiniteSubsetsOf(0..n) = SUBSET (0..n)
    BY <2>1, FS_FiniteSubsetsOfFinite
  <2> QED
    BY <1>3, <2>2
<1>5. IsWellFoundedOn(Order, FiniteSubsetsOf(0..n))
  BY <1>2, FS_Interval, FS_StrictSubsetOrderingWellFounded
<1>6. PICK h \in Heads : \A g \in Heads : <<g, h>> \notin Order
  <2> HIDE DEF Heads, Order
  <2> QED
    BY <1>3, <1>4, <1>5, WFMin
<1>7. PICK s \in S : s <= n /\ h = 0..s
  BY <1>6
<1>8. ASSUME NEW t \in S PROVE s <= t
  <2>1. CASE t < s
    <3>1. t <= n /\ 0..t \in Heads
      BY <1>2, <1>7, <2>1
    <3>2. <<0..t, h>> \notin Order
      BY <1>6, <3>1
    <3>3. 0..t \subseteq 0..s /\ s \in 0..s /\ s \notin 0..t
      BY <1>2, <2>1
    <3>4. 0..t \in SUBSET (0..n) /\ 0..s \in SUBSET (0..n)
      BY <1>3, <1>6, <1>7, <3>1
    <3> QED
      BY <1>7, <3>2, <3>3, <3>4 DEF StrictSubsetOrdering
  <2> QED
    BY <1>2, <2>1
<1> QED
  BY <1>8

\* The round of a pass takes a source that is left.
LEMMA CurrentIsLeft ==
    ASSUME NEW p \in Process, todo[p] \subseteq Source, todo[p] # {}
    PROVE  Current(p) \in todo[p]
<1>1. \E s \in todo[p] : \A t \in todo[p] : s <= t
  BY FirstSource, IngestionAssumption
<1> QED
  BY <1>1 DEF Current

(***************************************************************************)
(* The collected findings.                                                 *)
(***************************************************************************)

Finding == Blocking \cup {"SOURCE_ORDER_REORDERED"}

Blocks(list) == \E i \in DOMAIN list : list[i] \in Blocking

\* The collector holds at most maximum_structural_findings.
LEMMA FindingsAreBounded ==
    ASSUME NEW list \in Seq(Finding), NEW codes \in Seq(Finding)
    PROVE  /\ AddFindings(list, codes) \in Seq(Finding)
           /\ Len(AddFindings(list, codes)) <= MaximumFindings
<1> DEFINE all == list \o codes
<1>1. all \in Seq(Finding) /\ MaximumFindings \in Nat /\ 1 <= MaximumFindings
  BY IngestionAssumption
<1>2. CASE Len(all) <= MaximumFindings
  BY <1>1, <1>2 DEF AddFindings
<1>3. CASE Len(all) > MaximumFindings
  <2> DEFINE kept == SubSeq(all, 1, MaximumFindings)
  <2>1. kept \in Seq(Finding) /\ Len(kept) = MaximumFindings
    BY <1>1, <1>3
  <2>2. "FINDING_LIMIT_EXCEEDED" \in Finding
    BY DEF Finding, Blocking
  <2>3. AddFindings(list, codes) =
          [kept EXCEPT ![MaximumFindings] = "FINDING_LIMIT_EXCEEDED"]
    BY <1>1, <1>3 DEF AddFindings
  <2>4. MaximumFindings \in 1..Len(kept)
    BY <1>1, <2>1
  <2> HIDE DEF kept
  <2>5. AddFindings(list, codes) \in Seq(Finding)
        /\ Len(AddFindings(list, codes)) = Len(kept)
    BY <2>1, <2>2, <2>3, <2>4, ExceptSeq
  <2> QED
    BY <1>1, <2>1, <2>5
<1> QED
  BY <1>1, <1>2, <1>3

\* A blocking finding is never lost: what the limit drops is replaced by a
\* finding that blocks as well (_FindingCollector.add, has_blocking).
LEMMA BlockingIsKept ==
    ASSUME NEW list \in Seq(Finding), NEW codes \in Seq(Finding),
           Blocks(list) \/ Blocks(codes)
    PROVE  Blocks(AddFindings(list, codes))
<1> DEFINE all == list \o codes
<1>1. all \in Seq(Finding) /\ MaximumFindings \in Nat /\ 1 <= MaximumFindings
  BY IngestionAssumption
<1>2. CASE Len(all) <= MaximumFindings
  <2>1. AddFindings(list, codes) = all
    BY <1>1, <1>2 DEF AddFindings
  <2>2. CASE Blocks(list)
    <3>1. PICK i \in 1..Len(list) : list[i] \in Blocking
      BY <2>2 DEF Blocks
    <3>2. i \in 1..Len(all) /\ all[i] = list[i]
      BY <3>1
    <3> QED
      BY <1>1, <2>1, <3>1, <3>2 DEF Blocks
  <2>3. CASE Blocks(codes)
    <3>1. PICK i \in 1..Len(codes) : codes[i] \in Blocking
      BY <2>3 DEF Blocks
    <3>2. Len(list) + i \in 1..Len(all) /\ all[Len(list) + i] = codes[i]
      BY <3>1
    <3> QED
      BY <1>1, <2>1, <3>1, <3>2 DEF Blocks
  <2> QED
    BY <2>2, <2>3
<1>3. CASE Len(all) > MaximumFindings
  <2> DEFINE kept == SubSeq(all, 1, MaximumFindings)
  <2>1. kept \in Seq(Finding) /\ Len(kept) = MaximumFindings
    BY <1>1, <1>3
  <2>2. AddFindings(list, codes) =
          [kept EXCEPT ![MaximumFindings] = "FINDING_LIMIT_EXCEEDED"]
    BY <1>1, <1>3 DEF AddFindings
  <2>3. MaximumFindings \in DOMAIN kept
    BY <1>1, <2>1
  <2>4. /\ MaximumFindings \in DOMAIN AddFindings(list, codes)
        /\ AddFindings(list, codes)[MaximumFindings] = "FINDING_LIMIT_EXCEEDED"
    BY <2>2, <2>3
  <2> QED
    BY <2>4 DEF Blocks, Blocking
<1> QED
  BY <1>1, <1>2, <1>3

(***************************************************************************)
(* Types.                                                                  *)
(***************************************************************************)

PcLabel == {"idle", "open", "enumerate", "hash", "calibrate", "scan", "verify",
            "decide", "publish", "sync", "failing", "accepted", "rejected",
            "refused", "dead"}

RecordingTypes == version \in [Source -> Nat] /\ present \subseteq Source

ControlTypes == /\ attempts \subseteq Process
                /\ pc \in [Process -> PcLabel]
                /\ todo \in [Process -> SUBSET Source]
                /\ frames \in [Process -> SUBSET Source]

ReadTypes == /\ snapshot \in [Process -> SUBSET Dated]
             /\ hashed \in [Process -> SUBSET Dated]
             /\ calibrated \in [Process -> SUBSET Dated]
             /\ seen \in [Process -> SUBSET Dated]
             /\ latest \in [Process -> SUBSET Dated]

ResultTypes == /\ findings \in [Process -> Seq(Finding)]
               /\ reordered \in [Process -> SUBSET Source]
               /\ blocked \in [Process -> BOOLEAN]

\* The types as functions of the passes, which the steps update one by one.
TypeInv == RecordingTypes /\ ControlTypes /\ ReadTypes /\ ResultTypes

\* What is read of a source that is there is dated.
LEMMA NowIsDated ==
    ASSUME RecordingTypes, NEW s \in present
    PROVE  Now(s) \in Dated
BY DEF RecordingTypes, Now, Dated

\* The codes that a pass reports.
LEMMA CodesAreFindings ==
    ASSUME TypeInv, NEW p \in Process
    PROVE  /\ \A c \in Finding : <<c>> \in Seq(Finding)
           /\ <<"DUPLICATE_TIMESTAMP", "DUPLICATE_TIMESTAMP">> \in Seq(Finding)
           /\ [i \in 1..Cardinality(reordered[p]) |-> "SOURCE_ORDER_REORDERED"]
                \in Seq(Finding)
<1>1. /\ \A c \in Finding : <<c>> \in Seq(Finding)
      /\ <<"DUPLICATE_TIMESTAMP", "DUPLICATE_TIMESTAMP">> \in Seq(Finding)
  BY DEF Finding, Blocking
<1>2. Cardinality(reordered[p]) \in Nat
  BY IngestionAssumption, FS_Subset, FS_CardinalityType DEF TypeInv, ResultTypes
<1>3. [i \in 1..Cardinality(reordered[p]) |-> "SOURCE_ORDER_REORDERED"] \in Seq(Finding)
  BY <1>2, IsASeq DEF Finding
<1> QED
  BY <1>1, <1>3

\* Reporting findings keeps their types.
LEMMA FindTypes ==
    ASSUME TypeInv, NEW p \in Process, NEW codes \in Seq(Finding), Find(p, codes)
    PROVE  ResultTypes'
<1>1. AddFindings(findings[p], codes) \in Seq(Finding)
  BY FindingsAreBounded DEF TypeInv, ResultTypes
<1> QED
  BY <1>1 DEF Find, TypeInv, ResultTypes

\* Every pass starts without anything.
LEMMA TypeInit == Init => TypeInv
<1> SUFFICES ASSUME Init PROVE TypeInv
  OBVIOUS
<1>1. << >> \in Seq(Finding)
  OBVIOUS
<1> QED
  BY <1>1, IngestionAssumption DEF Init, TypeInv, RecordingTypes, ControlTypes, ReadTypes,
     ResultTypes, PcLabel

\* The steps of a pass that give up.
Abandon(p, c) == Reject(p, c) \/ Fail(p, c)

\* Which they are, and what they report.
LEMMA Abandonments ==
    ASSUME NEW p \in Process,
           \/ EnumerateFails(p) \/ HashFails(p) \/ CalibrateFails(p)
           \/ ScanFails(p) \/ VerifyFails(p) \/ PublishFails(p) \/ IoFails(p)
    PROVE  pc[p] \notin {"idle", "rejected"} /\ \E c \in Blocking : Abandon(p, c)
BY DEF EnumerateFails, HashFails, CalibrateFails, ScanFails, VerifyFails,
   PublishFails, IoFails, Abandon, Blocking, At, Staged

\* What preflight reports of a recording that lacks sources.
LEMMA MissingAreFindings ==
    ASSUME RecordingTypes
    PROVE  /\ MissingSources \in 0..(Cardinality(Required) + 1)
           /\ MissingSources > 0 =>
                LET list == [i \in 1..MissingSources |-> "MISSING_REQUIRED_SOURCE"]
                IN  list \in Seq(Finding) /\ Len(list) = MissingSources /\ Blocks(list)
<1>1. IsFiniteSet(Required)
  BY IngestionAssumption, FS_Subset DEF Required, Source
<1>2. /\ Cardinality(Required) \in Nat /\ Cardinality(Required \ present) \in Nat
      /\ Cardinality(Required \ present) <= Cardinality(Required)
  BY <1>1, FS_Subset, FS_CardinalityType
<1>3. MissingSources \in 0..(Cardinality(Required) + 1)
  BY <1>2 DEF MissingSources
<1> DEFINE list == [i \in 1..MissingSources |-> "MISSING_REQUIRED_SOURCE"]
<1>4. ASSUME MissingSources > 0
      PROVE  list \in Seq(Finding) /\ Len(list) = MissingSources /\ Blocks(list)
  <2>1. MissingSources \in Nat
    BY <1>2, <1>3
  <2>2. \A i \in 1..MissingSources : list[i] \in Finding /\ list[i] \in Blocking
    BY DEF Finding, Blocking
  <2>3. list \in Seq(Finding)
    BY <2>1, <2>2, IsASeq
  <2>4. DOMAIN list = 1..MissingSources /\ 1 \in DOMAIN list
    BY <1>4, <2>1
  <2>5. Len(list) = MissingSources
    BY <2>1, <2>3, <2>4
  <2> QED
    BY <2>2, <2>3, <2>4, <2>5 DEF Blocks
<1> QED
  BY <1>3, <1>4

\* Every step keeps the types.
LEMMA TypeStep ==
    ASSUME TypeInv, [Next]_vars
    PROVE  TypeInv'
<1> USE DEF TypeInv
<1>1. ASSUME NEW p \in Process, NEW c \in Blocking, Abandon(p, c)
      PROVE  TypeInv'
  <2>1. ResultTypes'
    BY <1>1, FindTypes, CodesAreFindings DEF Abandon, Reject, Fail, Finding
  <2> QED
    BY <1>1, <2>1 DEF Abandon, Reject, Fail, Goto, RecordingTypes, ControlTypes,
       ReadTypes, PcLabel, recording, reads
<1>2. ASSUME NEW p \in Process,
             Preflight(p) \/ Open(p) \/ Stage(p) \/ HashDone(p) \/ ManifestDone(p)
      PROVE  TypeInv'
  <2>1. UNCHANGED <<recording, hashed, snapshot, calibrated, seen, latest, result>>
    BY <1>2 DEF Preflight, Open, Stage, HashDone, ManifestDone, reads
  <2>2. Selected(p) \subseteq Source /\ Enumerated(p) \subseteq Source
        /\ Calibration \subseteq Source /\ Csv \cup frames[p] \subseteq Source
    BY IngestionAssumption DEF Selected, Required, Source, Enumerated, ReadTypes, Dated,
       ControlTypes
  <2>3. ControlTypes'
    BY <1>2, <2>2 DEF Preflight, Open, Stage, HashDone, ManifestDone, Loop, Goto,
       ControlTypes, PcLabel, reads, Source
  <2> QED
    BY <2>1, <2>3 DEF RecordingTypes, ReadTypes, ResultTypes, recording, result
<1>3. ASSUME NEW p \in Process,
             Enumerate(p) \/ Hash(p) \/ Calibrate(p) \/ ScanRead(p) \/ Verify(p)
      PROVE  TypeInv'
  <2>1. UNCHANGED <<recording, attempts, frames, pc, result>>
    BY <1>3 DEF Enumerate, Hash, Calibrate, ScanRead, Verify, Advance
  <2>2. todo' = todo \/ todo' = [todo EXCEPT ![p] = todo[p] \ {Current(p)}]
    BY <1>3 DEF Enumerate, Hash, Calibrate, ScanRead, Verify, Advance
  <2>3. ReadTypes'
    BY <1>3, NowIsDated DEF Enumerate, Hash, Calibrate, ScanRead, Verify, ReadTypes
  <2> QED
    BY <2>1, <2>2, <2>3 DEF RecordingTypes, ControlTypes, ResultTypes, recording, result
<1>4. ASSUME NEW p \in Process, Scan(p) \/ ScanDone(p) \/ VerifyDone(p)
      PROVE  TypeInv'
  <2>1. UNCHANGED <<recording, attempts, reads>>
    BY <1>4 DEF Scan, ScanDone, VerifyDone
  <2>2. ResultTypes'
    <3>1. CASE UNCHANGED result
      BY <3>1 DEF ResultTypes, result
    <3>2. CASE \E codes \in Seq(Finding) : Find(p, codes)
      BY <3>2, FindTypes
    <3>3. CASE Scan(p) /\ UNCHANGED <<findings, blocked>>
               /\ reordered' = [reordered EXCEPT ![p] = @ \cup {Current(p)}]
      <4>1. Current(p) \in Source
        BY <3>3, CurrentIsLeft DEF Scan, At, ControlTypes
      <4> QED
        BY <3>3, <4>1 DEF ResultTypes
    <3>4. "SOURCE_CHANGED" \in Finding
      BY DEF Finding, Blocking
    <3> QED
      BY <1>4, <3>1, <3>2, <3>3, <3>4, CodesAreFindings DEF Scan, ScanDone, VerifyDone
  <2>3. ControlTypes'
    <3>1. Selected(p) \subseteq Source
      BY IngestionAssumption DEF Selected, Required, Source, ControlTypes
    <3> QED
      BY <1>4, <2>1, <3>1 DEF Scan, ScanDone, VerifyDone, Advance, Loop, Goto, ControlTypes,
         PcLabel, reads
  <2> QED
    BY <2>1, <2>2, <2>3 DEF RecordingTypes, ReadTypes, recording, reads
<1>5. ASSUME NEW p \in Process,
             Decide(p) \/ Publish(p) \/ Sync(p) \/ Cleanup(p) \/ Crash(p)
      PROVE  TypeInv'
  <2>1. UNCHANGED <<recording, todo, reads, result>>
    BY <1>5 DEF Decide, Publish, Sync, Cleanup, Crash
  <2>2. ControlTypes'
    BY <1>5, <2>1 DEF Decide, Publish, Sync, Cleanup, Crash, Goto, ControlTypes, PcLabel,
       reads
  <2> QED
    BY <2>1, <2>2 DEF RecordingTypes, ReadTypes, ResultTypes, recording, reads, result
<1>6. CASE Change
  <2>1. UNCHANGED <<attempts, pc, todo, reads, result>>
    BY <1>6 DEF Change, Alter, Remove, Add
  <2>2. RecordingTypes'
    BY <1>6 DEF Change, Alter, Remove, Add, RecordingTypes
  <2> QED
    BY <2>1, <2>2 DEF ControlTypes, ReadTypes, ResultTypes, reads, result
<1>7. CASE UNCHANGED vars
  BY <1>7 DEF vars, recording, reads, result, RecordingTypes, ControlTypes, ReadTypes,
     ResultTypes
<1>8. ASSUME NEW p \in Process, PreflightMissing(p) PROVE TypeInv'
  <2>1. ResultTypes'
    BY <1>8, MissingAreFindings DEF PreflightMissing, ResultTypes
  <2>2. UNCHANGED <<version, present, attempts, todo, frames>> /\ ReadTypes'
    BY <1>8 DEF PreflightMissing, recording, reads, ReadTypes
  <2>3. pc' \in [Process -> PcLabel]
    BY <1>8 DEF PreflightMissing, Goto, ControlTypes, PcLabel
  <2> QED
    BY <2>1, <2>2, <2>3 DEF RecordingTypes, ControlTypes
<1> QED
  BY <1>1, <1>2, <1>3, <1>4, <1>5, <1>6, <1>7, <1>8, Abandonments DEF Next, Work

(***************************************************************************)
(* What a pass has read, against what the recording held meanwhile.        *)
(***************************************************************************)

Keys(S) == { e[1] : e \in S }

\* What was parsed lies between the two enumerations, and what was hashed is in
\* the first one, which holds each source once.
Evidence(p) ==
    /\ \A e \in snapshot[p] \cup calibrated[p] \cup seen[p] \cup latest[p] :
         e[2] <= version[e[1]]
    /\ \A e \in calibrated[p] \cup seen[p] :
         /\ \A f \in snapshot[p] : f[1] = e[1] => f[2] <= e[2]
         /\ \A g \in latest[p] : g[1] = e[1] => e[2] <= g[2]
    /\ \A e, f \in snapshot[p] : e[1] = f[1] => e = f
    /\ hashed[p] \subseteq snapshot[p]
    /\ Keys(seen[p]) \subseteq Csv \cup frames[p]

Early == {"idle", "open", "enumerate"}
Reading == {"hash", "calibrate", "scan"}
Late == {"verify", "decide", "publish"}

\* Nothing is read before its turn.
NotYetRead(p) ==
    /\ pc[p] \in {"idle", "open"} => snapshot[p] = {}
    /\ pc[p] \in Early => hashed[p] = {} /\ calibrated[p] = {} /\ seen[p] = {}
    /\ pc[p] \in Early \cup Reading => latest[p] = {}

\* Whatever is scanned was enumerated and hashed before.
ScannedIsEnumerated(p) ==
    /\ pc[p] = "enumerate" =>
         /\ Csv \cup frames[p] \subseteq Keys(snapshot[p]) \cup todo[p]
         /\ Keys(snapshot[p]) \cap todo[p] = {}
    /\ pc[p] \in Reading \cup Late => Csv \cup frames[p] \subseteq Keys(snapshot[p])
    /\ pc[p] = "hash" => \A f \in snapshot[p] : f \in hashed[p] \/ f[1] \in todo[p]
    /\ pc[p] \in {"calibrate", "scan"} \cup Late => snapshot[p] \subseteq hashed[p]
    /\ pc[p] = "scan" => todo[p] \subseteq Csv \cup frames[p]

\* A change that the second enumeration shows is reported, a finding that
\* blocked once blocks for good, and nothing is published over it.
ChangeIsReported(p) ==
    /\ blocked[p] => HasBlocking(p)
    /\ pc[p] \in {"decide", "publish"} => latest[p] = snapshot[p] \/ HasBlocking(p)
    /\ pc[p] \in {"publish", "sync"} => ~HasBlocking(p)

PassInv(p) == /\ Evidence(p) /\ NotYetRead(p) /\ ScannedIsEnumerated(p)
              /\ ChangeIsReported(p)

\* The steps of one pass leave the others and the recording alone.
LEMMA OthersStay ==
    ASSUME TypeInv, NEW p \in Process, NEW q \in Process \ {p},
           Work(p) \/ IoFails(p) \/ Crash(p)
    PROVE  /\ version' = version
           /\ pc'[q] = pc[q] /\ todo'[q] = todo[q] /\ frames'[q] = frames[q]
           /\ snapshot'[q] = snapshot[q] /\ hashed'[q] = hashed[q]
           /\ calibrated'[q] = calibrated[q] /\ seen'[q] = seen[q]
           /\ latest'[q] = latest[q]
           /\ findings'[q] = findings[q] /\ blocked'[q] = blocked[q]
<1> USE DEF TypeInv, ControlTypes, ReadTypes, ResultTypes, Goto, Loop, Advance, Find
<1>1. ASSUME NEW c \in Blocking, Abandon(p, c)
      PROVE  /\ version' = version
             /\ pc'[q] = pc[q] /\ todo'[q] = todo[q] /\ frames'[q] = frames[q]
             /\ snapshot'[q] = snapshot[q] /\ hashed'[q] = hashed[q]
             /\ calibrated'[q] = calibrated[q] /\ seen'[q] = seen[q]
             /\ latest'[q] = latest[q]
             /\ findings'[q] = findings[q] /\ blocked'[q] = blocked[q]
  BY <1>1 DEF Abandon, Reject, Fail, recording, reads
<1>2. CASE Preflight(p) \/ Open(p) \/ Stage(p) \/ HashDone(p) \/ ManifestDone(p)
  BY <1>2 DEF Preflight, Open, Stage, HashDone, ManifestDone, recording, reads, result
<1>3. CASE Enumerate(p) \/ Hash(p) \/ Calibrate(p) \/ ScanRead(p) \/ Verify(p)
  BY <1>3 DEF Enumerate, Hash, Calibrate, ScanRead, Verify, recording, result
<1>4. CASE Scan(p) \/ ScanDone(p) \/ VerifyDone(p)
  BY <1>4 DEF Scan, ScanDone, VerifyDone, recording, reads, result
<1>5. CASE Decide(p) \/ Publish(p) \/ Sync(p) \/ Cleanup(p) \/ Crash(p)
  BY <1>5 DEF Decide, Publish, Sync, Cleanup, Crash, recording, reads, result
<1>6. CASE PreflightMissing(p)
  BY <1>6 DEF PreflightMissing, recording, reads
<1> QED
  BY <1>1, <1>2, <1>3, <1>4, <1>5, <1>6, Abandonments DEF Work

\* What preflight reports and what the collector holds are bounded apart: a pass
\* that was not let through has opened no frame and collects nothing.
Limits(p) ==
    /\ Len(findings[p]) <= FindingLimit(p)
    /\ frames[p] = {} => pc[p] \in {"idle", "rejected"}
    /\ pc[p] = "idle" => frames[p] = {} /\ findings[p] = <<>>

\* No step of a pass exceeds its limit.
LEMMA LimitsKeep ==
    ASSUME TypeInv, NEW p \in Process, Limits(p), Work(p) \/ IoFails(p) \/ Crash(p)
    PROVE  Limits(p)'
<1>1. MaximumFindings \in Nat /\ findings[p] \in Seq(Finding) /\ pc \in [Process -> PcLabel]
  BY IngestionAssumption DEF TypeInv, ResultTypes, ControlTypes
<1>2. CASE PreflightMissing(p)
  <2>1. /\ pc[p] = "idle" /\ MissingSources > 0 /\ frames' = frames /\ pc'[p] = "rejected"
        /\ findings'[p] = [i \in 1..MissingSources |-> "MISSING_REQUIRED_SOURCE"]
    BY <1>1, <1>2 DEF PreflightMissing, Goto, reads, TypeInv, ResultTypes
  <2>2. Len(findings'[p]) <= Cardinality(Required) + 1
    <3>1. Len(findings'[p]) = MissingSources /\ MissingSources \in 0..(Cardinality(Required) + 1)
      BY <2>1, MissingAreFindings DEF TypeInv
    <3> QED
      BY <3>1
  <2>3. frames'[p] = {}
    BY <2>1 DEF Limits
  <2> QED
    BY <2>1, <2>2, <2>3 DEF Limits, FindingLimit
<1>3. CASE Preflight(p)
  <2>1. /\ pc[p] = "idle" /\ MissingSources = 0 /\ frames'[p] = Frame \cap present
        /\ pc'[p] = "open" /\ findings' = findings
    BY <1>1, <1>3 DEF Preflight, Goto, result, TypeInv, ControlTypes
  <2>2. frames'[p] # {}
    <3>1. Cardinality(Required \ present) \in Nat
      BY IngestionAssumption, FS_Subset, FS_CardinalityType DEF Required, Source
    <3> QED
      BY <2>1, <3>1 DEF MissingSources
  <2>3. Len(findings'[p]) = 0
    BY <2>1 DEF Limits
  <2> QED
    BY <1>1, <2>1, <2>2, <2>3 DEF Limits, FindingLimit
<1>4. CASE ~PreflightMissing(p) /\ ~Preflight(p)
  <2>1. /\ pc[p] \notin {"idle", "rejected"} /\ frames' = frames /\ pc'[p] # "idle"
        /\ findings' = findings \/ \E codes \in Seq(Finding) : Find(p, codes)
    <3>1. CASE EnumerateFails(p) \/ HashFails(p) \/ CalibrateFails(p) \/ ScanFails(p)
               \/ VerifyFails(p) \/ PublishFails(p) \/ IoFails(p)
      <4>1. pc[p] \notin {"idle", "rejected"} /\ \E c \in Blocking : Abandon(p, c)
        BY <3>1, Abandonments
      <4>2. PICK c \in Blocking : Abandon(p, c)
        BY <4>1
      <4>3. Find(p, <<c>>) /\ frames' = frames /\ pc'[p] # "idle" /\ <<c>> \in Seq(Finding)
        BY <1>1, <4>2, CodesAreFindings DEF Abandon, Reject, Fail, Goto, reads, Finding
      <4> QED
        BY <4>1, <4>3
    <3>2. CASE Open(p) \/ Stage(p) \/ HashDone(p) \/ ManifestDone(p) \/ Decide(p) \/ Publish(p)
               \/ Sync(p) \/ Cleanup(p) \/ Crash(p)
      BY <1>1, <3>2 DEF Open, Stage, HashDone, ManifestDone, Decide, Publish, Sync, Cleanup, Crash,
         Goto, Loop, Ended, Returned, reads, result
    <3>3. CASE Enumerate(p) \/ Hash(p) \/ Calibrate(p) \/ ScanRead(p) \/ Verify(p)
      BY <3>3 DEF Enumerate, Hash, Calibrate, ScanRead, Verify, At, Advance, result
    <3>4. CASE Scan(p) \/ ScanDone(p) \/ VerifyDone(p)
      <4>1. /\ pc[p] \notin {"idle", "rejected"} /\ frames' = frames /\ pc'[p] # "idle"
        BY <1>1, <3>4 DEF Scan, ScanDone, VerifyDone, At, Ended, Advance, Goto, Loop, reads
      <4>2. <<"SOURCE_CHANGED">> \in Seq(Finding)
        BY CodesAreFindings DEF Finding, Blocking
      <4>3. findings' = findings \/ \E codes \in Seq(Finding) : Find(p, codes)
        BY <3>4, <4>2, CodesAreFindings DEF Scan, ScanDone, VerifyDone, result
      <4> QED
        BY <4>1, <4>3
    <3> QED
      BY <1>4, <3>1, <3>2, <3>3, <3>4 DEF Work
  <2>2. frames[p] # {} /\ frames'[p] # {}
    BY <2>1 DEF Limits
  <2>3. Len(findings'[p]) <= MaximumFindings
    <3>1. CASE findings' = findings
      BY <2>2, <3>1 DEF Limits, FindingLimit
    <3>2. CASE \E codes \in Seq(Finding) : Find(p, codes)
      <4>1. PICK codes \in Seq(Finding) : Find(p, codes)
        BY <3>2
      <4>2. findings'[p] = AddFindings(findings[p], codes)
        BY <4>1 DEF Find, TypeInv, ResultTypes
      <4> QED
        BY <1>1, <4>2, FindingsAreBounded
    <3> QED
      BY <2>1, <3>1, <3>2
  <2> QED
    BY <2>1, <2>2, <2>3 DEF Limits, FindingLimit
<1> QED
  BY <1>2, <1>3, <1>4

\* Nor does any other.
LEMMA LimitsStep ==
    ASSUME TypeInv, \A q \in Process : Limits(q), [Next]_vars
    PROVE  \A q \in Process : Limits(q)'
<1> SUFFICES ASSUME NEW q \in Process PROVE Limits(q)'
  OBVIOUS
<1>1. CASE UNCHANGED <<pc, frames, findings>>
  BY <1>1 DEF Limits, FindingLimit
<1>2. ASSUME NEW p \in Process, Work(p) \/ IoFails(p) \/ Crash(p) PROVE Limits(q)'
  <2>1. CASE q = p
    BY <1>2, <2>1, LimitsKeep
  <2>2. CASE q # p
    <3>1. pc'[q] = pc[q] /\ frames'[q] = frames[q] /\ findings'[q] = findings[q]
      BY <1>2, <2>2, OthersStay
    <3> QED
      BY <3>1 DEF Limits, FindingLimit
  <2> QED
    BY <2>1, <2>2
<1>3. CASE Change \/ UNCHANGED vars
  <2>1. UNCHANGED <<pc, frames, findings>>
    BY <1>3 DEF Change, Alter, Remove, Add, vars, reads, result
  <2> QED
    BY <1>1, <2>1
<1> QED
  BY <1>2, <1>3 DEF Next

\* So what they have read and found stays as good as it was.
LEMMA OthersKeep ==
    ASSUME TypeInv, NEW p \in Process, NEW q \in Process \ {p},
           Work(p) \/ IoFails(p) \/ Crash(p), PassInv(q)
    PROVE  PassInv(q)'
<1>1. Evidence(q)'
  BY OthersStay DEF PassInv, Evidence
<1>2. NotYetRead(q)' /\ ScannedIsEnumerated(q)'
  BY OthersStay DEF PassInv, NotYetRead, ScannedIsEnumerated
<1>3. ChangeIsReported(q)'
  BY OthersStay DEF PassInv, ChangeIsReported, HasBlocking
<1> QED
  BY <1>1, <1>2, <1>3 DEF PassInv

\* A change of the recording only makes its versions later.
LEMMA ChangesKeep ==
    ASSUME TypeInv, Change, NEW p \in Process, PassInv(p)
    PROVE  PassInv(p)'
<1>1. UNCHANGED <<pc, todo, reads, result>>
  BY DEF Change, Alter, Remove, Add
<1>2. \A s \in Source : version'[s] \in Nat /\ version[s] \in Nat /\ version[s] <= version'[s]
  BY DEF Change, Alter, Remove, Add, TypeInv, RecordingTypes
<1>3. Evidence(p)'
  <2>1. \A e \in snapshot[p] \cup calibrated[p] \cup seen[p] \cup latest[p] :
          e[1] \in Source /\ e[2] \in Nat /\ e[2] <= version[e[1]]
    BY DEF PassInv, Evidence, TypeInv, ReadTypes, Dated
  <2>2. \A e \in snapshot[p] \cup calibrated[p] \cup seen[p] \cup latest[p] :
          e[2] <= version'[e[1]]
    BY <1>2, <2>1
  <2> QED
    BY <1>1, <2>2 DEF PassInv, Evidence, reads
<1>4. NotYetRead(p)' /\ ScannedIsEnumerated(p)' /\ ChangeIsReported(p)'
  BY <1>1 DEF PassInv, NotYetRead, ScannedIsEnumerated, ChangeIsReported, HasBlocking, reads,
     result
<1> QED
  BY <1>3, <1>4 DEF PassInv

\* Reporting findings loses none that blocks, and remembers those it adds.
LEMMA FindingsKeep ==
    ASSUME TypeInv, NEW p \in Process, NEW codes \in Seq(Finding), Find(p, codes),
           blocked[p] => HasBlocking(p)
    PROVE  /\ blocked'[p] => HasBlocking(p)'
           /\ HasBlocking(p) => HasBlocking(p)'
           /\ Blocks(codes) => HasBlocking(p)'
<1>1. findings'[p] = AddFindings(findings[p], codes) /\ findings[p] \in Seq(Finding)
  BY DEF Find, TypeInv, ResultTypes
<1>2. blocked'[p] => blocked[p] \/ Blocks(codes)
  BY DEF Find, TypeInv, ResultTypes, Blocks
<1>3. HasBlocking(p) = Blocks(findings[p]) /\ HasBlocking(p)' = Blocks(findings'[p])
  BY DEF HasBlocking, Blocks
<1> QED
  BY <1>1, <1>2, <1>3, BlockingIsKept

(***************************************************************************)
(* The steps of a pass and what it has read itself.                        *)
(***************************************************************************)

\* A pass that gives up has nothing to keep but its findings.
LEMMA AbandonKeeps ==
    ASSUME TypeInv, NEW p \in Process, PassInv(p), NEW c \in Blocking, Abandon(p, c)
    PROVE  PassInv(p)'
<1>1. /\ UNCHANGED <<version, reads>> /\ pc'[p] \in {"rejected", "failing"}
      /\ Find(p, <<c>>)
  BY DEF Abandon, Reject, Fail, Goto, recording, TypeInv, ControlTypes
<1>2. Evidence(p)'
  BY <1>1 DEF PassInv, Evidence, reads
<1>3. blocked'[p] => HasBlocking(p)'
  <2>1. <<c>> \in Seq(Finding)
    BY CodesAreFindings DEF Finding
  <2> QED
    BY <1>1, <2>1, FindingsKeep DEF PassInv, ChangeIsReported
<1> QED
  BY <1>1, <1>2, <1>3 DEF PassInv, NotYetRead, ScannedIsEnumerated, ChangeIsReported,
     Early, Reading, Late

\* Nor has a pass that preflight turned away.
LEMMA TurnedAwayKeeps ==
    ASSUME TypeInv, NEW p \in Process, PassInv(p), PreflightMissing(p)
    PROVE  PassInv(p)'
<1>1. /\ UNCHANGED <<version, reads>> /\ pc[p] = "idle" /\ pc'[p] = "rejected"
      /\ MissingSources > 0
      /\ findings'[p] = [i \in 1..MissingSources |-> "MISSING_REQUIRED_SOURCE"]
  BY DEF PreflightMissing, Goto, recording, TypeInv, ControlTypes, ResultTypes
<1>2. HasBlocking(p)'
  <2>1. Blocks(findings'[p])
    BY <1>1, MissingAreFindings DEF TypeInv
  <2> QED
    BY <2>1 DEF HasBlocking, Blocks
<1>3. Evidence(p)'
  BY <1>1 DEF PassInv, Evidence, reads
<1> QED
  BY <1>1, <1>2, <1>3 DEF PassInv, NotYetRead, ScannedIsEnumerated, ChangeIsReported,
     Early, Reading, Late

\* The passage from one loop to the next.
LEMMA PassageKeeps ==
    ASSUME TypeInv, NEW p \in Process, PassInv(p),
           \/ Preflight(p) \/ Open(p) \/ Stage(p) \/ HashDone(p) \/ ManifestDone(p)
           \/ Decide(p) \/ Publish(p) \/ Sync(p) \/ Cleanup(p) \/ Crash(p)
    PROVE  PassInv(p)'
<1> USE DEF TypeInv, ControlTypes, Early, Reading, Late
<1>1. UNCHANGED <<version, snapshot, hashed, calibrated, seen, latest, result>>
  BY DEF Preflight, Open, Stage, HashDone, ManifestDone, Decide, Publish, Sync, Cleanup,
     Crash, recording, reads
<1>2. frames'[p] = frames[p] \/ (pc[p] = "idle" /\ pc'[p] = "open")
  BY DEF Preflight, Open, Stage, HashDone, ManifestDone, Decide, Publish, Sync, Cleanup,
     Crash, reads, Goto
<1>3. Evidence(p)'
  <2>1. CASE frames'[p] = frames[p]
    BY <1>1, <2>1 DEF PassInv, Evidence
  <2>2. CASE pc[p] = "idle"
    BY <1>1, <2>2 DEF PassInv, Evidence, NotYetRead, Keys
  <2> QED
    BY <1>2, <2>1, <2>2
<1>4. NotYetRead(p)'
  <2>1. /\ pc'[p] \in {"idle", "open"} => pc[p] \in {"idle", "open"}
        /\ pc'[p] \in Early => pc[p] \in Early
        /\ pc'[p] \in Reading => pc[p] \in Early \cup Reading
    BY DEF Preflight, Open, Stage, HashDone, ManifestDone, Decide, Publish, Sync, Cleanup,
       Crash, Goto, Loop, Ended
  <2> QED
    BY <1>1, <2>1 DEF PassInv, NotYetRead
<1>5. ScannedIsEnumerated(p)'
  <2>1. CASE Open(p)
    <3>1. CASE pc'[p] = "enumerate"
      <4>1. /\ todo'[p] = Selected(p) /\ frames'[p] = frames[p]
            /\ snapshot[p] = {}
        BY <2>1, <3>1 DEF Open, Loop, Goto, reads, PassInv, NotYetRead
      <4>2. Csv \cup frames[p] \subseteq Selected(p)
        BY DEF Selected, Required
      <4> QED
        BY <1>1, <3>1, <4>1, <4>2 DEF ScannedIsEnumerated, Keys
    <3>2. CASE pc'[p] = "refused"
      BY <3>2 DEF ScannedIsEnumerated
    <3> QED
      BY <2>1, <3>1, <3>2 DEF Open, Loop, Goto
  <2>2. CASE Stage(p)
    <3>1. /\ pc[p] = "enumerate" /\ todo[p] = {} /\ pc'[p] = "hash"
          /\ todo'[p] = Enumerated(p) /\ frames'[p] = frames[p]
      BY <2>2 DEF Stage, Ended, Loop, Goto, reads
    <3>2. Enumerated(p) = Keys(snapshot[p])
      BY DEF Enumerated, Keys
    <3>3. Csv \cup frames[p] \subseteq Keys(snapshot[p])
      BY <3>1 DEF PassInv, ScannedIsEnumerated
    <3> QED
      BY <1>1, <3>1, <3>2, <3>3 DEF ScannedIsEnumerated, Keys
  <2>3. CASE HashDone(p) \/ ManifestDone(p)
    BY <1>1, <2>3 DEF HashDone, ManifestDone, Ended, Loop, Goto, reads, PassInv,
       ScannedIsEnumerated
  <2>4. CASE Decide(p)
    BY <1>1, <2>4 DEF Decide, Goto, reads, PassInv, ScannedIsEnumerated
  <2>5. CASE Preflight(p) \/ Publish(p) \/ Sync(p) \/ Cleanup(p) \/ Crash(p)
    BY <2>5 DEF Preflight, Publish, Sync, Cleanup, Crash, Goto, ScannedIsEnumerated
  <2> QED
    BY <2>1, <2>2, <2>3, <2>4, <2>5
<1>6. ChangeIsReported(p)'
  <2>1. /\ pc'[p] = "publish" => Decide(p)
        /\ pc'[p] = "sync" => Publish(p)
        /\ pc'[p] # "decide"
    BY DEF Preflight, Open, Stage, HashDone, ManifestDone, Decide, Publish, Sync, Cleanup,
       Crash, Goto, Loop, Ended
  <2>2. HasBlocking(p)' = HasBlocking(p)
    BY <1>1 DEF HasBlocking, result
  <2> QED
    BY <1>1, <2>1, <2>2 DEF PassInv, ChangeIsReported, Decide, Publish, Goto, result
<1> QED
  BY <1>3, <1>4, <1>5, <1>6 DEF PassInv

\* The first enumeration of a source.
LEMMA EnumerateKeeps ==
    ASSUME TypeInv, NEW p \in Process, PassInv(p), Enumerate(p)
    PROVE  PassInv(p)'
<1> DEFINE s == Current(p)
<1>1. /\ UNCHANGED <<version, hashed, calibrated, seen, latest, pc, frames, result>>
      /\ pc[p] = "enumerate" /\ s \in todo[p] /\ s \in Source
      /\ snapshot'[p] = snapshot[p] \cup {Now(s)}
      /\ todo'[p] = todo[p] \ {s}
  BY CurrentIsLeft DEF Enumerate, At, Advance, recording, TypeInv, ControlTypes, ReadTypes
<1>2. /\ hashed[p] = {} /\ calibrated[p] = {} /\ seen[p] = {} /\ latest[p] = {}
      /\ Keys(snapshot[p]) \cap todo[p] = {}
      /\ Csv \cup frames[p] \subseteq Keys(snapshot[p]) \cup todo[p]
  BY <1>1 DEF PassInv, NotYetRead, ScannedIsEnumerated, Early
<1>3. /\ Now(s)[1] = s /\ Now(s)[2] = version[s] /\ version[s] \in Nat
      /\ Keys(snapshot'[p]) = Keys(snapshot[p]) \cup {s}
  <2>1. Now(s)[1] = s /\ Now(s)[2] = version[s] /\ version[s] \in Nat
    BY <1>1 DEF Now, TypeInv, RecordingTypes
  <2>2. Keys(snapshot'[p]) = Keys(snapshot[p]) \cup {s}
    BY <1>1, <2>1 DEF Keys
  <2> QED
    BY <2>1, <2>2
<1>4. \A e \in snapshot[p] : e[1] # s
  BY <1>1, <1>2 DEF Keys
<1>5. Evidence(p)'
  <2>1. \A e \in snapshot'[p] : e[2] <= version[e[1]]
    BY <1>1, <1>3 DEF PassInv, Evidence
  <2>2. \A e, f \in snapshot'[p] : e[1] = f[1] => e = f
    BY <1>1, <1>3, <1>4 DEF PassInv, Evidence
  <2> QED
    BY <1>1, <1>2, <2>1, <2>2 DEF Evidence, Keys
<1>6. NotYetRead(p)'
  BY <1>1, <1>2 DEF NotYetRead
<1>7. ScannedIsEnumerated(p)'
  BY <1>1, <1>2, <1>3 DEF ScannedIsEnumerated, Reading, Late
<1>8. ChangeIsReported(p)'
  BY <1>1 DEF PassInv, ChangeIsReported, HasBlocking, result
<1> QED
  BY <1>5, <1>6, <1>7, <1>8 DEF PassInv

\* The hashing of a source, in the version enumerated.
LEMMA HashKeeps ==
    ASSUME TypeInv, NEW p \in Process, PassInv(p), Hash(p)
    PROVE  PassInv(p)'
<1> DEFINE s == Current(p)
<1>1. /\ UNCHANGED <<version, snapshot, calibrated, seen, latest, pc, frames, result>>
      /\ pc[p] = "hash" /\ Now(s) \in snapshot[p] /\ Now(s)[1] = s
      /\ hashed'[p] = hashed[p] \cup {Now(s)}
      /\ todo'[p] = todo[p] \ {s}
  BY DEF Hash, At, Advance, recording, TypeInv, ControlTypes, ReadTypes, Now
<1>2. Evidence(p)'
  BY <1>1 DEF PassInv, Evidence
<1>3. NotYetRead(p)'
  BY <1>1 DEF PassInv, NotYetRead, Early
<1>4. ScannedIsEnumerated(p)'
  <2>1. ASSUME NEW f \in snapshot[p] PROVE f \in hashed'[p] \/ f[1] \in todo'[p]
    <3>1. f[1] = s => f = Now(s)
      BY <1>1 DEF PassInv, Evidence
    <3> QED
      BY <1>1, <3>1 DEF PassInv, ScannedIsEnumerated
  <2> QED
    BY <1>1, <2>1 DEF PassInv, ScannedIsEnumerated, Reading, Late
<1>5. ChangeIsReported(p)'
  BY <1>1 DEF PassInv, ChangeIsReported, HasBlocking, result
<1> QED
  BY <1>2, <1>3, <1>4, <1>5 DEF PassInv

\* A source that is parsed is parsed in its version of now.
LEMMA ParseKeeps ==
    ASSUME TypeInv, NEW p \in Process, PassInv(p), Calibrate(p) \/ ScanRead(p)
    PROVE  PassInv(p)'
<1> DEFINE s == Current(p)
           Read(S, T) == T = S \/ (s \in Source /\ T = S \cup {Now(s)})
<1>1. /\ UNCHANGED <<version, snapshot, hashed, latest, pc, frames, result>>
      /\ pc[p] \in {"calibrate", "scan"} /\ todo'[p] \subseteq todo[p]
      /\ Read(calibrated[p], calibrated'[p]) /\ Read(seen[p], seen'[p])
  <2>1. CASE Calibrate(p)
    BY <2>1 DEF Calibrate, At, Advance, recording, TypeInv, RecordingTypes, ControlTypes,
       ReadTypes
  <2>2. CASE ScanRead(p)
    BY <2>2 DEF ScanRead, At, recording, TypeInv, RecordingTypes, ControlTypes, ReadTypes
  <2> QED
    BY <2>1, <2>2
<1>2. latest[p] = {}
  BY <1>1 DEF PassInv, NotYetRead, Reading
<1>3. s \in Source => Now(s)[1] = s /\ Now(s)[2] = version[s] /\ version[s] \in Nat
  BY DEF Now, TypeInv, RecordingTypes
<1>4. \A e \in snapshot[p] : e[2] <= version[e[1]]
  BY DEF PassInv, Evidence
<1>5. Keys(seen'[p]) \subseteq Csv \cup frames[p]
  <2>1. CASE Calibrate(p)
    BY <2>1 DEF Calibrate, PassInv, Evidence
  <2>2. CASE ScanRead(p)
    <3>1. s \in todo[p] /\ s \in Csv \cup frames[p]
      BY <2>2, CurrentIsLeft DEF ScanRead, At, TypeInv, ControlTypes, PassInv,
         ScannedIsEnumerated
    <3>2. seen'[p] = seen[p] \cup {Now(s)} /\ Now(s)[1] = s
      BY <2>2 DEF ScanRead, TypeInv, ReadTypes, Now
    <3> QED
      BY <3>1, <3>2 DEF PassInv, Evidence, Keys
  <2> QED
    BY <2>1, <2>2
<1>6. Evidence(p)'
  <2>1. \A e \in calibrated'[p] \cup seen'[p] :
          /\ e[2] <= version[e[1]]
          /\ \A f \in snapshot[p] : f[1] = e[1] => f[2] <= e[2]
    BY <1>1, <1>3, <1>4 DEF PassInv, Evidence
  <2> QED
    BY <1>1, <1>2, <1>5, <2>1 DEF PassInv, Evidence
<1>7. NotYetRead(p)' /\ ScannedIsEnumerated(p)'
  BY <1>1, <1>2 DEF PassInv, NotYetRead, ScannedIsEnumerated, Early, Reading, Late
<1>8. ChangeIsReported(p)'
  BY <1>1 DEF PassInv, ChangeIsReported, HasBlocking, result
<1> QED
  BY <1>6, <1>7, <1>8 DEF PassInv

\* The second enumeration of a source.
LEMMA VerifyKeeps ==
    ASSUME TypeInv, NEW p \in Process, PassInv(p), Verify(p)
    PROVE  PassInv(p)'
<1> DEFINE s == Current(p)
<1>1. /\ UNCHANGED <<version, snapshot, hashed, calibrated, seen, pc, frames, result>>
      /\ pc[p] = "verify" /\ s \in Source
      /\ latest'[p] = latest[p] \cup {Now(s)}
      /\ Now(s)[1] = s /\ Now(s)[2] = version[s] /\ version[s] \in Nat
  BY DEF Verify, At, Advance, recording, TypeInv, RecordingTypes, ReadTypes, Now
<1>2. Evidence(p)'
  <2>1. \A g \in latest'[p] : g[2] <= version[g[1]]
    BY <1>1 DEF PassInv, Evidence
  <2>2. \A e \in calibrated[p] \cup seen[p] : \A g \in latest'[p] :
          g[1] = e[1] => e[2] <= g[2]
    BY <1>1 DEF PassInv, Evidence
  <2> QED
    BY <1>1, <2>1, <2>2 DEF PassInv, Evidence
<1>3. NotYetRead(p)' /\ ScannedIsEnumerated(p)'
  BY <1>1 DEF PassInv, NotYetRead, ScannedIsEnumerated, Early, Reading, Late
<1>4. ChangeIsReported(p)'
  BY <1>1 DEF PassInv, ChangeIsReported, HasBlocking, result
<1> QED
  BY <1>2, <1>3, <1>4 DEF PassInv

\* The steps that may report what does not end the pass.
LEMMA ReportKeeps ==
    ASSUME TypeInv, NEW p \in Process, PassInv(p), Scan(p) \/ ScanDone(p) \/ VerifyDone(p)
    PROVE  PassInv(p)'
<1> USE DEF TypeInv, ControlTypes
<1>1. UNCHANGED <<version, reads>>
  BY DEF Scan, ScanDone, VerifyDone, recording
<1>2. Evidence(p)'
  BY <1>1 DEF PassInv, Evidence, reads
<1>3. NotYetRead(p)' /\ ScannedIsEnumerated(p)'
  BY <1>1 DEF PassInv, NotYetRead, ScannedIsEnumerated, Early, Reading, Late, reads,
     Scan, ScanDone, VerifyDone, At, Ended, Advance, Loop, Goto
<1>4. ChangeIsReported(p)'
  <2>1. pc'[p] \notin {"publish", "sync"} /\ (pc'[p] = "decide" => VerifyDone(p))
    BY DEF Scan, ScanDone, VerifyDone, At, Ended, Advance, Loop, Goto
  <2>2. blocked'[p] => HasBlocking(p)'
    <3>1. CASE UNCHANGED <<findings, blocked>>
      BY <3>1 DEF PassInv, ChangeIsReported, HasBlocking
    <3>2. CASE \E codes \in Seq(Finding) : Find(p, codes)
      BY <3>2, FindingsKeep DEF PassInv, ChangeIsReported
    <3>3. "SOURCE_CHANGED" \in Finding
      BY DEF Finding, Blocking
    <3> QED
      BY <3>1, <3>2, <3>3, CodesAreFindings DEF Scan, ScanDone, VerifyDone, result
  <2>3. CASE VerifyDone(p)
    <3>1. CASE Unchanged(p)
      BY <1>1, <2>1, <2>2, <3>1 DEF Unchanged, ChangeIsReported, reads
    <3>2. CASE ~Unchanged(p)
      <4>1. /\ Find(p, <<"SOURCE_CHANGED">>) /\ <<"SOURCE_CHANGED">> \in Seq(Finding)
            /\ Blocks(<<"SOURCE_CHANGED">>)
        BY <2>3, <3>2 DEF VerifyDone, Finding, Blocking, Blocks
      <4>2. HasBlocking(p)'
        BY <4>1, FindingsKeep DEF PassInv, ChangeIsReported
      <4> QED
        BY <2>1, <4>2 DEF ChangeIsReported
    <3> QED
      BY <3>1, <3>2
  <2> QED
    BY <2>1, <2>2, <2>3 DEF ChangeIsReported
<1> QED
  BY <1>2, <1>3, <1>4 DEF PassInv

\* Every pass keeps what it knows of its reads, whoever takes a step.
LEMMA PassStep ==
    ASSUME TypeInv, \A q \in Process : PassInv(q), [Next]_vars
    PROVE  (\A q \in Process : PassInv(q))'
<1> SUFFICES ASSUME NEW q \in Process PROVE PassInv(q)'
  OBVIOUS
<1>1. CASE UNCHANGED vars
  <2>1. Evidence(q)' /\ NotYetRead(q)'
    BY <1>1 DEF vars, recording, reads, PassInv, Evidence, NotYetRead
  <2>2. ScannedIsEnumerated(q)' /\ ChangeIsReported(q)'
    BY <1>1 DEF vars, recording, reads, result, PassInv, ScannedIsEnumerated,
       ChangeIsReported, HasBlocking
  <2> QED
    BY <2>1, <2>2 DEF PassInv
<1>2. CASE Change
  BY <1>2, ChangesKeep
<1>3. ASSUME NEW p \in Process, Work(p) \/ IoFails(p) \/ Crash(p)
      PROVE  PassInv(q)'
  <2>1. CASE p # q
    BY <1>3, <2>1, OthersKeep
  <2>2. CASE p = q
    BY <1>3, <2>2, Abandonments, AbandonKeeps, TurnedAwayKeeps, PassageKeeps, EnumerateKeeps, HashKeeps,
       ParseKeeps, VerifyKeeps, ReportKeeps DEF Work
  <2> QED
    BY <2>1, <2>2
<1> QED
  BY <1>1, <1>2, <1>3 DEF Next

(***************************************************************************)
(* The publication.                                                        *)
(***************************************************************************)

\* What a pass has read when it publishes is one state of the recording: the
\* two enumerations agree, so that nothing in between was another version.
LEMMA ReadsAreOneSnapshot ==
    ASSUME NEW p \in Process, TypeInv, PassInv(p), pc[p] = "publish"
    PROVE  /\ \A a, b \in hashed[p] : a[1] = b[1] => a = b
           /\ seen[p] \subseteq hashed[p]
           /\ \A e \in calibrated[p] : e[1] \in Keys(hashed[p]) => e \in hashed[p]
<1>1. latest[p] = snapshot[p] /\ hashed[p] = snapshot[p]
      /\ Csv \cup frames[p] \subseteq Keys(snapshot[p])
  BY DEF PassInv, Evidence, ChangeIsReported, ScannedIsEnumerated, Late
<1>2. ASSUME NEW e \in calibrated[p] \cup seen[p], e[1] \in Keys(snapshot[p])
      PROVE  e \in snapshot[p]
  <2>1. PICK f \in snapshot[p] : f[1] = e[1]
    BY <1>2 DEF Keys
  <2>2. f[2] <= e[2] /\ e[2] <= f[2]
    BY <1>1, <2>1 DEF PassInv, Evidence
  <2>3. e \in Dated /\ f \in Dated
    BY DEF TypeInv, ReadTypes
  <2>4. e = <<e[1], e[2]>> /\ f = <<f[1], f[2]>> /\ e[2] \in Nat /\ f[2] \in Nat
    BY <2>3 DEF Dated
  <2> QED
    BY <2>1, <2>2, <2>4
<1>3. ASSUME NEW e \in seen[p] PROVE e[1] \in Keys(snapshot[p])
  BY <1>1 DEF PassInv, Evidence, Keys
<1> QED
  BY <1>1, <1>2, <1>3 DEF PassInv, Evidence

\* The output is written by a rename, onto nothing.
LEMMA OutputWriters ==
    ASSUME [Next]_vars
    PROVE  output' = output \/ \E p \in Process : Publish(p)
<1>1. ASSUME NEW p \in Process, Work(p) \/ IoFails(p) \/ Crash(p), ~Publish(p)
      PROVE  output' = output
  BY <1>1, Abandonments DEF Work, Abandon, Reject, Fail, Preflight, PreflightMissing, Open,
     Enumerate, Stage, Hash, HashDone, Calibrate, ManifestDone, ScanRead, Scan, ScanDone, Verify, VerifyDone,
     Decide, Sync, Cleanup, Crash
<1>2. CASE Change \/ UNCHANGED vars
  BY <1>2 DEF Change, Alter, Remove, Add, vars
<1> QED
  BY <1>1, <1>2 DEF Next

\* A publication is one snapshot when it is made, and then stays.
LEMMA OutputStep ==
    ASSUME TypeInv, \A p \in Process : PassInv(p), PublishedIsOneSnapshot, [Next]_vars
    PROVE  PublishedIsOneSnapshot'
<1>1. CASE output' = output
  BY <1>1 DEF PublishedIsOneSnapshot
<1>2. ASSUME NEW p \in Process, Publish(p)
      PROVE  PublishedIsOneSnapshot'
  <2>1. pc[p] = "publish" /\ output' = Publication(p)
    BY <1>2 DEF Publish
  <2>2. /\ output'.files = hashed[p] /\ output'.parsed = seen[p]
        /\ output'.calibrations = calibrated[p]
    BY <2>1 DEF Publication
  <2> QED
    BY <2>1, <2>2, ReadsAreOneSnapshot DEF PublishedIsOneSnapshot, Keys
<1> QED
  BY <1>1, <1>2, OutputWriters

(***************************************************************************)
(* The theorems.                                                           *)
(***************************************************************************)

PassesInv == /\ TypeInv
             /\ \A p \in Process : PassInv(p)
             /\ \A p \in Process : Limits(p)
             /\ PublishedIsOneSnapshot

\* The invariant holds of a recording that nothing was done with.
LEMMA PassesInit == Init => PassesInv
<1> SUFFICES ASSUME Init PROVE PassesInv
  OBVIOUS
<1>1. ASSUME NEW p \in Process PROVE PassInv(p)
  BY DEF Init, PassInv, Evidence, NotYetRead, ScannedIsEnumerated, ChangeIsReported, Keys,
     Early, Reading, Late
<1>2. PublishedIsOneSnapshot
  BY DEF Init, PublishedIsOneSnapshot
<1>3. ASSUME NEW p \in Process PROVE Limits(p)
  <2>1. Cardinality(Required) \in Nat
    BY IngestionAssumption, FS_Subset, FS_CardinalityType DEF Required, Source
  <2> QED
    BY <2>1 DEF Init, Limits, FindingLimit
<1> QED
  BY <1>1, <1>2, <1>3, TypeInit DEF PassesInv

\* In every reachable state of every instance the invariant holds.
THEOREM PassesInvariance == Spec => []PassesInv
<1>1. PassesInv /\ [Next]_vars => PassesInv'
  <2> SUFFICES ASSUME PassesInv, [Next]_vars PROVE PassesInv'
    OBVIOUS
  <2>1. \A p \in Process : Limits(p)'
    BY LimitsStep DEF PassesInv
  <2> QED
    BY <2>1, TypeStep, PassStep, OutputStep DEF PassesInv
<1> QED
  BY <1>1, PassesInit, PTL DEF Spec

\* Recording, passes and findings keep their types; a pass that was let through
\* holds no more findings than the collector's limit, and one that preflight turned
\* away one for each source that may lack (_FindingCollector, index_recording).
THEOREM PassesAreTyped == Spec => []TypeOK
<1>1. PassesInv => TypeOK
  BY DEF PassesInv, TypeInv, RecordingTypes, ControlTypes, ReadTypes, ResultTypes, TypeOK,
     Limits, PcLabel, Finding
<1> QED
  BY <1>1, PassesInvariance, PTL

\* A publication shows one state of the recording, each source in the version
\* that was hashed, and never follows a finding that blocks, also one that the
\* limit has dropped (index_recording).
THEOREM PublicationsAreSound == Spec => []PublishedIsSound
<1>1. PassesInv => PublishedIsSound
  BY DEF PassesInv, PassInv, ChangeIsReported, PublishedIsSound, BlockedNeverPublishes
<1> QED
  BY <1>1, PassesInvariance, PTL

\* A publication is never replaced, however many passes race for the output
\* (index_recording: the rename refuses a directory that is there).
THEOREM OutputsStay == Spec => OutputIsImmutable
<1>1. [Next]_vars => (output # NoOutput => output' = output)
  BY OutputWriters DEF Publish
<1> QED
  BY <1>1, PTL DEF Spec, OutputIsImmutable

(***************************************************************************)
(* The reading of a sequence: its arithmetic and its bytes.                *)
(***************************************************************************)

\* The limits are integers.
LEMMA LimitsAreIntegers ==
    /\ MaxTime \in Nat /\ MinTime \in Int /\ UInt64Max \in Nat
    /\ \A x : x \in Int64 <=> x \in Int /\ MinTime <= x /\ x <= MaxTime
    /\ Refused \notin Int64
BY TimeAssumption DEF MinTime, Int64, UInt64Max

\* checked_add refuses exactly the sums that 64 bits cannot hold, and neither
\* its guards nor the sum it returns wrap.
LEMMA SumIsChecked ==
    ASSUME NEW time \in Int64, NEW duration \in Int64
    PROVE  CheckedSum(time, duration) = Representable(time + duration)
<1>1. time \in Int /\ MinTime <= time /\ time <= MaxTime /\ duration \in Int /\ MinTime <= duration /\ duration <= MaxTime
  BY LimitsAreIntegers
<1>2. MaxTime \in Nat /\ MinTime = -MaxTime - 1
  BY TimeAssumption DEF MinTime
<1>3. duration > 0 => Wrapped(MaxTime - duration) = MaxTime - duration
  BY <1>1, <1>2 DEF Wrapped
<1>4. duration < 0 => Wrapped(MinTime - duration) = MinTime - duration
  BY <1>1, <1>2 DEF Wrapped
<1>5. time + duration \in Int64 => Wrapped(time + duration) = time + duration
  BY <1>1, <1>2 DEF Wrapped, Int64
<1>6. time + duration \in Int64 <=>
        ~((duration > 0 /\ time > MaxTime - duration) \/ (duration < 0 /\ time < MinTime - duration))
  BY <1>1, <1>2 DEF Int64
<1> QED
  BY <1>3, <1>4, <1>5, <1>6 DEF CheckedSum, Representable

\* What division says, for a positive divisor.
LEMMA Divides ==
    ASSUME NEW n \in Nat, NEW d \in Nat \ {0}
    PROVE  /\ n \div d \in Nat /\ n % d \in Nat /\ n % d < d
           /\ n = d * (n \div d) + (n % d)
OBVIOUS

\* A product of natural numbers grows with its second factor.
LEMMA ProductsGrow ==
    ASSUME NEW d \in Nat \ {0}, NEW a \in Nat, NEW b \in Nat, a <= b
    PROVE  d * a <= d * b /\ d * a \in Nat /\ a <= d * a
<1>1. d * b = d * a + d * (b - a)
  OBVIOUS
<1>2. d * (b - a) >= 0
  OBVIOUS
<1>3. d * a = a + (d - 1) * a /\ (d - 1) * a >= 0
  OBVIOUS
<1> QED
  BY <1>1, <1>2, <1>3

\* The name of a scan is converted exactly or refused.
LEMMA MicrosecondsAreExact ==
    ASSUME NEW count \in Nat
    PROVE  FromMicroseconds(count) = Representable(count * Microsecond)
<1> DEFINE q == MaxTime \div Microsecond
<1>1. q \in Nat /\ MaxTime = Microsecond * q + (MaxTime % Microsecond) /\ MaxTime % Microsecond \in Nat /\ MaxTime % Microsecond < Microsecond
  BY TimeAssumption, Divides
<1>2. count * Microsecond = Microsecond * count /\ Microsecond * count \in Nat /\ Microsecond \in Nat \ {0}
  BY TimeAssumption
<1>3. count <= q => Microsecond * count <= MaxTime
  <2>1. count <= q => Microsecond * count <= Microsecond * q
    BY <1>1, <1>2, ProductsGrow
  <2>2. Microsecond * q \in Nat
    BY <1>1, <1>2
  <2> QED
    BY <1>1, <1>2, <2>1, <2>2, TimeAssumption
<1>4. count > q => Microsecond * count > MaxTime
  <2>1. count > q => Microsecond * (q + 1) <= Microsecond * count
    BY <1>1, <1>2, ProductsGrow
  <2>2. Microsecond * (q + 1) = Microsecond * q + Microsecond /\ Microsecond * q \in Nat
    BY <1>1, <1>2
  <2> QED
    BY <1>1, <1>2, <2>1, <2>2, TimeAssumption
<1>5. count * Microsecond \in Int64 <=> count <= q
  BY <1>1, <1>2, <1>3, <1>4, TimeAssumption DEF Int64, MinTime
<1> QED
  BY <1>1, <1>5 DEF FromMicroseconds, Representable

\* checked_nanosecond_magnitude is exact, or refuses.
LEMMA SignedIsExact ==
    ASSUME NEW seconds \in Nat, NEW fraction \in Nat, fraction < Second, NEW negative \in BOOLEAN
    PROVE  Signed(seconds, fraction, negative) =
             Representable(IF negative THEN -(Second * seconds + fraction) ELSE Second * seconds + fraction)
<1> DEFINE limit == IF negative THEN MaxTime + 1 ELSE MaxTime
           q == limit \div Second
           r == limit % Second
           n == Second * seconds + fraction
<1>1. limit \in Nat /\ Second \in Nat \ {0} /\ MaxTime \in Nat
  BY TimeAssumption
<1>2. q \in Nat /\ r \in Nat /\ r < Second /\ limit = Second * q + r
  BY <1>1, Divides
<1>3. Second * seconds \in Nat /\ Second * q \in Nat /\ n \in Nat
  BY <1>1, <1>2
<1>4. seconds > q => n > limit
  <2>1. seconds > q => Second * (q + 1) <= Second * seconds
    BY <1>1, <1>2, ProductsGrow
  <2>2. Second * (q + 1) = Second * q + Second
    BY <1>1, <1>2
  <2> HIDE DEF limit, q, r
  <2> QED
    BY <1>1, <1>2, <1>3, <2>1, <2>2
<1>5. seconds < q => n <= limit
  <2>1. seconds < q => Second * (seconds + 1) <= Second * q
    BY <1>1, <1>2, ProductsGrow
  <2>2. Second * (seconds + 1) = Second * seconds + Second
    BY <1>1, <1>2
  <2> HIDE DEF limit, q, r
  <2> QED
    BY <1>1, <1>2, <1>3, <2>1, <2>2
<1>6. seconds = q => (n <= limit <=> ~(fraction > r))
  <2> HIDE DEF limit, q, r
  <2> QED
    BY <1>1, <1>2, <1>3
<1>7. (seconds > q \/ (seconds = q /\ fraction > r)) <=> n > limit
  <2> HIDE DEF limit, q, r, n
  <2> QED
    BY <1>1, <1>2, <1>3, <1>4, <1>5, <1>6
<1>8. n <= limit => WrappedUnsigned(WrappedUnsigned(seconds * Second) + fraction) = n
  <2>1. n <= limit => Second * seconds <= UInt64Max /\ n <= UInt64Max
    BY <1>1, <1>3 DEF UInt64Max
  <2>2. \A x \in Nat : x <= UInt64Max => WrappedUnsigned(x) = x
    BY <1>1 DEF WrappedUnsigned, UInt64Max
  <2>3. seconds * Second = Second * seconds
    BY <1>1
  <2> QED
    BY <1>3, <2>1, <2>2, <2>3
<1>9. (IF negative THEN -n ELSE n) \in Int64 <=> n <= limit
  <2> HIDE DEF n
  <2> QED
    BY <1>1, <1>3 DEF Int64, MinTime
<1> HIDE DEF n, q, r
<1>10. Signed(seconds, fraction, negative) =
         IF n > limit THEN Refused ELSE IF negative THEN -n ELSE n
  <2>1. Signed(seconds, fraction, negative) =
          LET magnitude == WrappedUnsigned(WrappedUnsigned(seconds * Second) + fraction)
          IN  IF seconds > q \/ (seconds = q /\ fraction > r) THEN Refused
              ELSE IF negative THEN -magnitude ELSE magnitude
    BY DEF Signed, q, r
  <2> HIDE DEF limit
  <2>2. limit \in Int /\ n \in Int
    BY <1>1, <1>3
  <2> QED
    BY <1>7, <1>8, <2>1, <2>2
<1> HIDE DEF limit
<1>11. Signed(seconds, fraction, negative) = Representable(IF negative THEN -n ELSE n)
  BY <1>1, <1>3, <1>9, <1>10 DEF Representable
<1> QED
  BY <1>11 DEF n

\* Every decimal the trajectory may hold becomes its nearest nanosecond, halves
\* away from zero, or is refused when 64 bits cannot hold that.
LEMMA DecimalIsNearest ==
    ASSUME NEW lexeme, lexeme.negative \in BOOLEAN, lexeme.seconds \in Nat,
           lexeme.tenths \in Nat, lexeme.tenths < 10 * Second
    PROVE  FromDecimalSeconds(lexeme) = Representable(NearestNanosecond(lexeme))
<1> DEFINE s == lexeme.seconds
           t == lexeme.tenths
           fraction == t \div 10 + (IF t % 10 >= 5 THEN 1 ELSE 0)
           n == Second * s + fraction
<1>1. s \in Nat /\ t \in Nat /\ Second \in Nat \ {0} /\ MaxTime \in Nat /\ Second * s \in Nat /\ t < 10 * Second
  BY TimeAssumption
<1>2. fraction = (t + 5) \div 10 /\ fraction \in Nat /\ fraction <= Second
  <2> HIDE DEF s, t
  <2> QED
    BY <1>1
<1>3. (10 * Second * s + t + 5) \div 10 = n
  <2>1. 10 * Second * s = 10 * (Second * s)
    BY <1>1
  <2>2. \A p \in Nat : (10 * p + t + 5) \div 10 = p + (t + 5) \div 10
    BY <1>1
  <2> HIDE DEF s, t, fraction
  <2> QED
    BY <1>1, <1>2, <2>1, <2>2
<1>4. NearestNanosecond(lexeme) = IF lexeme.negative THEN -n ELSE n
  BY <1>3 DEF NearestNanosecond
<1>5. n \in Nat
  <2> HIDE DEF s, fraction
  <2> QED
    BY <1>1, <1>2
<1>6. s > UInt64Max => NearestNanosecond(lexeme) \notin Int64
  <2>1. s <= Second * s
    BY <1>1, ProductsGrow
  <2> HIDE DEF s, fraction
  <2> QED
    BY <1>1, <1>2, <1>4, <2>1 DEF UInt64Max, Int64, MinTime
<1>7. s = UInt64Max /\ fraction = Second => NearestNanosecond(lexeme) \notin Int64
  <2>1. s <= Second * s
    BY <1>1, ProductsGrow
  <2> HIDE DEF s, fraction
  <2> QED
    BY <1>1, <1>2, <1>4, <2>1 DEF UInt64Max, Int64, MinTime
<1>8. fraction < Second => Signed(s, fraction, lexeme.negative) = Representable(NearestNanosecond(lexeme))
  <2> HIDE DEF s, fraction
  <2> QED
    BY <1>1, <1>2, <1>4, SignedIsExact DEF n
<1>9. fraction = Second => Signed(s + 1, 0, lexeme.negative) = Representable(NearestNanosecond(lexeme))
  <2>1. Second * (s + 1) + 0 = Second * s + Second /\ 0 < Second /\ s + 1 \in Nat
    BY <1>1
  <2>2. Signed(s + 1, 0, lexeme.negative) =
          Representable(IF lexeme.negative THEN -(Second * (s + 1) + 0) ELSE Second * (s + 1) + 0)
    BY <2>1, SignedIsExact
  <2> HIDE DEF s, fraction
  <2> QED
    BY <1>1, <1>4, <2>1, <2>2 DEF n
<1>10. FromDecimalSeconds(lexeme) =
         IF s > UInt64Max THEN Refused
         ELSE IF fraction < Second THEN Signed(s, fraction, lexeme.negative)
         ELSE IF s = UInt64Max THEN Refused ELSE Signed(s + 1, 0, lexeme.negative)
  BY DEF FromDecimalSeconds
<1> HIDE DEF s, fraction
<1> QED
  BY <1>1, <1>2, <1>6, <1>7, <1>8, <1>9, <1>10 DEF Representable

\* A part of some bytes, by its elements.
LEMMA PartsOf ==
    ASSUME NEW S, NEW s \in Seq(S), NEW a \in Nat \ {0}, NEW b \in 0..Len(s)
    PROVE  /\ SubSeq(s, a, b) \in Seq(S)
           /\ Len(SubSeq(s, a, b)) = IF a <= b THEN b - a + 1 ELSE 0
           /\ \A i \in 1..(b - a + 1) : SubSeq(s, a, b)[i] = s[a + i - 1]
<1>1. Len(s) \in Nat /\ \A i \in 1..Len(s) : s[i] \in S
  BY LenProperties, ElementOfSeq
<1>2. \A i \in a..b : s[i] \in S
  BY <1>1
<1>3. a \in Int /\ b \in Int
  BY <1>1
<1> QED
  BY <1>2, <1>3, SubSeqProperties

\* Bytes in front of and behind a place: the next record, and the rest.
LEMMA NextOfBlock ==
    ASSUME NEW S, NEW s \in Seq(S), NEW p \in Nat, NEW r \in Nat \ {0}, p + r <= Len(s)
    PROVE  LET block == SubSeq(s, p + 1, Len(s))
           IN  /\ block \in Seq(S) /\ Len(block) = Len(s) - p
               /\ SubSeq(block, 1, r) = SubSeq(s, p + 1, p + r)
               /\ SubSeq(block, r + 1, Len(block)) = SubSeq(s, p + r + 1, Len(s))
<1> DEFINE block == SubSeq(s, p + 1, Len(s))
<1>1. Len(s) \in Nat
  BY LenProperties
<1>2. block \in Seq(S) /\ Len(block) = Len(s) - p /\ \A i \in 1..(Len(s) - p) : block[i] = s[p + i]
  BY <1>1, PartsOf
<1> HIDE DEF block
<1>3. /\ SubSeq(block, 1, r) \in Seq(S) /\ Len(SubSeq(block, 1, r)) = r
      /\ \A i \in 1..r : SubSeq(block, 1, r)[i] = block[i]
  BY <1>1, <1>2, PartsOf
<1>4. /\ SubSeq(s, p + 1, p + r) \in Seq(S) /\ Len(SubSeq(s, p + 1, p + r)) = r
      /\ \A i \in 1..r : SubSeq(s, p + 1, p + r)[i] = s[p + i]
  BY <1>1, PartsOf
<1>5. SubSeq(block, 1, r) = SubSeq(s, p + 1, p + r)
  <2>1. \A i \in 1..r : SubSeq(block, 1, r)[i] = SubSeq(s, p + 1, p + r)[i]
    BY <1>1, <1>2, <1>3, <1>4
  <2> QED
    BY <1>3, <1>4, <2>1, SeqEqual
<1>6. /\ SubSeq(block, r + 1, Len(block)) \in Seq(S)
      /\ Len(SubSeq(block, r + 1, Len(block))) = Len(s) - p - r
      /\ \A i \in 1..(Len(s) - p - r) : SubSeq(block, r + 1, Len(block))[i] = block[r + i]
  <2>1. r + 1 \in Nat \ {0} /\ Len(block) \in 0..Len(block) /\ Len(block) \in Int
    BY <1>1, <1>2
  <2>2. /\ SubSeq(block, r + 1, Len(block)) \in Seq(S)
        /\ Len(SubSeq(block, r + 1, Len(block))) = IF r + 1 <= Len(block) THEN Len(block) - (r + 1) + 1 ELSE 0
        /\ \A i \in 1..(Len(block) - (r + 1) + 1) : SubSeq(block, r + 1, Len(block))[i] = block[r + 1 + i - 1]
    BY <1>2, <2>1, PartsOf
  <2>3. Len(block) - (r + 1) + 1 = Len(s) - p - r
    BY <1>1, <1>2
  <2>4. \A i \in 1..(Len(s) - p - r) : r + 1 + i - 1 = r + i
    BY <1>1
  <2>5. Len(SubSeq(block, r + 1, Len(block))) = Len(s) - p - r
    BY <1>1, <2>1, <2>2, <2>3
  <2> QED
    BY <2>2, <2>3, <2>4, <2>5
<1>7. /\ SubSeq(s, p + r + 1, Len(s)) \in Seq(S)
      /\ Len(SubSeq(s, p + r + 1, Len(s))) = Len(s) - p - r
      /\ \A i \in 1..(Len(s) - p - r) : SubSeq(s, p + r + 1, Len(s))[i] = s[p + r + i]
  <2>1. p + r + 1 \in Nat \ {0} /\ Len(s) \in 0..Len(s)
    BY <1>1
  <2> QED
    BY <1>1, <2>1, PartsOf
<1>8. SubSeq(block, r + 1, Len(block)) = SubSeq(s, p + r + 1, Len(s))
  <2>1. \A i \in 1..(Len(s) - p - r) : SubSeq(block, r + 1, Len(block))[i] = SubSeq(s, p + r + 1, Len(s))[i]
    BY <1>1, <1>2, <1>6, <1>7
  <2> QED
    BY <1>6, <1>7, <2>1, SeqEqual
<1> QED
  BY <1>2, <1>5, <1>8 DEF block

\* A chunk goes behind the bytes read and behind those not yet decoded, and no
\* record read before is another one now.
LEMMA ChunkBehind ==
    ASSUME NEW S, NEW s \in Seq(S), NEW c \in Seq(S), NEW p \in Nat, p <= Len(s)
    PROVE  /\ s \o c \in Seq(S) /\ Len(s \o c) = Len(s) + Len(c)
           /\ SubSeq(s, p + 1, Len(s)) \o c = SubSeq(s \o c, p + 1, Len(s \o c))
           /\ \A a \in Nat \ {0}, b \in 0..Len(s) : SubSeq(s \o c, a, b) = SubSeq(s, a, b)
<1> DEFINE t == s \o c
           block == SubSeq(s, p + 1, Len(s))
<1>1. Len(s) \in Nat /\ Len(c) \in Nat
  BY LenProperties
<1>2. t \in Seq(S) /\ Len(t) = Len(s) + Len(c)
      /\ \A i \in 1..(Len(s) + Len(c)) : t[i] = IF i <= Len(s) THEN s[i] ELSE c[i - Len(s)]
  BY ConcatProperties
<1>3. block \in Seq(S) /\ Len(block) = Len(s) - p /\ \A i \in 1..(Len(s) - p) : block[i] = s[p + i]
  BY <1>1, PartsOf
<1> HIDE DEF t, block
<1>4. block \o c \in Seq(S) /\ Len(block \o c) = Len(block) + Len(c)
      /\ \A i \in 1..(Len(block) + Len(c)) : (block \o c)[i] = IF i <= Len(block) THEN block[i] ELSE c[i - Len(block)]
  BY <1>3, ConcatProperties
<1>5. /\ SubSeq(t, p + 1, Len(t)) \in Seq(S) /\ Len(SubSeq(t, p + 1, Len(t))) = Len(t) - p
      /\ \A i \in 1..(Len(t) - p) : SubSeq(t, p + 1, Len(t))[i] = t[p + i]
  <2>1. p + 1 \in Nat \ {0} /\ Len(t) \in 0..Len(t)
    BY <1>1, <1>2
  <2> QED
    BY <1>1, <1>2, <2>1, PartsOf
<1>6. block \o c = SubSeq(t, p + 1, Len(t))
  <2>1. Len(block) + Len(c) = Len(t) - p /\ Len(t) \in Nat /\ Len(block) \in Nat
    BY <1>1, <1>2, <1>3
  <2>2. ASSUME NEW i \in 1..(Len(t) - p) PROVE (block \o c)[i] = t[p + i]
    <3>1. i \in Int /\ p + i \in 1..(Len(s) + Len(c))
      BY <1>1, <1>2, <2>1
    <3>2. t[p + i] = IF p + i <= Len(s) THEN s[p + i] ELSE c[p + i - Len(s)]
      BY <1>2, <3>1
    <3>3. (block \o c)[i] = IF i <= Len(block) THEN block[i] ELSE c[i - Len(block)]
      BY <1>4, <2>1
    <3>4. i <= Len(block) => i \in 1..(Len(s) - p)
      BY <1>1, <1>3, <3>1
    <3>5. i - Len(block) = p + i - Len(s) /\ (i <= Len(block) <=> p + i <= Len(s))
      BY <1>1, <1>3, <3>1
    <3> QED
      BY <1>3, <3>2, <3>3, <3>4, <3>5
  <2>3. \A i \in 1..Len(block \o c) : (block \o c)[i] = SubSeq(t, p + 1, Len(t))[i]
    BY <1>4, <1>5, <2>1, <2>2
  <2> QED
    BY <1>4, <1>5, <2>1, <2>3, SeqEqual
<1>7. ASSUME NEW a \in Nat \ {0}, NEW b \in 0..Len(s)
      PROVE  SubSeq(t, a, b) = SubSeq(s, a, b)
  <2>1. b \in 0..Len(t) /\ b \in Int
    BY <1>1, <1>2
  <2>2. /\ SubSeq(t, a, b) \in Seq(S) /\ Len(SubSeq(t, a, b)) = IF a <= b THEN b - a + 1 ELSE 0
        /\ \A i \in 1..(b - a + 1) : SubSeq(t, a, b)[i] = t[a + i - 1]
    BY <1>2, <2>1, PartsOf
  <2>3. /\ SubSeq(s, a, b) \in Seq(S) /\ Len(SubSeq(s, a, b)) = IF a <= b THEN b - a + 1 ELSE 0
        /\ \A i \in 1..(b - a + 1) : SubSeq(s, a, b)[i] = s[a + i - 1]
    BY PartsOf
  <2>4. \A i \in 1..(b - a + 1) : SubSeq(t, a, b)[i] = SubSeq(s, a, b)[i]
    BY <1>1, <1>2, <2>1, <2>2, <2>3
  <2>5. \A i \in 1..Len(SubSeq(t, a, b)) : SubSeq(t, a, b)[i] = SubSeq(s, a, b)[i]
    BY <2>1, <2>2, <2>4
  <2> QED
    BY <2>2, <2>3, <2>5, SeqEqual
<1> QED
  BY <1>2, <1>6, <1>7 DEF t, block

\* The front of a file grows by what is read behind it.
LEMMA FrontGrows ==
    ASSUME NEW S, NEW f \in Seq(S), NEW l \in Nat, NEW n \in Nat, l + n <= Len(f)
    PROVE  /\ SubSeq(f, 1, l) \o SubSeq(f, l + 1, l + n) = SubSeq(f, 1, l + n)
           /\ Len(SubSeq(f, 1, l)) = l /\ Len(SubSeq(f, l + 1, l + n)) = n
           /\ SubSeq(f, l + 1, l + n) \in Seq(S)
<1>1. Len(f) \in Nat
  BY LenProperties
<1>2. SubSeq(f, 1, l) \o SubSeq(f, l + 1, l + n) = SubSeq(f, 1, l + n)
  <2>1. 1 \in 1..(Len(f) + 1) /\ l \in (1 - 1)..Len(f) /\ l + n \in l..Len(f)
    BY <1>1
  <2> QED
    BY <2>1, ConcatAdjacentSubSeq
<1>3. Len(SubSeq(f, 1, l)) = l
  <2>1. l \in 0..Len(f)
    BY <1>1
  <2> QED
    BY <2>1, PartsOf
<1>4. Len(SubSeq(f, l + 1, l + n)) = n /\ SubSeq(f, l + 1, l + n) \in Seq(S)
  <2>1. l + 1 \in Nat \ {0} /\ l + n \in 0..Len(f)
    BY <1>1
  <2> QED
    BY <2>1, PartsOf
<1> QED
  BY <1>2, <1>3, <1>4

\* A part of the front of a file is a part of the file.
LEMMA PartOfFront ==
    ASSUME NEW S, NEW f \in Seq(S), NEW l \in 0..Len(f), NEW a \in Nat \ {0}, NEW b \in 0..l
    PROVE  SubSeq(SubSeq(f, 1, l), a, b) = SubSeq(f, a, b)
<1>1. Len(f) \in Nat
  BY LenProperties
<1> DEFINE g == SubSeq(f, 1, l)
<1>2. g \in Seq(S) /\ Len(g) = l /\ \A i \in 1..l : g[i] = f[i]
  BY <1>1, PartsOf
<1> HIDE DEF g
<1>3. /\ SubSeq(g, a, b) \in Seq(S) /\ Len(SubSeq(g, a, b)) = IF a <= b THEN b - a + 1 ELSE 0
      /\ \A i \in 1..(b - a + 1) : SubSeq(g, a, b)[i] = g[a + i - 1]
  BY <1>2, PartsOf
<1>4. b \in 0..Len(f) /\ b \in Int
  BY <1>1
<1>5. /\ SubSeq(f, a, b) \in Seq(S) /\ Len(SubSeq(f, a, b)) = IF a <= b THEN b - a + 1 ELSE 0
      /\ \A i \in 1..(b - a + 1) : SubSeq(f, a, b)[i] = f[a + i - 1]
  BY <1>4, PartsOf
<1>6. \A i \in 1..(b - a + 1) : SubSeq(g, a, b)[i] = SubSeq(f, a, b)[i]
  BY <1>1, <1>2, <1>3, <1>4, <1>5
<1>7. \A i \in 1..Len(SubSeq(g, a, b)) : SubSeq(g, a, b)[i] = SubSeq(f, a, b)[i]
  BY <1>3, <1>4, <1>6
<1> QED
  BY <1>3, <1>5, <1>7, SeqEqual DEF g

(***************************************************************************)
(* The accumulators.                                                       *)
(***************************************************************************)

Summaries == [count : Nat, first : Int64, last : Int64, previous : Int64, ordered : BOOLEAN]

\* The accumulators s say of the times seen what they should.
Accumulated(s, times) ==
    /\ s \in Summaries
    /\ s.count = Len(times)
    /\ times = <<>> => s = NoPoints
    /\ times # <<>> =>
         /\ \E i \in 1..Len(times) : s.first = times[i]
         /\ \E i \in 1..Len(times) : s.last = times[i]
         /\ s.previous = times[Len(times)]
    /\ \A i \in 1..Len(times) : s.first <= times[i] /\ times[i] <= s.last
    /\ s.ordered <=> \A i, j \in 1..Len(times) : i < j => times[i] <= times[j]

\* The lesser and the greater of two times.
LEMMA LesserGreater ==
    ASSUME NEW a \in Int64, NEW b \in Int64
    PROVE  /\ Lesser(a, b) \in {a, b} /\ Lesser(a, b) <= a /\ Lesser(a, b) <= b
           /\ Greater(a, b) \in {a, b} /\ a <= Greater(a, b) /\ b <= Greater(a, b)
<1>1. a \in Int /\ b \in Int
  BY DEF Int64
<1> QED
  BY <1>1 DEF Lesser, Greater

\* Before the first record.
LEMMA NothingAccumulated == Accumulated(NoPoints, <<>>)
<1>1. MaxTime \in Int64 /\ MinTime \in Int64
  BY TimeAssumption DEF Int64, MinTime
<1>2. NoPoints \in Summaries
  BY <1>1 DEF NoPoints, Summaries
<1> QED
  BY <1>2 DEF Accumulated, NoPoints

\* One more time is taken in.
LEMMA PointAccumulated ==
    ASSUME NEW s, NEW times \in Seq(Int64), Accumulated(s, times), NEW time \in Int64
    PROVE  Accumulated(WithPoint(s, time), Append(times, time))
<1> DEFINE more == Append(times, time)
           t == WithPoint(s, time)
           n == Len(times)
<1>1. n \in Nat /\ more \in Seq(Int64) /\ Len(more) = n + 1
      /\ (\A i \in 1..n : more[i] = times[i]) /\ more[n + 1] = time /\ more # <<>>
  OBVIOUS
<1>2. /\ s.count = n /\ s.first \in Int64 /\ s.last \in Int64 /\ s.previous \in Int64 /\ s.ordered \in BOOLEAN
      /\ \A i \in 1..n : s.first <= times[i] /\ times[i] <= s.last
  BY DEF Accumulated, Summaries
<1>3. Int64 \subseteq Int /\ \A x \in Int64 : MinTime <= x /\ x <= MaxTime
  BY TimeAssumption DEF Int64, MinTime
<1>4. \A i \in 1..n : times[i] \in Int64
  BY <1>1
<1>5. /\ t.count = n + 1 /\ t.first = Lesser(s.first, time) /\ t.last = Greater(s.last, time)
      /\ t.previous = time /\ t.ordered = (s.ordered /\ time >= s.previous)
  BY <1>2 DEF WithPoint
<1>6. t.first \in Int64 /\ t.last \in Int64 /\ t.first <= time /\ time <= t.last
      /\ t.first <= s.first /\ s.last <= t.last
  <2> HIDE DEF t
  <2> QED
    BY <1>2, <1>5, LesserGreater
<1>7. t \in Summaries
  BY <1>1, <1>2, <1>6 DEF WithPoint, Summaries
<1>8. \A i \in 1..(n + 1) : t.first <= more[i] /\ more[i] <= t.last
  <2> HIDE DEF more, t
  <2>1. ASSUME NEW i \in 1..(n + 1) PROVE t.first <= more[i] /\ more[i] <= t.last
    <3>1. CASE i = n + 1
      BY <1>1, <1>6, <3>1
    <3>2. CASE i \in 1..n
      <4>1. more[i] = times[i] /\ s.first <= times[i] /\ times[i] <= s.last
        BY <1>1, <1>2, <3>2
      <4>2. s.first \in Int /\ s.last \in Int /\ t.first \in Int /\ t.last \in Int /\ times[i] \in Int
        BY <1>2, <1>3, <1>4, <1>6, <3>2
      <4> QED
        BY <1>6, <4>1, <4>2
    <3> QED
      BY <1>1, <3>1, <3>2
  <2> QED
    BY <2>1
<1>9. /\ \E i \in 1..(n + 1) : t.first = more[i]
      /\ \E i \in 1..(n + 1) : t.last = more[i]
  <2>1. n + 1 \in 1..(n + 1)
    BY <1>1
  <2>2. CASE times = <<>>
    <3>1. s.first = MaxTime /\ s.last = MinTime
      BY <2>2 DEF Accumulated, NoPoints
    <3>2. t.first = time /\ t.last = time
      <4>1. time \in Int /\ MaxTime \in Int /\ MinTime \in Int /\ time <= MaxTime /\ MinTime <= time
        BY <1>3, TimeAssumption DEF MinTime
      <4> HIDE DEF t
      <4> QED
        BY <1>5, <3>1, <4>1 DEF Lesser, Greater
    <3> QED
      BY <1>1, <2>1, <3>2
  <2>3. CASE times # <<>>
    <3>1. PICK f \in 1..n, l \in 1..n : s.first = times[f] /\ s.last = times[l]
      BY <2>3 DEF Accumulated
    <3>2. f \in 1..(n + 1) /\ l \in 1..(n + 1) /\ more[f] = s.first /\ more[l] = s.last
      BY <1>1, <3>1
    <3>3. (t.first = s.first \/ t.first = time) /\ (t.last = s.last \/ t.last = time)
      BY <1>5 DEF Lesser, Greater
    <3> HIDE DEF t, more
    <3> QED
      BY <1>1, <2>1, <3>2, <3>3
  <2> QED
    BY <2>2, <2>3
<1>10. t.ordered <=> \A i, j \in 1..(n + 1) : i < j => more[i] <= more[j]
  <2>1. s.ordered <=> \A i, j \in 1..n : i < j => times[i] <= times[j]
    BY DEF Accumulated
  <2>2. times # <<>> => n \in 1..n /\ s.previous = times[n]
    BY <1>1 DEF Accumulated
  <2>3. times = <<>> => n = 0 /\ s.previous = MinTime
    BY DEF Accumulated, NoPoints
  <2> HIDE DEF t, more, n
  <2>4. ASSUME t.ordered, NEW i \in 1..(n + 1), NEW j \in 1..(n + 1), i < j
        PROVE  more[i] <= more[j]
    <3>1. s.ordered /\ time >= s.previous
      BY <1>5, <2>4
    <3>2. i \in 1..n /\ more[i] = times[i] /\ i \in Int /\ j \in Int
      BY <1>1, <2>4
    <3>3. CASE j \in 1..n
      BY <1>1, <2>1, <2>4, <3>1, <3>2, <3>3
    <3>4. CASE j = n + 1
      <4>1. times # <<>> /\ n \in 1..n
        BY <1>1, <2>3, <3>2
      <4>2. times[i] <= times[n]
        <5>1. CASE i = n
          <6>1. times[n] \in Int
            BY <1>3, <1>4, <4>1
          <6> QED
            BY <5>1, <6>1
        <5>2. CASE i # n
          <6>1. i < n
            BY <1>1, <3>2, <4>1, <5>2
          <6>2. \A a, b \in 1..n : a < b => times[a] <= times[b]
            BY <2>1, <3>1
          <6> QED
            BY <3>2, <4>1, <6>1, <6>2
        <5> QED
          BY <5>1, <5>2
      <4>3. times[i] \in Int /\ times[n] \in Int /\ time \in Int
        BY <1>3, <1>4, <3>2, <4>1
      <4> QED
        BY <1>1, <2>2, <3>1, <3>2, <3>4, <4>1, <4>2, <4>3
    <3> QED
      BY <1>1, <3>2, <3>3, <3>4
  <2>5. ASSUME \A i, j \in 1..(n + 1) : i < j => more[i] <= more[j]
        PROVE  t.ordered
    <3>1. s.ordered
      BY <1>1, <2>1, <2>5
    <3>2. time >= s.previous
      <4>1. CASE times = <<>>
        BY <1>2, <1>3, <2>3, <4>1
      <4>2. CASE times # <<>>
        <5>1. n \in 1..(n + 1) /\ n + 1 \in 1..(n + 1) /\ n < n + 1 /\ more[n] = times[n]
          BY <1>1, <2>2, <4>2
        <5>2. more[n] <= more[n + 1]
          BY <2>5, <5>1
        <5> QED
          BY <1>1, <1>2, <1>3, <2>2, <4>2, <5>1, <5>2
      <4> QED
        BY <4>1, <4>2
    <3> QED
      BY <1>5, <3>1, <3>2
  <2>6. t.ordered \in BOOLEAN
    BY <1>7 DEF Summaries
  <2> QED
    BY <2>4, <2>5, <2>6
<1> HIDE DEF t, more, n
<1>11. Accumulated(t, more)
  BY <1>1, <1>5, <1>7, <1>8, <1>9, <1>10 DEF Accumulated
<1> QED
  BY <1>11 DEF t, more

(***************************************************************************)
(* The scan at hand.                                                       *)
(***************************************************************************)

\* The i-th record of some bytes has a time that can be represented.
Decodes(m, bytes, i) == Decode(Record(bytes, i)) \in Int64 /\ TimeOf(m, bytes, i) \in Int64

TimesOf(m, bytes, n) == [i \in 1..n |-> TimeOf(m, bytes, i)]

ScanTyped(s) ==
    s \in [at : Nat, size : Nat, content : Seq(Byte), block : Seq(Byte), summary : Summaries]

\* What was read and not yet decoded stands at the end of what was read.
BlockIsBehind(s) ==
    /\ RecordBytes * s.summary.count <= Len(s.content)
    /\ s.block = SubSeq(s.content, RecordBytes * s.summary.count + 1, Len(s.content))

\* The records before it were decoded and accumulated.
RecordsAreIn(s) ==
    /\ \A i \in 1..s.summary.count : Decodes(s.at, s.content, i)
    /\ Accumulated(s.summary, TimesOf(s.at, s.content, s.summary.count))

ScanFits(s) ==
    /\ ScanTyped(s)
    /\ 0 < s.size /\ s.size <= MaxFrameBytes /\ (s.size % RecordBytes) = 0
    /\ s.at * Microsecond \in Int64
    /\ Len(s.content) <= MaxFrameBytes
    /\ BlockIsBehind(s)
    /\ RecordsAreIn(s)

\* A multiple is divided by its factor.
LEMMA MultiplesDivide ==
    ASSUME NEW r \in Nat \ {0}, NEW c \in Nat
    PROVE  (r * c) \div r = c /\ ((r * c) % r) = 0 /\ r * c \in Nat
<1> DEFINE n == r * c
           q == n \div r
           m == n % r
<1>1. n \in Nat
  OBVIOUS
<1>2. q \in Nat /\ m \in Nat /\ m < r /\ n = r * q + m
  BY <1>1, Divides
<1>3. ~(q < c)
  <2>1. SUFFICES ASSUME q < c PROVE FALSE
    OBVIOUS
  <2> HIDE DEF q, m
  <2>2. r * (q + 1) <= r * c
    BY <1>2, <2>1, ProductsGrow
  <2>3. r * (q + 1) = r * q + r /\ r * q \in Nat
    BY <1>2
  <2> QED
    BY <1>2, <2>2, <2>3
<1>4. ~(c < q)
  <2>1. SUFFICES ASSUME c < q PROVE FALSE
    OBVIOUS
  <2> HIDE DEF q, m
  <2>2. r * (c + 1) <= r * q
    BY <1>2, <2>1, ProductsGrow
  <2>3. r * (c + 1) = r * c + r /\ r * c \in Nat
    OBVIOUS
  <2> QED
    BY <1>2, <2>2, <2>3
<1>5. q = c
  BY <1>2, <1>3, <1>4
<1>6. m = 0
  <2> HIDE DEF q, m
  <2> QED
    BY <1>1, <1>2, <1>5
<1> QED
  BY <1>1, <1>5, <1>6

\* Where a record stands.
LEMMA RecordPlaces ==
    ASSUME NEW c \in Nat, NEW i \in 1..c
    PROVE  /\ RecordBytes * (i - 1) + 1 \in Nat \ {0} /\ RecordBytes * (i - 1) \in Nat
           /\ RecordBytes * i = RecordBytes * (i - 1) + RecordBytes
           /\ RecordBytes * i \in Nat /\ RecordBytes * i <= RecordBytes * c /\ RecordBytes * c \in Nat
<1>1. RecordBytes \in Nat \ {0}
  BY ReadingAssumption
<1>2. i \in Nat /\ i - 1 \in Nat /\ i <= c
  OBVIOUS
<1>3. RecordBytes * i <= RecordBytes * c /\ RecordBytes * i \in Nat
  BY <1>1, <1>2, ProductsGrow
<1>4. RecordBytes * (i - 1) \in Nat /\ RecordBytes * c \in Nat
  BY <1>1, <1>2
<1>5. RecordBytes * i = RecordBytes * (i - 1) + RecordBytes
  BY <1>1, <1>2
<1> QED
  BY <1>3, <1>4, <1>5

\* A scan that was opened fits.
LEMMA OpenedScanFits ==
    ASSUME NEW m \in Nat, NEW size \in Nat \ {0}, size <= MaxFrameBytes, (size % RecordBytes) = 0,
           m * Microsecond \in Int64
    PROVE  ScanFits([NoScan EXCEPT !.at = m, !.size = size])
<1> DEFINE s == [NoScan EXCEPT !.at = m, !.size = size]
<1>1. s.at = m /\ s.size = size /\ s.content = <<>> /\ s.block = <<>> /\ s.summary = NoPoints
  BY DEF NoScan
<1>2. NoPoints \in Summaries /\ NoPoints.count = 0
  BY NothingAccumulated DEF Accumulated, NoPoints
<1>3. ScanTyped(s)
  <2>1. <<>> \in Seq(Byte)
    OBVIOUS
  <2> QED
    BY <1>2, <2>1 DEF ScanTyped, NoScan
<1> HIDE DEF s
<1>4. RecordBytes * 0 = 0 /\ MaxFrameBytes \in Nat
  BY ReadingAssumption
<1>5. BlockIsBehind(s)
  BY <1>1, <1>2, <1>4 DEF BlockIsBehind
<1>6. TimesOf(m, <<>>, 0) = <<>>
  BY DEF TimesOf
<1>7. RecordsAreIn(s)
  BY <1>1, <1>2, <1>6, NothingAccumulated DEF RecordsAreIn
<1>8. ScanFits(s)
  BY <1>1, <1>3, <1>4, <1>5, <1>7 DEF ScanFits
<1> QED
  BY <1>8 DEF s

\* More bytes leave the records before them as they were.
LEMMA ChunkFits ==
    ASSUME NEW s, ScanFits(s), NEW c \in Seq(Byte), Len(s.content) + Len(c) <= MaxFrameBytes
    PROVE  /\ ScanFits([s EXCEPT !.content = @ \o c, !.block = @ \o c])
           /\ Len(s.content \o c) = Len(s.content) + Len(c)
<1> DEFINE t == [s EXCEPT !.content = @ \o c, !.block = @ \o c]
           p == RecordBytes * s.summary.count
<1>1. /\ s.content \in Seq(Byte) /\ s.block \in Seq(Byte) /\ s.summary \in Summaries /\ s.summary.count \in Nat
      /\ s.at \in Nat /\ s.size \in Nat
  BY DEF ScanFits, ScanTyped, Summaries
<1>2. /\ t.at = s.at /\ t.size = s.size /\ t.summary = s.summary
      /\ t.content = s.content \o c /\ t.block = s.block \o c
  BY DEF ScanFits, ScanTyped
<1>3. p \in Nat /\ p <= Len(s.content) /\ s.block = SubSeq(s.content, p + 1, Len(s.content))
  <2>1. BlockIsBehind(s)
    BY DEF ScanFits
  <2>2. p \in Nat
    BY <1>1, ReadingAssumption
  <2> QED
    BY <2>1, <2>2 DEF BlockIsBehind
<1>4. /\ s.content \o c \in Seq(Byte) /\ Len(s.content \o c) = Len(s.content) + Len(c)
      /\ s.block \o c = SubSeq(s.content \o c, p + 1, Len(s.content \o c))
      /\ \A a \in Nat \ {0}, b \in 0..Len(s.content) : SubSeq(s.content \o c, a, b) = SubSeq(s.content, a, b)
  <2> DEFINE f == s.content
  <2>1. f \in Seq(Byte) /\ p \in Nat /\ p <= Len(f) /\ s.block = SubSeq(f, p + 1, Len(f))
    BY <1>1, <1>3
  <2> HIDE DEF p, f
  <2>2. f \o c \in Seq(Byte) /\ Len(f \o c) = Len(f) + Len(c)
    BY <2>1, ChunkBehind
  <2>3. SubSeq(f, p + 1, Len(f)) \o c = SubSeq(f \o c, p + 1, Len(f \o c))
    BY <2>1, ChunkBehind
  <2>4. \A a \in Nat \ {0}, b \in 0..Len(f) : SubSeq(f \o c, a, b) = SubSeq(f, a, b)
    BY <2>1, ChunkBehind
  <2> QED
    BY <2>1, <2>2, <2>3, <2>4 DEF f
<1>5. ScanTyped(t)
  <2>1. s.block \o c \in Seq(Byte) /\ s.content \o c \in Seq(Byte)
    BY <1>1
  <2> QED
    BY <2>1 DEF ScanFits, ScanTyped
<1> HIDE DEF t
<1>6. BlockIsBehind(t)
  <2>1. Len(s.content) \in Nat /\ Len(c) \in Nat
    BY <1>1
  <2>2. p <= Len(t.content) /\ t.block = SubSeq(t.content, p + 1, Len(t.content))
    <3>1. t.content = s.content \o c /\ t.block = SubSeq(t.content, p + 1, Len(t.content))
      BY <1>2, <1>4
    <3> HIDE DEF p
    <3>2. p <= Len(s.content) + Len(c)
      BY <1>3, <2>1
    <3> QED
      BY <1>4, <3>1, <3>2
  <2> QED
    BY <1>2, <2>2 DEF BlockIsBehind
<1>7. \A i \in 1..s.summary.count : Record(s.content \o c, i) = Record(s.content, i)
  <2>1. SUFFICES ASSUME NEW i \in 1..s.summary.count PROVE Record(s.content \o c, i) = Record(s.content, i)
    OBVIOUS
  <2>2. RecordBytes * (i - 1) + 1 \in Nat \ {0} /\ RecordBytes * i \in Nat /\ RecordBytes * i <= p
    BY <1>1, RecordPlaces
  <2>3. RecordBytes * i \in 0..Len(s.content)
    <3> HIDE DEF p
    <3>1. Len(s.content) \in Nat
      BY <1>1
    <3> QED
      BY <1>3, <2>2, <3>1
  <2> QED
    BY <1>4, <2>2, <2>3 DEF Record
<1>8. TimesOf(s.at, s.content \o c, s.summary.count) = TimesOf(s.at, s.content, s.summary.count)
  BY <1>7 DEF TimesOf, TimeOf
<1>9. RecordsAreIn(t)
  BY <1>2, <1>7, <1>8 DEF ScanFits, RecordsAreIn, Decodes, TimeOf
<1>10. ScanFits(t)
  BY <1>2, <1>4, <1>5, <1>6, <1>9 DEF ScanFits
<1> QED
  BY <1>4, <1>10 DEF t

\* The record at hand is the next of the content.
LEMMA NextRecord ==
    ASSUME NEW s, ScanFits(s), Len(s.block) >= RecordBytes
    PROVE  LET n == s.summary.count + 1
           IN  /\ n \in Nat \ {0} /\ RecordBytes * n <= Len(s.content)
               /\ SubSeq(s.block, 1, RecordBytes) = Record(s.content, n)
               /\ SubSeq(s.block, RecordBytes + 1, Len(s.block)) = SubSeq(s.content, RecordBytes * n + 1, Len(s.content))
<1> DEFINE p == RecordBytes * s.summary.count
           n == s.summary.count + 1
<1>1. s.content \in Seq(Byte) /\ s.summary.count \in Nat /\ RecordBytes \in Nat \ {0}
  BY ReadingAssumption DEF ScanFits, ScanTyped, Summaries
<1>2. p \in Nat /\ p <= Len(s.content) /\ s.block = SubSeq(s.content, p + 1, Len(s.content)) /\ Len(s.content) \in Nat
  BY <1>1 DEF ScanFits, BlockIsBehind
<1>3. RecordBytes * n = p + RecordBytes /\ RecordBytes * (n - 1) = p
  BY <1>1
<1> HIDE DEF p, n
<1>4. Len(s.block) = Len(s.content) - p
  BY <1>1, <1>2, PartsOf
<1>5. p + RecordBytes <= Len(s.content)
  BY <1>1, <1>2, <1>4
<1>6. /\ SubSeq(s.block, 1, RecordBytes) = SubSeq(s.content, p + 1, p + RecordBytes)
      /\ SubSeq(s.block, RecordBytes + 1, Len(s.block)) = SubSeq(s.content, p + RecordBytes + 1, Len(s.content))
  BY <1>1, <1>2, <1>5, NextOfBlock
<1>7. n \in Nat \ {0}
  BY <1>1 DEF n
<1>8. SubSeq(s.block, 1, RecordBytes) = Record(s.content, n)
  BY <1>3, <1>6 DEF Record
<1>9. RecordBytes * n <= Len(s.content)
  BY <1>3, <1>5
<1> QED
  BY <1>3, <1>6, <1>7, <1>8, <1>9 DEF n

\* How much of the scan at hand is not decoded yet.
LEMMA BlockLength ==
    ASSUME NEW s, ScanFits(s)
    PROVE  /\ s.summary.count \in Nat /\ RecordBytes * s.summary.count \in Nat /\ RecordBytes \in Nat \ {0}
           /\ Len(s.content) \in Nat /\ RecordBytes * s.summary.count <= Len(s.content)
           /\ Len(s.block) = Len(s.content) - RecordBytes * s.summary.count
           /\ s.content \in Seq(Byte) /\ s.block \in Seq(Byte)
<1> DEFINE p == RecordBytes * s.summary.count
<1>1. s.content \in Seq(Byte) /\ s.block \in Seq(Byte) /\ s.summary.count \in Nat /\ RecordBytes \in Nat \ {0}
  BY ReadingAssumption DEF ScanFits, ScanTyped, Summaries
<1>2. p \in Nat /\ Len(s.content) \in Nat
  BY <1>1
<1>3. p <= Len(s.content) /\ s.block = SubSeq(s.content, p + 1, Len(s.content))
  BY DEF ScanFits, BlockIsBehind
<1> HIDE DEF p
<1>4. Len(s.block) = Len(s.content) - p
  BY <1>1, <1>2, <1>3, PartsOf
<1> QED
  BY <1>1, <1>2, <1>3, <1>4 DEF p

\* The times of some records, one by one.
LEMMA TimesAre ==
    ASSUME NEW m, NEW bytes, NEW n \in Nat, \A i \in 1..n : TimeOf(m, bytes, i) \in Int64
    PROVE  /\ TimesOf(m, bytes, n) \in Seq(Int64) /\ Len(TimesOf(m, bytes, n)) = n
           /\ \A i \in 1..n : TimesOf(m, bytes, n)[i] = TimeOf(m, bytes, i)
<1> DEFINE time(i) == TimeOf(m, bytes, i)
           times == [i \in 1..n |-> time(i)]
<1>1. \A i \in 1..n : time(i) \in Int64
  OBVIOUS
<1> HIDE DEF time
<1>2. times \in [1..n -> Int64] /\ \A i \in 1..n : times[i] = time(i)
  BY <1>1
<1> HIDE DEF times
<1>3. times \in Seq(Int64) /\ Len(times) = n
  BY <1>2
<1>4. TimesOf(m, bytes, n) = times
  BY Zenon DEF TimesOf, times, time
<1> QED
  BY <1>2, <1>3, <1>4 DEF time

\* A record is taken in.
LEMMA RecordFits ==
    ASSUME NEW s, ScanFits(s), Len(s.block) >= RecordBytes,
           Decodes(s.at, s.content, s.summary.count + 1)
    PROVE  ScanFits([s EXCEPT !.block = SubSeq(@, RecordBytes + 1, Len(@)),
                              !.summary = WithPoint(@, TimeOf(s.at, s.content, s.summary.count + 1))])
<1> DEFINE n == s.summary.count + 1
           time == TimeOf(s.at, s.content, n)
           t == [s EXCEPT !.block = SubSeq(@, RecordBytes + 1, Len(@)), !.summary = WithPoint(@, time)]
           before == TimesOf(s.at, s.content, s.summary.count)
<1>1. /\ t.at = s.at /\ t.size = s.size /\ t.content = s.content
      /\ t.block = SubSeq(s.block, RecordBytes + 1, Len(s.block)) /\ t.summary = WithPoint(s.summary, time)
  BY DEF ScanFits, ScanTyped
<1>2. /\ s.content \in Seq(Byte) /\ s.block \in Seq(Byte) /\ s.summary.count \in Nat /\ RecordBytes \in Nat \ {0}
      /\ Len(s.content) \in Nat
  BY BlockLength
<1>3. /\ n \in Nat \ {0} /\ RecordBytes * n <= Len(s.content)
      /\ SubSeq(s.block, RecordBytes + 1, Len(s.block)) = SubSeq(s.content, RecordBytes * n + 1, Len(s.content))
  BY NextRecord
<1>4. time \in Int64
  BY DEF Decodes
<1>5. before \in Seq(Int64) /\ Len(before) = s.summary.count /\ \A i \in 1..s.summary.count : before[i] = TimeOf(s.at, s.content, i)
  <2>1. \A i \in 1..s.summary.count : TimeOf(s.at, s.content, i) \in Int64
    BY DEF ScanFits, RecordsAreIn, Decodes
  <2> QED
    BY <1>2, <2>1, TimesAre
<1>6. TimesOf(s.at, s.content, n) = Append(before, time)
  <2> DEFINE all == TimesOf(s.at, s.content, n)
  <2>1. all \in Seq(Int64) /\ Len(all) = n /\ \A i \in 1..n : all[i] = TimeOf(s.at, s.content, i)
    <3>1. \A i \in 1..n : TimeOf(s.at, s.content, i) \in Int64
      BY <1>2, <1>4 DEF ScanFits, RecordsAreIn, Decodes
    <3> QED
      BY <1>3, <3>1, TimesAre
  <2> HIDE DEF all, before, time
  <2>2. Append(before, time) \in Seq(Int64) /\ Len(Append(before, time)) = s.summary.count + 1
        /\ (\A i \in 1..s.summary.count : Append(before, time)[i] = before[i])
        /\ Append(before, time)[s.summary.count + 1] = time
    BY <1>4, <1>5, AppendProperties
  <2>3. \A i \in 1..Len(all) : all[i] = Append(before, time)[i]
    BY <1>2, <1>5, <2>1, <2>2 DEF time
  <2>4. all = Append(before, time)
    BY <2>1, <2>2, <2>3, SeqEqual
  <2> QED
    BY <2>4 DEF all
<1>7. Accumulated(t.summary, TimesOf(t.at, t.content, n))
  <2>1. Accumulated(s.summary, before)
    BY DEF ScanFits, RecordsAreIn
  <2> HIDE DEF t, before, time
  <2> QED
    BY <1>1, <1>4, <1>5, <1>6, <2>1, PointAccumulated
<1>8. t.summary.count = n /\ t.summary \in Summaries
  <2>1. t.summary \in Summaries
    BY <1>7 DEF Accumulated
  <2> QED
    BY <1>1, <2>1 DEF WithPoint
<1>9. t.block \in Seq(Byte)
  <2>1. RecordBytes + 1 \in Nat \ {0} /\ Len(s.block) \in 0..Len(s.block)
    BY <1>2
  <2>2. SubSeq(s.block, RecordBytes + 1, Len(s.block)) \in Seq(Byte)
    BY <1>2, <2>1, PartsOf
  <2> QED
    BY <1>1, <2>2
<1>10. ScanTyped(t)
  <2>1. SubSeq(s.block, RecordBytes + 1, Len(s.block)) \in Seq(Byte) /\ WithPoint(s.summary, time) \in Summaries
    BY <1>1, <1>8, <1>9
  <2> HIDE DEF time
  <2> QED
    BY <2>1 DEF ScanFits, ScanTyped
<1>11. RecordsAreIn(t)
  <2>1. \A i \in 1..n : Decodes(s.at, s.content, i)
    BY <1>2 DEF ScanFits, RecordsAreIn
  <2> HIDE DEF t
  <2> QED
    BY <1>1, <1>7, <1>8, <2>1 DEF RecordsAreIn
<1> HIDE DEF t
<1>12. BlockIsBehind(t)
  BY <1>1, <1>3, <1>8 DEF BlockIsBehind
<1>13. ScanFits(t)
  BY <1>1, <1>10, <1>11, <1>12 DEF ScanFits
<1> QED
  BY <1>13 DEF t

\* PointTime refuses exactly what cannot be decoded or represented.
LEMMA PointTimeIs ==
    ASSUME NEW m \in Nat, NEW bytes, NEW i, m * Microsecond \in Int64
    PROVE  IF Decodes(m, bytes, i)
           THEN PointTime(m, Record(bytes, i)) = TimeOf(m, bytes, i) /\ TimeOf(m, bytes, i) # Refused
           ELSE PointTime(m, Record(bytes, i)) = Refused
<1> DEFINE offset == Decode(Record(bytes, i))
           start == m * Microsecond
<1>1. FromMicroseconds(m) = start
  BY MicrosecondsAreExact DEF Representable
<1> HIDE DEF start
<1>2. offset \in Int64 => CheckedSum(start, offset) = Representable(start + offset)
  BY SumIsChecked DEF start
<1>3. Refused \notin Int64
  BY LimitsAreIntegers
<1>4. TimeOf(m, bytes, i) = start + offset
  BY DEF TimeOf, start
<1>5. PointTime(m, Record(bytes, i)) = IF offset \notin Int64 THEN Refused ELSE CheckedSum(start, offset)
  BY <1>1 DEF PointTime
<1> HIDE DEF offset
<1> QED
  BY <1>2, <1>3, <1>4, <1>5 DEF Decodes, Representable, offset

\* A summary and what it measures.
SummaryFits(e, m) == IsScan(m, e.content) /\ Measures(e.summary, m, e.content)

\* All of the scan was decoded.
LEMMA EndedScanFits ==
    ASSUME NEW s, ScanFits(s), s.block = <<>>, s.summary.count = s.size \div RecordBytes
    PROVE  SummaryFits([content |-> s.content, summary |-> s.summary], s.at)
<1> DEFINE c == s.summary.count
<1>1. /\ c \in Nat /\ RecordBytes \in Nat \ {0} /\ Len(s.content) = RecordBytes * c
      /\ s.content \in Seq(Byte)
  <2>1. Len(s.block) = 0
    OBVIOUS
  <2>2. /\ c \in Nat /\ RecordBytes * c \in Nat /\ RecordBytes \in Nat \ {0} /\ Len(s.content) \in Nat
        /\ s.content \in Seq(Byte) /\ Len(s.block) = Len(s.content) - RecordBytes * c
    BY BlockLength
  <2> DEFINE p == RecordBytes * c
  <2> HIDE DEF p
  <2>3. Len(s.content) = p
    BY <2>1, <2>2 DEF p
  <2> QED
    BY <2>2, <2>3 DEF p
<1>2. Len(s.content) \div RecordBytes = c /\ (Len(s.content) % RecordBytes) = 0
  BY <1>1, MultiplesDivide
<1>3. s.size \in Nat \ {0} /\ (s.size % RecordBytes) = 0
  BY DEF ScanFits, ScanTyped
<1>4. c # 0
  <2> DEFINE z == s.size
  <2>1. z \in Nat \ {0} /\ (z % RecordBytes) = 0
    BY <1>3
  <2>2. c = z \div RecordBytes
    OBVIOUS
  <2> HIDE DEF z, c
  <2>3. z = RecordBytes * (z \div RecordBytes) + (z % RecordBytes)
    BY <1>1, <2>1, Divides
  <2>4. z = RecordBytes * c + 0
    BY <2>1, <2>2, <2>3
  <2> QED
    BY <1>1, <2>1, <2>4
<1>5. Len(s.content) # 0
  <2>1. RecordBytes * 1 <= RecordBytes * c
    BY <1>1, <1>4, ProductsGrow
  <2> QED
    BY <1>1, <2>1
<1>6. IsScan(s.at, s.content)
  <2>1. s.content # <<>>
    BY <1>5
  <2>2. \A i \in 1..c : Decodes(s.at, s.content, i)
    BY DEF ScanFits, RecordsAreIn
  <2> HIDE DEF c
  <2> QED
    BY <1>2, <2>1, <2>2 DEF IsScan, ScanFits, Decodes
<1>7. Measures(s.summary, s.at, s.content)
  <2> DEFINE times == TimesOf(s.at, s.content, c)
  <2>1. Accumulated(s.summary, times)
    BY DEF ScanFits, RecordsAreIn
  <2>2. Len(times) = c /\ times # <<>> /\ \A i \in 1..c : times[i] = TimeOf(s.at, s.content, i)
    <3>1. \A i \in 1..c : TimeOf(s.at, s.content, i) \in Int64
      BY DEF ScanFits, RecordsAreIn, Decodes
    <3>2. Len(times) = c /\ \A i \in 1..c : times[i] = TimeOf(s.at, s.content, i)
      BY <1>1, <3>1, TimesAre
    <3> QED
      BY <1>4, <3>2
  <2> HIDE DEF times, c
  <2>3. /\ \E i \in 1..c : s.summary.first = times[i]
        /\ \E i \in 1..c : s.summary.last = times[i]
        /\ \A i \in 1..c : s.summary.first <= times[i] /\ times[i] <= s.summary.last
        /\ s.summary.ordered <=> \A i, j \in 1..c : i < j => times[i] <= times[j]
    BY <2>1, <2>2 DEF Accumulated
  <2>4. s.summary.count = c
    BY DEF c
  <2> QED
    BY <1>2, <2>2, <2>3, <2>4 DEF Measures
<1> QED
  BY <1>6, <1>7 DEF SummaryFits

(***************************************************************************)
(* The rows.                                                               *)
(***************************************************************************)

\* The first rows have been taken in; some of all the rows match.
RowsFit(r, times, matching) ==
    /\ times \in Seq(Int) /\ matching \subseteq 1..Len(times)
    /\ r.count \in Nat /\ r.count <= Len(times)
    /\ \A i \in 1..r.count : times[i] \in Int64
    /\ \A i, j \in 1..r.count : i < j => times[i] <= times[j]
    /\ r.previous = IF r.count = 0 THEN MinTime ELSE times[r.count]
    /\ r.matches = Cardinality(matching \cap (1..r.count))

\* Before the first row.
LEMMA NoRowsFit ==
    ASSUME NEW times \in Seq(Int), NEW matching \in SUBSET (1..Len(times))
    PROVE  RowsFit(NoRows, times, matching)
<1>1. matching \cap (1..0) = {} /\ Cardinality({}) = 0
  BY FS_EmptySet
<1>2. Len(times) \in Nat
  OBVIOUS
<1> QED
  BY <1>1, <1>2 DEF RowsFit, NoRows

\* A row is taken in.
LEMMA RowFits ==
    ASSUME NEW r, NEW times, NEW matching, RowsFit(r, times, matching), r.count < Len(times),
           times[r.count + 1] \in Int64, times[r.count + 1] >= r.previous
    PROVE  RowsFit([count |-> r.count + 1, previous |-> times[r.count + 1],
                    matches |-> r.matches + (IF r.count + 1 \in matching THEN 1 ELSE 0)], times, matching)
<1> DEFINE c == r.count
           n == c + 1
           add == IF n \in matching THEN 1 ELSE 0
           t == [count |-> n, previous |-> times[n], matches |-> r.matches + add]
<1>1. c \in Nat /\ n \in Nat \ {0} /\ n <= Len(times) /\ c < n /\ Len(times) \in Nat /\ times \in Seq(Int)
      /\ matching \subseteq 1..Len(times)
  BY DEF RowsFit
<1>2. /\ \A i \in 1..c : times[i] \in Int64
      /\ \A i, j \in 1..c : i < j => times[i] <= times[j]
      /\ r.previous = IF c = 0 THEN MinTime ELSE times[c]
      /\ r.matches = Cardinality(matching \cap (1..c))
  BY DEF RowsFit
<1>3. Int64 \subseteq Int
  BY LimitsAreIntegers
<1> HIDE DEF c
<1>4. \A i \in 1..n : times[i] \in Int64
  BY <1>1, <1>2 DEF c
<1>5. \A i, j \in 1..n : i < j => times[i] <= times[j]
  <2>1. SUFFICES ASSUME NEW i \in 1..n, NEW j \in 1..n, i < j PROVE times[i] <= times[j]
    OBVIOUS
  <2>2. i \in 1..c /\ i \in Int /\ j \in Int
    BY <1>1, <2>1
  <2>3. CASE j \in 1..c
    BY <1>2, <2>1, <2>2, <2>3
  <2>4. CASE j = n
    <3>1. c # 0 /\ c \in 1..c /\ times[c] <= times[n] /\ i <= c
      BY <1>1, <1>2, <2>2 DEF c
    <3>2. times[i] <= times[c]
      <4>1. CASE i = c
        <5>1. times[c] \in Int
          BY <1>2, <1>3, <3>1
        <5> QED
          BY <4>1, <5>1
      <4>2. CASE i # c
        <5>1. i < c
          BY <1>1, <2>2, <3>1, <4>2
        <5> QED
          BY <1>2, <2>2, <3>1, <5>1
      <4> QED
        BY <4>1, <4>2
    <3>3. times[i] \in Int /\ times[c] \in Int /\ times[n] \in Int
      BY <1>1, <1>3, <1>4, <2>2, <3>1
    <3> QED
      BY <2>4, <3>1, <3>2, <3>3
  <2> QED
    BY <1>1, <2>2, <2>3, <2>4
<1>6. r.matches + add = Cardinality(matching \cap (1..n))
  <2> DEFINE A == matching \cap (1..c)
  <2>1. IsFiniteSet(A) /\ Cardinality(A) \in Nat
    <3>1. IsFiniteSet(1..c)
      BY <1>1, FS_Interval
    <3>2. IsFiniteSet(A)
      BY <3>1, FS_Intersection
    <3> QED
      BY <3>2, FS_CardinalityType
  <2>2. n \notin A /\ (1..n = (1..c) \cup {n})
    BY <1>1
  <2>3. CASE n \in matching
    <3>1. matching \cap (1..n) = A \cup {n}
      BY <2>2, <2>3
    <3>2. Cardinality(A \cup {n}) = Cardinality(A) + 1
      <4> HIDE DEF A, n
      <4> QED
        BY <2>1, <2>2, FS_AddElement
    <3>3. r.matches = Cardinality(A) /\ add = 1
      BY <1>2, <2>3
    <3>4. Cardinality(matching \cap (1..n)) = Cardinality(A) + 1
      BY <3>1, <3>2, Zenon
    <3>5. r.matches + add = Cardinality(A) + 1
      BY <3>3
    <3> QED
      BY <3>4, <3>5, Zenon
  <2>4. CASE n \notin matching
    <3>1. matching \cap (1..n) = A
      BY <2>2, <2>4
    <3>2. r.matches = Cardinality(A) /\ add = 0
      BY <1>2, <2>4
    <3>3. r.matches + add = Cardinality(A)
      BY <2>1, <3>2
    <3> QED
      BY <3>1, <3>3, Zenon
  <2> QED
    BY <2>3, <2>4
<1>7. t.count = n /\ t.previous = times[n] /\ t.matches = r.matches + add
  OBVIOUS
<1>8. n # 0
  BY <1>1
<1> HIDE DEF t, n, add
<1>9. RowsFit(t, times, matching)
  BY <1>1, <1>4, <1>5, <1>6, <1>7, <1>8 DEF RowsFit
<1> QED
  BY <1>9 DEF t, n, add, c

\* A row is refused for its time only.
LEMMA RefusedRow ==
    ASSUME NEW r, NEW times, NEW matching, RowsFit(r, times, matching), r.count < Len(times),
           times[r.count + 1] \notin Int64 \/ times[r.count + 1] < r.previous
    PROVE  ~TimesInOrder(times)
<1> DEFINE n == r.count + 1
<1>1. r.count \in Nat /\ n \in 1..Len(times) /\ DOMAIN times = 1..Len(times) /\ Len(times) \in Nat
  BY DEF RowsFit
<1>2. CASE times[n] \notin Int64
  BY <1>1, <1>2 DEF TimesInOrder
<1>3. CASE times[n] \in Int64
  <2>1. times[n] < r.previous /\ times[n] \in Int /\ MinTime <= times[n] /\ MinTime \in Int
    BY <1>3, LimitsAreIntegers
  <2>2. r.count # 0
    BY <2>1 DEF RowsFit
  <2>3. r.count \in 1..Len(times) /\ r.count < n /\ times[r.count] \in Int64 /\ r.previous = times[r.count]
    BY <1>1, <2>2 DEF RowsFit
  <2>4. times[r.count] \in Int
    BY <2>3, LimitsAreIntegers
  <2>5. ~(times[r.count] <= times[n])
    BY <2>1, <2>3, <2>4
  <2> QED
    BY <1>1, <2>3, <2>5 DEF TimesInOrder
<1> QED
  BY <1>2, <1>3

\* All rows were taken in.
LEMMA AllRowsFit ==
    ASSUME NEW r, NEW times, NEW matching, RowsFit(r, times, matching), r.count >= Len(times)
    PROVE  /\ r.count # 0 => TimesInOrder(times)
           /\ r.count = 0 => ~TimesInOrder(times)
           /\ r.matches = Cardinality(matching)
           /\ r.matches = 0 => matching = {}
<1>1. r.count = Len(times) /\ DOMAIN times = 1..Len(times) /\ Len(times) \in Nat /\ matching \subseteq 1..Len(times)
  BY DEF RowsFit
<1>2. r.count # 0 => TimesInOrder(times)
  <2>1. r.count # 0 => times # <<>>
    BY <1>1
  <2> QED
    BY <1>1, <2>1 DEF RowsFit, TimesInOrder
<1>3. r.count = 0 => ~TimesInOrder(times)
  <2>1. r.count = 0 => times = <<>>
    BY <1>1 DEF RowsFit
  <2> QED
    BY <2>1 DEF TimesInOrder
<1>4. r.matches = Cardinality(matching)
  <2>1. matching \cap (1..r.count) = matching
    BY <1>1
  <2> QED
    BY <2>1 DEF RowsFit
<1>5. IsFiniteSet(matching)
  <2>1. IsFiniteSet(1..Len(times))
    BY <1>1, FS_Interval
  <2> QED
    BY <1>1, <2>1, FS_Subset
<1>6. Cardinality(matching) = 0 => matching = {}
  BY <1>5, FS_EmptySet
<1> QED
  BY <1>2, <1>3, <1>4, <1>6

(***************************************************************************)
(* The reading of a sequence.                                              *)
(***************************************************************************)

FilesFit(d) ==
    /\ DOMAIN d.scans \subseteq Nat /\ \A m \in DOMAIN d.scans : d.scans[m] \in Seq(Byte)
    /\ d.gps \in Seq([negative : BOOLEAN, seconds : Nat, tenths : 0..(10 * Second - 1)])
    /\ d.poses \in Seq(Nat)

\* The scan at hand was read from the front of these bytes.
Follows(s, bytes) ==
    /\ s.size = Len(bytes) /\ Len(s.content) <= Len(bytes)
    /\ s.content = SubSeq(bytes, 1, Len(s.content))

Scanning == {"opened", "bytes"}
Opening == {"frames", "gps", "poses", "accepted"} \cup Scanning
Listed == {"views"} \cup Opening
Counting == {"gps", "poses", "accepted"}

AtHand == IF reading \in Scanning THEN {scan.at} ELSE {}

GpsMatches == {i \in DOMAIN GpsTimes : OverlapsScans(GpsTimes[i])}
PoseMatches == {i \in DOMAIN PoseTimes : \E m \in DOMAIN scanned : PoseTimes[i] = m * Microsecond}

\* What a refusal says, if nobody wrote to the files.
Blame ==
    \/ NotListed \/ \E m \in DOMAIN disk.scans : ~IsScan(m, disk.scans[m])
    \/ program = "inspector"
       /\ (~TimesInOrder(GpsTimes) \/ ~TimesInOrder(PoseTimes) \/ \A i \in DOMAIN GpsTimes : ~OverlapsScans(GpsTimes[i]))

ReadingTyped ==
    /\ reading \in {"idle", "directory", "refused"} \cup Listed
    /\ program \in {"adapter", "inspector"} /\ changes \in Nat
    /\ reading # "idle" => FilesFit(disk)

ScanInv ==
    reading \in Scanning =>
      /\ ScanFits(scan) /\ scan.at \in DOMAIN disk.scans
      /\ changes = 0 => Follows(scan, disk.scans[scan.at])
      /\ reading = "opened" => scan.content = <<>>

\* Every scan of the directory is still to be read, at hand, or was read.
ScannedInv ==
    /\ \A m \in DOMAIN scanned : SummaryFits(scanned[m], m)
    /\ reading \in {"idle", "directory", "views"} => DOMAIN scanned = {}
    /\ reading \in Listed => AtHand \cup awaiting \cup DOMAIN scanned = DOMAIN disk.scans
    /\ reading \in Counting => awaiting = {}

RowsInv ==
    /\ reading \in {"idle", "directory", "views", "frames"} \cup Scanning => rows = NoRows
    /\ reading \in {"gps", "poses"} => program = "inspector"
    /\ reading = "gps" => RowsFit(rows, GpsTimes, GpsMatches)
    /\ reading = "poses" => RowsFit(rows, PoseTimes, PoseMatches)
    /\ reading = "poses" \/ (reading = "accepted" /\ program = "inspector") => TimesInOrder(GpsTimes) /\ GpsMatches # {}
    /\ reading = "accepted" /\ program = "inspector" => TimesInOrder(PoseTimes) /\ rows.matches = Cardinality(PoseMatches)

InspectionInv ==
    /\ ReadingTyped
    /\ ScanInv
    /\ ScannedInv
    /\ RowsInv
    /\ reading = "refused" /\ changes = 0 => Blame

\* The sizes that the adapter enumerated are those of scans, and of the files as
\* long as nobody wrote to them; it opens scans once it has all their sizes.
SizesInv ==
    /\ \A m \in DOMAIN sizes :
         m \in Nat => /\ sizes[m] \in Nat /\ Admissible(m, sizes[m])
                      /\ (changes = 0 => sizes[m] = Len(disk.scans[m]))
    /\ reading \in {"idle", "directory"} => DOMAIN sizes = {}
    /\ reading \in Opening /\ program = "adapter" => DOMAIN disk.scans \subseteq DOMAIN sizes

\* The times of the rows are integers.
LEMMA TimesAreIntegers ==
    ASSUME FilesFit(disk)
    PROVE  /\ GpsTimes \in Seq(Int) /\ Len(GpsTimes) = Len(disk.gps) /\ GpsMatches \subseteq 1..Len(GpsTimes)
           /\ PoseTimes \in Seq(Int) /\ Len(PoseTimes) = Len(disk.poses) /\ PoseMatches \subseteq 1..Len(PoseTimes)
           /\ \A i \in 1..Len(disk.gps) : FromDecimalSeconds(disk.gps[i]) = Representable(GpsTimes[i])
           /\ \A i \in 1..Len(disk.poses) : FromMicroseconds(disk.poses[i]) = Representable(PoseTimes[i])
<1>1. Second \in Nat \ {0} /\ Microsecond \in Nat \ {0}
  BY TimeAssumption
<1>2. \A i \in 1..Len(disk.gps) :
        /\ disk.gps[i].negative \in BOOLEAN /\ disk.gps[i].seconds \in Nat
        /\ disk.gps[i].tenths \in Nat /\ disk.gps[i].tenths < 10 * Second
  <2>1. SUFFICES ASSUME NEW i \in 1..Len(disk.gps)
                 PROVE  /\ disk.gps[i].negative \in BOOLEAN /\ disk.gps[i].seconds \in Nat
                        /\ disk.gps[i].tenths \in Nat /\ disk.gps[i].tenths < 10 * Second
    OBVIOUS
  <2>2. disk.gps[i] \in [negative : BOOLEAN, seconds : Nat, tenths : 0..(10 * Second - 1)]
    <3> DEFINE Lexemes == [negative : BOOLEAN, seconds : Nat, tenths : 0..(10 * Second - 1)]
    <3>1. disk.gps \in Seq(Lexemes)
      BY DEF FilesFit
    <3> HIDE DEF Lexemes
    <3>2. disk.gps[i] \in Lexemes
      BY <2>1, <3>1, ElementOfSeq
    <3> QED
      BY <3>2 DEF Lexemes
  <2>3. disk.gps[i].tenths \in 0..(10 * Second - 1)
    BY <2>2
  <2>4. 10 * Second \in Nat
    BY <1>1
  <2> QED
    BY <2>2, <2>3, <2>4
<1>3. \A i \in 1..Len(disk.poses) : disk.poses[i] \in Nat
  BY DEF FilesFit
<1>4. ASSUME NEW l, l.negative \in BOOLEAN, l.seconds \in Nat, l.tenths \in Nat
      PROVE  NearestNanosecond(l) \in Int
  <2>1. 10 * Second * l.seconds + l.tenths + 5 \in Nat
    BY <1>1, <1>4
  <2>2. (10 * Second * l.seconds + l.tenths + 5) \div 10 \in Nat
    BY <2>1, Divides
  <2> QED
    BY <2>2 DEF NearestNanosecond
<1>5. /\ DOMAIN disk.gps = 1..Len(disk.gps) /\ Len(disk.gps) \in Nat
      /\ DOMAIN disk.poses = 1..Len(disk.poses) /\ Len(disk.poses) \in Nat
  BY DEF FilesFit
<1>6. \A i \in 1..Len(disk.gps) : NearestNanosecond(disk.gps[i]) \in Int
  BY <1>2, <1>4
<1>7. GpsTimes \in Seq(Int) /\ Len(GpsTimes) = Len(disk.gps) /\ \A i \in 1..Len(disk.gps) : GpsTimes[i] = NearestNanosecond(disk.gps[i])
  BY <1>5, <1>6 DEF GpsTimes
<1>8. \A i \in 1..Len(disk.poses) : disk.poses[i] * Microsecond \in Int
  BY <1>1, <1>3
<1>9. PoseTimes \in Seq(Int) /\ Len(PoseTimes) = Len(disk.poses) /\ \A i \in 1..Len(disk.poses) : PoseTimes[i] = disk.poses[i] * Microsecond
  BY <1>5, <1>8 DEF PoseTimes
<1>10. GpsMatches \subseteq 1..Len(GpsTimes) /\ PoseMatches \subseteq 1..Len(PoseTimes)
  <2>1. DOMAIN GpsTimes = 1..Len(GpsTimes) /\ DOMAIN PoseTimes = 1..Len(PoseTimes)
    BY <1>7, <1>9
  <2> QED
    BY <2>1 DEF GpsMatches, PoseMatches
<1>11. \A i \in 1..Len(disk.gps) : FromDecimalSeconds(disk.gps[i]) = Representable(GpsTimes[i])
  BY <1>2, <1>7, DecimalIsNearest
<1>12. \A i \in 1..Len(disk.poses) : FromMicroseconds(disk.poses[i]) = Representable(PoseTimes[i])
  BY <1>3, <1>9, MicrosecondsAreExact
<1> QED
  BY <1>7, <1>9, <1>10, <1>11, <1>12

\* Rows, their matches and the blame depend on the files and the summaries only.
LEMMA SameRows ==
    ASSUME disk'.gps = disk.gps, disk'.poses = disk.poses, scanned' = scanned
    PROVE  /\ GpsTimes' = GpsTimes /\ PoseTimes' = PoseTimes
           /\ GpsMatches' = GpsMatches /\ PoseMatches' = PoseMatches
<1>1. GpsTimes' = GpsTimes /\ PoseTimes' = PoseTimes
  BY DEF GpsTimes, PoseTimes
<1>2. \A t : OverlapsScans(t)' = OverlapsScans(t)
  BY DEF OverlapsScans
<1>3. GpsMatches' = GpsMatches
  BY <1>1, <1>2 DEF GpsMatches
<1>4. PoseMatches' = PoseMatches
  BY <1>1 DEF PoseMatches
<1> QED
  BY <1>1, <1>3, <1>4

\* A refusal stays justified.
LEMMA SameBlame ==
    ASSUME disk' = disk, scanned' = scanned, program' = program, Blame
    PROVE  Blame'
<1>1. GpsTimes' = GpsTimes /\ PoseTimes' = PoseTimes
  BY SameRows
<1> QED
  BY <1>1 DEF Blame, NotListed, OverlapsScans

\* A refusal that is to blame on the files.
LEMMA RefusalKeeps ==
    ASSUME InspectionInv, RefuseSequence, UnchangedFiles, reading # "idle", changes = 0 => Blame
    PROVE  InspectionInv'
<1>1. reading' = "refused" /\ UNCHANGED <<awaiting, scan, scanned, rows, disk, changes, program>>
  BY DEF RefuseSequence, UnchangedFiles
<1>2. ReadingTyped'
  BY <1>1 DEF InspectionInv, ReadingTyped
<1>3. ScanInv' /\ RowsInv'
  BY <1>1 DEF ScanInv, RowsInv, Scanning
<1>4. ScannedInv'
  BY <1>1 DEF InspectionInv, ScannedInv, Listed, Opening, Counting, Scanning
<1>5. changes' = 0 => Blame'
  BY <1>1, SameBlame
<1> QED
  BY <1>2, <1>3, <1>4, <1>5 DEF InspectionInv

\* A sequence is begun.
LEMMA BeginKeeps ==
    ASSUME InspectionInv, BeginInspection
    PROVE  InspectionInv'
<1>1. /\ reading = "idle" /\ reading' = "directory" /\ disk' \in SequencesOnDisk /\ program' \in {"adapter", "inspector"}
      /\ UNCHANGED <<changes, awaiting, scan, scanned, rows>>
  BY DEF BeginInspection
<1>2. ReadingTyped'
  <2>1. FilesFit(disk')
    BY <1>1, ReadingAssumption DEF FilesFit
  <2> QED
    BY <1>1, <2>1 DEF InspectionInv, ReadingTyped
<1>3. ScanInv'
  BY <1>1 DEF ScanInv, Scanning
<1>4. ScannedInv'
  BY <1>1 DEF InspectionInv, ScannedInv, Listed, Opening, Scanning, Counting
<1>5. RowsInv'
  BY <1>1 DEF InspectionInv, RowsInv
<1> QED
  BY <1>1, <1>2, <1>3, <1>4, <1>5 DEF InspectionInv

\* The scans are listed.
LEMMA ListKeeps ==
    ASSUME InspectionInv, ListScans
    PROVE  InspectionInv'
<1>1. reading = "directory" /\ UnchangedFiles
  BY DEF ListScans
<1>2. CASE NotListed
  <2>1. RefuseSequence
    BY <1>2 DEF ListScans
  <2>2. Blame
    BY <1>2 DEF Blame
  <2> QED
    BY <1>1, <2>1, <2>2, RefusalKeeps
<1>3. CASE ~NotListed
  <2>1. /\ reading' \in {"views", "frames"} /\ awaiting' = DOMAIN disk.scans
        /\ UNCHANGED <<scan, scanned, rows, disk, changes, program>>
    BY <1>3 DEF ListScans, UnchangedFiles
  <2>2. ReadingTyped'
    BY <1>1, <2>1 DEF InspectionInv, ReadingTyped, Listed, Opening
  <2>3. ScanInv'
    BY <2>1 DEF ScanInv, Scanning
  <2>4. ScannedInv'
    BY <1>1, <2>1 DEF InspectionInv, ScannedInv, AtHand, Scanning, Counting
  <2>5. RowsInv'
    BY <1>1, <2>1 DEF InspectionInv, RowsInv
  <2> QED
    BY <2>1, <2>2, <2>3, <2>4, <2>5 DEF InspectionInv
<1> QED
  BY <1>2, <1>3

\* Steps that stay in the bytes of the scan at hand, which still fits.
LEMMA ScanningKeeps ==
    ASSUME InspectionInv, reading \in Scanning, reading' = "bytes", ScanFits(scan'), scan'.at = scan.at,
           changes = 0 => Follows(scan', disk.scans[scan.at]),
           UNCHANGED <<disk, changes, program, awaiting, scanned, rows>>
    PROVE  InspectionInv'
<1>1. ReadingTyped'
  BY DEF InspectionInv, ReadingTyped, Listed, Opening, Scanning
<1>2. ScanInv'
  BY DEF InspectionInv, ScanInv, Scanning
<1>3. AtHand' = AtHand /\ reading \in Listed /\ reading' \in Listed
  BY DEF AtHand, Scanning, Listed, Opening
<1>4. ScannedInv'
  BY <1>3 DEF InspectionInv, ScannedInv, Counting
<1>5. RowsInv'
  BY DEF InspectionInv, RowsInv, Scanning
<1> QED
  BY <1>1, <1>2, <1>4, <1>5 DEF InspectionInv

\* Sizes that are not admissible are those of no scan.
LEMMA AdmissibleSizes ==
    ASSUME NEW m \in Nat, NEW size \in Nat
    PROVE  /\ Admissible(m, size) =>
                size \in Nat \ {0} /\ size <= MaxFrameBytes /\ (size % RecordBytes) = 0 /\ m * Microsecond \in Int64
           /\ \A bytes : bytes \in Seq(Byte) /\ Len(bytes) = size /\ ~Admissible(m, size) => ~IsScan(m, bytes)
<1>1. (FromMicroseconds(m) = Refused) <=> (m * Microsecond \notin Int64)
  BY MicrosecondsAreExact, LimitsAreIntegers DEF Representable
<1>2. MaxFrameBytes \in Nat
  BY ReadingAssumption
<1>3. Admissible(m, size) =>
        size \in Nat \ {0} /\ size <= MaxFrameBytes /\ (size % RecordBytes) = 0 /\ m * Microsecond \in Int64
  BY <1>1, <1>2 DEF Admissible
<1>4. ASSUME NEW bytes \in Seq(Byte), Len(bytes) = size, ~Admissible(m, size)
      PROVE  ~IsScan(m, bytes)
  <2>1. size = 0 => bytes = <<>>
    BY <1>4
  <2>2. bytes # <<>> /\ Len(bytes) <= MaxFrameBytes /\ (Len(bytes) % RecordBytes) = 0 /\ m * Microsecond \in Int64
          => Admissible(m, size)
    BY <1>1, <1>4, <2>1 DEF Admissible
  <2> QED
    BY <1>4, <2>2 DEF IsScan
<1> QED
  BY <1>3, <1>4

\* The adapter enumerates a scan.
LEMMA ViewKeeps ==
    ASSUME InspectionInv, EnumerateScan
    PROVE  InspectionInv'
<1>1. /\ reading = "views" /\ FilesFit(disk) /\ reading \in Listed /\ AtHand = {}
      /\ UNCHANGED <<disk, changes, program>>
  BY DEF EnumerateScan, InspectionInv, ReadingTyped, Listed, Opening, AtHand, Scanning
<1>2. PICK m \in awaiting \ DOMAIN sizes :
        LET size == Len(disk.scans[m])
        IN  IF ~Admissible(m, size) THEN RefuseSequence /\ sizes' = sizes
            ELSE /\ sizes' = [k \in DOMAIN sizes \cup {m} |-> IF k = m THEN size ELSE sizes[k]]
                 /\ reading' = IF awaiting \subseteq DOMAIN sizes' THEN "frames" ELSE "views"
                 /\ UNCHANGED <<awaiting, scan, scanned, rows>>
  BY DEF EnumerateScan
<1>3. m \in DOMAIN disk.scans
  BY <1>1, <1>2 DEF InspectionInv, ScannedInv
<1>4. m \in Nat /\ disk.scans[m] \in Seq(Byte) /\ Len(disk.scans[m]) \in Nat
  BY <1>1, <1>3 DEF FilesFit
<1>5. CASE ~Admissible(m, Len(disk.scans[m]))
  <2>1. RefuseSequence /\ UnchangedFiles
    BY <1>1, <1>2, <1>5 DEF UnchangedFiles
  <2>2. ~IsScan(m, disk.scans[m])
    BY <1>4, <1>5, AdmissibleSizes
  <2>3. Blame
    BY <1>3, <2>2 DEF Blame
  <2> QED
    BY <1>1, <2>1, <2>3, RefusalKeeps
<1>6. CASE Admissible(m, Len(disk.scans[m]))
  <2>1. /\ reading' \in {"views", "frames"}
        /\ UNCHANGED <<awaiting, scan, scanned, rows, disk, changes, program>>
    BY <1>1, <1>2, <1>6
  <2>2. ReadingTyped'
    BY <1>1, <2>1 DEF InspectionInv, ReadingTyped, Listed, Opening
  <2>3. ScanInv'
    BY <2>1 DEF ScanInv, Scanning
  <2>4. ScannedInv'
    <3>1. AtHand' = {}
      BY <2>1 DEF AtHand, Scanning
    <3> QED
      BY <1>1, <2>1, <3>1 DEF InspectionInv, ScannedInv, Counting
  <2>5. RowsInv'
    BY <1>1, <2>1 DEF InspectionInv, RowsInv
  <2> QED
    BY <2>1, <2>2, <2>3, <2>4, <2>5 DEF InspectionInv
<1> QED
  BY <1>5, <1>6

\* A scan is opened with a size that was found admissible.
LEMMA OpenedKeeps ==
    ASSUME InspectionInv, reading = "frames", UnchangedFiles,
           NEW m \in awaiting, NEW size \in Nat, NEW next \in Scanning,
           Admissible(m, size), changes = 0 => size = Len(disk.scans[m]), BeginScan(m, size, next)
    PROVE  InspectionInv'
<1> DEFINE file == disk.scans[m]
<1>1. /\ reading' = next /\ scan' = [NoScan EXCEPT !.at = m, !.size = size] /\ awaiting' = awaiting \ {m}
      /\ UNCHANGED <<scanned, rows, disk, changes, program>>
  BY DEF BeginScan, UnchangedFiles
<1>2. reading \in Listed /\ AtHand = {} /\ FilesFit(disk)
  BY DEF AtHand, Scanning, Listed, Opening, InspectionInv, ReadingTyped
<1>3. m \in DOMAIN disk.scans /\ awaiting \cup DOMAIN scanned = DOMAIN disk.scans
  BY <1>2 DEF InspectionInv, ScannedInv
<1>4. m \in Nat /\ file \in Seq(Byte)
  BY <1>2, <1>3 DEF FilesFit
<1>5. ScanFits(scan')
  BY <1>1, <1>4, AdmissibleSizes, OpenedScanFits
<1>6. scan'.at = m /\ scan'.size = size /\ scan'.content = <<>>
  BY <1>1 DEF NoScan
<1>7. changes = 0 => Follows(scan', file)
  <2>1. SubSeq(file, 1, 0) = <<>> /\ Len(<<>>) = 0 /\ Len(file) \in Nat
    BY <1>4
  <2> QED
    BY <1>6, <2>1 DEF Follows
<1>8. ScanInv'
  BY <1>1, <1>3, <1>5, <1>6, <1>7 DEF ScanInv
<1>9. ReadingTyped'
  BY <1>1, <1>2 DEF InspectionInv, ReadingTyped, Listed, Opening
<1>10. ScannedInv'
  <2>1. AtHand' = {m} /\ reading' \notin Counting \cup {"idle", "directory", "views"}
    BY <1>1, <1>6 DEF AtHand, Scanning, Counting
  <2>2. {m} \cup (awaiting \ {m}) \cup DOMAIN scanned = DOMAIN disk.scans
    BY <1>3
  <2> QED
    BY <1>1, <2>1, <2>2 DEF InspectionInv, ScannedInv
<1>11. RowsInv' /\ reading' # "refused"
  BY <1>1 DEF InspectionInv, RowsInv, Scanning
<1> QED
  BY <1>8, <1>9, <1>10, <1>11 DEF InspectionInv

\* A scan is opened.
LEMMA OpenKeeps ==
    ASSUME InspectionInv, SizesInv, OpenScan
    PROVE  InspectionInv'
<1>1. reading = "frames" /\ UnchangedFiles /\ FilesFit(disk) /\ AtHand = {} /\ reading \in Opening
  BY DEF OpenScan, InspectionInv, ReadingTyped, AtHand, Scanning, Opening
<1>2. PICK m \in awaiting :
        IF program = "adapter" THEN BeginScan(m, sizes[m], "opened")
        ELSE IF Admissible(m, Len(disk.scans[m])) THEN BeginScan(m, Len(disk.scans[m]), "bytes")
        ELSE RefuseSequence
  BY DEF OpenScan
<1>3. m \in DOMAIN disk.scans
  BY <1>1, <1>2 DEF InspectionInv, ScannedInv, Listed
<1>4. m \in Nat /\ disk.scans[m] \in Seq(Byte) /\ Len(disk.scans[m]) \in Nat
  BY <1>1, <1>3 DEF FilesFit
<1>5. CASE program = "adapter"
  <2>1. m \in DOMAIN sizes
    BY <1>1, <1>3, <1>5 DEF SizesInv
  <2>2. sizes[m] \in Nat /\ Admissible(m, sizes[m]) /\ (changes = 0 => sizes[m] = Len(disk.scans[m]))
    BY <1>4, <2>1 DEF SizesInv
  <2>3. BeginScan(m, sizes[m], "opened") /\ "opened" \in Scanning
    BY <1>2, <1>5 DEF Scanning
  <2> QED
    BY <1>1, <2>2, <2>3, OpenedKeeps
<1>6. CASE program # "adapter" /\ Admissible(m, Len(disk.scans[m]))
  <2>1. BeginScan(m, Len(disk.scans[m]), "bytes") /\ "bytes" \in Scanning
    BY <1>2, <1>6 DEF Scanning
  <2> QED
    BY <1>1, <1>4, <1>6, <2>1, OpenedKeeps
<1>7. CASE program # "adapter" /\ ~Admissible(m, Len(disk.scans[m]))
  <2>1. RefuseSequence
    BY <1>2, <1>7
  <2>2. ~IsScan(m, disk.scans[m])
    BY <1>4, <1>7, AdmissibleSizes
  <2>3. Blame
    BY <1>3, <2>2 DEF Blame
  <2> QED
    BY <1>1, <2>1, <2>3, RefusalKeeps
<1> QED
  BY <1>5, <1>6, <1>7

\* What holds of a scan while its bytes are read.
LEMMA AtTheScan ==
    ASSUME InspectionInv, reading \in Scanning
    PROVE  /\ ScanFits(scan) /\ scan.at \in DOMAIN disk.scans /\ scan.at \in Nat /\ disk.scans[scan.at] \in Seq(Byte)
           /\ Len(disk.scans[scan.at]) \in Nat
           /\ changes = 0 => Follows(scan, disk.scans[scan.at])
           /\ scan.at * Microsecond \in Int64
<1>1. ScanFits(scan) /\ scan.at \in DOMAIN disk.scans /\ (changes = 0 => Follows(scan, disk.scans[scan.at]))
  BY DEF InspectionInv, ScanInv
<1>2. FilesFit(disk)
  BY DEF InspectionInv, ReadingTyped, Scanning
<1>3. disk.scans[scan.at] \in Seq(Byte) /\ scan.at \in Nat
  BY <1>1, <1>2 DEF FilesFit
<1> QED
  BY <1>1, <1>3 DEF ScanFits

\* The size of the file is compared with the enumeration's.
LEMMA CheckSizeKeeps ==
    ASSUME InspectionInv, CheckSize
    PROVE  InspectionInv'
<1>1. reading = "opened" /\ UnchangedFiles /\ reading \in Scanning
  BY DEF CheckSize, Scanning
<1>2. CASE Len(disk.scans[scan.at]) # scan.size
  <2>1. RefuseSequence /\ changes # 0
    BY <1>1, <1>2, AtTheScan DEF CheckSize, Follows
  <2> QED
    BY <1>1, <2>1, RefusalKeeps
<1>3. CASE Len(disk.scans[scan.at]) = scan.size
  <2>1. reading' = "bytes" /\ UNCHANGED <<awaiting, scan, scanned, rows, disk, changes, program>>
    BY <1>3 DEF CheckSize, UnchangedFiles
  <2> QED
    BY <1>1, <2>1, AtTheScan, ScanningKeeps
<1> QED
  BY <1>2, <1>3

\* The next bytes of the file are taken.
LEMMA TakeKeeps ==
    ASSUME InspectionInv, reading = "bytes", NEW n \in Nat \ {0}, n <= Unread,
           Len(scan.content) + n <= MaxFrameBytes, Take(n),
           UNCHANGED <<reading, disk, changes, program, awaiting, scanned, rows>>
    PROVE  InspectionInv'
<1> DEFINE file == disk.scans[scan.at]
           l == Len(scan.content)
           c == SubSeq(file, l + 1, l + n)
<1>1. reading \in Scanning
  BY DEF Scanning
<1>2. ScanFits(scan) /\ file \in Seq(Byte) /\ Len(file) \in Nat /\ (changes = 0 => Follows(scan, file))
  BY <1>1, AtTheScan
<1>3. scan.content \in Seq(Byte) /\ l \in Nat
  BY <1>2, BlockLength
<1>4. n <= Len(file) - l /\ scan' = [scan EXCEPT !.content = @ \o c, !.block = @ \o c]
  BY DEF Unread, Take, Chunk
<1>5. l + n <= Len(file) /\ l + n <= MaxFrameBytes
  <2>1. Len(scan.content) + n <= MaxFrameBytes
    OBVIOUS
  <2> HIDE DEF file
  <2>2. n <= Len(file) - l /\ l \in Nat /\ Len(file) \in Nat
    BY <1>2, <1>3, <1>4
  <2>3. l + n <= MaxFrameBytes
    BY <2>1
  <2> HIDE DEF l
  <2>4. l + n <= Len(file)
    BY <2>2
  <2> QED
    BY <2>3, <2>4
<1>6. /\ SubSeq(file, 1, l) \o c = SubSeq(file, 1, l + n)
      /\ Len(c) = n /\ c \in Seq(Byte)
  <2> HIDE DEF file, l
  <2> QED
    BY <1>2, <1>3, <1>5, FrontGrows
<1>7. /\ scan'.content = scan.content \o c /\ scan'.at = scan.at /\ scan'.size = scan.size
  <2> HIDE DEF c
  <2> QED
    BY <1>2, <1>4 DEF ScanFits, ScanTyped
<1>8. ScanFits(scan') /\ Len(scan.content \o c) = l + n
  <2>1. Len(scan.content) + Len(c) <= MaxFrameBytes
    BY <1>5, <1>6
  <2> HIDE DEF c
  <2>2. ScanFits([scan EXCEPT !.content = @ \o c, !.block = @ \o c]) /\ Len(scan.content \o c) = Len(scan.content) + Len(c)
    BY <1>2, <1>6, <2>1, ChunkFits
  <2> QED
    BY <1>4, <1>6, <2>2
<1>9. changes = 0 => Follows(scan', file)
  <2>1. SUFFICES ASSUME changes = 0 PROVE Follows(scan', file)
    OBVIOUS
  <2>2. scan.size = Len(file) /\ scan.content = SubSeq(file, 1, l)
    BY <1>2, <2>1 DEF Follows
  <2>3. scan'.content = SubSeq(file, 1, l + n)
    BY <1>6, <1>7, <2>2
  <2>4. Len(scan'.content) = l + n
    BY <1>7, <1>8
  <2> HIDE DEF file, l
  <2> QED
    BY <1>5, <1>7, <2>2, <2>3, <2>4 DEF Follows
<1> HIDE DEF c
<1> QED
  BY <1>1, <1>7, <1>8, <1>9, ScanningKeeps

\* The lesser of two integers.
LEMMA LesserOf ==
    ASSUME NEW a \in Int, NEW b \in Int
    PROVE  Lesser(a, b) \in {a, b} /\ Lesser(a, b) \in Int /\ Lesser(a, b) <= a /\ Lesser(a, b) <= b
BY DEF Lesser

\* The adapter reads a chunk.
LEMMA ReadChunkKeeps ==
    ASSUME InspectionInv, ReadChunk
    PROVE  InspectionInv'
<1>1. reading = "bytes" /\ reading \in Scanning /\ UnchangedFiles
  BY DEF ReadChunk, Scanning
<1>2. PICK n \in 1..Lesser(ChunkBytes, Unread) :
         IF Len(scan.content) + n > MaxFrameBytes THEN RefuseSequence
         ELSE Take(n) /\ UNCHANGED <<reading, awaiting, scanned, rows>>
  BY DEF ReadChunk
<1>3. /\ ScanFits(scan) /\ Len(disk.scans[scan.at]) \in Nat
      /\ changes = 0 => Follows(scan, disk.scans[scan.at])
  BY <1>1, AtTheScan
<1>4. Len(scan.content) \in Nat /\ Unread \in Int /\ Unread = Len(disk.scans[scan.at]) - Len(scan.content)
  BY <1>3, BlockLength DEF Unread
<1>5. n \in Nat \ {0} /\ n <= Unread
  <2> DEFINE most == Lesser(ChunkBytes, Unread)
  <2>1. most \in Int /\ most <= Unread /\ Unread \in Int
    <3>1. ChunkBytes \in Int
      BY ReadingAssumption
    <3> QED
      BY <1>4, <3>1, LesserOf
  <2>2. n \in 1..most
    OBVIOUS
  <2> HIDE DEF most
  <2> QED
    BY <2>1, <2>2
<1>6. CASE Len(scan.content) + n > MaxFrameBytes
  <2>1. RefuseSequence
    BY <1>2, <1>6
  <2>2. changes # 0
    <3>1. SUFFICES ASSUME changes = 0 PROVE FALSE
      OBVIOUS
    <3> DEFINE z == Len(disk.scans[scan.at])
               l == Len(scan.content)
    <3>2. scan.size = z /\ scan.size <= MaxFrameBytes
      BY <1>3, <3>1 DEF Follows, ScanFits
    <3>3. n <= z - l /\ l + n > MaxFrameBytes /\ z <= MaxFrameBytes
      BY <1>4, <1>5, <1>6, <3>2
    <3>4. z \in Nat /\ l \in Nat /\ MaxFrameBytes \in Nat
      BY <1>3, <1>4, ReadingAssumption
    <3> HIDE DEF z, l
    <3> QED
      BY <1>5, <3>3, <3>4
  <2> QED
    BY <1>1, <2>1, <2>2, RefusalKeeps
<1>7. CASE ~(Len(scan.content) + n > MaxFrameBytes)
  <2>1. Take(n) /\ UNCHANGED <<reading, awaiting, scanned, rows, disk, changes, program>>
    BY <1>1, <1>2, <1>7 DEF UnchangedFiles
  <2>2. Len(scan.content) + n <= MaxFrameBytes
    BY <1>4, <1>5, <1>7, ReadingAssumption
  <2> QED
    BY <1>1, <1>5, <2>1, <2>2, TakeKeeps
<1> QED
  BY <1>6, <1>7

\* Without a remainder a number is a multiple.
LEMMA NoRemainder ==
    ASSUME NEW n \in Nat, NEW d \in Nat \ {0}, (n % d) = 0
    PROVE  n \div d \in Nat /\ n = d * (n \div d)
<1> DEFINE q == n \div d
           r == n % d
<1>1. q \in Nat /\ n = d * q + r /\ r = 0
  BY Divides
<1> HIDE DEF q, r
<1>2. n = d * q
  BY <1>1
<1> QED
  BY <1>1, <1>2 DEF q

\* A part of whole records, cut where another whole record ends, is whole.
LEMMA WholeRecords ==
    ASSUME NEW r \in Nat \ {0}, NEW n \in Nat, NEW size \in Nat, NEW c \in Nat, (size % r) = 0,
           (n % r) = 0, n \div r <= (size \div r) - c
    PROVE  r * c + n <= size
<1> DEFINE a == n \div r
           q == size \div r
<1>1. a \in Nat /\ n = r * a + (n % r) /\ q \in Nat /\ size = r * q + (size % r)
  BY Divides
<1>2. a <= q - c
  OBVIOUS
<1> HIDE DEF a, q
<1>3. n = r * a /\ size = r * q
  BY <1>1
<1>4. c + a \in Nat /\ c + a <= q
  BY <1>1, <1>2
<1>5. r * (c + a) <= r * q
  BY <1>1, <1>4, ProductsGrow
<1>6. r * (c + a) = r * c + r * a
  BY <1>1
<1> QED
  BY <1>3, <1>5, <1>6

\* What is left behind whole records of a whole scan is whole, and so is a
\* buffer of it.
LEMMA WholeRest ==
    ASSUME NEW r \in Nat \ {0}, NEW size \in Nat, NEW c \in Nat, (size % r) = 0, r * c <= size
    PROVE  /\ size - r * c \in Nat /\ ((size - r * c) % r) = 0
           /\ (size - r * c) \div r = (size \div r) - c /\ (size \div r) - c \in Nat
<1> DEFINE q == size \div r
<1>1. q \in Nat /\ size = r * q + (size % r)
  BY Divides
<1> HIDE DEF q
<1>2. size = r * q
  BY <1>1
<1>3. c <= q
  <2>1. SUFFICES ASSUME q < c PROVE FALSE
    BY <1>1
  <2>2. q + 1 <= c /\ q + 1 \in Nat
    BY <1>1, <2>1
  <2>3. r * (q + 1) <= r * c
    BY <2>2, ProductsGrow
  <2>4. r * (q + 1) = r * q + r
    BY <1>1
  <2> QED
    BY <1>2, <2>3, <2>4
<1>4. q - c \in Nat /\ size - r * c = r * (q - c)
  BY <1>1, <1>2, <1>3
<1>5. (r * (q - c)) \div r = q - c /\ ((r * (q - c)) % r) = 0 /\ r * (q - c) \in Nat
  <2> DEFINE d == q - c
  <2>1. d \in Nat
    BY <1>4
  <2> HIDE DEF d
  <2>2. (r * d) \div r = d /\ ((r * d) % r) = 0 /\ r * d \in Nat
    BY <2>1, MultiplesDivide
  <2> QED
    BY <2>2 DEF d
<1>6. size - r * c \in Nat /\ ((size - r * c) % r) = 0 /\ (size - r * c) \div r = q - c
  BY <1>4, <1>5
<1> QED
  BY <1>4, <1>6 DEF q

\* The inspector fills its buffer.
LEMMA FillBufferKeeps ==
    ASSUME InspectionInv, FillBuffer
    PROVE  InspectionInv'
<1> DEFINE n == Lesser(ChunkBytes, Unread)
           c == scan.summary.count
           p == RecordBytes * c
           size == scan.size
           bad == (n % RecordBytes) # 0 \/ n \div RecordBytes > (size \div RecordBytes) - c
<1>1. /\ reading = "bytes" /\ reading \in Scanning /\ UnchangedFiles /\ scan.block = <<>> /\ Unread > 0
      /\ IF bad THEN RefuseSequence ELSE Take(n) /\ UNCHANGED <<reading, awaiting, scanned, rows>>
  BY DEF FillBuffer, Scanning
<1>2. /\ ScanFits(scan) /\ Len(disk.scans[scan.at]) \in Nat
      /\ changes = 0 => Follows(scan, disk.scans[scan.at])
  BY <1>1, AtTheScan
<1>3. /\ c \in Nat /\ p \in Nat /\ RecordBytes \in Nat \ {0} /\ Len(scan.content) = p
      /\ size \in Nat \ {0} /\ size <= MaxFrameBytes /\ (size % RecordBytes) = 0 /\ MaxFrameBytes \in Nat
  <2>1. /\ c \in Nat /\ p \in Nat /\ RecordBytes \in Nat \ {0} /\ Len(scan.content) \in Nat
        /\ Len(scan.block) = Len(scan.content) - p
    BY <1>2, BlockLength
  <2>2. Len(scan.block) = 0
    BY <1>1
  <2> HIDE DEF p
  <2>3. Len(scan.content) = p
    BY <2>1, <2>2
  <2>4. size \in Nat \ {0} /\ size <= MaxFrameBytes /\ (size % RecordBytes) = 0
    BY <1>2 DEF ScanFits, ScanTyped
  <2> QED
    BY <2>1, <2>3, <2>4, ReadingAssumption
<1>4. Unread = Len(disk.scans[scan.at]) - p /\ Unread \in Nat \ {0}
  <2> DEFINE z == Len(disk.scans[scan.at])
  <2>1. Unread = z - p /\ z \in Nat /\ p \in Nat /\ Unread > 0
    BY <1>1, <1>2, <1>3 DEF Unread
  <2> HIDE DEF z, p
  <2>2. Unread \in Nat \ {0}
    BY <2>1
  <2> QED
    BY <2>1, <2>2 DEF z
<1>5. n \in Nat \ {0} /\ n <= Unread /\ n \in {ChunkBytes, Unread}
  <2>1. ChunkBytes \in Int /\ Unread \in Int /\ ChunkBytes \in Nat \ {0}
    BY <1>4, ReadingAssumption
  <2>2. n \in {ChunkBytes, Unread} /\ n <= Unread
    BY <2>1, LesserOf
  <2> HIDE DEF n
  <2> QED
    BY <1>4, <2>1, <2>2
<1>6. CASE bad
  <2>1. RefuseSequence
    BY <1>1, <1>6
  <2>2. changes # 0
    <3>1. SUFFICES ASSUME changes = 0 PROVE FALSE
      OBVIOUS
    <3>2. size = Len(disk.scans[scan.at]) /\ Len(scan.content) <= size
      BY <1>2, <3>1 DEF Follows
    <3>3. Unread = size - p /\ p <= size
      BY <1>3, <1>4, <3>2
    <3> HIDE DEF n, size, c, bad
    <3>4. /\ (Unread % RecordBytes) = 0 /\ Unread \div RecordBytes = (size \div RecordBytes) - c
      BY <1>3, <3>3, WholeRest
    <3>5. (n % RecordBytes) = 0
      BY <1>5, <3>4, ReadingAssumption
    <3>6. n \div RecordBytes <= Unread \div RecordBytes
      <4> DEFINE a == n \div RecordBytes
                 b == Unread \div RecordBytes
      <4>1. a \in Nat /\ b \in Nat /\ n = RecordBytes * a /\ Unread = RecordBytes * b
        BY <1>3, <1>4, <1>5, <3>4, <3>5, NoRemainder
      <4> HIDE DEF a, b
      <4>2. RecordBytes * a <= RecordBytes * b
        BY <1>5, <4>1
      <4>3. ~(b < a)
        <5>1. SUFFICES ASSUME b + 1 <= a PROVE FALSE
          BY <4>1
        <5>2. RecordBytes * (b + 1) <= RecordBytes * a
          BY <1>3, <4>1, <5>1, ProductsGrow
        <5>3. RecordBytes * (b + 1) = RecordBytes * b + RecordBytes /\ RecordBytes * b \in Nat /\ RecordBytes * a \in Nat
          BY <1>3, <4>1
        <5> QED
          BY <1>3, <4>2, <5>2, <5>3
      <4>4. a <= b
        BY <4>1, <4>3
      <4> QED
        BY <4>4 DEF a, b
    <3>7. ~(n \div RecordBytes > (size \div RecordBytes) - c)
      <4> DEFINE a == n \div RecordBytes
                 b == Unread \div RecordBytes
      <4>1. a \in Nat /\ b \in Nat
        BY <1>3, <1>4, <1>5, Divides
      <4>2. a <= b /\ b = (size \div RecordBytes) - c
        BY <3>4, <3>6
      <4> HIDE DEF a, b
      <4>3. ~(a > b)
        BY <4>1, <4>2
      <4> QED
        BY <4>2, <4>3 DEF a
    <3> QED
      BY <1>6, <3>5, <3>7 DEF bad
  <2> HIDE DEF bad
  <2> QED
    BY <1>1, <2>1, <2>2, RefusalKeeps
<1>7. CASE ~bad
  <2>1. Take(n) /\ UNCHANGED <<reading, awaiting, scanned, rows, disk, changes, program>>
    BY <1>1, <1>7 DEF UnchangedFiles
  <2>2. (n % RecordBytes) = 0 /\ n \div RecordBytes <= (size \div RecordBytes) - c
    <3> DEFINE a == n \div RecordBytes
               q == size \div RecordBytes
    <3>1. a \in Nat /\ q \in Nat
      BY <1>3, <1>5, Divides
    <3>2. (n % RecordBytes) = 0 /\ ~(a > q - c)
      BY <1>7
    <3> HIDE DEF a, q, n, c
    <3>3. a <= q - c
      BY <1>3, <3>1, <3>2
    <3> QED
      BY <3>2, <3>3 DEF a, q
  <2> HIDE DEF n, size, c, bad
  <2>3. RecordBytes * c + n <= size
    BY <1>3, <1>5, <2>2, WholeRecords
  <2> HIDE DEF p
  <2>4. p + n <= size
    BY <2>3 DEF p
  <2>5. Len(scan.content) + n <= MaxFrameBytes
    BY <1>3, <1>5, <2>4
  <2> QED
    BY <1>1, <1>5, <2>1, <2>5, TakeKeeps
<1> QED
  BY <1>6, <1>7

\* A record is decoded.
LEMMA ConsumeKeeps ==
    ASSUME InspectionInv, ConsumeRecord
    PROVE  InspectionInv'
<1> DEFINE n == scan.summary.count + 1
           m == scan.at
           file == disk.scans[scan.at]
           time == PointTime(scan.at, SubSeq(scan.block, 1, RecordBytes))
<1>1. /\ reading = "bytes" /\ reading \in Scanning /\ UnchangedFiles /\ Len(scan.block) >= RecordBytes
      /\ IF time = Refused THEN RefuseSequence
         ELSE /\ scan' = [scan EXCEPT !.block = SubSeq(@, RecordBytes + 1, Len(@)), !.summary = WithPoint(@, time)]
              /\ UNCHANGED <<reading, awaiting, scanned, rows>>
  BY DEF ConsumeRecord, Scanning
<1>2. /\ ScanFits(scan) /\ m \in Nat /\ file \in Seq(Byte) /\ Len(file) \in Nat /\ m \in DOMAIN disk.scans
      /\ changes = 0 => Follows(scan, file)
      /\ m * Microsecond \in Int64
  BY <1>1, AtTheScan
<1>3. /\ n \in Nat \ {0} /\ RecordBytes * n <= Len(scan.content)
      /\ SubSeq(scan.block, 1, RecordBytes) = Record(scan.content, n)
  BY <1>1, <1>2, NextRecord
<1>4. IF Decodes(m, scan.content, n)
      THEN time = TimeOf(m, scan.content, n) /\ time # Refused
      ELSE time = Refused
  BY <1>2, <1>3, PointTimeIs
<1>5. CASE time = Refused
  <2>1. RefuseSequence
    BY <1>1, <1>5
  <2>2. changes = 0 => Blame
    <3>1. SUFFICES ASSUME changes = 0 PROVE ~IsScan(m, file)
      BY <1>2 DEF Blame
    <3> DEFINE l == Len(scan.content)
    <3>2. scan.size = Len(file) /\ l <= Len(file) /\ scan.content = SubSeq(file, 1, l) /\ l \in Nat /\ RecordBytes \in Nat \ {0}
      BY <1>2, <3>1, BlockLength DEF Follows
    <3>3. /\ RecordBytes * (n - 1) + 1 \in Nat \ {0} /\ RecordBytes * n \in Nat
      BY <1>3, <3>2, RecordPlaces
    <3>4. Record(scan.content, n) = Record(file, n)
      <4>1. RecordBytes * n \in 0..l /\ l \in 0..Len(file)
        <5> DEFINE e == RecordBytes * n
        <5>1. e \in Nat /\ e <= l
          BY <1>3, <3>3
        <5> HIDE DEF e, l, file
        <5>2. e \in 0..l /\ l \in 0..Len(file)
          BY <1>2, <3>2, <5>1
        <5> QED
          BY <5>2 DEF e
      <4> HIDE DEF l, file, n
      <4>2. SubSeq(SubSeq(file, 1, l), RecordBytes * (n - 1) + 1, RecordBytes * n) = SubSeq(file, RecordBytes * (n - 1) + 1, RecordBytes * n)
        BY <1>2, <3>3, <4>1, PartOfFront
      <4> QED
        BY <3>2, <4>2 DEF Record
    <3>5. n \in 1..(Len(file) \div RecordBytes)
      <4> DEFINE z == Len(file)
                 q == z \div RecordBytes
      <4>1. z \in Nat /\ (z % RecordBytes) = 0
        BY <1>2, <3>2 DEF ScanFits
      <4> HIDE DEF z
      <4>2. q \in Nat /\ z = RecordBytes * q
        BY <3>2, <4>1, NoRemainder
      <4>3. RecordBytes * n <= z
        <5> HIDE DEF n, l
        <5> QED
          BY <1>3, <3>2, <3>3, <4>1 DEF l, z
      <4> HIDE DEF q, n
      <4>4. z = RecordBytes * q
        BY <4>2
      <4>5. ~(q < n)
        <5>1. SUFFICES ASSUME q + 1 <= n PROVE FALSE
          BY <1>3, <4>2
        <5>2. RecordBytes * (q + 1) <= RecordBytes * n
          BY <1>3, <3>2, <4>2, <5>1, ProductsGrow
        <5>3. RecordBytes * (q + 1) = RecordBytes * q + RecordBytes /\ RecordBytes * q \in Nat
          BY <3>2, <4>2
        <5> QED
          BY <3>2, <3>3, <4>1, <4>3, <4>4, <5>2, <5>3
      <4>6. n \in 1..q
        BY <1>3, <4>2, <4>5
      <4> QED
        BY <4>6 DEF q, z
    <3>6. ~Decodes(m, scan.content, n)
      BY <1>4, <1>5
    <3>7. ~Decodes(m, file, n)
      BY <3>4, <3>6 DEF Decodes, TimeOf
    <3> HIDE DEF n, file, m
    <3> QED
      BY <3>5, <3>7 DEF IsScan, Decodes
  <2> QED
    BY <1>1, <2>1, <2>2, RefusalKeeps
<1>6. CASE time # Refused
  <2>1. /\ scan' = [scan EXCEPT !.block = SubSeq(@, RecordBytes + 1, Len(@)), !.summary = WithPoint(@, time)]
        /\ UNCHANGED <<reading, awaiting, scanned, rows, disk, changes, program>>
    BY <1>1, <1>6 DEF UnchangedFiles
  <2>2. Decodes(m, scan.content, n) /\ time = TimeOf(m, scan.content, n)
    BY <1>4, <1>6
  <2>3. ScanFits(scan')
    <3>1. ScanFits([scan EXCEPT !.block = SubSeq(@, RecordBytes + 1, Len(@)),
                                !.summary = WithPoint(@, TimeOf(scan.at, scan.content, scan.summary.count + 1))])
      BY <1>1, <1>2, <2>2, RecordFits
    <3> QED
      BY <2>1, <2>2, <3>1
  <2>4. scan'.at = scan.at /\ scan'.size = scan.size /\ scan'.content = scan.content
    BY <1>2, <2>1 DEF ScanFits, ScanTyped
  <2>5. changes = 0 => Follows(scan', file)
    BY <1>2, <2>4 DEF Follows
  <2>6. reading' = "bytes"
    BY <1>1, <2>1
  <2> HIDE DEF time
  <2> QED
    BY <1>1, <2>1, <2>3, <2>4, <2>5, <2>6, ScanningKeeps
<1> QED
  BY <1>5, <1>6

\* The end of a scan.
LEMMA EndScanKeeps ==
    ASSUME InspectionInv, EndScan
    PROVE  InspectionInv'
<1> DEFINE file == disk.scans[scan.at]
           bad == scan.block # <<>> \/ scan.summary.count # scan.size \div RecordBytes
           entry == [content |-> scan.content, summary |-> scan.summary]
<1>1. /\ reading = "bytes" /\ reading \in Scanning /\ UnchangedFiles
      /\ Unread <= 0 /\ Len(scan.block) < RecordBytes
      /\ IF bad THEN RefuseSequence
         ELSE /\ scanned' = [m \in DOMAIN scanned \cup {scan.at} |-> IF m = scan.at THEN entry ELSE scanned[m]]
              /\ reading' = IF awaiting # {} THEN "frames" ELSE IF program = "adapter" THEN "accepted" ELSE "gps"
              /\ UNCHANGED <<awaiting, scan, rows>>
  BY DEF EndScan, Scanning
<1>2. /\ ScanFits(scan) /\ file \in Seq(Byte) /\ Len(file) \in Nat /\ scan.at \in DOMAIN disk.scans
      /\ changes = 0 => Follows(scan, file)
  BY <1>1, AtTheScan
<1>3. CASE bad
  <2>1. RefuseSequence
    BY <1>1, <1>3
  <2>2. changes # 0
    <3>1. SUFFICES ASSUME changes = 0 PROVE FALSE
      OBVIOUS
    <3> DEFINE c == scan.summary.count
               p == RecordBytes * c
               l == Len(scan.content)
               size == scan.size
    <3>2. /\ c \in Nat /\ p \in Nat /\ RecordBytes \in Nat \ {0} /\ l \in Nat /\ p <= l
          /\ Len(scan.block) = l - p /\ scan.block \in Seq(Byte)
      BY <1>2, BlockLength
    <3>3. size = Len(file) /\ l <= Len(file) /\ size \in Nat /\ (size % RecordBytes) = 0
      BY <1>2, <3>1 DEF Follows, ScanFits, ScanTyped
    <3>4. l = size
      <4>1. Len(file) - l <= 0
        BY <1>1 DEF Unread
      <4> HIDE DEF file, l, size
      <4> QED
        BY <1>2, <3>2, <3>3, <4>1
    <3>5. p <= size
      BY <3>2, <3>4
    <3>6. ((size - p) % RecordBytes) = 0 /\ (size - p) \div RecordBytes = (size \div RecordBytes) - c /\ size - p \in Nat
          /\ (size \div RecordBytes) - c \in Nat
      <4> HIDE DEF size, c
      <4> QED
        BY <3>2, <3>3, <3>5, WholeRest
    <3> DEFINE d == size - p
    <3>7. d = Len(scan.block) /\ d < RecordBytes
      BY <1>1, <3>2, <3>4
    <3>8. d = RecordBytes * (d \div RecordBytes) /\ d \div RecordBytes \in Nat
      <4>1. d \in Nat /\ (d % RecordBytes) = 0
        BY <3>6
      <4> HIDE DEF d
      <4> QED
        BY <3>2, <4>1, NoRemainder
    <3>9. d \div RecordBytes = 0 /\ d = 0
      <4> DEFINE a == d \div RecordBytes
      <4>1. a \in Nat /\ d = RecordBytes * a
        BY <3>8
      <4> HIDE DEF a, d
      <4>2. a # 0 => RecordBytes * 1 <= RecordBytes * a
        BY <3>2, <4>1, ProductsGrow
      <4>3. a = 0
        <5>1. SUFFICES ASSUME a # 0 PROVE FALSE
          OBVIOUS
        <5>2. RecordBytes * 1 = RecordBytes /\ RecordBytes * 1 <= d
          BY <3>2, <4>1, <4>2, <5>1
        <5>3. d \in Int /\ d < RecordBytes /\ RecordBytes \in Int
          BY <3>2, <3>6, <3>7 DEF d
        <5> QED
          BY <5>2, <5>3
      <4>4. d = 0
        BY <3>2, <4>1, <4>3
      <4> QED
        BY <4>3, <4>4 DEF a
    <3>10. scan.block = <<>>
      <4> HIDE DEF d
      <4> QED
        BY <3>2, <3>7, <3>9
    <3>11. c = size \div RecordBytes
      <4> DEFINE q == size \div RecordBytes
      <4>1. q - c = 0 /\ q \in Nat
        BY <3>2, <3>3, <3>6, <3>9, Divides
      <4> HIDE DEF q, c
      <4>2. c = q
        BY <3>2, <4>1
      <4> QED
        BY <4>2 DEF q
    <3> QED
      BY <1>3, <3>10, <3>11
  <2> QED
    BY <1>1, <2>1, <2>2, RefusalKeeps
<1>4. CASE ~bad
  <2>1. /\ scanned' = [m \in DOMAIN scanned \cup {scan.at} |-> IF m = scan.at THEN entry ELSE scanned[m]]
        /\ reading' = (IF awaiting # {} THEN "frames" ELSE IF program = "adapter" THEN "accepted" ELSE "gps")
        /\ UNCHANGED <<awaiting, scan, rows, disk, changes, program>>
    BY <1>1, <1>4 DEF UnchangedFiles
  <2>2. SummaryFits(entry, scan.at)
    BY <1>2, <1>4, EndedScanFits
  <2>3. ReadingTyped' /\ reading' # "refused"
    BY <1>1, <2>1 DEF InspectionInv, ReadingTyped, Listed, Opening, Scanning
  <2>4. ScanInv'
    BY <2>1 DEF ScanInv, Scanning
  <2>5. ScannedInv'
    <3>1. DOMAIN scanned' = DOMAIN scanned \cup {scan.at}
      BY <2>1
    <3>2. ASSUME NEW m \in DOMAIN scanned' PROVE SummaryFits(scanned'[m], m)
      <4> HIDE DEF entry
      <4>1. CASE m = scan.at
        BY <2>1, <2>2, <3>1, <4>1
      <4>2. CASE m # scan.at
        BY <2>1, <3>1, <3>2, <4>2 DEF InspectionInv, ScannedInv
      <4> QED
        BY <4>1, <4>2
    <3>3. AtHand' = {} /\ AtHand = {scan.at}
      BY <1>1, <2>1 DEF AtHand, Scanning
    <3>4. AtHand \cup awaiting \cup DOMAIN scanned = DOMAIN disk.scans
      BY <1>1 DEF InspectionInv, ScannedInv, Listed, Opening
    <3>5. AtHand' \cup awaiting' \cup DOMAIN scanned' = DOMAIN disk'.scans
      BY <2>1, <3>1, <3>3, <3>4
    <3>6. reading' \notin {"idle", "directory", "views"} /\ (reading' \in Counting => awaiting' = {})
      BY <2>1 DEF Counting
    <3> QED
      BY <3>2, <3>5, <3>6 DEF ScannedInv
  <2>6. RowsInv'
    <3>1. rows' = NoRows
      BY <1>1, <2>1 DEF InspectionInv, RowsInv
    <3>2. FilesFit(disk)
      BY <1>1 DEF InspectionInv, ReadingTyped
    <3>3. GpsTimes' = GpsTimes /\ GpsTimes \in Seq(Int)
      BY <2>1, <3>2, TimesAreIntegers DEF GpsTimes
    <3>4. GpsMatches' \subseteq 1..Len(GpsTimes)
      <4>1. GpsMatches' \subseteq DOMAIN GpsTimes
        BY <3>3 DEF GpsMatches
      <4> QED
        BY <3>3, <4>1
    <3>5. RowsFit(rows', GpsTimes', GpsMatches')
      BY <3>1, <3>3, <3>4, NoRowsFit
    <3>6. reading' \in {"frames", "accepted", "gps"} /\ (reading' = "accepted" => program' = "adapter")
          /\ (reading' = "gps" => program' = "inspector")
      BY <2>1 DEF InspectionInv, ReadingTyped
    <3> QED
      BY <3>1, <3>5, <3>6 DEF RowsInv, Scanning
  <2> QED
    BY <2>3, <2>4, <2>5, <2>6 DEF InspectionInv
<1> QED
  BY <1>3, <1>4

\* Steps among the rows leave the scans alone.
LEMMA CountingKeeps ==
    ASSUME InspectionInv, reading \in Counting, reading' \in Counting, UnchangedFiles,
           UNCHANGED <<awaiting, scan, scanned>>, RowsInv'
    PROVE  InspectionInv'
<1>1. UNCHANGED <<disk, changes, program>>
  BY DEF UnchangedFiles
<1>2. ReadingTyped' /\ reading' # "refused"
  BY <1>1 DEF InspectionInv, ReadingTyped, Counting, Listed, Opening
<1>3. ScanInv'
  BY DEF ScanInv, Scanning, Counting
<1>4. AtHand = {} /\ AtHand' = {} /\ reading \in Listed
  BY DEF AtHand, Scanning, Counting, Listed, Opening
<1>5. ScannedInv'
  BY <1>1, <1>4 DEF InspectionInv, ScannedInv, Counting
<1> QED
  BY <1>2, <1>3, <1>5 DEF InspectionInv

\* A row of either kind, whose times they are and what matches given.
LEMMA RowStep ==
    ASSUME NEW times, NEW matches, RowsFit(rows, times, matches), rows.count < Len(times),
           NEW time, time = Representable(times[rows.count + 1]),
           NEW matching \in BOOLEAN, time \in Int64 => (matching <=> rows.count + 1 \in matches),
           Row(time, matching)
    PROVE  \/ RefuseSequence /\ ~TimesInOrder(times)
           \/ UNCHANGED <<reading, awaiting, scan, scanned>> /\ RowsFit(rows', times, matches)
<1> DEFINE n == rows.count + 1
           t == times[n]
<1>1. rows.count \in Nat /\ n \in Nat \ {0} /\ times \in Seq(Int) /\ n <= Len(times) /\ t \in Int
  <2>1. rows.count \in Nat /\ times \in Seq(Int) /\ Len(times) \in Nat
    BY DEF RowsFit
  <2>2. n \in 1..Len(times)
    BY <2>1
  <2> QED
    BY <2>1, <2>2
<1>2. rows.previous \in Int
  <2>1. CASE rows.count = 0
    BY <2>1, LimitsAreIntegers DEF RowsFit
  <2>2. CASE rows.count # 0
    <3>1. rows.count \in 1..rows.count
      BY <1>1, <2>2
    <3> QED
      BY <2>2, <3>1, LimitsAreIntegers DEF RowsFit
  <2> QED
    BY <2>1, <2>2
<1>3. Refused \notin Int64
  BY LimitsAreIntegers
<1>4. CASE t \notin Int64
  <2>1. time = Refused
    BY <1>4 DEF Representable
  <2> QED
    BY <1>4, <2>1, RefusedRow DEF Row
<1>5. CASE t \in Int64 /\ t < rows.previous
  <2>1. time = t
    BY <1>5 DEF Representable
  <2> QED
    BY <1>5, <2>1, RefusedRow DEF Row
<1>6. CASE t \in Int64 /\ ~(t < rows.previous)
  <2>1. time = t /\ time # Refused
    BY <1>3, <1>6 DEF Representable
  <2>2. t >= rows.previous
    BY <1>1, <1>2, <1>6
  <2>3. /\ rows' = [count |-> n, previous |-> t, matches |-> rows.matches + (IF matching THEN 1 ELSE 0)]
        /\ UNCHANGED <<reading, awaiting, scan, scanned>>
    BY <1>6, <2>1 DEF Row
  <2>4. rows' = [count |-> n, previous |-> t, matches |-> rows.matches + (IF n \in matches THEN 1 ELSE 0)]
    <3>1. matching <=> n \in matches
      BY <1>6, <2>1
    <3> QED
      BY <2>3, <3>1
  <2>5. RowsFit([count |-> rows.count + 1, previous |-> times[rows.count + 1],
                 matches |-> rows.matches + (IF rows.count + 1 \in matches THEN 1 ELSE 0)], times, matches)
    BY <1>6, <2>2, RowFits
  <2> QED
    BY <2>3, <2>4, <2>5
<1> QED
  BY <1>4, <1>5, <1>6

\* A row of the trajectory.
LEMMA GpsRowKeeps ==
    ASSUME InspectionInv, ReadGpsRow
    PROVE  InspectionInv'
<1> DEFINE n == rows.count + 1
           time == FromDecimalSeconds(disk.gps[n])
           matching == time # Refused /\ OverlapsScans(time)
<1>1. reading = "gps" /\ rows.count < Len(disk.gps) /\ Row(time, matching) /\ UnchangedFiles
  BY DEF ReadGpsRow
<1>2. FilesFit(disk) /\ RowsFit(rows, GpsTimes, GpsMatches) /\ program = "inspector" /\ reading \in Counting
  BY <1>1 DEF InspectionInv, ReadingTyped, RowsInv, Counting
<1>3. /\ Len(GpsTimes) = Len(disk.gps) /\ Len(GpsTimes) \in Nat /\ DOMAIN GpsTimes = 1..Len(GpsTimes)
      /\ \A i \in 1..Len(disk.gps) : FromDecimalSeconds(disk.gps[i]) = Representable(GpsTimes[i])
  BY <1>2, TimesAreIntegers
<1>4. n \in 1..Len(disk.gps) /\ n \in DOMAIN GpsTimes
  BY <1>1, <1>2, <1>3 DEF RowsFit
<1>5. time = Representable(GpsTimes[n])
  BY <1>3, <1>4
<1>6. time \in Int64 => (matching <=> n \in GpsMatches)
  <2>1. SUFFICES ASSUME time \in Int64 PROVE matching <=> n \in GpsMatches
    OBVIOUS
  <2>2. time = GpsTimes[n] /\ time # Refused
    BY <1>5, <2>1, LimitsAreIntegers DEF Representable
  <2> HIDE DEF time
  <2> QED
    BY <1>4, <2>2 DEF GpsMatches
<1>7. \/ RefuseSequence /\ ~TimesInOrder(GpsTimes)
      \/ UNCHANGED <<reading, awaiting, scan, scanned>> /\ RowsFit(rows', GpsTimes, GpsMatches)
  <2>1. rows.count < Len(GpsTimes) /\ matching \in BOOLEAN
    BY <1>1, <1>3
  <2> HIDE DEF time, matching
  <2> QED
    BY <1>1, <1>2, <1>5, <1>6, <2>1, RowStep
<1>8. CASE RefuseSequence /\ ~TimesInOrder(GpsTimes)
  <2>1. Blame
    BY <1>2, <1>8 DEF Blame
  <2> QED
    BY <1>1, <1>8, <2>1, RefusalKeeps
<1>9. CASE UNCHANGED <<reading, awaiting, scan, scanned>> /\ RowsFit(rows', GpsTimes, GpsMatches)
  <2>1. UNCHANGED <<disk, changes, program>>
    BY <1>1 DEF UnchangedFiles
  <2>2. GpsTimes' = GpsTimes /\ GpsMatches' = GpsMatches
    BY <1>9, <2>1, SameRows
  <2>3. RowsInv'
    BY <1>1, <1>2, <1>9, <2>1, <2>2 DEF RowsInv, Scanning
  <2> QED
    BY <1>1, <1>2, <1>9, <2>3, CountingKeeps
<1> QED
  BY <1>7, <1>8, <1>9

\* The end of the trajectory.
LEMMA EndGpsKeeps ==
    ASSUME InspectionInv, EndGps
    PROVE  InspectionInv'
<1>1. /\ reading = "gps" /\ rows.count >= Len(disk.gps) /\ UnchangedFiles
      /\ IF rows.count = 0 \/ rows.matches = 0 THEN RefuseSequence
         ELSE reading' = "poses" /\ rows' = NoRows /\ UNCHANGED <<awaiting, scan, scanned>>
  BY DEF EndGps
<1>2. FilesFit(disk) /\ RowsFit(rows, GpsTimes, GpsMatches) /\ program = "inspector" /\ reading \in Counting
  BY <1>1 DEF InspectionInv, ReadingTyped, RowsInv, Counting
<1>3. Len(GpsTimes) = Len(disk.gps) /\ PoseTimes \in Seq(Int) /\ PoseMatches \subseteq 1..Len(PoseTimes)
  BY <1>2, TimesAreIntegers
<1>4. /\ rows.count # 0 => TimesInOrder(GpsTimes)
      /\ rows.count = 0 => ~TimesInOrder(GpsTimes)
      /\ rows.matches = 0 => GpsMatches = {}
      /\ rows.matches = Cardinality(GpsMatches)
  BY <1>1, <1>2, <1>3, AllRowsFit
<1>5. CASE rows.count = 0 \/ rows.matches = 0
  <2>1. RefuseSequence
    BY <1>1, <1>5
  <2>2. rows.matches = 0 => \A i \in DOMAIN GpsTimes : ~OverlapsScans(GpsTimes[i])
    BY <1>4 DEF GpsMatches
  <2>3. Blame
    BY <1>2, <1>4, <1>5, <2>2 DEF Blame
  <2> QED
    BY <1>1, <2>1, <2>3, RefusalKeeps
<1>6. CASE ~(rows.count = 0 \/ rows.matches = 0)
  <2>1. /\ reading' = "poses" /\ rows' = NoRows /\ UNCHANGED <<awaiting, scan, scanned>>
        /\ UNCHANGED <<disk, changes, program>>
    BY <1>1, <1>6 DEF UnchangedFiles
  <2>2. GpsTimes' = GpsTimes /\ GpsMatches' = GpsMatches /\ PoseTimes' = PoseTimes /\ PoseMatches' = PoseMatches
    BY <2>1, SameRows
  <2>3. GpsMatches # {}
    <3>1. GpsMatches = {} => Cardinality(GpsMatches) = 0
      BY FS_EmptySet
    <3> QED
      BY <1>4, <1>6, <3>1
  <2>4. RowsFit(rows', PoseTimes, PoseMatches)
    BY <1>3, <2>1, NoRowsFit
  <2>5. RowsInv'
    BY <1>2, <1>4, <1>6, <2>1, <2>2, <2>3, <2>4 DEF RowsInv, Scanning
  <2>6. reading' \in Counting
    BY <2>1 DEF Counting
  <2> QED
    BY <1>1, <1>2, <2>1, <2>5, <2>6, CountingKeeps
<1> QED
  BY <1>5, <1>6

\* A row of the poses.
LEMMA PoseRowKeeps ==
    ASSUME InspectionInv, ReadPoseRow
    PROVE  InspectionInv'
<1> DEFINE n == rows.count + 1
           time == FromMicroseconds(disk.poses[n])
           matching == \E m \in DOMAIN scanned : time = FromMicroseconds(m)
<1>1. reading = "poses" /\ rows.count < Len(disk.poses) /\ Row(time, matching) /\ UnchangedFiles
  BY DEF ReadPoseRow
<1>2. /\ FilesFit(disk) /\ RowsFit(rows, PoseTimes, PoseMatches) /\ program = "inspector" /\ reading \in Counting
      /\ TimesInOrder(GpsTimes) /\ GpsMatches # {}
  BY <1>1 DEF InspectionInv, ReadingTyped, RowsInv, Counting
<1>3. /\ Len(PoseTimes) = Len(disk.poses) /\ Len(PoseTimes) \in Nat /\ DOMAIN PoseTimes = 1..Len(PoseTimes)
      /\ \A i \in 1..Len(disk.poses) : FromMicroseconds(disk.poses[i]) = Representable(PoseTimes[i])
  BY <1>2, TimesAreIntegers
<1>4. n \in 1..Len(disk.poses) /\ n \in DOMAIN PoseTimes
  BY <1>1, <1>2, <1>3 DEF RowsFit
<1>5. time = Representable(PoseTimes[n])
  BY <1>3, <1>4
<1>6. time \in Int64 => (matching <=> n \in PoseMatches)
  <2>1. SUFFICES ASSUME time \in Int64 PROVE matching <=> n \in PoseMatches
    OBVIOUS
  <2>2. time = PoseTimes[n] /\ time # Refused
    BY <1>5, <2>1, LimitsAreIntegers DEF Representable
  <2>3. DOMAIN scanned \subseteq Nat
    BY <1>1, <1>2 DEF InspectionInv, ScannedInv, FilesFit, Listed, Opening
  <2>4. \A m \in DOMAIN scanned : FromMicroseconds(m) = Representable(m * Microsecond)
    BY <2>3, MicrosecondsAreExact
  <2> HIDE DEF time
  <2>5. \A m \in DOMAIN scanned : time = FromMicroseconds(m) <=> PoseTimes[n] = m * Microsecond
    BY <2>1, <2>2, <2>4 DEF Representable
  <2> QED
    BY <1>4, <2>5 DEF PoseMatches
<1>7. \/ RefuseSequence /\ ~TimesInOrder(PoseTimes)
      \/ UNCHANGED <<reading, awaiting, scan, scanned>> /\ RowsFit(rows', PoseTimes, PoseMatches)
  <2>1. rows.count < Len(PoseTimes) /\ matching \in BOOLEAN
    BY <1>1, <1>3
  <2> HIDE DEF time, matching
  <2> QED
    BY <1>1, <1>2, <1>5, <1>6, <2>1, RowStep
<1>8. CASE RefuseSequence /\ ~TimesInOrder(PoseTimes)
  <2>1. Blame
    BY <1>2, <1>8 DEF Blame
  <2> QED
    BY <1>1, <1>8, <2>1, RefusalKeeps
<1>9. CASE UNCHANGED <<reading, awaiting, scan, scanned>> /\ RowsFit(rows', PoseTimes, PoseMatches)
  <2>1. UNCHANGED <<disk, changes, program>>
    BY <1>1 DEF UnchangedFiles
  <2>2. GpsTimes' = GpsTimes /\ GpsMatches' = GpsMatches /\ PoseTimes' = PoseTimes /\ PoseMatches' = PoseMatches
    BY <1>9, <2>1, SameRows
  <2>3. RowsInv'
    BY <1>1, <1>2, <1>9, <2>1, <2>2 DEF RowsInv, Scanning
  <2> QED
    BY <1>1, <1>2, <1>9, <2>3, CountingKeeps
<1> QED
  BY <1>7, <1>8, <1>9

\* The end of the poses.
LEMMA EndPosesKeeps ==
    ASSUME InspectionInv, EndPoses
    PROVE  InspectionInv'
<1>1. /\ reading = "poses" /\ rows.count >= Len(disk.poses) /\ UnchangedFiles
      /\ IF rows.count = 0 THEN RefuseSequence
         ELSE reading' = "accepted" /\ UNCHANGED <<awaiting, scan, scanned, rows>>
  BY DEF EndPoses
<1>2. /\ FilesFit(disk) /\ RowsFit(rows, PoseTimes, PoseMatches) /\ program = "inspector" /\ reading \in Counting
      /\ TimesInOrder(GpsTimes) /\ GpsMatches # {}
  BY <1>1 DEF InspectionInv, ReadingTyped, RowsInv, Counting
<1>3. Len(PoseTimes) = Len(disk.poses)
  BY <1>2, TimesAreIntegers
<1>4. /\ rows.count # 0 => TimesInOrder(PoseTimes)
      /\ rows.count = 0 => ~TimesInOrder(PoseTimes)
      /\ rows.matches = Cardinality(PoseMatches)
  BY <1>1, <1>2, <1>3, AllRowsFit
<1>5. CASE rows.count = 0
  <2>1. RefuseSequence /\ Blame
    BY <1>1, <1>2, <1>4, <1>5 DEF Blame
  <2> QED
    BY <1>1, <2>1, RefusalKeeps
<1>6. CASE rows.count # 0
  <2>1. reading' = "accepted" /\ UNCHANGED <<awaiting, scan, scanned, rows>> /\ UNCHANGED <<disk, changes, program>>
    BY <1>1, <1>6 DEF UnchangedFiles
  <2>2. GpsTimes' = GpsTimes /\ GpsMatches' = GpsMatches /\ PoseTimes' = PoseTimes /\ PoseMatches' = PoseMatches
    BY <2>1, SameRows
  <2>3. RowsInv'
    BY <1>2, <1>4, <1>6, <2>1, <2>2 DEF RowsInv, Scanning
  <2>4. reading' \in Counting
    BY <2>1 DEF Counting
  <2> QED
    BY <1>1, <1>2, <2>1, <2>3, <2>4, CountingKeeps
<1> QED
  BY <1>5, <1>6

\* Somebody writes over the scans.
LEMMA OverwriteKeeps ==
    ASSUME InspectionInv, Overwrite
    PROVE  InspectionInv'
<1>1. PICK d \in SequencesOnDisk :
        DOMAIN d.scans = DOMAIN disk.scans /\ disk' = [scans |-> d.scans, gps |-> disk.gps, poses |-> disk.poses]
  BY DEF Overwrite
<1>2. /\ reading \notin {"idle", "accepted", "refused"} /\ changes' = changes + 1
      /\ UNCHANGED <<program, reading, awaiting, scan, scanned, rows>>
  BY DEF Overwrite
<1>3. disk'.scans = d.scans /\ disk'.gps = disk.gps /\ disk'.poses = disk.poses /\ DOMAIN disk'.scans = DOMAIN disk.scans
  BY <1>1
<1>4. changes' \in Nat /\ changes' # 0
  BY <1>2 DEF InspectionInv, ReadingTyped
<1>5. ReadingTyped'
  <2>1. FilesFit(disk)
    BY <1>2 DEF InspectionInv, ReadingTyped
  <2>2. FilesFit(disk')
    BY <1>1, <1>3, <2>1, ReadingAssumption DEF FilesFit
  <2> QED
    BY <1>2, <1>4, <2>2 DEF InspectionInv, ReadingTyped
<1>6. ScanInv'
  BY <1>2, <1>3, <1>4 DEF InspectionInv, ScanInv
<1>7. ScannedInv'
  BY <1>2, <1>3 DEF InspectionInv, ScannedInv, AtHand
<1>8. RowsInv'
  <2>1. GpsTimes' = GpsTimes /\ GpsMatches' = GpsMatches /\ PoseTimes' = PoseTimes /\ PoseMatches' = PoseMatches
    BY <1>2, <1>3, SameRows
  <2> QED
    BY <1>2, <2>1 DEF InspectionInv, RowsInv
<1> QED
  BY <1>2, <1>4, <1>5, <1>6, <1>7, <1>8 DEF InspectionInv

\* The sizes stay as they were enumerated, once for each scan.
LEMMA SizesKept ==
    ASSUME InspectionInv, SizesInv, InspectionNext
    PROVE  SizesInv'
<1>1. ASSUME UNCHANGED <<sizes, disk, changes, program>>, reading' \notin {"idle", "directory"},
             reading' \in Opening /\ program = "adapter" => reading \in Opening
      PROVE  SizesInv'
  BY <1>1 DEF SizesInv
<1>2. ASSUME BeginInspection PROVE SizesInv'
  BY <1>2 DEF BeginInspection, SizesInv, Opening, Scanning
<1>3. ASSUME ListScans PROVE SizesInv'
  <2>1. /\ UNCHANGED <<sizes, disk, changes, program>> /\ reading' \in {"refused", "views", "frames"}
        /\ reading' = "frames" => program # "adapter"
    BY <1>3 DEF ListScans, UnchangedFiles, RefuseSequence
  <2> QED
    BY <1>1, <2>1 DEF Opening, Scanning
<1>4. ASSUME EnumerateScan PROVE SizesInv'
  <2>1. reading = "views" /\ reading \in Listed /\ AtHand = {} /\ FilesFit(disk) /\ UNCHANGED <<disk, changes, program>>
    BY <1>4 DEF EnumerateScan, InspectionInv, ReadingTyped, Listed, Opening, AtHand, Scanning
  <2>2. DOMAIN scanned = {} /\ awaiting = DOMAIN disk.scans
    BY <2>1 DEF InspectionInv, ScannedInv
  <2>3. PICK m \in awaiting \ DOMAIN sizes :
          LET size == Len(disk.scans[m])
          IN  IF ~Admissible(m, size) THEN RefuseSequence /\ sizes' = sizes
              ELSE /\ sizes' = [k \in DOMAIN sizes \cup {m} |-> IF k = m THEN size ELSE sizes[k]]
                   /\ reading' = IF awaiting \subseteq DOMAIN sizes' THEN "frames" ELSE "views"
                   /\ UNCHANGED <<awaiting, scan, scanned, rows>>
    BY <1>4 DEF EnumerateScan
  <2>4. Len(disk.scans[m]) \in Nat
    BY <2>1, <2>2, <2>3 DEF FilesFit
  <2>5. CASE ~Admissible(m, Len(disk.scans[m]))
    <3>1. reading' = "refused" /\ sizes' = sizes
      BY <2>3, <2>5 DEF RefuseSequence
    <3> QED
      BY <1>1, <2>1, <3>1 DEF Opening, Scanning
  <2>6. CASE Admissible(m, Len(disk.scans[m]))
    <3>1. /\ sizes' = [k \in DOMAIN sizes \cup {m} |-> IF k = m THEN Len(disk.scans[m]) ELSE sizes[k]]
          /\ reading' = IF awaiting \subseteq DOMAIN sizes' THEN "frames" ELSE "views"
      BY <2>3, <2>6
    <3>2. \A k \in DOMAIN sizes' : k \in Nat => /\ sizes'[k] \in Nat /\ Admissible(k, sizes'[k])
                                            /\ (changes = 0 => sizes'[k] = Len(disk.scans[k]))
      <4>1. SUFFICES ASSUME NEW k \in DOMAIN sizes', k \in Nat
                     PROVE  sizes'[k] \in Nat /\ Admissible(k, sizes'[k]) /\ (changes = 0 => sizes'[k] = Len(disk.scans[k]))
        OBVIOUS
      <4>2. CASE k = m
        <5>1. sizes'[k] = Len(disk.scans[m])
          BY <3>1, <4>2
        <5> QED
          BY <2>4, <2>6, <4>2, <5>1
      <4>3. CASE k # m
        <5>1. k \in DOMAIN sizes /\ sizes'[k] = sizes[k]
          BY <3>1, <4>1, <4>3
        <5> QED
          BY <4>1, <5>1 DEF SizesInv
      <4> QED
        BY <4>2, <4>3
    <3>3. reading' \in Opening => DOMAIN disk.scans \subseteq DOMAIN sizes'
      BY <2>2, <3>1 DEF Opening, Scanning
    <3>4. reading' \notin {"idle", "directory"}
      BY <3>1
    <3> QED
      BY <2>1, <3>2, <3>3, <3>4 DEF SizesInv, Admissible
  <2> QED
    BY <2>5, <2>6
<1>5. ASSUME OpenScan PROVE SizesInv'
  <2>1. UNCHANGED <<sizes, disk, changes, program>> /\ reading = "frames" /\ reading' \in {"refused", "opened", "bytes"}
    BY <1>5 DEF OpenScan, BeginScan, UnchangedFiles, RefuseSequence
  <2> QED
    BY <1>1, <2>1 DEF Opening, Scanning
<1>6. ASSUME CheckSize PROVE SizesInv'
  <2>1. UNCHANGED <<sizes, disk, changes, program>> /\ reading = "opened" /\ reading' \in {"refused", "bytes"}
    BY <1>6 DEF CheckSize, UnchangedFiles, RefuseSequence
  <2> QED
    BY <1>1, <2>1 DEF Opening, Scanning
<1>7. ASSUME ReadChunk \/ FillBuffer \/ ConsumeRecord PROVE SizesInv'
  <2>1. UNCHANGED <<sizes, disk, changes, program>> /\ reading = "bytes" /\ reading' \in {"refused", "bytes"}
    BY <1>7 DEF ReadChunk, FillBuffer, ConsumeRecord, UnchangedFiles, RefuseSequence
  <2> QED
    BY <1>1, <2>1 DEF Opening, Scanning
<1>8. ASSUME EndScan PROVE SizesInv'
  <2>1. /\ UNCHANGED <<sizes, disk, changes, program>> /\ reading = "bytes"
        /\ reading' \in {"refused", "frames", "accepted", "gps"}
    BY <1>8 DEF EndScan, UnchangedFiles, RefuseSequence
  <2> QED
    BY <1>1, <2>1 DEF Opening, Scanning
<1>9. ASSUME ReadGpsRow \/ EndGps PROVE SizesInv'
  <2>1. UNCHANGED <<sizes, disk, changes, program>> /\ reading = "gps" /\ reading' \in {"refused", "gps", "poses"}
    BY <1>9 DEF ReadGpsRow, EndGps, Row, UnchangedFiles, RefuseSequence
  <2> QED
    BY <1>1, <2>1 DEF Opening, Scanning
<1>10. ASSUME ReadPoseRow \/ EndPoses PROVE SizesInv'
  <2>1. UNCHANGED <<sizes, disk, changes, program>> /\ reading = "poses" /\ reading' \in {"refused", "poses", "accepted"}
    BY <1>10 DEF ReadPoseRow, EndPoses, Row, UnchangedFiles, RefuseSequence
  <2> QED
    BY <1>1, <2>1 DEF Opening, Scanning
<1>11. ASSUME Overwrite PROVE SizesInv'
  <2>1. PICK d \in SequencesOnDisk :
          DOMAIN d.scans = DOMAIN disk.scans /\ disk' = [scans |-> d.scans, gps |-> disk.gps, poses |-> disk.poses]
    BY <1>11 DEF Overwrite
  <2>2. DOMAIN disk'.scans = DOMAIN disk.scans
    BY <2>1
  <2>3. changes' # 0 /\ UNCHANGED <<program, reading, sizes>>
    BY <1>11 DEF Overwrite, InspectionInv, ReadingTyped
  <2> QED
    BY <2>2, <2>3 DEF SizesInv, Admissible
<1> QED
  BY <1>2, <1>3, <1>4, <1>5, <1>6, <1>7, <1>8, <1>9, <1>10, <1>11 DEF InspectionNext

\* Every step keeps the invariant.
LEMMA InspectionInductive ==
    InspectionInv /\ SizesInv /\ [InspectionNext]_inspectionVars => InspectionInv' /\ SizesInv'
<1>1. ASSUME InspectionInv, UNCHANGED inspectionVars PROVE InspectionInv'
  <2>1. UNCHANGED <<disk, changes, program, reading, sizes, awaiting, scan, scanned, rows>>
    BY <1>1 DEF inspectionVars
  <2>2. GpsTimes' = GpsTimes /\ GpsMatches' = GpsMatches /\ PoseTimes' = PoseTimes /\ PoseMatches' = PoseMatches
    BY <2>1, SameRows
  <2>3. ReadingTyped' /\ ScanInv'
    BY <1>1, <2>1 DEF InspectionInv, ReadingTyped, ScanInv
  <2>4. ScannedInv'
    BY <1>1, <2>1 DEF InspectionInv, ScannedInv, AtHand
  <2>5. RowsInv'
    BY <1>1, <2>1, <2>2 DEF InspectionInv, RowsInv
  <2>6. reading' = "refused" /\ changes' = 0 => Blame'
    BY <1>1, <2>1, SameBlame DEF InspectionInv
  <2> QED
    BY <2>3, <2>4, <2>5, <2>6 DEF InspectionInv
<1>2. ASSUME InspectionInv, SizesInv, InspectionNext PROVE InspectionInv'
  BY <1>2, BeginKeeps, ListKeeps, ViewKeeps, OpenKeeps, CheckSizeKeeps, ReadChunkKeeps, FillBufferKeeps, ConsumeKeeps,
     EndScanKeeps, GpsRowKeeps, EndGpsKeeps, PoseRowKeeps, EndPosesKeeps, OverwriteKeeps DEF InspectionNext
<1>3. ASSUME SizesInv, UNCHANGED inspectionVars PROVE SizesInv'
  BY <1>3 DEF inspectionVars, SizesInv
<1> QED
  BY <1>1, <1>2, <1>3, SizesKept

\* For every width of the integers, size of records, chunks and frames, decoding
\* of a record and content of the files, and any writes to them: a scan's
\* summary measures exactly the bytes read, adapter and inspector accept scans
\* and rows in order only, and refuse nothing else (boreas_v1.py _records,
\* boreas_inspector.cpp inspect_lidar, inspect_trajectory, time.cpp checked_add).
THEOREM InspectionsAreExact == InspectionSpec => []InspectionIsExact
<1>1. InspectionInit => InspectionInv /\ SizesInv
  <2>1. SUFFICES ASSUME InspectionInit PROVE InspectionInv /\ SizesInv
    OBVIOUS
  <2>2. reading = "idle" /\ program = "adapter" /\ changes = 0 /\ rows = NoRows /\ DOMAIN scanned = {}
        /\ DOMAIN sizes = {}
    BY <2>1 DEF InspectionInit, NoSequence
  <2> QED
    BY <2>2 DEF SizesInv, InspectionInv, ReadingTyped, ScanInv, ScannedInv, RowsInv, Scanning, Listed, Opening, Counting
<1>2. InspectionInv => InspectionIsExact
  <2>1. SUFFICES ASSUME InspectionInv PROVE InspectionIsExact
    OBVIOUS
  <2>2. \A m \in DOMAIN scanned : IsScan(m, scanned[m].content) /\ Measures(scanned[m].summary, m, scanned[m].content)
    BY <2>1 DEF InspectionInv, ScannedInv, SummaryFits
  <2>3. reading \in Counting => DOMAIN scanned = DOMAIN disk.scans
    BY <2>1 DEF InspectionInv, ScannedInv, AtHand, Counting, Listed, Opening, Scanning
  <2>4. reading = "accepted" /\ program = "inspector" =>
          /\ TimesInOrder(GpsTimes) /\ TimesInOrder(PoseTimes) /\ GpsMatches # {}
          /\ rows.matches = Cardinality(PoseMatches)
    BY <2>1 DEF InspectionInv, RowsInv
  <2>5. GpsMatches # {} => \E i \in DOMAIN GpsTimes : OverlapsScans(GpsTimes[i])
    BY DEF GpsMatches
  <2>6. reading = "refused" /\ changes = 0 => Blame
    BY <2>1 DEF InspectionInv
  <2> QED
    BY <2>2, <2>3, <2>4, <2>5, <2>6 DEF InspectionIsExact, Blame, PoseMatches, Counting
<1> QED
  BY <1>1, <1>2, InspectionInductive, PTL DEF InspectionSpec
=============================================================================
