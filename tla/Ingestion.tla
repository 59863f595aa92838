------------------------------ MODULE Ingestion ------------------------------
(***************************************************************************)
(* The immutable ingestion pass of ingestion.py over the Boreas adapter:   *)
(* one recording is enumerated, hashed, parsed and enumerated again, and   *)
(* its manifest and frame index are published with one rename.             *)
(*                                                                         *)
(* Several passes may run over the same recording and output, and the      *)
(* recording may change under them.  One file-system access is one step.   *)
(* A version stands for the bytes of a file together with the size, times  *)
(* and inode that a snapshot compares, so every change gives a new one.    *)
(***************************************************************************)
EXTENDS Integers, Sequences, FiniteSets

CONSTANTS
    Process,         \* the passes
    Csv,             \* sources, numbered in key order: the two csv files,
    Calibration,     \* the calibrations,
    Optional,        \* of which these are not required,
    Frame,           \* and the lidar frames
    Missing,         \* sources that are not there at first
    Verdict(_, _),   \* what parsing a version of a source shows
    MaximumFiles,    \* maximum_source_files
    MaximumFindings, \* maximum_structural_findings
    NoOutput,        \* the output directory does not exist
    Faults,          \* the kinds of event the environment may cause
    MaxFaults        \* how many of them in one behaviour

Source == Csv \cup Calibration \cup Frame

Required == Csv \cup (Calibration \ Optional)

Verdicts == {"good", "malformed", "duplicate", "reordered"}

ASSUME IngestionAssumption ==
    /\ Source \subseteq Nat /\ IsFiniteSet(Source)
    /\ Csv \cap (Calibration \cup Frame) = {} /\ Calibration \cap Frame = {}
    /\ Optional \subseteq Calibration /\ Missing \subseteq Source
    /\ MaximumFiles \in Nat \ {0} /\ MaximumFindings \in Nat \ {0}
    /\ Faults \subseteq {"alter", "remove", "add", "crash", "io", "sync"}
    /\ MaxFaults \in Nat
    /\ \A s \in Source, v \in 0..MaxFaults : Verdict(s, v) \in Verdicts

VARIABLES
    \* the recording, the output directory, and the attempt directories
    version, present, output, attempts,
    \* each pass: control state, sources left in its loop, frame keys of its
    \* adapter, and the versions it enumerated, hashed, read and re-enumerated
    pc, todo, frames, snapshot, hashed, calibrated, seen, latest,
    \* its structural findings, the sources out of timestamp order, and
    \* (history) whether a blocking finding was ever raised
    findings, reordered, blocked,
    faults

recording == <<version, present>>
reads  == <<frames, snapshot, hashed, calibrated, seen, latest>>
result == <<findings, reordered, blocked>>
vars   == <<recording, output, attempts, pc, todo, reads, result, faults>>

Init ==
    /\ version = [s \in Source |-> 0] /\ present = Source \ Missing
    /\ output = NoOutput /\ attempts = {}
    /\ pc = [p \in Process |-> "idle"]
    /\ todo = [p \in Process |-> {}] /\ frames = [p \in Process |-> {}]
    /\ snapshot = [p \in Process |-> {}] /\ hashed = [p \in Process |-> {}]
    /\ calibrated = [p \in Process |-> {}] /\ seen = [p \in Process |-> {}]
    /\ latest = [p \in Process |-> {}]
    /\ findings = [p \in Process |-> <<>>]
    /\ reordered = [p \in Process |-> {}]
    /\ blocked = [p \in Process |-> FALSE]
    /\ faults = 0

(***************************************************************************)
(* The structural findings of one pass.                                    *)
(***************************************************************************)
Blocking == {"MISSING_REQUIRED_SOURCE", "SOURCE_READ_ERROR", "SOURCE_CHANGED",
             "PARSE_ERROR", "DUPLICATE_TIMESTAMP", "FINDING_LIMIT_EXCEEDED"}

\* Mutant: findings above the limit are kept.
AddFindings_All(list, codes) == list \o codes

\* _FindingCollector.add, once for each code: as many are kept as fit, and the
\* last of them makes room for the limit.
AddFindings(list, codes) ==
    LET all == list \o codes IN
    IF Len(all) <= MaximumFindings
    THEN all
    ELSE [SubSeq(all, 1, MaximumFindings) EXCEPT
            ![MaximumFindings] = "FINDING_LIMIT_EXCEEDED"]

Find(p, codes) ==
    /\ findings' = [findings EXCEPT ![p] = AddFindings(@, codes)]
    /\ blocked' = [blocked EXCEPT ![p] = @ \/ \E i \in DOMAIN codes : codes[i] \in Blocking]
    /\ UNCHANGED reordered

HasBlocking(p) == \E i \in DOMAIN findings[p] : findings[p][i] \in Blocking

Goto(p, label) == pc' = [pc EXCEPT ![p] = label]

\* The next round of p over the sources S.
Loop(p, label, S) == Goto(p, label) /\ todo' = [todo EXCEPT ![p] = S]

Current(p) == CHOOSE s \in todo[p] : \A t \in todo[p] : s <= t

Advance(p) == /\ todo' = [todo EXCEPT ![p] = @ \ {Current(p)}]
              /\ UNCHANGED pc

At(p, label) == pc[p] = label /\ todo[p] # {}

Ended(p, label) == pc[p] = label /\ todo[p] = {}

Now(s) == <<s, version[s]>>

\* _failure before there is an attempt directory, and after.
Reject(p, code) ==
    /\ Find(p, <<code>>) /\ Goto(p, "rejected")
    /\ UNCHANGED <<recording, output, attempts, todo, reads>>

Fail(p, code) ==
    /\ Find(p, <<code>>) /\ Goto(p, "failing")
    /\ UNCHANGED <<recording, output, attempts, todo, reads>>

(***************************************************************************)
(* The steps of index_boreas_recording and index_recording.                *)
(***************************************************************************)

\* _missing_boreas_sources: how many required files are not there, no frame at
\* all counting as one more.
MissingSources == Cardinality(Required \ present)
                  + IF Frame \cap present = {} THEN 1 ELSE 0

\* Preflight, and the adapter fixing its frame keys for the whole pass.
Preflight(p) ==
    /\ pc[p] = "idle" /\ MissingSources = 0
    /\ frames' = [frames EXCEPT ![p] = Frame \cap present]
    /\ Goto(p, "open")
    /\ UNCHANGED <<recording, output, attempts, todo, snapshot, hashed,
                   calibrated, seen, latest, result>>

\* One finding per missing source, past the collector and its limit.
PreflightMissing(p) ==
    /\ pc[p] = "idle" /\ MissingSources > 0
    /\ findings' = [findings EXCEPT ![p] =
                      [i \in 1..MissingSources |-> "MISSING_REQUIRED_SOURCE"]]
    /\ blocked' = [blocked EXCEPT ![p] = TRUE]
    /\ Goto(p, "rejected")
    /\ UNCHANGED <<recording, output, attempts, todo, reads, reordered>>

\* The keys source_files() yields: an optional calibration when it is there.
Selected(p) == Required \cup (Optional \cap present) \cup frames[p]

\* Mutant: an output that is there is removed first.
Open_Clear(p) ==
    /\ pc[p] = "open"
    /\ Loop(p, "enumerate", Selected(p))
    /\ output' = NoOutput
    /\ UNCHANGED <<recording, attempts, reads, result>>

Open(p) ==
    /\ pc[p] = "open"
    /\ IF output = NoOutput THEN Loop(p, "enumerate", Selected(p))
                            ELSE Goto(p, "refused") /\ UNCHANGED todo
    /\ UNCHANGED <<recording, output, attempts, reads, result>>

Enumerate(p) ==
    /\ At(p, "enumerate") /\ Cardinality(snapshot[p]) < MaximumFiles
    /\ Current(p) \in present
    /\ snapshot' = [snapshot EXCEPT ![p] = @ \cup {Now(Current(p))}]
    /\ Advance(p)
    /\ UNCHANGED <<recording, output, attempts, frames, hashed, calibrated,
                   seen, latest, result>>

EnumerateFails(p) ==
    /\ At(p, "enumerate")
    /\ \/ Current(p) \notin present /\ Reject(p, "PARSE_ERROR")
       \/ /\ Current(p) \in present /\ Cardinality(snapshot[p]) >= MaximumFiles
          /\ Reject(p, "SOURCE_READ_ERROR")

Enumerated(p) == { e[1] : e \in snapshot[p] }

\* The attempt directory is created beside the output.
Stage(p) ==
    /\ Ended(p, "enumerate")
    /\ attempts' = attempts \cup {p}
    /\ Loop(p, "hash", Enumerated(p))
    /\ UNCHANGED <<recording, output, reads, result>>

\* The snapshot is compared before and after the bytes are read.
Hash(p) ==
    /\ At(p, "hash") /\ Current(p) \in present /\ Now(Current(p)) \in snapshot[p]
    /\ hashed' = [hashed EXCEPT ![p] = @ \cup {Now(Current(p))}]
    /\ Advance(p)
    /\ UNCHANGED <<recording, output, attempts, frames, snapshot, calibrated,
                   seen, latest, result>>

HashFails(p) ==
    /\ At(p, "hash")
    /\ \/ Current(p) \notin present /\ Fail(p, "PARSE_ERROR")
       \/ /\ Current(p) \in present /\ Now(Current(p)) \notin snapshot[p]
          /\ Fail(p, "SOURCE_CHANGED")

HashDone(p) ==
    /\ Ended(p, "hash")
    /\ Loop(p, "calibrate", Calibration)
    /\ UNCHANGED <<recording, output, attempts, reads, result>>

\* An optional calibration that is not there is passed over.
Calibrate(p) ==
    /\ At(p, "calibrate")
    /\ LET s == Current(p) IN
       \/ /\ s \in present /\ Verdict(s, version[s]) # "malformed"
          /\ calibrated' = [calibrated EXCEPT ![p] = @ \cup {Now(s)}]
       \/ s \in Optional \ present /\ UNCHANGED calibrated
    /\ Advance(p)
    /\ UNCHANGED <<recording, output, attempts, frames, snapshot, hashed,
                   seen, latest, result>>

CalibrateFails(p) ==
    /\ At(p, "calibrate")
    /\ LET s == Current(p) IN \/ s \in Required \ present
                              \/ s \in present /\ Verdict(s, version[s]) = "malformed"
    /\ Fail(p, "PARSE_ERROR")

\* The manifest is written; trajectory, lidar poses and frames are next.
ManifestDone(p) ==
    /\ Ended(p, "calibrate")
    /\ Loop(p, "scan", Csv \cup frames[p])
    /\ UNCHANGED <<recording, output, attempts, reads, result>>

VersionsSeen(p, s) == { e[2] : e \in { e \in seen[p] : e[1] = s } }

\* A read of the current source, or a part of it, without a snapshot check.
ScanRead(p) ==
    /\ At(p, "scan") /\ Current(p) \in present
    /\ Now(Current(p)) \notin seen[p]
    /\ seen' = [seen EXCEPT ![p] = @ \cup {Now(Current(p))}]
    /\ UNCHANGED <<recording, output, attempts, pc, todo, frames, snapshot,
                   hashed, calibrated, latest, result>>

\* Parts of two versions may parse as anything.
ScanVerdicts(p, s) ==
    IF Cardinality(VersionsSeen(p, s)) = 1
    THEN { Verdict(s, v) : v \in VersionsSeen(p, s) } ELSE Verdicts

Scan(p) ==
    /\ At(p, "scan") /\ VersionsSeen(p, Current(p)) # {}
    /\ LET s == Current(p) IN
       \/ /\ "good" \in ScanVerdicts(p, s)
          /\ UNCHANGED result
       \/ /\ "duplicate" \in ScanVerdicts(p, s)
          /\ Find(p, <<"DUPLICATE_TIMESTAMP", "DUPLICATE_TIMESTAMP">>)
       \/ /\ "reordered" \in ScanVerdicts(p, s)
          /\ reordered' = [reordered EXCEPT ![p] = @ \cup {s}]
          /\ UNCHANGED <<findings, blocked>>
    /\ Advance(p)
    /\ UNCHANGED <<recording, output, attempts, reads>>

ScanFails(p) ==
    /\ At(p, "scan")
    /\ \/ Current(p) \notin present
       \/ /\ VersionsSeen(p, Current(p)) # {}
          /\ "malformed" \in ScanVerdicts(p, Current(p))
    /\ Fail(p, "PARSE_ERROR")

\* One informational finding per reordered range; the index is flushed.
ScanDone(p) ==
    /\ Ended(p, "scan")
    /\ Find(p, [i \in 1..Cardinality(reordered[p]) |-> "SOURCE_ORDER_REORDERED"])
    /\ Loop(p, "verify", Selected(p))
    /\ UNCHANGED <<recording, output, attempts, reads>>

Verify(p) ==
    /\ At(p, "verify") /\ Current(p) \in present
    /\ latest' = [latest EXCEPT ![p] = @ \cup {Now(Current(p))}]
    /\ Advance(p)
    /\ UNCHANGED <<recording, output, attempts, frames, snapshot, hashed,
                   calibrated, seen, result>>

VerifyFails(p) ==
    /\ At(p, "verify") /\ Current(p) \notin present
    /\ Fail(p, "PARSE_ERROR")

\* Mutant: the second enumeration only counts.
Unchanged_Count(p) == Cardinality(latest[p]) = Cardinality(snapshot[p])

Unchanged(p) == latest[p] = snapshot[p]

VerifyDone(p) ==
    /\ Ended(p, "verify")
    /\ IF Unchanged(p) THEN UNCHANGED result ELSE Find(p, <<"SOURCE_CHANGED">>)
    /\ Goto(p, "decide")
    /\ UNCHANGED <<recording, output, attempts, todo, reads>>

Decide(p) ==
    /\ pc[p] = "decide"
    /\ Goto(p, IF HasBlocking(p) THEN "failing" ELSE "publish")
    /\ UNCHANGED <<recording, output, attempts, todo, reads, result>>

Publication(p) == [by |-> p, files |-> hashed[p], calibrations |-> calibrated[p],
                   parsed |-> seen[p]]

\* Summary and completion are written, then the directory is renamed.
Publish(p) ==
    /\ pc[p] = "publish" /\ output = NoOutput
    /\ output' = Publication(p)
    /\ attempts' = attempts \ {p}
    /\ Goto(p, "sync")
    /\ UNCHANGED <<recording, todo, reads, result>>

\* The rename onto a directory with contents is an OSError.
PublishFails(p) ==
    /\ pc[p] = "publish" /\ output # NoOutput
    /\ Fail(p, "SOURCE_READ_ERROR")

\* The parent directory is flushed.
Sync(p) ==
    /\ pc[p] = "sync"
    /\ Goto(p, "accepted")
    /\ UNCHANGED <<recording, output, attempts, todo, reads, result>>

Cleanup(p) ==
    /\ pc[p] = "failing"
    /\ attempts' = attempts \ {p}
    /\ Goto(p, "rejected")
    /\ UNCHANGED <<recording, output, todo, reads, result>>

Returned(p) == pc[p] \in {"accepted", "rejected", "refused"}

Work(p) ==
    \/ Preflight(p) \/ PreflightMissing(p) \/ Open(p)
    \/ Enumerate(p) \/ EnumerateFails(p) \/ Stage(p)
    \/ Hash(p) \/ HashFails(p) \/ HashDone(p)
    \/ Calibrate(p) \/ CalibrateFails(p) \/ ManifestDone(p)
    \/ ScanRead(p) \/ Scan(p) \/ ScanFails(p) \/ ScanDone(p)
    \/ Verify(p) \/ VerifyFails(p) \/ VerifyDone(p) \/ Decide(p)
    \/ Publish(p) \/ PublishFails(p) \/ Sync(p) \/ Cleanup(p)

(***************************************************************************)
(* The environment.                                                        *)
(***************************************************************************)
Spend(kind) == kind \in Faults /\ faults < MaxFaults /\ faults' = faults + 1

Staged(p) == pc[p] \in {"hash", "calibrate", "scan", "verify", "decide", "publish"}

\* An OSError while staging, or from the flush after the rename.
IoFails(p) ==
    /\ \/ Staged(p) /\ Spend("io")
       \/ pc[p] = "sync" /\ Spend("sync")
    /\ Fail(p, "SOURCE_READ_ERROR")

Crash(p) ==
    /\ pc[p] \notin {"idle", "dead"} /\ ~Returned(p) /\ Spend("crash")
    /\ Goto(p, "dead")
    /\ UNCHANGED <<recording, output, attempts, todo, reads, result>>

\* A source is rewritten or replaced, removed, or added (again).
Alter ==
    /\ Spend("alter")
    /\ \E s \in present : version' = [version EXCEPT ![s] = @ + 1]
    /\ UNCHANGED <<present, output, attempts, pc, todo, reads, result>>

Remove ==
    /\ Spend("remove")
    /\ \E s \in present : present' = present \ {s}
    /\ UNCHANGED <<version, output, attempts, pc, todo, reads, result>>

Add ==
    /\ Spend("add")
    /\ \E s \in Source \ present : /\ present' = present \cup {s}
                                   /\ version' = [version EXCEPT ![s] = @ + 1]
    /\ UNCHANGED <<output, attempts, pc, todo, reads, result>>

Change == Alter \/ Remove \/ Add

Next ==
    \/ \E p \in Process : (Work(p) /\ UNCHANGED faults) \/ IoFails(p) \/ Crash(p)
    \/ Change

Spec == Init /\ [][Next]_vars

\* A pass that was started goes on.
FairSpec == Spec /\ \A p \in Process : WF_vars(Work(p) /\ UNCHANGED faults)

-----------------------------------------------------------------------------
(***************************************************************************)
(* Properties.                                                             *)
(***************************************************************************)
Dated == Source \X Nat

\* How many findings p may report: what preflight finds missing, or, once it let
\* the pass through, as many as the collector keeps.
FindingLimit(p) == IF frames[p] = {} THEN Cardinality(Required) + 1
                                     ELSE MaximumFindings

\* Types of the recording, the passes and the publication; the collector never
\* holds more than maximum_structural_findings, and preflight reports a source
\* once.
TypeOK ==
    /\ version \in [Source -> Nat] /\ present \subseteq Source
    /\ attempts \subseteq Process
    /\ pc \in [Process -> {"idle", "open", "enumerate", "hash", "calibrate",
                           "scan", "verify", "decide", "publish", "sync",
                           "failing", "accepted", "rejected", "refused", "dead"}]
    /\ \A p \in Process :
         /\ todo[p] \cup frames[p] \cup reordered[p] \subseteq Source
         /\ \A S \in {snapshot[p], hashed[p], calibrated[p], seen[p], latest[p]} :
              S \subseteq Dated
         /\ findings[p] \in Seq(Blocking \cup {"SOURCE_ORDER_REORDERED"})
         /\ Len(findings[p]) <= FindingLimit(p)

\* The manifest, the calibrations and the index of one publication come from
\* one state of the recording: every source was hashed and parsed in the same
\* version, although each is opened several times while it may change.
PublishedIsOneSnapshot ==
    output # NoOutput =>
      LET files == output.files IN
      /\ \A a, b \in files : a[1] = b[1] => a = b
      /\ \A e \in output.parsed : e \in files
      /\ \A e \in output.calibrations : e[1] \in { a[1] : a \in files } => e \in files

\* A pass that ever raised a blocking finding publishes nothing, also when the
\* finding limit replaced it (docs/ingestion.md, line 68).
BlockedNeverPublishes == \A p \in Process : pc[p] = "sync" => ~blocked[p]

\* Whatever the recording did during the pass, a publication shows one state of
\* it, and one that a finding may block is not made (IngestionPass.run).
PublishedIsSound == PublishedIsOneSnapshot /\ BlockedNeverPublishes

\* A publication is never replaced, although the output is only looked for at
\* the start of a pass.
OutputIsImmutable == [][output # NoOutput => output' = output]_vars

\* What a pass leaves when it returned: no attempt directory, and its own
\* publication when it is reported as accepted.
Settled(p) == /\ Returned(p) /\ p \notin attempts
              /\ pc[p] = "accepted" => output # NoOutput /\ output.by = p

\* Every pass that was started returns and leaves nothing behind, whichever
\* access fails, or dies.
PassEnds == \A p \in Process : pc[p] = "open" ~> Settled(p) \/ pc[p] = "dead"

\* Passes that race for one output settle: each returns or dies, and the first
\* publication stays (index_recording: the rename and the error paths).
PassesSettle == OutputIsImmutable /\ PassEnds
=============================================================================
