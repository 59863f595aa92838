------------------------------ MODULE Commands ------------------------------
(***************************************************************************)
(* The command line (cli/__init__.py): what every command reads, how it    *)
(* publishes what it made, and the exit code it ends with, when several    *)
(* processes share their files and any of them, or the machine, may stop.  *)
(*                                                                         *)
(* What a command computes is a verdict; the parts that compute it have    *)
(* modules of their own.  Files hold documents of a kind.  The indexes of  *)
(* index-boreas, the runs of resume-run and the fixture sets are published *)
(* by their own parts: such a command only prints here.                    *)
(***************************************************************************)
EXTENDS Naturals

CONSTANTS
    Process,
    Sessions,    \* which commands the processes may run, together
    File,        \* paths of single files
    Fault,       \* faults of inject-synthetic-fault, by their derivative
    MaxOutages,  \* bound on power losses
    Stdout,      \* no --output
    Nothing      \* no file, no verdict, no exit code

VARIABLES
    files,    \* files[f]: the document at f
    kept,     \* kept[f]: the documents a power loss may leave at f
    folder,   \* the fault directory
    keptFolder,
    calls,    \* calls[p]: what the process p is doing
    outages

commandVars == <<files, kept, folder, keptFolder, calls, outages>>

(***************************************************************************)
(* The commands.                                                           *)
(***************************************************************************)
Errors == {"OSError", "ValueError", "RuntimeError", "StopIteration", "LookupError"}

Usual == {"OSError", "ValueError"}

\* A qualification: its report goes to --output or to standard output, and
\* one that is not accepted ends with 1.
Gate == [reads |-> "nothing", makes |-> "report", into |-> "either",
         gated |-> TRUE, prints |-> FALSE, catches |-> Usual]

Printed(c) == [c EXCEPT !.into = "stdout"]

\* A document at a path that must be given, then a summary that is printed.
Producer(kind) == [Gate EXCEPT !.makes = kind, !.into = "file", !.gated = FALSE, !.prints = TRUE]

Scorer == [Gate EXCEPT !.reads = "graph", !.gated = FALSE]

ImportRoadGraph == Producer("graph")
QualifyRoadGraph == Gate
QualifyRoadMatching == Gate
PreparePublicRoadReview == Producer("packet")
QualifyPublicRoadMatching == Gate
QualifyRoadBins == Gate
QualifyTopologyHypotheses == Gate
ScoreRoadCandidates == Scorer
ScoreRoadTransition == [Scorer EXCEPT !.catches = @ \cup {"StopIteration"}]
ValidateArtifact == [Printed(Gate) EXCEPT !.reads = "artifact", !.gated = FALSE]
ExportPortableArtifact ==
    [Gate EXCEPT !.reads = "artifact", !.makes = "artifact", !.into = "file", !.gated = FALSE]
InspectBoreas == Gate
QualifyBoreasAdapter == Gate
IndexBoreas == Printed(Gate)
QualifyScheduler == Printed(Gate)
ResumeRun == [Printed(Gate) EXCEPT !.catches = @ \cup {"RuntimeError"}]
\* With --dry-run the scope of a forced stage is shown and nothing is judged.
ResumeRunDry == [ResumeRun EXCEPT !.gated = FALSE]
QualifyRunRecovery == [Printed(Gate) EXCEPT !.catches = @ \cup {"RuntimeError"}]
QualifyObservability == Gate
QualifyContracts == Gate
GenerateSyntheticFixtures == [Printed(Gate) EXCEPT !.gated = FALSE]
QualifySyntheticFixtures == Printed(Gate)
QualifyReferenceTrajectory == Gate
QualifyTrajectoryIntegrity == Gate
QualifyLidarIntegrity == Gate
QualifyLidarAlignment == Gate
QualifyTemporalCheckpoint == Gate
InjectSyntheticFault == [Producer("fault") EXCEPT !.into = "folder"]
VerifySyntheticFault == [Printed(Gate) EXCEPT !.reads = "folder"]

Command ==
    {ImportRoadGraph, QualifyRoadGraph, QualifyRoadMatching, PreparePublicRoadReview,
     QualifyPublicRoadMatching, QualifyRoadBins, QualifyTopologyHypotheses, ScoreRoadCandidates,
     ScoreRoadTransition, ValidateArtifact, ExportPortableArtifact, InspectBoreas,
     QualifyBoreasAdapter, IndexBoreas, QualifyScheduler, ResumeRun, ResumeRunDry,
     QualifyRunRecovery, QualifyObservability, QualifyContracts, GenerateSyntheticFixtures,
     QualifySyntheticFixtures, QualifyReferenceTrajectory, QualifyTrajectoryIntegrity,
     QualifyLidarIntegrity, QualifyLidarAlignment, QualifyTemporalCheckpoint,
     InjectSyntheticFault, VerifySyntheticFault}

ASSUME CommandsAssumption ==
    /\ Sessions \subseteq [Process -> SUBSET Command]
    /\ Stdout \notin File /\ Nothing \notin File \cup Fault /\ Nothing \notin 0..2

Destinations(c) ==
    CASE c.into = "file" -> File
      [] c.into = "either" -> File \cup {Stdout}
      [] OTHER -> {Stdout}

Sources(c) == IF c.reads \in {"graph", "artifact"} THEN File ELSE {Nothing}

(***************************************************************************)
(* Files.                                                                  *)
(***************************************************************************)
Damaged == [kind |-> "damaged", accepted |-> FALSE]

Empty == [kind |-> "empty", accepted |-> FALSE]

Absent == [kind |-> "absent", accepted |-> FALSE]

Document(kind, accepted) == [kind |-> kind, accepted |-> accepted]

NoFolder == [derivative |-> Nothing, manifest |-> Nothing]

\* What of a directory's files survives that was never flushed.
Unflushed(dir) ==
    { [derivative |-> d, manifest |-> m] : d \in {dir.derivative, Damaged}, m \in {dir.manifest, Damaged} }

Idle == [at |-> "idle", may |-> {}, command |-> Gate, source |-> Nothing, output |-> Stdout, verdict |-> Nothing,
         temp |-> Nothing, staging |-> NoFolder, synced |-> FALSE, published |-> FALSE,
         said |-> FALSE, seen |-> NoFolder, exit |-> Nothing]

CommandsInit ==
    /\ files \in [File -> {Absent, Document("artifact", TRUE)}]
    /\ kept = [f \in File |-> {files[f]}]
    /\ folder = NoFolder /\ keptFolder = {NoFolder}
    /\ \E s \in Sessions : calls = [p \in Process |-> [Idle EXCEPT !.may = s[p]]]
    /\ outages = 0

At(p, place) == calls[p].at = place

\* The call of p with the changes of r, a record.
Become(p, r) ==
    calls' = [calls EXCEPT ![p] = [k \in DOMAIN @ |-> IF k \in DOMAIN r THEN r[k] ELSE @[k]]]

\* The command ends: a temporary it made is unlinked.
End(p, code) ==
    Become(p, [at |-> "done", exit |-> code, temp |-> Nothing, staging |-> NoFolder])

\* An error is caught and gives 2, or escapes with a traceback, which gives 1.
Raise(p, error) ==
    IF error \in calls[p].command.catches THEN End(p, 2)
    ELSE Become(p, [at |-> "done", exit |-> 1, verdict |-> "traceback"])

FilesUnchanged == UNCHANGED <<files, kept, folder, keptFolder, outages>>

(***************************************************************************)
(* A command, step by step.                                                *)
(***************************************************************************)
Invoke(p) ==
    /\ At(p, "idle")
    /\ \E c \in calls[p].may : \E s \in Sources(c), o \in Destinations(c) :
          Become(p, [at |-> IF c.reads = "nothing" THEN "working" ELSE "reading",
                     may |-> {}, command |-> c, source |-> s, output |-> o])
    /\ FilesUnchanged

\* An argument that does not exist, or cannot be read, is refused by the parser.
UsageError(p) ==
    /\ At(p, "idle") /\ calls[p].may # {}
    /\ End(p, 2)
    /\ FilesUnchanged

\* _read_artifact: bounded, regular, and of the kind the command parses.
ReadDocument(p) ==
    /\ At(p, "reading") /\ calls[p].source # Nothing
    /\ IF \/ calls[p].command = ExportPortableArtifact /\ calls[p].source = calls[p].output
          \/ files[calls[p].source].kind # calls[p].command.reads
       THEN End(p, 2)
       ELSE Become(p, [at |-> "working"])
    /\ FilesUnchanged

\* derivative.json, then manifest.json.
ReadDerivative(p) ==
    /\ At(p, "reading") /\ calls[p].command.reads = "folder" /\ calls[p].seen = NoFolder
    /\ IF folder.derivative = Nothing THEN End(p, 2)
       ELSE Become(p, [seen |-> [derivative |-> folder.derivative, manifest |-> Nothing]])
    /\ FilesUnchanged

\* A damaged manifest is refused; what does not match it is a verdict.
ReadManifest(p) ==
    /\ At(p, "reading") /\ calls[p].seen # NoFolder
    /\ IF folder.manifest \in {Nothing, Damaged} THEN End(p, 2)
       ELSE Become(p, [at |-> "working",
                       seen |-> [derivative |-> calls[p].seen.derivative, manifest |-> folder.manifest]])
    /\ FilesUnchanged

\* The body of the try: a verdict or an error.
Work(p) ==
    /\ At(p, "working")
    /\ \/ \E v \in IF calls[p].command.gated THEN {"accepted", "rejected"} ELSE {"accepted"} :
             /\ calls[p].seen # NoFolder =>
                   ((v = "accepted") <=> (calls[p].seen.derivative = calls[p].seen.manifest))
             /\ Become(p, [verdict |-> v,
                           at |-> IF calls[p].command.into = "folder" THEN "checking"
                                  ELSE IF calls[p].output = Stdout THEN "printing" ELSE "staging"])
       \/ \E e \in Errors : Raise(p, e)
    /\ FilesUnchanged

\* mkdir and mkstemp.
Stage(p) ==
    /\ At(p, "staging")
    /\ Become(p, [at |-> "writing", temp |-> Empty])
    /\ FilesUnchanged

Write(p) ==
    /\ At(p, "writing") /\ calls[p].temp = Empty
    /\ Become(p, [at |-> "syncing",
                  temp |-> Document(calls[p].command.makes, calls[p].verdict = "accepted")])
    /\ FilesUnchanged

\* Mutant: what was written is not flushed to the disk.
Sync_Skipped(p) ==
    /\ At(p, "syncing")
    /\ Become(p, [at |-> "replacing"])
    /\ FilesUnchanged

\* flush and fsync.
Sync(p) ==
    /\ At(p, "syncing")
    /\ Become(p, [at |-> "replacing", synced |-> TRUE])
    /\ FilesUnchanged

\* os.replace; the directory is not flushed, so the rename itself may be lost.
Replace(p) ==
    /\ At(p, "replacing")
    /\ files' = [files EXCEPT ![calls[p].output] = calls[p].temp]
    /\ kept' = [kept EXCEPT ![calls[p].output] =
                   @ \cup {calls[p].temp} \cup IF calls[p].synced THEN {} ELSE {Damaged}]
    /\ Become(p, [at |-> IF calls[p].command.prints THEN "printing" ELSE "leaving",
                  temp |-> Nothing, published |-> TRUE])
    /\ UNCHANGED <<folder, keptFolder, outages>>

\* materialize_fault_result: the directory must not exist yet.
CheckFolder(p) ==
    /\ At(p, "checking")
    /\ IF folder # NoFolder THEN End(p, 2) ELSE Become(p, [at |-> "filling"])
    /\ FilesUnchanged

\* The two files are written into a staging directory.
FillFolder(p) ==
    /\ At(p, "filling")
    /\ \E f \in Fault :
          \/ calls[p].staging = NoFolder
             /\ Become(p, [staging |-> [derivative |-> f, manifest |-> Nothing]])
          \/ calls[p].staging.derivative = f
             /\ Become(p, [staging |-> [derivative |-> f, manifest |-> f], at |-> "moving"])
    /\ FilesUnchanged

\* Mutant: a directory that appeared meanwhile is taken over file by file.
MoveFolder_Over(p) ==
    /\ At(p, "moving")
    /\ folder' = calls[p].staging
    /\ keptFolder' = keptFolder \cup Unflushed(calls[p].staging) \cup {NoFolder}
    /\ Become(p, [at |-> "printing", staging |-> NoFolder, published |-> TRUE])
    /\ UNCHANGED <<files, kept, outages>>

\* os.replace of a directory fails if another one that is not empty is there.
MoveFolder(p) ==
    /\ At(p, "moving")
    /\ IF folder # NoFolder
       THEN End(p, 2) /\ UNCHANGED <<folder, keptFolder>>
       ELSE /\ folder' = calls[p].staging
            /\ keptFolder' = Unflushed(calls[p].staging) \cup {NoFolder}
            /\ Become(p, [at |-> "printing", staging |-> NoFolder, published |-> TRUE])
    /\ UNCHANGED <<files, kept, outages>>

\* An OSError on the way to the output: the temporary is unlinked.
WriteFails(p) ==
    /\ calls[p].at \in {"staging", "writing", "syncing", "replacing", "filling", "moving", "printing"}
    /\ End(p, 2)
    /\ FilesUnchanged

\* The report or the summary goes to standard output.
Say(p) ==
    /\ At(p, "printing")
    /\ Become(p, [at |-> "leaving", said |-> TRUE])
    /\ FilesUnchanged

\* Mutant: the exit code does not look at the verdict.
Leave_Accepted(p) ==
    /\ At(p, "leaving")
    /\ End(p, 0)
    /\ FilesUnchanged

\* Outside of the try: a report that is not accepted ends with 1.
Leave(p) ==
    /\ At(p, "leaving")
    /\ End(p, IF calls[p].verdict = "rejected" THEN 1 ELSE 0)
    /\ FilesUnchanged

(***************************************************************************)
(* The system around the commands.                                         *)
(***************************************************************************)
\* The operating system writes out what it had in memory.
Settle ==
    /\ kept' = [f \in File |-> {files[f]}]
    /\ keptFolder' = {folder}
    /\ UNCHANGED <<files, folder, calls, outages>>

Kill(p) ==
    /\ calls[p].at \notin {"idle", "done"}
    /\ Become(p, [at |-> "done", exit |-> Nothing])
    /\ FilesUnchanged

PowerLoss ==
    /\ outages < MaxOutages /\ outages' = outages + 1
    /\ files' \in [File -> UNION { kept[f] : f \in File }] /\ \A f \in File : files'[f] \in kept[f]
    /\ folder' \in keptFolder
    /\ kept' = [f \in File |-> {files'[f]}] /\ keptFolder' = {folder'}
    /\ calls' = [p \in Process |-> IF At(p, "idle") THEN calls[p]
                                   ELSE [calls[p] EXCEPT !.at = "done", !.exit = Nothing]]

Run(p) ==
    \/ Invoke(p) \/ UsageError(p) \/ ReadDocument(p) \/ ReadDerivative(p) \/ ReadManifest(p)
    \/ Work(p) \/ Stage(p) \/ Write(p) \/ Sync(p) \/ Replace(p) \/ CheckFolder(p) \/ FillFolder(p)
    \/ MoveFolder(p) \/ WriteFails(p) \/ Say(p) \/ Leave(p) \/ Kill(p)

CommandsNext == (\E p \in Process : Run(p)) \/ Settle \/ PowerLoss

CommandsSpec == CommandsInit /\ [][CommandsNext]_commandVars

(***************************************************************************)
(* Properties.                                                             *)
(***************************************************************************)
\* A reader of an output, a power loss included, finds no file or one whole
\* document, and never a part of one.  mkstemp, fsync and os.replace, in this
\* order, in _write_text_atomically.
OutputsAreWhole == \A f \in File : files[f] \notin {Damaged, Empty}

\* The exit code tells what there is to be read: after 0 an accepted document
\* was published or printed; after 1, unless a traceback was shown, a report
\* that is not accepted was; after 2 the output is as it was before, but for
\* commands that print a summary after they published.
ExitCodesTellTheOutcome ==
    \A p \in Process : At(p, "done") =>
        LET c == calls[p]
            delivered == c.published \/ c.said
        IN  /\ c.exit = 0 => c.verdict = "accepted" /\ delivered /\ (c.published \/ c.output = Stdout)
            /\ c.exit = 1 => c.verdict = "traceback" \/ (c.verdict = "rejected" /\ c.command.gated /\ delivered)
            /\ c.exit = 2 => ~c.said /\ (c.published => c.command.prints)

\* A verifier that has read a derivative and a manifest has them from one
\* fault, although it reads them one after the other while faults are being
\* injected: a fault directory is published complete and never replaced.
\* Only a power loss may leave a part of one, which nothing flushed.
VerifiersSeeOneFault ==
    /\ \A p \in Process :
          calls[p].seen.manifest # Nothing =>
              calls[p].seen.derivative \in {calls[p].seen.manifest, Damaged}
    /\ outages = 0 => folder.derivative = folder.manifest
=============================================================================
