--------------------------- MODULE CommandsProofs ---------------------------
(***************************************************************************)
(* Proofs about Commands for every set of processes, files and faults, any *)
(* sessions and any number of power losses; and about RunRoot for every    *)
(* set of processes, inputs and releases.                                  *)
(***************************************************************************)
EXTENDS Commands, RunRoot, TLAPS

(***************************************************************************)
(* The commands.                                                           *)
(***************************************************************************)

\* What makes a command's steps sound: it makes documents of a known kind, and
\* one that fills a directory also prints a summary.
Sound(c) == c.makes \notin {"damaged", "empty"} /\ (c.into = "folder" => c.prints)

\* A gate keeps its judgement whether it also prints it or is scored.
LEMMA GateLike == Sound(Gate) /\ Sound(Printed(Gate)) /\ Sound(Scorer)
BY DEF Sound, Gate, Printed, Scorer

\* Every command of the program judges before it delivers.
LEMMA CommandsAreSound == Gate \in Command /\ \A c \in Command : Sound(c)
<1>1. Sound(ImportRoadGraph) /\ Sound(PreparePublicRoadReview)
  BY DEF Sound, ImportRoadGraph, PreparePublicRoadReview, Producer, Gate
<1>2. Sound(ScoreRoadTransition) /\ Sound(ScoreRoadCandidates)
  BY DEF Sound, ScoreRoadTransition, ScoreRoadCandidates, Scorer, Gate
<1>3. Sound(ValidateArtifact) /\ Sound(VerifySyntheticFault) /\ Sound(GenerateSyntheticFixtures)
  BY DEF Sound, ValidateArtifact, VerifySyntheticFault, GenerateSyntheticFixtures, Printed, Gate
<1>4. Sound(ExportPortableArtifact)
  BY DEF Sound, ExportPortableArtifact, Gate
<1>5. Sound(ResumeRun) /\ Sound(ResumeRunDry) /\ Sound(QualifyRunRecovery)
  BY DEF Sound, ResumeRun, ResumeRunDry, QualifyRunRecovery, Printed, Gate
<1>6. Sound(InjectSyntheticFault)
  BY DEF Sound, InjectSyntheticFault, Producer, Gate
<1>7. Gate \in Command
  BY DEF Command, QualifyRoadGraph
<1> QED
  BY GateLike, <1>1, <1>2, <1>3, <1>4, <1>5, <1>6, <1>7
     DEF Command, QualifyRoadGraph, QualifyRoadMatching, QualifyPublicRoadMatching,
         QualifyRoadBins, QualifyTopologyHypotheses, InspectBoreas, QualifyBoreasAdapter,
         IndexBoreas, QualifyScheduler, QualifyObservability, QualifyContracts,
         QualifySyntheticFixtures, QualifyReferenceTrajectory, QualifyTrajectoryIntegrity,
         QualifyLidarIntegrity, QualifyLidarAlignment, QualifyTemporalCheckpoint

(***************************************************************************)
(* The inductive invariant.                                                *)
(***************************************************************************)
Fields == {"at", "may", "command", "source", "output", "verdict", "temp", "staging", "synced",
           "published", "said", "seen", "exit"}

Shape == /\ calls = [p \in Process |-> calls[p]]
         /\ \A p \in Process : DOMAIN calls[p] = Fields

Before == {"idle", "reading", "working"}

Making == {"staging", "writing", "syncing", "replacing", "checking", "filling", "moving"}

\* The work is done and the verdict known.
Judged(c) == c.verdict = "accepted" \/ (c.verdict = "rejected" /\ c.command.gated)

\* What the code after each step relies on.
InOrder(c) ==
    /\ c.command \in Command /\ c.may \subseteq Command
    /\ c.at \in Before \cup Making \cup {"printing", "leaving", "done"}
    /\ c.command.into = "folder" => c.output = Stdout
    /\ c.at = "idle" => c.seen = NoFolder
    /\ c.at \in Before \cup Making => ~c.published /\ ~c.said
    /\ c.at \in Making \cup {"printing", "leaving"} => Judged(c)
    /\ c.at \in {"checking", "filling", "moving"} => c.command.into = "folder"
    /\ c.at = "printing" => ~c.said /\ (c.published => c.command.prints)
                                    /\ (c.published \/ c.output = Stdout)
    /\ c.at = "leaving" => (c.published \/ c.said) /\ (c.published \/ c.output = Stdout)

\* What is renamed over an output was written, and then flushed.
Whole(d) == d \notin {Damaged, Empty}

Flushed(c) == /\ c.at \in {"syncing", "replacing"} => Whole(c.temp)
              /\ c.at = "replacing" => c.synced

\* The exit code agrees with what was delivered.
ExitTells(c) ==
    c.at = "done" =>
        /\ c.exit = 0 => c.verdict = "accepted" /\ (c.published \/ c.said)
                           /\ (c.published \/ c.output = Stdout)
        /\ c.exit = 1 => \/ c.verdict = "traceback"
                         \/ c.verdict = "rejected" /\ c.command.gated /\ (c.published \/ c.said)
        /\ c.exit = 2 => ~c.said /\ (c.published => c.command.prints)

\* A directory whose files, as far as they are whole, are from one fault.
OfOneFault(dir) ==
    \/ dir = NoFolder
    \/ \E x \in Fault : dir.derivative \in {x, Damaged} /\ dir.manifest \in {x, Damaged}

CallInv(c) ==
    /\ InOrder(c) /\ Flushed(c) /\ ExitTells(c)
    /\ c.at = "moving" => \E x \in Fault : c.staging = [derivative |-> x, manifest |-> x]
    /\ c.seen.manifest # Nothing => c.seen.derivative \in {c.seen.manifest, Damaged}

\* A derivative that was read is the one that is there.
ReadInv ==
    \A p \in Process : At(p, "reading") /\ calls[p].seen # NoFolder =>
        calls[p].seen.derivative = folder.derivative /\ folder.derivative # Nothing

FilesInv ==
    /\ DOMAIN files = File /\ DOMAIN kept = File
    /\ \A f \in File : Whole(files[f]) /\ \A d \in kept[f] : Whole(d)

FolderInv ==
    /\ outages \in Nat
    /\ OfOneFault(folder) /\ \A dir \in keptFolder : OfOneFault(dir)
    /\ outages = 0 => folder.derivative = folder.manifest

Inv == Shape /\ (\A p \in Process : CallInv(calls[p])) /\ ReadInv /\ FilesInv /\ FolderInv

\* Nothing has been called.
LEMMA InitInv == CommandsInit => Inv
<1> SUFFICES ASSUME CommandsInit PROVE Inv
  OBVIOUS
<1>1. PICK s \in Sessions : calls = [p \in Process |-> [Idle EXCEPT !.may = s[p]]]
  BY DEF CommandsInit
<1>2. Shape
  BY <1>1 DEF Shape, Fields, Idle
<1>3. ASSUME NEW p \in Process PROVE CallInv(calls[p])
  <2>1. s[p] \subseteq Command
    BY CommandsAssumption
  <2>2. Gate.into # "folder"
    BY DEF Gate
  <2> QED
    BY <1>1, <2>1, <2>2, CommandsAreSound, CommandsAssumption
       DEF CallInv, InOrder, Flushed, ExitTells, Idle, Before, Making, NoFolder
<1>4. ReadInv
  BY <1>1 DEF ReadInv, At, Idle
<1>5. FilesInv
  BY DEF CommandsInit, FilesInv, Whole, Absent, Document, Damaged, Empty
<1>6. FolderInv
  BY DEF CommandsInit, FolderInv, OfOneFault, NoFolder
<1> QED
  BY <1>2, <1>3, <1>4, <1>5, <1>6 DEF Inv

(***************************************************************************)
(* Calls.                                                                  *)
(***************************************************************************)

\* A call changes in the fields it is given, and no other call does.
LEMMA Becoming ==
    ASSUME Shape, NEW p \in Process, NEW r, Become(p, r)
    PROVE  /\ Shape'
           /\ \A q \in Process : q # p => calls'[q] = calls[q]
           /\ \A k \in Fields : calls'[p][k] = IF k \in DOMAIN r THEN r[k] ELSE calls[p][k]
BY DEF Shape, Become

\* What is the same in a call that moves on.
Same(c, d) == /\ c.command = d.command /\ c.output = d.output /\ c.seen = d.seen
              /\ c.published = d.published /\ c.said = d.said

\* A call that ends keeps its invariant if its exit code tells the outcome.
LEMMA Ending ==
    ASSUME Inv, NEW p \in Process, NEW code, End(p, code),
           ExitTells([at |-> "done", exit |-> code, verdict |-> calls[p].verdict,
                      command |-> calls[p].command, output |-> calls[p].output,
                      published |-> calls[p].published, said |-> calls[p].said])
    PROVE  CallInv(calls[p])'
<1> DEFINE c == calls'[p]
<1>1. /\ c.at = "done" /\ c.exit = code /\ c.verdict = calls[p].verdict
      /\ c.may = calls[p].may /\ Same(c, calls[p])
  BY Becoming DEF Inv, End, Fields, Same
<1>2. CallInv(calls[p])
  BY DEF Inv
<1> HIDE DEF c
<1>3. CallInv(c)
  BY <1>1, <1>2 DEF CallInv, InOrder, Flushed, ExitTells, Same, Before, Making
<1> QED
  BY <1>3 DEF c

\* Reading the documents a command asks for.
LEMMA ReadingStep ==
    ASSUME Inv, NEW p \in Process,
           Invoke(p) \/ UsageError(p) \/ ReadDocument(p) \/ ReadDerivative(p) \/ ReadManifest(p)
    PROVE  CallInv(calls[p])'
<1> DEFINE c == calls'[p]
<1>0. CallInv(calls[p]) /\ Shape
  BY DEF Inv
<1>1. CASE Invoke(p)
  <2>1. PICK d \in calls[p].may : \E s \in Sources(d), o \in Destinations(d) :
          Become(p, [at |-> IF d.reads = "nothing" THEN "working" ELSE "reading",
                     may |-> {}, command |-> d, source |-> s, output |-> o])
    BY <1>1 DEF Invoke
  <2>2. PICK s \in Sources(d), o \in Destinations(d) :
          Become(p, [at |-> IF d.reads = "nothing" THEN "working" ELSE "reading",
                     may |-> {}, command |-> d, source |-> s, output |-> o])
    BY <2>1
  <2>3. d.into = "folder" => o = Stdout
    BY DEF Destinations
  <2>4. /\ c.at \in {"working", "reading"} /\ c.may = {} /\ c.command = d /\ c.output = o
        /\ c.seen = calls[p].seen /\ c.published = calls[p].published /\ c.said = calls[p].said
    BY <2>2, <1>0, Becoming DEF Fields
  <2> HIDE DEF c
  <2>5. CallInv(c)
    BY <2>3, <2>4, <1>0, <1>1
       DEF CallInv, InOrder, Flushed, ExitTells, Invoke, At, Before, Making, NoFolder
  <2> QED
    BY <2>5 DEF c
<1>2. CASE UsageError(p)
  BY <1>0, <1>2, Ending DEF UsageError, At, ExitTells, CallInv, InOrder, Before
<1>3. ASSUME NEW seen, Become(p, [at |-> "working", seen |-> seen]), At(p, "reading"),
             seen.manifest # Nothing => seen.derivative \in {seen.manifest, Damaged}
      PROVE  CallInv(c)
  <2>1. /\ c.at = "working" /\ c.seen = seen /\ c.may = calls[p].may
        /\ c.command = calls[p].command /\ c.output = calls[p].output
        /\ c.published = calls[p].published /\ c.said = calls[p].said
    BY <1>0, <1>3, Becoming DEF Fields
  <2> HIDE DEF c
  <2> QED
    BY <2>1, <1>0, <1>3 DEF CallInv, InOrder, Flushed, ExitTells, At, Before, Making
<1>4. CASE ReadDocument(p)
  <2>1. CASE End(p, 2)
    BY <1>0, <1>4, <2>1, Ending DEF ReadDocument, At, ExitTells, CallInv, InOrder, Before
  <2>2. CASE Become(p, [at |-> "working"])
    <3>1. /\ c.at = "working" /\ c.seen = calls[p].seen /\ c.may = calls[p].may
          /\ c.command = calls[p].command /\ c.output = calls[p].output
          /\ c.published = calls[p].published /\ c.said = calls[p].said
      BY <1>0, <2>2, Becoming DEF Fields
    <3> HIDE DEF c
    <3>2. CallInv(c)
      BY <3>1, <1>0, <1>4
         DEF CallInv, InOrder, Flushed, ExitTells, ReadDocument, At, Before, Making
    <3> QED
      BY <3>2 DEF c
  <2> QED
    BY <1>4, <2>1, <2>2 DEF ReadDocument
<1>5. CASE ReadDerivative(p)
  <2>1. CASE End(p, 2)
    BY <1>0, <1>5, <2>1, Ending DEF ReadDerivative, At, ExitTells, CallInv, InOrder, Before
  <2>2. CASE Become(p, [seen |-> [derivative |-> folder.derivative, manifest |-> Nothing]])
    <3>1. /\ c.at = calls[p].at /\ c.seen.manifest = Nothing /\ c.may = calls[p].may
          /\ c.command = calls[p].command /\ c.output = calls[p].output
          /\ c.published = calls[p].published /\ c.said = calls[p].said
      BY <1>0, <2>2, Becoming DEF Fields
    <3> HIDE DEF c
    <3>2. CallInv(c)
      BY <3>1, <1>0, <1>5
         DEF CallInv, InOrder, Flushed, ExitTells, ReadDerivative, At, Before, Making
    <3> QED
      BY <3>2 DEF c
  <2> QED
    BY <1>5, <2>1, <2>2 DEF ReadDerivative
<1>6. CASE ReadManifest(p)
  <2>1. CASE End(p, 2)
    BY <1>0, <1>6, <2>1, Ending DEF ReadManifest, At, ExitTells, CallInv, InOrder, Before
  <2>2. CASE folder.manifest \notin {Nothing, Damaged}
    <3>1. folder.derivative \in {folder.manifest, Damaged}
      BY <2>2 DEF Inv, FolderInv, OfOneFault, NoFolder
    <3>2. calls[p].seen.derivative = folder.derivative
      BY <1>6 DEF Inv, ReadInv, ReadManifest
    <3>3. Become(p, [at |-> "working", seen |-> [derivative |-> calls[p].seen.derivative,
                                                 manifest |-> folder.manifest]])
      BY <1>6, <2>2 DEF ReadManifest
    <3> QED
      BY <1>3, <1>6, <3>1, <3>2, <3>3 DEF ReadManifest
  <2> QED
    BY <1>6, <2>1, <2>2 DEF ReadManifest
<1> QED
  BY <1>1, <1>2, <1>4, <1>5, <1>6

\* The work between the inputs and the answer.
LEMMA WorkStep ==
    ASSUME Inv, NEW p \in Process, Work(p)
    PROVE  CallInv(calls[p])'
<1> DEFINE c == calls'[p]
<1>0. CallInv(calls[p]) /\ Shape
  BY DEF Inv
<1>1. ASSUME NEW v, v = "accepted" \/ (v = "rejected" /\ calls[p].command.gated),
             Become(p, [verdict |-> v,
                        at |-> IF calls[p].command.into = "folder" THEN "checking"
                               ELSE IF calls[p].output = Stdout THEN "printing" ELSE "staging"])
      PROVE  CallInv(calls[p])'
  <2>1. /\ c.verdict = v /\ c.may = calls[p].may /\ Same(c, calls[p])
        /\ c.at = IF calls[p].command.into = "folder" THEN "checking"
                  ELSE IF calls[p].output = Stdout THEN "printing" ELSE "staging"
    BY <1>0, <1>1, Becoming DEF Fields, Same
  <2> HIDE DEF c
  <2>2. CallInv(c)
    BY <2>1, <1>0, <1>1
       DEF CallInv, InOrder, Flushed, ExitTells, Judged, Same, Work, At, Before, Making
  <2> QED
    BY <2>2 DEF c
<1>2. ASSUME NEW e, Raise(p, e)
      PROVE  CallInv(calls[p])'
  <2>1. CASE End(p, 2)
    BY <1>0, <2>1, Ending DEF Work, At, ExitTells, CallInv, InOrder, Before
  <2>2. CASE Become(p, [at |-> "done", exit |-> 1, verdict |-> "traceback"])
    <3>1. /\ c.at = "done" /\ c.exit = 1 /\ c.verdict = "traceback"
          /\ c.may = calls[p].may /\ Same(c, calls[p])
      BY <1>0, <2>2, Becoming DEF Fields, Same
    <3> HIDE DEF c
    <3>2. CallInv(c)
      BY <3>1, <1>0 DEF CallInv, InOrder, Flushed, ExitTells, Same, Before, Making
    <3> QED
      BY <3>2 DEF c
  <2> QED
    BY <1>2, <2>1, <2>2 DEF Raise
<1>3. CASE \E e \in Errors : Raise(p, e)
  BY <1>2, <1>3
<1> QED
  BY <1>1, <1>3 DEF Work

\* An output is staged, written, flushed and renamed.
LEMMA MakingStep ==
    ASSUME Inv, NEW p \in Process,
           Stage(p) \/ Write(p) \/ Sync(p) \/ Replace(p)
    PROVE  CallInv(calls[p])'
<1> DEFINE c == calls'[p]
<1>0. /\ CallInv(calls[p]) /\ Shape
      /\ Sound(calls[p].command)
  BY CommandsAreSound DEF Inv, CallInv, InOrder
<1>1. CASE Stage(p)
  <2>1. /\ c.at = "writing" /\ c.verdict = calls[p].verdict
        /\ c.may = calls[p].may /\ Same(c, calls[p])
    BY <1>0, <1>1, Becoming DEF Stage, Fields, Same
  <2> HIDE DEF c
  <2>2. CallInv(c)
    BY <2>1, <1>0, <1>1
       DEF CallInv, InOrder, Flushed, ExitTells, Judged, Same, Stage, At, Before, Making
  <2> QED
    BY <2>2 DEF c
<1>2. CASE Write(p)
  <2>1. /\ c.at = "syncing" /\ c.verdict = calls[p].verdict
        /\ c.temp = Document(calls[p].command.makes, calls[p].verdict = "accepted")
        /\ c.may = calls[p].may /\ Same(c, calls[p])
    BY <1>0, <1>2, Becoming DEF Write, Fields, Same
  <2>2. Whole(c.temp)
    BY <2>1, <1>0 DEF Whole, Document, Damaged, Empty, Sound
  <2> HIDE DEF c
  <2>3. CallInv(c)
    BY <2>1, <2>2, <1>0, <1>2
       DEF CallInv, InOrder, Flushed, ExitTells, Judged, Same, Write, At, Before, Making
  <2> QED
    BY <2>3 DEF c
<1>3. CASE Sync(p)
  <2>1. /\ c.at = "replacing" /\ c.synced = TRUE /\ c.verdict = calls[p].verdict
        /\ c.temp = calls[p].temp /\ c.may = calls[p].may /\ Same(c, calls[p])
    BY <1>0, <1>3, Becoming DEF Sync, Fields, Same
  <2> HIDE DEF c
  <2>2. CallInv(c)
    BY <2>1, <1>0, <1>3
       DEF CallInv, InOrder, Flushed, ExitTells, Judged, Same, Sync, At, Before, Making
  <2> QED
    BY <2>2 DEF c
<1>4. CASE Replace(p)
  <2>1. /\ c.at = IF calls[p].command.prints THEN "printing" ELSE "leaving"
        /\ c.published = TRUE /\ c.said = calls[p].said /\ c.verdict = calls[p].verdict
        /\ c.command = calls[p].command /\ c.output = calls[p].output
        /\ c.seen = calls[p].seen /\ c.may = calls[p].may
    BY <1>0, <1>4, Becoming DEF Replace, Fields
  <2> HIDE DEF c
  <2>2. CallInv(c)
    BY <2>1, <1>0, <1>4
       DEF CallInv, InOrder, Flushed, ExitTells, Judged, Replace, At, Before, Making
  <2> QED
    BY <2>2 DEF c
<1> QED
  BY <1>1, <1>2, <1>3, <1>4

\* A fault directory is checked, filled and moved.
LEMMA FillingStep ==
    ASSUME Inv, NEW p \in Process, CheckFolder(p) \/ FillFolder(p) \/ MoveFolder(p)
    PROVE  CallInv(calls[p])'
<1> DEFINE c == calls'[p]
<1>0. /\ CallInv(calls[p]) /\ Shape
      /\ Sound(calls[p].command)
  BY CommandsAreSound DEF Inv, CallInv, InOrder
<1>1. CASE CheckFolder(p)
  <2>1. CASE End(p, 2)
    BY <1>0, <1>1, <2>1, Ending DEF CheckFolder, At, ExitTells, CallInv, InOrder, Making
  <2>2. CASE Become(p, [at |-> "filling"])
    <3>1. /\ c.at = "filling" /\ c.verdict = calls[p].verdict
          /\ c.may = calls[p].may /\ Same(c, calls[p])
      BY <1>0, <2>2, Becoming DEF Fields, Same
    <3> HIDE DEF c
    <3>2. CallInv(c)
      BY <3>1, <1>0, <1>1
         DEF CallInv, InOrder, Flushed, ExitTells, Judged, Same, CheckFolder, At, Before, Making
    <3> QED
      BY <3>2 DEF c
  <2> QED
    BY <1>1, <2>1, <2>2 DEF CheckFolder
<1>2. CASE FillFolder(p)
  <2>1. PICK f \in Fault :
          \/ Become(p, [staging |-> [derivative |-> f, manifest |-> Nothing]])
          \/ Become(p, [staging |-> [derivative |-> f, manifest |-> f], at |-> "moving"])
    BY <1>2 DEF FillFolder
  <2>2. /\ c.verdict = calls[p].verdict /\ c.may = calls[p].may /\ Same(c, calls[p])
        /\ \/ c.at = calls[p].at
           \/ c.at = "moving" /\ c.staging = [derivative |-> f, manifest |-> f]
    BY <1>0, <2>1, Becoming DEF Fields, Same
  <2> HIDE DEF c
  <2>3. CallInv(c)
    BY <2>2, <1>0, <1>2
       DEF CallInv, InOrder, Flushed, ExitTells, Judged, Same, FillFolder, At, Before, Making
  <2> QED
    BY <2>3 DEF c
<1>3. CASE MoveFolder(p)
  <2>1. CASE End(p, 2)
    BY <1>0, <1>3, <2>1, Ending DEF MoveFolder, At, ExitTells, CallInv, InOrder, Making
  <2>2. CASE Become(p, [at |-> "printing", staging |-> NoFolder, published |-> TRUE])
    <3>1. /\ c.at = "printing" /\ c.published = TRUE /\ c.said = calls[p].said
          /\ c.verdict = calls[p].verdict /\ c.command = calls[p].command
          /\ c.output = calls[p].output /\ c.seen = calls[p].seen /\ c.may = calls[p].may
      BY <1>0, <2>2, Becoming DEF Fields
    <3> HIDE DEF c
    <3>2. CallInv(c)
      BY <3>1, <1>0, <1>3
         DEF CallInv, InOrder, Flushed, ExitTells, Judged, MoveFolder, At, Before, Making, Sound
    <3> QED
      BY <3>2 DEF c
  <2> QED
    BY <1>3, <2>1, <2>2 DEF MoveFolder
<1> QED
  BY <1>1, <1>2, <1>3

\* A write fails, an answer is printed, an exit code ends the call, or a kill does.
LEMMA LeavingStep ==
    ASSUME Inv, NEW p \in Process, WriteFails(p) \/ Say(p) \/ Leave(p) \/ Kill(p)
    PROVE  CallInv(calls[p])'
<1> DEFINE c == calls'[p]
<1>0. CallInv(calls[p]) /\ Shape
  BY DEF Inv
<1>1. CASE WriteFails(p)
  BY <1>0, <1>1, Ending DEF WriteFails, ExitTells, CallInv, InOrder, Making
<1>2. CASE Say(p)
  <2>1. /\ c.at = "leaving" /\ c.said = TRUE /\ c.published = calls[p].published
        /\ c.verdict = calls[p].verdict /\ c.command = calls[p].command
        /\ c.output = calls[p].output /\ c.seen = calls[p].seen /\ c.may = calls[p].may
    BY <1>0, <1>2, Becoming DEF Say, Fields
  <2> HIDE DEF c
  <2>2. CallInv(c)
    BY <2>1, <1>0, <1>2
       DEF CallInv, InOrder, Flushed, ExitTells, Judged, Say, At, Before, Making
  <2> QED
    BY <2>2 DEF c
<1>3. CASE Leave(p)
  BY <1>0, <1>3, Ending DEF Leave, At, ExitTells, CallInv, InOrder, Judged
<1>4. CASE Kill(p)
  <2>1. /\ c.at = "done" /\ c.exit = Nothing /\ c.may = calls[p].may /\ Same(c, calls[p])
    BY <1>0, <1>4, Becoming DEF Kill, Fields, Same
  <2> HIDE DEF c
  <2>2. CallInv(c)
    BY <2>1, <1>0, CommandsAssumption
       DEF CallInv, InOrder, Flushed, ExitTells, Same, Before, Making
  <2> QED
    BY <2>2 DEF c
<1> QED
  BY <1>1, <1>2, <1>3, <1>4

\* Every step of a process is a change of its own call.
LEMMA RunBecomes ==
    ASSUME NEW p \in Process, Run(p)
    PROVE  \E r : Become(p, r)
<1>1. ASSUME NEW code, End(p, code) PROVE \E r : Become(p, r)
  BY <1>1 DEF End
<1>2. ASSUME NEW e, Raise(p, e) PROVE \E r : Become(p, r)
  BY <1>1, <1>2 DEF Raise
<1>3. CASE Invoke(p)
  BY <1>3 DEF Invoke
<1>4. CASE UsageError(p) \/ ReadDocument(p) \/ ReadDerivative(p) \/ ReadManifest(p)
  BY <1>1, <1>4 DEF UsageError, ReadDocument, ReadDerivative, ReadManifest
<1>5. CASE Work(p)
  BY <1>2, <1>5 DEF Work
<1>6. CASE Stage(p) \/ Write(p) \/ Sync(p) \/ Replace(p)
  BY <1>6 DEF Stage, Write, Sync, Replace
<1>7. CASE CheckFolder(p) \/ FillFolder(p) \/ MoveFolder(p)
  BY <1>1, <1>7 DEF CheckFolder, FillFolder, MoveFolder
<1>8. CASE WriteFails(p) \/ Say(p) \/ Leave(p) \/ Kill(p)
  BY <1>1, <1>8 DEF WriteFails, Say, Leave, Kill
<1> QED
  BY <1>3, <1>4, <1>5, <1>6, <1>7, <1>8 DEF Run

\* Every call keeps the invariant, whichever call takes a step.
LEMMA CallsStep ==
    ASSUME Inv, NEW p \in Process, Run(p)
    PROVE  /\ Shape'
           /\ \A q \in Process : q # p => calls'[q] = calls[q]
           /\ \A q \in Process : CallInv(calls[q])'
<1>1. PICK r : Become(p, r)
  BY RunBecomes
<1>2. Shape' /\ \A q \in Process : q # p => calls'[q] = calls[q]
  BY <1>1, Becoming DEF Inv
<1>3. CallInv(calls[p])'
  BY ReadingStep, WorkStep, MakingStep, FillingStep, LeavingStep DEF Run
<1>4. ASSUME NEW q \in Process, q # p PROVE CallInv(calls[q])'
  <2>1. calls'[q] = calls[q] /\ CallInv(calls[q])
    BY <1>2, <1>4 DEF Inv
  <2> QED
    BY <2>1
<1> QED
  BY <1>2, <1>3, <1>4

(***************************************************************************)
(* Files.                                                                  *)
(***************************************************************************)
LEMMA RunWriters ==
    ASSUME NEW p \in Process, Run(p)
    PROVE  FilesUnchanged \/ Replace(p) \/ MoveFolder(p)
BY DEF Run, Invoke, UsageError, ReadDocument, ReadDerivative, ReadManifest, Work, Stage, Write,
       Sync, CheckFolder, FillFolder, WriteFails, Say, Leave, Kill

\* A rename puts a whole document, flushed before, in the place of another one.
LEMMA FilesStep ==
    ASSUME Inv, NEW p \in Process, Run(p)
    PROVE  FilesInv'
<1>1. CASE FilesUnchanged \/ MoveFolder(p)
  BY <1>1 DEF Inv, FilesInv, FilesUnchanged, MoveFolder, Whole
<1>2. CASE Replace(p)
  <2>1. Whole(calls[p].temp) /\ calls[p].synced
    BY <1>2 DEF Inv, CallInv, Flushed, Replace, At
  <2>2. /\ files' = [files EXCEPT ![calls[p].output] = calls[p].temp]
        /\ kept' = [kept EXCEPT ![calls[p].output] = @ \cup {calls[p].temp} \cup {}]
    BY <1>2, <2>1 DEF Replace
  <2> QED
    BY <2>1, <2>2 DEF Inv, FilesInv
<1> QED
  BY <1>1, <1>2, RunWriters

\* A fault directory appears complete, and only where there is none.
LEMMA FolderStep ==
    ASSUME Inv, NEW p \in Process, Run(p)
    PROVE  FolderInv' /\ (folder' = folder \/ folder = NoFolder)
<1>1. CASE FilesUnchanged \/ Replace(p)
  BY <1>1 DEF Inv, FolderInv, FilesUnchanged, Replace, OfOneFault
<1>2. CASE MoveFolder(p) /\ folder # NoFolder
  BY <1>2 DEF Inv, FolderInv, MoveFolder, OfOneFault
<1>3. CASE MoveFolder(p) /\ folder = NoFolder
  <2>1. PICK x \in Fault : calls[p].staging = [derivative |-> x, manifest |-> x]
    BY <1>3 DEF Inv, CallInv, MoveFolder, At
  <2>2. \A dir \in Unflushed(calls[p].staging) : OfOneFault(dir)
    BY <2>1 DEF Unflushed, OfOneFault
  <2>3. /\ folder' = calls[p].staging /\ outages' = outages
        /\ keptFolder' = Unflushed(calls[p].staging) \cup {NoFolder}
    BY <1>3 DEF MoveFolder
  <2>4. OfOneFault(folder)' /\ folder'.derivative = folder'.manifest
    BY <2>1, <2>3 DEF OfOneFault
  <2>5. \A dir \in keptFolder' : OfOneFault(dir)
    BY <2>2, <2>3 DEF OfOneFault
  <2>6. outages \in Nat
    BY DEF Inv, FolderInv
  <2>7. FolderInv'
    BY <2>3, <2>4, <2>5, <2>6 DEF FolderInv, OfOneFault
  <2> QED
    BY <1>3, <2>7
<1> QED
  BY <1>1, <1>2, <1>3, RunWriters

\* Only an invocation and the reading of a derivative leave a call reading.
LEMMA LeavesReading ==
    ASSUME Shape, NEW p \in Process, Run(p), ~Invoke(p), ~ReadDerivative(p)
    PROVE  calls'[p].at # "reading"
<1>1. ASSUME NEW code, End(p, code) PROVE calls'[p].at = "done"
  BY <1>1, Becoming DEF End, Fields
<1>2. CASE UsageError(p) \/ WriteFails(p) \/ Leave(p)
  BY <1>1, <1>2 DEF UsageError, WriteFails, Leave
<1>3. CASE ReadDocument(p)
  <2>1. CASE Become(p, [at |-> "working"])
    BY <2>1, Becoming DEF Fields
  <2> QED
    BY <1>1, <1>3, <2>1 DEF ReadDocument
<1>4. CASE ReadManifest(p)
  <2>1. ASSUME NEW seen, Become(p, [at |-> "working", seen |-> seen]) PROVE calls'[p].at = "working"
    BY <2>1, Becoming DEF Fields
  <2> QED
    BY <1>1, <1>4, <2>1 DEF ReadManifest
<1>5. CASE Work(p)
  <2>1. ASSUME NEW v, NEW place \in {"checking", "printing", "staging"},
               Become(p, [verdict |-> v, at |-> place])
        PROVE  calls'[p].at # "reading"
    BY <2>1, Becoming DEF Fields
  <2>2. ASSUME NEW e, Raise(p, e) PROVE calls'[p].at # "reading"
    <3>1. CASE Become(p, [at |-> "done", exit |-> 1, verdict |-> "traceback"])
      BY <3>1, Becoming DEF Fields
    <3> QED
      BY <1>1, <2>2, <3>1 DEF Raise
  <2> QED
    BY <1>5, <2>1, <2>2 DEF Work
<1>6. CASE Stage(p) \/ Write(p) \/ Sync(p) \/ Kill(p) \/ Say(p)
  <2>1. CASE Stage(p)
    BY <2>1, Becoming DEF Stage, Fields
  <2>2. CASE Write(p)
    BY <2>2, Becoming DEF Write, Fields
  <2>3. CASE Sync(p)
    BY <2>3, Becoming DEF Sync, Fields
  <2>4. CASE Kill(p)
    BY <2>4, Becoming DEF Kill, Fields
  <2>5. CASE Say(p)
    BY <2>5, Becoming DEF Say, Fields
  <2> QED
    BY <1>6, <2>1, <2>2, <2>3, <2>4, <2>5
<1>7. CASE Replace(p)
  BY <1>7, Becoming DEF Replace, Fields
<1>8. CASE CheckFolder(p)
  <2>1. CASE Become(p, [at |-> "filling"])
    BY <2>1, Becoming DEF Fields
  <2> QED
    BY <1>1, <1>8, <2>1 DEF CheckFolder
<1>9. CASE FillFolder(p)
  <2>1. PICK f \in Fault :
          \/ Become(p, [staging |-> [derivative |-> f, manifest |-> Nothing]])
          \/ Become(p, [staging |-> [derivative |-> f, manifest |-> f], at |-> "moving"])
    BY <1>9 DEF FillFolder
  <2> QED
    BY <1>9, <2>1, Becoming DEF FillFolder, Fields, At
<1>10. CASE MoveFolder(p)
  <2>1. CASE Become(p, [at |-> "printing", staging |-> NoFolder, published |-> TRUE])
    BY <2>1, Becoming DEF Fields
  <2> QED
    BY <1>1, <1>10, <2>1 DEF MoveFolder
<1> QED
  BY <1>2, <1>3, <1>4, <1>5, <1>6, <1>7, <1>8, <1>9, <1>10 DEF Run

\* What a verifier has read stays what is there.
LEMMA ReadStep ==
    ASSUME Inv, NEW p \in Process, Run(p)
    PROVE  ReadInv'
<1> SUFFICES ASSUME NEW q \in Process, At(q, "reading")', calls'[q].seen # NoFolder
             PROVE  calls'[q].seen.derivative = folder'.derivative /\ folder'.derivative # Nothing
  BY DEF ReadInv
<1>0. Shape /\ ReadInv /\ CallInv(calls[p])
  BY DEF Inv
<1>1. ASSUME At(q, "reading"), calls[q].seen # NoFolder, calls'[q].seen = calls[q].seen
      PROVE  calls'[q].seen.derivative = folder'.derivative /\ folder'.derivative # Nothing
  BY <1>0, <1>1, FolderStep DEF ReadInv, NoFolder
<1>2. CASE q # p
  BY <1>1, <1>2, CallsStep DEF At
<1>3. CASE q = p /\ ReadDerivative(p)
  <2>1. CASE End(p, 2)
    BY <1>0, <1>3, <2>1, Becoming DEF End, Fields, At
  <2>2. CASE Become(p, [seen |-> [derivative |-> folder.derivative, manifest |-> Nothing]])
    <3>1. calls'[p].seen = [derivative |-> folder.derivative, manifest |-> Nothing]
      BY <1>0, <2>2, Becoming DEF Fields
    <3>2. folder' = folder
      BY <1>3 DEF ReadDerivative, FilesUnchanged
    <3>3. folder.derivative # Nothing
      BY <1>3, <3>1, <3>2 DEF NoFolder
    <3> QED
      BY <1>3, <3>1, <3>2, <3>3
  <2> QED
    BY <1>3, <2>1, <2>2 DEF ReadDerivative
<1>4. CASE q = p /\ Invoke(p)
  <2>1. calls'[p].seen = calls[p].seen
    BY <1>0, <1>4, Becoming DEF Invoke, Fields
  <2> QED
    BY <1>0, <1>4, <2>1 DEF CallInv, InOrder, Invoke, At
<1>5. CASE q = p /\ ~ReadDerivative(p) /\ ~Invoke(p)
  <2>1. calls'[p].at # "reading"
    BY <1>0, <1>5, LeavesReading
  <2> QED
    BY <1>5, <2>1 DEF At
<1> QED
  BY <1>2, <1>3, <1>4, <1>5

(***************************************************************************)
(* The system.                                                             *)
(***************************************************************************)
LEMMA PowerLossStep == ASSUME Inv, PowerLoss PROVE Inv'
<1>1. \A p \in Process : \/ At(p, "idle") /\ calls'[p] = calls[p]
                         \/ calls'[p] = [calls[p] EXCEPT !.at = "done", !.exit = Nothing]
  BY DEF PowerLoss
<1>2. Shape'
  BY <1>1 DEF PowerLoss, Inv, Shape
<1>3. ASSUME NEW p \in Process PROVE CallInv(calls[p])'
  <2> DEFINE c == calls'[p]
  <2>1. CallInv(calls[p]) /\ DOMAIN calls[p] = Fields
    BY DEF Inv, Shape
  <2>2. CASE c = calls[p]
    BY <2>1, <2>2
  <2>3. CASE c = [calls[p] EXCEPT !.at = "done", !.exit = Nothing]
    <3>1. c.at = "done" /\ c.exit = Nothing /\ c.may = calls[p].may /\ Same(c, calls[p])
      BY <2>1, <2>3 DEF Fields, Same
    <3> HIDE DEF c
    <3>2. CallInv(c)
      BY <3>1, <2>1, CommandsAssumption
         DEF CallInv, InOrder, Flushed, ExitTells, Same, Before, Making
    <3> QED
      BY <3>2 DEF c
  <2> QED
    BY <1>1, <2>2, <2>3
<1>4. ReadInv'
  <2> SUFFICES ASSUME NEW p \in Process PROVE calls'[p].at # "reading"
    BY DEF ReadInv, At
  <2>1. DOMAIN calls[p] = Fields
    BY DEF Inv, Shape
  <2> QED
    BY <1>1, <2>1 DEF At, Fields
<1>5. FilesInv'
  BY DEF PowerLoss, Inv, FilesInv
<1>6. FolderInv'
  <2>1. /\ folder' \in keptFolder /\ keptFolder' = {folder'} /\ outages' = outages + 1
        /\ outages \in Nat /\ \A dir \in keptFolder : OfOneFault(dir)
    BY DEF PowerLoss, Inv, FolderInv
  <2>2. OfOneFault(folder')
    BY <2>1
  <2>3. OfOneFault(folder)' /\ \A dir \in keptFolder' : OfOneFault(dir)
    BY <2>1, <2>2 DEF OfOneFault
  <2>4. outages' \in Nat /\ outages' # 0
    BY <2>1
  <2> QED
    BY <2>3, <2>4 DEF FolderInv, OfOneFault
<1> QED
  BY <1>2, <1>3, <1>4, <1>5, <1>6 DEF Inv

\* One step of the system.
LEMMA NextStep == ASSUME Inv, [CommandsNext]_commandVars PROVE Inv'
<1>1. CASE UNCHANGED commandVars
  BY <1>1 DEF commandVars, Inv, Shape, CallInv, InOrder, Flushed, ExitTells, Judged, ReadInv, At,
              FilesInv, FolderInv, OfOneFault, Whole
<1>2. ASSUME NEW p \in Process, Run(p) PROVE Inv'
  BY <1>2, CallsStep, FilesStep, FolderStep, ReadStep DEF Inv
<1>3. CASE Settle
  BY <1>3 DEF Settle, Inv, Shape, CallInv, InOrder, Flushed, ExitTells, Judged, ReadInv, At,
              FilesInv, FolderInv, OfOneFault, Whole
<1> QED
  BY <1>1, <1>2, <1>3, PowerLossStep DEF CommandsNext

\* The invariant in every reachable state.
LEMMA Invariance == CommandsSpec => []Inv
<1>1. Inv /\ [CommandsNext]_commandVars => Inv'
  BY NextStep
<1> QED
  BY InitInv, <1>1, PTL DEF CommandsSpec

\* For every set of commands that run beside each other, and whatever is killed
\* or loses power, an output holds nothing or one whole document
\* (_write_text_atomically).
THEOREM OutputsStayWhole == CommandsSpec => []OutputsAreWhole
<1>1. Inv => OutputsAreWhole
  BY DEF Inv, FilesInv, Whole, OutputsAreWhole
<1> QED
  BY <1>1, Invariance, PTL

\* For every command and every point at which it may fail, its exit code agrees
\* with what it delivered (the handlers and typer.Exit of every command).
THEOREM ExitCodesAreHonest == CommandsSpec => []ExitCodesTellTheOutcome
<1>1. Inv => ExitCodesTellTheOutcome
  BY DEF Inv, CallInv, ExitTells, ExitCodesTellTheOutcome, At
<1> QED
  BY <1>1, Invariance, PTL

\* For any number of injections and verifiers, what a verifier has read is of
\* one fault (materialize_fault_result, verify-synthetic-fault).
THEOREM FaultsStayTogether == CommandsSpec => []VerifiersSeeOneFault
<1>1. Inv => VerifiersSeeOneFault
  BY DEF Inv, CallInv, FolderInv, VerifiersSeeOneFault
<1> QED
  BY <1>1, Invariance, PTL

(***************************************************************************)
(* One engine on a run root.                                               *)
(***************************************************************************)

\* Steps of an opener that writes the inputs, of one that has them, and those
\* behind the lock.
Writing == {"write", "fill"}
Loaded == {"validate", "lock", "identify", "active"}
Locked == {"identify", "active"}

OpenersTyped ==
    opener \in [Opener -> [at : {"away", "open", "create"} \cup Writing \cup Loaded,
                           inputs : InputSet \cup {Missing},
                           stages : Definitions \cup {<<>>}]]

\* The files of the root fit each other.
FilesFit ==
    /\ inputsFile \in InputSet \cup {Missing, "torn"}
    /\ inputsFile # Missing => rootMade
    /\ identity # Missing => inputsFile \in InputSet /\ identity.inputs = inputsFile

\* An opener fits the files, the lock and the identity.
OpenerFits(p) ==
    /\ opener[p].at \in {"create"} \cup Writing => opener[p].inputs \in InputSet
    /\ opener[p].at \in Writing => rootMade
    /\ opener[p].at = "write" => inputsFile = Missing
    /\ opener[p].at = "fill" => inputsFile = "torn"
    /\ opener[p].at \in Loaded => inputsFile \in InputSet /\ opener[p].inputs = inputsFile
    /\ opener[p].at \in Loaded \ {"validate"} => ValidDefinitions(opener[p].stages)
    /\ opener[p].at \in Locked => lockHolder = p
    /\ opener[p].at = "active" => identity = IdentityOf(p)

\* The process that writes the inputs is alone with them, since only one made
\* the root: until they are whole nobody has loaded any.
RootInv ==
    /\ OpenersTyped
    /\ FilesFit
    /\ \A p \in Opener : OpenerFits(p)
    /\ \A p, q \in Opener : opener[p].at \in Writing /\ opener[q].at \in Writing => p = q


\* Only p's record changes, and it stays a record.
OnlyMoves(p) ==
    /\ OpenersTyped'
    /\ \A q \in Opener \ {p} : opener'[q] = opener[q]

\* p takes its inputs and definitions to a step.
Moved(p, step) ==
    /\ opener'[p].at = step
    /\ opener'[p].inputs = opener[p].inputs
    /\ opener'[p].stages = opener[p].stages

\* A process that goes away leaves no trace among the openers.
LEMMA GoAwayMoves ==
    ASSUME NEW p \in Opener, OpenersTyped, GoAway(p)
    PROVE  OnlyMoves(p) /\ opener'[p] = Outside
BY DEF GoAway, Outside, OnlyMoves, OpenersTyped

\* A step takes its process along.
LEMMA ContinueMoves ==
    ASSUME NEW p \in Opener, OpenersTyped, NEW step \in {"open", "create"} \cup Writing \cup Loaded,
           Continue(p, step)
    PROVE  OnlyMoves(p) /\ Moved(p, step)
BY DEF Continue, OnlyMoves, Moved, OpenersTyped, Writing, Loaded

\* What a step of p must show beyond the records: the files fit, p fits them,
\* whoever fitted them still does, and p does not write beside another.
LEMMA FitsTogether ==
    ASSUME NEW p \in Opener, RootInv, OnlyMoves(p), FilesFit', OpenerFits(p)',
           \A q \in Opener \ {p} : OpenerFits(q)',
           opener'[p].at \in Writing => \A q \in Opener \ {p} : opener[q].at \notin Writing
    PROVE  RootInv'
<1>1. \A r \in Opener : OpenerFits(r)'
  OBVIOUS
<1>2. \A r, q \in Opener : opener'[r].at \in Writing /\ opener'[q].at \in Writing => r = q
  BY DEF RootInv, OnlyMoves
<1> QED
  BY <1>1, <1>2 DEF RootInv, OnlyMoves

\* Somebody who stands where files and lock are left alone still fits them.
LEMMA OthersFit ==
    ASSUME NEW p \in Opener, RootInv, OnlyMoves(p), NEW q \in Opener \ {p},
           rootMade => rootMade',
           opener[q].at \in Writing \cup Loaded => inputsFile' = inputsFile,
           opener[q].at \in Locked => lockHolder' = lockHolder,
           opener[q].at = "active" => identity' = identity
    PROVE  OpenerFits(q)'
<1>1. OpenerFits(q) /\ opener'[q] = opener[q]
  BY DEF RootInv, OnlyMoves
<1> QED
  BY <1>1 DEF OpenerFits, IdentityOf, Writing, Loaded, Locked

\* A process looks for the root.
LEMMA ApproachKeeps ==
    ASSUME NEW p \in Opener, RootInv, Approach(p)
    PROVE  RootInv'
<1>0. OpenersTyped /\ FilesFit /\ OpenerFits(p)
  BY DEF RootInv
<1>1. OnlyMoves(p) /\ (opener'[p].at = "open" \/ (opener'[p].at = "create" /\ opener'[p].inputs \in InputSet))
  BY <1>0 DEF Approach, OnlyMoves, OpenersTyped
<1>2. UNCHANGED <<rootMade, inputsFile, identity, lockHolder>>
  BY DEF Approach
<1>3. \A q \in Opener \ {p} : OpenerFits(q)'
  BY <1>1, <1>2, OthersFit
<1>4. FilesFit' /\ OpenerFits(p)' /\ opener'[p].at \notin Writing
  BY <1>0, <1>1, <1>2 DEF FilesFit, OpenerFits, Writing, Loaded, Locked
<1> QED
  BY <1>1, <1>3, <1>4, FitsTogether

\* The root is made once.
LEMMA MakeRootKeeps ==
    ASSUME NEW p \in Opener, RootInv, MakeRoot(p)
    PROVE  RootInv'
<1>0. OpenersTyped /\ FilesFit /\ OpenerFits(p)
  BY DEF RootInv
<1>1. OnlyMoves(p) /\ (opener'[p] = Outside \/ (~rootMade /\ Moved(p, "write")))
  BY <1>0, GoAwayMoves, ContinueMoves DEF MakeRoot, Writing
<1>2. rootMade' /\ UNCHANGED <<inputsFile, identity, lockHolder>>
  BY DEF MakeRoot
<1>3. \A q \in Opener \ {p} : OpenerFits(q)'
  BY <1>1, <1>2, OthersFit
<1>4. FilesFit'
  BY <1>0, <1>2 DEF FilesFit
<1>5. OpenerFits(p)'
  BY <1>0, <1>1, <1>2 DEF MakeRoot, Stands, Outside, Moved, FilesFit, OpenerFits, Writing, Loaded, Locked
<1>6. opener'[p].at \in Writing => \A q \in Opener \ {p} : opener[q].at \notin Writing
  BY <1>1 DEF Outside, RootInv, OpenerFits, Writing
<1> QED
  BY <1>1, <1>3, <1>4, <1>5, <1>6, FitsTogether

\* The inputs' file is created by the one who made the root.
LEMMA CreateInputsKeeps ==
    ASSUME NEW p \in Opener, RootInv, CreateInputs(p)
    PROVE  RootInv'
<1>0. OpenersTyped /\ FilesFit /\ OpenerFits(p)
  BY DEF RootInv
<1>1. OnlyMoves(p) /\ Moved(p, "fill") /\ opener[p].at = "write"
  BY <1>0, ContinueMoves DEF CreateInputs, Stands, Writing, Loaded
<1>2. inputsFile' = "torn" /\ UNCHANGED <<rootMade, identity, lockHolder>>
  BY DEF CreateInputs
<1>3. \A q \in Opener \ {p} : opener[q].at \notin Writing \cup Loaded
  BY <1>0, <1>1, RootAssumption DEF RootInv, OpenerFits, Writing, Loaded
<1>4. identity = Missing /\ rootMade
  BY <1>0, <1>1, RootAssumption DEF FilesFit, OpenerFits, Writing
<1>5. \A q \in Opener \ {p} : OpenerFits(q)'
  BY <1>1, <1>2, <1>3, OthersFit DEF Locked, Loaded
<1>6. FilesFit'
  BY <1>0, <1>1, <1>2, <1>4 DEF FilesFit, OpenerFits, Writing
<1>7. OpenerFits(p)'
  BY <1>0, <1>1, <1>2, <1>4 DEF Moved, OpenerFits, Writing, Loaded, Locked
<1> QED
  BY <1>1, <1>3, <1>5, <1>6, <1>7, FitsTogether

\* The inputs are written by the one who created their file.
LEMMA FillInputsKeeps ==
    ASSUME NEW p \in Opener, RootInv, FillInputs(p)
    PROVE  RootInv'
<1>0. OpenersTyped /\ FilesFit /\ OpenerFits(p)
  BY DEF RootInv
<1>1. OnlyMoves(p) /\ Moved(p, "validate") /\ opener[p].at = "fill"
  BY <1>0, ContinueMoves DEF FillInputs, Stands, Writing, Loaded
<1>2. inputsFile' = opener[p].inputs /\ UNCHANGED <<rootMade, identity, lockHolder>>
  BY DEF FillInputs
<1>3. \A q \in Opener \ {p} : opener[q].at \notin Writing \cup Loaded
  BY <1>0, <1>1, RootAssumption DEF RootInv, OpenerFits, Writing, Loaded
<1>4. identity = Missing /\ rootMade
  BY <1>0, <1>1, RootAssumption DEF FilesFit, OpenerFits, Writing
<1>5. \A q \in Opener \ {p} : OpenerFits(q)'
  BY <1>1, <1>2, <1>3, OthersFit DEF Locked, Loaded
<1>6. FilesFit'
  BY <1>0, <1>1, <1>2, <1>4 DEF FilesFit, OpenerFits, Writing
<1>7. OpenerFits(p)'
  BY <1>0, <1>1, <1>2, <1>4 DEF Moved, OpenerFits, Writing, Loaded, Locked
<1> QED
  BY <1>1, <1>3, <1>5, <1>6, <1>7, FitsTogether

\* The inputs are loaded once they are whole.
LEMMA LoadInputsKeeps ==
    ASSUME NEW p \in Opener, RootInv, LoadInputs(p)
    PROVE  RootInv'
<1>0. OpenersTyped /\ FilesFit /\ OpenerFits(p)
  BY DEF RootInv
<1>1. OnlyMoves(p) /\ opener'[p].at \notin Writing
        /\ (opener'[p] = Outside \/ (inputsFile \in InputSet /\ opener'[p].at = "validate" /\ opener'[p].inputs = inputsFile))
  BY <1>0, GoAwayMoves DEF LoadInputs, Outside, OnlyMoves, OpenersTyped, Writing, Loaded
<1>2. UNCHANGED <<rootMade, inputsFile, identity, lockHolder>>
  BY DEF LoadInputs
<1>3. \A q \in Opener \ {p} : OpenerFits(q)'
  BY <1>1, <1>2, OthersFit
<1>4. FilesFit'
  BY <1>0, <1>2 DEF FilesFit
<1>5. OpenerFits(p)'
  BY <1>0, <1>1, <1>2 DEF Outside, Moved, OpenerFits, Writing, Loaded, Locked
<1> QED
  BY <1>1, <1>3, <1>4, <1>5, FitsTogether

\* Definitions are valid before the lock is asked for.
LEMMA ValidateKeeps ==
    ASSUME NEW p \in Opener, RootInv, Validate(p)
    PROVE  RootInv'
<1>0. OpenersTyped /\ FilesFit /\ OpenerFits(p)
  BY DEF RootInv
<1>1. OnlyMoves(p) /\ opener'[p].at \notin Writing
        /\ opener[p].at = "validate"
        /\ (opener'[p] = Outside \/ (ValidDefinitions(opener[p].stages) /\ Moved(p, "lock")))
  BY <1>0, GoAwayMoves, ContinueMoves DEF Validate, Stands, Outside, Moved, Writing, Loaded
<1>2. UNCHANGED <<rootMade, inputsFile, identity, lockHolder>>
  BY DEF Validate
<1>3. \A q \in Opener \ {p} : OpenerFits(q)'
  BY <1>1, <1>2, OthersFit
<1>4. FilesFit'
  BY <1>0, <1>2 DEF FilesFit
<1>5. OpenerFits(p)'
  BY <1>0, <1>1, <1>2 DEF Outside, Moved, OpenerFits, Writing, Loaded, Locked
<1> QED
  BY <1>1, <1>3, <1>4, <1>5, FitsTogether

\* The lock is given to one.
LEMMA LockKeeps ==
    ASSUME NEW p \in Opener, RootInv, Lock(p)
    PROVE  RootInv'
<1>0. OpenersTyped /\ FilesFit /\ OpenerFits(p)
  BY DEF RootInv
<1>1. OnlyMoves(p) /\ opener'[p].at \notin Writing /\ opener[p].at = "lock"
        /\ ((opener'[p] = Outside /\ lockHolder' = lockHolder) \/ (lockHolder = NoOne /\ lockHolder' = p /\ Moved(p, "identify")))
  BY <1>0, GoAwayMoves, ContinueMoves DEF Lock, Stands, Outside, Moved, Writing, Loaded
<1>2. UNCHANGED <<rootMade, inputsFile, identity>>
  BY DEF Lock
<1>3. \A q \in Opener \ {p} : OpenerFits(q)'
  <2>1. \A q \in Opener \ {p} : opener[q].at \in Locked => lockHolder' = lockHolder
    BY <1>1, RootAssumption DEF RootInv, OpenerFits
  <2> QED
    BY <1>1, <1>2, <2>1, OthersFit
<1>4. FilesFit'
  BY <1>0, <1>2 DEF FilesFit
<1>5. OpenerFits(p)'
  BY <1>0, <1>1, <1>2 DEF Outside, Moved, OpenerFits, Writing, Loaded, Locked
<1> QED
  BY <1>1, <1>3, <1>4, <1>5, FitsTogether

\* Whoever lets go of the lock lets go of its own only.
LEMMA ReleaseSparesOthers ==
    ASSUME NEW p \in Opener, RootInv, lockHolder' = Released(p)
    PROVE  \A q \in Opener \ {p} : opener[q].at \in Locked => lockHolder' = lockHolder
BY DEF Released, RootInv, OpenerFits

\* The identity is written once and met from then on.
LEMMA IdentifyKeeps ==
    ASSUME NEW p \in Opener, RootInv, Identify(p)
    PROVE  RootInv'
<1>0. OpenersTyped /\ FilesFit /\ OpenerFits(p)
  BY DEF RootInv
<1>1. OnlyMoves(p) /\ opener'[p].at \notin Writing /\ opener[p].at = "identify"
        /\ \/ opener'[p] = Outside /\ identity' = identity /\ lockHolder' = Released(p)
           \/ /\ Moved(p, "active") /\ identity \in {Missing, IdentityOf(p)}
              /\ identity' = IdentityOf(p) /\ lockHolder' = lockHolder
  BY <1>0, GoAwayMoves, ContinueMoves DEF Identify, Stands, Outside, Moved, Writing, Loaded
<1>2. UNCHANGED <<rootMade, inputsFile>>
  BY DEF Identify
<1>3. \A q \in Opener \ {p} : OpenerFits(q)'
  <2>1. \A q \in Opener \ {p} : opener[q].at \in Locked => lockHolder' = lockHolder
    BY <1>1, ReleaseSparesOthers
  <2>2. \A q \in Opener \ {p} : opener[q].at # "active"
    BY <1>0, <1>1 DEF RootInv, OpenerFits, Locked
  <2> QED
    BY <1>1, <1>2, <2>1, <2>2, OthersFit
<1>4. FilesFit'
  BY <1>0, <1>1, <1>2 DEF FilesFit, OpenerFits, IdentityOf, Loaded
<1>5. OpenerFits(p)'
  BY <1>0, <1>1, <1>2 DEF Outside, Moved, OpenerFits, IdentityOf, Writing, Loaded, Locked
<1> QED
  BY <1>1, <1>3, <1>4, <1>5, FitsTogether

\* An engine is closed.
LEMMA CloseKeeps ==
    ASSUME NEW p \in Opener, RootInv, Close(p)
    PROVE  RootInv'
<1>0. OpenersTyped /\ FilesFit /\ OpenerFits(p)
  BY DEF RootInv
<1>1. OnlyMoves(p) /\ opener'[p] = Outside /\ opener'[p].at \notin Writing
  BY <1>0, GoAwayMoves DEF Close, Outside, Writing
<1>2. lockHolder' = Released(p) /\ UNCHANGED <<rootMade, inputsFile, identity>>
  BY DEF Close
<1>3. \A q \in Opener \ {p} : OpenerFits(q)'
  BY <1>1, <1>2, ReleaseSparesOthers, OthersFit
<1>4. FilesFit'
  BY <1>0, <1>2 DEF FilesFit
<1>5. OpenerFits(p)'
  BY <1>1 DEF Outside, OpenerFits, Writing, Loaded, Locked
<1> QED
  BY <1>1, <1>3, <1>4, <1>5, FitsTogether

\* A process dies.
LEMMA DieKeeps ==
    ASSUME NEW p \in Opener, RootInv, Die(p)
    PROVE  RootInv'
<1>0. OpenersTyped /\ FilesFit /\ OpenerFits(p)
  BY DEF RootInv
<1>1. OnlyMoves(p) /\ opener'[p] = Outside /\ opener'[p].at \notin Writing
  BY <1>0, GoAwayMoves DEF Die, Outside, Writing
<1>2. lockHolder' = Released(p) /\ UNCHANGED <<rootMade, inputsFile, identity>>
  BY DEF Die
<1>3. \A q \in Opener \ {p} : OpenerFits(q)'
  BY <1>1, <1>2, ReleaseSparesOthers, OthersFit
<1>4. FilesFit'
  BY <1>0, <1>2 DEF FilesFit
<1>5. OpenerFits(p)'
  BY <1>1 DEF Outside, OpenerFits, Writing, Loaded, Locked
<1> QED
  BY <1>1, <1>3, <1>4, <1>5, FitsTogether

\* Every step of every process keeps the invariant.
LEMMA RootInductive == RootInv /\ [RootNext]_rootVars => RootInv'
<1>1. ASSUME RootInv, UNCHANGED rootVars PROVE RootInv'
  BY <1>1 DEF rootVars, RootInv, OpenersTyped, FilesFit, OpenerFits, IdentityOf
<1>2. ASSUME RootInv, NEW p \in Opener, RootStep(p) PROVE RootInv'
  BY <1>2, ApproachKeeps, MakeRootKeeps, CreateInputsKeeps, FillInputsKeeps, LoadInputsKeeps,
     ValidateKeeps, LockKeeps, IdentifyKeeps, CloseKeeps, DieKeeps DEF RootStep
<1> QED
  BY <1>1, <1>2 DEF RootNext

\* The invariant holds from the empty root on.
LEMMA RootIsSound == RootSpec => []RootInv
<1>1. RootInit => RootInv
  BY DEF RootInit, RootInv, OpenersTyped, FilesFit, OpenerFits, Outside, Writing, Loaded, Locked
<1> QED
  BY <1>1, RootInductive, PTL DEF RootSpec

\* For any number of processes, any inputs and releases, and a death between any
\* two steps: at most one engine is active, on the inputs of the file and the
\* identity of the database (RunEngine.create, .open, RunDatabase._initialize).
THEOREM EnginesAreAlone == RootSpec => []OneEngineOnItsRun
<1>1. RootInv => OneEngineOnItsRun
  BY DEF RootInv, FilesFit, OpenerFits, OneEngineOnItsRun, Stands, Loaded, Locked
<1> QED
  BY <1>1, RootIsSound, PTL

\* The root, its whole inputs and its identity are never taken back or written
\* over, by whoever arrives later, and no step makes a second engine active
\* (RunEngine.create, .__init__, RunDatabase._initialize).
THEOREM RunsKeepTheirIdentity == RootSpec => RunsAreKept
<1> DEFINE Fixed == /\ rootMade => rootMade'
                    /\ inputsFile \in InputSet => inputsFile' = inputsFile
                    /\ identity # Missing => identity' = identity
<1>1. ASSUME RootInv, NEW p \in Opener, RootStep(p) PROVE Fixed
  <2>1. Stands(p, "write") => inputsFile = Missing
    BY <1>1 DEF RootInv, OpenerFits, Stands
  <2>2. Stands(p, "fill") => inputsFile = "torn"
    BY <1>1 DEF RootInv, OpenerFits, Stands
  <2> QED
    BY <1>1, <2>1, <2>2, RootAssumption DEF RootStep, Approach, MakeRoot, CreateInputs, FillInputs,
       LoadInputs, Validate, Lock, Identify, Close, Die
<1>2. ASSUME RootInv, OneEngineOnItsRun', [RootNext]_rootVars
      PROVE  [ /\ OneEngineOnItsRun'
               /\ rootMade => rootMade'
               /\ inputsFile \in InputSet => inputsFile' = inputsFile
               /\ identity # Missing => identity' = identity ]_rootVars
  BY <1>1, <1>2 DEF RootNext, rootVars
<1> QED
  BY <1>2, RootIsSound, EnginesAreAlone, PTL DEF RootSpec, RunsAreKept
=============================================================================
