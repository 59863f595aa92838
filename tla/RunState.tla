------------------------------ MODULE RunState ------------------------------
(***************************************************************************)
(* The crash-safe run engine of runstate.py: a fixed dependency-ordered    *)
(* stage DAG, a SQLite row per stage, immutable attempt directories, one   *)
(* completion pointer per stage and the exported run.json.                 *)
(*                                                                         *)
(* Every SQLite transaction and every atomic rename is one step, so that a *)
(* process death (Crash) falls between any two of them, as the commit      *)
(* boundaries of the source name them.  The advisory lock leaves at most   *)
(* one process, whose control state is pc.                                 *)
(*                                                                         *)
(* An attempt identifier carries its stage and its number; the uuid suffix *)
(* is left out, and FreshAttempts shows that it is never needed.           *)
(***************************************************************************)
EXTENDS Integers, FiniteSets

CONSTANTS
    N,               \* number of stages; a stage is its position in the DAG
    Deps,            \* Deps[s]: the declared upstream stages of s
    Version,         \* algorithm versions a stage definition may carry
    FirstVersion,    \* the version of every stage when the run is created
    Content,         \* hashes of the artifact bytes a stage may publish
    Produces(_, _),  \* contents stage s may produce for a cache key
    NoKey,           \* NULL cache_key
    NoContent,       \* no artifact rows
    NoAttempt,       \* no completion pointer, no attempt being written
    Faults,          \* the kinds of event the environment may cause
    MaxFaults        \* how many of them in one behaviour

Stage == 1..N

(***************************************************************************)
(* A cache key binds the algorithm version and the upstream artifact       *)
(* hashes.  Sources, configuration and backend are immutable for one run   *)
(* directory, so they are the same in every key.                           *)
(***************************************************************************)
KeyOf(s) == [version : Version, upstream : [Deps[s] -> Content]]

Key == UNION { KeyOf(s) : s \in Stage }

Attempt == [stage : Stage, num : Nat, key : Key, out : Content]

FaultKind == {"crash", "fail", "force", "upgrade",
              "damage", "rot", "lose", "restore", "pointer"}

ASSUME StageAssumption ==
    /\ N \in Nat \ {0}
    /\ Deps \in [Stage -> SUBSET Stage]
    /\ \A s \in Stage : \A d \in Deps[s] : d < s

ASSUME DataAssumption ==
    /\ FirstVersion \in Version
    /\ \A s \in Stage : \A k \in KeyOf(s) :
         Produces(s, k) # {} /\ Produces(s, k) \subseteq Content
    /\ NoKey \notin Key
    /\ NoContent \notin Content
    /\ NoAttempt \notin Attempt

ASSUME FaultAssumption == Faults \subseteq FaultKind /\ MaxFaults \in Nat

VARIABLES
    \* the stage and artifact tables of run.sqlite3
    state, attempt, cacheKey, counter, required, artifact,
    \* the file system: published attempts, those gone or altered since,
    \* completions/<stage>.json and run.json
    published, lost, damaged, pointer, runJson,
    \* the process: control state, loop position, --force-stage (0: none),
    \* the attempt in hand, and the versions of its stage definitions
    pc, cursor, forceStage, draft, version,
    \* events spent so far, and a history of the forced re-executions
    faults, floor

rowVars  == <<state, attempt, cacheKey, counter, required, artifact>>
fileVars == <<published, lost, damaged>>
procVars == <<pc, cursor, forceStage, draft, version>>
vars == <<rowVars, fileVars, pointer, runJson, procVars, faults, floor>>

StageState == {"PENDING", "RUNNING", "COMPLETE", "FAILED_RETRYABLE",
               "FAILED_FINAL", "INVALIDATED"}

(***************************************************************************)
(* Operators on the stage graph and the rows.                              *)
(***************************************************************************)

DownstreamClosed(S) ==
    \A t \in Stage : Deps[t] \cap S # {} => t \in S

\* s and every stage that depends on it, directly or not.
Closure(s) ==
    { t \in Stage : \A S \in SUBSET Stage :
                      (s \in S /\ DownstreamClosed(S)) => t \in S }

\* Mutant: a force that forgets the dependents.
ForceScope_StageOnly == IF forceStage = 0 THEN {} ELSE {forceStage}

ForceScope == IF forceStage = 0 THEN {} ELSE Closure(forceStage)

UpstreamComplete(s) == \A d \in Deps[s] : state[d] = "COMPLETE"

\* Mutant: the key does not bind the algorithm version.
ExpectedKey_NoVersion(s) == [version  |-> FirstVersion,
                             upstream |-> [d \in Deps[s] |-> artifact[d]]]

\* The key of s for the artifacts its upstream rows record now.
ExpectedKey(s) == [version  |-> version[s],
                   upstream |-> [d \in Deps[s] |-> artifact[d]]]

\* What is found under artifacts/<stage>/<key>.
CacheRoot(s) ==
    { a \in published \ lost : a.stage = s /\ a.key = ExpectedKey(s) }

\* Mutant: bytes not verified.
Sound_Unverified(A) == \A a, b \in A : a.out = b.out

\* Every sibling is verified by hash, and all must agree on their bytes.
Sound(A) == /\ A \cap damaged = {}
            /\ \A a, b \in A : a.out = b.out

Latest(A) == CHOOSE a \in A : \A b \in A : b.num <= a.num

\* Mutant: the required attempt number is not compared.
Adoptable_AnyNumber(s) == CacheRoot(s) # {}

Adoptable(s) == /\ CacheRoot(s) # {}
                /\ Latest(CacheRoot(s)).num >= required[s]

OverallState ==
    LET values == { state[s] : s \in Stage } IN
    IF values = {"COMPLETE"}               THEN "COMPLETE"
    ELSE IF "FAILED_FINAL" \in values      THEN "FAILED_FINAL"
    ELSE IF "RUNNING" \in values           THEN "RUNNING"
    ELSE IF "FAILED_RETRYABLE" \in values  THEN "FAILED_RETRYABLE"
    ELSE IF "INVALIDATED" \in values       THEN "INVALIDATED"
    ELSE "PENDING"

\* The document export_run_artifact writes for the rows as they are.
RunArtifact ==
    [state  |-> OverallState,
     stages |-> [s \in Stage |-> [state   |-> state[s],
                                  attempt |-> attempt[s],
                                  output  |-> artifact[s]]]]

(***************************************************************************)
(* Transactions of RunDatabase.                                            *)
(***************************************************************************)

\* record_complete, from any state but FAILED_FINAL.
RecordComplete(a) ==
    /\ state'    = [state EXCEPT ![a.stage] = "COMPLETE"]
    /\ attempt'  = [attempt EXCEPT ![a.stage] = a.num]
    /\ cacheKey' = [cacheKey EXCEPT ![a.stage] = a.key]
    /\ counter'  = [counter EXCEPT ![a.stage] = IF a.num > @ THEN a.num ELSE @]
    /\ required' = [required EXCEPT ![a.stage] = 0]
    /\ artifact' = [artifact EXCEPT ![a.stage] = a.out]

\* mark_state: the attempt, the key and the artifact rows stay.
MarkState(s, new) ==
    /\ state' = [state EXCEPT ![s] = new]
    /\ UNCHANGED <<attempt, cacheKey, counter, required, artifact>>

\* invalidate: from whatever state each stage of the scope is in.
Invalidate(scope, force) ==
    /\ state'    = [s \in Stage |-> IF s \in scope THEN "INVALIDATED" ELSE state[s]]
    /\ attempt'  = [s \in Stage |-> IF s \in scope THEN 0 ELSE attempt[s]]
    /\ cacheKey' = [s \in Stage |-> IF s \in scope THEN NoKey ELSE cacheKey[s]]
    /\ artifact' = [s \in Stage |-> IF s \in scope THEN NoContent ELSE artifact[s]]
    /\ required' = [s \in Stage |-> IF s \in scope
                                    THEN IF force THEN counter[s] + 1 ELSE 0
                                    ELSE required[s]]
    /\ UNCHANGED counter

(***************************************************************************)
(* A run directory just created: every stage pending, run.json exported.   *)
(***************************************************************************)
Init ==
    /\ state = [s \in Stage |-> "PENDING"]
    /\ attempt = [s \in Stage |-> 0]
    /\ cacheKey = [s \in Stage |-> NoKey]
    /\ counter = [s \in Stage |-> 0]
    /\ required = [s \in Stage |-> 0]
    /\ artifact = [s \in Stage |-> NoContent]
    /\ published = {} /\ lost = {} /\ damaged = {}
    /\ pointer = [s \in Stage |-> NoAttempt]
    /\ runJson = RunArtifact
    /\ pc = "down" /\ cursor = 1 /\ forceStage = 0 /\ draft = NoAttempt
    /\ version = [s \in Stage |-> FirstVersion]
    /\ faults = 0
    /\ floor = [s \in Stage |-> 0]

Spend(kind) == /\ kind \in Faults
               /\ faults < MaxFaults
               /\ faults' = faults + 1

Goto(label) == /\ pc' = label
               /\ UNCHANGED <<forceStage, version>>

(***************************************************************************)
(* Opening the run and calling run(), with or without --force-stage.       *)
(***************************************************************************)
Start(f) ==
    /\ pc = "down"
    /\ pc' = "reconcile" /\ cursor' = 1 /\ forceStage' = f
    /\ UNCHANGED <<rowVars, fileVars, pointer, runJson, draft, version, floor>>

StartPlain == Start(0) /\ UNCHANGED faults

StartForced == \E f \in Stage : Start(f) /\ Spend("force")

(***************************************************************************)
(* reconcile(): one visit per stage, in dependency order.                  *)
(***************************************************************************)
Visiting == pc = "reconcile" /\ cursor \in Stage

\* Mutant: every other stage is visited.
NextStage_Twice == cursor' = cursor + 2

NextStage == cursor' = cursor + 1

\* An upstream stage is not complete: only a COMPLETE row is touched.
ReconcileBlocked ==
    /\ Visiting /\ ~UpstreamComplete(cursor)
    /\ IF state[cursor] = "COMPLETE"
       THEN Invalidate(Closure(cursor), FALSE)
       ELSE UNCHANGED rowVars
    /\ NextStage /\ Goto("reconcile")
    /\ UNCHANGED <<fileVars, pointer, runJson, draft, faults, floor>>

Stale(s) == state[s] = "COMPLETE" /\ cacheKey[s] # ExpectedKey(s)

\* The semantic inputs changed; the visit goes on with the INVALIDATED row.
ReconcileStale ==
    /\ Visiting /\ UpstreamComplete(cursor) /\ Stale(cursor)
    /\ Invalidate(Closure(cursor), FALSE)
    /\ Goto("reconcile")
    /\ UNCHANGED <<fileVars, pointer, runJson, cursor, draft, faults, floor>>

Selecting == Visiting /\ UpstreamComplete(cursor) /\ ~Stale(cursor)

\* _select_published raises: an attempt under the key fails verification.
ReconcileCorrupt ==
    /\ Selecting /\ ~Sound(CacheRoot(cursor))
    /\ MarkState(cursor, "FAILED_FINAL")
    /\ NextStage /\ Goto("reconcile")
    /\ UNCHANGED <<fileVars, pointer, runJson, draft, faults, floor>>

\* Mutant: only a missing pointer is repaired.
ReconcileAdopt_KeepPointer ==
    /\ Selecting /\ Sound(CacheRoot(cursor)) /\ Adoptable(cursor)
    /\ draft' = Latest(CacheRoot(cursor))
    /\ pointer' = [pointer EXCEPT ![cursor] = IF @ = NoAttempt THEN draft' ELSE @]
    /\ Goto("adopt")
    /\ UNCHANGED <<rowVars, fileVars, runJson, cursor, faults, floor>>

\* The pointer is repaired first, the row is recorded by AdoptRecord.
ReconcileAdopt ==
    /\ Selecting /\ Sound(CacheRoot(cursor)) /\ Adoptable(cursor)
    /\ draft' = Latest(CacheRoot(cursor))
    /\ pointer' = [pointer EXCEPT ![cursor] = draft']
    /\ Goto("adopt")
    /\ UNCHANGED <<rowVars, fileVars, runJson, cursor, faults, floor>>

\* Mutant: adoption from FAILED_FINAL.
AdoptRecord_FromFinal ==
    /\ pc = "adopt"
    /\ RecordComplete(draft)
    /\ draft' = NoAttempt
    /\ NextStage /\ Goto("reconcile")
    /\ UNCHANGED <<fileVars, pointer, runJson, faults, floor>>

AdoptRecord ==
    /\ pc = "adopt" /\ state[cursor] # "FAILED_FINAL"
    /\ RecordComplete(draft)
    /\ draft' = NoAttempt
    /\ NextStage /\ Goto("reconcile")
    /\ UNCHANGED <<fileVars, pointer, runJson, faults, floor>>

\* record_complete raises ValueError, which nothing catches.
AdoptRefused ==
    /\ pc = "adopt" /\ state[cursor] = "FAILED_FINAL"
    /\ draft' = NoAttempt
    /\ Goto("refused")
    /\ UNCHANGED <<rowVars, fileVars, pointer, runJson, cursor, faults, floor>>

\* Mutant: an interrupted RUNNING row stays as it is.
ReconcileMissing_KeepRunning ==
    /\ Selecting /\ Sound(CacheRoot(cursor)) /\ ~Adoptable(cursor)
    /\ \/ state[cursor] = "COMPLETE" /\ MarkState(cursor, "FAILED_FINAL")
       \/ state[cursor] # "COMPLETE" /\ UNCHANGED rowVars
    /\ NextStage /\ Goto("reconcile")
    /\ UNCHANGED <<fileVars, pointer, runJson, draft, faults, floor>>

\* Nothing to adopt: a claimed completion is lost, a running one interrupted.
ReconcileMissing ==
    /\ Selecting /\ Sound(CacheRoot(cursor)) /\ ~Adoptable(cursor)
    /\ \/ state[cursor] = "COMPLETE" /\ MarkState(cursor, "FAILED_FINAL")
       \/ state[cursor] = "RUNNING" /\ MarkState(cursor, "FAILED_RETRYABLE")
       \/ state[cursor] \notin {"COMPLETE", "RUNNING"} /\ UNCHANGED rowVars
    /\ NextStage /\ Goto("reconcile")
    /\ UNCHANGED <<fileVars, pointer, runJson, draft, faults, floor>>

\* The end of reconcile(), and the forced invalidation that follows it.
ReconcileDone ==
    /\ pc = "reconcile" /\ cursor = N + 1
    /\ IF forceStage # 0
       THEN /\ Invalidate(ForceScope, TRUE)
            /\ floor' = [s \in Stage |-> IF s \in ForceScope
                                         THEN counter[s] ELSE floor[s]]
       ELSE UNCHANGED <<rowVars, floor>>
    /\ cursor' = 1 /\ Goto("loop")
    /\ UNCHANGED <<fileVars, pointer, runJson, draft, faults>>

(***************************************************************************)
(* The execution loop of run().                                            *)
(***************************************************************************)
Looping == pc = "loop" /\ cursor \in Stage

Skipped(s) == state[s] = "COMPLETE" /\ s \notin ForceScope

LoopSkip ==
    /\ Looping
    /\ \/ Skipped(cursor)
       \/ /\ state[cursor] \notin {"COMPLETE", "FAILED_FINAL"}
          /\ ~UpstreamComplete(cursor)
    /\ NextStage /\ Goto("loop")
    /\ UNCHANGED <<rowVars, fileVars, pointer, runJson, draft, faults, floor>>

LoopEnd ==
    /\ pc = "loop"
    /\ \/ cursor = N + 1
       \/ cursor \in Stage /\ state[cursor] = "FAILED_FINAL"
    /\ Goto("export")
    /\ UNCHANGED <<rowVars, fileVars, pointer, runJson, cursor, draft, faults, floor>>

Executable == /\ Looping
              /\ ~Skipped(cursor) /\ state[cursor] # "FAILED_FINAL"
              /\ UpstreamComplete(cursor)

MayBegin == {"PENDING", "FAILED_RETRYABLE", "INVALIDATED"}

\* Mutant: the attempt counter is not stored.
Begin_SameCounter ==
    /\ Executable /\ state[cursor] \in MayBegin
    /\ state'    = [state EXCEPT ![cursor] = "RUNNING"]
    /\ attempt'  = [attempt EXCEPT ![cursor] = counter[cursor] + 1]
    /\ cacheKey' = [cacheKey EXCEPT ![cursor] = ExpectedKey(cursor)]
    /\ Goto("begun")
    /\ UNCHANGED <<counter, required, artifact, fileVars, pointer, runJson,
                   cursor, draft, faults, floor>>

\* begin_attempt; from another state it raises ValueError, which nothing
\* catches.
Begin ==
    /\ Executable
    /\ IF state[cursor] \in MayBegin
       THEN /\ state'    = [state EXCEPT ![cursor] = "RUNNING"]
            /\ attempt'  = [attempt EXCEPT ![cursor] = counter[cursor] + 1]
            /\ cacheKey' = [cacheKey EXCEPT ![cursor] = ExpectedKey(cursor)]
            /\ counter'  = [counter EXCEPT ![cursor] = @ + 1]
            /\ Goto("begun")
       ELSE /\ UNCHANGED <<state, attempt, cacheKey, counter>>
            /\ Goto("refused")
    /\ UNCHANGED <<required, artifact, fileVars, pointer, runJson, cursor,
                   draft, faults, floor>>

\* The row is RUNNING; run.json is exported before any stage code runs.
ExportRunning ==
    /\ pc = "begun"
    /\ runJson' = RunArtifact
    /\ Goto("running")
    /\ UNCHANGED <<rowVars, fileVars, pointer, cursor, draft, faults, floor>>

\* The stage code ran; outputs and manifest are flushed under .attempts, out
\* of sight of everything but the count of incomplete attempts.
WriteAttempt ==
    /\ pc = "running"
    /\ \E out \in Produces(cursor, cacheKey[cursor]) :
         draft' = [stage |-> cursor, num |-> attempt[cursor],
                   key |-> cacheKey[cursor], out |-> out]
    /\ Goto("written")
    /\ UNCHANGED <<rowVars, fileVars, pointer, runJson, cursor, faults, floor>>

\* The rename into the immutable cache directory.
Publish ==
    /\ pc = "written"
    /\ published' = published \cup {draft}
    /\ Goto("published")
    /\ UNCHANGED <<rowVars, lost, damaged, pointer, runJson, cursor, draft,
                   faults, floor>>

\* The attempt is verified by hash before the pointer selects it.
PublishPointer ==
    /\ pc = "published" /\ draft \notin lost \cup damaged
    /\ pointer' = [pointer EXCEPT ![cursor] = draft]
    /\ Goto("pointed")
    /\ UNCHANGED <<rowVars, fileVars, runJson, cursor, draft, faults, floor>>

\* Mutant: the row may be committed before the rename.
CommitAttempt_Early ==
    /\ pc \in {"written", "pointed"}
    /\ RecordComplete(draft)
    /\ draft' = NoAttempt
    /\ Goto("committed")
    /\ UNCHANGED <<fileVars, pointer, runJson, cursor, faults, floor>>

CommitAttempt ==
    /\ pc = "pointed"
    /\ RecordComplete(draft)
    /\ draft' = NoAttempt
    /\ Goto("committed")
    /\ UNCHANGED <<fileVars, pointer, runJson, cursor, faults, floor>>

ExportCommitted ==
    /\ pc = "committed"
    /\ runJson' = RunArtifact
    /\ NextStage /\ Goto("loop")
    /\ UNCHANGED <<rowVars, fileVars, pointer, draft, faults, floor>>

\* An exception inside _execute_stage: the handler marks the row.
FailStep ==
    /\ MarkState(cursor, "FAILED_RETRYABLE")
    /\ draft' = NoAttempt
    /\ Goto("failing")
    /\ UNCHANGED <<fileVars, pointer, runJson, cursor, floor>>

ExecuteFails ==
    /\ pc \in {"running", "written", "published", "pointed"}
    /\ Spend("fail") /\ FailStep

VerifyFails ==
    /\ pc = "published" /\ draft \in lost \cup damaged
    /\ FailStep /\ UNCHANGED faults

\* The handler exports run.json and raises; run() does not return.
ExportFailure ==
    /\ pc = "failing"
    /\ runJson' = RunArtifact
    /\ Goto("raised")
    /\ UNCHANGED <<rowVars, fileVars, pointer, cursor, draft, faults, floor>>

ExportReport ==
    /\ pc = "export"
    /\ runJson' = RunArtifact
    /\ Goto("report")
    /\ UNCHANGED <<rowVars, fileVars, pointer, cursor, draft, faults, floor>>

\* The process ends after its report or with its exception.
Close ==
    /\ pc \in {"report", "raised", "refused"}
    /\ pc' = "down" /\ cursor' = 1 /\ forceStage' = 0
    /\ UNCHANGED <<rowVars, fileVars, pointer, runJson, draft, version, faults, floor>>

(***************************************************************************)
(* The environment.                                                        *)
(***************************************************************************)
Crash ==
    /\ pc # "down" /\ Spend("crash")
    /\ pc' = "down" /\ cursor' = 1 /\ forceStage' = 0 /\ draft' = NoAttempt
    /\ UNCHANGED <<rowVars, fileVars, pointer, runJson, version, floor>>

\* A new release of the program runs the same directory.
Upgrade ==
    /\ pc = "down" /\ Spend("upgrade")
    /\ \E s \in Stage : \E v \in Version \ {version[s]} :
         version' = [version EXCEPT ![s] = v]
    /\ UNCHANGED <<rowVars, fileVars, pointer, runJson, pc, cursor, forceStage,
                   draft, floor>>

\* Published bytes altered, between two runs or under a running one.
DamageAttempt ==
    /\ Spend(IF pc = "down" THEN "damage" ELSE "rot")
    /\ \E a \in published \ (lost \cup damaged) : damaged' = damaged \cup {a}
    /\ UNCHANGED <<rowVars, published, lost, pointer, runJson, procVars, floor>>

\* An attempt directory removed between two runs.
LoseAttempt ==
    /\ pc = "down" /\ Spend("lose")
    /\ \E a \in published \ lost : lost' = lost \cup {a}
    /\ UNCHANGED <<rowVars, published, damaged, pointer, runJson, procVars, floor>>

\* Altered or removed attempts put back from a copy.
RestoreAttempt ==
    /\ pc = "down" /\ Spend("restore")
    /\ \E a \in lost \cup damaged : lost' = lost \ {a} /\ damaged' = damaged \ {a}
    /\ UNCHANGED <<rowVars, published, pointer, runJson, procVars, floor>>

\* A completion pointer removed, or put back to an older attempt.
DisturbPointer ==
    /\ pc = "down" /\ Spend("pointer")
    /\ \E s \in Stage :
         \E p \in {NoAttempt} \cup {a \in published : a.stage = s} :
           p # pointer[s] /\ pointer' = [pointer EXCEPT ![s] = p]
    /\ UNCHANGED <<rowVars, fileVars, runJson, procVars, floor>>

Reconcile == \/ ReconcileBlocked \/ ReconcileStale \/ ReconcileCorrupt
             \/ ReconcileAdopt \/ AdoptRecord \/ AdoptRefused
             \/ ReconcileMissing \/ ReconcileDone

Execute == \/ LoopSkip \/ LoopEnd \/ Begin \/ ExportRunning
           \/ WriteAttempt \/ Publish \/ PublishPointer \/ CommitAttempt
           \/ ExportCommitted \/ VerifyFails \/ ExportFailure
           \/ ExportReport \/ Close

Process == Reconcile \/ Execute

Environment == \/ StartForced \/ ExecuteFails \/ Crash \/ Upgrade
               \/ DamageAttempt \/ LoseAttempt \/ RestoreAttempt
               \/ DisturbPointer

Next == StartPlain \/ Process \/ Environment

Spec == Init /\ [][Next]_vars

(***************************************************************************)
(* A started process keeps running, and a run that is down is resumed.     *)
(***************************************************************************)
FairSpec == Spec /\ WF_vars(Process) /\ WF_vars(StartPlain)

-----------------------------------------------------------------------------
(***************************************************************************)
(* Properties.                                                             *)
(***************************************************************************)

PcLabel == {"down", "reconcile", "adopt", "loop", "begun", "running", "written",
            "published", "pointed", "committed", "failing", "export", "report",
            "raised", "refused"}

RowTypes ==
    /\ state \in [Stage -> StageState]
    /\ attempt \in [Stage -> Nat]
    /\ cacheKey \in [Stage -> Key \cup {NoKey}]
    /\ counter \in [Stage -> Nat]
    /\ required \in [Stage -> Nat]
    /\ artifact \in [Stage -> Content \cup {NoContent}]

FileTypes ==
    /\ published \subseteq Attempt
    /\ lost \subseteq published
    /\ damaged \subseteq published
    /\ pointer \in [Stage -> Attempt \cup {NoAttempt}]

ControlTypes ==
    /\ pc \in PcLabel
    /\ cursor \in 1..(N + 1)
    /\ forceStage \in 0..N
    /\ version \in [Stage -> Version]

\* Types of the rows, the files and the control state: the loops over the
\* stage definitions never leave their range, and what is written, published,
\* pointed at and recorded is always a whole attempt under a whole key.
TypeOK ==
    /\ RowTypes
    /\ FileTypes
    /\ ControlTypes
    /\ draft \in Attempt \cup {NoAttempt}
    /\ faults \in Nat
    /\ floor \in [Stage -> Nat]

\* The attempt a row names.
RowAttempt(s) == [stage |-> s, num |-> attempt[s],
                  key |-> cacheKey[s], out |-> artifact[s]]

\* A COMPLETE row names an attempt that was renamed into the cache, with the
\* key and the bytes recorded there: the row never runs ahead of the rename,
\* whatever crash, failure or resume comes between the two stores.
CommitBacked ==
    \A s \in Stage : state[s] = "COMPLETE" => RowAttempt(s) \in published

\* No two published attempts of a stage share a number, and the row's counter
\* bounds them all, so that the next attempt begun is new without its uuid.
FreshAttempts ==
    /\ \A a, b \in published : a.stage = b.stage /\ a.num = b.num => a = b
    /\ \A a \in published : a.num \in 1..counter[a.stage]

\* What publication promises the rows: they name published attempts only, whose
\* numbers identify them (_execute_stage: rename, pointer, record_complete).
PublicationIsSound == CommitBacked /\ FreshAttempts

\* The stages reconcile() has visited in this process.
Visited == IF pc = "down" THEN {}
           ELSE IF pc \in {"reconcile", "adopt", "refused"} THEN 1..(cursor - 1)
           ELSE Stage

InputsCurrent(s) == UpstreamComplete(s) /\ cacheKey[s] = ExpectedKey(s)

\* Once visited, a stage is COMPLETE only over COMPLETE upstream stages and
\* under the key that their recorded bytes and its present version give:
\* neither adoption, force, failure nor execution leaves a stale completion.
ReconciledInputs ==
    \A s \in Visited : state[s] = "COMPLETE" => InputsCurrent(s)

\* A COMPLETE row of a visited stage stands on bytes that are still there and
\* still verify: damage or loss between two runs is always noticed.
VerifiedComplete ==
    \A s \in Visited : state[s] = "COMPLETE" => RowAttempt(s) \notin lost \cup damaged

\* Reconciliation leaves no stage COMPLETE while two attempts found under its
\* key hold different bytes (docs/run_recovery.md, line 26).
DivergenceIsFinal ==
    \A s \in Visited : pc = "reconcile" /\ state[s] = "COMPLETE" =>
      \A a, b \in CacheRoot(s) : a.out = b.out

\* A completion of a visited stage stands on sound and undisputed evidence,
\* whatever was altered, removed or put back since it was recorded
\* (_select_published, _verify_attempt_directory).
CompletionsStand == VerifiedComplete /\ DivergenceIsFinal

\* When run() returns, the completion pointer of every COMPLETE stage selects
\* the attempt its row names, however the pointer was left before.
PointerAgrees ==
    pc = "report" =>
      \A s \in Stage : state[s] = "COMPLETE" => pointer[s] = RowAttempt(s)

\* A stage forced and complete again was executed after the force, however
\* many crashes came between: no attempt from before it is adopted.
ForceHonoured ==
    \A s \in Stage : state[s] = "COMPLETE" => attempt[s] > floor[s]

\* As long as no attempt begun since the force was published, the stage is not
\* COMPLETE: a force still to be carried out is not met by an attempt from
\* before it, whichever crashes and releases come between (docs/run_recovery.md,
\* line 38, of the minimum attempt number that invalidate() records).
PendingForceHonoured ==
    \A s \in Stage :
      state[s] = "COMPLETE" /\ attempt[s] <= floor[s] =>
        \E a \in published : a.stage = s /\ a.num > floor[s]

\* A completion pointer selects an attempt of its stage that was published.
PointersArePublished ==
    \A s \in Stage : pointer[s] # NoAttempt =>
      pointer[s] \in published /\ pointer[s].stage = s

\* The attempt that run.json lists for s was published.
ListedIsPublished(s) ==
    \E a \in published : /\ a.stage = s /\ a.num = runJson.stages[s].attempt
                         /\ a.out = runJson.stages[s].output

\* A stage that run.json lists as COMPLETE is listed with a published attempt,
\* also in a document whose run is not complete, and with the rows invalidated
\* since.
ListingsArePublished ==
    \A s \in Stage : runJson.stages[s].state = "COMPLETE" => ListedIsPublished(s)

\* A run.json that says COMPLETE lists attempts that were published, each made
\* from exactly the upstream bytes the same document lists.
RunJsonConsistent ==
    runJson.state = "COMPLETE" =>
      \A s \in Stage : \E a \in published :
        /\ a.stage = s /\ a.num = runJson.stages[s].attempt
        /\ a.out = runJson.stages[s].output
        /\ a.key.upstream = [d \in Deps[s] |-> runJson.stages[d].output]

\* The files other programs read agree with the rows and with each other, after
\* any crash: a pointer and a COMPLETE line of run.json name published attempts
\* at all times, a complete run.json one history, and the pointers after a
\* report the rows (_publish_pointer, export_run_artifact).
ReadersSeeTheRows == /\ PointerAgrees /\ PointersArePublished
                     /\ ListingsArePublished /\ RunJsonConsistent

\* The bytes of a run that was never interrupted.
Uninterrupted[s \in Stage] ==
    CHOOSE out \in Content :
      out \in Produces(s, [version  |-> version[s],
                           upstream |-> [d \in Deps[s] |-> Uninterrupted[d]]])

\* A complete report carries the semantic hash of an uninterrupted run, after
\* any crashes, failures, forces and resumes.
ResumeIsSemanticallyEqual ==
    pc = "report" /\ OverallState = "COMPLETE" =>
      artifact = [s \in Stage |-> Uninterrupted[s]]

\* What a stage row may never do: a final failure or a completion is never
\* silently recomputed (it is invalidated first), and RUNNING is entered only
\* with a new attempt number over COMPLETE upstream stages.
StageLifecycle ==
    [][\A s \in Stage :
         /\ state[s] = "FAILED_FINAL" => state'[s] \in {"FAILED_FINAL", "INVALIDATED"}
         /\ state[s] = "COMPLETE" =>
              state'[s] \in {"COMPLETE", "FAILED_FINAL", "INVALIDATED"}
         /\ state[s] # "RUNNING" /\ state'[s] = "RUNNING" =>
              attempt'[s] > counter[s] /\ UpstreamComplete(s)]_vars

Ledger == INSTANCE RunLedger WITH
            ledger   <- published,
            standing <- [s \in Stage |-> IF state[s] = "COMPLETE"
                                         THEN RowAttempt(s) ELSE NoAttempt]

\* The engine implements the ledger its readers rely on.
ImplementsLedger == Ledger!Spec

\* A started process reports or dies: reconcile() and the loop end, and the
\* engine's own guards (begin_attempt, record_complete) never refuse what they
\* ask, which would end the run with a ValueError: no interrupted RUNNING row
\* survives until it is executable.
RunEnds == /\ pc # "down" ~> pc = "down"
           /\ [](pc # "refused")

\* Resumed often enough, a run completes and stays complete, once the crashes
\* and failures stop.
EventuallyComplete == <>[](OverallState = "COMPLETE")

\* Every run ends, and the last one has nothing left to do (run, reconcile).
RunsEndComplete == RunEnds /\ EventuallyComplete
=============================================================================
