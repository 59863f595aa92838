--------------------------- MODULE RunStateProofs ---------------------------
(***************************************************************************)
(* Proofs about RunState for every stage graph, every stage code, every    *)
(* set of faults and every number of them.                                 *)
(***************************************************************************)
EXTENDS RunState, FiniteSetTheorems, WellFoundedInduction, TLAPS

(***************************************************************************)
(* The dependency closure of a stage.                                      *)
(***************************************************************************)

\* The selected stage is in its own closure (dependency_closure).
LEMMA ClosureContains ==
    ASSUME NEW s \in Stage
    PROVE  s \in Closure(s)
BY DEF Closure

\* A stage with an upstream stage in the closure is in the closure too.
LEMMA ClosureIsClosed ==
    ASSUME NEW s \in Stage
    PROVE  DownstreamClosed(Closure(s))
<1> SUFFICES ASSUME NEW t \in Stage, NEW d \in Deps[t], d \in Closure(s)
             PROVE  t \in Closure(s)
  BY StageAssumption DEF DownstreamClosed
<1> SUFFICES ASSUME NEW S \in SUBSET Stage, s \in S, DownstreamClosed(S)
             PROVE  t \in S
  BY DEF Closure
<1>1. d \in S
  BY DEF Closure
<1> QED
  BY <1>1 DEF DownstreamClosed

\* Nothing but stages is in it.
LEMMA ClosureIsStages ==
    ASSUME NEW s \in Stage
    PROVE  Closure(s) \subseteq Stage
BY DEF Closure

(***************************************************************************)
(* The inductive invariant.  WorkInv says what the control state of the    *)
(* process tells of the row and the attempt it has in hand.                *)
(***************************************************************************)

Executing == {"begun", "running", "written", "published", "pointed"}

\* The row of the stage being executed.
RowInHand ==
    pc \in Executing =>
      /\ state[cursor] = "RUNNING"
      /\ attempt[cursor] = counter[cursor]
      /\ UpstreamComplete(cursor)
      /\ cacheKey[cursor] = ExpectedKey(cursor)

\* Nothing is published under its number before the rename.
NumberIsNew ==
    pc \in {"begun", "running", "written"} =>
      /\ counter[cursor] > 0
      /\ \A a \in published : a.stage = cursor => a.num < counter[cursor]

\* The attempt written is the one the row names.
AttemptInHand ==
    pc \in {"written", "published", "pointed"} =>
      /\ draft \in Attempt
      /\ draft.stage = cursor
      /\ draft.num = attempt[cursor]
      /\ draft.key = cacheKey[cursor]

\* What is about to be recorded is published.
AttemptIsPublished ==
    pc \in {"published", "pointed", "adopt"} => draft \in published

\* The attempt about to be adopted.
AdoptionInHand ==
    pc = "adopt" =>
      /\ draft.stage = cursor
      /\ UpstreamComplete(cursor)
      /\ draft.key = ExpectedKey(cursor)

WorkInv ==
    /\ pc \in Executing \cup {"adopt", "committed", "failing"} => cursor \in Stage
    /\ RowInHand
    /\ NumberIsNew
    /\ AttemptInHand
    /\ AttemptIsPublished
    /\ AdoptionInHand

IInv == TypeOK /\ CommitBacked /\ FreshAttempts /\ WorkInv /\ ReconciledInputs

\* The artifact rows of a COMPLETE stage name bytes.
LEMMA CompleteHasBytes ==
    ASSUME TypeOK, CommitBacked, NEW s \in Stage, state[s] = "COMPLETE"
    PROVE  artifact[s] \in Content
<1>1. RowAttempt(s) \in published
  BY DEF CommitBacked
<1>2. RowAttempt(s) \in Attempt
  BY <1>1 DEF TypeOK, FileTypes
<1>3. RowAttempt(s).out \in Content
  BY <1>2 DEF Attempt
<1> QED
  BY <1>3 DEF RowAttempt

\* A key is well typed once its upstream rows are COMPLETE.
LEMMA ExpectedKeyType ==
    ASSUME TypeOK, CommitBacked, NEW s \in Stage, UpstreamComplete(s)
    PROVE  ExpectedKey(s) \in KeyOf(s) /\ ExpectedKey(s) \in Key
<1>1. \A d \in Deps[s] : d \in Stage
  BY StageAssumption
<1>2. \A d \in Deps[s] : artifact[d] \in Content
  BY <1>1, CompleteHasBytes DEF UpstreamComplete
<1>3. version[s] \in Version
  BY DEF TypeOK, ControlTypes
<1>4. ExpectedKey(s) \in KeyOf(s)
  BY <1>2, <1>3 DEF ExpectedKey, KeyOf
<1> QED
  BY <1>4 DEF Key

\* A run directory just created satisfies the invariant.
LEMMA InitInv == Init => IInv
<1> SUFFICES ASSUME Init PROVE IInv
  OBVIOUS
<1>1. TypeOK
  BY StageAssumption, DataAssumption DEF Init, TypeOK, RowTypes, FileTypes,
     ControlTypes, StageState, PcLabel, Stage
<1> QED
  BY <1>1 DEF Init, IInv, CommitBacked, FreshAttempts, WorkInv, RowInHand,
     NumberIsNew, AttemptInHand, AttemptIsPublished, AdoptionInHand,
     ReconciledInputs, Visited, Executing
(***************************************************************************)
(* Which steps write what.                                                 *)
(***************************************************************************)

\* The transactions: every other step leaves the rows alone.
RowStep == \/ UNCHANGED rowVars
           \/ cursor \in Stage /\ Invalidate(Closure(cursor), FALSE)
           \/ Invalidate(ForceScope, TRUE)
           \/ cursor \in Stage /\ MarkState(cursor, "FAILED_FINAL")
           \/ /\ cursor \in Stage /\ state[cursor] = "RUNNING"
              /\ MarkState(cursor, "FAILED_RETRYABLE")
           \/ /\ pc \in {"adopt", "pointed"} /\ state[cursor] # "FAILED_FINAL"
              /\ RecordComplete(draft)
           \/ Begin

\* Every change of the rows is one of these transactions of RunDatabase.
LEMMA RowWriters ==
    ASSUME WorkInv, [Next]_vars
    PROVE  RowStep
<1>1. CASE StartPlain
  BY <1>1 DEF StartPlain, Start, RowStep
<1>2. CASE Reconcile
  BY <1>2 DEF Reconcile, ReconcileBlocked, ReconcileStale, ReconcileCorrupt,
       ReconcileAdopt, AdoptRecord, AdoptRefused, ReconcileMissing,
       ReconcileDone, RowStep, Selecting, Visiting, rowVars
<1>3. CASE Execute
  BY <1>3 DEF Execute, LoopSkip, LoopEnd, ExportRunning, WriteAttempt,
       Publish, PublishPointer, CommitAttempt, ExportCommitted, VerifyFails,
       FailStep, ExportFailure, ExportReport, Close, RowStep, WorkInv, RowInHand,
       Executing
<1>4. CASE Environment
  BY <1>4 DEF Environment, StartForced, Start, ExecuteFails, FailStep, Crash,
       Upgrade, DamageAttempt, LoseAttempt, RestoreAttempt, DisturbPointer,
       RowStep, WorkInv, RowInHand,
       Executing
<1>5. CASE UNCHANGED vars
  BY <1>5 DEF vars, RowStep
<1> QED
  BY <1>1, <1>2, <1>3, <1>4, <1>5 DEF Next, Process

\* The cache grows by one rename; adoption, pointing and tampering move the
\* pointer to attempts that are there.
LEMMA FileWriters ==
    ASSUME [Next]_vars
    PROVE  \/ published' = published
           \/ Publish
<1>1. CASE StartPlain
  BY <1>1 DEF StartPlain, Start, fileVars
<1>2. CASE Reconcile
  BY <1>2 DEF Reconcile, ReconcileBlocked, ReconcileStale, ReconcileCorrupt,
       ReconcileAdopt, AdoptRecord, AdoptRefused, ReconcileMissing,
       ReconcileDone, fileVars
<1>3. CASE Execute
  BY <1>3 DEF Execute, LoopSkip, LoopEnd, Begin, ExportRunning, WriteAttempt,
       PublishPointer, CommitAttempt, ExportCommitted, VerifyFails,
       FailStep, ExportFailure, ExportReport, Close, fileVars
<1>4. CASE Environment
  BY <1>4 DEF Environment, StartForced, Start, ExecuteFails, FailStep, Crash,
       Upgrade, DamageAttempt, LoseAttempt, RestoreAttempt, DisturbPointer,
       fileVars
<1>5. CASE UNCHANGED vars
  BY <1>5 DEF vars, fileVars
<1> QED
  BY <1>1, <1>2, <1>3, <1>4, <1>5 DEF Next, Process

(***************************************************************************)
(* Types are preserved.                                                    *)
(***************************************************************************)

\* record_complete writes rows of their types.
LEMMA RecordCompleteTypes ==
    ASSUME RowTypes, NEW a \in Attempt, RecordComplete(a)
    PROVE  RowTypes'
<1>1. a.stage \in Stage /\ a.num \in Nat /\ a.key \in Key /\ a.out \in Content
  BY DEF Attempt
<1> QED
  BY <1>1 DEF RowTypes, RecordComplete, StageState

\* So does mark_state.
LEMMA MarkStateTypes ==
    ASSUME RowTypes, NEW s \in Stage, NEW new \in StageState, MarkState(s, new)
    PROVE  RowTypes'
BY DEF RowTypes, MarkState

\* So does invalidate, for any set of stages.
LEMMA InvalidateTypes ==
    ASSUME RowTypes, NEW scope, NEW force, Invalidate(scope, force)
    PROVE  RowTypes'
BY DEF RowTypes, Invalidate, StageState

\* What the process has in hand while it adopts or commits is an attempt.
LEMMA DraftInHand ==
    ASSUME TypeOK, WorkInv, pc \in {"adopt", "pointed"}
    PROVE  draft \in Attempt
BY DEF TypeOK, FileTypes, WorkInv, AttemptInHand, AttemptIsPublished

\* Every step keeps the rows well typed.
LEMMA RowTypesStep ==
    ASSUME IInv, [Next]_vars
    PROVE  RowTypes'
<1> USE DEF IInv, TypeOK
<1>1. CASE UNCHANGED rowVars
  BY <1>1 DEF RowTypes, rowVars
<1>2. CASE cursor \in Stage /\ Invalidate(Closure(cursor), FALSE)
  BY <1>2, InvalidateTypes
<1>3. CASE Invalidate(ForceScope, TRUE)
  BY <1>3, InvalidateTypes
<1>4. CASE cursor \in Stage /\ MarkState(cursor, "FAILED_FINAL")
  BY <1>4, MarkStateTypes DEF StageState
<1>5. CASE cursor \in Stage /\ MarkState(cursor, "FAILED_RETRYABLE")
  BY <1>5, MarkStateTypes DEF StageState
<1>6. CASE pc \in {"adopt", "pointed"} /\ RecordComplete(draft)
  BY <1>6, DraftInHand, RecordCompleteTypes
<1>7. CASE Begin
  <2>1. cursor \in Stage /\ UpstreamComplete(cursor)
    BY <1>7 DEF Begin, Executable, Looping
  <2>2. ExpectedKey(cursor) \in Key
    BY <2>1, ExpectedKeyType
  <2> QED
    BY <1>7, <2>1, <2>2 DEF Begin, RowTypes, StageState
<1> QED
  BY <1>1, <1>2, <1>3, <1>4, <1>5, <1>6, <1>7, RowWriters DEF RowStep

\* The attempt the stage code has just written.
LEMMA WrittenType ==
    ASSUME IInv, WriteAttempt
    PROVE  /\ cursor \in Stage
           /\ \E out \in Content :
                draft' = [stage |-> cursor, num |-> attempt[cursor],
                          key |-> cacheKey[cursor], out |-> out]
           /\ draft' \in Attempt
<1> USE DEF IInv, TypeOK
<1>1. cursor \in Stage /\ UpstreamComplete(cursor)
      /\ cacheKey[cursor] = ExpectedKey(cursor)
  BY DEF WriteAttempt, WorkInv, RowInHand, Executing
<1>2. cacheKey[cursor] \in KeyOf(cursor) /\ cacheKey[cursor] \in Key
  BY <1>1, ExpectedKeyType
<1>3. PICK out \in Produces(cursor, cacheKey[cursor]) :
        draft' = [stage |-> cursor, num |-> attempt[cursor],
                  key |-> cacheKey[cursor], out |-> out]
  BY DEF WriteAttempt
<1>4. out \in Content
  BY <1>1, <1>2, <1>3, DataAssumption
<1>5. attempt[cursor] \in Nat
  BY <1>1 DEF RowTypes
<1> QED
  BY <1>1, <1>2, <1>3, <1>4, <1>5 DEF Attempt

\* A nonempty set of attempts whose numbers are bounded has a latest one, which
\* is what max() in _select_published relies on.
LEMMA LatestBounds ==
    ASSUME NEW A, A # {}, NEW n \in Nat, \A a \in A : a.num \in 1..n
    PROVE  Latest(A) \in A /\ \A a \in A : a.num <= Latest(A).num
<1> DEFINE Tail(a) == a.num..n
           Tails == { Tail(a) : a \in A }
           Order == StrictSubsetOrdering(1..n)
<1>1. \A a \in A : Tail(a) \in SUBSET (1..n)
  OBVIOUS
<1>2. Tails \subseteq FiniteSubsetsOf(1..n)
  BY <1>1, FS_Interval, FS_FiniteSubsetsOfFinite
<1>3. IsWellFoundedOn(Order, FiniteSubsetsOf(1..n))
  BY FS_StrictSubsetOrderingWellFounded
<1>4. Tails # {}
  OBVIOUS
<1>5. PICK t \in Tails : \A u \in Tails : <<u, t>> \notin Order
  <2> HIDE DEF Tails, Order
  <2> QED
    BY <1>2, <1>3, <1>4, WFMin
<1>6. PICK a \in A : t = Tail(a)
  OBVIOUS
<1>7. ASSUME NEW b \in A PROVE b.num <= a.num
  <2>1. <<Tail(b), t>> \notin Order
    BY <1>5
  <2>2. ~(Tail(b) \subseteq Tail(a) /\ Tail(b) # Tail(a))
    BY <2>1, <1>1, <1>6 DEF StrictSubsetOrdering
  <2>3. CASE b.num > a.num
    <3>1. a.num \in Tail(a) /\ a.num \notin Tail(b)
      BY <2>3
    <3>2. Tail(b) \subseteq Tail(a)
      BY <2>3
    <3> QED
      BY <2>2, <3>1, <3>2
  <2> QED
    BY <2>3
<1> QED
  BY <1>7 DEF Latest

\* In particular it has one.
LEMMA LatestExists ==
    ASSUME NEW A, A # {}, NEW n \in Nat, \A a \in A : a.num \in 1..n
    PROVE  Latest(A) \in A
BY LatestBounds

\* Adoption takes an attempt that is published under the expected key.
LEMMA AdoptedType ==
    ASSUME IInv, ReconcileAdopt
    PROVE  /\ cursor \in Stage
           /\ UpstreamComplete(cursor)
           /\ draft' \in published
           /\ draft'.stage = cursor
           /\ draft'.key = ExpectedKey(cursor)
<1>1. cursor \in Stage /\ UpstreamComplete(cursor)
  BY DEF ReconcileAdopt, Selecting, Visiting
<1>2. CacheRoot(cursor) # {}
  BY DEF ReconcileAdopt, Adoptable
<1>3. \A a \in CacheRoot(cursor) : a.num \in 1..counter[cursor]
  BY DEF CacheRoot, IInv, FreshAttempts
<1>4. counter[cursor] \in Nat
  BY <1>1 DEF IInv, TypeOK, RowTypes
<1>5. Latest(CacheRoot(cursor)) \in CacheRoot(cursor)
  BY <1>2, <1>3, <1>4, LatestExists
<1>6. draft' \in CacheRoot(cursor)
  BY <1>5 DEF ReconcileAdopt
<1> QED
  BY <1>1, <1>6 DEF CacheRoot

\* Every step keeps the cache and the pointers well typed.
LEMMA FileTypesStep ==
    ASSUME IInv, [Next]_vars
    PROVE  FileTypes'
<1> USE DEF IInv, TypeOK
<1>1. CASE StartPlain \/ StartForced
  BY <1>1 DEF StartPlain, StartForced, Start, FileTypes, fileVars
<1>2. CASE ReconcileAdopt
  BY <1>2, AdoptedType DEF ReconcileAdopt, FileTypes, fileVars
<1>3. CASE Reconcile /\ ~ReconcileAdopt
  BY <1>3 DEF Reconcile, ReconcileBlocked, ReconcileStale, ReconcileCorrupt,
       AdoptRecord, AdoptRefused, ReconcileMissing, ReconcileDone, FileTypes,
       fileVars
<1>4. CASE Publish
  BY <1>4 DEF Publish, FileTypes, WorkInv, AttemptInHand
<1>5. CASE PublishPointer
  BY <1>5 DEF PublishPointer, FileTypes, fileVars, WorkInv, AttemptIsPublished
<1>6. CASE Execute /\ ~Publish /\ ~PublishPointer
  BY <1>6 DEF Execute, LoopSkip, LoopEnd, Begin, ExportRunning, WriteAttempt,
       CommitAttempt, ExportCommitted, VerifyFails, FailStep, ExportFailure,
       ExportReport, Close, FileTypes, fileVars
<1>7. CASE DisturbPointer
  BY <1>7 DEF DisturbPointer, FileTypes, fileVars
<1>8. CASE Environment /\ ~StartForced /\ ~DisturbPointer
  BY <1>8 DEF Environment, ExecuteFails, FailStep, Crash, Upgrade, DamageAttempt,
       LoseAttempt, RestoreAttempt, FileTypes, fileVars
<1>9. CASE UNCHANGED vars
  BY <1>9 DEF vars, FileTypes, fileVars
<1> QED
  BY <1>1, <1>2, <1>3, <1>4, <1>5, <1>6, <1>7, <1>8, <1>9
     DEF Next, Process, Environment

\* Every step keeps the control state of the process well typed.
LEMMA ControlTypesStep ==
    ASSUME IInv, [Next]_vars
    PROVE  ControlTypes'
<1> USE StageAssumption DEF IInv, TypeOK, ControlTypes, PcLabel, Goto, Stage
<1>1. CASE StartPlain \/ StartForced
  BY <1>1 DEF StartPlain, StartForced, Start
<1>a. pc \in Executing \cup {"adopt", "committed", "failing"} => cursor \in 1..N
  BY DEF WorkInv
<1>2. CASE Reconcile
  <2>1. \/ cursor' = cursor
        \/ cursor \in 1..N /\ cursor' = cursor + 1
        \/ cursor' = 1
    BY <1>2, <1>a DEF Reconcile, ReconcileBlocked, ReconcileStale, ReconcileCorrupt,
         ReconcileAdopt, AdoptRecord, AdoptRefused, ReconcileMissing,
         ReconcileDone,
         Selecting, Visiting, NextStage
  <2>2. /\ pc' \in {"reconcile", "adopt", "refused", "loop"}
        /\ forceStage' = forceStage /\ version' = version
    BY <1>2 DEF Reconcile, ReconcileBlocked, ReconcileStale, ReconcileCorrupt,
         ReconcileAdopt, AdoptRecord, AdoptRefused, ReconcileMissing,
         ReconcileDone
  <2> QED
    BY <2>1, <2>2
<1>3. CASE Execute
  BY <1>3, <1>a DEF Execute, LoopSkip, LoopEnd, Begin, ExportRunning, WriteAttempt,
       Publish, PublishPointer, CommitAttempt, ExportCommitted, VerifyFails,
       FailStep, ExportFailure, ExportReport, Close, Looping, NextStage
<1>4. CASE Environment
  BY <1>4 DEF Environment, StartForced, Start, ExecuteFails, FailStep, Crash,
       Upgrade, DamageAttempt, LoseAttempt, RestoreAttempt, DisturbPointer,
       procVars
<1>5. CASE UNCHANGED vars
  BY <1>5 DEF vars, procVars
<1> QED
  BY <1>1, <1>2, <1>3, <1>4, <1>5 DEF Next, Process

\* Every step keeps everything well typed.
LEMMA TypeStep ==
    ASSUME IInv, [Next]_vars
    PROVE  TypeOK'
<1>1. (draft \in Attempt \cup {NoAttempt})'
  <2>1. CASE WriteAttempt
    BY <2>1, WrittenType
  <2>2. CASE ReconcileAdopt
    BY <2>2, AdoptedType DEF IInv, TypeOK, FileTypes
  <2>3. CASE draft' = draft \/ draft' = NoAttempt
    BY <2>3 DEF IInv, TypeOK
  <2>4. WriteAttempt \/ ReconcileAdopt \/ draft' = draft \/ draft' = NoAttempt
    <3>1. CASE StartPlain
      BY <3>1 DEF StartPlain, Start
    <3>2. CASE Reconcile
      BY <3>2 DEF Reconcile, ReconcileBlocked, ReconcileStale, ReconcileCorrupt,
           AdoptRecord, AdoptRefused, ReconcileMissing, ReconcileDone
    <3>3. CASE Execute
      BY <3>3 DEF Execute, LoopSkip, LoopEnd, Begin, ExportRunning,
           Publish, PublishPointer, CommitAttempt, ExportCommitted, VerifyFails,
           FailStep, ExportFailure, ExportReport, Close
    <3>4. CASE Environment
      BY <3>4 DEF Environment, StartForced, Start, ExecuteFails, FailStep, Crash,
           Upgrade, DamageAttempt, LoseAttempt, RestoreAttempt, DisturbPointer,
           procVars
    <3>5. CASE UNCHANGED vars
      BY <3>5 DEF vars, procVars
    <3> QED
      BY <3>1, <3>2, <3>3, <3>4, <3>5 DEF Next, Process
  <2> QED
    BY <2>1, <2>2, <2>3, <2>4
<1>2. (faults \in Nat)'
  <2>1. faults' = faults \/ faults' = faults + 1
    BY DEF Next, StartPlain, Process, Reconcile, Execute, Environment, Spend, vars,
       ReconcileBlocked, ReconcileStale, ReconcileCorrupt, ReconcileAdopt,
       AdoptRecord, AdoptRefused, ReconcileMissing, ReconcileDone, LoopSkip,
       LoopEnd, Begin, ExportRunning, WriteAttempt, Publish, PublishPointer,
       CommitAttempt, ExportCommitted, VerifyFails, ExportFailure, ExportReport,
       Close, StartForced, ExecuteFails, Crash, Upgrade, DamageAttempt,
       LoseAttempt, RestoreAttempt, DisturbPointer
  <2> QED
    BY <2>1 DEF IInv, TypeOK
<1>3. (floor \in [Stage -> Nat])'
  <2>1. \/ floor' = floor
        \/ floor' = [s \in Stage |-> IF s \in ForceScope THEN counter[s] ELSE floor[s]]
    BY DEF Next, StartPlain, Start, Process, Reconcile, Execute, Environment, vars,
       ReconcileBlocked, ReconcileStale, ReconcileCorrupt, ReconcileAdopt,
       AdoptRecord, AdoptRefused, ReconcileMissing, ReconcileDone, LoopSkip,
       LoopEnd, Begin, ExportRunning, WriteAttempt, Publish, PublishPointer,
       CommitAttempt, ExportCommitted, VerifyFails, FailStep, ExportFailure,
       ExportReport, Close, StartForced, ExecuteFails, Crash, Upgrade,
       DamageAttempt, LoseAttempt, RestoreAttempt, DisturbPointer
  <2> QED
    BY <2>1 DEF IInv, TypeOK, RowTypes
<1> QED
  BY <1>1, <1>2, <1>3, RowTypesStep, FileTypesStep, ControlTypesStep DEF TypeOK

(***************************************************************************)
(* Completions stay backed by published attempts.                          *)
(***************************************************************************)

\* Every step keeps completions backed: a row becomes COMPLETE only for an
\* attempt that is published, and nothing published is taken away.
LEMMA CommitStep ==
    ASSUME IInv, [Next]_vars
    PROVE  CommitBacked'
<1> SUFFICES ASSUME NEW s \in Stage, state'[s] = "COMPLETE"
             PROVE  RowAttempt(s)' \in published'
  BY DEF CommitBacked
<1>1. published \subseteq published'
  BY FileWriters DEF Publish
<1>2. CASE state[s] = "COMPLETE" /\ RowAttempt(s)' = RowAttempt(s)
  BY <1>1, <1>2 DEF IInv, CommitBacked
<1>3. CASE pc \in {"adopt", "pointed"} /\ RecordComplete(draft) /\ draft.stage = s
  <2>1. draft \in published /\ draft \in Attempt
    BY <1>3, DraftInHand DEF IInv, WorkInv, AttemptIsPublished
  <2>2. RowAttempt(s)' = draft
    BY <1>3, <2>1 DEF RowAttempt, RecordComplete, Attempt, IInv, TypeOK, RowTypes
  <2> QED
    BY <1>1, <2>1, <2>2
<1>4. \/ state[s] = "COMPLETE" /\ RowAttempt(s)' = RowAttempt(s)
      \/ pc \in {"adopt", "pointed"} /\ RecordComplete(draft) /\ draft.stage = s
  <2> USE DEF IInv, TypeOK, RowTypes, RowAttempt
  <2>1. CASE UNCHANGED rowVars
    BY <2>1 DEF rowVars
  <2>2. CASE cursor \in Stage /\ Invalidate(Closure(cursor), FALSE)
    BY <2>2 DEF Invalidate
  <2>3. CASE Invalidate(ForceScope, TRUE)
    BY <2>3 DEF Invalidate
  <2>4. CASE cursor \in Stage /\ MarkState(cursor, "FAILED_FINAL")
    BY <2>4 DEF MarkState
  <2>5. CASE cursor \in Stage /\ MarkState(cursor, "FAILED_RETRYABLE")
    BY <2>5 DEF MarkState
  <2>6. CASE pc \in {"adopt", "pointed"} /\ RecordComplete(draft)
    BY <2>6 DEF RecordComplete
  <2>7. CASE Begin
    BY <2>7 DEF Begin
  <2> QED
    BY <2>1, <2>2, <2>3, <2>4, <2>5, <2>6, <2>7, RowWriters DEF RowStep
<1> QED
  BY <1>2, <1>3, <1>4

(***************************************************************************)
(* Attempt numbers stay unique and below the counter of their stage.       *)
(***************************************************************************)

\* No transaction lowers the attempt counter of a stage.
LEMMA CounterGrows ==
    ASSUME IInv, [Next]_vars, NEW s \in Stage
    PROVE  counter'[s] \in Nat /\ counter[s] <= counter'[s]
<1> USE DEF IInv, TypeOK, RowTypes
<1>1. CASE UNCHANGED rowVars
  BY <1>1 DEF rowVars
<1>2. CASE cursor \in Stage /\ Invalidate(Closure(cursor), FALSE)
  BY <1>2 DEF Invalidate
<1>3. CASE Invalidate(ForceScope, TRUE)
  BY <1>3 DEF Invalidate
<1>4. CASE \/ cursor \in Stage /\ MarkState(cursor, "FAILED_FINAL")
           \/ cursor \in Stage /\ MarkState(cursor, "FAILED_RETRYABLE")
  BY <1>4 DEF MarkState
<1>5. CASE pc \in {"adopt", "pointed"} /\ RecordComplete(draft)
  <2>1. draft.num \in Nat /\ draft.stage \in Stage
    BY <1>5, DraftInHand DEF Attempt
  <2> QED
    BY <1>5, <2>1 DEF RecordComplete
<1>6. CASE Begin
  BY <1>6 DEF Begin
<1> QED
  BY <1>1, <1>2, <1>3, <1>4, <1>5, <1>6, RowWriters DEF RowStep

\* Every step keeps attempt numbers unique: a rename publishes the number that
\* begin_attempt has just counted, which no published attempt carries.
LEMMA FreshStep ==
    ASSUME IInv, [Next]_vars
    PROVE  FreshAttempts'
<1> USE DEF IInv, FreshAttempts
<1>1. \A a \in published : a \in Attempt /\ a.stage \in Stage /\ a.num \in Nat
  BY DEF TypeOK, FileTypes, Attempt
<1>2. CASE published' = published
  <2>1. \A a \in published : a.num \in 1..counter'[a.stage]
    BY <1>1, CounterGrows DEF TypeOK, RowTypes
  <2> QED
    BY <1>2, <2>1
<1>3. CASE Publish
  <2>1. published' = published \cup {draft} /\ counter' = counter
    BY <1>3 DEF Publish, rowVars
  <2>2. /\ cursor \in Stage /\ draft.stage = cursor
        /\ draft.num = counter[cursor] /\ counter[cursor] \in Nat
        /\ counter[cursor] > 0
        /\ \A a \in published : a.stage = cursor => a.num < counter[cursor]
    BY <1>3 DEF Publish, WorkInv, RowInHand, NumberIsNew, AttemptInHand, Executing,
       TypeOK, RowTypes
  <2>3. \A a \in published' : a.num \in 1..counter'[a.stage]
    BY <1>1, <2>1, <2>2
  <2>4. \A a, b \in published' : a.stage = b.stage /\ a.num = b.num => a = b
    BY <1>1, <2>1, <2>2
  <2> QED
    BY <2>3, <2>4
<1> QED
  BY <1>2, <1>3, FileWriters

(***************************************************************************)
(* What the control state tells of the row and the attempt in hand.        *)
(***************************************************************************)

\* Where a stage has nothing in hand, WorkInv says nothing.
LEMMA IdleWork ==
    ASSUME pc' \notin Executing \cup {"adopt", "committed", "failing"}
    PROVE  WorkInv'
BY DEF WorkInv, RowInHand, NumberIsNew, AttemptInHand, AttemptIsPublished,
       AdoptionInHand, Executing

\* Every step keeps what the control state tells of the work in hand.
LEMMA WorkStep ==
    ASSUME IInv, [Next]_vars
    PROVE  WorkInv'
<1> USE DEF Executing, Goto
<1>1. CASE StartPlain \/ StartForced
  BY <1>1, IdleWork DEF StartPlain, StartForced, Start
<1>2. CASE ReconcileAdopt
  <2>1. UNCHANGED <<state, artifact, version, published, cursor>> /\ pc' = "adopt"
    BY <1>2 DEF ReconcileAdopt, rowVars, fileVars
  <2>2. /\ UpstreamComplete(cursor)' = UpstreamComplete(cursor)
        /\ ExpectedKey(cursor)' = ExpectedKey(cursor)
    BY <2>1 DEF UpstreamComplete, ExpectedKey
  <2> QED
    BY <1>2, <2>1, <2>2, AdoptedType DEF WorkInv, RowInHand, NumberIsNew,
       AttemptInHand, AttemptIsPublished, AdoptionInHand
<1>3. CASE Reconcile /\ ~ReconcileAdopt
  BY <1>3, IdleWork DEF Reconcile, ReconcileBlocked, ReconcileStale,
     ReconcileCorrupt, AdoptRecord, AdoptRefused, ReconcileMissing, ReconcileDone
<1>4. CASE LoopSkip \/ LoopEnd \/ ExportCommitted \/ ExportFailure \/ ExportReport \/ Close
  BY <1>4, IdleWork DEF LoopSkip, LoopEnd, ExportCommitted, ExportFailure,
     ExportReport, Close
<1>5. CASE Begin
  <2>1. /\ cursor \in Stage /\ cursor' = cursor /\ UpstreamComplete(cursor)
        /\ UNCHANGED <<artifact, version, published>>
        /\ pc' = "begun" \/ pc' = "refused"
    BY <1>5 DEF Begin, Executable, Looping, fileVars
  <2>2. CASE pc' = "refused"
    BY <2>2, IdleWork
  <2>3. CASE pc' = "begun"
    <3>1. /\ state' = [state EXCEPT ![cursor] = "RUNNING"]
          /\ attempt' = [attempt EXCEPT ![cursor] = counter[cursor] + 1]
          /\ cacheKey' = [cacheKey EXCEPT ![cursor] = ExpectedKey(cursor)]
          /\ counter' = [counter EXCEPT ![cursor] = counter[cursor] + 1]
      BY <1>5, <2>3 DEF Begin
    <3>2. \A d \in Deps[cursor] : d \in Stage /\ d # cursor
      BY <2>1, StageAssumption DEF Stage
    <3>3. UpstreamComplete(cursor)'
      BY <2>1, <3>1, <3>2 DEF UpstreamComplete
    <3>4. ExpectedKey(cursor)' = ExpectedKey(cursor)
      BY <2>1 DEF ExpectedKey
    <3>5. /\ state'[cursor] = "RUNNING" /\ attempt'[cursor] = counter'[cursor]
          /\ cacheKey'[cursor] = ExpectedKey(cursor)
          /\ counter[cursor] \in Nat /\ counter'[cursor] = counter[cursor] + 1
      BY <2>1, <3>1 DEF IInv, TypeOK, RowTypes
    <3>6. \A a \in published : a.stage = cursor => a.num \in Nat /\ a.num <= counter[cursor]
      BY <2>1, <3>5 DEF IInv, FreshAttempts
    <3>7. RowInHand' /\ NumberIsNew'
      BY <2>1, <2>3, <3>3, <3>4, <3>5, <3>6 DEF RowInHand, NumberIsNew
    <3> QED
      BY <2>1, <2>3, <3>7 DEF WorkInv, AttemptInHand, AttemptIsPublished, AdoptionInHand
  <2> QED
    BY <2>1, <2>2, <2>3
<1>6. CASE ExportRunning \/ WriteAttempt \/ Publish \/ PublishPointer
  <2>1. UNCHANGED <<rowVars, version, cursor>> /\ cursor \in Stage /\ RowInHand
    BY <1>6 DEF ExportRunning, WriteAttempt, Publish, PublishPointer, IInv, WorkInv
  <2>2. /\ UpstreamComplete(cursor)' = UpstreamComplete(cursor)
        /\ ExpectedKey(cursor)' = ExpectedKey(cursor)
    BY <2>1 DEF UpstreamComplete, ExpectedKey, rowVars
  <2>3. pc \in Executing /\ pc' \in Executing
    BY <1>6 DEF ExportRunning, WriteAttempt, Publish, PublishPointer
  <2>4. RowInHand'
    BY <2>1, <2>2, <2>3 DEF RowInHand, rowVars
  <2>5. NumberIsNew'
    BY <1>6, <2>1 DEF ExportRunning, WriteAttempt, Publish, PublishPointer, IInv,
       WorkInv, NumberIsNew, rowVars, fileVars
  <2>6. AttemptInHand'
    <3>1. CASE WriteAttempt
      BY <2>1, <3>1, WrittenType DEF AttemptInHand, rowVars
    <3>2. CASE ExportRunning \/ Publish \/ PublishPointer
      BY <3>2, <2>1 DEF ExportRunning, Publish, PublishPointer, IInv, WorkInv,
         AttemptInHand, rowVars
    <3> QED
      BY <1>6, <3>1, <3>2
  <2>7. AttemptIsPublished'
    BY <1>6 DEF ExportRunning, WriteAttempt, Publish, PublishPointer, IInv, WorkInv,
       AttemptIsPublished, fileVars
  <2> QED
    BY <2>1, <2>3, <2>4, <2>5, <2>6, <2>7 DEF WorkInv, AdoptionInHand
<1>7. CASE CommitAttempt \/ VerifyFails \/ ExecuteFails
  BY <1>7 DEF CommitAttempt, VerifyFails, ExecuteFails, FailStep, IInv, WorkInv,
     RowInHand, NumberIsNew, AttemptInHand, AttemptIsPublished, AdoptionInHand
<1>8. CASE Crash \/ Upgrade \/ LoseAttempt \/ RestoreAttempt \/ DisturbPointer
  BY <1>8, IdleWork DEF Crash, Upgrade, LoseAttempt, RestoreAttempt, DisturbPointer,
     procVars
<1>9. CASE DamageAttempt \/ UNCHANGED vars
  <2>1. UNCHANGED <<rowVars, version, cursor, pc, draft, published>>
    BY <1>9 DEF DamageAttempt, vars, procVars, fileVars
  <2>2. /\ UpstreamComplete(cursor)' = UpstreamComplete(cursor)
        /\ ExpectedKey(cursor)' = ExpectedKey(cursor)
    BY <2>1 DEF UpstreamComplete, ExpectedKey, rowVars
  <2> QED
    BY <2>1, <2>2 DEF IInv, WorkInv, RowInHand, NumberIsNew, AttemptInHand,
       AttemptIsPublished, AdoptionInHand, rowVars
<1> QED
  BY <1>1, <1>2, <1>3, <1>4, <1>5, <1>6, <1>7, <1>8, <1>9
     DEF Next, Process, Execute, Environment


(***************************************************************************)
(* No visited stage is COMPLETE over stale inputs.                         *)
(***************************************************************************)

\* The inputs of a stage stay current while its key, its version and its
\* upstream rows do.
LEMMA KeepInputs ==
    ASSUME NEW s, InputsCurrent(s),
           cacheKey'[s] = cacheKey[s], version' = version,
           \A d \in Deps[s] : state'[d] = state[d] /\ artifact'[d] = artifact[d]
    PROVE  InputsCurrent(s)'
BY DEF InputsCurrent, UpstreamComplete, ExpectedKey

\* Invalidating a set of stages closed downstream.
LEMMA InvalidateKeeps ==
    ASSUME NEW scope, DownstreamClosed(scope), NEW force,
           Invalidate(scope, force), version' = version,
           NEW s \in Stage, InputsCurrent(s), state'[s] = "COMPLETE"
    PROVE  InputsCurrent(s)'
<1>1. s \notin scope
  BY DEF Invalidate
<1>2. \A d \in Deps[s] : d \in Stage /\ d \notin scope
  BY <1>1, StageAssumption DEF DownstreamClosed
<1>3. \A d \in Deps[s] : state'[d] = state[d] /\ artifact'[d] = artifact[d]
  BY <1>2 DEF Invalidate
<1>4. cacheKey'[s] = cacheKey[s]
  BY <1>1 DEF Invalidate
<1> QED
  BY <1>3, <1>4, KeepInputs

\* A row that no COMPLETE stage under consideration depends on.
LEMMA OtherRowKeeps ==
    ASSUME IInv, NEW t \in Stage, version' = version,
           \A u \in Stage \ {t} : /\ state'[u] = state[u]
                                  /\ cacheKey'[u] = cacheKey[u]
                                  /\ artifact'[u] = artifact[u],
           NEW s \in Stage \ {t}, InputsCurrent(s), t \notin Deps[s]
    PROVE  InputsCurrent(s)'
<1>1. \A d \in Deps[s] : d \in Stage \ {t}
  BY StageAssumption
<1> QED
  BY <1>1, KeepInputs

\* The stage just recorded, over rows that do not change.
LEMMA RecordedIsCurrent ==
    ASSUME IInv, pc \in {"adopt", "pointed"}, RecordComplete(draft),
           version' = version, NEW t, t = cursor
    PROVE  /\ t \in Stage
           /\ InputsCurrent(t)'
           /\ \A u \in Stage \ {t} : /\ state'[u] = state[u]
                                     /\ cacheKey'[u] = cacheKey[u]
                                     /\ artifact'[u] = artifact[u]
<1>1. /\ t \in Stage /\ draft.stage = t
      /\ UpstreamComplete(t) /\ draft.key = ExpectedKey(t)
  BY DEF IInv, WorkInv, RowInHand, AttemptInHand, AdoptionInHand, Executing
<1>2. \A u \in Stage \ {t} : /\ state'[u] = state[u]
                             /\ cacheKey'[u] = cacheKey[u]
                             /\ artifact'[u] = artifact[u]
  BY <1>1 DEF RecordComplete, IInv, TypeOK, RowTypes
<1>3. \A d \in Deps[t] : d \in Stage \ {t}
  BY <1>1, StageAssumption DEF Stage
<1>4. UpstreamComplete(t)'
  BY <1>1, <1>2, <1>3 DEF UpstreamComplete
<1>5. ExpectedKey(t)' = ExpectedKey(t)
  BY <1>2, <1>3 DEF ExpectedKey
<1>6. cacheKey'[t] = draft.key
  BY <1>1 DEF RecordComplete, IInv, TypeOK, RowTypes
<1> QED
  BY <1>1, <1>2, <1>4, <1>5, <1>6 DEF InputsCurrent

\* Every step keeps visited completions current: what makes a key stale also
\* invalidates or has not yet visited the stages downstream of it.
LEMMA InputsStep ==
    ASSUME IInv, [Next]_vars
    PROVE  ReconciledInputs'
<1> SUFFICES ASSUME NEW s \in Visited', state'[s] = "COMPLETE"
             PROVE  InputsCurrent(s)'
  BY DEF ReconciledInputs
<1>a. \A t \in Visited : state[t] = "COMPLETE" => InputsCurrent(t)
  BY DEF IInv, ReconciledInputs
<1>b. cursor \in 1..(N + 1) /\ N \in Nat
  BY StageAssumption DEF IInv, TypeOK, ControlTypes
<1>c. Visited \subseteq Stage
  BY <1>b DEF Visited, Stage
<1>1. CASE StartPlain \/ StartForced \/ Close \/ Crash \/ Upgrade \/ LoseAttempt
           \/ RestoreAttempt \/ DisturbPointer
  <2>1. Visited' = {}
    BY <1>1 DEF StartPlain, StartForced, Start, Close, Crash, Upgrade, LoseAttempt,
       RestoreAttempt, DisturbPointer, procVars, Visited
  <2> QED
    BY <2>1
<1>2. CASE ReconcileAdopt \/ AdoptRefused \/ LoopSkip \/ LoopEnd \/ ExportRunning
           \/ WriteAttempt \/ Publish \/ PublishPointer \/ ExportCommitted
           \/ ExportFailure \/ ExportReport \/ DamageAttempt \/ UNCHANGED vars
  <2>1. UNCHANGED <<rowVars, version>>
    BY <1>2 DEF ReconcileAdopt, AdoptRefused, LoopSkip, LoopEnd, ExportRunning,
       WriteAttempt, Publish, PublishPointer, ExportCommitted, ExportFailure,
       ExportReport, DamageAttempt, procVars, vars, Goto
  <2>2. Visited' \subseteq Visited
    <3>1. CASE ReconcileAdopt \/ AdoptRefused
      BY <3>1 DEF ReconcileAdopt, AdoptRefused, Selecting, Visiting, Goto, Visited
    <3>2. CASE LoopSkip \/ LoopEnd \/ ExportRunning \/ WriteAttempt \/ Publish
               \/ PublishPointer \/ ExportCommitted \/ ExportFailure \/ ExportReport
      <4>1. pc \notin {"down", "reconcile", "adopt", "refused"}
        BY <3>2 DEF LoopSkip, LoopEnd, Looping, ExportRunning, WriteAttempt, Publish,
           PublishPointer, ExportCommitted, ExportFailure, ExportReport
      <4>2. pc' \notin {"down", "reconcile", "adopt", "refused"}
        BY <3>2 DEF LoopSkip, LoopEnd, ExportRunning, WriteAttempt, Publish,
           PublishPointer, ExportCommitted, ExportFailure, ExportReport, Goto
      <4> QED
        BY <4>1, <4>2 DEF Visited
    <3>3. CASE DamageAttempt \/ UNCHANGED vars
      BY <3>3 DEF DamageAttempt, procVars, vars, Visited
    <3> QED
      BY <1>2, <3>1, <3>2, <3>3
  <2> QED
    BY <2>1, <2>2, <1>a, KeepInputs DEF rowVars
<1>3. CASE ReconcileBlocked
  <2>1. /\ cursor \in Stage /\ version' = version
        /\ Visited = 1..(cursor - 1) /\ Visited' = 1..cursor
        /\ ~UpstreamComplete(cursor)
    BY <1>3, <1>b DEF ReconcileBlocked, Visiting, NextStage, Goto, Visited
  <2>2. CASE state[cursor] = "COMPLETE"
    <3>1. Invalidate(Closure(cursor), FALSE) /\ cursor \in Closure(cursor)
          /\ DownstreamClosed(Closure(cursor))
      BY <1>3, <2>1, <2>2, ClosureContains, ClosureIsClosed DEF ReconcileBlocked
    <3>2. s \in Stage /\ s \in 1..cursor
      BY <2>1, <1>b DEF Stage
    <3>3. s # cursor /\ state[s] = "COMPLETE"
      BY <3>1, <3>2 DEF Invalidate
    <3>4. InputsCurrent(s)
      BY <1>a, <2>1, <3>2, <3>3 DEF Stage
    <3> QED
      BY <2>1, <3>1, <3>2, <3>4, InvalidateKeeps
  <2>3. CASE state[cursor] # "COMPLETE"
    <3>1. UNCHANGED <<rowVars, version>>
      BY <1>3, <2>1, <2>3 DEF ReconcileBlocked
    <3>2. s \in Visited /\ state[s] = "COMPLETE"
      BY <2>1, <2>3, <3>1 DEF rowVars, Stage
    <3> QED
      BY <1>a, <3>1, <3>2, KeepInputs DEF rowVars
  <2> QED
    BY <2>2, <2>3
<1>4. CASE ReconcileStale \/ (ReconcileDone /\ forceStage # 0)
  <2>1. PICK scope \in {Closure(cursor), ForceScope}, force \in BOOLEAN :
          Invalidate(scope, force) /\ DownstreamClosed(scope)
    <3>1. CASE ReconcileStale
      BY <3>1, ClosureIsClosed DEF ReconcileStale, Visiting
    <3>2. CASE ReconcileDone /\ forceStage # 0
      <4>1. forceStage \in Stage
        BY <3>2, <1>b DEF IInv, TypeOK, ControlTypes, Stage
      <4> QED
        BY <3>2, <4>1, ClosureIsClosed DEF ReconcileDone, ForceScope
    <3> QED
      BY <1>4, <3>1, <3>2
  <2>2. version' = version /\ s \in Visited
    <3>1. CASE ReconcileStale
      BY <3>1 DEF ReconcileStale, Visiting, Goto, Visited
    <3>2. CASE ReconcileDone
      BY <3>2, <1>b DEF ReconcileDone, Goto, Visited, Stage
    <3> QED
      BY <1>4, <3>1, <3>2
  <2>3. state[s] = "COMPLETE" /\ s \in Stage
    BY <2>1, <2>2, <1>c DEF Invalidate
  <2> QED
    BY <2>1, <2>2, <2>3, <1>a, InvalidateKeeps
<1>5. CASE ReconcileDone /\ forceStage = 0
  <2>1. UNCHANGED <<rowVars, version>> /\ s \in Visited
    BY <1>5, <1>b DEF ReconcileDone, Goto, Visited, Stage
  <2> QED
    BY <2>1, <1>a, KeepInputs DEF rowVars
<1>6. CASE ReconcileCorrupt \/ ReconcileMissing
  <2>1. /\ cursor \in Stage /\ version' = version
        /\ Visited = 1..(cursor - 1) /\ Visited' = 1..cursor
    BY <1>6, <1>b DEF ReconcileCorrupt, ReconcileMissing, Selecting, Visiting,
       NextStage, Goto, Visited
  <2>2. /\ state'[cursor] # "COMPLETE"
        /\ \A u \in Stage \ {cursor} : state'[u] = state[u]
        /\ UNCHANGED <<cacheKey, artifact>>
    BY <1>6, <2>1 DEF ReconcileCorrupt, ReconcileMissing, MarkState, rowVars, IInv,
       TypeOK, RowTypes
  <2>3. s \in Visited /\ s < cursor /\ s \in Stage \ {cursor}
    BY <2>1, <2>2, <1>b DEF Stage
  <2>4. cursor \notin Deps[s]
    BY <2>1, <2>3, StageAssumption DEF Stage
  <2> QED
    BY <2>1, <2>2, <2>3, <2>4, <1>a, OtherRowKeeps
<1>7. CASE AdoptRecord \/ CommitAttempt
  <2>1. /\ pc \in {"adopt", "pointed"} /\ RecordComplete(draft) /\ version' = version
    BY <1>7 DEF AdoptRecord, CommitAttempt, Goto
  <2>2. /\ cursor \in Stage
        /\ \A u \in Stage \ {cursor} : /\ state'[u] = state[u]
                                       /\ cacheKey'[u] = cacheKey[u]
                                       /\ artifact'[u] = artifact[u]
    BY <2>1, RecordedIsCurrent
  <2>3. CASE s = cursor
    BY <2>1, <2>3, RecordedIsCurrent
  <2>4. CASE s # cursor
    <3>1. s \in Visited /\ s \in Stage \ {cursor} /\ cursor \notin Deps[s]
      <4>1. CASE AdoptRecord
        <5>1. Visited = 1..(cursor - 1) /\ Visited' = 1..cursor
          BY <4>1, <2>2, <1>b DEF AdoptRecord, NextStage, Goto, Visited, Stage
        <5>2. s \in Visited /\ s < cursor /\ s \in Stage
          BY <5>1, <2>2, <2>4, <1>b DEF Stage
        <5> QED
          BY <5>2, <2>2, <2>4, StageAssumption DEF Stage
      <4>2. CASE CommitAttempt
        <5>1. Visited = Stage /\ Visited' = Stage
          BY <4>2 DEF CommitAttempt, Goto, Visited
        <5>2. state[s] = "COMPLETE" /\ s \in Stage
          BY <5>1, <2>2, <2>4
        <5>3. state[cursor] = "RUNNING"
          BY <4>2 DEF CommitAttempt, IInv, WorkInv, RowInHand, Executing
        <5>4. UpstreamComplete(s)
          BY <5>1, <5>2, <1>a DEF InputsCurrent
        <5> QED
          BY <5>1, <5>2, <5>3, <5>4, <2>4 DEF UpstreamComplete
      <4> QED
        BY <1>7, <4>1, <4>2
    <3>2. InputsCurrent(s)
      BY <3>1, <2>2, <1>a
    <3> QED
      BY <2>1, <2>2, <3>1, <3>2, OtherRowKeeps
  <2> QED
    BY <2>3, <2>4
<1>8. CASE Begin \/ VerifyFails \/ ExecuteFails
  <2>1. /\ cursor \in Stage /\ version' = version /\ Visited = Stage
        /\ Visited' \subseteq Stage
    <3>1. CASE Begin
      BY <3>1, <1>b DEF Begin, Executable, Looping, Goto, Visited, Stage
    <3>2. CASE VerifyFails \/ ExecuteFails
      BY <3>2 DEF VerifyFails, ExecuteFails, FailStep, Goto, Visited, IInv, WorkInv,
         Executing
    <3> QED
      BY <1>8, <3>1, <3>2
  <2>2. /\ \/ state' = state /\ UNCHANGED <<cacheKey, artifact>>
           \/ state'[cursor] # "COMPLETE" /\ state[cursor] # "COMPLETE"
        /\ \A u \in Stage \ {cursor} : /\ state'[u] = state[u]
                                       /\ cacheKey'[u] = cacheKey[u]
                                       /\ artifact'[u] = artifact[u]
    <3>1. CASE Begin
      BY <3>1, <2>1 DEF Begin, MayBegin, IInv, TypeOK, RowTypes
    <3>2. CASE VerifyFails \/ ExecuteFails
      BY <3>2, <2>1 DEF VerifyFails, ExecuteFails, FailStep, MarkState, IInv, TypeOK,
         RowTypes, WorkInv, RowInHand, Executing
    <3> QED
      BY <1>8, <3>1, <3>2
  <2>3. CASE state' = state /\ UNCHANGED <<cacheKey, artifact>>
    BY <2>1, <2>3, <1>a, KeepInputs
  <2>4. CASE state'[cursor] # "COMPLETE" /\ state[cursor] # "COMPLETE"
    <3>1. s \in Stage \ {cursor} /\ state[s] = "COMPLETE" /\ InputsCurrent(s)
      BY <2>1, <2>2, <2>4, <1>a
    <3>2. cursor \notin Deps[s]
      BY <3>1, <2>4 DEF InputsCurrent, UpstreamComplete
    <3> QED
      BY <2>1, <2>2, <3>1, <3>2, OtherRowKeeps
  <2> QED
    BY <2>2, <2>3, <2>4
<1>9. \/ StartPlain \/ StartForced \/ Close \/ Crash \/ Upgrade \/ LoseAttempt
      \/ RestoreAttempt \/ DisturbPointer
      \/ ReconcileAdopt \/ AdoptRefused \/ LoopSkip \/ LoopEnd \/ ExportRunning
      \/ WriteAttempt \/ Publish \/ PublishPointer \/ ExportCommitted
      \/ ExportFailure \/ ExportReport \/ DamageAttempt \/ UNCHANGED vars
      \/ ReconcileBlocked \/ ReconcileStale \/ ReconcileDone
      \/ ReconcileCorrupt \/ ReconcileMissing \/ AdoptRecord \/ CommitAttempt
      \/ Begin \/ VerifyFails \/ ExecuteFails
  BY DEF Next, Process, Reconcile, Execute, Environment
<1> QED
  BY <1>1, <1>2, <1>3, <1>4, <1>5, <1>6, <1>7, <1>8, <1>9


(***************************************************************************)
(* The theorems.                                                           *)
(***************************************************************************)

\* The invariant is inductive.
LEMMA StepInv == IInv /\ [Next]_vars => IInv'
BY TypeStep, CommitStep, FreshStep, WorkStep, InputsStep DEF IInv

\* In every reachable state of every instance the invariant holds.
THEOREM Invariance == Spec => []IInv
<1>1. Init => IInv
  BY InitInv
<1>2. IInv /\ [Next]_vars => IInv'
  BY StepInv
<1> QED
  BY <1>1, <1>2, PTL DEF Spec

\* Rows, files and control state keep their types; every attempt published,
\* pointed at or recorded is whole (runstate.py, _execute_stage and reconcile).
THEOREM TypeCorrect == Spec => []TypeOK
<1>1. IInv => TypeOK
  BY DEF IInv
<1> QED
  BY <1>1, Invariance, PTL

\* A COMPLETE row never runs ahead of the rename that publishes its attempt
\* (record_complete comes after os.replace in every path of runstate.py).
THEOREM CompletionsAreBacked == Spec => []CommitBacked
<1>1. IInv => CommitBacked
  BY DEF IInv
<1> QED
  BY <1>1, Invariance, PTL

\* Attempt numbers alone identify attempts (begin_attempt counts in the row).
THEOREM AttemptsAreFresh == Spec => []FreshAttempts
<1>1. IInv => FreshAttempts
  BY DEF IInv
<1> QED
  BY <1>1, Invariance, PTL

\* Rows name published attempts, which their numbers identify, whatever crash
\* comes between the rename, the pointer and the row (_execute_stage, reconcile).
THEOREM PublicationStaysSound == Spec => []PublicationIsSound
<1>1. IInv => PublicationIsSound
  BY DEF IInv, PublicationIsSound
<1> QED
  BY <1>1, Invariance, PTL

\* After reconcile() has visited a stage, and until the process ends, the stage
\* is COMPLETE only under the key of its present inputs, whatever is damaged,
\* lost, forced, upgraded or interrupted.
THEOREM CompletionsAreCurrent == Spec => []ReconciledInputs
<1>1. IInv => ReconciledInputs
  BY DEF IInv
<1> QED
  BY <1>1, Invariance, PTL

\* The life cycle of a row: final failures and completions are never silently
\* recomputed, and RUNNING is entered only with a new number over COMPLETE
\* upstream stages (begin_attempt, record_complete, mark_state, invalidate).
THEOREM RowsFollowLifecycle == Spec => StageLifecycle
<1> DEFINE Life == \A s \in Stage :
         /\ state[s] = "FAILED_FINAL" => state'[s] \in {"FAILED_FINAL", "INVALIDATED"}
         /\ state[s] = "COMPLETE" =>
              state'[s] \in {"COMPLETE", "FAILED_FINAL", "INVALIDATED"}
         /\ state[s] # "RUNNING" /\ state'[s] = "RUNNING" =>
              attempt'[s] > counter[s] /\ UpstreamComplete(s)
<1>1. IInv /\ [Next]_vars => Life
  <2> SUFFICES ASSUME IInv, [Next]_vars, NEW s \in Stage
               PROVE  /\ state[s] = "FAILED_FINAL" =>
                           state'[s] \in {"FAILED_FINAL", "INVALIDATED"}
                      /\ state[s] = "COMPLETE" =>
                           state'[s] \in {"COMPLETE", "FAILED_FINAL", "INVALIDATED"}
                      /\ state[s] # "RUNNING" /\ state'[s] = "RUNNING" =>
                           attempt'[s] > counter[s] /\ UpstreamComplete(s)
    OBVIOUS
  <2> USE DEF IInv, TypeOK, RowTypes
  <2>1. CASE UNCHANGED rowVars
    BY <2>1 DEF rowVars
  <2>2. CASE cursor \in Stage /\ Invalidate(Closure(cursor), FALSE)
    BY <2>2 DEF Invalidate
  <2>3. CASE Invalidate(ForceScope, TRUE)
    BY <2>3 DEF Invalidate
  <2>4. CASE cursor \in Stage /\ MarkState(cursor, "FAILED_FINAL")
    BY <2>4 DEF MarkState
  <2>5. CASE /\ cursor \in Stage /\ state[cursor] = "RUNNING"
             /\ MarkState(cursor, "FAILED_RETRYABLE")
    BY <2>5 DEF MarkState
  <2>6. CASE /\ pc \in {"adopt", "pointed"} /\ state[cursor] # "FAILED_FINAL"
             /\ RecordComplete(draft)
    <3>1. draft.stage = cursor
      BY <2>6 DEF WorkInv, AttemptInHand, AdoptionInHand
    <3> QED
      BY <2>6, <3>1 DEF RecordComplete
  <2>7. CASE Begin
    BY <2>7 DEF Begin, Executable, Looping, MayBegin
  <2> QED
    BY <2>1, <2>2, <2>3, <2>4, <2>5, <2>6, <2>7, RowWriters DEF RowStep
<1>2. Spec => [][Life]_vars
  BY <1>1, Invariance, PTL DEF Spec
<1> QED
  BY <1>2 DEF StageLifecycle

(***************************************************************************)
(* Where the completions of one state come from.                           *)
(***************************************************************************)

\* A visit adds the stage at the cursor, which is not COMPLETE afterwards
\* unless the visit adopted an attempt for it.
LEMMA VisitedGrows ==
    ASSUME IInv, [Next]_vars
    PROVE  \/ Visited' \subseteq Visited
           \/ /\ cursor \in Stage /\ Visited' \subseteq Visited \cup {cursor}
              /\ state'[cursor] # "COMPLETE" \/ AdoptRecord
<1>b. cursor \in 1..(N + 1) /\ N \in Nat
  BY StageAssumption DEF IInv, TypeOK, ControlTypes
<1>1. CASE StartPlain \/ Environment \/ Close
  <2>1. CASE StartPlain \/ StartForced \/ Close \/ Crash \/ Upgrade \/ LoseAttempt
             \/ RestoreAttempt \/ DisturbPointer
    BY <2>1 DEF StartPlain, StartForced, Start, Close, Crash, Upgrade, LoseAttempt,
       RestoreAttempt, DisturbPointer, procVars, Visited
  <2>2. CASE ExecuteFails
    BY <2>2 DEF ExecuteFails, FailStep, Goto, Visited
  <2>3. CASE DamageAttempt
    BY <2>3 DEF DamageAttempt, procVars, Visited
  <2> QED
    BY <1>1, <2>1, <2>2, <2>3 DEF Environment
<1>2. CASE ReconcileBlocked \/ ReconcileCorrupt \/ ReconcileMissing
  <2>1. /\ cursor \in Stage /\ Visited = 1..(cursor - 1) /\ Visited' = 1..cursor
    <3>1. cursor \in Stage /\ pc = "reconcile" /\ pc' = "reconcile" /\ cursor' = cursor + 1
      BY <1>2 DEF ReconcileBlocked, ReconcileCorrupt, ReconcileMissing, Selecting,
         Visiting, NextStage, Goto
    <3> QED
      BY <3>1, <1>b DEF Visited
  <2>2. state'[cursor] # "COMPLETE"
    <3>1. CASE ReconcileBlocked
      BY <3>1, <2>1, ClosureContains DEF ReconcileBlocked, Invalidate, rowVars
    <3>2. CASE ReconcileCorrupt \/ ReconcileMissing
      BY <3>2, <2>1 DEF ReconcileCorrupt, ReconcileMissing, MarkState, rowVars, IInv,
         TypeOK, RowTypes
    <3> QED
      BY <1>2, <3>1, <3>2
  <2> QED
    BY <2>1, <2>2, <1>b DEF Stage
<1>3. CASE AdoptRecord
  <2>1. cursor \in Stage
    BY <1>3 DEF AdoptRecord, IInv, WorkInv
  <2>2. /\ Visited = 1..(cursor - 1) /\ Visited' = 1..cursor
    BY <1>3, <1>b DEF AdoptRecord, NextStage, Goto, Visited
  <2> QED
    BY <1>3, <2>1, <2>2, <1>b DEF Stage
<1>4. CASE ReconcileDone
  BY <1>4, <1>b DEF ReconcileDone, Goto, Visited, Stage
<1>5. CASE ReconcileStale \/ ReconcileAdopt \/ AdoptRefused
  BY <1>5 DEF ReconcileStale, ReconcileAdopt, AdoptRefused, Selecting, Visiting, Goto,
     Visited
<1>6. CASE Execute /\ ~Close
  <2>1. pc \notin {"down", "reconcile", "adopt", "refused"}
    BY <1>6 DEF Execute, LoopSkip, LoopEnd, Begin, Executable, Looping, ExportRunning,
       WriteAttempt, Publish, PublishPointer, CommitAttempt, ExportCommitted,
       VerifyFails, ExportFailure, ExportReport
  <2>2. pc' # "down" /\ (pc' = "refused" => Begin /\ cursor' = cursor)
        /\ pc' \notin {"reconcile", "adopt"}
    BY <1>6 DEF Execute, LoopSkip, LoopEnd, Begin, ExportRunning, WriteAttempt, Publish,
       PublishPointer, CommitAttempt, ExportCommitted, VerifyFails, FailStep,
       ExportFailure, ExportReport, Goto
  <2>3. Visited = Stage
    BY <2>1 DEF Visited
  <2>4. CASE pc' = "refused"
    <3>1. Visited' = 1..(cursor - 1)
      BY <2>2, <2>4 DEF Visited
    <3> QED
      BY <2>3, <3>1, <1>b DEF Stage
  <2>5. CASE pc' # "refused"
    BY <2>2, <2>3, <2>5 DEF Visited
  <2> QED
    BY <2>4, <2>5
<1>7. CASE UNCHANGED vars
  BY <1>7 DEF vars, procVars, Visited
<1> QED
  BY <1>1, <1>2, <1>3, <1>4, <1>5, <1>6, <1>7 DEF Next, Process, Reconcile

\* A completion was there before under the same attempt, or it is recorded now.
LEMMA CompletionsStart ==
    ASSUME IInv, [Next]_vars, NEW s \in Stage, state'[s] = "COMPLETE"
    PROVE  \/ state[s] = "COMPLETE" /\ RowAttempt(s)' = RowAttempt(s)
           \/ /\ pc \in {"adopt", "pointed"} /\ RecordComplete(draft)
              /\ s = cursor /\ RowAttempt(s)' = draft
<1> USE DEF IInv, TypeOK, RowTypes
<1>1. CASE UNCHANGED rowVars
  BY <1>1 DEF rowVars, RowAttempt
<1>2. CASE \/ cursor \in Stage /\ Invalidate(Closure(cursor), FALSE)
           \/ Invalidate(ForceScope, TRUE)
  BY <1>2 DEF Invalidate, RowAttempt
<1>3. CASE \/ cursor \in Stage /\ MarkState(cursor, "FAILED_FINAL")
           \/ cursor \in Stage /\ MarkState(cursor, "FAILED_RETRYABLE")
  BY <1>3 DEF MarkState, RowAttempt
<1>4. CASE pc \in {"adopt", "pointed"} /\ RecordComplete(draft)
  <2>1. draft \in Attempt /\ draft.stage = cursor
    BY <1>4, DraftInHand DEF WorkInv, AttemptInHand, AdoptionInHand
  <2>2. CASE s # cursor
    BY <1>4, <2>1, <2>2 DEF RecordComplete, RowAttempt
  <2>3. CASE s = cursor
    <3>1. RowAttempt(s)' = [stage |-> draft.stage, num |-> draft.num,
                            key |-> draft.key, out |-> draft.out]
      BY <1>4, <2>1, <2>3 DEF RecordComplete, RowAttempt
    <3>2. RowAttempt(s)' = draft
      BY <2>1, <3>1 DEF Attempt
    <3> QED
      BY <1>4, <2>3, <3>2
  <2> QED
    BY <2>2, <2>3
<1>5. CASE Begin
  BY <1>5 DEF Begin, RowAttempt
<1> QED
  BY <1>1, <1>2, <1>3, <1>4, <1>5, RowWriters DEF RowStep

\* The completion of a visited stage was visited before, or is recorded now.
LEMMA VisitedCompletionsStart ==
    ASSUME IInv, [Next]_vars, NEW s \in Visited', state'[s] = "COMPLETE"
    PROVE  \/ s \in Visited /\ state[s] = "COMPLETE" /\ RowAttempt(s)' = RowAttempt(s)
           \/ /\ pc \in {"adopt", "pointed"} /\ RecordComplete(draft)
              /\ s = cursor /\ RowAttempt(s)' = draft
<1>1. s \in Stage
  <2>1. TypeOK'
    BY TypeStep
  <2>2. cursor' \in 1..(N + 1) /\ N \in Nat
    BY <2>1, StageAssumption DEF TypeOK, ControlTypes
  <2> QED
    BY <2>2 DEF Visited, Stage
<1>2. CASE AdoptRecord /\ s = cursor
  <2>1. pc = "adopt" /\ RecordComplete(draft) /\ draft.stage = cursor /\ draft \in Attempt
    BY <1>2, DraftInHand DEF AdoptRecord, IInv, WorkInv, AdoptionInHand
  <2>2. RowAttempt(s)' = [stage |-> draft.stage, num |-> draft.num,
                          key |-> draft.key, out |-> draft.out]
    BY <1>1, <1>2, <2>1 DEF RecordComplete, RowAttempt, IInv, TypeOK, RowTypes
  <2>3. RowAttempt(s)' = draft
    BY <2>1, <2>2 DEF Attempt
  <2> QED
    BY <1>2, <2>1, <2>3
<1>3. CASE s \in Visited
  BY <1>1, <1>3, CompletionsStart
<1> QED
  BY <1>2, <1>3, VisitedGrows

(***************************************************************************)
(* The files that readers follow: the completion pointers and run.json.    *)
(***************************************************************************)

\* The pointer of a visited completion selects the attempt its row names.
PointersSelect ==
    \A s \in Visited : state[s] = "COMPLETE" => pointer[s] = RowAttempt(s)

\* An attempt is pointed at before it is recorded.
DraftPointed == pc \in {"adopt", "pointed"} => pointer[cursor] = draft

ReaderInv == /\ PointersSelect /\ DraftPointed
             /\ PointersArePublished /\ ListingsArePublished /\ RunJsonConsistent

\* A pointer is written by adoption, by publication or by tampering.
LEMMA PointerWriters ==
    ASSUME [Next]_vars
    PROVE  pointer' = pointer \/ ReconcileAdopt \/ PublishPointer \/ DisturbPointer
<1>1. CASE StartPlain
  BY <1>1 DEF StartPlain, Start
<1>2. CASE Reconcile
  BY <1>2 DEF Reconcile, ReconcileBlocked, ReconcileStale, ReconcileCorrupt, AdoptRecord,
     AdoptRefused, ReconcileMissing, ReconcileDone
<1>3. CASE Execute
  BY <1>3 DEF Execute, LoopSkip, LoopEnd, Begin, ExportRunning, WriteAttempt, Publish,
     CommitAttempt, ExportCommitted, VerifyFails, FailStep, ExportFailure, ExportReport,
     Close
<1>4. CASE Environment
  BY <1>4 DEF Environment, StartForced, Start, ExecuteFails, FailStep, Crash, Upgrade,
     DamageAttempt, LoseAttempt, RestoreAttempt
<1>5. CASE UNCHANGED vars
  BY <1>5 DEF vars
<1> QED
  BY <1>1, <1>2, <1>3, <1>4, <1>5 DEF Next, Process

\* Pointers keep selecting: a pointer moves only where no visited completion is.
LEMMA PointersStep ==
    ASSUME IInv, ReaderInv, [Next]_vars
    PROVE  PointersSelect'
<1> SUFFICES ASSUME NEW s \in Visited', state'[s] = "COMPLETE"
             PROVE  pointer'[s] = RowAttempt(s)'
  BY DEF PointersSelect
<1>1. CASE pc \in {"adopt", "pointed"} /\ RecordComplete(draft)
           /\ s = cursor /\ RowAttempt(s)' = draft
  <2>1. pointer' = pointer
    BY <1>1, PointerWriters DEF ReconcileAdopt, Selecting, Visiting, PublishPointer,
       DisturbPointer
  <2> QED
    BY <1>1, <2>1 DEF ReaderInv, DraftPointed
<1>2. CASE s \in Visited /\ state[s] = "COMPLETE" /\ RowAttempt(s)' = RowAttempt(s)
  <2>1. pointer[s] = RowAttempt(s)
    BY <1>2 DEF ReaderInv, PointersSelect
  <2>2. CASE pointer' = pointer
    BY <1>2, <2>1, <2>2
  <2>3. CASE ReconcileAdopt
    <3>1. s # cursor
      BY <1>2, <2>3 DEF ReconcileAdopt, Selecting, Visiting, Visited, Stage
    <3> QED
      BY <1>2, <2>1, <2>3, <3>1 DEF ReconcileAdopt, IInv, TypeOK, FileTypes
  <2>4. CASE PublishPointer
    <3>1. s # cursor
      BY <1>2, <2>4 DEF PublishPointer, IInv, WorkInv, RowInHand, Executing
    <3> QED
      BY <1>2, <2>1, <2>4, <3>1 DEF PublishPointer, IInv, TypeOK, FileTypes
  <2>5. CASE DisturbPointer
    BY <1>2, <2>5 DEF DisturbPointer, Visited
  <2> QED
    BY <2>2, <2>3, <2>4, <2>5, PointerWriters
<1> QED
  BY <1>1, <1>2, VisitedCompletionsStart

\* An attempt to be recorded is picked by adoption or by publication.
LEMMA InHandSteps ==
    ASSUME [Next]_vars
    PROVE  \/ pc' \notin {"adopt", "pointed"} \/ ReconcileAdopt \/ PublishPointer
           \/ DamageAttempt \/ UNCHANGED vars
<1>1. CASE StartPlain \/ Environment
  BY <1>1 DEF StartPlain, Start, Environment, StartForced, ExecuteFails, FailStep, Crash,
     Upgrade, LoseAttempt, RestoreAttempt, DisturbPointer, Goto, procVars
<1>2. CASE Reconcile
  BY <1>2 DEF Reconcile, ReconcileBlocked, ReconcileStale, ReconcileCorrupt, AdoptRecord,
     AdoptRefused, ReconcileMissing, ReconcileDone, Goto
<1>3. CASE Execute
  BY <1>3 DEF Execute, LoopSkip, LoopEnd, Begin, ExportRunning, WriteAttempt, Publish,
     CommitAttempt, ExportCommitted, VerifyFails, FailStep, ExportFailure, ExportReport,
     Close, Goto
<1> QED
  BY <1>1, <1>2, <1>3 DEF Next, Process

\* What is about to be recorded stays pointed at.
LEMMA DraftPointedStep ==
    ASSUME IInv, DraftPointed, [Next]_vars
    PROVE  DraftPointed'
<1>1. CASE ReconcileAdopt
  BY <1>1, AdoptedType DEF ReconcileAdopt, DraftPointed, IInv, TypeOK, FileTypes
<1>2. CASE PublishPointer
  BY <1>2 DEF PublishPointer, DraftPointed, IInv, TypeOK, FileTypes, WorkInv, Executing
<1>3. CASE DamageAttempt \/ UNCHANGED vars
  BY <1>3 DEF DamageAttempt, vars, procVars, DraftPointed
<1> QED
  BY <1>1, <1>2, <1>3, InHandSteps DEF DraftPointed

\* Every pointer that is written selects a published attempt of its stage, and
\* what was published stays so.
LEMMA PublishedPointersStep ==
    ASSUME IInv, PointersArePublished, [Next]_vars
    PROVE  PointersArePublished'
<1>1. published \subseteq published' /\ pointer \in [Stage -> Attempt \cup {NoAttempt}]
  BY FileWriters DEF Publish, IInv, TypeOK, FileTypes
<1>2. CASE pointer' = pointer
  BY <1>1, <1>2 DEF PointersArePublished
<1>3. CASE ReconcileAdopt
  <2>1. draft' \in published /\ draft'.stage = cursor
    BY <1>3, AdoptedType
  <2>2. pointer' = [pointer EXCEPT ![cursor] = draft']
    BY <1>3 DEF ReconcileAdopt
  <2> QED
    BY <1>1, <2>1, <2>2 DEF PointersArePublished
<1>4. CASE PublishPointer
  <2>1. draft \in published /\ draft.stage = cursor
    BY <1>4 DEF PublishPointer, IInv, WorkInv, AttemptInHand, AttemptIsPublished
  <2>2. pointer' = [pointer EXCEPT ![cursor] = draft]
    BY <1>4 DEF PublishPointer
  <2> QED
    BY <1>1, <2>1, <2>2 DEF PointersArePublished
<1>5. CASE DisturbPointer
  <2>1. PICK s \in Stage : \E a \in {NoAttempt} \cup {b \in published : b.stage = s} :
          pointer' = [pointer EXCEPT ![s] = a]
    BY <1>5 DEF DisturbPointer
  <2> QED
    BY <1>1, <2>1 DEF PointersArePublished
<1> QED
  BY <1>2, <1>3, <1>4, <1>5, PointerWriters

\* A step that writes run.json writes the rows of a process that has visited
\* every stage.
LEMMA JsonWriters ==
    ASSUME IInv, [Next]_vars
    PROVE  \/ runJson' = runJson
           \/ runJson' = RunArtifact /\ Visited = Stage /\ published' = published
<1>1. CASE StartPlain \/ Environment
  BY <1>1 DEF StartPlain, Start, Environment, StartForced, ExecuteFails, FailStep, Crash,
     Upgrade, DamageAttempt, LoseAttempt, RestoreAttempt, DisturbPointer
<1>2. CASE Reconcile
  BY <1>2 DEF Reconcile, ReconcileBlocked, ReconcileStale, ReconcileCorrupt,
     ReconcileAdopt, AdoptRecord, AdoptRefused, ReconcileMissing, ReconcileDone
<1>3. CASE Execute
  BY <1>3 DEF Execute, LoopSkip, LoopEnd, Begin, ExportRunning, WriteAttempt, Publish,
     PublishPointer, CommitAttempt, ExportCommitted, VerifyFails, FailStep, ExportFailure,
     ExportReport, Close, Visited, fileVars
<1>4. CASE UNCHANGED vars
  BY <1>4 DEF vars
<1> QED
  BY <1>1, <1>2, <1>3, <1>4 DEF Next, Process

\* The lines of run.json are exported from rows whose completions are backed.
LEMMA ListingsStep ==
    ASSUME IInv, ListingsArePublished, [Next]_vars
    PROVE  ListingsArePublished'
<1>1. published \subseteq published'
  BY FileWriters DEF Publish
<1>2. CASE runJson' = runJson
  BY <1>1, <1>2 DEF ListingsArePublished, ListedIsPublished
<1>3. CASE runJson' = RunArtifact
  <2> SUFFICES ASSUME NEW s \in Stage, RunArtifact.stages[s].state = "COMPLETE"
               PROVE  \E a \in published' :
                        /\ a.stage = s /\ a.num = RunArtifact.stages[s].attempt
                        /\ a.out = RunArtifact.stages[s].output
    BY <1>3 DEF ListingsArePublished, ListedIsPublished
  <2>1. RowAttempt(s) \in published
    BY DEF RunArtifact, IInv, CommitBacked
  <2>2. /\ RowAttempt(s).stage = s
        /\ RowAttempt(s).num = RunArtifact.stages[s].attempt
        /\ RowAttempt(s).out = RunArtifact.stages[s].output
    BY DEF RowAttempt, RunArtifact
  <2> QED
    BY <1>1, <2>1, <2>2
<1> QED
  BY <1>2, <1>3, JsonWriters

\* A run.json that says COMPLETE lists what was published, from the inputs it
\* lists: the rows it is exported from are visited and their inputs current.
LEMMA JsonStep ==
    ASSUME IInv, RunJsonConsistent, [Next]_vars
    PROVE  RunJsonConsistent'
<1>1. published \subseteq published'
  BY FileWriters DEF Publish
<1>2. CASE runJson' = runJson
  <2> SUFFICES ASSUME runJson.state = "COMPLETE", NEW s \in Stage
               PROVE  \E a \in published' :
                        /\ a.stage = s /\ a.num = runJson.stages[s].attempt
                        /\ a.out = runJson.stages[s].output
                        /\ a.key.upstream = [d \in Deps[s] |-> runJson.stages[d].output]
    BY <1>2 DEF RunJsonConsistent
  <2> QED
    BY <1>1 DEF RunJsonConsistent
<1>3. CASE runJson' = RunArtifact /\ Visited = Stage /\ published' = published
  <2> SUFFICES ASSUME RunArtifact.state = "COMPLETE", NEW s \in Stage
               PROVE  \E a \in published :
                        /\ a.stage = s /\ a.num = RunArtifact.stages[s].attempt
                        /\ a.out = RunArtifact.stages[s].output
                        /\ a.key.upstream = [d \in Deps[s] |-> RunArtifact.stages[d].output]
    BY <1>3 DEF RunJsonConsistent
  <2>1. OverallState = "COMPLETE"
    BY DEF RunArtifact
  <2>2. { state[t] : t \in Stage } = {"COMPLETE"}
    BY <2>1 DEF OverallState
  <2>3. state[s] = "COMPLETE"
    BY <2>2
  <2>4. RowAttempt(s) \in published /\ InputsCurrent(s)
    BY <1>3, <2>3 DEF IInv, CommitBacked, ReconciledInputs
  <2>5. \A d \in Deps[s] : d \in Stage
    BY StageAssumption
  <2>6. RowAttempt(s).key.upstream = [d \in Deps[s] |-> artifact[d]]
    BY <2>4 DEF RowAttempt, InputsCurrent, ExpectedKey
  <2>7. [d \in Deps[s] |-> RunArtifact.stages[d].output] = [d \in Deps[s] |-> artifact[d]]
    BY <2>5 DEF RunArtifact
  <2>8. /\ RowAttempt(s).stage = s
        /\ RowAttempt(s).num = RunArtifact.stages[s].attempt
        /\ RowAttempt(s).out = RunArtifact.stages[s].output
    BY DEF RowAttempt, RunArtifact
  <2> QED
    BY <2>4, <2>6, <2>7, <2>8
<1> QED
  BY <1>2, <1>3, JsonWriters

\* A new run directory tells no reader of a completion.
LEMMA ReaderInit == Init => ReaderInv
<1> SUFFICES ASSUME Init PROVE ReaderInv
  OBVIOUS
<1>1. PointersSelect /\ DraftPointed
  BY DEF Init, PointersSelect, DraftPointed, Visited
<1>2. RunArtifact.state # "COMPLETE"
  <2>1. 1 \in Stage /\ state[1] = "PENDING"
    BY StageAssumption DEF Init, Stage
  <2>2. { state[s] : s \in Stage } # {"COMPLETE"}
    BY <2>1
  <2> QED
    BY <2>2 DEF RunArtifact, OverallState
<1>3. PointersArePublished /\ ListingsArePublished
  BY DEF Init, PointersArePublished, ListingsArePublished, RunArtifact
<1> QED
  BY <1>1, <1>2, <1>3 DEF ReaderInv, RunJsonConsistent, Init

\* However pointers are tampered with and wherever a run is cut off, a pointer
\* and a COMPLETE line of run.json name published attempts, a report leaves
\* pointers that agree with the rows, and a run.json that says COMPLETE is about
\* attempts made from each other (_publish_pointer, export_run_artifact).
THEOREM ReadersAreTold == Spec => []ReadersSeeTheRows
<1>1. Init => ReaderInv
  BY ReaderInit
<1>2. IInv /\ ReaderInv /\ [Next]_vars => ReaderInv'
  BY PointersStep, DraftPointedStep, PublishedPointersStep, ListingsStep, JsonStep
     DEF ReaderInv
<1>3. IInv /\ ReaderInv => ReadersSeeTheRows
  BY DEF ReaderInv, PointersSelect, ReadersSeeTheRows, PointerAgrees, Visited
<1> QED
  BY <1>1, <1>2, <1>3, Invariance, PTL DEF Spec

(***************************************************************************)
(* Completions stand on bytes that verify and that nothing disputes, when  *)
(* bytes do not rot under a running process.                               *)
(***************************************************************************)

\* What is about to be recorded was verified, and its siblings agree.
EvidenceInHand ==
    /\ pc \in {"adopt", "pointed"} => draft \notin lost \cup damaged
    /\ pc = "adopt" => \A a, b \in CacheRoot(cursor) : a.out = b.out

\* No visited completion is disputed, also while an adoption is in hand.
Undisputed ==
    pc \in {"reconcile", "adopt"} =>
      \A s \in Visited : state[s] = "COMPLETE" =>
        \A a, b \in CacheRoot(s) : a.out = b.out

EvidenceInv == VerifiedComplete /\ Undisputed /\ EvidenceInHand

\* Without rot the evidence changes between two runs only.
LEMMA EvidenceWriters ==
    ASSUME "rot" \notin Faults, [Next]_vars
    PROVE  UNCHANGED <<lost, damaged>> \/ (pc = "down" /\ pc' = "down")
<1>1. CASE StartPlain
  BY <1>1 DEF StartPlain, Start, fileVars
<1>2. CASE Reconcile
  BY <1>2 DEF Reconcile, ReconcileBlocked, ReconcileStale, ReconcileCorrupt,
     ReconcileAdopt, AdoptRecord, AdoptRefused, ReconcileMissing, ReconcileDone, fileVars
<1>3. CASE Execute
  BY <1>3 DEF Execute, LoopSkip, LoopEnd, Begin, ExportRunning, WriteAttempt, Publish,
     PublishPointer, CommitAttempt, ExportCommitted, VerifyFails, FailStep, ExportFailure,
     ExportReport, Close, fileVars
<1>4. CASE Environment
  BY <1>4 DEF Environment, StartForced, Start, ExecuteFails, FailStep, Crash, Upgrade,
     DamageAttempt, LoseAttempt, RestoreAttempt, DisturbPointer, Spend, fileVars, procVars
<1>5. CASE UNCHANGED vars
  BY <1>5 DEF vars, fileVars
<1> QED
  BY <1>1, <1>2, <1>3, <1>4, <1>5 DEF Next, Process

\* A visited completion keeps bytes that are there and verify.
LEMMA VerifiedStep ==
    ASSUME "rot" \notin Faults, IInv, EvidenceInv, [Next]_vars
    PROVE  VerifiedComplete'
<1> SUFFICES ASSUME NEW s \in Visited', state'[s] = "COMPLETE"
             PROVE  RowAttempt(s)' \notin lost' \cup damaged'
  BY DEF VerifiedComplete
<1>1. UNCHANGED <<lost, damaged>>
  BY EvidenceWriters DEF Visited
<1> QED
  BY <1>1, VisitedCompletionsStart DEF EvidenceInv, VerifiedComplete, EvidenceInHand

\* Which steps come to a state of reconcile(), and what they leave alone.
LEMMA ReconcilingSteps ==
    ASSUME IInv, [Next]_vars, pc' \in {"reconcile", "adopt"}, Visited' # {}
    PROVE  /\ pc \in {"reconcile", "adopt"} /\ UNCHANGED <<published, version>>
           /\ cursor \in 1..(N + 1) /\ cursor' \in {cursor, cursor + 1}
           /\ \/ UNCHANGED rowVars
              \/ cursor \in Stage /\ Invalidate(Closure(cursor), FALSE)
              \/ \E new \in StageState : cursor \in Stage /\ MarkState(cursor, new)
              \/ pc = "adopt" /\ cursor \in Stage /\ RecordComplete(draft)
<1> USE DEF Goto
<1>1. \/ DamageAttempt \/ UNCHANGED vars \/ StartPlain \/ StartForced
      \/ ReconcileBlocked \/ ReconcileStale \/ ReconcileCorrupt \/ ReconcileMissing
      \/ AdoptRecord \/ ReconcileAdopt
  <2>1. CASE Reconcile
    BY <2>1 DEF Reconcile, AdoptRefused, ReconcileDone
  <2>2. CASE Execute
    BY <2>2 DEF Execute, LoopSkip, LoopEnd, Begin, ExportRunning, WriteAttempt, Publish,
       PublishPointer, CommitAttempt, ExportCommitted, VerifyFails, FailStep,
       ExportFailure, ExportReport, Close
  <2>3. CASE Environment
    BY <2>3 DEF Environment, ExecuteFails, FailStep, Crash, Upgrade, LoseAttempt,
       RestoreAttempt, DisturbPointer, procVars
  <2> QED
    BY <2>1, <2>2, <2>3 DEF Next, Process
<1>2. cursor \in 1..(N + 1)
  BY DEF IInv, TypeOK, ControlTypes
<1>3. CASE StartPlain \/ StartForced
  BY <1>3 DEF StartPlain, StartForced, Start, Visited
<1>4. CASE DamageAttempt \/ UNCHANGED vars
  BY <1>2, <1>4 DEF DamageAttempt, vars, procVars, fileVars
<1>5. CASE ReconcileBlocked \/ ReconcileStale
  BY <1>2, <1>5 DEF ReconcileBlocked, ReconcileStale, Visiting, NextStage, fileVars
<1>6. CASE ReconcileCorrupt \/ ReconcileMissing
  BY <1>2, <1>6 DEF ReconcileCorrupt, ReconcileMissing, Selecting, Visiting, NextStage,
     fileVars, StageState
<1>7. CASE AdoptRecord \/ ReconcileAdopt
  BY <1>2, <1>7 DEF AdoptRecord, ReconcileAdopt, Selecting, Visiting, NextStage, fileVars,
     IInv, WorkInv
<1> QED
  BY <1>1, <1>3, <1>4, <1>5, <1>6, <1>7

\* The cache of a stage at or before the cursor stays where it is.
LEMMA CacheStays ==
    ASSUME "rot" \notin Faults, IInv, [Next]_vars, pc' \in {"reconcile", "adopt"},
           NEW s \in Visited', state'[s] = "COMPLETE"
    PROVE  CacheRoot(s)' = CacheRoot(s)
<1>1. /\ pc \in {"reconcile", "adopt"} /\ UNCHANGED <<published, version>>
      /\ cursor \in 1..(N + 1) /\ cursor' \in {cursor, cursor + 1}
  BY ReconcilingSteps
<1>2. N \in Nat /\ s \in 1..cursor /\ s \in Stage
  <2>1. cursor' \in 1..(N + 1) /\ N \in Nat
    BY TypeStep, StageAssumption DEF TypeOK, ControlTypes
  <2> QED
    BY <1>1, <2>1 DEF Visited, Stage
<1>3. UNCHANGED lost
  BY <1>1, EvidenceWriters
<1>4. \A d \in Deps[s] : d \in Stage /\ d < s
  BY <1>2, StageAssumption
<1>5. \A d \in Deps[s] : artifact'[d] = artifact[d]
  <2> SUFFICES ASSUME NEW d \in Deps[s] PROVE artifact'[d] = artifact[d]
    OBVIOUS
  <2>1. CASE UNCHANGED rowVars
    BY <2>1 DEF rowVars
  <2>2. CASE cursor \in Stage /\ Invalidate(Closure(cursor), FALSE)
    <3>1. s \notin Closure(cursor)
      BY <1>2, <2>2 DEF Invalidate
    <3>2. d \notin Closure(cursor)
      BY <1>2, <2>2, <3>1, ClosureIsClosed DEF DownstreamClosed
    <3> QED
      BY <1>4, <2>2, <3>2 DEF Invalidate
  <2>3. CASE \E new \in StageState : cursor \in Stage /\ MarkState(cursor, new)
    BY <2>3 DEF MarkState
  <2>4. CASE pc = "adopt" /\ cursor \in Stage /\ RecordComplete(draft)
    <3>1. draft.stage = cursor
      BY <2>4 DEF IInv, WorkInv, AdoptionInHand
    <3>2. d # cursor
      BY <1>1, <1>2, <1>4 DEF Stage
    <3> QED
      BY <1>4, <2>4, <3>1, <3>2 DEF RecordComplete, IInv, TypeOK, RowTypes
  <2> QED
    BY <2>1, <2>2, <2>3, <2>4, ReconcilingSteps
<1>6. ExpectedKey(s)' = ExpectedKey(s)
  BY <1>1, <1>5 DEF ExpectedKey
<1> QED
  BY <1>1, <1>3, <1>6 DEF CacheRoot

\* Reconciliation leaves no disputed completion behind.
LEMMA UndisputedStep ==
    ASSUME "rot" \notin Faults, IInv, EvidenceInv, [Next]_vars
    PROVE  Undisputed'
<1> SUFFICES ASSUME NEW s \in Visited', pc' \in {"reconcile", "adopt"},
                    state'[s] = "COMPLETE"
             PROVE  \A a, b \in CacheRoot(s)' : a.out = b.out
  BY DEF Undisputed
<1>1. CacheRoot(s)' = CacheRoot(s)
  BY CacheStays
<1>2. pc \in {"reconcile", "adopt"}
  BY ReconcilingSteps
<1>3. CASE s = cursor /\ pc = "adopt"
  BY <1>1, <1>3 DEF EvidenceInv, EvidenceInHand
<1>4. CASE s \in Visited /\ state[s] = "COMPLETE"
  BY <1>1, <1>2, <1>4 DEF EvidenceInv, Undisputed
<1> QED
  BY <1>2, <1>3, <1>4, VisitedCompletionsStart

\* What is adopted is in the cache under the expected key.
LEMMA AdoptedDraft ==
    ASSUME IInv, ReconcileAdopt
    PROVE  draft' \in CacheRoot(cursor)
<1>1. cursor \in Stage /\ CacheRoot(cursor) # {}
  BY DEF ReconcileAdopt, Selecting, Visiting, Adoptable
<1>2. /\ \A a \in CacheRoot(cursor) : a.num \in 1..counter[cursor]
      /\ counter[cursor] \in Nat
  BY <1>1 DEF CacheRoot, IInv, FreshAttempts, TypeOK, RowTypes
<1> QED
  BY <1>1, <1>2, LatestExists DEF ReconcileAdopt

\* The evidence of what is about to be recorded is looked at, and then stays.
LEMMA EvidenceInHandStep ==
    ASSUME "rot" \notin Faults, IInv, EvidenceInv, [Next]_vars
    PROVE  EvidenceInHand'
<1>1. CASE ReconcileAdopt
  <2>1. /\ UNCHANGED <<published, lost, damaged, artifact, version, cursor>>
        /\ pc' = "adopt" /\ Sound(CacheRoot(cursor))
    BY <1>1 DEF ReconcileAdopt, fileVars, rowVars, Goto
  <2>2. CacheRoot(cursor)' = CacheRoot(cursor)
    BY <2>1 DEF CacheRoot, ExpectedKey
  <2>3. draft' \in CacheRoot(cursor)
    BY <1>1, AdoptedDraft
  <2> QED
    BY <2>1, <2>2, <2>3 DEF EvidenceInHand, Sound, CacheRoot
<1>2. CASE PublishPointer
  BY <1>2 DEF PublishPointer, EvidenceInHand, fileVars, Goto
<1>3. CASE DamageAttempt \/ UNCHANGED vars
  <2>1. UNCHANGED <<rowVars, published, lost, draft, pc, version, cursor>>
    BY <1>3 DEF DamageAttempt, vars, procVars, fileVars
  <2>2. CacheRoot(cursor)' = CacheRoot(cursor)
    BY <2>1 DEF CacheRoot, ExpectedKey, rowVars
  <2>3. CASE pc \in {"adopt", "pointed"}
    <3>1. UNCHANGED <<lost, damaged>>
      BY <2>3, EvidenceWriters
    <3> QED
      BY <2>1, <2>2, <3>1 DEF EvidenceInv, EvidenceInHand
  <2> QED
    BY <2>1, <2>3 DEF EvidenceInHand
<1> QED
  BY <1>1, <1>2, <1>3, InHandSteps DEF EvidenceInHand

\* As long as no bytes rot under a running process, a visited completion stands
\* on bytes that are there, verify and agree with every sibling, whatever was
\* damaged, lost or put back between two runs (_select_published,
\* _verify_attempt_directory).
THEOREM CompletionsStayStanding ==
    "rot" \notin Faults => (Spec => []CompletionsStand)
<1> SUFFICES ASSUME "rot" \notin Faults PROVE Spec => []CompletionsStand
  OBVIOUS
<1>1. Init => EvidenceInv
  BY DEF Init, EvidenceInv, VerifiedComplete, Undisputed, EvidenceInHand, Visited
<1>2. IInv /\ EvidenceInv /\ [Next]_vars => EvidenceInv'
  BY VerifiedStep, UndisputedStep, EvidenceInHandStep DEF EvidenceInv
<1>3. EvidenceInv => CompletionsStand
  BY DEF EvidenceInv, Undisputed, CompletionsStand, DivergenceIsFinal
<1> QED
  BY <1>1, <1>2, <1>3, Invariance, PTL DEF Spec

(***************************************************************************)
(* The ledger: what stands is replaced only by an attempt of the same key  *)
(* and the same bytes, when no attempt is lost or stage code is            *)
(* deterministic.                                                          *)
(***************************************************************************)

\* Stage code that can produce one content only for a key.
Deterministic == \A s \in Stage : \A k \in KeyOf(s) : \E out : Produces(s, k) = {out}

\* Attempts hold what the stage code makes of their key.
Genuine(a) == a.key \in KeyOf(a.stage) /\ a.out \in Produces(a.stage, a.key)

GenuineInv == /\ \A a \in published : Genuine(a)
              /\ pc = "written" => Genuine(draft)

\* Only WriteAttempt makes an attempt, from the key of the row in hand.
LEMMA GenuineStep ==
    ASSUME IInv, GenuineInv, [Next]_vars
    PROVE  GenuineInv'
<1>1. ASSUME NEW a \in published' PROVE Genuine(a)
  BY FileWriters DEF Publish, GenuineInv
<1>2. CASE WriteAttempt
  <2>1. cursor \in Stage /\ cacheKey[cursor] \in KeyOf(cursor)
    BY <1>2, ExpectedKeyType DEF WriteAttempt, IInv, WorkInv, RowInHand, Executing
  <2>2. PICK out \in Produces(cursor, cacheKey[cursor]) :
          draft' = [stage |-> cursor, num |-> attempt[cursor],
                    key |-> cacheKey[cursor], out |-> out]
    BY <1>2 DEF WriteAttempt
  <2>3. Genuine(draft')
    BY <2>1, <2>2 DEF Genuine
  <2> QED
    BY <1>1, <2>3 DEF GenuineInv, Genuine
<1>3. CASE pc' = "written" => pc = "written" /\ draft' = draft
  BY <1>1, <1>3 DEF GenuineInv, Genuine
<1>4. WriteAttempt \/ (pc' = "written" => pc = "written" /\ draft' = draft)
  <2>1. CASE StartPlain \/ Environment \/ UNCHANGED vars
    BY <2>1 DEF StartPlain, Start, Environment, StartForced, ExecuteFails, FailStep, Crash,
       Upgrade, DamageAttempt, LoseAttempt, RestoreAttempt, DisturbPointer, Goto, procVars,
       vars
  <2>2. CASE Reconcile
    BY <2>2 DEF Reconcile, ReconcileBlocked, ReconcileStale, ReconcileCorrupt,
       ReconcileAdopt, AdoptRecord, AdoptRefused, ReconcileMissing, ReconcileDone, Goto
  <2>3. CASE Execute
    BY <2>3 DEF Execute, LoopSkip, LoopEnd, Begin, ExportRunning, Publish, PublishPointer,
       CommitAttempt, ExportCommitted, VerifyFails, FailStep, ExportFailure, ExportReport,
       Close, Goto
  <2> QED
    BY <2>1, <2>2, <2>3 DEF Next, Process
<1> QED
  BY <1>2, <1>3, <1>4

\* Attempts that are lost stay none when nothing loses one.
LEMMA NothingLost ==
    ASSUME "lose" \notin Faults, lost = {}, [Next]_vars
    PROVE  lost' = {}
<1>1. CASE StartPlain
  BY <1>1 DEF StartPlain, Start, fileVars
<1>2. CASE Reconcile
  BY <1>2 DEF Reconcile, ReconcileBlocked, ReconcileStale, ReconcileCorrupt,
     ReconcileAdopt, AdoptRecord, AdoptRefused, ReconcileMissing, ReconcileDone, fileVars
<1>3. CASE Execute
  BY <1>3 DEF Execute, LoopSkip, LoopEnd, Begin, ExportRunning, WriteAttempt, Publish,
     PublishPointer, CommitAttempt, ExportCommitted, VerifyFails, FailStep, ExportFailure,
     ExportReport, Close, fileVars
<1>4. CASE Environment
  BY <1>4 DEF Environment, StartForced, Start, ExecuteFails, FailStep, Crash, Upgrade,
     DamageAttempt, LoseAttempt, RestoreAttempt, DisturbPointer, Spend, fileVars, procVars
<1>5. CASE UNCHANGED vars
  BY <1>5 DEF vars, fileVars
<1> QED
  BY <1>1, <1>2, <1>3, <1>4, <1>5 DEF Next, Process

\* A completion adopted again keeps its key and its bytes.
AdoptionAgrees ==
    pc = "adopt" /\ state[cursor] = "COMPLETE" =>
      draft.key = cacheKey[cursor] /\ draft.out = artifact[cursor]

Lossless == "lose" \notin Faults /\ lost = {}

\* An attempt adopted over a completion is the very one the row records, or one
\* with the same bytes.
LEMMA AgreesStep ==
    ASSUME IInv, GenuineInv, AdoptionAgrees, Lossless \/ Deterministic, [Next]_vars
    PROVE  AdoptionAgrees'
<1>1. CASE ReconcileAdopt
  <2> SUFFICES ASSUME state[cursor] = "COMPLETE"
               PROVE  draft'.key = cacheKey[cursor] /\ draft'.out = artifact[cursor]
    BY <1>1 DEF AdoptionAgrees, ReconcileAdopt, rowVars
  <2>1. cursor \in Stage /\ cacheKey[cursor] = ExpectedKey(cursor)
        /\ Sound(CacheRoot(cursor))
    BY <1>1 DEF ReconcileAdopt, Selecting, Visiting, Stale
  <2>2. draft' \in CacheRoot(cursor)
    BY <1>1, AdoptedDraft
  <2>3. draft'.key = cacheKey[cursor] /\ draft'.stage = cursor /\ draft' \in published
    BY <2>1, <2>2 DEF CacheRoot
  <2>4. RowAttempt(cursor) \in published
    BY <2>1 DEF IInv, CommitBacked
  <2>5. /\ RowAttempt(cursor).stage = cursor /\ RowAttempt(cursor).key = cacheKey[cursor]
        /\ RowAttempt(cursor).out = artifact[cursor]
    BY DEF RowAttempt
  <2>6. CASE Lossless
    <3>1. RowAttempt(cursor) \in CacheRoot(cursor)
      BY <2>1, <2>4, <2>5, <2>6 DEF Lossless, CacheRoot
    <3> QED
      BY <2>1, <2>2, <2>3, <2>5, <3>1 DEF Sound
  <2>7. CASE Deterministic
    <3>1. Genuine(draft') /\ Genuine(RowAttempt(cursor))
      BY <2>3, <2>4 DEF GenuineInv
    <3> QED
      BY <2>1, <2>3, <2>5, <2>7, <3>1 DEF Genuine, Deterministic
  <2> QED
    BY <2>3, <2>6, <2>7
<1>2. CASE DamageAttempt \/ UNCHANGED vars
  BY <1>2 DEF DamageAttempt, vars, procVars, rowVars, AdoptionAgrees
<1>3. CASE PublishPointer
  BY <1>3 DEF PublishPointer, Goto, AdoptionAgrees
<1> QED
  BY <1>1, <1>2, <1>3, InHandSteps DEF AdoptionAgrees

\* The attempt that stands for each stage, as the instance of RunLedger has it.
Standing == [s \in Stage |-> IF state[s] = "COMPLETE" THEN RowAttempt(s) ELSE NoAttempt]

\* Recording an attempt lets it stand.
LEMMA RecordingStands ==
    ASSUME IInv, AdoptionAgrees, pc \in {"adopt", "pointed"}, RecordComplete(draft),
           published' = published
    PROVE  \E a \in published : Ledger!Stand(a)
<1>1. /\ draft \in published /\ draft \in Attempt /\ cursor \in Stage
      /\ draft.stage = cursor /\ UpstreamComplete(cursor)
      /\ draft.key = ExpectedKey(cursor)
  BY DraftInHand DEF IInv, WorkInv, AttemptIsPublished, AttemptInHand, RowInHand,
     AdoptionInHand, Executing
<1>2. ASSUME NEW d \in Deps[cursor]
      PROVE  Standing[d] # NoAttempt /\ draft.key.upstream[d] = Standing[d].out
  <2>1. d \in Stage /\ state[d] = "COMPLETE"
    BY <1>1, StageAssumption DEF UpstreamComplete
  <2>2. RowAttempt(d) \in Attempt
    BY <2>1 DEF IInv, CommitBacked, TypeOK, FileTypes
  <2> QED
    BY <1>1, <2>1, <2>2, DataAssumption DEF Standing, RowAttempt, ExpectedKey
<1>3. Standing[cursor] # NoAttempt =>
        Standing[cursor].key = draft.key /\ Standing[cursor].out = draft.out
  BY <1>1 DEF Standing, RowAttempt, AdoptionAgrees, IInv, WorkInv, RowInHand, Executing
<1>4. Standing' = [Standing EXCEPT ![cursor] = draft]
  <2>1. ASSUME NEW s \in Stage, s # cursor PROVE Standing'[s] = Standing[s]
    BY <1>1, <2>1 DEF Standing, RowAttempt, RecordComplete, IInv, TypeOK, RowTypes
  <2>2. Standing'[cursor] = draft
    <3>1. Standing'[cursor] = [stage |-> draft.stage, num |-> draft.num,
                               key |-> draft.key, out |-> draft.out]
      BY <1>1 DEF Standing, RowAttempt, RecordComplete, IInv, TypeOK, RowTypes
    <3> QED
      BY <1>1, <3>1 DEF Attempt
  <2> QED
    BY <1>1, <2>1, <2>2 DEF Standing
<1>5. Ledger!Stand(draft)
  BY <1>1, <1>2, <1>3, <1>4 DEF Ledger!Stand, Standing
<1> QED
  BY <1>1, <1>5 DEF Ledger!Stand

\* Every step of the engine is a step of the ledger, or none.
LEMMA LedgerStep ==
    ASSUME IInv, AdoptionAgrees, [Next]_vars
    PROVE  Ledger!Next \/ UNCHANGED Ledger!vars
<1>1. CASE Publish
  <2>1. published' = published \cup {draft} /\ Standing' = Standing
    BY <1>1 DEF Publish, rowVars, Standing, RowAttempt
  <2>2. \A b \in published : b.stage = draft.stage => b.num < draft.num
    BY <1>1 DEF Publish, IInv, WorkInv, NumberIsNew, RowInHand, AttemptInHand, Executing
  <2>3. draft \notin published /\ draft.num \in Nat
    BY <1>1, <2>2 DEF Publish, IInv, WorkInv, AttemptInHand, Attempt
  <2>4. Ledger!Record(draft)
    BY <2>1, <2>2 DEF Ledger!Record, Standing
  <2> QED
    BY <2>1, <2>3, <2>4 DEF Ledger!Next
<1>2. CASE published' = published /\ RowStep
  <2>6. ASSUME pc \in {"adopt", "pointed"}, RecordComplete(draft)
        PROVE  Ledger!Next
    <3>1. \E a \in published : Ledger!Stand(a)
      BY <1>2, <2>6, RecordingStands
    <3> QED
      BY <3>1 DEF Ledger!Next
  <2> USE DEF IInv, TypeOK, RowTypes
  <2>1. CASE UNCHANGED rowVars
    BY <1>2, <2>1 DEF rowVars, Ledger!vars, RowAttempt
  <2>w. ASSUME NEW S \in SUBSET Stage,
               Standing' = [s \in Stage |-> IF s \in S THEN NoAttempt ELSE Standing[s]]
        PROVE  Ledger!Next
    <3>1. Ledger!Withdraw(S)
      BY <1>2, <2>w DEF Ledger!Withdraw, Ledger!Stage, Stage, Standing
    <3> QED
      BY <3>1 DEF Ledger!Next, Ledger!Stage, Stage
  <2>2. ASSUME NEW scope \in SUBSET Stage, NEW force \in BOOLEAN, Invalidate(scope, force)
        PROVE  Ledger!Next
    <3>1. Standing' = [s \in Stage |-> IF s \in scope THEN NoAttempt ELSE Standing[s]]
      BY <2>2 DEF Standing, RowAttempt, Invalidate
    <3> QED
      BY <2>w, <3>1
  <2>3. CASE cursor \in Stage /\ Invalidate(Closure(cursor), FALSE)
    BY <2>2, <2>3, ClosureIsStages
  <2>4. CASE Invalidate(ForceScope, TRUE)
    <3>1. ForceScope \subseteq Stage
      BY DEF ForceScope, Closure
    <3> QED
      BY <2>2, <2>4, <3>1
  <2>5. ASSUME NEW new \in {"FAILED_FINAL", "FAILED_RETRYABLE"}, cursor \in Stage,
               MarkState(cursor, new)
        PROVE  Ledger!Next
    <3> DEFINE S == {cursor}
    <3>1. Standing' = [s \in Stage |-> IF s \in S THEN NoAttempt ELSE Standing[s]]
      BY <2>5 DEF Standing, RowAttempt, MarkState
    <3>2. S \in SUBSET Stage
      BY <2>5
    <3> HIDE DEF S
    <3> QED
      BY <2>w, <3>1, <3>2
  <2>7. CASE Begin
    <3>1. UNCHANGED Standing
      BY <2>7 DEF Begin, Executable, Looping, MayBegin, Standing, RowAttempt
    <3> QED
      BY <1>2, <3>1 DEF Ledger!vars, Standing
  <2> QED
    BY <1>2, <2>1, <2>3, <2>4, <2>5, <2>6, <2>7 DEF RowStep
<1> QED
  BY <1>1, <1>2, FileWriters, RowWriters DEF IInv

\* The engine implements the ledger: attempts are only added, and one stands
\* only over standing upstream attempts that its key names, for every crash,
\* failure, force, upgrade, damage and tampered pointer; attempts may also be
\* lost if stage code is deterministic.
THEOREM LedgerIsImplemented ==
    "lose" \notin Faults \/ Deterministic => (Spec => ImplementsLedger)
<1> SUFFICES ASSUME "lose" \notin Faults \/ Deterministic
             PROVE  Spec => ImplementsLedger
  OBVIOUS
<1> DEFINE Inv == /\ IInv /\ GenuineInv /\ AdoptionAgrees
                  /\ "lose" \notin Faults => lost = {}
<1>1. Init => Inv
  BY InitInv DEF Init, GenuineInv, AdoptionAgrees
<1>2. Inv /\ [Next]_vars => Inv'
  <2> SUFFICES ASSUME Inv, [Next]_vars PROVE Inv'
    OBVIOUS
  <2>1. Lossless \/ Deterministic
    BY DEF Lossless
  <2> QED
    BY <2>1, StepInv, GenuineStep, AgreesStep, NothingLost
<1>3. Init => Ledger!Init
  BY DEF Init, Ledger!Init, Ledger!Stage, Stage
<1>4. Inv /\ [Next]_vars => [Ledger!Next]_(Ledger!vars)
  BY LedgerStep
<1> QED
  BY <1>1, <1>2, <1>3, <1>4, PTL DEF Spec, ImplementsLedger, Ledger!Spec

(***************************************************************************)
(* A forced stage is executed again, however often the run is cut off.     *)
(***************************************************************************)

\* Dependents come after what they depend on.
LEMMA ClosureIsLater ==
    ASSUME NEW s \in Stage, NEW t \in Closure(s)
    PROVE  t \in Stage /\ s <= t
<1> DEFINE S == { u \in Stage : s <= u }
<1>1. DownstreamClosed(S)
  BY StageAssumption DEF DownstreamClosed, Stage
<1>2. s \in S /\ S \in SUBSET Stage
  BY DEF Stage
<1> QED
  BY <1>1, <1>2 DEF Closure

\* Dependents of a dependent are dependents.
LEMMA ClosureIsTransitive ==
    ASSUME NEW s \in Stage, NEW t \in Closure(s)
    PROVE  Closure(t) \subseteq Closure(s)
BY DEF Closure

\* A stage that must fail for want of another, or has failed itself.
Spoiled(s) == \E u \in Stage : state[u] = "FAILED_FINAL" /\ s \in Closure(u)

\* The history of a force never runs ahead of the attempts begun, and every
\* execution is after it.
FloorIsPast ==
    /\ \A s \in Stage : floor[s] <= counter[s]
    /\ pc \in Executing => floor[cursor] < counter[cursor]

\* A stage forced and not complete again still requires a new attempt, unless
\* a final failure stands between it and its completion.
ForceIsPending ==
    \A s \in Stage : state[s] # "COMPLETE" =>
      floor[s] = 0 \/ floor[s] < required[s] \/ Spoiled(s)

\* Without upgrades every completion is current, visited or not, and an upstream
\* stage of it can have failed only since.
CompletionsAreFresh ==
    \A s \in Stage : state[s] = "COMPLETE" =>
      /\ cacheKey[s] = ExpectedKey(s)
      /\ \A d \in Deps[s] : state[d] \in {"COMPLETE", "FAILED_FINAL"}

\* What is about to be adopted is as new as required, and as the completion.
AdoptionIsNew ==
    pc = "adopt" =>
      /\ required[cursor] <= draft.num
      /\ state[cursor] = "COMPLETE" => attempt[cursor] <= draft.num

ForceInv == /\ ForceHonoured /\ FloorIsPast /\ ForceIsPending
            /\ CompletionsAreFresh /\ AdoptionIsNew

\* Which steps write the rows, and with them the history.
LEMMA ForceSteps ==
    ASSUME IInv, [Next]_vars
    PROVE  \/ UNCHANGED <<rowVars, floor>>
           \/ ReconcileBlocked /\ state[cursor] = "COMPLETE"
           \/ ReconcileStale
           \/ ReconcileDone /\ forceStage # 0
           \/ /\ cursor \in Stage /\ MarkState(cursor, "FAILED_FINAL")
              /\ UNCHANGED floor
           \/ /\ cursor \in Stage /\ state[cursor] = "RUNNING"
              /\ MarkState(cursor, "FAILED_RETRYABLE")
              /\ UNCHANGED floor
           \/ /\ pc \in {"adopt", "pointed"} /\ state[cursor] # "FAILED_FINAL"
              /\ RecordComplete(draft)
              /\ UNCHANGED floor
           \/ Begin
<1>1. CASE StartPlain
  BY <1>1 DEF StartPlain, Start
<1>2. CASE Reconcile
  BY <1>2 DEF Reconcile, ReconcileBlocked, ReconcileCorrupt, ReconcileAdopt, AdoptRecord,
     AdoptRefused, ReconcileMissing, ReconcileDone, Selecting, Visiting
<1>3. CASE Execute
  BY <1>3 DEF Execute, LoopSkip, LoopEnd, ExportRunning, WriteAttempt, Publish,
     PublishPointer, CommitAttempt, ExportCommitted, VerifyFails, FailStep,
     ExportFailure, ExportReport, Close, IInv, WorkInv, RowInHand, Executing
<1>4. CASE Environment
  BY <1>4 DEF Environment, StartForced, Start, ExecuteFails, FailStep, Crash, Upgrade,
     DamageAttempt, LoseAttempt, RestoreAttempt, DisturbPointer, IInv, WorkInv,
     RowInHand, Executing
<1>5. CASE UNCHANGED vars
  BY <1>5 DEF vars
<1> QED
  BY <1>1, <1>2, <1>3, <1>4, <1>5 DEF Next, Process

\* Nothing but an upgrade changes a version.
LEMMA VersionStays ==
    ASSUME "upgrade" \notin Faults, [Next]_vars
    PROVE  version' = version
<1>1. CASE StartPlain \/ Environment
  BY <1>1 DEF StartPlain, Start, Environment, StartForced, ExecuteFails, FailStep, Crash,
     Upgrade, DamageAttempt, LoseAttempt, RestoreAttempt, DisturbPointer, Spend, Goto,
     procVars
<1>2. CASE Reconcile
  BY <1>2 DEF Reconcile, ReconcileBlocked, ReconcileStale, ReconcileCorrupt,
     ReconcileAdopt, AdoptRecord, AdoptRefused, ReconcileMissing, ReconcileDone, Goto
<1>3. CASE Execute
  BY <1>3 DEF Execute, LoopSkip, LoopEnd, Begin, ExportRunning, WriteAttempt, Publish,
     PublishPointer, CommitAttempt, ExportCommitted, VerifyFails, FailStep, ExportFailure,
     ExportReport, Close, Goto
<1>4. CASE UNCHANGED vars
  BY <1>4 DEF vars, procVars
<1> QED
  BY <1>1, <1>2, <1>3, <1>4 DEF Next, Process

\* A stage whose upstream is complete and visited is not spoiled from there.
LEMMA CompleteUpstreamIsUnspoiled ==
    ASSUME IInv, pc = "adopt", state[cursor] # "FAILED_FINAL"
    PROVE  cursor \in Stage /\ ~Spoiled(cursor)
<1>1. /\ cursor \in Stage /\ UpstreamComplete(cursor) /\ N \in Nat
      /\ Visited = 1..(cursor - 1)
  BY StageAssumption DEF IInv, WorkInv, AdoptionInHand, Visited
<1> DEFINE S == { t \in Stage \ {cursor} : state[t] # "COMPLETE" \/ t \notin Visited }
<1>2. DownstreamClosed(S)
  <2> SUFFICES ASSUME NEW t \in Stage, NEW d \in Deps[t], d \in S PROVE t \in S
    BY StageAssumption DEF DownstreamClosed
  <2>1. d \in Stage /\ d < t
    BY StageAssumption
  <2>2. CASE t = cursor
    <3>1. state[d] = "COMPLETE" /\ d \in Visited
      BY <1>1, <2>1, <2>2 DEF UpstreamComplete, Stage
    <3> QED
      BY <3>1
  <2>3. CASE t # cursor /\ state[t] = "COMPLETE" /\ t \in Visited
    <3>1. state[d] = "COMPLETE" /\ d \in Visited
      BY <1>1, <2>1, <2>3 DEF IInv, ReconciledInputs, InputsCurrent, UpstreamComplete, Stage
    <3> QED
      BY <3>1
  <2> QED
    BY <2>2, <2>3
<1>3. ASSUME NEW u \in Stage, state[u] = "FAILED_FINAL" PROVE cursor \notin Closure(u)
  <2>1. u \in S /\ S \in SUBSET Stage /\ cursor \notin S
    BY <1>3
  <2> QED
    BY <1>2, <2>1 DEF Closure
<1> QED
  BY <1>1, <1>3 DEF Spoiled

\* A stage stays spoiled while the row that spoils it stays.
LEMMA SpoiledStays ==
    ASSUME NEW s, Spoiled(s),
           \A u \in Stage : state[u] = "FAILED_FINAL" /\ s \in Closure(u) =>
             state'[u] = "FAILED_FINAL"
    PROVE  Spoiled(s)'
BY DEF Spoiled, Closure, DownstreamClosed

\* The part of the invariant that is about the rows alone.
RowsHonour == /\ ForceHonoured /\ ForceIsPending /\ CompletionsAreFresh
              /\ \A s \in Stage : floor[s] <= counter[s]

\* A completion that is invalidated for want of an upstream one is spoiled by it.
LEMMA BlockedHonours ==
    ASSUME IInv, RowsHonour, version' = version, ReconcileBlocked,
           state[cursor] = "COMPLETE"
    PROVE  RowsHonour'
<1> USE DEF IInv, TypeOK, RowTypes
<1>1. /\ cursor \in Stage /\ ~UpstreamComplete(cursor) /\ floor' = floor
      /\ Invalidate(Closure(cursor), FALSE)
  BY DEF ReconcileBlocked, Visiting
<1>2. PICK d \in Deps[cursor] : state[d] = "FAILED_FINAL"
  BY <1>1 DEF UpstreamComplete, RowsHonour, CompletionsAreFresh
<1>3. d \in Stage /\ d < cursor
  BY <1>1, StageAssumption
<1>4. cursor \in Closure(d) /\ Closure(cursor) \subseteq Closure(d)
  BY <1>1, <1>3, ClosureContains, ClosureIsClosed, ClosureIsTransitive
     DEF DownstreamClosed
<1>5. d \notin Closure(cursor)
  BY <1>1, <1>3, ClosureIsLater DEF Stage
<1>6. state'[d] = "FAILED_FINAL"
  BY <1>1, <1>2, <1>3, <1>5 DEF Invalidate
<1>7. ASSUME NEW s \in Stage, state'[s] # "COMPLETE"
      PROVE  floor'[s] = 0 \/ floor'[s] < required'[s] \/ Spoiled(s)'
  <2>1. CASE s \in Closure(cursor)
    <3>1. state'[d] = "FAILED_FINAL" /\ s \in Closure(d)
      BY <1>4, <1>6, <2>1
    <3> QED
      BY <1>3, <3>1 DEF Spoiled, Closure, DownstreamClosed
  <2>2. CASE s \notin Closure(cursor)
    <3>1. state'[s] = state[s] /\ required'[s] = required[s] /\ floor'[s] = floor[s]
      BY <1>1, <2>2 DEF Invalidate
    <3>2. CASE Spoiled(s)
      <4>1. \A u \in Stage : s \in Closure(u) => u \notin Closure(cursor)
        BY <1>1, <2>2, ClosureIsTransitive
      <4>2. \A u \in Stage : s \in Closure(u) => state'[u] = state[u]
        BY <1>1, <4>1 DEF Invalidate
      <4> QED
        BY <3>2, <4>2, SpoiledStays
    <3> QED
      BY <1>7, <3>1, <3>2 DEF RowsHonour, ForceIsPending
  <2> QED
    BY <2>1, <2>2
<1>8. ASSUME NEW s \in Stage, state'[s] = "COMPLETE"
      PROVE  /\ attempt'[s] > floor'[s]
             /\ cacheKey'[s] = ExpectedKey(s)'
             /\ \A e \in Deps[s] : state'[e] \in {"COMPLETE", "FAILED_FINAL"}
  <2>1. /\ s \notin Closure(cursor) /\ state[s] = "COMPLETE"
        /\ attempt'[s] = attempt[s] /\ cacheKey'[s] = cacheKey[s]
    BY <1>1, <1>8 DEF Invalidate
  <2>2. \A e \in Deps[s] : e \in Stage /\ e \notin Closure(cursor)
    BY <1>1, <2>1, ClosureIsClosed, StageAssumption DEF DownstreamClosed
  <2>3. \A e \in Deps[s] : state'[e] = state[e] /\ artifact'[e] = artifact[e]
    BY <1>1, <2>2 DEF Invalidate
  <2>4. ExpectedKey(s)' = ExpectedKey(s)
    BY <2>3 DEF ExpectedKey
  <2> QED
    BY <1>1, <2>1, <2>3, <2>4 DEF RowsHonour, ForceHonoured, CompletionsAreFresh
<1>9. \A s \in Stage : floor'[s] <= counter'[s]
  BY <1>1 DEF Invalidate, RowsHonour
<1> QED
  BY <1>7, <1>8, <1>9 DEF RowsHonour, ForceHonoured, ForceIsPending, CompletionsAreFresh

\* A force sets the history to what it requires to be exceeded.
LEMMA ForcedHonours ==
    ASSUME IInv, RowsHonour, version' = version, ReconcileDone, forceStage # 0
    PROVE  RowsHonour'
<1> USE DEF IInv, TypeOK, RowTypes
<1>0. forceStage \in Stage
  BY StageAssumption DEF ControlTypes, Stage
<1>1. /\ forceStage \in Stage /\ ForceScope = Closure(forceStage)
      /\ Invalidate(ForceScope, TRUE)
      /\ floor' = [s \in Stage |-> IF s \in ForceScope THEN counter[s] ELSE floor[s]]
  BY <1>0 DEF ReconcileDone, ForceScope
<1>2. DownstreamClosed(ForceScope) /\ ForceScope \subseteq Stage
  BY <1>1, ClosureIsClosed, ClosureIsStages
<1>3. ASSUME NEW s \in Stage, state'[s] # "COMPLETE"
      PROVE  floor'[s] = 0 \/ floor'[s] < required'[s] \/ Spoiled(s)'
  <2>1. CASE s \in ForceScope
    BY <1>1, <2>1 DEF Invalidate
  <2>2. CASE s \notin ForceScope
    <3>1. state'[s] = state[s] /\ required'[s] = required[s] /\ floor'[s] = floor[s]
      BY <1>1, <2>2 DEF Invalidate
    <3>2. CASE Spoiled(s)
      <4>1. \A u \in Stage : s \in Closure(u) => u \notin ForceScope
        BY <1>1, <2>2, ClosureIsTransitive
      <4>2. \A u \in Stage : s \in Closure(u) => state'[u] = state[u]
        BY <1>1, <4>1 DEF Invalidate
      <4> QED
        BY <3>2, <4>2, SpoiledStays
    <3> QED
      BY <1>3, <3>1, <3>2 DEF RowsHonour, ForceIsPending
  <2> QED
    BY <2>1, <2>2
<1>4. ASSUME NEW s \in Stage, state'[s] = "COMPLETE"
      PROVE  /\ attempt'[s] > floor'[s]
             /\ cacheKey'[s] = ExpectedKey(s)'
             /\ \A e \in Deps[s] : state'[e] \in {"COMPLETE", "FAILED_FINAL"}
  <2>1. /\ s \notin ForceScope /\ state[s] = "COMPLETE" /\ floor'[s] = floor[s]
        /\ attempt'[s] = attempt[s] /\ cacheKey'[s] = cacheKey[s]
    BY <1>1, <1>4 DEF Invalidate
  <2>2. \A e \in Deps[s] : e \in Stage /\ e \notin ForceScope
    BY <1>2, <2>1, StageAssumption DEF DownstreamClosed
  <2>3. \A e \in Deps[s] : state'[e] = state[e] /\ artifact'[e] = artifact[e]
    BY <1>1, <2>2 DEF Invalidate
  <2>4. ExpectedKey(s)' = ExpectedKey(s)
    BY <2>3 DEF ExpectedKey
  <2> QED
    BY <2>1, <2>3, <2>4 DEF RowsHonour, ForceHonoured, CompletionsAreFresh
<1>5. \A s \in Stage : floor'[s] <= counter'[s]
  BY <1>1 DEF Invalidate, RowsHonour
<1> QED
  BY <1>3, <1>4, <1>5 DEF RowsHonour, ForceHonoured, ForceIsPending, CompletionsAreFresh

\* A transaction on one row that is neither COMPLETE before nor, unless failed
\* for good, after it.
LEMMA OneRowHonours ==
    ASSUME IInv, RowsHonour, version' = version, floor' = floor, NEW c \in Stage,
           state[c] # "FAILED_FINAL" \/ state'[c] = "FAILED_FINAL",
           state'[c] # "COMPLETE",
           state'[c] = "FAILED_FINAL" \/ state[c] \notin {"COMPLETE", "FAILED_FINAL"},
           \A u \in Stage \ {c} : state'[u] = state[u] /\ cacheKey'[u] = cacheKey[u]
                                  /\ attempt'[u] = attempt[u],
           UNCHANGED <<required, artifact>>,
           \A u \in Stage : counter[u] <= counter'[u] /\ counter'[u] \in Nat
    PROVE  RowsHonour'
<1> USE DEF IInv, TypeOK, RowTypes
<1>1. ASSUME NEW s \in Stage, state'[s] # "COMPLETE"
      PROVE  floor'[s] = 0 \/ floor'[s] < required'[s] \/ Spoiled(s)'
  <2>1. CASE state'[c] = "FAILED_FINAL" /\ s = c
    BY <2>1, ClosureContains DEF Spoiled, Closure, DownstreamClosed
  <2>2. CASE s # c \/ state'[c] # "FAILED_FINAL"
    <3>1. state[s] # "COMPLETE"
      BY <1>1, <2>2
    <3>2. CASE Spoiled(s)
      BY <3>2, SpoiledStays
    <3> QED
      BY <3>1, <3>2 DEF RowsHonour, ForceIsPending
  <2> QED
    BY <2>1, <2>2
<1>2. ASSUME NEW s \in Stage, state'[s] = "COMPLETE"
      PROVE  /\ attempt'[s] > floor'[s]
             /\ cacheKey'[s] = ExpectedKey(s)'
             /\ \A e \in Deps[s] : state'[e] \in {"COMPLETE", "FAILED_FINAL"}
  <2>1. s # c /\ state[s] = "COMPLETE"
    BY <1>2
  <2>2. ExpectedKey(s)' = ExpectedKey(s)
    BY DEF ExpectedKey
  <2>3. \A e \in Deps[s] : e \in Stage /\ state[e] \in {"COMPLETE", "FAILED_FINAL"}
    BY <2>1, StageAssumption DEF RowsHonour, CompletionsAreFresh
  <2>4. \A e \in Deps[s] : state'[e] \in {"COMPLETE", "FAILED_FINAL"}
    BY <2>3
  <2> QED
    BY <2>1, <2>2, <2>4 DEF RowsHonour, ForceHonoured, CompletionsAreFresh
<1>3. \A s \in Stage : floor'[s] <= counter'[s]
  BY DEF RowsHonour
<1> QED
  BY <1>1, <1>2, <1>3 DEF RowsHonour, ForceHonoured, ForceIsPending, CompletionsAreFresh

\* Recording an attempt that is new enough honours the force.
LEMMA RecordHonours ==
    ASSUME IInv, RowsHonour, FloorIsPast, AdoptionIsNew, AdoptionAgrees,
           version' = version, floor' = floor, pc \in {"adopt", "pointed"},
           state[cursor] # "FAILED_FINAL", RecordComplete(draft)
    PROVE  RowsHonour'
<1> USE DEF IInv, TypeOK, RowTypes
<1>1. /\ cursor \in Stage /\ draft \in Attempt /\ draft.stage = cursor
      /\ draft \in published /\ draft.key = ExpectedKey(cursor)
      /\ UpstreamComplete(cursor) /\ draft.num \in Nat
  BY DraftInHand DEF WorkInv, RowInHand, AttemptInHand, AttemptIsPublished,
     AdoptionInHand, Executing, Attempt
<1>2. /\ \A u \in Stage \ {cursor} : /\ state'[u] = state[u]
                                     /\ attempt'[u] = attempt[u]
                                     /\ cacheKey'[u] = cacheKey[u]
                                     /\ artifact'[u] = artifact[u]
                                     /\ required'[u] = required[u]
                                     /\ counter'[u] = counter[u]
      /\ state'[cursor] = "COMPLETE" /\ attempt'[cursor] = draft.num
      /\ cacheKey'[cursor] = draft.key /\ artifact'[cursor] = draft.out
      /\ counter[cursor] <= counter'[cursor]
  BY <1>1 DEF RecordComplete
<1>3. floor[cursor] < draft.num
  <2>1. CASE pc = "pointed"
    BY <1>1, <2>1 DEF FloorIsPast, Executing, WorkInv, RowInHand, AttemptInHand
  <2>2. CASE pc = "adopt" /\ state[cursor] = "COMPLETE"
    BY <1>1, <2>2 DEF AdoptionIsNew, RowsHonour, ForceHonoured
  <2>3. CASE pc = "adopt" /\ state[cursor] # "COMPLETE"
    <3>1. ~Spoiled(cursor)
      BY <2>3, CompleteUpstreamIsUnspoiled
    <3>2. floor[cursor] = 0 \/ floor[cursor] < required[cursor]
      BY <1>1, <2>3, <3>1 DEF RowsHonour, ForceIsPending
    <3>3. 0 < draft.num
      BY <1>1 DEF FreshAttempts
    <3> QED
      BY <1>1, <2>3, <3>2, <3>3 DEF AdoptionIsNew
  <2> QED
    BY <2>1, <2>2, <2>3
<1>4. ASSUME NEW s \in Stage, state'[s] # "COMPLETE"
      PROVE  floor'[s] = 0 \/ floor'[s] < required'[s] \/ Spoiled(s)'
  <2>1. s # cursor /\ state[s] # "COMPLETE" /\ required'[s] = required[s]
    BY <1>2, <1>4
  <2>2. CASE Spoiled(s)
    <3>1. \A u \in Stage : state[u] = "FAILED_FINAL" => state'[u] = "FAILED_FINAL"
      BY <1>2
    <3> QED
      BY <2>2, <3>1, SpoiledStays
  <2> QED
    BY <2>1, <2>2 DEF RowsHonour, ForceIsPending
<1>5. state[cursor] = "COMPLETE" => artifact'[cursor] = artifact[cursor]
  <2>1. CASE pc = "adopt"
    BY <1>2, <2>1 DEF AdoptionAgrees
  <2>2. CASE pc = "pointed"
    BY <2>2 DEF WorkInv, RowInHand, Executing
  <2> QED
    BY <2>1, <2>2
<1>6. ASSUME NEW s \in Stage, state'[s] = "COMPLETE"
      PROVE  /\ attempt'[s] > floor'[s]
             /\ cacheKey'[s] = ExpectedKey(s)'
             /\ \A e \in Deps[s] : state'[e] \in {"COMPLETE", "FAILED_FINAL"}
  <2>1. CASE s = cursor
    <3>1. \A e \in Deps[s] : e \in Stage \ {cursor}
      BY <1>1, <2>1, StageAssumption DEF Stage
    <3>2. \A e \in Deps[s] : artifact'[e] = artifact[e] /\ state'[e] = "COMPLETE"
      BY <1>1, <1>2, <2>1, <3>1 DEF UpstreamComplete
    <3>3. ExpectedKey(s)' = ExpectedKey(s)
      BY <3>2 DEF ExpectedKey
    <3> QED
      BY <1>1, <1>2, <1>3, <2>1, <3>2, <3>3
  <2>2. CASE s # cursor
    <3>1. /\ state[s] = "COMPLETE" /\ attempt[s] > floor[s]
          /\ cacheKey[s] = ExpectedKey(s)
          /\ \A e \in Deps[s] : e \in Stage /\ state[e] \in {"COMPLETE", "FAILED_FINAL"}
      BY <1>2, <1>6, <2>2, StageAssumption
         DEF RowsHonour, ForceHonoured, CompletionsAreFresh
    <3>2. \A e \in Deps[s] : artifact'[e] = artifact[e]
                             /\ state'[e] \in {"COMPLETE", "FAILED_FINAL"}
      BY <1>2, <1>5, <3>1
    <3>3. ExpectedKey(s)' = ExpectedKey(s)
      BY <3>2 DEF ExpectedKey
    <3> QED
      BY <1>2, <2>2, <3>1, <3>2, <3>3
  <2> QED
    BY <2>1, <2>2
<1>7. \A s \in Stage : floor'[s] <= counter'[s]
  <2> SUFFICES ASSUME NEW s \in Stage PROVE floor[s] <= counter'[s]
    OBVIOUS
  <2>1. counter[s] <= counter'[s] /\ counter'[s] \in Nat
    BY <1>1, <1>2 DEF RecordComplete
  <2> QED
    BY <2>1 DEF RowsHonour
<1> QED
  BY <1>4, <1>6, <1>7 DEF RowsHonour, ForceHonoured, ForceIsPending, CompletionsAreFresh

\* Every transaction honours the force.
LEMMA RowsHonourStep ==
    ASSUME "upgrade" \notin Faults, IInv, ForceInv, AdoptionAgrees, [Next]_vars
    PROVE  RowsHonour'
<1>1. RowsHonour /\ version' = version
  BY VersionStays DEF RowsHonour, ForceInv, FloorIsPast
<1>2. CASE UNCHANGED <<rowVars, floor>>
  BY <1>1, <1>2 DEF RowsHonour, ForceHonoured, ForceIsPending, CompletionsAreFresh,
     Spoiled, Closure, DownstreamClosed, ExpectedKey, rowVars
<1>3. ~ReconcileStale
  BY DEF ReconcileStale, Visiting, Stale, ForceInv, CompletionsAreFresh
<1>4. CASE cursor \in Stage /\ MarkState(cursor, "FAILED_FINAL") /\ UNCHANGED floor
  BY <1>1, <1>4, OneRowHonours DEF MarkState, IInv, TypeOK, RowTypes
<1>5. CASE /\ cursor \in Stage /\ state[cursor] = "RUNNING"
           /\ MarkState(cursor, "FAILED_RETRYABLE") /\ UNCHANGED floor
  BY <1>1, <1>5, OneRowHonours DEF MarkState, IInv, TypeOK, RowTypes
<1>6. CASE Begin
  <2>1. CASE UNCHANGED <<rowVars, floor>>
    BY <1>2, <2>1
  <2>2. CASE ~UNCHANGED <<rowVars, floor>>
    <3>1. /\ cursor \in Stage /\ floor' = floor /\ UNCHANGED <<required, artifact>>
          /\ state[cursor] \in MayBegin
          /\ state' = [state EXCEPT ![cursor] = "RUNNING"]
          /\ attempt' = [attempt EXCEPT ![cursor] = counter[cursor] + 1]
          /\ cacheKey' = [cacheKey EXCEPT ![cursor] = ExpectedKey(cursor)]
          /\ counter' = [counter EXCEPT ![cursor] = counter[cursor] + 1]
      BY <1>6, <2>2 DEF Begin, Executable, Looping, rowVars
    <3> QED
      BY <1>1, <3>1, OneRowHonours DEF MayBegin, IInv, TypeOK, RowTypes
  <2> QED
    BY <2>1, <2>2
<1>7. CASE /\ pc \in {"adopt", "pointed"} /\ state[cursor] # "FAILED_FINAL"
           /\ RecordComplete(draft) /\ UNCHANGED floor
  BY <1>1, <1>7, RecordHonours DEF ForceInv
<1> QED
  BY <1>1, <1>2, <1>3, <1>4, <1>5, <1>6, <1>7, ForceSteps, BlockedHonours, ForcedHonours

\* An adoption is chosen among the latest, and the rows wait for it.
LEMMA AdoptionIsNewStep ==
    ASSUME IInv, Lossless, AdoptionIsNew, [Next]_vars
    PROVE  AdoptionIsNew'
<1>1. CASE ReconcileAdopt
  <2>1. /\ cursor \in Stage /\ UNCHANGED <<rowVars, cursor>>
        /\ draft' = Latest(CacheRoot(cursor))
        /\ required[cursor] <= Latest(CacheRoot(cursor)).num
        /\ ~Stale(cursor)
    BY <1>1 DEF ReconcileAdopt, Selecting, Visiting, Adoptable
  <2>2. CASE state[cursor] = "COMPLETE"
    <3>1. RowAttempt(cursor) \in CacheRoot(cursor)
      BY <2>1, <2>2 DEF IInv, CommitBacked, CacheRoot, RowAttempt, Stale, Lossless
    <3>2. /\ \A a \in CacheRoot(cursor) : a.num \in 1..counter[cursor]
          /\ counter[cursor] \in Nat
      BY <2>1 DEF CacheRoot, IInv, FreshAttempts, TypeOK, RowTypes
    <3>3. \A a \in CacheRoot(cursor) : a.num <= Latest(CacheRoot(cursor)).num
      BY <3>1, <3>2, LatestBounds
    <3>4. attempt[cursor] <= draft'.num
      BY <2>1, <3>1, <3>3 DEF RowAttempt
    <3> QED
      BY <2>1, <3>4 DEF AdoptionIsNew, rowVars
  <2> QED
    BY <2>1, <2>2 DEF AdoptionIsNew, rowVars
<1>2. CASE PublishPointer
  BY <1>2 DEF PublishPointer, Goto, AdoptionIsNew
<1>3. CASE DamageAttempt \/ UNCHANGED vars
  BY <1>3 DEF DamageAttempt, vars, procVars, rowVars, AdoptionIsNew
<1> QED
  BY <1>1, <1>2, <1>3, InHandSteps DEF AdoptionIsNew

\* An execution begins after the force that it answers, and forces wait for it.
LEMMA FloorIsPastStep ==
    ASSUME IInv, FloorIsPast, [Next]_vars
    PROVE  pc' \in Executing => floor'[cursor'] < counter'[cursor']
<1>1. CASE Begin
  <2> SUFFICES ASSUME pc' = "begun" PROVE floor'[cursor'] < counter'[cursor']
    BY <1>1 DEF Begin, Goto, Executing
  <2>1. /\ cursor \in Stage /\ cursor' = cursor /\ floor' = floor
        /\ counter' = [counter EXCEPT ![cursor] = counter[cursor] + 1]
    BY <1>1 DEF Begin, Executable, Looping, Goto
  <2> QED
    BY <2>1 DEF FloorIsPast, IInv, TypeOK, RowTypes
<1>2. CASE pc' \in Executing => pc \in Executing /\ UNCHANGED <<floor, counter, cursor>>
  BY <1>2 DEF FloorIsPast
<1>3. Begin \/ (pc' \in Executing => pc \in Executing /\ UNCHANGED <<floor, counter, cursor>>)
  <2> USE DEF Executing
  <2>1. CASE StartPlain \/ Environment \/ UNCHANGED vars
    BY <2>1 DEF StartPlain, Start, Environment, StartForced, ExecuteFails, FailStep, Crash,
       Upgrade, DamageAttempt, LoseAttempt, RestoreAttempt, DisturbPointer, Goto, procVars,
       rowVars, vars
  <2>2. CASE Reconcile
    BY <2>2 DEF Reconcile, ReconcileBlocked, ReconcileStale, ReconcileCorrupt,
       ReconcileAdopt, AdoptRecord, AdoptRefused, ReconcileMissing, ReconcileDone, Goto
  <2>3. CASE Execute
    BY <2>3 DEF Execute, LoopSkip, LoopEnd, ExportRunning, WriteAttempt, Publish,
       PublishPointer, CommitAttempt, ExportCommitted, VerifyFails, FailStep,
       ExportFailure, ExportReport, Close, Goto, rowVars
  <2> QED
    BY <2>1, <2>2, <2>3 DEF Next, Process
<1> QED
  BY <1>1, <1>2, <1>3

\* As long as the program is not upgraded and no attempt is lost, a stage that
\* was forced and is complete again was executed after the force, whatever
\* crashes, failures, damage and further forces came between (run, reconcile,
\* invalidate with its required attempt number).
THEOREM ForceStaysHonoured ==
    "lose" \notin Faults /\ "upgrade" \notin Faults => (Spec => []ForceHonoured)
<1> SUFFICES ASSUME "lose" \notin Faults, "upgrade" \notin Faults
             PROVE  Spec => []ForceHonoured
  OBVIOUS
<1> DEFINE Inv == ForceInv /\ GenuineInv /\ AdoptionAgrees /\ lost = {}
<1>1. Init => Inv
  BY DEF Init, ForceInv, ForceHonoured, FloorIsPast, Executing, ForceIsPending,
     CompletionsAreFresh, AdoptionIsNew, GenuineInv, AdoptionAgrees
<1>2. IInv /\ Inv /\ [Next]_vars => Inv'
  <2> SUFFICES ASSUME IInv, Inv, [Next]_vars PROVE Inv'
    OBVIOUS
  <2>1. Lossless
    BY DEF Lossless
  <2>2. RowsHonour'
    BY RowsHonourStep
  <2>3. AdoptionIsNew'
    BY <2>1, AdoptionIsNewStep DEF ForceInv
  <2>4. FloorIsPast'
    BY <2>2, FloorIsPastStep DEF ForceInv, FloorIsPast, RowsHonour
  <2>5. ForceInv'
    BY <2>2, <2>3, <2>4 DEF ForceInv, RowsHonour
  <2> QED
    BY <2>1, <2>5, GenuineStep, AgreesStep, NothingLost
<1>3. Inv => ForceHonoured
  BY DEF ForceInv
<1> QED
  BY <1>1, <1>2, <1>3, Invariance, PTL DEF Spec

(***************************************************************************)
(* Resumed runs report what an uninterrupted run would.                    *)
(***************************************************************************)

\* A nonempty set of stages has a first one.
LEMMA FirstStage ==
    ASSUME NEW D \in SUBSET Stage, D # {}
    PROVE  \E s \in D : \A t \in D : s <= t
<1> DEFINE A == { [num |-> N + 1 - s] : s \in D }
<1>1. N \in Nat /\ \A s \in D : s \in 1..N
  BY StageAssumption DEF Stage
<1>2. A # {} /\ \A a \in A : a.num \in 1..N
  <2>1. \A s \in D : N + 1 - s \in 1..N
    BY <1>1
  <2>2. \A s \in D : [num |-> N + 1 - s].num \in 1..N
    BY <2>1
  <2>3. A # {}
    OBVIOUS
  <2> QED
    BY <2>2, <2>3
<1>3. Latest(A) \in A /\ \A a \in A : a.num <= Latest(A).num
  <2> HIDE DEF A
  <2> QED
    BY <1>1, <1>2, LatestBounds
<1>4. PICK s \in D : Latest(A) = [num |-> N + 1 - s]
  BY <1>3
<1>5. ASSUME NEW t \in D PROVE s <= t
  <2>1. [num |-> N + 1 - t] \in A
    OBVIOUS
  <2>2. [num |-> N + 1 - t].num <= Latest(A).num
    BY <1>3, <2>1
  <2>3. N + 1 - t <= N + 1 - s
    BY <1>4, <2>2
  <2> QED
    BY <1>1, <2>3
<1> QED
  BY <1>5

\* What the stage code makes of the present versions and of given upstream bytes.
MadeFrom(U) ==
    [s \in Stage |-> CHOOSE out \in Content :
       out \in Produces(s, [version  |-> version[s],
                            upstream |-> [d \in Deps[s] |-> U[d]]])]

\* At most one assignment of bytes to stages is made from itself, since no
\* stage is upstream of itself.
LEMMA MadeFromIsUnique ==
    ASSUME NEW U, U = MadeFrom(U), NEW W, W = MadeFrom(W)
    PROVE  U = W
<1> DEFINE D == { s \in Stage : U[s] # W[s] }
<1>1. CASE D = {}
  <2>1. \A s \in Stage : MadeFrom(U)[s] = MadeFrom(W)[s]
    BY <1>1
  <2>2. MadeFrom(U) = MadeFrom(W)
    BY <2>1 DEF MadeFrom
  <2> QED
    BY <2>2
<1>2. CASE D # {}
  <2>1. PICK s \in D : \A t \in D : s <= t
    BY <1>2, FirstStage
  <2>2. \A d \in Deps[s] : d \in Stage /\ d < s
    BY <2>1, StageAssumption
  <2>3. \A d \in Deps[s] : U[d] = W[d]
    BY <2>1, <2>2 DEF Stage
  <2>4. [d \in Deps[s] |-> U[d]] = [d \in Deps[s] |-> W[d]]
    BY <2>3
  <2>5. MadeFrom(U)[s] = MadeFrom(W)[s]
    <3> DEFINE Make(u) == CHOOSE out \in Content :
                            out \in Produces(s, [version |-> version[s], upstream |-> u])
    <3>1. s \in Stage
      BY <2>1
    <3>2. /\ MadeFrom(U)[s] = Make([d \in Deps[s] |-> U[d]])
          /\ MadeFrom(W)[s] = Make([d \in Deps[s] |-> W[d]])
      BY <3>1 DEF MadeFrom
    <3> HIDE DEF Make
    <3> QED
      BY <2>4, <3>2
  <2>6. U[s] = W[s]
    BY <2>5
  <2> QED
    BY <2>1, <2>6
<1> QED
  BY <1>1, <1>2

\* The bytes of a complete and visited run are made from themselves.
LEMMA CompleteIsMadeFromItself ==
    ASSUME IInv, GenuineInv, Deterministic, Visited = Stage,
           \A s \in Stage : state[s] = "COMPLETE"
    PROVE  artifact = MadeFrom(artifact)
<1>1. ASSUME NEW s \in Stage
      PROVE  artifact[s] = CHOOSE out \in Content :
               out \in Produces(s, [version  |-> version[s],
                                    upstream |-> [d \in Deps[s] |-> artifact[d]]])
  <2>1. RowAttempt(s) \in published /\ cacheKey[s] = ExpectedKey(s)
    BY DEF IInv, CommitBacked, ReconciledInputs, InputsCurrent
  <2>2. /\ ExpectedKey(s) \in KeyOf(s)
        /\ artifact[s] \in Produces(s, ExpectedKey(s))
    BY <2>1 DEF GenuineInv, Genuine, RowAttempt
  <2>3. Produces(s, ExpectedKey(s)) = {artifact[s]}
    BY <2>2 DEF Deterministic
  <2>4. artifact[s] \in Content
    BY CompleteHasBytes DEF IInv
  <2>5. artifact[s] = CHOOSE out \in Content : out \in Produces(s, ExpectedKey(s))
    BY <2>3, <2>4
  <2> QED
    BY <2>5 DEF ExpectedKey
<1> QED
  BY <1>1 DEF MadeFrom, IInv, TypeOK, RowTypes

\* With deterministic stage code, a complete report carries the bytes of a run
\* that was never interrupted, whatever crashes, failures, forces, upgrades,
\* damage and losses it went through (the semantic hash that the recovery tests
\* compare).
THEOREM ResumesAreSemanticallyEqual ==
    Deterministic => (Spec => []ResumeIsSemanticallyEqual)
<1> SUFFICES ASSUME Deterministic PROVE Spec => []ResumeIsSemanticallyEqual
  OBVIOUS
<1>1. Init => GenuineInv
  BY DEF Init, GenuineInv
<1>2. IInv /\ GenuineInv /\ [Next]_vars => GenuineInv'
  BY GenuineStep
<1>3. IInv /\ GenuineInv => ResumeIsSemanticallyEqual
  <2> SUFFICES ASSUME IInv, GenuineInv, pc = "report", OverallState = "COMPLETE"
               PROVE  artifact = [s \in Stage |-> Uninterrupted[s]]
    BY DEF ResumeIsSemanticallyEqual
  <2>1. { state[s] : s \in Stage } = {"COMPLETE"}
    BY DEF OverallState
  <2>2. Visited = Stage
    BY DEF Visited
  <2>3. artifact = MadeFrom(artifact)
    BY <2>1, <2>2, CompleteIsMadeFromItself
  <2>4. Uninterrupted = CHOOSE U : U = MadeFrom(U)
    BY DEF Uninterrupted, MadeFrom
  <2>5. Uninterrupted = MadeFrom(Uninterrupted)
    BY <2>3, <2>4
  <2>6. artifact = Uninterrupted
    BY <2>3, <2>5, MadeFromIsUnique
  <2> QED
    BY <2>6 DEF IInv, TypeOK, RowTypes
<1> QED
  BY <1>1, <1>2, <1>3, Invariance, PTL DEF Spec
=============================================================================
