------------------------------ MODULE RunRoot ------------------------------
(***************************************************************************)
(* The life of a run root (runstate.py): RunEngine.create and .open, the    *)
(* advisory lock, and the identity in the run database, when several        *)
(* processes start on one root and any of them may die between two steps.   *)
(* What an engine does while it is active is RunState.                      *)
(***************************************************************************)
EXTENDS Naturals, Sequences

CONSTANTS
    Opener,        \* processes that run the pipeline on the root
    InputSet,      \* the inputs a creator may be given
    Definitions,   \* the stage definitions of each release, valid or not
    NoOne,         \* nobody holds the lock
    Missing        \* no file, no row in run_meta, nothing loaded

ASSUME RootAssumption == NoOne \notin Opener /\ Missing \notin InputSet /\ "torn" \notin InputSet

VARIABLES
    rootMade,    \* the directory is there
    inputsFile,  \* run-inputs.json: Missing, "torn" or the inputs
    identity,    \* run_meta: Missing, or the inputs and the topology
    lockHolder,  \* whose descriptor holds the exclusive lock
    opener       \* opener[p]: [at, inputs, stages] of the process p

rootVars == <<rootMade, inputsFile, identity, lockHolder, opener>>

(***************************************************************************)
(* Stage definitions are sequences of [id, dependencies].                  *)
(***************************************************************************)
\* validate_stage_definitions: unique identifiers, in the order of dependencies.
ValidDefinitions(stages) ==
    /\ stages # <<>>
    /\ \A i \in DOMAIN stages :
         LET before == { stages[k].id : k \in 1..(i - 1) }
         IN  stages[i].id \notin before /\ stages[i].dependencies \subseteq before

Outside == [at |-> "away", inputs |-> Missing, stages |-> <<>>]

Stands(p, step) == opener[p].at = step

Continue(p, step) == opener' = [opener EXCEPT ![p].at = step]

\* An exception before the lock is taken, and one that releases it.
GoAway(p) == opener' = [opener EXCEPT ![p] = Outside]

Released(p) == IF lockHolder = p THEN NoOne ELSE lockHolder

(***************************************************************************)
(* run_demo_pipeline looks for the root, and creates or opens it.          *)
(***************************************************************************)
Approach(p) ==
    /\ Stands(p, "away")
    /\ \E stages \in Definitions, inputs \in InputSet :
         opener' = [opener EXCEPT ![p] =
           IF rootMade THEN [at |-> "open", inputs |-> Missing, stages |-> stages]
                       ELSE [at |-> "create", inputs |-> inputs, stages |-> stages]]
    /\ UNCHANGED <<rootMade, inputsFile, identity, lockHolder>>

\* create: the root must not exist; it is made with its folders.
MakeRoot(p) ==
    /\ Stands(p, "create")
    /\ IF rootMade THEN GoAway(p) ELSE Continue(p, "write")
    /\ rootMade' = TRUE
    /\ UNCHANGED <<inputsFile, identity, lockHolder>>

\* _write_json: the file is created, then its bytes are there.
CreateInputs(p) ==
    /\ Stands(p, "write") /\ inputsFile = Missing
    /\ inputsFile' = "torn"
    /\ Continue(p, "fill")
    /\ UNCHANGED <<rootMade, identity, lockHolder>>

FillInputs(p) ==
    /\ Stands(p, "fill")
    /\ inputsFile' = opener[p].inputs
    /\ Continue(p, "validate")
    /\ UNCHANGED <<rootMade, identity, lockHolder>>

\* open: the inputs are those of the file, if it is whole.
LoadInputs(p) ==
    /\ Stands(p, "open")
    /\ IF inputsFile \in InputSet
       THEN opener' = [opener EXCEPT ![p].at = "validate", ![p].inputs = inputsFile]
       ELSE GoAway(p)
    /\ UNCHANGED <<rootMade, inputsFile, identity, lockHolder>>

(***************************************************************************)
(* RunEngine.__init__: the definitions, the lock, the database.            *)
(***************************************************************************)
Validate(p) ==
    /\ Stands(p, "validate")
    /\ IF ValidDefinitions(opener[p].stages) THEN Continue(p, "lock") ELSE GoAway(p)
    /\ UNCHANGED <<rootMade, inputsFile, identity, lockHolder>>

\* Mutant: the lock is shared.
Lock_Shared(p) ==
    /\ Stands(p, "lock")
    /\ lockHolder' = p /\ Continue(p, "identify")
    /\ UNCHANGED <<rootMade, inputsFile, identity>>

\* flock(LOCK_EX | LOCK_NB): the run is active elsewhere, or it is ours.
Lock(p) ==
    /\ Stands(p, "lock")
    /\ IF lockHolder = NoOne
       THEN lockHolder' = p /\ Continue(p, "identify")
       ELSE lockHolder' = lockHolder /\ GoAway(p)
    /\ UNCHANGED <<rootMade, inputsFile, identity>>

IdentityOf(p) == [inputs |-> opener[p].inputs, stages |-> opener[p].stages]

\* RunDatabase._initialize: run_meta is written once, or it must be the same.
Identify(p) ==
    /\ Stands(p, "identify")
    /\ IF identity \in {Missing, IdentityOf(p)}
       THEN identity' = IdentityOf(p) /\ Continue(p, "active") /\ lockHolder' = lockHolder
       ELSE identity' = identity /\ GoAway(p) /\ lockHolder' = Released(p)
    /\ UNCHANGED <<rootMade, inputsFile>>

Close(p) ==
    /\ Stands(p, "active")
    /\ GoAway(p)
    /\ lockHolder' = Released(p)
    /\ UNCHANGED <<rootMade, inputsFile, identity>>

\* The process dies, or an I/O error ends its step: what it wrote stays, and
\* the system takes its lock back.
Die(p) ==
    /\ ~Stands(p, "away")
    /\ GoAway(p)
    /\ lockHolder' = Released(p)
    /\ UNCHANGED <<rootMade, inputsFile, identity>>

RootInit ==
    /\ rootMade = FALSE /\ inputsFile = Missing /\ identity = Missing
    /\ lockHolder = NoOne
    /\ opener = [p \in Opener |-> Outside]

RootStep(p) ==
    \/ Approach(p) \/ MakeRoot(p) \/ CreateInputs(p) \/ FillInputs(p) \/ LoadInputs(p)
    \/ Validate(p) \/ Lock(p) \/ Identify(p) \/ Close(p) \/ Die(p)

RootNext == \E p \in Opener : RootStep(p)

RootSpec == RootInit /\ [][RootNext]_rootVars

(***************************************************************************)
(* Properties.                                                             *)
(***************************************************************************)
\* At most one engine is active on a root, whoever created it and whoever died
\* on the way.  It works on the inputs in its file and on valid definitions,
\* both those of the database; and a database belongs to whole inputs, so that
\* a root whose creation was cut off before them is never used
\* (RunEngine.create, .open, RunDatabase._initialize).
OneEngineOnItsRun ==
    /\ \A p \in Opener : Stands(p, "active") =>
         /\ \A q \in Opener \ {p} : ~Stands(q, "active")
         /\ opener[p].inputs = inputsFile /\ identity = IdentityOf(p)
         /\ ValidDefinitions(opener[p].stages)
    /\ identity # Missing => inputsFile \in InputSet /\ identity.inputs = inputsFile

\* Whatever processes create, open and die on the root: one engine at most is
\* active on it, and what the run is does not change any more.  The directory
\* stays, whole inputs are never written again, nor is the identity in the
\* database (the mode xb of _write_bytes, the refusals of RunDatabase._initialize).
RunsAreKept ==
    [][ /\ OneEngineOnItsRun'
        /\ rootMade => rootMade'
        /\ inputsFile \in InputSet => inputsFile' = inputsFile
        /\ identity # Missing => identity' = identity ]_rootVars

=============================================================================
