-------------------------- MODULE SchedulerProofs --------------------------
(***************************************************************************)
(* Proofs about BoundedScheduler for every set of units and workers, every *)
(* budget and all sizes and modalities of units.                           *)
(***************************************************************************)
EXTENDS BoundedScheduler, FiniteSetTheorems, WellFoundedInduction, TLAPS

(***************************************************************************)
(* Threads.                                                                *)
(***************************************************************************)

\* Deterministic mode or not, the spawned threads are some of the workers.
LEMMA SpawnedWorkers ==
    /\ Spawned \subseteq Worker /\ IsFiniteSet(Spawned)
    /\ Spawned \subseteq Thread /\ Unit \subseteq Thread
    /\ Owner \in Thread /\ Canceller \in Thread
<1>1. (CHOOSE w \in Worker : TRUE) \in Worker
  BY ThreadAssumption
<1>2. Spawned \subseteq Worker
  BY <1>1 DEF Spawned
<1>3. IsFiniteSet(Spawned)
  BY <1>2, ThreadAssumption, FS_Subset
<1> QED
  BY <1>2, <1>3 DEF Thread

(***************************************************************************)
(* The inductive invariant.                                                *)
(***************************************************************************)

\* TypeOK without the totals of bytes, which are sums over sets of units.
StateTypes ==
    /\ queue \in [Modality -> Seq(Unit)]
    /\ nextModality \in Modality
    /\ accepting \in BOOLEAN /\ cancelled \in BOOLEAN
    /\ outcome \in [Unit -> {"none", "completed", "failed", "cancelled"}]
    /\ pc \in [Thread -> {"idle", "check", "asleep", "notify", "accepted",
                          "rejected", "running", "exited", "join", "done"}]
    /\ running \in [Spawned -> Unit \cup {NoUnit}]
    /\ passed \subseteq Modality \X Modality

Busy == { w \in Spawned : running[w] # NoUnit }

\* active_units counts the workers that execute a unit, so it is no less than
\* zero and wait() cannot see it reach zero early.
ActiveCount ==
    /\ activeUnits = Cardinality(Busy)
    /\ \A w \in Spawned : running[w] # NoUnit <=> pc[w] = "running"

\* Every unit waits in the queue of its modality.
QueuesByModality ==
    \A m \in Modality : \A i \in 1..Len(queue[m]) : ModalityOf[queue[m][i]] = m

\* A cancelled scheduler admits nothing and holds nothing queued.
CancelDrains == cancelled => ~accepting /\ ~HasQueued

\* How many queues the rotation looks at before queue m.
Distance(m) == IF m >= nextModality THEN m - nextModality
               ELSE m + ModalityCount - nextModality

\* The rotation reaches a queue that waits before those that overtook it.
RotationOrder ==
    \A p \in passed : queue[p[1]] # <<>> /\ Distance(p[1]) < Distance(p[2])

\* No producer of a deterministic scheduler is in the wait of submit().
NoBatchWaits == Deterministic => \A u \in Unit : pc[u] \notin {"check", "asleep"}

IInv ==
    /\ StateTypes /\ ActiveCount /\ QueuesByModality /\ CancelDrains
    /\ RotationOrder /\ NoBatchWaits /\ NoLostWakeup

\* A scheduler just constructed satisfies the invariant.
LEMMA InitInv == Init => IInv
<1> SUFFICES ASSUME Init PROVE IInv
  OBVIOUS
<1>1. StateTypes
  <2>1. queue \in [Modality -> Seq(Unit)] /\ nextModality \in Modality
    BY DEF Init, Modality, ModalityCount
  <2>2. pc \in [Thread -> {"check", "idle"}]
    BY DEF Init
  <2>3. outcome \in [Unit -> {"none"}] /\ running \in [Spawned -> {NoUnit}]
    BY DEF Init
  <2> QED
    BY <2>1, <2>2, <2>3 DEF Init, StateTypes
<1>2. ActiveCount
  <2>1. Busy = {}
    BY DEF Init, Busy
  <2> QED
    BY <2>1, FS_EmptySet, SpawnedWorkers DEF Init, ActiveCount
<1>3. QueuesByModality /\ CancelDrains /\ RotationOrder
  BY DEF Init, QueuesByModality, CancelDrains, HasQueued, RotationOrder
<1>4. NoBatchWaits /\ NoLostWakeup
  BY SpawnedWorkers, ThreadAssumption DEF Init, NoBatchWaits, NoLostWakeup
<1> QED
  BY <1>1, <1>2, <1>3, <1>4 DEF IInv

(***************************************************************************)
(* Which modality is served.                                               *)
(***************************************************************************)

\* With work queued, the one the rotation reaches first.
LEMMA SelectedIsNearest ==
    ASSUME StateTypes, HasQueued
    PROVE  /\ Selected \in Modality /\ queue[Selected] # <<>>
           /\ \A k \in Modality : queue[k] # <<>> => Distance(Selected) <= Distance(k)
<1> DEFINE At(i) == (nextModality + i) % ModalityCount
           IsFirst(i) == /\ queue[At(i)] # <<>>
                         /\ \A j \in 0..(i - 1) : queue[At(j)] = <<>>
           first == CHOOSE i \in Modality : IsFirst(i)
<1>1. nextModality \in 0..5
  BY DEF StateTypes, Modality, ModalityCount
<1>2. \A i \in 0..5 : /\ At(i) \in Modality
                      /\ At(i) = IF nextModality + i >= 6 THEN nextModality + i - 6
                                 ELSE nextModality + i
  BY <1>1 DEF ModalityCount, Modality
<1>3. \A i \in 0..5 : Distance(At(i)) = i
  BY <1>1, <1>2 DEF Distance, ModalityCount
<1>4. \A k \in Modality : Distance(k) \in 0..5 /\ At(Distance(k)) = k
  BY <1>1, <1>2 DEF Distance, ModalityCount, Modality
<1> HIDE DEF At
<1>5. \E i \in 0..5 : IsFirst(i)
  <2>1. PICK k \in Modality : queue[k] # <<>>
    BY DEF HasQueued
  <2>2. \E i \in 0..5 : queue[At(i)] # <<>>
    BY <2>1, <1>4
  <2> QED
    BY <2>2
<1>6. first \in 0..5 /\ IsFirst(first)
  BY <1>5 DEF Modality, ModalityCount
<1>7. Selected = At(first)
  BY DEF Selected, At
<1> HIDE DEF first
<1>8. \A k \in Modality : queue[k] # <<>> => first <= Distance(k)
  BY <1>4, <1>6
<1> QED
  BY <1>2, <1>3, <1>6, <1>7, <1>8

(***************************************************************************)
(* Which steps write what.                                                 *)
(***************************************************************************)

guarded == <<queue, nextModality, totals, flags, outcome, running, passed>>

Waits(u) == pc[u] \in {"check", "asleep"}

\* A thread that only moves on: it leaves the state guarded by the mutex alone.
\* No worker starts or ends a unit that way, no unit is admitted, and no
\* malformed one comes to wait.
Moves ==
    /\ UNCHANGED guarded
    /\ \A w \in Spawned : pc'[w] = "running" <=> pc[w] = "running"
    /\ \A u \in Unit : /\ Admitted(u)' <=> Admitted(u)
                       /\ Waits(u)' => Waits(u) \/ ~Malformed(u)

\* notify_all leaves nobody asleep and moves only sleepers besides its caller.
LEMMA NotifyAllWakes ==
    ASSUME StateTypes, NEW t \in Thread, NEW label,
           NotifyAll(t, label), label # "asleep"
    PROVE  /\ pc'[t] = label
           /\ \A s \in Thread : pc'[s] # "asleep"
           /\ \A s \in Thread \ {t} : pc'[s] = pc[s] \/ pc'[s] = "check"
           /\ \A s \in Thread \ {t} : pc'[s] = "running" <=> pc[s] = "running"
<1>1. \A s \in Thread : pc'[s] = IF s = t THEN label
                                 ELSE IF pc[s] = "asleep" THEN "check" ELSE pc[s]
  BY DEF NotifyAll
<1> QED
  BY <1>1

\* The labels notify_all is called with.
LEMMA NotifyLabels ==
    ASSUME NEW t \in Thread
    PROVE  /\ AfterNotify(t) \in {"accepted", "check", "done"}
           /\ t \in Spawned => AfterNotify(t) = "check"
           /\ t \in Unit => AfterNotify(t) = "accepted"
<1>1. /\ t \in Spawned => t \notin Unit
      /\ t = Owner => t \notin Unit \cup Spawned
  BY SpawnedWorkers, ThreadAssumption
<1> QED
  BY <1>1 DEF AfterNotify

\* Every step of a thread is one of these.
LEMMA StepKinds ==
    ASSUME StateTypes, [Next]_vars
    PROVE  \/ Moves
           \/ \E u \in Unit : SubmitAdmitted(u) \/ SubmitAgain(u)
           \/ \E w \in Spawned : TakeUnit(w) \/ Complete(w)
           \/ Close
           \/ RequestCancel
<1> USE DEF Admitted, Waits
<1>1. CASE UNCHANGED vars
  BY <1>1 DEF vars, Moves, guarded, totals, flags
<1>2. CASE Finished
  BY <1>2 DEF Finished, vars, Moves, guarded, totals, flags
<1>3. ASSUME NEW t \in Thread, Notify(t)
      PROVE  Moves
  <2>1. \A s \in Thread \ {t} : /\ pc'[s] = "running" <=> pc[s] = "running"
                                /\ \/ pc'[s] = pc[s]
                                   \/ pc[s] = "asleep" /\ pc'[s] = "check"
    BY <1>3, NotifyLabels DEF Notify, NotifyAll
  <2>2. pc[t] = "notify" /\ pc'[t] = AfterNotify(t)
    BY <1>3 DEF Notify, NotifyAll
  <2> QED
    BY <1>3, <2>1, <2>2, NotifyLabels, SpawnedWorkers DEF Notify, Moves, guarded
<1>4. ASSUME NEW t \in Thread, Sleep(t)
      PROVE  Moves
  <2>1. pc' = [pc EXCEPT ![t] = "asleep"] /\ Checking(t)
    BY <1>4 DEF Sleep, Goto
  <2>2. t \in Unit => Waits(t) \/ ~Malformed(t)
    BY <2>1 DEF Checking
  <2>3. pc[t] \in {"check", "idle"}
    BY <2>1 DEF Checking
  <2> QED
    BY <1>4, <2>1, <2>2, <2>3, SpawnedWorkers DEF Sleep, Moves, guarded, StateTypes
<1>5. ASSUME NEW u \in Unit, SubmitRefused(u) \/ SubmitInvalid(u)
      PROVE  Moves
  <2>1. pc' = [pc EXCEPT ![u] = "rejected"] /\ pc[u] \in {"check", "idle"}
    BY <1>5 DEF SubmitRefused, SubmitInvalid, Goto, Checking
  <2> QED
    BY <1>5, <2>1, SpawnedWorkers, ThreadAssumption
       DEF SubmitRefused, SubmitInvalid, Moves, guarded, StateTypes
<1>6. ASSUME NEW w \in Spawned, WorkerExit(w)
      PROVE  Moves
  <2>1. pc[w] # "running" /\ w \notin Unit
    BY <1>6, SpawnedWorkers, ThreadAssumption DEF WorkerExit, Checking
  <2>2. \A s \in Thread \ {w} : /\ pc'[s] = "running" <=> pc[s] = "running"
                                /\ \/ pc'[s] = pc[s]
                                   \/ pc[s] = "asleep" /\ pc'[s] = "check"
    BY <1>6 DEF WorkerExit, NotifyAll
  <2>3. pc'[w] = "exited"
    BY <1>6, SpawnedWorkers DEF WorkerExit, NotifyAll
  <2> QED
    BY <1>6, <2>1, <2>2, <2>3, SpawnedWorkers DEF WorkerExit, Moves, guarded
<1>7. ASSUME WaitDrained \/ Join
      PROVE  Moves
  <2>1. \A s \in Unit \cup Spawned : pc'[s] = pc[s]
    BY <1>7, SpawnedWorkers, ThreadAssumption DEF WaitDrained, Join, Goto, StateTypes
  <2> QED
    BY <1>7, <2>1, SpawnedWorkers DEF WaitDrained, Join, Moves, guarded
<1> QED
  BY <1>1, <1>2, <1>3, <1>4, <1>5, <1>6, <1>7, SpawnedWorkers DEF Next, Step, Call

(***************************************************************************)
(* Types.                                                                  *)
(***************************************************************************)

\* Control state keeps its type, whatever the step.
LEMMA ControlTypes ==
    ASSUME StateTypes, [Next]_vars
    PROVE  pc' \in [Thread -> {"idle", "check", "asleep", "notify", "accepted",
                               "rejected", "running", "exited", "join", "done"}]
<1> DEFINE Label == {"idle", "check", "asleep", "notify", "accepted",
                     "rejected", "running", "exited", "join", "done"}
<1>1. ASSUME NEW t \in Thread, NEW label \in Label, Goto(t, label)
      PROVE  pc' \in [Thread -> Label]
  BY <1>1 DEF Goto, StateTypes
<1>2. ASSUME NEW t \in Thread, NEW label \in Label, NotifyAll(t, label)
      PROVE  pc' \in [Thread -> Label]
  BY <1>2 DEF NotifyAll, StateTypes
<1>3. CASE UNCHANGED vars \/ Finished
  BY <1>3 DEF vars, Finished, StateTypes
<1>4. ASSUME NEW t \in Thread, Notify(t) \/ Sleep(t)
      PROVE  pc' \in [Thread -> Label]
  BY <1>4, <1>1, <1>2, NotifyLabels DEF Notify, Sleep
<1>5. ASSUME NEW u \in Unit, \/ SubmitRefused(u) \/ SubmitAdmitted(u)
                             \/ SubmitInvalid(u) \/ SubmitAgain(u)
      PROVE  pc' \in [Thread -> Label]
  BY <1>5, <1>1, SpawnedWorkers
     DEF SubmitRefused, SubmitAdmitted, SubmitInvalid, SubmitAgain
<1>6. ASSUME NEW w \in Spawned, TakeUnit(w) \/ WorkerExit(w) \/ Complete(w)
      PROVE  pc' \in [Thread -> Label]
  BY <1>6, <1>1, <1>2, SpawnedWorkers DEF TakeUnit, WorkerExit, Complete
<1>7. ASSUME WaitDrained \/ Join \/ Close \/ RequestCancel
      PROVE  pc' \in [Thread -> Label]
  BY <1>7, <1>1, SpawnedWorkers DEF WaitDrained, Join, Close, RequestCancel
<1> QED
  BY <1>3, <1>4, <1>5, <1>6, <1>7 DEF Next, Step, Call

\* The unit a worker takes: the head of a queue.
LEMMA TakenUnit ==
    ASSUME StateTypes, HasQueued
    PROVE  /\ Head(queue[Selected]) \in Unit
           /\ Tail(queue[Selected]) \in Seq(Unit)
           /\ Len(queue[Selected]) >= 1
           /\ Head(queue[Selected]) = queue[Selected][1]
BY SelectedIsNearest DEF StateTypes

\* Every step keeps the types.
LEMMA TypeStep ==
    ASSUME StateTypes, [Next]_vars
    PROVE  StateTypes'
<1>1. CASE Moves
  BY <1>1, ControlTypes DEF Moves, guarded, flags, StateTypes
<1>2. ASSUME NEW u \in Unit, SubmitAdmitted(u)
      PROVE  StateTypes'
  <2>1. ASSUME NEW m \in Modality
        PROVE  Append(queue[m], u) \in Seq(Unit)
    BY DEF StateTypes
  <2>2. queue' \in [Modality -> Seq(Unit)]
    BY <1>2, <2>1 DEF SubmitAdmitted, StateTypes
  <2> QED
    BY <1>2, <2>2, ControlTypes DEF SubmitAdmitted, flags, StateTypes
<1>3. ASSUME NEW u \in Unit, SubmitAgain(u)
      PROVE  StateTypes'
  BY <1>3, ControlTypes DEF SubmitAgain, flags, StateTypes
<1>4. ASSUME NEW w \in Spawned, TakeUnit(w)
      PROVE  StateTypes'
  <2>1. HasQueued
    BY <1>4 DEF TakeUnit
  <2>2. queue' \in [Modality -> Seq(Unit)]
    BY <1>4, <2>1, TakenUnit DEF TakeUnit, StateTypes
  <2>3. running' \in [Spawned -> Unit \cup {NoUnit}]
    BY <1>4, <2>1, TakenUnit DEF TakeUnit, StateTypes
  <2>4. nextModality' \in Modality
    BY <1>4, <2>1, SelectedIsNearest DEF TakeUnit, Modality, ModalityCount
  <2>5. passed' \subseteq Modality \X Modality
    BY <1>4, <2>1, SelectedIsNearest DEF TakeUnit, Overtaken, StateTypes
  <2> QED
    BY <1>4, <2>2, <2>3, <2>4, <2>5, ControlTypes DEF TakeUnit, flags, StateTypes
<1>5. ASSUME NEW w \in Spawned, Complete(w)
      PROVE  StateTypes'
  <2>1. outcome' \in [Unit -> {"none", "completed", "failed", "cancelled"}]
    BY <1>5 DEF Complete, StateOf, StateTypes
  <2>2. running' \in [Spawned -> Unit \cup {NoUnit}]
    BY <1>5 DEF Complete, StateTypes
  <2> QED
    BY <1>5, <2>1, <2>2, ControlTypes DEF Complete, flags, StateTypes
<1>6. CASE Close
  BY <1>6, ControlTypes DEF Close, StateTypes
<1>7. CASE RequestCancel
  <2>1. queue' \in [Modality -> Seq(Unit)]
    BY <1>7 DEF RequestCancel
  <2>2. outcome' \in [Unit -> {"none", "completed", "failed", "cancelled"}]
    BY <1>7 DEF RequestCancel, StateTypes
  <2> QED
    BY <1>7, <2>1, <2>2, ControlTypes DEF RequestCancel, StateTypes
<1> QED
  BY <1>1, <1>2, <1>3, <1>4, <1>5, <1>6, <1>7, StepKinds

(***************************************************************************)
(* The counter of active units.                                            *)
(***************************************************************************)

\* A thread that is no worker leaves the workers' control state alone.
LEMMA OthersMove ==
    ASSUME StateTypes, NEW t \in Thread \ Spawned, NEW label, Goto(t, label)
    PROVE  \A w \in Spawned : pc'[w] = pc[w]
BY SpawnedWorkers DEF Goto, StateTypes

\* Taking and completing a unit move the counter with the workers.
LEMMA ActiveStep ==
    ASSUME StateTypes, ActiveCount, [Next]_vars
    PROVE  ActiveCount'
<1> DEFINE Kept == /\ running' = running /\ activeUnits' = activeUnits
                   /\ \A w \in Spawned : pc'[w] = "running" <=> pc[w] = "running"
<1>1. ASSUME Kept
      PROVE  ActiveCount'
  BY <1>1 DEF ActiveCount, Busy
<1>2. CASE Moves
  BY <1>2, <1>1 DEF Moves, guarded, totals
<1>3. ASSUME NEW u \in Unit, SubmitAdmitted(u) \/ SubmitAgain(u)
      PROVE  ActiveCount'
  <2>1. u \in Thread \ Spawned
    BY SpawnedWorkers, ThreadAssumption
  <2>2. \A w \in Spawned : pc'[w] = pc[w]
    BY <1>3, <2>1, OthersMove DEF SubmitAdmitted, SubmitAgain
  <2> QED
    BY <1>3, <2>2, <1>1 DEF SubmitAdmitted, SubmitAgain, totals
<1>4. CASE Close \/ RequestCancel
  <2>1. {Owner, Canceller} \subseteq Thread \ Spawned
    BY SpawnedWorkers, ThreadAssumption
  <2>2. \A w \in Spawned : pc'[w] = pc[w]
    BY <1>4, <2>1, OthersMove DEF Close, RequestCancel
  <2> QED
    BY <1>4, <2>2, <1>1 DEF Close, RequestCancel, totals
<1>5. ASSUME NEW w \in Spawned, TakeUnit(w)
      PROVE  ActiveCount'
  <2>1. HasQueued /\ pc[w] = "check"
    BY <1>5, SpawnedWorkers, ThreadAssumption DEF TakeUnit, Checking
  <2>2. running[w] = NoUnit
    BY <2>1 DEF ActiveCount
  <2>3. running' = [running EXCEPT ![w] = Head(queue[Selected])]
    BY <1>5 DEF TakeUnit
  <2>4. Head(queue[Selected]) # NoUnit
    BY <2>1, TakenUnit, ThreadAssumption
  <2>5. Busy' = Busy \cup {w} /\ w \notin Busy
    BY <2>2, <2>3, <2>4 DEF Busy, StateTypes
  <2>6. IsFiniteSet(Busy)
    BY SpawnedWorkers, FS_Subset DEF Busy
  <2>7. activeUnits' = Cardinality(Busy')
    BY <1>5, <2>5, <2>6, FS_AddElement DEF TakeUnit, ActiveCount
  <2>8. pc' = [pc EXCEPT ![w] = "running"]
    BY <1>5 DEF TakeUnit, Goto
  <2>9. \A v \in Spawned : running'[v] # NoUnit <=> pc'[v] = "running"
    BY <2>3, <2>4, <2>8, SpawnedWorkers DEF ActiveCount, StateTypes
  <2> QED
    BY <2>7, <2>9 DEF ActiveCount
<1>6. ASSUME NEW w \in Spawned, Complete(w)
      PROVE  ActiveCount'
  <2>1. running' = [running EXCEPT ![w] = NoUnit] /\ running[w] # NoUnit
    BY <1>6 DEF Complete, ActiveCount
  <2>2. Busy' = Busy \ {w} /\ w \in Busy
    BY <2>1 DEF Busy, StateTypes
  <2>3. IsFiniteSet(Busy)
    BY SpawnedWorkers, FS_Subset DEF Busy
  <2>4. activeUnits' = Cardinality(Busy')
    BY <1>6, <2>2, <2>3, FS_RemoveElement DEF Complete, ActiveCount
  <2>5. pc' = [pc EXCEPT ![w] = "notify"]
    BY <1>6 DEF Complete, Goto
  <2>6. \A v \in Spawned : running'[v] # NoUnit <=> pc'[v] = "running"
    BY <2>1, <2>5, SpawnedWorkers DEF ActiveCount, StateTypes
  <2> QED
    BY <2>4, <2>6 DEF ActiveCount
<1> QED
  BY <1>2, <1>3, <1>4, <1>5, <1>6, StepKinds

(***************************************************************************)
(* The queues and the rotation.                                            *)
(***************************************************************************)

\* Units are appended to the queue of their modality and leave from its head.
LEMMA QueuesStep ==
    ASSUME StateTypes, QueuesByModality, [Next]_vars
    PROVE  QueuesByModality'
<1>1. ASSUME queue' = queue
      PROVE  QueuesByModality'
  BY <1>1 DEF QueuesByModality
<1>2. ASSUME NEW u \in Unit, SubmitAdmitted(u)
      PROVE  QueuesByModality'
  <2> SUFFICES ASSUME NEW m \in Modality, NEW i \in 1..Len(queue'[m])
               PROVE  ModalityOf[queue'[m][i]] = m
    BY DEF QueuesByModality
  <2>1. queue[m] \in Seq(Unit)
    BY DEF StateTypes
  <2>2. queue'[m] = IF m = ModalityOf[u] THEN Append(queue[m], u) ELSE queue[m]
    BY <1>2 DEF SubmitAdmitted, StateTypes
  <2>3. CASE i \in 1..Len(queue[m])
    BY <2>1, <2>2, <2>3 DEF QueuesByModality
  <2>4. CASE i \notin 1..Len(queue[m])
    BY <2>1, <2>2, <2>4
  <2> QED
    BY <2>3, <2>4
<1>3. ASSUME NEW w \in Spawned, TakeUnit(w)
      PROVE  QueuesByModality'
  <2> SUFFICES ASSUME NEW m \in Modality, NEW i \in 1..Len(queue'[m])
               PROVE  ModalityOf[queue'[m][i]] = m
    BY DEF QueuesByModality
  <2>1. queue[m] \in Seq(Unit)
    BY DEF StateTypes
  <2>2. queue'[m] = IF m = Selected THEN Tail(queue[m]) ELSE queue[m]
    BY <1>3 DEF TakeUnit, StateTypes
  <2>3. CASE m # Selected
    BY <2>2, <2>3 DEF QueuesByModality
  <2>4. CASE m = Selected
    <3>1. queue[m] # <<>>
      BY <1>3, <2>4, SelectedIsNearest DEF TakeUnit
    <3>2. i + 1 \in 1..Len(queue[m]) /\ queue'[m][i] = queue[m][i + 1]
      BY <2>1, <2>2, <2>4, <3>1
    <3> QED
      BY <3>2 DEF QueuesByModality
  <2> QED
    BY <2>3, <2>4
<1>4. CASE RequestCancel
  BY <1>4 DEF RequestCancel, QueuesByModality
<1> QED
  BY <1>1, <1>2, <1>3, <1>4, StepKinds DEF Moves, guarded, SubmitAgain, Complete, Close

\* request_cancel() empties the queues under the mutex that sets its flag, and
\* submit() looks at the flag under the same mutex.
LEMMA CancelStep ==
    ASSUME StateTypes, CancelDrains, [Next]_vars
    PROVE  CancelDrains'
<1>1. CASE Moves
  BY <1>1 DEF Moves, guarded, flags, CancelDrains, HasQueued
<1>2. ASSUME NEW u \in Unit, SubmitAdmitted(u) \/ SubmitAgain(u)
      PROVE  CancelDrains'
  BY <1>2 DEF SubmitAdmitted, SubmitAgain, flags, CancelDrains, HasQueued
<1>3. ASSUME NEW w \in Spawned, TakeUnit(w) \/ Complete(w)
      PROVE  CancelDrains'
  BY <1>3 DEF TakeUnit, Complete, flags, CancelDrains, HasQueued
<1>4. CASE Close \/ RequestCancel
  BY <1>4 DEF Close, RequestCancel, CancelDrains, HasQueued
<1> QED
  BY <1>1, <1>2, <1>3, <1>4, StepKinds

\* Serving a modality sends it to the end of the rotation and keeps the order
\* of the others.
LEMMA DistanceAfterService ==
    ASSUME nextModality \in Modality, NEW m \in Modality,
           nextModality' = (m + 1) % ModalityCount
    PROVE  /\ Distance(m)' = ModalityCount - 1
           /\ \A k \in Modality \ {m} : Distance(k)' < ModalityCount - 1
           /\ \A k, j \in Modality :
                Distance(m) < Distance(k) /\ Distance(k) < Distance(j)
                => Distance(k)' < Distance(j)'
<1>1. nextModality' = IF m = 5 THEN 0 ELSE m + 1
  BY DEF Modality, ModalityCount
<1> QED
  BY <1>1 DEF Distance, Modality, ModalityCount

\* Different modalities are at different distances.
LEMMA DistanceInjective ==
    ASSUME nextModality \in Modality, NEW k \in Modality, NEW m \in Modality, k # m
    PROVE  Distance(k) # Distance(m) /\ Distance(k) \in Nat /\ Distance(m) \in Nat
BY DEF Distance, Modality, ModalityCount

\* No step moves a waiting queue behind one that has overtaken it.
LEMMA RotationStep ==
    ASSUME StateTypes, RotationOrder, [Next]_vars
    PROVE  RotationOrder'
<1>1. ASSUME queue' = queue, nextModality' = nextModality, passed' = passed
      PROVE  RotationOrder'
  BY <1>1 DEF RotationOrder, Distance
<1>2. ASSUME NEW u \in Unit, SubmitAdmitted(u)
      PROVE  RotationOrder'
  <2>1. \A m \in Modality : queue[m] # <<>> => queue'[m] # <<>>
    <3> SUFFICES ASSUME NEW m \in Modality, queue[m] # <<>> PROVE queue'[m] # <<>>
      OBVIOUS
    <3>1. queue[m] \in Seq(Unit)
      BY DEF StateTypes
    <3>2. Append(queue[m], u) # <<>>
      BY <3>1
    <3> QED
      BY <1>2, <3>2 DEF SubmitAdmitted, StateTypes
  <2> QED
    BY <1>2, <2>1 DEF SubmitAdmitted, RotationOrder, Distance, StateTypes
<1>3. ASSUME NEW w \in Spawned, TakeUnit(w)
      PROVE  RotationOrder'
  <2> DEFINE m == Selected
  <2>1. /\ HasQueued /\ passed' = Overtaken(m)
        /\ nextModality' = (m + 1) % ModalityCount
        /\ queue' = [queue EXCEPT ![m] = Tail(@)]
    BY <1>3 DEF TakeUnit
  <2>2. m \in Modality /\ \A k \in Modality : queue[k] # <<>> => Distance(m) <= Distance(k)
    BY <2>1, SelectedIsNearest
  <2>3. \A k \in Modality \ {m} : queue'[k] = queue[k]
    BY <2>1, <2>2 DEF StateTypes
  <2> HIDE DEF m
  <2> SUFFICES ASSUME NEW p \in passed'
               PROVE  queue'[p[1]] # <<>> /\ Distance(p[1])' < Distance(p[2])'
    BY DEF RotationOrder, Distance
  <2>4. CASE p \in passed /\ p[1] # m
    <3>1. p[1] \in Modality \ {m} /\ p[2] \in Modality
      BY <2>4 DEF StateTypes
    <3>2. queue[p[1]] # <<>> /\ Distance(p[1]) < Distance(p[2])
      BY <2>4 DEF RotationOrder
    <3>3. Distance(m) < Distance(p[1])
      BY <2>2, <3>1, <3>2, DistanceInjective DEF StateTypes
    <3> QED
      BY <2>1, <2>2, <2>3, <3>1, <3>2, <3>3, DistanceAfterService DEF StateTypes
  <2>5. CASE p \in { <<k, m>> : k \in { k \in Modality \ {m} : queue[k] # <<>> } }
    <3>1. PICK k \in Modality \ {m} : queue[k] # <<>> /\ p = <<k, m>>
      BY <2>5
    <3> QED
      BY <2>1, <2>2, <2>3, <3>1, DistanceAfterService DEF StateTypes
  <2> QED
    BY <2>1, <2>4, <2>5 DEF Overtaken
<1>4. CASE RequestCancel
  BY <1>4 DEF RequestCancel, RotationOrder
<1> QED
  BY <1>1, <1>2, <1>3, <1>4, StepKinds DEF Moves, guarded, SubmitAgain, Complete, Close

(***************************************************************************)
(* Waits and wake-ups.                                                     *)
(***************************************************************************)

\* In deterministic mode submit() is refused when it would have to wait.
LEMMA BatchStep ==
    ASSUME StateTypes, NoBatchWaits, [Next]_vars
    PROVE  NoBatchWaits'
<1> SUFFICES ASSUME Deterministic, NEW u \in Unit
             PROVE  pc'[u] \notin {"check", "asleep"}
  BY DEF NoBatchWaits
<1>1. pc[u] \notin {"check", "asleep"} /\ u \in Thread
  BY SpawnedWorkers DEF NoBatchWaits
<1>2. u \notin Spawned /\ u # Owner /\ u # Canceller
  BY SpawnedWorkers, ThreadAssumption
<1>3. ASSUME NEW t \in Thread, NEW label, Goto(t, label),
             t = u => label \notin {"check", "asleep"}
      PROVE  pc'[u] \notin {"check", "asleep"}
  BY <1>1, <1>3 DEF Goto, StateTypes
<1>4. ASSUME NEW t \in Thread, NEW label, NotifyAll(t, label),
             t = u => label \notin {"check", "asleep"}
      PROVE  pc'[u] \notin {"check", "asleep"}
  BY <1>1, <1>4 DEF NotifyAll, StateTypes
<1>5. CASE UNCHANGED vars \/ Finished
  BY <1>1, <1>5 DEF vars, Finished
<1>6. ASSUME NEW t \in Thread, Notify(t)
      PROVE  pc'[u] \notin {"check", "asleep"}
  BY <1>6, <1>4, NotifyLabels DEF Notify
<1>7. ASSUME NEW t \in Thread, Sleep(t)
      PROVE  pc'[u] \notin {"check", "asleep"}
  <2>1. t # u
    BY <1>1, <1>2, <1>7 DEF Sleep, Checking, Ready, BatchRejected
  <2> QED
    BY <1>7, <1>3, <2>1 DEF Sleep
<1>8. ASSUME NEW t \in Unit, \/ SubmitRefused(t) \/ SubmitAdmitted(t)
                             \/ SubmitInvalid(t) \/ SubmitAgain(t)
      PROVE  pc'[u] \notin {"check", "asleep"}
  BY <1>8, <1>3, SpawnedWorkers
     DEF SubmitRefused, SubmitAdmitted, SubmitInvalid, SubmitAgain
<1>9. ASSUME NEW w \in Spawned, TakeUnit(w) \/ WorkerExit(w) \/ Complete(w)
      PROVE  pc'[u] \notin {"check", "asleep"}
  BY <1>2, <1>9, <1>3, <1>4, SpawnedWorkers DEF TakeUnit, WorkerExit, Complete
<1>10. ASSUME WaitDrained \/ Join \/ Close \/ RequestCancel
       PROVE  pc'[u] \notin {"check", "asleep"}
  BY <1>2, <1>10, <1>3, SpawnedWorkers DEF WaitDrained, Join, Close, RequestCancel
<1> QED
  BY <1>5, <1>6, <1>7, <1>8, <1>9, <1>10 DEF Next, Step, Call

\* The predicates read nothing but the state the mutex guards.
LEMMA ReadyFrame ==
    ASSUME UNCHANGED <<queue, totals, flags>>, NEW t \in Thread
    PROVE  Ready(t)' <=> Ready(t)
<1>1. Fits(t)' <=> Fits(t)
  BY DEF Fits, totals
<1>2. WorkerReady' <=> WorkerReady
  BY DEF WorkerReady, HasQueued, flags
<1>3. Drained' <=> Drained
  BY DEF Drained, totals
<1> QED
  BY <1>1, <1>2, <1>3 DEF Ready, flags

\* Taking a unit makes no predicate true.
LEMMA TakeUnitWakesNobody ==
    ASSUME StateTypes, ActiveCount, NEW w \in Spawned, TakeUnit(w),
           NEW t \in Thread, Ready(t)'
    PROVE  Ready(t)
<1>1. WorkerReady
  BY DEF TakeUnit
<1>2. ~Drained'
  <2>1. IsFiniteSet(Busy)
    BY SpawnedWorkers, FS_Subset DEF Busy
  <2>2. activeUnits \in Nat
    BY <2>1, FS_CardinalityType DEF ActiveCount
  <2>3. activeUnits' = activeUnits + 1
    BY DEF TakeUnit
  <2> QED
    BY <2>2, <2>3 DEF Drained
<1>3. Fits(t)' <=> Fits(t)
  BY DEF Fits, TakeUnit
<1>4. cancelled' = cancelled /\ accepting' = accepting
  BY DEF TakeUnit, flags
<1>5. CASE t \in Unit
  <2>1. t \notin Spawned /\ t # Owner
    BY <1>5, SpawnedWorkers, ThreadAssumption
  <2>2. cancelled' \/ ~accepting' \/ Fits(t)'
    BY <1>5, <2>1 DEF Ready
  <2>3. cancelled \/ ~accepting \/ Fits(t)
    BY <1>3, <1>4, <2>2
  <2> QED
    BY <1>5, <2>1, <2>3 DEF Ready
<1>6. CASE t \in Spawned
  BY <1>1, <1>6, SpawnedWorkers, ThreadAssumption DEF Ready
<1>7. CASE t \notin Unit \cup Spawned
  BY <1>2, <1>7 DEF Ready
<1> QED
  BY <1>5, <1>6, <1>7

\* Every step that makes a predicate true goes on to notify_all, and a step
\* that notifies leaves nobody asleep.
LEMMA WakeupStep ==
    ASSUME StateTypes, ActiveCount, NoLostWakeup, [Next]_vars
    PROVE  NoLostWakeup'
<1> SUFFICES ASSUME NEW t \in Thread, pc'[t] = "asleep", Ready(t)'
             PROVE  \E s \in Thread : pc'[s] = "notify"
  BY DEF NoLostWakeup
<1>1. ASSUME NEW s \in Thread, Goto(s, "notify")
      PROVE  \E r \in Thread : pc'[r] = "notify"
  BY <1>1 DEF Goto, StateTypes
<1>2. ASSUME NEW s \in Thread, NEW label, NotifyAll(s, label), label # "asleep"
      PROVE  FALSE
  BY <1>2, NotifyAllWakes
<1>3. ASSUME NEW s \in Thread, NEW label, Goto(s, label), label # "asleep",
             pc[s] # "notify", Ready(t)
      PROVE  \E r \in Thread : pc'[r] = "notify"
  <2>1. pc[t] = "asleep" /\ t # s
    BY <1>3 DEF Goto, StateTypes
  <2>2. PICK r \in Thread : pc[r] = "notify"
    BY <1>3, <2>1 DEF NoLostWakeup
  <2> QED
    BY <1>3, <2>2 DEF Goto, StateTypes
<1>4. CASE UNCHANGED vars \/ Finished
  <2>1. UNCHANGED <<queue, totals, flags>> /\ pc' = pc
    BY <1>4 DEF vars, Finished
  <2> QED
    BY <2>1, ReadyFrame DEF NoLostWakeup
<1>5. ASSUME NEW s \in Thread, Notify(s)
      PROVE  FALSE
  BY <1>5, <1>2, NotifyLabels DEF Notify
<1>6. ASSUME NEW s \in Thread, Sleep(s)
      PROVE  \E r \in Thread : pc'[r] = "notify"
  <2>1. UNCHANGED <<queue, totals, flags>> /\ Goto(s, "asleep")
    BY <1>6 DEF Sleep
  <2>2. Ready(t) /\ ~Ready(s)
    BY <1>6, <2>1, ReadyFrame DEF Sleep
  <2>3. pc[t] = "asleep" /\ t # s
    BY <2>1, <2>2 DEF Goto, StateTypes
  <2>4. PICK r \in Thread : pc[r] = "notify"
    BY <2>2, <2>3 DEF NoLostWakeup
  <2>5. r # s
    BY <1>6, <2>4 DEF Sleep, Checking
  <2> QED
    BY <2>1, <2>4, <2>5 DEF Goto, StateTypes
<1>7. ASSUME NEW u \in Unit, SubmitRefused(u) \/ SubmitInvalid(u) \/ SubmitAgain(u)
      PROVE  \E r \in Thread : pc'[r] = "notify"
  <2>1. UNCHANGED <<queue, totals, flags>> /\ u \in Thread
    BY <1>7, SpawnedWorkers DEF SubmitRefused, SubmitInvalid, SubmitAgain
  <2>2. Ready(t)
    BY <2>1, ReadyFrame
  <2>3. pc[u] # "notify"
    BY <1>7 DEF SubmitRefused, SubmitInvalid, SubmitAgain, Checking
  <2> QED
    BY <1>7, <1>3, <2>1, <2>2, <2>3 DEF SubmitRefused, SubmitInvalid, SubmitAgain
<1>8. ASSUME NEW w \in Spawned, TakeUnit(w)
      PROVE  \E r \in Thread : pc'[r] = "notify"
  <2>1. Ready(t)
    BY <1>8, TakeUnitWakesNobody
  <2>2. pc[w] # "notify" /\ Goto(w, "running")
    BY <1>8 DEF TakeUnit, Checking
  <2> QED
    BY <1>3, <2>1, <2>2, SpawnedWorkers
<1>9. ASSUME NEW w \in Spawned, WorkerExit(w)
      PROVE  FALSE
  BY <1>9, <1>2, SpawnedWorkers DEF WorkerExit
<1>10. CASE WaitDrained \/ Join
  <2>1. UNCHANGED <<queue, totals, flags>>
    BY <1>10 DEF WaitDrained, Join
  <2>2. Ready(t)
    BY <2>1, ReadyFrame
  <2> QED
    BY <1>10, <1>3, <2>2, SpawnedWorkers DEF WaitDrained, Join
<1>11. CASE Close \/ RequestCancel
  BY <1>11, <1>1, SpawnedWorkers DEF Close, RequestCancel
<1>12. ASSUME NEW u \in Unit, SubmitAdmitted(u)
       PROVE  \E r \in Thread : pc'[r] = "notify"
  BY <1>12, <1>1, SpawnedWorkers DEF SubmitAdmitted
<1>13. ASSUME NEW w \in Spawned, Complete(w)
       PROVE  \E r \in Thread : pc'[r] = "notify"
  BY <1>13, <1>1, SpawnedWorkers DEF Complete
<1> QED
  BY <1>4, <1>5, <1>6, <1>7, <1>8, <1>9, <1>10, <1>11, <1>12, <1>13
     DEF Next, Step, Call

(***************************************************************************)
(* The theorems.                                                           *)
(***************************************************************************)

\* Every step preserves the invariant.
LEMMA InvStep == IInv /\ [Next]_vars => IInv'
<1> SUFFICES ASSUME IInv, [Next]_vars PROVE IInv'
  OBVIOUS
<1>1. StateTypes' /\ ActiveCount' /\ QueuesByModality'
  BY TypeStep, ActiveStep, QueuesStep DEF IInv
<1>2. CancelDrains' /\ RotationOrder' /\ NoBatchWaits' /\ NoLostWakeup'
  BY CancelStep, RotationStep, BatchStep, WakeupStep DEF IInv
<1> QED
  BY <1>1, <1>2 DEF IInv

\* The invariant holds in every reachable state.
LEMMA Invariance == Spec => []IInv
<1>1. Init => IInv
  BY InitInv
<1>2. IInv /\ [Next]_vars => IInv'
  BY InvStep
<1> QED
  BY <1>1, <1>2, PTL DEF Spec

\* submit(), worker_loop(), wait() and request_cancel(): with any number of
\* threads and units, a thread that sleeps in a wait whose predicate holds has
\* a notify_all() still to come, although the notification follows the unlock.
THEOREM NoSleeperIsForgotten == Spec => []NoLostWakeup
<1>1. IInv => NoLostWakeup
  BY DEF IInv
<1> QED
  BY <1>1, Invariance, PTL

\* submit() of a deterministic scheduler never blocks, for any batch.
THEOREM BatchNeverBlocks == Spec => []DeterministicNeverBlocks
<1>1. IInv => DeterministicNeverBlocks
  BY DEF IInv, NoBatchWaits, DeterministicNeverBlocks
<1> QED
  BY <1>1, Invariance, PTL

\* The modality served in a step.
LEMMA ServedIsSelected ==
    ASSUME IInv, [Next]_vars, NEW m, Served(m)
    PROVE  HasQueued /\ m = Selected /\ WorkerReady
<1>1. PICK w \in Spawned : /\ pc[w] # "running" /\ pc'[w] = "running"
                            /\ ModalityOf[running'[w]] = m
  BY DEF Served
<1>2. ~Moves
  BY <1>1 DEF Moves
<1>3. ASSUME NEW t \in Thread \ {w}, NEW label, Goto(t, label)
      PROVE  FALSE
  BY <1>1, <1>3, SpawnedWorkers DEF Goto
<1>4. ASSUME NEW u \in Unit, SubmitAdmitted(u) \/ SubmitAgain(u)
      PROVE  FALSE
  BY <1>3, <1>4, SpawnedWorkers, ThreadAssumption DEF SubmitAdmitted, SubmitAgain
<1>5. ~Close /\ ~RequestCancel
  BY <1>3, SpawnedWorkers, ThreadAssumption DEF Close, RequestCancel
<1>6. ASSUME NEW v \in Spawned, Complete(v)
      PROVE  FALSE
  BY <1>1, <1>6, SpawnedWorkers DEF Complete, Goto, IInv, StateTypes
<1>7. PICK v \in Spawned : TakeUnit(v)
  BY <1>2, <1>4, <1>5, <1>6, StepKinds DEF IInv
<1>8. v = w
  BY <1>3, <1>7, SpawnedWorkers DEF TakeUnit
<1>9. running'[w] = Head(queue[Selected]) /\ HasQueued /\ WorkerReady
  BY <1>7, <1>8 DEF TakeUnit, IInv, StateTypes
<1>10. ModalityOf[Head(queue[Selected])] = Selected
  BY <1>9, SelectedIsNearest, TakenUnit DEF IInv, QueuesByModality, StateTypes
<1> QED
  BY <1>1, <1>9, <1>10

\* A worker that takes a unit does not overtake a waiting queue again.
LEMMA ServedIsNotPassed ==
    ASSUME IInv, [Next]_vars, NEW p \in passed, queue[p[1]] # <<>>
    PROVE  ~Served(p[2])
<1> SUFFICES ASSUME Served(p[2]) PROVE FALSE
  OBVIOUS
<1>1. HasQueued /\ Selected = p[2]
  BY ServedIsSelected
<1>2. p[1] \in Modality /\ p[2] \in Modality /\ p[1] # p[2]
  BY DEF IInv, StateTypes, RotationOrder, Distance, Modality, ModalityCount
<1>3. Distance(p[1]) < Distance(p[2]) /\ Distance(p[2]) <= Distance(p[1])
  BY <1>1, <1>2, SelectedIsNearest DEF IInv, RotationOrder
<1> QED
  BY <1>2, <1>3, DistanceInjective DEF IInv, StateTypes

\* worker_loop() and its rotation: for all units, workers and streams, a queue
\* that waits is overtaken at most once by each other modality.
THEOREM RotationIsFair == Spec => RoundRobinFair
<1>1. IInv /\ [Next]_vars
      => [\A p \in passed : queue[p[1]] # <<>> => ~Served(p[2])]_vars
  BY ServedIsNotPassed
<1> QED
  BY <1>1, Invariance, PTL DEF Spec, RoundRobinFair

\* A producer comes to notify by being admitted and in no other way.
LEMMA OnlyAdmissionNotifies ==
    ASSUME StateTypes, [Next]_vars, NEW u \in Unit,
           pc[u] \notin {"notify", "accepted"}, pc'[u] = "notify"
    PROVE  SubmitAdmitted(u)
<1>1. u \in Thread /\ u \notin Spawned /\ u # Owner /\ u # Canceller
  BY SpawnedWorkers, ThreadAssumption
<1>2. ASSUME NEW t \in Thread, NEW label, Goto(t, label)
      PROVE  t = u /\ label = "notify"
  BY <1>1, <1>2 DEF Goto, StateTypes
<1>3. ASSUME NEW t \in Thread, NEW label, NotifyAll(t, label)
      PROVE  t = u /\ label = "notify"
  BY <1>1, <1>3 DEF NotifyAll, StateTypes
<1>4. ~UNCHANGED vars /\ ~Finished
  BY DEF vars, Finished
<1>5. ASSUME NEW t \in Thread, Notify(t) \/ Sleep(t)
      PROVE  FALSE
  BY <1>5, <1>2, <1>3, NotifyLabels DEF Notify, Sleep
<1>6. ASSUME NEW t \in Unit, SubmitRefused(t) \/ SubmitInvalid(t) \/ SubmitAgain(t)
      PROVE  FALSE
  BY <1>6, <1>2, SpawnedWorkers DEF SubmitRefused, SubmitInvalid, SubmitAgain
<1>7. ASSUME NEW w \in Spawned, TakeUnit(w) \/ WorkerExit(w) \/ Complete(w)
      PROVE  FALSE
  BY <1>1, <1>7, <1>2, <1>3, SpawnedWorkers DEF TakeUnit, WorkerExit, Complete
<1>8. ASSUME WaitDrained \/ Join \/ Close \/ RequestCancel
      PROVE  FALSE
  BY <1>1, <1>8, <1>2, SpawnedWorkers DEF WaitDrained, Join, Close, RequestCancel
<1>9. PICK t \in Unit : SubmitAdmitted(t)
  BY <1>4, <1>5, <1>6, <1>7, <1>8 DEF Next, Step, Call
<1> QED
  BY <1>9, <1>2, SpawnedWorkers DEF SubmitAdmitted

\* No step of a cancelled scheduler takes or admits a unit or ends one well.
LEMMA CancelledStep ==
    ASSUME IInv, [Next]_vars, cancelled
    PROVE  /\ \A w \in Spawned : running'[w] \in {running[w], NoUnit}
           /\ \A u \in Unit : ~Admitted(u) => pc'[u] # "notify"
           /\ \A u \in Unit : outcome'[u] # outcome[u] =>
                outcome'[u] \in {"cancelled", "none"}
<1>1. \A u \in Unit : ~Admitted(u) => pc'[u] # "notify"
  BY OnlyAdmissionNotifies DEF IInv, Admitted, SubmitAdmitted
<1>2. CASE UNCHANGED <<running, outcome>>
  BY <1>1, <1>2
<1>3. ASSUME NEW u \in Unit, SubmitAgain(u)
      PROVE  /\ running' = running
             /\ \A v \in Unit : outcome'[v] \in {outcome[v], "none"}
  BY <1>3 DEF SubmitAgain, IInv, StateTypes
<1>4. ASSUME NEW w \in Spawned
      PROVE  ~TakeUnit(w)
  BY DEF TakeUnit, IInv, CancelDrains
<1>5. ASSUME NEW w \in Spawned, Complete(w)
      PROVE  /\ \A v \in Spawned : running'[v] \in {running[v], NoUnit}
             /\ \A v \in Unit : outcome'[v] \in {outcome[v], "cancelled"}
  BY <1>5 DEF Complete, StateOf, IInv, StateTypes
<1>6. CASE RequestCancel
  <2>1. \A v \in Unit : outcome'[v] \in {outcome[v], "cancelled"}
    BY <1>6 DEF RequestCancel
  <2> QED
    BY <1>1, <1>6, <2>1 DEF RequestCancel
<1>7. StateTypes
  BY DEF IInv
<1> QED
  BY <1>1, <1>2, <1>3, <1>4, <1>5, <1>6, <1>7, StepKinds
     DEF Moves, guarded, SubmitAdmitted, Close

\* request_cancel() at any moment: from then on nothing is admitted or taken,
\* and what a worker still completes counts as cancelled.
THEOREM CancellationIsHonoured == Spec => CancelIsHonoured
<1>1. IInv /\ [Next]_vars
      => [cancelled =>
            /\ \A w \in Spawned : running'[w] \in {running[w], NoUnit}
            /\ \A u \in Unit : ~Admitted(u) => pc'[u] # "notify"
            /\ \A u \in Unit : outcome'[u] # outcome[u] =>
                 outcome'[u] \in {"cancelled", "none"}]_vars
  BY CancelledStep
<1> QED
  BY <1>1, Invariance, PTL DEF Spec, CancelIsHonoured

(***************************************************************************)
(* Facts about SumFunctionOnSet over finite sets of arguments, with which  *)
(* byte totals are stated.  The induction over finite sets is stated with  *)
(* a set of subsets in place of a predicate.                               *)
(***************************************************************************)

\* A set of naturals that is not empty has a least element.
LEMMA LeastNatural ==
    ASSUME NEW T \in SUBSET Nat, T # {}
    PROVE  \E n \in T : \A m \in T : n <= m
<1>1. PICK n \in T : \A m \in T : ~(<<m, n>> \in OpToRel(<, Nat))
  BY NatLessThanWellFounded, WFMin
<1>2. \A m \in T : ~(m < n)
  BY <1>1 DEF OpToRel
<1> QED
  BY <1>2

\* P holds all subsets of S when it holds a set whose one-smaller subsets it
\* holds.
LEMMA SubsetInduction ==
    ASSUME NEW S, IsFiniteSet(S), NEW P,
           \A s \in SUBSET S : (\A x \in s : s \ {x} \in P) => s \in P
    PROVE  \A s \in SUBSET S : s \in P
<1> DEFINE Bad == { s \in SUBSET S : s \notin P }
           Sizes == { Cardinality(s) : s \in Bad }
<1>1. \A s \in SUBSET S : IsFiniteSet(s) /\ Cardinality(s) \in Nat
  BY FS_Subset, FS_CardinalityType
<1> SUFFICES ASSUME Bad # {} PROVE FALSE
  OBVIOUS
<1>2. Sizes \in SUBSET Nat /\ Sizes # {}
  BY <1>1
<1>3. PICK n \in Sizes : \A m \in Sizes : n <= m
  BY <1>2, LeastNatural
<1>4. PICK s \in Bad : Cardinality(s) = n
  BY <1>3
<1>5. ASSUME NEW x \in s
      PROVE  s \ {x} \in P
  <2>1. Cardinality(s \ {x}) = n - 1 /\ n \in Nat
    BY <1>1, <1>4, FS_RemoveElement
  <2>2. s \ {x} \notin Bad
    BY <1>3, <2>1
  <2> QED
    BY <2>2
<1> QED
  BY <1>4, <1>5

\* g sums f over the subsets of S by removing the chosen element.
Chosen(s) == CHOOSE x \in s : TRUE

SumsOver(f, g, S) ==
    g = [s \in SUBSET S |-> IF s = {} THEN 0 ELSE f[Chosen(s)] + g[s \ {Chosen(s)}]]

\* The sum of the library is such a function.
LEMMA SumUnfolds ==
    ASSUME NEW f, NEW S
    PROVE  SumFunctionOnSet(f, S) = (CHOOSE g : SumsOver(f, g, S))[S]
BY DEF SumFunctionOnSet, FoldFunctionOnSet, MapThenFoldSet, SumsOver, Chosen

\* An element chosen from a set that is not empty.
LEMMA ChosenIn ==
    ASSUME NEW s, s # {}
    PROVE  Chosen(s) \in s
BY DEF Chosen

\* What such functions say of one argument.
LEMMA SumsAt ==
    ASSUME NEW f, NEW g, NEW S, SumsOver(f, g, S), NEW s \in SUBSET S
    PROVE  g[s] = IF s = {} THEN 0 ELSE f[Chosen(s)] + g[s \ {Chosen(s)}]
BY DEF SumsOver

\* Two of them agree where both are defined.
LEMMA SumsAgree ==
    ASSUME NEW f, NEW A, NEW B, NEW g, NEW h, IsFiniteSet(A),
           SumsOver(f, g, A), SumsOver(f, h, B)
    PROVE  \A s \in SUBSET A : s \in SUBSET B => g[s] = h[s]
<1> DEFINE P == { s \in SUBSET A : s \in SUBSET B => g[s] = h[s] }
<1>1. ASSUME NEW s \in SUBSET A, \A x \in s : s \ {x} \in P
      PROVE  s \in P
  <2> SUFFICES ASSUME s \in SUBSET B PROVE g[s] = h[s]
    OBVIOUS
  <2>1. CASE s = {}
    BY <2>1, SumsAt
  <2>2. CASE s # {}
    <3>1. s \ {Chosen(s)} \in P
      BY <1>1, <2>2, ChosenIn
    <3>2. g[s \ {Chosen(s)}] = h[s \ {Chosen(s)}]
      BY <3>1
    <3>3. g[s] = f[Chosen(s)] + g[s \ {Chosen(s)}]
      BY <2>2, SumsAt
    <3>4. h[s] = f[Chosen(s)] + h[s \ {Chosen(s)}]
      BY <2>2, SumsAt
    <3> QED
      BY <3>2, <3>3, <3>4
  <2> QED
    BY <2>1, <2>2
<1> HIDE DEF P
<1>2. \A s \in SUBSET A : s \in P
  BY <1>1, SubsetInduction
<1> QED
  BY <1>2 DEF P

\* There is one for every finite set.
LEMMA SumsExist ==
    ASSUME NEW f, NEW S, IsFiniteSet(S)
    PROVE  \E g : SumsOver(f, g, S)
<1> DEFINE P == { s \in SUBSET S : \E g : SumsOver(f, g, s) }
<1>1. ASSUME NEW s \in SUBSET S, \A x \in s : s \ {x} \in P
      PROVE  s \in P
  <2> DEFINE G(x) == CHOOSE g : SumsOver(f, g, s \ {x})
             new == [t \in SUBSET s |->
                       IF t = {} THEN 0
                       ELSE f[Chosen(t)] + G(Chosen(t))[t \ {Chosen(t)}]]
  <2>1. \A x \in s : SumsOver(f, G(x), s \ {x})
    BY <1>1
  <2>2. \A x \in s : IsFiniteSet(s \ {x})
    BY FS_Subset
  <2> HIDE DEF G
  <2>3. ASSUME NEW t \in SUBSET s, t # {}
        PROVE  G(Chosen(t))[t \ {Chosen(t)}] = new[t \ {Chosen(t)}]
    <3> DEFINE c == Chosen(t)
               u == t \ {c}
               d == Chosen(u)
    <3>1. c \in s /\ u \in SUBSET (s \ {c}) /\ u \in SUBSET s
      BY <2>3, ChosenIn
    <3>2. new[u] = IF u = {} THEN 0 ELSE f[d] + G(d)[u \ {d}]
      BY <3>1
    <3>3. d = Chosen(u) /\ (u # {} => d \in u)
      BY ChosenIn
    <3> HIDE DEF c, u, d
    <3>4. SumsOver(f, G(c), s \ {c})
      BY <2>1, <3>1
    <3>5. G(c)[u] = IF u = {} THEN 0 ELSE f[d] + G(c)[u \ {d}]
      <4>1. u \in SUBSET (s \ {c})
        BY <3>1
      <4>2. G(c)[u] = IF u = {} THEN 0 ELSE f[Chosen(u)] + G(c)[u \ {Chosen(u)}]
        BY <3>4, <4>1, SumsAt
      <4> QED
        BY <3>3, <4>2
    <3>6. ASSUME u # {}
          PROVE  G(c)[u \ {d}] = G(d)[u \ {d}]
      <4>1. d \in s /\ u \ {d} \in SUBSET (s \ {c}) /\ u \ {d} \in SUBSET (s \ {d})
        BY <3>1, <3>3, <3>6
      <4>2. SumsOver(f, G(d), s \ {d}) /\ IsFiniteSet(s \ {c})
        BY <2>1, <2>2, <3>1, <4>1
      <4> QED
        BY <3>4, <4>1, <4>2, SumsAgree
    <3>7. G(c)[u] = new[u]
      BY <3>2, <3>5, <3>6
    <3> QED
      BY <3>7 DEF c, u
  <2>4. SumsOver(f, new, s)
    BY <2>3 DEF SumsOver
  <2> QED
    BY <2>4
<1> HIDE DEF P
<1>2. S \in P
  BY <1>1, SubsetInduction
<1> QED
  BY <1>2 DEF P

\* The sum of nothing, and the sum by the chosen element.
LEMMA SumByChoice ==
    ASSUME NEW f, NEW S, IsFiniteSet(S)
    PROVE  SumFunctionOnSet(f, S) =
             IF S = {} THEN 0
             ELSE f[Chosen(S)] + SumFunctionOnSet(f, S \ {Chosen(S)})
<1> DEFINE c == Chosen(S)
           g == CHOOSE g : SumsOver(f, g, S)
           h == CHOOSE h : SumsOver(f, h, S \ {c})
<1>1. IsFiniteSet(S \ {c})
  BY FS_Subset
<1>2. SumsOver(f, g, S) /\ SumsOver(f, h, S \ {c})
  BY <1>1, SumsExist
<1>3. SumFunctionOnSet(f, S) = g[S] /\ SumFunctionOnSet(f, S \ {c}) = h[S \ {c}]
  BY SumUnfolds
<1> HIDE DEF g, h
<1>4. g[S] = IF S = {} THEN 0 ELSE f[c] + g[S \ {c}]
  BY <1>2, SumsAt
<1>5. g[S \ {c}] = h[S \ {c}]
  BY <1>1, <1>2, SumsAgree
<1> QED
  BY <1>3, <1>4, <1>5

\* The sum over nothing.
LEMMA SumEmpty ==
    ASSUME NEW f
    PROVE  SumFunctionOnSet(f, {}) = 0
BY SumByChoice, FS_EmptySet

\* A sum of naturals is a natural.
LEMMA SumType ==
    ASSUME NEW D, NEW f \in [D -> Nat], NEW S \in SUBSET D, IsFiniteSet(S)
    PROVE  SumFunctionOnSet(f, S) \in Nat
<1> DEFINE P == { s \in SUBSET S : SumFunctionOnSet(f, s) \in Nat }
<1>1. ASSUME NEW s \in SUBSET S, \A x \in s : s \ {x} \in P
      PROVE  s \in P
  <2>1. IsFiniteSet(s)
    BY FS_Subset
  <2>2. CASE s = {}
    <3>1. SumFunctionOnSet(f, s) = 0
      BY <2>2, SumEmpty
    <3> QED
      BY <3>1
  <2>3. CASE s # {}
    <3>1. Chosen(s) \in s /\ f[Chosen(s)] \in Nat
      BY <2>3, ChosenIn
    <3>2. SumFunctionOnSet(f, s \ {Chosen(s)}) \in Nat
      BY <1>1, <3>1
    <3>3. SumFunctionOnSet(f, s) = f[Chosen(s)] + SumFunctionOnSet(f, s \ {Chosen(s)})
      BY <2>1, <2>3, SumByChoice
    <3> QED
      BY <3>1, <3>2, <3>3
  <2> QED
    BY <2>2, <2>3
<1> HIDE DEF P
<1>2. S \in P
  BY <1>1, SubsetInduction
<1> QED
  BY <1>2 DEF P

\* Any element may be taken out first.
LEMMA SumRemove ==
    ASSUME NEW D, NEW f \in [D -> Nat], NEW S \in SUBSET D, IsFiniteSet(S), NEW x \in S
    PROVE  SumFunctionOnSet(f, S) = f[x] + SumFunctionOnSet(f, S \ {x})
<1> DEFINE Sum(s) == SumFunctionOnSet(f, s)
           P == { s \in SUBSET S : \A y \in s : Sum(s) = f[y] + Sum(s \ {y}) }
<1>1. ASSUME NEW s \in SUBSET S
      PROVE  IsFiniteSet(s) /\ Sum(s) \in Nat
  BY FS_Subset, SumType
<1>2. ASSUME NEW s \in SUBSET S, \A y \in s : s \ {y} \in P
      PROVE  s \in P
  <2> SUFFICES ASSUME NEW y \in s PROVE Sum(s) = f[y] + Sum(s \ {y})
    OBVIOUS
  <2> DEFINE c == Chosen(s)
  <2>1. c \in s
    BY ChosenIn
  <2>2. Sum(s) = f[c] + Sum(s \ {c})
    BY <1>1, SumByChoice
  <2> HIDE DEF c
  <2>3. CASE y = c
    BY <2>2, <2>3
  <2>4. CASE y # c
    <3>1. Sum(s \ {c}) = f[y] + Sum((s \ {c}) \ {y})
      BY <1>2, <2>1, <2>4
    <3>2. Sum(s \ {y}) = f[c] + Sum((s \ {y}) \ {c})
      BY <1>2, <2>1, <2>4
    <3>3. (s \ {c}) \ {y} = (s \ {y}) \ {c}
      OBVIOUS
    <3>4. f[c] \in Nat /\ f[y] \in Nat /\ Sum((s \ {y}) \ {c}) \in Nat
      BY <1>1, <2>1
    <3>5. Sum(s \ {c}) = f[y] + Sum((s \ {y}) \ {c})
      BY <3>1, <3>3, Zenon
    <3> HIDE DEF Sum
    <3> QED
      BY <2>2, <3>2, <3>4, <3>5
  <2> QED
    BY <2>3, <2>4
<1> HIDE DEF P
<1>3. S \in P
  BY <1>2, SubsetInduction
<1> QED
  BY <1>3 DEF P

\* Putting a new element in.
LEMMA SumAdd ==
    ASSUME NEW D, NEW f \in [D -> Nat], NEW S \in SUBSET D, IsFiniteSet(S),
           NEW x \in D, x \notin S
    PROVE  SumFunctionOnSet(f, S \cup {x}) = SumFunctionOnSet(f, S) + f[x]
<1>1. IsFiniteSet(S \cup {x}) /\ S \cup {x} \in SUBSET D
  BY FS_AddElement
<1>2. SumFunctionOnSet(f, S \cup {x})
      = f[x] + SumFunctionOnSet(f, (S \cup {x}) \ {x})
  BY <1>1, SumRemove
<1>3. (S \cup {x}) \ {x} = S
  OBVIOUS
<1>4. f[x] \in Nat /\ SumFunctionOnSet(f, S) \in Nat
  BY SumType
<1>5. SumFunctionOnSet(f, S \cup {x}) = f[x] + SumFunctionOnSet(f, S)
  BY <1>2, <1>3, Zenon
<1> QED
  BY <1>4, <1>5

\* Two sets without a common element are summed separately.
LEMMA SumUnion ==
    ASSUME NEW D, NEW f \in [D -> Nat], NEW A \in SUBSET D, NEW B \in SUBSET D,
           IsFiniteSet(A), IsFiniteSet(B), A \cap B = {}
    PROVE  SumFunctionOnSet(f, A \cup B)
           = SumFunctionOnSet(f, A) + SumFunctionOnSet(f, B)
<1> DEFINE Sum(s) == SumFunctionOnSet(f, s)
           P == { s \in SUBSET A : Sum(s \cup B) = Sum(s) + Sum(B) }
<1>1. Sum(B) \in Nat
  BY SumType
<1>2. ASSUME NEW s \in SUBSET A, \A y \in s : s \ {y} \in P
      PROVE  s \in P
  <2>1. CASE s = {}
    <3>1. Sum(s) = 0 /\ s \cup B = B
      BY <2>1, SumEmpty
    <3> HIDE DEF Sum
    <3> QED
      BY <1>1, <3>1
  <2>2. CASE s # {}
    <3>1. PICK y \in s : TRUE
      BY <2>2
    <3>2. Sum((s \ {y}) \cup B) = Sum(s \ {y}) + Sum(B)
      BY <1>2
    <3>3. IsFiniteSet(s) /\ IsFiniteSet(s \ {y})
      BY FS_Subset
    <3>4. IsFiniteSet((s \ {y}) \cup B) /\ y \notin (s \ {y}) \cup B
      BY <3>3, FS_Union
    <3>5. Sum(((s \ {y}) \cup B) \cup {y}) = Sum((s \ {y}) \cup B) + f[y]
      BY <3>4, SumAdd
    <3>6. Sum(s) = f[y] + Sum(s \ {y})
      BY <3>3, SumRemove
    <3>7. ((s \ {y}) \cup B) \cup {y} = s \cup B
      OBVIOUS
    <3>8. f[y] \in Nat /\ Sum(s \ {y}) \in Nat
      BY <3>3, SumType
    <3> HIDE DEF Sum
    <3> QED
      BY <1>1, <3>2, <3>5, <3>6, <3>7, <3>8
  <2> QED
    BY <2>1, <2>2
<1> HIDE DEF P
<1>3. A \in P
  BY <1>2, SubsetInduction
<1> QED
  BY <1>3 DEF P

(***************************************************************************)
(* The inductive invariant.                                                *)
(***************************************************************************)

\* Only units of a valid size and modality get past the first check.
WellFormed == \A u \in Unit : Waits(u) \/ Admitted(u) => ~Malformed(u)

Held == QueuedUnits \cup ActiveUnits

\* Where the units are: in one position of one queue, or with one worker, or
\* ended; and nowhere unless they were admitted.
Placement ==
    /\ \A m \in Modality : \A i, j \in 1..Len(queue[m]) :
         queue[m][i] = queue[m][j] => i = j
    /\ \A v, w \in Spawned : running[v] = running[w] /\ running[v] # NoUnit => v = w
    /\ QueuedUnits \cap ActiveUnits = {}
    /\ \A u \in Unit : Admitted(u) /\ outcome[u] = "none" <=> u \in Held
    /\ \A u \in Unit : outcome[u] # "none" => Admitted(u)

\* What the totals count.
Totals ==
    /\ queueDepth = Cardinality(QueuedUnits)
    /\ queuedBytes = SumOfBytes(QueuedUnits)
    /\ activeUnits = Cardinality(ActiveUnits)
    /\ activeBytes = SumOfBytes(ActiveUnits)
    /\ resident = queuedBytes + activeBytes
    /\ resident <= Budget

BInv == IInv /\ WellFormed /\ Placement /\ Totals

(***************************************************************************)
(* Sets of units and what the steps do to them.                            *)
(***************************************************************************)

\* A queue with one more unit.
LEMMA AppendAt ==
    ASSUME NEW q \in Seq(Unit), NEW u \in Unit
    PROVE  /\ Len(q) \in Nat /\ Len(Append(q, u)) = Len(q) + 1
           /\ \A i \in 1..Len(q) : Append(q, u)[i] = q[i]
           /\ Append(q, u)[Len(q) + 1] = u
OBVIOUS

\* A queue without its head.
LEMMA TailAt ==
    ASSUME NEW q \in Seq(Unit), q # <<>>
    PROVE  /\ Len(q) \in Nat /\ Len(q) >= 1 /\ Len(Tail(q)) = Len(q) - 1
           /\ \A i \in 1..(Len(q) - 1) : Tail(q)[i] = q[i + 1]
OBVIOUS

\* A unit is queued when it is somewhere in some queue.
LEMMA QueuedIn ==
    ASSUME NEW q \in [Modality -> Seq(Unit)], NEW u
    PROVE  LET units == UNION { Range(q[m]) : m \in Modality }
           IN  /\ u \in units <=>
                    \E m \in Modality : \E i \in 1..Len(q[m]) : q[m][i] = u
               /\ u \in units => u \in Unit
<1>1. ASSUME NEW m \in Modality
      PROVE  Range(q[m]) = { q[m][i] : i \in 1..Len(q[m]) } /\ Range(q[m]) \subseteq Unit
  <2>1. q[m] \in Seq(Unit)
    OBVIOUS
  <2>2. DOMAIN q[m] = 1..Len(q[m]) /\ \A i \in 1..Len(q[m]) : q[m][i] \in Unit
    BY <2>1
  <2> QED
    BY <2>2 DEF Range
<1> QED
  BY <1>1

\* So it is now and after a step.
LEMMA QueuedIff ==
    ASSUME StateTypes, StateTypes', NEW u
    PROVE  /\ u \in QueuedUnits <=>
                \E m \in Modality : \E i \in 1..Len(queue[m]) : queue[m][i] = u
           /\ u \in QueuedUnits' <=>
                \E m \in Modality : \E i \in 1..Len(queue'[m]) : queue'[m][i] = u
           /\ u \in QueuedUnits => u \in Unit
<1>1. queue \in [Modality -> Seq(Unit)] /\ queue' \in [Modality -> Seq(Unit)]
  BY DEF StateTypes
<1> QED
  BY <1>1, QueuedIn DEF QueuedUnits

\* A unit is active when some worker executes it.
LEMMA ActiveIff ==
    ASSUME StateTypes, StateTypes', NEW u
    PROVE  /\ u \in ActiveUnits <=> u # NoUnit /\ \E w \in Spawned : running[w] = u
           /\ u \in ActiveUnits' <=> u # NoUnit /\ \E w \in Spawned : running'[w] = u
           /\ u \in ActiveUnits => u \in Unit
BY DEF ActiveUnits, Range, StateTypes

\* Only units are queued and executed.
LEMMA HeldUnits ==
    ASSUME StateTypes
    PROVE  QueuedUnits \in SUBSET Unit /\ ActiveUnits \in SUBSET Unit
<1>1. QueuedUnits \in SUBSET Unit
  BY QueuedIn DEF StateTypes, QueuedUnits
<1> QED
  BY <1>1 DEF ActiveUnits, Range, StateTypes

\* All sets of units are finite, and their bytes a natural number.
LEMMA UnitSets ==
    ASSUME NEW S \in SUBSET Unit
    PROVE  /\ IsFiniteSet(S) /\ Cardinality(S) \in Nat
           /\ SumOfBytes(S) \in Nat
BY UnitAssumption, FS_Subset, FS_CardinalityType, SumType DEF SumOfBytes

\* One more unit in a set of units.
LEMMA OneMore ==
    ASSUME NEW S \in SUBSET Unit, NEW u \in Unit, u \notin S
    PROVE  /\ Cardinality(S \cup {u}) = Cardinality(S) + 1
           /\ SumOfBytes(S \cup {u}) = SumOfBytes(S) + Bytes[u]
BY UnitAssumption, UnitSets, FS_AddElement, SumAdd DEF SumOfBytes

\* One unit fewer.
LEMMA OneFewer ==
    ASSUME NEW S \in SUBSET Unit, NEW u \in S
    PROVE  /\ Cardinality(S \ {u}) = Cardinality(S) - 1
           /\ SumOfBytes(S \ {u}) = SumOfBytes(S) - Bytes[u]
<1>1. IsFiniteSet(S)
  BY UnitSets
<1>2. Cardinality(S \ {u}) = Cardinality(S) - 1
  BY <1>1, FS_RemoveElement
<1>3. SumOfBytes(S) = Bytes[u] + SumOfBytes(S \ {u})
  BY <1>1, UnitAssumption, SumRemove DEF SumOfBytes
<1>4. Bytes[u] \in Nat /\ SumOfBytes(S \ {u}) \in Nat
  BY UnitAssumption, UnitSets
<1> QED
  BY <1>2, <1>3, <1>4

\* submit() adds its unit to the queued ones.
LEMMA AdmitEffect ==
    ASSUME StateTypes, StateTypes', WellFormed, NEW u \in Unit, SubmitAdmitted(u)
    PROVE  /\ QueuedUnits' = QueuedUnits \cup {u}
           /\ ActiveUnits' = ActiveUnits
           /\ ~Malformed(u)
<1>1. ~Malformed(u)
  BY DEF SubmitAdmitted, Checking, WellFormed, Waits, SpawnedWorkers
<1>2. ModalityOf[u] \in Modality
  BY <1>1 DEF Malformed
<1>4. \A m \in Modality : queue[m] \in Seq(Unit)
  BY DEF StateTypes
<1>5. \A m \in Modality :
        queue'[m] = IF m = ModalityOf[u] THEN Append(queue[m], u) ELSE queue[m]
  BY DEF SubmitAdmitted, StateTypes
<1>6. ASSUME NEW v \in QueuedUnits
      PROVE  v \in QueuedUnits'
  <2>1. PICK m \in Modality : \E i \in 1..Len(queue[m]) : queue[m][i] = v
    BY QueuedIff
  <2>2. PICK i \in 1..Len(queue[m]) : queue[m][i] = v
    BY <2>1
  <2>3. queue[m] \in Seq(Unit)
    BY <1>4
  <2>4. CASE queue'[m] = queue[m]
    BY <2>2, <2>4, QueuedIff
  <2>5. CASE queue'[m] = Append(queue[m], u)
    <3>1. i \in 1..Len(queue'[m]) /\ queue'[m][i] = v
      BY <2>2, <2>3, <2>5, AppendAt
    <3> QED
      BY <3>1, QueuedIff
  <2> QED
    BY <1>5, <2>4, <2>5
<1>7. u \in QueuedUnits'
  <2> DEFINE m == ModalityOf[u]
  <2>1. queue[m] \in Seq(Unit) /\ queue'[m] = Append(queue[m], u)
    BY <1>2, <1>4, <1>5
  <2>2. Len(queue[m]) + 1 \in 1..Len(queue'[m]) /\ queue'[m][Len(queue[m]) + 1] = u
    BY <2>1, AppendAt
  <2> QED
    BY <1>2, <2>2, QueuedIff
<1>8. ASSUME NEW v \in QueuedUnits'
      PROVE  v \in QueuedUnits \cup {u}
  <2>1. PICK m \in Modality : \E i \in 1..Len(queue'[m]) : queue'[m][i] = v
    BY QueuedIff
  <2>2. PICK i \in 1..Len(queue'[m]) : queue'[m][i] = v
    BY <2>1
  <2>3. queue[m] \in Seq(Unit)
    BY <1>4
  <2>4. CASE queue'[m] = queue[m]
    BY <2>2, <2>4, QueuedIff
  <2>5. CASE queue'[m] = Append(queue[m], u)
    <3>1. v = u \/ (i \in 1..Len(queue[m]) /\ queue[m][i] = v)
      BY <2>2, <2>3, <2>5, AppendAt
    <3> QED
      BY <3>1, QueuedIff
  <2> QED
    BY <1>5, <2>4, <2>5
<1>9. ActiveUnits' = ActiveUnits
  BY DEF SubmitAdmitted, ActiveUnits
<1> QED
  BY <1>1, <1>6, <1>7, <1>8, <1>9

\* worker_loop() moves the head of a queue to a worker.
LEMMA TakeEffect ==
    ASSUME StateTypes, StateTypes', ActiveCount, Placement, QueuesByModality,
           NEW w \in Spawned, TakeUnit(w), NEW u, u = Head(queue[Selected])
    PROVE  /\ u \in QueuedUnits /\ running[w] = NoUnit
           /\ QueuedUnits' = QueuedUnits \ {u}
           /\ ActiveUnits' = ActiveUnits \cup {u}
           /\ running' = [running EXCEPT ![w] = u]
<1>1. HasQueued /\ running' = [running EXCEPT ![w] = u]
  BY DEF TakeUnit
<1>2. /\ Selected \in Modality /\ u \in Unit
      /\ 1 \in 1..Len(queue[Selected]) /\ queue[Selected][1] = u
  BY <1>1, SelectedIsNearest, TakenUnit DEF StateTypes
<1>3. u \in QueuedUnits
  BY <1>2, QueuedIff
<1>4. pc[w] = "check" /\ running[w] = NoUnit
  BY SpawnedWorkers, ThreadAssumption DEF TakeUnit, Checking, ActiveCount
<1>6. ActiveUnits' = ActiveUnits \cup {u}
  <2>1. u # NoUnit
    BY <1>2, ThreadAssumption
  <2>2. \A v \in Spawned : running'[v] = IF v = w THEN u ELSE running[v]
    BY <1>1 DEF StateTypes
  <2>3. \A x : x \in ActiveUnits' <=> x \in ActiveUnits \/ x = u
    BY <1>4, <2>1, <2>2, ActiveIff
  <2> QED
    BY <2>3
<1>7. \A m \in Modality : queue[m] \in Seq(Unit)
  BY DEF StateTypes
<1>8. \A m \in Modality :
        queue'[m] = IF m = Selected THEN Tail(queue[m]) ELSE queue[m]
  BY <1>2 DEF TakeUnit, StateTypes
<1>9. ASSUME NEW v \in QueuedUnits'
      PROVE  v \in QueuedUnits /\ v # u
  <2>1. PICK m \in Modality : \E i \in 1..Len(queue'[m]) : queue'[m][i] = v
    BY QueuedIff
  <2>2. PICK i \in 1..Len(queue'[m]) : queue'[m][i] = v
    BY <2>1
  <2>3. CASE m = Selected
    <3>1. queue[m] \in Seq(Unit) /\ queue[m] # <<>> /\ queue'[m] = Tail(queue[m])
      BY <1>1, <1>7, <1>8, <2>3, SelectedIsNearest
    <3>2. i + 1 \in 1..Len(queue[m]) /\ queue[m][i + 1] = v /\ i + 1 # 1
      BY <2>2, <3>1, TailAt
    <3>3. v # u
      BY <1>2, <2>3, <3>2 DEF Placement
    <3> QED
      BY <3>2, <3>3, QueuedIff
  <2>4. CASE m # Selected
    <3>1. i \in 1..Len(queue[m]) /\ queue[m][i] = v
      BY <1>8, <2>2, <2>4
    <3>2. ModalityOf[v] = m /\ ModalityOf[u] = Selected
      BY <1>2, <3>1 DEF QueuesByModality
    <3> QED
      BY <2>4, <3>1, <3>2, QueuedIff
  <2> QED
    BY <2>3, <2>4
<1>10. ASSUME NEW v \in QueuedUnits, v # u
       PROVE  v \in QueuedUnits'
  <2>1. PICK m \in Modality : \E i \in 1..Len(queue[m]) : queue[m][i] = v
    BY <1>3, QueuedIff
  <2>2. PICK i \in 1..Len(queue[m]) : queue[m][i] = v
    BY <2>1
  <2>3. CASE m = Selected
    <3>1. i # 1
      BY <1>2, <1>10, <2>2, <2>3
    <3>2. queue[m] \in Seq(Unit) /\ queue[m] # <<>> /\ queue'[m] = Tail(queue[m])
      BY <1>1, <1>7, <1>8, <2>3, SelectedIsNearest
    <3>3. i - 1 \in 1..Len(queue'[m]) /\ queue'[m][i - 1] = v
      BY <2>2, <3>1, <3>2, TailAt
    <3> QED
      BY <3>3, QueuedIff
  <2>4. CASE m # Selected
    BY <1>8, <2>2, <2>4, QueuedIff
  <2> QED
    BY <2>3, <2>4
<1> QED
  BY <1>1, <1>3, <1>4, <1>6, <1>9, <1>10

\* complete_locked() takes the unit from its worker.
LEMMA CompleteEffect ==
    ASSUME StateTypes, StateTypes', ActiveCount, Placement, NEW w \in Spawned, Complete(w),
           NEW u, u = running[w]
    PROVE  /\ u \in ActiveUnits /\ u \in Unit
           /\ ActiveUnits' = ActiveUnits \ {u}
           /\ QueuedUnits' = QueuedUnits
           /\ running' = [running EXCEPT ![w] = NoUnit]
<1>1. running' = [running EXCEPT ![w] = NoUnit] /\ u # NoUnit
  BY DEF Complete, ActiveCount
<1>2. u \in ActiveUnits /\ u \in Unit
  BY <1>1, ActiveIff
<1>4. \A v \in Spawned : running'[v] = IF v = w THEN NoUnit ELSE running[v]
  BY <1>1 DEF StateTypes
<1>5. \A x : x \in ActiveUnits' <=> x \in ActiveUnits /\ x # u
  BY <1>1, <1>4, ActiveIff DEF Placement
<1>6. QueuedUnits' = QueuedUnits
  BY DEF Complete, QueuedUnits
<1> QED
  BY <1>1, <1>2, <1>5, <1>6

(***************************************************************************)
(* The steps keep the invariant.                                           *)
(***************************************************************************)

\* A thread that is no producer leaves the producers' control state alone.
LEMMA ProducersStay ==
    ASSUME StateTypes, NEW t \in Thread \ Unit, NEW label, Goto(t, label)
    PROVE  \A u \in Unit : pc'[u] = pc[u]
BY SpawnedWorkers DEF Goto, StateTypes

\* Threads that are no producers.
LEMMA NoProducers ==
    /\ Spawned \subseteq Thread \ Unit
    /\ Owner \in Thread \ Unit /\ Canceller \in Thread \ Unit
BY SpawnedWorkers, ThreadAssumption

\* What submit() does to the control state of producers.
LEMMA AdmitControl ==
    ASSUME StateTypes, NEW u \in Unit, SubmitAdmitted(u)
    PROVE  /\ ~Admitted(u) /\ Admitted(u)'
           /\ \A v \in Unit \ {u} : pc'[v] = pc[v]
<1>1. pc[u] \in {"check", "idle"}
  BY DEF SubmitAdmitted, Checking
<1>2. pc' = [pc EXCEPT ![u] = "notify"]
  BY DEF SubmitAdmitted, Goto
<1> QED
  BY <1>1, <1>2, SpawnedWorkers DEF Admitted, StateTypes

\* Malformed units are refused at once.
LEMMA WellFormedStep ==
    ASSUME StateTypes, StateTypes', WellFormed, [Next]_vars
    PROVE  WellFormed'
<1> USE DEF Waits, Admitted
<1>1. CASE Moves
  <2>1. ASSUME NEW u \in Unit, Waits(u)' \/ Admitted(u)'
        PROVE  ~Malformed(u)
    BY <1>1, <2>1 DEF Moves, WellFormed
  <2> QED
    BY <2>1 DEF WellFormed, Malformed
<1>2. ASSUME \A u \in Unit : pc'[u] = pc[u]
      PROVE  WellFormed'
  BY <1>2 DEF WellFormed, Malformed
<1>3. ASSUME NEW u \in Unit, SubmitAdmitted(u)
      PROVE  WellFormed'
  BY <1>3, AdmitEffect, AdmitControl DEF WellFormed, Malformed
<1>4. ASSUME NEW u \in Unit, SubmitAgain(u)
      PROVE  WellFormed'
  <2>1. pc' = [pc EXCEPT ![u] = "idle"]
    BY <1>4 DEF SubmitAgain, Goto
  <2> QED
    BY <2>1, SpawnedWorkers DEF WellFormed, Malformed, StateTypes
<1>5. ASSUME NEW w \in Spawned, TakeUnit(w) \/ Complete(w)
      PROVE  WellFormed'
  BY <1>2, <1>5, ProducersStay, NoProducers DEF TakeUnit, Complete
<1>6. CASE Close \/ RequestCancel
  BY <1>2, <1>6, ProducersStay, NoProducers DEF Close, RequestCancel
<1> QED
  BY <1>1, <1>3, <1>4, <1>5, <1>6, StepKinds

\* The queues stay free of repetition.
LEMMA DistinctStep ==
    ASSUME StateTypes, StateTypes', Placement, WellFormed, ActiveCount,
           QueuesByModality, [Next]_vars
    PROVE  \A m \in Modality : \A i, j \in 1..Len(queue'[m]) :
             queue'[m][i] = queue'[m][j] => i = j
<1> DEFINE Distinct(q) == \A i, j \in 1..Len(q) : q[i] = q[j] => i = j
<1> SUFFICES ASSUME NEW m \in Modality PROVE Distinct(queue'[m])
  OBVIOUS
<1>1. queue[m] \in Seq(Unit) /\ Distinct(queue[m])
  BY DEF StateTypes, Placement
<1>2. CASE queue'[m] = queue[m]
  BY <1>1, <1>2
<1>3. ASSUME NEW u \in Unit, SubmitAdmitted(u)
      PROVE  Distinct(queue'[m])
  <2>1. queue'[m] \in {queue[m], Append(queue[m], u)}
    BY <1>3 DEF SubmitAdmitted, StateTypes
  <2>2. u \notin QueuedUnits
    BY <1>3, AdmitControl DEF Placement, Held
  <2>3. \A i \in 1..Len(queue[m]) : queue[m][i] # u
    BY <2>2, QueuedIff
  <2>4. Distinct(Append(queue[m], u))
    BY <1>1, <2>3, AppendAt
  <2> QED
    BY <1>1, <2>1, <2>4
<1>4. ASSUME NEW w \in Spawned, TakeUnit(w)
      PROVE  Distinct(queue'[m])
  <2>1. queue'[m] = queue[m] \/ (queue[m] # <<>> /\ queue'[m] = Tail(queue[m]))
    BY <1>4, SelectedIsNearest DEF TakeUnit, StateTypes
  <2>2. CASE queue[m] # <<>> /\ queue'[m] = Tail(queue[m])
    <3> DEFINE q == queue[m]
    <3>1. /\ Len(q) \in Nat /\ Len(queue'[m]) = Len(q) - 1
          /\ \A i \in 1..(Len(q) - 1) : queue'[m][i] = q[i + 1]
      BY <1>1, <2>2, TailAt
    <3> HIDE DEF q
    <3>2. Distinct(q)
      BY <1>1 DEF q
    <3>3. ASSUME NEW i \in 1..Len(queue'[m]), NEW j \in 1..Len(queue'[m]),
                 queue'[m][i] = queue'[m][j]
          PROVE  i = j
      <4>1. i + 1 \in 1..Len(q) /\ j + 1 \in 1..Len(q) /\ q[i + 1] = q[j + 1]
        BY <3>1, <3>3
      <4>2. i + 1 = j + 1
        BY <3>2, <4>1
      <4> QED
        BY <4>2, <3>1
    <3> QED
      BY <3>3
  <2> QED
    BY <1>1, <2>1, <2>2
<1>5. CASE RequestCancel
  BY <1>5 DEF RequestCancel
<1> QED
  BY <1>2, <1>3, <1>4, <1>5, StepKinds DEF Moves, guarded, SubmitAgain, Complete, Close

\* A unit is admitted to one place, moves from place to place and ends.
LEMMA PlacementStep ==
    ASSUME StateTypes, StateTypes', Placement, WellFormed, ActiveCount,
           QueuesByModality, [Next]_vars
    PROVE  Placement'
<1> DEFINE Injective == \A v, w \in Spawned :
                          running[v] = running[w] /\ running[v] # NoUnit => v = w
           Accounted(u) == /\ Admitted(u) /\ outcome[u] = "none" <=> u \in Held
                           /\ outcome[u] # "none" => Admitted(u)
<1> SUFFICES /\ Injective' /\ (QueuedUnits \cap ActiveUnits = {})'
             /\ \A u \in Unit : Accounted(u)'
  BY DistinctStep DEF Placement
<1>1. /\ Injective /\ QueuedUnits \cap ActiveUnits = {}
      /\ \A u \in Unit : Accounted(u)
  BY DEF Placement
<1>2. ASSUME UNCHANGED <<queue, running, outcome>>,
             \A u \in Unit : Admitted(u)' <=> Admitted(u)
      PROVE  /\ Injective' /\ (QueuedUnits \cap ActiveUnits = {})'
             /\ \A u \in Unit : Accounted(u)'
  <2>1. QueuedUnits' = QueuedUnits /\ ActiveUnits' = ActiveUnits
    BY <1>2 DEF QueuedUnits, ActiveUnits
  <2> QED
    BY <1>1, <1>2, <2>1 DEF Held
<1>3. CASE Moves
  BY <1>2, <1>3 DEF Moves, guarded
<1>4. ASSUME NEW u \in Unit, SubmitAdmitted(u)
      PROVE  /\ Injective' /\ (QueuedUnits \cap ActiveUnits = {})'
             /\ \A v \in Unit : Accounted(v)'
  <2>1. ~Admitted(u) /\ Admitted(u)' /\ \A v \in Unit \ {u} : Admitted(v)' <=> Admitted(v)
    BY <1>4, AdmitControl DEF Admitted
  <2>2. QueuedUnits' = QueuedUnits \cup {u} /\ ActiveUnits' = ActiveUnits
    BY <1>4, AdmitEffect
  <2>3. running' = running /\ outcome' = outcome
    BY <1>4 DEF SubmitAdmitted
  <2> QED
    BY <1>1, <2>1, <2>2, <2>3 DEF Held
<1>5. ASSUME NEW u \in Unit, SubmitAgain(u)
      PROVE  /\ Injective' /\ (QueuedUnits \cap ActiveUnits = {})'
             /\ \A v \in Unit : Accounted(v)'
  <2>1. pc' = [pc EXCEPT ![u] = "idle"] /\ outcome' = [outcome EXCEPT ![u] = "none"]
    BY <1>5 DEF SubmitAgain, Goto
  <2>2. ~Admitted(u)' /\ \A v \in Unit \ {u} : Admitted(v)' <=> Admitted(v)
    BY <2>1, SpawnedWorkers DEF Admitted, StateTypes
  <2>3. outcome'[u] = "none" /\ \A v \in Unit \ {u} : outcome'[v] = outcome[v]
    BY <2>1 DEF StateTypes
  <2>4. queue' = queue /\ running' = running /\ outcome[u] # "none"
    BY <1>5 DEF SubmitAgain
  <2>5. QueuedUnits' = QueuedUnits /\ ActiveUnits' = ActiveUnits
    BY <2>4 DEF QueuedUnits, ActiveUnits
  <2> QED
    BY <1>1, <2>2, <2>3, <2>4, <2>5 DEF Held
<1>6. ASSUME NEW w \in Spawned, TakeUnit(w)
      PROVE  /\ Injective' /\ (QueuedUnits \cap ActiveUnits = {})'
             /\ \A v \in Unit : Accounted(v)'
  <2> DEFINE u == Head(queue[Selected])
  <2>1. /\ u \in QueuedUnits /\ QueuedUnits' = QueuedUnits \ {u}
        /\ ActiveUnits' = ActiveUnits \cup {u}
        /\ running' = [running EXCEPT ![w] = u] /\ running[w] = NoUnit
    BY <1>6, TakeEffect
  <2> HIDE DEF u
  <2>2. outcome' = outcome /\ \A v \in Unit : Admitted(v)' <=> Admitted(v)
    BY <1>6, ProducersStay, NoProducers DEF TakeUnit, Admitted
  <2>3. Held' = Held
    BY <2>1 DEF Held
  <2>4. \A v \in Spawned : running[v] # u
    BY <1>1, <2>1, ActiveIff, QueuedIff, ThreadAssumption
  <2>5. Injective'
    BY <1>1, <2>1, <2>4 DEF StateTypes
  <2> QED
    BY <1>1, <2>1, <2>2, <2>3, <2>5
<1>7. ASSUME NEW w \in Spawned, Complete(w)
      PROVE  /\ Injective' /\ (QueuedUnits \cap ActiveUnits = {})'
             /\ \A v \in Unit : Accounted(v)'
  <2> DEFINE u == running[w]
  <2>1. /\ u \in ActiveUnits /\ u \in Unit
        /\ QueuedUnits' = QueuedUnits /\ ActiveUnits' = ActiveUnits \ {u}
        /\ running' = [running EXCEPT ![w] = NoUnit]
    BY <1>7, CompleteEffect
  <2>2. \A v \in Unit : Admitted(v)' <=> Admitted(v)
    BY <1>7, ProducersStay, NoProducers DEF Complete, Admitted
  <2>3. outcome'[u] # "none" /\ \A v \in Unit \ {u} : outcome'[v] = outcome[v]
    BY <1>7, <2>1 DEF Complete, StateOf, StateTypes
  <2>4. Injective'
    BY <1>1, <2>1 DEF StateTypes
  <2>5. Held' = Held \ {u} /\ u \in Held
    BY <1>1, <2>1 DEF Held
  <2> HIDE DEF u
  <2> QED
    BY <1>1, <2>1, <2>2, <2>3, <2>4, <2>5
<1>8. CASE Close
  BY <1>2, <1>8, ProducersStay, NoProducers DEF Close, Admitted
<1>9. CASE RequestCancel
  <2>1. queue' = [m \in Modality |-> <<>>] /\ running' = running
    BY <1>9 DEF RequestCancel
  <2>2. QueuedUnits' = {}
    <3>1. ASSUME NEW u \in QueuedUnits' PROVE FALSE
      BY <2>1, QueuedIff
    <3> QED
      BY <3>1
  <2>3. ActiveUnits' = ActiveUnits
    BY <2>1 DEF ActiveUnits
  <2>4. \A v \in Unit : outcome'[v] = IF v \in QueuedUnits THEN "cancelled" ELSE outcome[v]
    BY <1>9 DEF RequestCancel
  <2>5. \A v \in Unit : Admitted(v)' <=> Admitted(v)
    BY <1>9, ProducersStay, NoProducers DEF RequestCancel, Admitted
  <2> QED
    BY <1>1, <2>1, <2>2, <2>3, <2>4, <2>5 DEF Held
<1> QED
  BY <1>3, <1>4, <1>5, <1>6, <1>7, <1>8, <1>9, StepKinds

\* Before the first step no unit is anywhere.
LEMMA InitBudget == Init => BInv
<1> SUFFICES ASSUME Init PROVE BInv
  OBVIOUS
<1>1. IInv /\ StateTypes
  BY InitInv DEF IInv
<1>2. QueuedUnits = {}
  <2>1. queue \in [Modality -> Seq(Unit)] /\ \A m \in Modality : queue[m] = <<>>
    BY <1>1 DEF StateTypes, Init
  <2>2. ASSUME NEW u \in QueuedUnits PROVE FALSE
    BY <2>1, QueuedIn DEF QueuedUnits
  <2> QED
    BY <2>2
<1>3. ActiveUnits = {}
  <2>1. ASSUME NEW u \in ActiveUnits PROVE FALSE
    BY DEF ActiveUnits, Range, Init
  <2> QED
    BY <2>1
<1>4. \A u \in Unit : pc[u] = "idle" /\ outcome[u] = "none"
  BY SpawnedWorkers, ThreadAssumption DEF Init
<1>5. WellFormed
  BY <1>4 DEF WellFormed, Waits, Admitted
<1>6. Placement
  <2>1. \A m \in Modality : Len(queue[m]) = 0
    BY DEF Init
  <2>2. \A w \in Spawned : running[w] = NoUnit
    BY DEF Init
  <2> QED
    BY <1>2, <1>3, <1>4, <2>1, <2>2 DEF Placement, Held, Admitted
<1>7. Totals
  <2>1. Cardinality({}) = 0 /\ SumOfBytes({}) = 0
    BY FS_EmptySet, SumEmpty DEF SumOfBytes
  <2> QED
    BY <1>2, <1>3, <2>1, UnitAssumption DEF Totals, Init
<1> QED
  BY <1>1, <1>5, <1>6, <1>7 DEF BInv

\* The totals are kept by the steps that admit, take, end and drain units.
LEMMA TotalsStep ==
    ASSUME StateTypes, StateTypes', Placement, WellFormed, ActiveCount,
           QueuesByModality, Totals, [Next]_vars
    PROVE  Totals'
<1>1. /\ QueuedUnits \in SUBSET Unit /\ ActiveUnits \in SUBSET Unit
      /\ \A u \in Unit : Bytes[u] \in Nat
      /\ Budget \in Nat
  BY QueuedIff, ActiveIff, UnitAssumption
<1>2. /\ Cardinality(QueuedUnits) \in Nat /\ SumOfBytes(QueuedUnits) \in Nat
      /\ Cardinality(ActiveUnits) \in Nat /\ SumOfBytes(ActiveUnits) \in Nat
  BY <1>1, UnitSets
<1>3. CASE UNCHANGED <<queue, running, totals>>
  <2>1. QueuedUnits' = QueuedUnits /\ ActiveUnits' = ActiveUnits
    BY <1>3 DEF QueuedUnits, ActiveUnits
  <2> QED
    BY <1>3, <2>1 DEF Totals, totals
<1>4. ASSUME NEW u \in Unit, SubmitAdmitted(u)
      PROVE  Totals'
  <2>1. u \notin QueuedUnits
    BY <1>4, AdmitControl DEF Placement, Held
  <2>2. QueuedUnits' = QueuedUnits \cup {u} /\ ActiveUnits' = ActiveUnits
    BY <1>4, AdmitEffect
  <2>3. /\ Cardinality(QueuedUnits') = Cardinality(QueuedUnits) + 1
        /\ SumOfBytes(QueuedUnits') = SumOfBytes(QueuedUnits) + Bytes[u]
    BY <1>1, <2>1, <2>2, OneMore
  <2>4. /\ resident <= Budget - Bytes[u] /\ resident' = resident + Bytes[u]
        /\ queueDepth' = queueDepth + 1 /\ queuedBytes' = queuedBytes + Bytes[u]
        /\ activeUnits' = activeUnits /\ activeBytes' = activeBytes
    BY <1>4 DEF SubmitAdmitted, Fits
  <2> QED
    BY <1>1, <1>2, <2>2, <2>3, <2>4 DEF Totals
<1>5. ASSUME NEW w \in Spawned, TakeUnit(w)
      PROVE  Totals'
  <2> DEFINE u == Head(queue[Selected])
  <2>1. /\ u \in QueuedUnits /\ QueuedUnits' = QueuedUnits \ {u}
        /\ ActiveUnits' = ActiveUnits \cup {u}
    BY <1>5, TakeEffect
  <2>2. /\ resident' = resident
        /\ queueDepth' = queueDepth - 1 /\ queuedBytes' = queuedBytes - Bytes[u]
        /\ activeUnits' = activeUnits + 1 /\ activeBytes' = activeBytes + Bytes[u]
    BY <1>5 DEF TakeUnit
  <2> HIDE DEF u
  <2>3. u \in Unit /\ u \notin ActiveUnits
    BY <1>1, <2>1 DEF Placement
  <2>4. /\ Cardinality(QueuedUnits') = Cardinality(QueuedUnits) - 1
        /\ SumOfBytes(QueuedUnits') = SumOfBytes(QueuedUnits) - Bytes[u]
    BY <1>1, <2>1, OneFewer
  <2>5. /\ Cardinality(ActiveUnits') = Cardinality(ActiveUnits) + 1
        /\ SumOfBytes(ActiveUnits') = SumOfBytes(ActiveUnits) + Bytes[u]
    BY <1>1, <2>1, <2>3, OneMore
  <2> QED
    BY <1>1, <1>2, <2>2, <2>3, <2>4, <2>5 DEF Totals
<1>6. ASSUME NEW w \in Spawned, Complete(w)
      PROVE  Totals'
  <2> DEFINE u == running[w]
  <2>1. /\ u \in ActiveUnits /\ u \in Unit
        /\ QueuedUnits' = QueuedUnits /\ ActiveUnits' = ActiveUnits \ {u}
    BY <1>6, CompleteEffect
  <2>2. /\ resident' = resident - Bytes[u]
        /\ queueDepth' = queueDepth /\ queuedBytes' = queuedBytes
        /\ activeUnits' = activeUnits - 1 /\ activeBytes' = activeBytes - Bytes[u]
    BY <1>6 DEF Complete
  <2> HIDE DEF u
  <2>3. /\ Cardinality(ActiveUnits') = Cardinality(ActiveUnits) - 1
        /\ SumOfBytes(ActiveUnits') = SumOfBytes(ActiveUnits) - Bytes[u]
    BY <1>1, <2>1, OneFewer
  <2> QED
    BY <1>1, <1>2, <2>1, <2>2, <2>3 DEF Totals
<1>7. CASE RequestCancel
  <2>1. queue' = [m \in Modality |-> <<>>] /\ running' = running
    BY <1>7 DEF RequestCancel
  <2>2. QueuedUnits' = {}
    <3>1. ASSUME NEW u \in QueuedUnits' PROVE FALSE
      BY <2>1, QueuedIff
    <3> QED
      BY <3>1
  <2>3. ActiveUnits' = ActiveUnits
    BY <2>1 DEF ActiveUnits
  <2>4. Cardinality({}) = 0 /\ SumOfBytes({}) = 0
    BY FS_EmptySet, SumEmpty DEF SumOfBytes
  <2>5. /\ resident' = resident - SumOfBytes(QueuedUnits)
        /\ queueDepth' = queueDepth - Cardinality(QueuedUnits)
        /\ queuedBytes' = queuedBytes - SumOfBytes(QueuedUnits)
        /\ activeUnits' = activeUnits /\ activeBytes' = activeBytes
    BY <1>7 DEF RequestCancel
  <2> QED
    BY <1>1, <1>2, <2>2, <2>3, <2>4, <2>5 DEF Totals
<1> QED
  BY <1>3, <1>4, <1>5, <1>6, <1>7, StepKinds
     DEF Moves, guarded, totals, SubmitAgain, Close

\* The invariant holds in every reachable state.
LEMMA BudgetInvariance == Spec => []BInv
<1>1. Init => BInv
  BY InitBudget
<1>2. ASSUME BInv, [Next]_vars
      PROVE  BInv'
  <2>1. IInv' /\ StateTypes' /\ IInv
    BY <1>2, InvStep DEF BInv, IInv
  <2>2. WellFormed' /\ Placement' /\ Totals'
    BY <1>2, <2>1, WellFormedStep, PlacementStep, TotalsStep DEF BInv, IInv
  <2> QED
    BY <2>1, <2>2 DEF BInv
<1> QED
  BY <1>1, <1>2, PTL DEF Spec

(***************************************************************************)
(* The theorems.                                                           *)
(***************************************************************************)

\* submit(), worker_loop(), complete_locked() and request_cancel(): the totals
\* that predicates and snapshots read are those of the units in the queues and
\* with the workers, for any units and threads.
THEOREM TotalsAreCounted == Spec => []Accounting
<1>1. BInv => Accounting
  BY DEF BInv, Totals, Accounting
<1> QED
  BY <1>1, BudgetInvariance, PTL

\* submit() looks at the budget again under the lock that admits: whatever
\* units were woken together, those held never exceed it.
THEOREM BudgetIsKept == Spec => []WithinBudget
<1>1. ASSUME BInv
      PROVE  WithinBudget
  <2>1. StateTypes /\ Placement /\ Totals
    BY <1>1 DEF BInv, IInv
  <2>2. QueuedUnits \in SUBSET Unit /\ ActiveUnits \in SUBSET Unit
    BY <2>1, HeldUnits
  <2>3. IsFiniteSet(QueuedUnits) /\ IsFiniteSet(ActiveUnits)
    BY <2>2, UnitSets
  <2>4. SumOfBytes(QueuedUnits \cup ActiveUnits)
        = SumOfBytes(QueuedUnits) + SumOfBytes(ActiveUnits)
    BY <2>1, <2>2, <2>3, UnitAssumption, SumUnion DEF Placement, SumOfBytes
  <2> QED
    BY <2>1, <2>4 DEF Totals, WithinBudget
<1> QED
  BY <1>1, BudgetInvariance, PTL

\* No counter of the scheduler is ever decremented below zero.
THEOREM TypesAreKept == Spec => []TypeOK
<1>1. ASSUME BInv
      PROVE  TypeOK
  <2>1. StateTypes /\ Totals
    BY <1>1 DEF BInv, IInv
  <2>2. QueuedUnits \in SUBSET Unit /\ ActiveUnits \in SUBSET Unit
    BY <2>1, HeldUnits
  <2>3. /\ Cardinality(QueuedUnits) \in Nat /\ SumOfBytes(QueuedUnits) \in Nat
        /\ Cardinality(ActiveUnits) \in Nat /\ SumOfBytes(ActiveUnits) \in Nat
    BY <2>2, UnitSets
  <2>4. /\ resident \in Nat /\ queueDepth \in Nat /\ queuedBytes \in Nat
        /\ activeUnits \in Nat /\ activeBytes \in Nat
    BY <2>1, <2>3 DEF Totals
  <2> QED
    BY <2>1, <2>4 DEF StateTypes, TypeOK
<1> QED
  BY <1>1, BudgetInvariance, PTL

(***************************************************************************)
(* What wait() promises once it is past its wait.                          *)
(***************************************************************************)

\* wait() closed the input first, and after its predicate held no unit came.
Waited ==
    /\ pc[Owner] # "idle" => ~accepting
    /\ pc[Owner] \in {"join", "done"} => queueDepth = 0 /\ activeUnits = 0

\* The owner moves by closing, by passing its wait, by ending, or within wait().
LEMMA OwnerControl ==
    ASSUME StateTypes, [Next]_vars
    PROVE  \/ pc'[Owner] = pc[Owner]
           \/ Close
           \/ WaitDrained
           \/ pc[Owner] = "join"
           \/ pc[Owner] # "idle" /\ pc'[Owner] \in {"check", "asleep"}
<1>1. Owner \in Thread /\ Owner \notin Unit /\ Owner \notin Spawned /\ Owner # Canceller
  BY SpawnedWorkers, ThreadAssumption
<1>2. ASSUME NEW t \in Thread, NEW label, t # Owner, Goto(t, label)
      PROVE  pc'[Owner] = pc[Owner]
  BY <1>1, <1>2 DEF Goto, StateTypes
<1>3. ASSUME NEW t \in Thread, NEW label, t # Owner, NotifyAll(t, label)
      PROVE  pc'[Owner] = pc[Owner] \/ (pc[Owner] = "asleep" /\ pc'[Owner] = "check")
  BY <1>1, <1>3 DEF NotifyAll
<1>4. CASE UNCHANGED vars \/ Finished
  BY <1>4 DEF vars, Finished
<1>5. ASSUME NEW t \in Thread, t # Owner, Notify(t) \/ Sleep(t)
      PROVE  pc'[Owner] = pc[Owner] \/ (pc[Owner] = "asleep" /\ pc'[Owner] = "check")
  BY <1>5, <1>2, <1>3 DEF Notify, Sleep
<1>6. CASE Notify(Owner)
  BY <1>1, <1>6, ThreadAssumption DEF Notify, NotifyAll, AfterNotify
<1>7. CASE Sleep(Owner)
  BY <1>1, <1>7 DEF Sleep, Checking, Goto, StateTypes
<1>8. ASSUME NEW u \in Unit, \/ SubmitRefused(u) \/ SubmitAdmitted(u)
                             \/ SubmitInvalid(u) \/ SubmitAgain(u)
      PROVE  pc'[Owner] = pc[Owner]
  BY <1>1, <1>8, <1>2, SpawnedWorkers
     DEF SubmitRefused, SubmitAdmitted, SubmitInvalid, SubmitAgain
<1>9. ASSUME NEW w \in Spawned, TakeUnit(w) \/ WorkerExit(w) \/ Complete(w)
      PROVE  pc'[Owner] = pc[Owner] \/ (pc[Owner] = "asleep" /\ pc'[Owner] = "check")
  BY <1>1, <1>9, <1>2, <1>3, SpawnedWorkers DEF TakeUnit, WorkerExit, Complete
<1>10. CASE RequestCancel
  BY <1>1, <1>2, <1>10, SpawnedWorkers DEF RequestCancel
<1>11. CASE Join
  BY <1>11 DEF Join
<1> QED
  BY <1>4, <1>5, <1>6, <1>7, <1>8, <1>9, <1>10, <1>11 DEF Next, Step, Call

\* Past its wait, wait() stays past it.
LEMMA WaitedStep ==
    ASSUME BInv, Waited, [Next]_vars
    PROVE  Waited'
<1>1. StateTypes /\ ActiveCount /\ Totals
  BY DEF BInv, IInv
<1>2. accepting' => accepting
  BY <1>1, StepKinds
     DEF Moves, guarded, flags, SubmitAdmitted, SubmitAgain, TakeUnit, Complete,
         Close, RequestCancel
<1>3. pc'[Owner] # "idle" => ~accepting'
  <2>1. CASE Close
    BY <2>1 DEF Close
  <2> QED
    BY <1>1, <1>2, <2>1, OwnerControl DEF Waited, WaitDrained
<1>4. ASSUME pc'[Owner] \in {"join", "done"}
      PROVE  queueDepth = 0 /\ activeUnits = 0 /\ ~accepting
  <2>1. ~Close
    BY <1>1, <1>4, SpawnedWorkers DEF Close, Goto, StateTypes
  <2> QED
    BY <1>1, <1>4, <2>1, OwnerControl DEF Waited, WaitDrained, Drained
<1>5. ASSUME queueDepth = 0, activeUnits = 0, ~accepting
      PROVE  queueDepth' = 0 /\ activeUnits' = 0
  <2>1. QueuedUnits = {} /\ ActiveUnits = {}
    <3>1. QueuedUnits \in SUBSET Unit /\ ActiveUnits \in SUBSET Unit
      BY <1>1, HeldUnits
    <3> QED
      BY <1>1, <1>5, <3>1, UnitSets, FS_EmptySet DEF Totals
  <2>2. ASSUME NEW u \in Unit
        PROVE  ~SubmitAdmitted(u)
    BY <1>5 DEF SubmitAdmitted
  <2>3. ASSUME NEW w \in Spawned
        PROVE  ~TakeUnit(w)
    <3>1. SUFFICES ASSUME TakeUnit(w) PROVE FALSE
      OBVIOUS
    <3>2. StateTypes' /\ Placement /\ QueuesByModality
      BY InvStep DEF BInv, IInv
    <3> QED
      BY <1>1, <2>1, <3>1, <3>2, TakeEffect
  <2>4. ASSUME NEW w \in Spawned
        PROVE  ~Complete(w)
    <3>1. SUFFICES ASSUME Complete(w) PROVE FALSE
      OBVIOUS
    <3>2. StateTypes' /\ Placement
      BY InvStep DEF BInv, IInv
    <3> QED
      BY <1>1, <2>1, <3>1, <3>2, CompleteEffect
  <2>5. CASE RequestCancel
    <3>1. Cardinality(QueuedUnits) = 0
      BY <2>1, FS_EmptySet
    <3> QED
      BY <1>5, <2>5, <3>1 DEF RequestCancel
  <2> QED
    BY <1>1, <1>5, <2>2, <2>3, <2>4, <2>5, StepKinds
       DEF Moves, guarded, totals, SubmitAgain, Close
<1> QED
  BY <1>3, <1>4, <1>5 DEF Waited

\* wait() returns only when every admitted unit has its outcome and nothing is
\* held any more, and no submit(), completion or cancellation changes that.
THEOREM WaitingIsOver == Spec => []WaitIsFinal
<1>1. Init => Waited
  BY SpawnedWorkers, ThreadAssumption DEF Init, Waited
<1>2. BInv /\ Waited /\ [Next]_vars => Waited'
  BY WaitedStep
<1>3. ASSUME BInv, Waited
      PROVE  WaitIsFinal
  <2>1. StateTypes /\ Placement /\ Totals
    BY <1>3 DEF BInv, IInv
  <2>2. SUFFICES ASSUME pc[Owner] \in {"join", "done"}
                 PROVE  /\ \A u \in Unit : Admitted(u) => outcome[u] # "none"
                        /\ \A w \in Spawned : running[w] = NoUnit
                        /\ resident = 0
    BY DEF WaitIsFinal
  <2>3. QueuedUnits \in SUBSET Unit /\ ActiveUnits \in SUBSET Unit
    BY <2>1, HeldUnits
  <2>4. QueuedUnits = {} /\ ActiveUnits = {}
    BY <1>3, <2>1, <2>2, <2>3, UnitSets, FS_EmptySet DEF Totals, Waited
  <2>5. SumOfBytes({}) = 0
    BY SumEmpty DEF SumOfBytes
  <2>6. resident = 0
    BY <2>1, <2>4, <2>5 DEF Totals
  <2>7. \A w \in Spawned : running[w] = NoUnit
    BY <2>1, <2>4 DEF ActiveUnits, Range, StateTypes
  <2> QED
    BY <2>1, <2>4, <2>6, <2>7 DEF Placement, Held
<1> QED
  BY <1>1, <1>2, <1>3, BudgetInvariance, PTL DEF Spec

(***************************************************************************)
(* The places of a unit.                                                   *)
(***************************************************************************)

\* A queue is no longer than the units queued are many.
LEMMA QueueLength ==
    ASSUME BInv, NEW m \in Modality
    PROVE  queueDepth \in Nat /\ Len(queue[m]) \in Nat /\ Len(queue[m]) <= queueDepth
<1> DEFINE q == queue[m]
<1>1. StateTypes /\ Placement /\ Totals
  BY DEF BInv, IInv
<1>2. q \in Seq(Unit) /\ queue \in [Modality -> Seq(Unit)]
  BY <1>1 DEF StateTypes
<1>3. \A i \in 1..Len(q) : q[i] \in QueuedUnits
  BY <1>2, QueuedIn DEF QueuedUnits
<1>4. q \in Injection(1..Len(q), QueuedUnits)
  BY <1>1, <1>2, <1>3 DEF Injection, IsInjective, Placement
<1>5. IsFiniteSet(QueuedUnits) /\ Cardinality(QueuedUnits) \in Nat
  BY <1>1, HeldUnits, UnitSets
<1>6. Cardinality(1..Len(q)) <= Cardinality(QueuedUnits)
  <2> HIDE DEF q
  <2> QED
    BY <1>4, <1>5, FS_Injection
<1>7. Len(q) \in Nat /\ Cardinality(1..Len(q)) = Len(q)
  <2>1. Len(q) \in Nat
    BY <1>2
  <2> HIDE DEF q
  <2>2. Cardinality(1..Len(q)) = IF 1 > Len(q) THEN 0 ELSE Len(q) - 1 + 1
    BY <2>1, FS_Interval
  <2> QED
    BY <2>1, <2>2
<1> QED
  BY <1>1, <1>5, <1>6, <1>7 DEF Totals

\* A queued unit has one position.
LEMMA OnePosition ==
    ASSUME BInv, NEW u \in Unit
    PROVE  Cardinality({ p \in Modality \X (1..queueDepth) :
                           p[2] <= Len(queue[p[1]]) /\ queue[p[1]][p[2]] = u })
           = IF u \in QueuedUnits THEN 1 ELSE 0
<1> DEFINE positions == { p \in Modality \X (1..queueDepth) :
                            p[2] <= Len(queue[p[1]]) /\ queue[p[1]][p[2]] = u }
<1>1. StateTypes /\ Placement /\ QueuesByModality
  BY DEF BInv, IInv
<1>2. queue \in [Modality -> Seq(Unit)]
  BY <1>1 DEF StateTypes
<1>3. ASSUME NEW p \in positions
      PROVE  /\ p = <<p[1], p[2]>> /\ p[1] \in Modality
             /\ p[2] \in 1..Len(queue[p[1]]) /\ queue[p[1]][p[2]] = u
  BY QueueLength
<1>4. CASE u \in QueuedUnits
  <2>1. PICK m \in Modality : \E i \in 1..Len(queue[m]) : queue[m][i] = u
    BY <1>2, <1>4, QueuedIn DEF QueuedUnits
  <2>2. PICK i \in 1..Len(queue[m]) : queue[m][i] = u
    BY <2>1
  <2>3. <<m, i>> \in positions
    BY <2>2, QueueLength
  <2>4. ASSUME NEW p \in positions PROVE p = <<m, i>>
    <3>1. p[1] = m
      BY <1>1, <1>3, <2>2 DEF QueuesByModality
    <3>2. p[2] = i
      BY <1>1, <1>3, <2>2, <3>1 DEF Placement
    <3> QED
      BY <1>3, <3>1, <3>2
  <2>5. positions = {<<m, i>>}
    BY <2>3, <2>4
  <2> HIDE DEF positions
  <2>6. Cardinality(positions) = 1
    BY <2>5, FS_Singleton
  <2> QED
    BY <1>4, <2>6 DEF positions
<1>5. CASE u \notin QueuedUnits
  <2>1. positions = {}
    BY <1>2, <1>3, <1>5, QueuedIn DEF QueuedUnits
  <2> HIDE DEF positions
  <2>2. Cardinality(positions) = 0
    BY <2>1, FS_EmptySet
  <2> QED
    BY <1>5, <2>2 DEF positions
<1> QED
  BY <1>4, <1>5

\* An active unit has one worker.
LEMMA OneWorker ==
    ASSUME BInv, NEW u \in Unit
    PROVE  Cardinality({ w \in Spawned : running[w] = u })
           = IF u \in ActiveUnits THEN 1 ELSE 0
<1> DEFINE workers == { w \in Spawned : running[w] = u }
<1>1. Placement /\ running \in [Spawned -> Unit \cup {NoUnit}] /\ u # NoUnit
  BY ThreadAssumption DEF BInv, IInv, StateTypes
<1>2. CASE u \in ActiveUnits
  <2>1. PICK w \in Spawned : running[w] = u
    BY <1>1, <1>2 DEF ActiveUnits, Range
  <2>2. workers = {w}
    BY <1>1, <2>1 DEF Placement
  <2> HIDE DEF workers
  <2>3. Cardinality(workers) = 1
    BY <2>2, FS_Singleton
  <2> QED
    BY <1>2, <2>3 DEF workers
<1>3. CASE u \notin ActiveUnits
  <2>1. workers = {}
    BY <1>1, <1>3 DEF ActiveUnits, Range
  <2> HIDE DEF workers
  <2>2. Cardinality(workers) = 0
    BY <2>1, FS_EmptySet
  <2> QED
    BY <1>3, <2>2 DEF workers
<1> QED
  BY <1>2, <1>3

\* submit(), worker_loop(), complete_locked() and request_cancel(): whatever the
\* threads do and in whatever order, an admitted unit is queued once, executed
\* by one worker or ended, and a unit not admitted is nowhere.
THEOREM UnitsAreInOnePlace == Spec => []OnePlace
<1>1. ASSUME BInv, NEW u \in Unit
      PROVE  Places(u) = IF Admitted(u) THEN 1 ELSE 0
  <2> DEFINE queuedTimes == Cardinality({ p \in Modality \X (1..queueDepth) :
                              p[2] <= Len(queue[p[1]]) /\ queue[p[1]][p[2]] = u })
             workerTimes == Cardinality({ w \in Spawned : running[w] = u })
  <2>1. queuedTimes = IF u \in QueuedUnits THEN 1 ELSE 0
    BY <1>1, OnePosition
  <2>2. workerTimes = IF u \in ActiveUnits THEN 1 ELSE 0
    BY <1>1, OneWorker
  <2>3. Places(u) = queuedTimes + workerTimes + IF outcome[u] = "none" THEN 0 ELSE 1
    BY DEF Places
  <2> HIDE DEF queuedTimes, workerTimes
  <2>4. Placement
    BY <1>1 DEF BInv
  <2> QED
    BY <2>1, <2>2, <2>3, <2>4 DEF Placement, Held
<1>2. BInv => OnePlace
  BY <1>1 DEF OnePlace
<1> QED
  BY <1>2, BudgetInvariance, PTL

\* No unit is lost, doubled or miscounted, and the budget holds, for any units,
\* sizes and threads (submit, worker_loop, complete_locked, request_cancel).
THEOREM WorkStaysConserved == Spec => []WorkIsConserved
<1>1. OnePlace /\ Accounting /\ WithinBudget => WorkIsConserved
  BY DEF WorkIsConserved
<1> QED
  BY <1>1, UnitsAreInOnePlace, TotalsAreCounted, BudgetIsKept, PTL

(***************************************************************************)
(* The order of a batch.                                                   *)
(***************************************************************************)

TakenUnits(m) == { u \in Unit : /\ ModalityOf[u] = m /\ Admitted(u)
                                /\ u \notin QueuedUnits }

\* The round of modality k when r units of every queue that waits were taken:
\* the rotation has passed the modalities before nextModality.
Round(r, k) == IF k < nextModality THEN r + 1 ELSE r

\* A batch is taken once its input is closed; the queues that still wait differ
\* by one unit at most, and the modalities already served in a round come first.
BatchRounds ==
    Deterministic =>
      /\ accepting => nextModality = 0 /\ \A m \in Modality : TakenUnits(m) = {}
      /\ ~cancelled =>
           \E r \in Nat : \A k \in Modality : queue[k] # <<>> => Taken(k) = Round(r, k)

\* Taken counts the units taken.
LEMMA TakenCounts ==
    ASSUME NEW m
    PROVE  /\ Taken(m) = Cardinality(TakenUnits(m))
           /\ IsFiniteSet(TakenUnits(m)) /\ Taken(m) \in Nat
           /\ TakenUnits(m) = {} => Taken(m) = 0
<1>1. TakenUnits(m) \in SUBSET Unit /\ Taken(m) = Cardinality(TakenUnits(m))
  BY DEF TakenUnits, Taken
<1> QED
  BY <1>1, UnitSets, FS_EmptySet

\* Nor does it count other units when the queues and the admitted units stay.
LEMMA TakenFrame ==
    ASSUME QueuedUnits' = QueuedUnits,
           \A u \in Unit : Admitted(u)' <=> Admitted(u)
    PROVE  \A m \in Modality : TakenUnits(m)' = TakenUnits(m) /\ Taken(m)' = Taken(m)
BY DEF TakenUnits, Taken

\* worker_loop() takes one unit of the modality it selects.
LEMMA TakenStep ==
    ASSUME BInv, StateTypes', NEW w \in Spawned, TakeUnit(w), NEW m, m = Selected
    PROVE  /\ Taken(m)' = Taken(m) + 1
           /\ \A k \in Modality \ {m} : Taken(k)' = Taken(k)
<1>1. PICK u : u = Head(queue[m])
  OBVIOUS
<1>2. StateTypes /\ ActiveCount /\ Placement /\ QueuesByModality /\ HasQueued
  BY DEF BInv, IInv, TakeUnit
<1>3. u \in QueuedUnits /\ QueuedUnits' = QueuedUnits \ {u}
  BY <1>1, <1>2, TakeEffect
<1>4. m \in Modality /\ u \in Unit /\ ModalityOf[u] = m
  BY <1>1, <1>2, SelectedIsNearest, TakenUnit DEF QueuesByModality
<1>5. Admitted(u)
  BY <1>3, <1>4 DEF BInv, Placement, Held
<1>6. \A v \in Unit : Admitted(v)' <=> Admitted(v)
  <2>1. \A v \in Unit : pc'[v] = pc[v]
    BY <1>2, ProducersStay, NoProducers DEF TakeUnit
  <2> QED
    BY <2>1 DEF Admitted
<1>7. TakenUnits(m)' = TakenUnits(m) \cup {u} /\ u \notin TakenUnits(m)
  BY <1>3, <1>4, <1>5, <1>6 DEF TakenUnits
<1>8. \A k \in Modality \ {m} : TakenUnits(k)' = TakenUnits(k)
  BY <1>3, <1>4, <1>6 DEF TakenUnits
<1>9. Cardinality(TakenUnits(m) \cup {u}) = Cardinality(TakenUnits(m)) + 1
  BY <1>7, TakenCounts, FS_AddElement
<1>10. Taken(m)' = Taken(m) + 1
  BY <1>7, <1>9, TakenCounts DEF Taken, TakenUnits
<1>11. \A k \in Modality \ {m} : Taken(k)' = Taken(k)
  BY <1>8 DEF Taken, TakenUnits
<1> QED
  BY <1>10, <1>11

\* Taking the nearest unit keeps the rounds.
LEMMA RoundAfterService ==
    ASSUME nextModality \in Modality, NEW m \in Modality,
           nextModality' = (m + 1) % ModalityCount, NEW r \in Nat
    PROVE  \E s \in Nat :
             /\ Round(s, m)' = Round(r, m) + 1
             /\ \A k \in Modality : Distance(m) < Distance(k) =>
                  Round(s, k)' = Round(r, k)
<1>1. nextModality' = IF m = 5 THEN 0 ELSE m + 1
  BY DEF Modality, ModalityCount
<1>2. CASE m < nextModality
  <2>1. \A k \in Modality : Distance(m) < Distance(k) => k > m /\ k < nextModality
    BY <1>2 DEF Distance, Modality, ModalityCount
  <2>2. m # 5 /\ Round(r, m) = r + 1
    BY <1>2 DEF Round, Modality, ModalityCount
  <2>3. Round(r + 1, m)' = r + 2
    BY <1>1, <2>2 DEF Round, Modality, ModalityCount
  <2>4. \A k \in Modality : k > m /\ k < nextModality =>
          Round(r + 1, k)' = r + 1 /\ Round(r, k) = r + 1
    BY <1>1, <2>2 DEF Round, Modality, ModalityCount
  <2> QED
    BY <2>1, <2>2, <2>3, <2>4
<1>3. CASE m >= nextModality /\ m # 5
  <2>1. \A k \in Modality : Distance(m) < Distance(k) => k > m \/ k < nextModality
    BY <1>3 DEF Distance, Modality, ModalityCount
  <2>2. Round(r, m)' = Round(r, m) + 1
    BY <1>1, <1>3 DEF Round, Modality, ModalityCount
  <2>3. \A k \in Modality : k > m \/ k < nextModality => Round(r, k)' = Round(r, k)
    BY <1>1, <1>3 DEF Round, Modality, ModalityCount
  <2> QED
    BY <2>1, <2>2, <2>3
<1>4. CASE m >= nextModality /\ m = 5
  <2>1. \A k \in Modality : Distance(m) < Distance(k) => k < nextModality
    BY <1>4 DEF Distance, Modality, ModalityCount
  <2>2. Round(r + 1, m)' = r + 1 /\ Round(r, m) = r
    BY <1>1, <1>4 DEF Round, Modality, ModalityCount
  <2>3. \A k \in Modality : k < nextModality => Round(r + 1, k)' = r + 1 /\ Round(r, k) = r + 1
    BY <1>1, <1>4 DEF Round, Modality, ModalityCount
  <2> QED
    BY <2>1, <2>2, <2>3
<1> QED
  BY <1>2, <1>3, <1>4 DEF Modality, ModalityCount

\* No step breaks the rounds of a batch that is submitted once.
LEMMA RoundsStep ==
    ASSUME Recurring = {}, BInv, StateTypes', BatchRounds, [Next]_vars
    PROVE  BatchRounds'
<1> SUFFICES ASSUME Deterministic PROVE BatchRounds'
  BY DEF BatchRounds
<1>1. StateTypes /\ CancelDrains /\ WellFormed
  BY DEF BInv, IInv
<1>2. /\ accepting => nextModality = 0 /\ \A m \in Modality : TakenUnits(m) = {}
      /\ ~cancelled =>
           \E r \in Nat : \A k \in Modality : queue[k] # <<>> => Taken(k) = Round(r, k)
  BY DEF BatchRounds
<1>3. ASSUME queue' = queue, nextModality' = nextModality, cancelled' = cancelled,
             accepting' => accepting,
             \A u \in Unit : Admitted(u)' <=> Admitted(u)
      PROVE  BatchRounds'
  <2>1. QueuedUnits' = QueuedUnits
    BY <1>3 DEF QueuedUnits
  <2>2. \A m \in Modality : TakenUnits(m)' = TakenUnits(m) /\ Taken(m)' = Taken(m)
    BY <1>3, <2>1, TakenFrame
  <2>3. accepting' => nextModality' = 0 /\ \A m \in Modality : TakenUnits(m)' = {}
    BY <1>2, <1>3, <2>2
  <2>4. ~cancelled' =>
           \E r \in Nat : \A k \in Modality : queue'[k] # <<>> => Taken(k)' = Round(r, k)'
    BY <1>2, <1>3, <2>2 DEF Round
  <2> QED
    BY <2>3, <2>4 DEF BatchRounds
<1>4. CASE Moves
  BY <1>3, <1>4 DEF Moves, guarded, flags
<1>5. ASSUME NEW u \in Unit, SubmitAdmitted(u)
      PROVE  BatchRounds'
  <2>1. accepting /\ nextModality' = nextModality
    BY <1>5 DEF SubmitAdmitted
  <2>2. QueuedUnits' = QueuedUnits \cup {u}
    BY <1>1, <1>5, AdmitEffect
  <2>3. \A v \in Unit \ {u} : Admitted(v)' <=> Admitted(v)
    BY <1>1, <1>5, AdmitControl DEF Admitted
  <2>4. \A m \in Modality : TakenUnits(m) = {}
    BY <1>2, <2>1
  <2>5. \A m \in Modality : TakenUnits(m)' = {}
    BY <2>2, <2>3, <2>4 DEF TakenUnits
  <2>6. \A m \in Modality : Taken(m)' = 0
    BY <2>5, FS_EmptySet DEF Taken, TakenUnits
  <2>7. nextModality' = 0
    BY <1>2, <2>1
  <2>8. \A k \in Modality : Taken(k)' = Round(0, k)'
    BY <2>6, <2>7 DEF Round, Modality, ModalityCount
  <2> QED
    BY <2>5, <2>7, <2>8 DEF BatchRounds
<1>6. ASSUME NEW w \in Spawned, TakeUnit(w)
      PROVE  BatchRounds'
  <2>1. HasQueued /\ ~cancelled /\ ~accepting /\ accepting' = accepting
    BY <1>1, <1>6 DEF TakeUnit, WorkerReady, CancelDrains, flags
  <2>2. PICK m \in Modality : m = Selected
    BY <1>1, <2>1, SelectedIsNearest
  <2>3. PICK r \in Nat : \A k \in Modality : queue[k] # <<>> => Taken(k) = Round(r, k)
    BY <1>2, <2>1
  <2>4. /\ queue[m] # <<>>
        /\ \A k \in Modality : queue[k] # <<>> => Distance(m) <= Distance(k)
    BY <1>1, <2>1, <2>2, SelectedIsNearest
  <2>5. /\ nextModality' = (m + 1) % ModalityCount
        /\ \A k \in Modality \ {m} : queue'[k] = queue[k]
    BY <1>1, <1>6, <2>2 DEF TakeUnit, StateTypes
  <2>6. /\ Taken(m)' = Taken(m) + 1
        /\ \A k \in Modality \ {m} : Taken(k)' = Taken(k)
    BY <1>6, <2>2, TakenStep
  <2>7. PICK s \in Nat :
             /\ Round(s, m)' = Round(r, m) + 1
             /\ \A k \in Modality : Distance(m) < Distance(k) =>
                  Round(s, k)' = Round(r, k)
    BY <1>1, <2>5, RoundAfterService DEF StateTypes
  <2>8. Taken(m)' = Round(s, m)'
    BY <2>3, <2>4, <2>6, <2>7
  <2>9. ASSUME NEW k \in Modality \ {m}, queue'[k] # <<>>
        PROVE  Taken(k)' = Round(s, k)'
    <3>1. queue[k] # <<>>
      BY <2>5, <2>9
    <3>2. Distance(m) < Distance(k)
      BY <1>1, <2>4, <3>1, DistanceInjective DEF StateTypes
    <3> QED
      BY <2>3, <2>6, <2>7, <3>1, <3>2
  <2>10. \A k \in Modality : queue'[k] # <<>> => Taken(k)' = Round(s, k)'
    BY <2>8, <2>9
  <2> QED
    BY <2>1, <2>10 DEF BatchRounds
<1>7. ASSUME NEW w \in Spawned, Complete(w)
      PROVE  BatchRounds'
  <2>1. \A v \in Unit : pc'[v] = pc[v]
    BY <1>1, <1>7, ProducersStay, NoProducers DEF Complete
  <2> QED
    BY <1>3, <1>7, <2>1 DEF Complete, flags, Admitted
<1>8. CASE Close
  <2>1. \A v \in Unit : pc'[v] = pc[v]
    BY <1>1, <1>8, ProducersStay, NoProducers DEF Close
  <2> QED
    BY <1>3, <1>8, <2>1 DEF Close, Admitted
<1>9. CASE RequestCancel
  BY <1>9 DEF RequestCancel, BatchRounds
<1> QED
  BY <1>1, <1>4, <1>5, <1>6, <1>7, <1>8, <1>9, StepKinds DEF SubmitAgain

\* The rounds hold in every reachable state.
LEMMA RoundsInvariance == Recurring = {} => (Spec => [](BInv /\ BatchRounds))
<1> SUFFICES ASSUME Recurring = {} PROVE Spec => [](BInv /\ BatchRounds)
  OBVIOUS
<1>1. Init => BInv /\ BatchRounds
  <2> SUFFICES ASSUME Init PROVE BatchRounds
    BY InitBudget
  <2>1. \A u \in Unit : pc[u] = "idle" /\ ~Admitted(u)
    BY SpawnedWorkers, ThreadAssumption DEF Init, Admitted
  <2>2. \A m \in Modality : TakenUnits(m) = {}
    BY <2>1 DEF TakenUnits
  <2>3. \A k \in Modality : queue[k] = <<>>
    BY DEF Init
  <2> QED
    BY <2>2, <2>3 DEF Init, BatchRounds
<1>2. ASSUME BInv /\ BatchRounds, [Next]_vars
      PROVE  BInv' /\ BatchRounds'
  <2>1. IInv' /\ StateTypes' /\ IInv
    BY <1>2, InvStep DEF BInv, IInv
  <2>2. WellFormed' /\ Placement' /\ Totals'
    BY <1>2, <2>1, WellFormedStep, PlacementStep, TotalsStep DEF BInv, IInv
  <2>3. BatchRounds'
    BY <1>2, <2>1, RoundsStep
  <2> QED
    BY <2>1, <2>2, <2>3 DEF BInv
<1> QED
  BY <1>1, <1>2, PTL DEF Spec

\* submit(), worker_loop() and select_locked() in deterministic mode: for every
\* batch, each unit submitted once, no call blocks and the order in which units
\* are served is that of the batch, whatever the threads do.
THEOREM BatchOrderIsFixed == Recurring = {} => (Spec => BatchIsDeterministic)
<1> SUFFICES ASSUME Recurring = {} PROVE Spec => BatchIsDeterministic
  OBVIOUS
<1>1. ASSUME BInv, BatchRounds, [Next]_vars, NEW m \in Modality, NEW k \in Modality,
             Deterministic, Served(m), m # k, queue[k] # <<>>
      PROVE  Taken(m) < Taken(k) \/ (Taken(m) = Taken(k) /\ m < k)
  <2>1. IInv /\ StateTypes /\ CancelDrains
    BY <1>1 DEF BInv, IInv
  <2>2. HasQueued /\ m = Selected /\ ~cancelled
    BY <1>1, <2>1, ServedIsSelected DEF CancelDrains
  <2>3. queue[m] # <<>> /\ Distance(m) <= Distance(k)
    BY <1>1, <2>1, <2>2, SelectedIsNearest
  <2>4. Distance(m) < Distance(k)
    BY <1>1, <2>1, <2>3, DistanceInjective DEF StateTypes
  <2>5. PICK r \in Nat : Taken(m) = Round(r, m) /\ Taken(k) = Round(r, k)
    BY <1>1, <2>2, <2>3 DEF BatchRounds
  <2>6. nextModality \in Modality
    BY <2>1 DEF StateTypes
  <2> QED
    BY <2>4, <2>5, <2>6 DEF Round, Distance, Modality, ModalityCount
<1>2. BInv /\ BatchRounds /\ [Next]_vars
      => [\A m, k \in Modality :
            Deterministic /\ Served(m) /\ m # k /\ queue[k] # <<>> =>
              Taken(m) < Taken(k) \/ (Taken(m) = Taken(k) /\ m < k)]_vars
  BY <1>1
<1>3. Spec => DeterministicOrder
  BY <1>2, RoundsInvariance, PTL DEF Spec, DeterministicOrder
<1> QED
  BY <1>3, BatchNeverBlocks, PTL DEF BatchIsDeterministic
=============================================================================
