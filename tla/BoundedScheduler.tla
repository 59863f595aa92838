-------------------------- MODULE BoundedScheduler --------------------------
(***************************************************************************)
(* The byte-budgeted work scheduler of bounded_scheduler.cpp: producers    *)
(* that block while their unit does not fit the resident-byte budget,      *)
(* worker threads that take units round-robin over six modality queues, an *)
(* owner that calls wait() and a thread that may call request_cancel().    *)
(*                                                                         *)
(* One critical section of the mutex is one step.  condition_.wait(pred)   *)
(* either passes or puts its thread to sleep, and notify_all(), which the  *)
(* code calls after the unlock, is a step of its own: a lost wake-up is a  *)
(* behaviour of this model wherever the code allows one.  A spurious       *)
(* wake-up re-evaluates the predicate and sleeps again, which is a         *)
(* stuttering step here.                                                   *)
(***************************************************************************)
EXTENDS Integers, Sequences, FiniteSets, Functions

CONSTANTS
    Unit,           \* work units; each has a producer thread of the same name
    Worker,         \* worker_count threads
    Owner,          \* the thread that calls wait()
    Canceller,      \* the thread that may call request_cancel()
    Budget,         \* resident_byte_budget
    Bytes,          \* Bytes[u]: estimated_bytes
    ModalityOf,     \* ModalityOf[u]: the index of its modality
    Deterministic,  \* SchedulerConfig.deterministic
    Endless,        \* units whose function returns only after a stop request
    Recurring,      \* units a producer submits again once they are done
    NoUnit          \* a worker is executing nothing

ModalityCount == 6

Modality == 0..(ModalityCount - 1)

\* Deterministic mode spawns one worker whatever worker_count says.
Spawned == IF Deterministic THEN {CHOOSE w \in Worker : TRUE} ELSE Worker

Thread == Unit \cup Spawned \cup {Owner, Canceller}

ASSUME ThreadAssumption ==
    /\ Worker # {} /\ IsFiniteSet(Worker) /\ NoUnit \notin Unit
    /\ Unit \cap Worker = {} /\ Owner # Canceller
    /\ {Owner, Canceller} \cap (Unit \cup Worker) = {}

ASSUME UnitAssumption ==
    /\ IsFiniteSet(Unit) /\ Budget \in Nat \ {0}
    /\ Bytes \in [Unit -> Nat] /\ ModalityOf \in [Unit -> Nat]
    /\ Endless \subseteq Unit /\ Recurring \subseteq Unit
    /\ Deterministic \in BOOLEAN

VARIABLES
    \* guarded by mutex_: the queues, the rotation, the totals that
    \* predicates and snapshots read, the flags and the outcomes
    queue, nextModality, resident, queueDepth, queuedBytes, activeUnits,
    activeBytes, accepting, cancelled, outcome,
    \* the threads: control state, and the unit each worker executes
    pc, running,
    \* history: <<k, m>> when m was served since queue k last waited
    passed

totals == <<resident, queueDepth, queuedBytes, activeUnits, activeBytes>>
flags  == <<accepting, cancelled>>
vars   == <<queue, nextModality, totals, flags, outcome, pc, running, passed>>

(***************************************************************************)
(* The predicates threads wait for.                                        *)
(***************************************************************************)
Malformed(u) == Bytes[u] = 0 \/ Bytes[u] > Budget \/ ModalityOf[u] \notin Modality

Fits(u) == resident <= Budget - Bytes[u]

HasQueued == \E m \in Modality : queue[m] # <<>>

\* Mutant: the deterministic worker does not wait for the input to close.
WorkerReady_Eager == ~accepting \/ HasQueued

\* stop_requested() holds from request_cancel() on, as cancelled does.
WorkerReady == cancelled \/ ~accepting \/ (~Deterministic /\ HasQueued)

\* Mutant: units being executed are forgotten.
Drained_QueuesOnly == queueDepth = 0

Drained == queueDepth = 0 /\ activeUnits = 0

\* The predicate of the wait a thread may be asleep in.
Ready(t) ==
    CASE t \in Unit    -> cancelled \/ ~accepting \/ Fits(t)
      [] t \in Spawned -> WorkerReady
      [] t = Owner     -> Drained
      [] OTHER         -> FALSE

(***************************************************************************)
(* The mutex is free between two steps; condition_ has every sleeper.      *)
(***************************************************************************)
Init ==
    /\ queue = [m \in Modality |-> <<>>] /\ nextModality = 0
    /\ resident = 0 /\ queueDepth = 0 /\ queuedBytes = 0
    /\ activeUnits = 0 /\ activeBytes = 0
    /\ accepting = TRUE /\ cancelled = FALSE
    /\ outcome = [u \in Unit |-> "none"]
    /\ pc = [t \in Thread |-> IF t \in Spawned THEN "check" ELSE "idle"]
    /\ running = [w \in Spawned |-> NoUnit]
    /\ passed = {}

Goto(t, label) == pc' = [pc EXCEPT ![t] = label]

\* t goes on at label; every sleeper wakes and evaluates its predicate.
NotifyAll(t, label) ==
    pc' = [s \in Thread |-> IF s = t THEN label
                            ELSE IF pc[s] = "asleep" THEN "check" ELSE pc[s]]

AfterNotify(t) == CASE t \in Unit    -> "accepted"
                    [] t \in Spawned -> "check"
                    [] t = Owner     -> "check"
                    [] OTHER         -> "done"

Notify(t) ==
    /\ pc[t] = "notify"
    /\ NotifyAll(t, AfterNotify(t))
    /\ UNCHANGED <<queue, nextModality, totals, flags, outcome, running, passed>>

(***************************************************************************)
(* submit(), called by the producer of u.                                  *)
(***************************************************************************)

\* A deterministic batch that does not fit is refused before any wait.
BatchRejected(u) == Deterministic /\ accepting /\ ~cancelled /\ ~Fits(u)

SubmitInvalid(u) ==
    /\ pc[u] = "idle" /\ (Malformed(u) \/ BatchRejected(u))
    /\ Goto(u, "rejected")
    /\ UNCHANGED <<queue, nextModality, totals, flags, outcome, running, passed>>

\* t evaluates the predicate of its wait: on arrival, or woken up.
Checking(t) ==
    \/ pc[t] = "check"
    \/ t \in Unit /\ pc[t] = "idle" /\ ~Malformed(t) /\ ~BatchRejected(t)

Sleep(t) ==
    /\ Checking(t) /\ ~Ready(t)
    /\ Goto(t, "asleep")
    /\ UNCHANGED <<queue, nextModality, totals, flags, outcome, running, passed>>

SubmitRefused(u) ==
    /\ Checking(u) /\ (cancelled \/ ~accepting)
    /\ Goto(u, "rejected")
    /\ UNCHANGED <<queue, nextModality, totals, flags, outcome, running, passed>>

\* Mutant: a woken producer does not look at the budget again.
SubmitAdmitted_NoRecheck(u) ==
    /\ Checking(u) /\ ~cancelled /\ accepting
    /\ pc[u] = "idle" => Fits(u)
    /\ queue' = [queue EXCEPT ![ModalityOf[u]] = Append(@, u)]
    /\ resident' = resident + Bytes[u]
    /\ queueDepth' = queueDepth + 1
    /\ queuedBytes' = queuedBytes + Bytes[u]
    /\ Goto(u, "notify")
    /\ UNCHANGED <<nextModality, activeUnits, activeBytes, flags, outcome,
                   running, passed>>

SubmitAdmitted(u) ==
    /\ Checking(u) /\ ~cancelled /\ accepting /\ Fits(u)
    /\ queue' = [queue EXCEPT ![ModalityOf[u]] = Append(@, u)]
    /\ resident' = resident + Bytes[u]
    /\ queueDepth' = queueDepth + 1
    /\ queuedBytes' = queuedBytes + Bytes[u]
    /\ Goto(u, "notify")
    /\ UNCHANGED <<nextModality, activeUnits, activeBytes, flags, outcome,
                   running, passed>>

\* The producer of a stream submits its next unit, of the same shape.
SubmitAgain(u) ==
    /\ u \in Recurring /\ pc[u] = "accepted" /\ outcome[u] # "none"
    /\ outcome' = [outcome EXCEPT ![u] = "none"]
    /\ Goto(u, "idle")
    /\ UNCHANGED <<queue, nextModality, totals, flags, running, passed>>

(***************************************************************************)
(* worker_loop().                                                          *)
(***************************************************************************)

\* Mutant: the rotation always starts from the first modality.
Selected_Priority ==
    CHOOSE m \in Modality : queue[m] # <<>> /\ \A k \in 0..(m - 1) : queue[k] = <<>>

\* The first modality with queued work, from nextModality on.
Selected ==
    LET At(i) == (nextModality + i) % ModalityCount
        first == CHOOSE i \in Modality :
                   /\ queue[At(i)] # <<>>
                   /\ \A j \in 0..(i - 1) : queue[At(j)] = <<>>
    IN  At(first)

\* The queues still waiting when m is served remember it.
Overtaken(m) ==
    { p \in passed : p[1] # m }
    \cup { <<k, m>> : k \in { k \in Modality \ {m} : queue[k] # <<>> } }

TakeUnit(w) ==
    /\ Checking(w) /\ WorkerReady /\ HasQueued
    /\ LET m == Selected
           u == Head(queue[m])
       IN  /\ queue' = [queue EXCEPT ![m] = Tail(@)]
           /\ nextModality' = (m + 1) % ModalityCount
           /\ running' = [running EXCEPT ![w] = u]
           /\ queueDepth' = queueDepth - 1
           /\ queuedBytes' = queuedBytes - Bytes[u]
           /\ activeUnits' = activeUnits + 1
           /\ activeBytes' = activeBytes + Bytes[u]
           /\ passed' = Overtaken(m)
    /\ Goto(w, "running")
    /\ UNCHANGED <<resident, flags, outcome>>

\* The last look at the queues: the worker leaves and wakes the others.
WorkerExit(w) ==
    /\ Checking(w) /\ WorkerReady /\ ~HasQueued
    /\ NotifyAll(w, "exited")
    /\ UNCHANGED <<queue, nextModality, totals, flags, outcome, running, passed>>

\* Mutant: a stop request does not change the state of finished work.
StateOf_Result(result) == result

\* The function of u returned nothing, a cancelled error or another error.
StateOf(result) == IF cancelled THEN "cancelled" ELSE result

Returns(w) == running[w] \in Endless => cancelled

\* Mutant: a worker goes on without notify_all.
Complete_Silent(w) ==
    /\ pc[w] = "running" /\ Returns(w)
    /\ LET u == running[w] IN
       /\ \E result \in {"completed", "failed", "cancelled"} :
            outcome' = [outcome EXCEPT ![u] = StateOf(result)]
       /\ resident' = resident - Bytes[u]
       /\ activeUnits' = activeUnits - 1
       /\ activeBytes' = activeBytes - Bytes[u]
    /\ running' = [running EXCEPT ![w] = NoUnit]
    /\ Goto(w, "check")
    /\ UNCHANGED <<queue, nextModality, queueDepth, queuedBytes, flags, passed>>

Complete(w) ==
    /\ pc[w] = "running" /\ Returns(w)
    /\ LET u == running[w] IN
       /\ \E result \in {"completed", "failed", "cancelled"} :
            outcome' = [outcome EXCEPT ![u] = StateOf(result)]
       /\ resident' = resident - Bytes[u]
       /\ activeUnits' = activeUnits - 1
       /\ activeBytes' = activeBytes - Bytes[u]
    /\ running' = [running EXCEPT ![w] = NoUnit]
    /\ Goto(w, "notify")
    /\ UNCHANGED <<queue, nextModality, queueDepth, queuedBytes, flags, passed>>

(***************************************************************************)
(* close() and wait(), called by the owner, and request_cancel().          *)
(***************************************************************************)
Close ==
    /\ pc[Owner] = "idle"
    /\ accepting' = FALSE
    /\ Goto(Owner, "notify")
    /\ UNCHANGED <<queue, nextModality, totals, cancelled, outcome, running, passed>>

WaitDrained ==
    /\ pc[Owner] = "check" /\ Drained
    /\ Goto(Owner, "join")
    /\ UNCHANGED <<queue, nextModality, totals, flags, outcome, running, passed>>

Join ==
    /\ pc[Owner] = "join" /\ \A w \in Spawned : pc[w] = "exited"
    /\ Goto(Owner, "done")
    /\ UNCHANGED <<queue, nextModality, totals, flags, outcome, running, passed>>

QueuedUnits == UNION { Range(queue[m]) : m \in Modality }

SumOfBytes(S) == SumFunctionOnSet(Bytes, S)

\* Mutant: the queues are not emptied.
RequestCancel_KeepQueues ==
    /\ pc[Canceller] = "idle"
    /\ cancelled' = TRUE /\ accepting' = FALSE
    /\ outcome' = [u \in Unit |-> IF u \in QueuedUnits THEN "cancelled" ELSE outcome[u]]
    /\ resident' = resident - SumOfBytes(QueuedUnits)
    /\ queueDepth' = queueDepth - Cardinality(QueuedUnits)
    /\ queuedBytes' = queuedBytes - SumOfBytes(QueuedUnits)
    /\ Goto(Canceller, "notify")
    /\ UNCHANGED <<queue, nextModality, activeUnits, activeBytes, running, passed>>

\* Admission ends, what is queued ends as cancelled, every worker is asked to
\* stop.  A second call returns at once.
RequestCancel ==
    /\ pc[Canceller] = "idle"
    /\ cancelled' = TRUE /\ accepting' = FALSE
    /\ outcome' = [u \in Unit |-> IF u \in QueuedUnits THEN "cancelled" ELSE outcome[u]]
    /\ queue' = [m \in Modality |-> <<>>]
    /\ resident' = resident - SumOfBytes(QueuedUnits)
    /\ queueDepth' = queueDepth - Cardinality(QueuedUnits)
    /\ queuedBytes' = queuedBytes - SumOfBytes(QueuedUnits)
    /\ passed' = {}
    /\ Goto(Canceller, "notify")
    /\ UNCHANGED <<nextModality, activeUnits, activeBytes, running>>

Returned(u) == pc[u] \in {"accepted", "rejected"}

\* wait() and every submit() have returned: the threads of the program end.
Finished ==
    /\ pc[Owner] = "done" /\ \A u \in Unit : Returned(u)
    /\ UNCHANGED vars

Step(t) ==
    \/ Notify(t) \/ Sleep(t)
    \/ t \in Unit /\ (SubmitRefused(t) \/ SubmitAdmitted(t))
    \/ t \in Spawned /\ (TakeUnit(t) \/ WorkerExit(t) \/ Complete(t))
    \/ t = Owner /\ (WaitDrained \/ Join)

Call(t) ==
    \/ t \in Unit /\ (SubmitInvalid(t) \/ SubmitAgain(t))
    \/ t = Owner /\ Close
    \/ t = Canceller /\ RequestCancel

Next == Finished \/ \E t \in Thread : Step(t) \/ Call(t)

Spec == Init /\ [][Next]_vars

(***************************************************************************)
(* The operating system schedules every thread that can take a step; the   *)
(* callers need not call.  A stream's producer does submit again.          *)
(***************************************************************************)
FairSpec ==
    /\ Spec
    /\ \A t \in Thread : WF_vars(pc[t] # "idle" /\ Step(t))
    /\ \A u \in Recurring : WF_vars(SubmitAgain(u))

-----------------------------------------------------------------------------
(***************************************************************************)
(* Properties.                                                             *)
(***************************************************************************)

\* Types of the guarded state and of the threads' control state.  No total
\* leaves the naturals: an unsigned counter of the code never wraps.
TypeOK ==
    /\ queue \in [Modality -> Seq(Unit)]
    /\ nextModality \in Modality
    /\ resident \in Nat /\ queueDepth \in Nat /\ queuedBytes \in Nat
    /\ activeUnits \in Nat /\ activeBytes \in Nat
    /\ accepting \in BOOLEAN /\ cancelled \in BOOLEAN
    /\ outcome \in [Unit -> {"none", "completed", "failed", "cancelled"}]
    /\ pc \in [Thread -> {"idle", "check", "asleep", "notify", "accepted",
                          "rejected", "running", "exited", "join", "done"}]
    /\ running \in [Spawned -> Unit \cup {NoUnit}]
    /\ passed \subseteq Modality \X Modality

ActiveUnits == Range(running) \ {NoUnit}

\* The totals that predicates and snapshots read are those of the units that
\* are queued and executed, through every admission, completion and drain.
Accounting ==
    /\ queueDepth = Cardinality(QueuedUnits)
    /\ queuedBytes = SumOfBytes(QueuedUnits)
    /\ activeUnits = Cardinality(ActiveUnits)
    /\ activeBytes = SumOfBytes(ActiveUnits)
    /\ resident = queuedBytes + activeBytes

\* Queued and executed units together never exceed the byte budget, however
\* producers that were woken together race for the bytes released.
WithinBudget == SumOfBytes(QueuedUnits \cup ActiveUnits) <= Budget

Admitted(u) == pc[u] \in {"notify", "accepted"}

\* How often u is held: in the queues, by the workers, and as an outcome.
Places(u) ==
    Cardinality({ p \in Modality \X (1..queueDepth) :
                    p[2] <= Len(queue[p[1]]) /\ queue[p[1]][p[2]] = u })
    + Cardinality({ w \in Spawned : running[w] = u })
    + IF outcome[u] = "none" THEN 0 ELSE 1

\* An admitted unit is in exactly one place, a unit not admitted in none: no
\* unit is lost, executed twice or given two outcomes, also when it is drained
\* by a cancellation while workers take and complete others.
OnePlace == \A u \in Unit : Places(u) = IF Admitted(u) THEN 1 ELSE 0

\* Work is neither lost nor doubled, the totals count it, and the budget bounds
\* it (submit, worker_loop, complete_locked, request_cancel).
WorkIsConserved == OnePlace /\ Accounting /\ WithinBudget

\* A thread asleep while its predicate holds has a notify_all() still to come:
\* no completion, close, admission or cancellation leaves it behind.
NoLostWakeup ==
    \A t \in Thread : pc[t] = "asleep" /\ Ready(t) =>
      \E s \in Thread : pc[s] = "notify"

\* Past its wait, wait() stays past it: every admitted unit has its outcome, no
\* worker executes one, and the resident bytes are back at zero
\* (docs/scheduler.md, line 25).
WaitIsFinal ==
    pc[Owner] \in {"join", "done"} =>
      /\ \A u \in Unit : Admitted(u) => outcome[u] # "none"
      /\ \A w \in Spawned : running[w] = NoUnit
      /\ resident = 0

\* Once cancellation was requested no unit is taken or admitted, and no unit
\* gets another outcome than cancelled (docs/scheduler.md, line 21).
CancelIsHonoured ==
    [][cancelled =>
         /\ \A w \in Spawned : running'[w] \in {running[w], NoUnit}
         /\ \A u \in Unit : ~Admitted(u) => pc'[u] # "notify"
         /\ \A u \in Unit : outcome'[u] # outcome[u] =>
              outcome'[u] \in {"cancelled", "none"}]_vars

Served(m) == \E w \in Spawned : /\ pc[w] # "running" /\ pc'[w] = "running"
                                /\ ModalityOf[running'[w]] = m

\* No modality is served twice while another one waits: a queue with work is
\* overtaken at most once by each other queue (docs/scheduler.md, line 10).
RoundRobinFair ==
    [][\A p \in passed : queue[p[1]] # <<>> => ~Served(p[2])]_vars

\* The units of modality m that have been taken from their queue.
Taken(m) == Cardinality({ u \in Unit : /\ ModalityOf[u] = m /\ Admitted(u)
                                       /\ u \notin QueuedUnits })

\* In deterministic mode the n-th unit of a modality is served before every
\* later one and, among the n-th ones, by modality: the order depends on the
\* batch alone, never on the threads (docs/scheduler.md, line 14).
DeterministicOrder ==
    [][\A m, k \in Modality :
         Deterministic /\ Served(m) /\ m # k /\ queue[k] # <<>> =>
           Taken(m) < Taken(k) \/ (Taken(m) = Taken(k) /\ m < k)]_vars

\* A deterministic submit() never blocks (docs/scheduler.md, line 15).
DeterministicNeverBlocks ==
    Deterministic => \A u \in Unit : pc[u] # "asleep"

\* A deterministic batch is taken without blocking and executed in its own order
\* (submit, select_locked).
BatchIsDeterministic == DeterministicOrder /\ []DeterministicNeverBlocks

Calling(u) == pc[u] \in {"check", "asleep"}

\* Every call returns.  submit() does, unless a unit that only ends when asked
\* to stop is executed: backpressure ends.  wait() does, once no such unit is
\* left or cancellation was requested: no worker, producer or owner sleeps for
\* ever.
CallsReturn ==
    /\ \A u \in Unit : Calling(u) ~>
         ~Calling(u) \/ (~cancelled /\ ActiveUnits \cap Endless # {})
    /\ /\ pc[Owner] \notin {"idle", "done"}
       /\ cancelled \/ Endless \cap (QueuedUnits \cup ActiveUnits) = {}
       ~> pc[Owner] = "done"
=============================================================================
