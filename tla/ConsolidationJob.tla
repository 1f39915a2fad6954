-------------------------- MODULE ConsolidationJob --------------------------
(* One consolidation job, from its submission to its end: the rows it keeps  *)
(* in the database (job, tasks, locks, datasets), the queue of events that   *)
(* moves it, the event handlers that run its steps concurrently, the workers *)
(* that build the new containers, and the user who may interrupt it.         *)
EXTENDS JobHandlers, FiniteSets

CONSTANTS
    Task,        \* the consolidation tasks the layout may call for (cell, container)
    Source,      \* the ACTIVE datasets listed for the job
    Inputs       \* the datasets that a task merges

ASSUME TaskAssumption == IsFiniteSet(Task)
ASSUME InputsAssumption == Inputs \in [Task -> (SUBSET Source) \ {{}}]

VARIABLES
    plan,       \* the tasks the contents of the catalogue call for (never changes)
    collapse,   \* is it a consolidation into a collapse record? (never changes)
    task,       \* the rows of the tasks
    status,     \* the status of the source datasets...
    lock,       \* ... and their row in locked_datasets
    output,     \* the datasets of each task (INACTIVE ones are locked NEW by the job)
    deletion,   \* the deletion job created for the replaced datasets
    file,       \* the containers present in the storage
    cancelFile, \* the tasks with a cancellation file in the storage
    taskEvents, \* task events in the queue
    orders      \* consolidation orders, by progress

database == <<job, plan, collapse, task, status, lock, output, deletion>>
storage == <<file, cancelFile>>
queues == <<jobEvents, taskEvents, orders>>
vars == <<database, storage, queues, handler, commands, faults>>

-----------------------------------------------------------------------------
(* Types *)
TaskState == {"NEW", "PENDING", "DONE", "FAILED", "CANCELLED"}
ActiveTask == {"NEW", "PENDING"}
TaskStatus == {"TaskSuccessful", "TaskFailed"}
Progress == {"queued", "checked", "uploaded"}

(* What a handler does on entering a state: csldOnEnterNewState. *)
StepOf(s) ==
    CASE s = "NEW" -> "publishJobCreated"
      [] s = "CREATED" -> "csldPrepareOrders"
      [] s = "CONSOLIDATIONINPROGRESS" -> "csldSendOrders"
      [] s = "CONSOLIDATIONDONE" -> "csldIndex"
      [] s = "CONSOLIDATIONINDEXED" -> "csldSwapDatasets"
      [] s = "CONSOLIDATIONEFFECTIVE" -> "csldDeleteDatasets"
      [] s = "CONSOLIDATIONCANCELLING" -> "csldCancel"
      [] s = "CONSOLIDATIONRETRYING" -> "csldConsolidationRetry"
      [] s = "CONSOLIDATIONFORCERETRYING" -> "csldConsolidationForceRetry"
      [] s = "ABORTED" -> "csldRollback"
      [] OTHER -> "idle"

(* The event published when a step fails. *)
FailureOf(pc) ==
    CASE pc = "csldPrepareOrders" -> "PrepareOrdersFailed"
      [] pc = "csldSendOrders" -> "SendOrdersFailed"
      [] pc = "csldIndex" -> "ConsolidationIndexingFailed"
      [] pc = "csldSwapDatasets" -> "SwapDatasetsFailed"
      [] pc = "csldDeleteDatasets" -> "StartDeletionFailed"
      [] pc \in {"csldCancel", "saveCancellation"} -> "CancellationFailed"
      [] pc \in {"csldConsolidationRetry", "csldConsolidationForceRetry"} ->
            "ConsolidationRetryFailed"
      [] OTHER -> "RollbackFailed"

(* Two steps stop midway: the cancellation files are uploaded before the job *)
(* is saved, and a rollback goes on with the containers that are not indexed. *)
Step == ({StepOf(s) : s \in ConsolidationState} \ {"idle"})
            \cup {"nothingToCancel", "saveCancellation", "deletePendingContainers"}

TypeOK ==
    /\ job \in [state : ConsolidationState \cup {Absent}, waiting : BOOLEAN,
                active : Nat, failed : Nat]
    /\ plan \subseteq Task
    /\ collapse \in BOOLEAN
    /\ task \in [Task -> TaskState \cup {Absent}]
    /\ status \in [Source -> {"ACTIVE", "TODELETE"}]
    /\ lock \in [Source -> {Absent, "INIT", "TODELETE", "deletion"}]
    /\ output \in [Task -> {Absent, "INACTIVE", "ACTIVE"}]
    /\ deletion \in {Absent, "NEW", "started"}
    /\ file \subseteq Task
    /\ cancelFile \subseteq Task
    /\ jobEvents \in [JobEvent -> Nat]
    /\ taskEvents \in [Task \X TaskStatus -> Nat]
    /\ orders \in [Task \X Progress -> Nat]
    /\ handler \in [Handler -> [pc : Step \cup {"idle"}, fresh : BOOLEAN,
                                msg : JobEvent \cup {Absent}]]
    /\ commands \in Nat
    /\ faults \in Nat

-----------------------------------------------------------------------------
(* Helpers *)

Tasks(S) == {t \in Task : task[t] \in S}
Planned == UNION {Inputs[t] : t \in plan}

(* The datasets replaced by the consolidation, that the job still locks. *)
Replaced == {s \in Source : status[s] = "TODELETE" /\ lock[s] \in {"INIT", "TODELETE"}}

(* The tasks whose container may exist without being indexed. *)
Unindexed == {t \in Tasks({"DONE", "PENDING"}) : output[t] = Absent}

(* Mutant: a task that leaves the FAILED state is still counted. *)
MutRecountKeepsFailed(T, s) ==
    LET moved == {t \in T : task[t] # s}
        gain(S) == IF s \in S THEN Cardinality(moved) ELSE 0
        loss(S) == Cardinality({t \in moved : task[t] \in S})
    IN  [job EXCEPT !.active = @ + gain(ActiveTask) - loss(ActiveTask),
                    !.failed = @ + gain({"FAILED"})]

(* setTaskState and updateTaskCounters, for all the tasks of T: Absent is    *)
(* the state before the creation and after the deletion of a task.           *)
Recount(T, s) ==
    LET moved == {t \in T : task[t] # s}
        gain(S) == IF s \in S THEN Cardinality(moved) ELSE 0
        loss(S) == Cardinality({t \in moved : task[t] \in S})
    IN  [job EXCEPT !.active = @ + gain(ActiveTask) - loss(ActiveTask),
                    !.failed = @ + gain({"FAILED"}) - loss({"FAILED"})]

SetTasks(T, s) ==
    /\ task' = [t \in Task |-> IF t \in T THEN s ELSE task[t]]
    /\ job' = Recount(T, s)

-----------------------------------------------------------------------------
(* Submission and commands of the user *)

Init ==
    /\ job = [state |-> Absent, waiting |-> FALSE, active |-> 0, failed |-> 0]
    /\ plan \in SUBSET Task
    /\ collapse \in BOOLEAN
    /\ task = [t \in Task |-> Absent]
    /\ status = [s \in Source |-> "ACTIVE"]
    /\ lock = [s \in Source |-> Absent]
    /\ output = [t \in Task |-> Absent]
    /\ deletion = Absent
    /\ file = {}
    /\ cancelFile = {}
    /\ jobEvents = [e \in JobEvent |-> 0]
    /\ taskEvents = [m \in Task \X TaskStatus |-> 0]
    /\ orders = [m \in Task \X Progress |-> 0]
    /\ handler = [h \in Handler |-> Idle]
    /\ commands = 0
    /\ faults = 0

(* ConsolidateFromRecords, csldInit: the datasets are locked and the job is  *)
(* created in one transaction, then the first event is published.            *)
csldInit ==
    /\ job.state = Absent
    /\ job' = [job EXCEPT !.state = "NEW"]
    /\ lock' = [s \in Source |-> "INIT"]
    /\ \/ Put("JobCreated") /\ NoFault
       \/ Fault /\ UNCHANGED jobEvents
    /\ UNCHANGED <<plan, collapse, task, status, output, deletion, storage, taskEvents, orders,
                   handler, commands>>

Triggered(e) == Trigger(ConsolidationEdges, ConsolidationPause, Level, job, e)

(* RetryJob, CancelJob, ContinueJob. *)
Command(c) ==
    /\ Send(c, Triggered(c))
    /\ UNCHANGED <<database, storage, taskEvents, orders, handler, faults>>

-----------------------------------------------------------------------------
(* The handler of job events *)

(* What csldOnEnterNewState runs on entering s. *)
Entered(s) ==
    IF s = "CONSOLIDATIONCANCELLING" /\ job.active = 0 THEN "nothingToCancel" ELSE StepOf(s)

Reached(e) ==
    {[state |-> j.state, waiting |-> j.waiting, step |-> Entered(j.state)] : j \in Triggered(e)}

Receive(h, e) ==
    /\ Handle(h, e, Reached(e))
    /\ UNCHANGED <<plan, collapse, task, status, lock, output, deletion, storage, taskEvents, orders,
                   commands, faults>>

Crash(h) ==
    /\ Stop(h)
    /\ UNCHANGED <<database, storage, taskEvents, orders, commands>>

(* A step cannot succeed when the copy of the job it would save is stale, or *)
(* when the orders were already prepared: the datasets are locked.           *)
Doomed(h) ==
    \/ /\ ~handler[h].fresh
       /\ ~At(h, "csldCancel")
       /\ At(h, "csldDeleteDatasets") => Replaced # {}
       /\ At(h, "deletePendingContainers") => Unindexed = {}
    \/ At(h, "csldPrepareOrders") /\ \E s \in Planned : lock[s] # "INIT"

(* The steps that fail publish their failure. *)
StepFails(h) ==
    /\ handler[h].pc \notin {"publishJobCreated", "nothingToCancel"}
    /\ Fails(h, Doomed(h), FailureOf(handler[h].pc))
    /\ UNCHANGED <<database, storage, taskEvents, orders, commands>>

(* State NEW, entered again by RetryForced. *)
publishJobCreated(h) ==
    /\ At(h, "publishJobCreated")
    /\ JustEmit(h, "JobCreated")
    /\ UNCHANGED <<database, storage, taskEvents, orders, commands>>

(* One task per container to build; the datasets they merge are locked to be *)
(* deleted, the others are released.                                         *)
csldPrepareOrders(h) ==
    /\ FreshAt(h, "csldPrepareOrders")
    /\ \A s \in Planned : lock[s] = "INIT"
    /\ SetTasks(plan, "NEW")
    /\ lock' = [s \in Source |-> IF s \in Planned THEN "TODELETE"
                                 ELSE IF lock[s] = "INIT" THEN Absent ELSE lock[s]]
    /\ SaveAndEmit(h, "OrdersPrepared")
    /\ UNCHANGED <<plan, collapse, status, output, deletion, storage, taskEvents, orders, commands>>

(* Mutant: the orders are collected after the tasks were updated. *)
MutOrdersToSendTooLate == Tasks({"NEW"}) \ Tasks(ActiveTask)

OrdersToSend == Tasks({"NEW"})

(* Mutant: the end is left to the events of the tasks. *)
MutAllTasksDoneIgnored == FALSE

AllTasksDone == Tasks(TaskState \ {"DONE"}) = {}

(* The NEW tasks become PENDING, then their orders are published, or the end *)
(* of the consolidation if there is nothing left to do.  If the publication  *)
(* is interrupted only some orders are sent.                                 *)
csldSendOrders(h) ==
    /\ FreshAt(h, "csldSendOrders")
    /\ SetTasks(Tasks({"NEW"}), "PENDING")
    /\ handler' = [Stale EXCEPT ![h] = Idle]
    /\ IF AllTasksDone
       THEN /\ UNCHANGED orders
            /\ \/ Put("ConsolidationDone") /\ NoFault
               \/ Fault /\ Put("SendOrdersFailed")
               \/ Fault /\ Put(handler[h].msg)
       ELSE \E sent \in SUBSET OrdersToSend :
            /\ orders' = [m \in Task \X Progress |->
                            IF m[1] \in sent /\ m[2] = "queued" THEN orders[m] + 1
                            ELSE orders[m]]
            /\ \/ sent = OrdersToSend /\ UNCHANGED jobEvents /\ NoFault
               \/ Fault /\ Put("SendOrdersFailed")
               \/ Fault /\ Put(handler[h].msg)
    /\ UNCHANGED <<plan, collapse, status, lock, output, deletion, storage, taskEvents, commands>>

(* Mutant: the task is not deleted. *)
mutIndexTaskKept(h, t) ==
    /\ FreshAt(h, "csldIndex")
    /\ task[t] = "DONE"
    /\ output[t] = Absent
    /\ output' = [output EXCEPT ![t] = "INACTIVE"]
    /\ Goto(h, "csldIndex")
    /\ UNCHANGED <<job, task, plan, collapse, status, lock, deletion, storage, queues, commands, faults>>

(* csldIndex: one transaction per task done. *)
indexTask(h, t) ==
    /\ FreshAt(h, "csldIndex")
    /\ task[t] = "DONE"
    /\ output' = [output EXCEPT ![t] = "INACTIVE"]
    /\ SetTasks({t}, Absent)
    /\ Goto(h, "csldIndex")
    /\ UNCHANGED <<plan, collapse, status, lock, deletion, storage, queues, commands, faults>>

(* The list of the tasks to index is empty: nothing is saved, so a stale     *)
(* handler succeeds too.                                                     *)
indexDone(h) ==
    /\ At(h, "csldIndex")
    /\ Tasks({"DONE"}) = {}
    /\ JustEmit(h, "ConsolidationIndexed")
    /\ UNCHANGED <<database, storage, taskEvents, orders, commands>>

(* Mutants: the sources are those of the initial lock; a collapse is treated *)
(* like any other consolidation.                                             *)
MutSwappedSourcesInit == IF collapse THEN {} ELSE {s \in Source : lock[s] = "INIT"}
MutSwappedSourcesCollapse == {s \in Source : lock[s] \in {"INIT", "TODELETE"}}

SwappedSources == IF collapse THEN {} ELSE {s \in Source : lock[s] \in {"INIT", "TODELETE"}}

(* The datasets locked by the job change status together: from ACTIVE to     *)
(* TODELETE (or they are released when collapsing), from INACTIVE to ACTIVE. *)
csldSwapDatasets(h) ==
    /\ FreshAt(h, "csldSwapDatasets")
    /\ status' = [s \in Source |-> IF s \in SwappedSources THEN "TODELETE" ELSE status[s]]
    /\ lock' = [s \in Source |-> IF collapse /\ lock[s] = "TODELETE" THEN Absent ELSE lock[s]]
    /\ output' = [t \in Task |-> IF output[t] = "INACTIVE" THEN "ACTIVE" ELSE output[t]]
    /\ SaveAndEmit(h, "DatasetsSwapped")
    /\ UNCHANGED <<job, plan, collapse, task, deletion, storage, taskEvents, orders, commands>>

(* The lock of the replaced datasets passes from the job to a new deletion   *)
(* job in one transaction, then the deletion job is started.                 *)
csldDeleteDatasets(h) ==
    /\ IF Replaced = {}
       THEN /\ At(h, "csldDeleteDatasets")
            /\ JustEmit(h, "DeletionStarted")
            /\ UNCHANGED <<lock, deletion>>
       ELSE /\ FreshAt(h, "csldDeleteDatasets")
            /\ handler' = [Stale EXCEPT ![h] = Idle]
            /\ lock' = [s \in Source |-> IF s \in Replaced THEN "deletion"
                                         ELSE IF lock[s] = "TODELETE" THEN Absent ELSE lock[s]]
            /\ \/ deletion' = "started" /\ Emit(h, "DeletionStarted")
               \/ deletion' = "NEW" /\ Fault /\ Put("StartDeletionFailed")
               \/ deletion' = "NEW" /\ Fault /\ Put(handler[h].msg)
    /\ UNCHANGED <<job, plan, collapse, task, status, output, storage, taskEvents, orders, commands>>

(* csldCancel: without active task there is nothing to do... *)
nothingToCancel(h) ==
    /\ At(h, "nothingToCancel")
    /\ JustEmit(h, "CancellationDone")
    /\ UNCHANGED <<database, storage, taskEvents, orders, commands>>

(* ... otherwise a cancellation file is uploaded for each PENDING task... *)
csldCancel(h) ==
    /\ At(h, "csldCancel")
    /\ cancelFile' = cancelFile \cup Tasks({"PENDING"})
    /\ handler' = [handler EXCEPT ![h].pc = "saveCancellation"]
    /\ UNCHANGED <<database, file, queues, commands, faults>>

(* ... and the job is saved, without waiting for the workers. *)
saveCancellation(h) ==
    /\ FreshAt(h, "saveCancellation")
    /\ SaveAndEmit(h, "CancellationDone")
    /\ UNCHANGED <<database, storage, taskEvents, orders, commands>>

csldConsolidationRetry(h) ==
    /\ FreshAt(h, "csldConsolidationRetry")
    /\ SetTasks(Tasks({"FAILED"}), "NEW")
    /\ SaveAndEmit(h, "OrdersPrepared")
    /\ UNCHANGED <<plan, collapse, status, lock, output, deletion, storage, taskEvents, orders, commands>>

csldConsolidationForceRetry(h) ==
    /\ FreshAt(h, "csldConsolidationForceRetry")
    /\ SetTasks(Tasks({"NEW", "FAILED", "PENDING"}), "NEW")
    /\ SaveAndEmit(h, "OrdersPrepared")
    /\ UNCHANGED <<plan, collapse, status, lock, output, deletion, storage, taskEvents, orders, commands>>

(* Mutant: the first transaction releases all the datasets of the job. *)
mutCsldRollbackReleasesAll(h) ==
    LET removed == {t \in Task : output[t] = "INACTIVE"}
    IN  /\ FreshAt(h, "csldRollback")
        /\ output' = [t \in Task |-> IF t \in removed THEN Absent ELSE output[t]]
        /\ lock' = [s \in Source |-> Absent]
        /\ file' = file \ removed
        /\ Goto(h, "deletePendingContainers")
        /\ UNCHANGED <<job, plan, collapse, task, status, deletion, cancelFile, queues, commands, faults>>

(* csldRollback, first transaction: the inactive datasets are removed.  Then *)
(* their containers are deleted, ignoring errors.                            *)
csldRollback(h) ==
    LET removed == {t \in Task : output[t] = "INACTIVE"}
    IN  /\ FreshAt(h, "csldRollback")
        /\ output' = [t \in Task |-> IF t \in removed THEN Absent ELSE output[t]]
        /\ \/ file' = file \ removed /\ NoFault
           \/ Fault /\ \E kept \in SUBSET removed : file' = file \ (removed \ kept)
        /\ Goto(h, "deletePendingContainers")
        /\ UNCHANGED <<job, plan, collapse, task, status, lock, deletion, cancelFile, queues, commands>>

(* csldSubFncDeletePendingRemoteContainers: the container of a task that is  *)
(* not indexed is deleted, then the task is cancelled and the job saved.     *)
deletePendingContainer(h, t) ==
    /\ At(h, "deletePendingContainers")
    /\ t \in Unindexed
    /\ file' = file \ {t}
    /\ IF handler[h].fresh
       THEN /\ SetTasks({t}, "CANCELLED")
            /\ Goto(h, "deletePendingContainers")
            /\ UNCHANGED <<jobEvents, faults>>
       ELSE /\ UNCHANGED <<task, job>>
            /\ JustEmit(h, "RollbackFailed")
    /\ UNCHANGED <<plan, collapse, status, lock, output, deletion, cancelFile, taskEvents, orders, commands>>

(* Mutant: the datasets locked by csldInit are forgotten. *)
mutRollbackDoneForgetsInit(h) ==
    /\ FreshAt(h, "deletePendingContainers")
    /\ Unindexed = {}
    /\ SetTasks(Task, Absent)
    /\ lock' = [s \in Source |-> IF lock[s] = "TODELETE" THEN Absent ELSE lock[s]]
    /\ SaveAndEmit(h, "RollbackDone")
    /\ UNCHANGED <<plan, collapse, status, output, deletion, storage, taskEvents, orders, commands>>

(* csldRollback, last transaction: tasks are deleted, datasets released. *)
rollbackDone(h) ==
    /\ FreshAt(h, "deletePendingContainers")
    /\ Unindexed = {}
    /\ SetTasks(Task, Absent)
    /\ lock' = [s \in Source |-> IF lock[s] \in {"INIT", "TODELETE"} THEN Absent ELSE lock[s]]
    /\ SaveAndEmit(h, "RollbackDone")
    /\ UNCHANGED <<plan, collapse, status, output, deletion, storage, taskEvents, orders, commands>>

HandlerStep(h) ==
    \/ \E e \in JobEvent : Receive(h, e)
    \/ StepFails(h) \/ publishJobCreated(h) \/ csldPrepareOrders(h) \/ csldSendOrders(h)
    \/ \E t \in Task : indexTask(h, t)
    \/ indexDone(h) \/ csldSwapDatasets(h) \/ csldDeleteDatasets(h)
    \/ nothingToCancel(h) \/ csldCancel(h) \/ saveCancellation(h)
    \/ csldConsolidationRetry(h) \/ csldConsolidationForceRetry(h)
    \/ csldRollback(h) \/ rollbackDone(h)
    \/ \E t \in Task : deletePendingContainer(h, t)

-----------------------------------------------------------------------------
(* The handler of task events *)

StateOf(st) == IF st = "TaskSuccessful" THEN "DONE" ELSE "FAILED"

(* UpdateTask: what becomes of the task; an event is rejected when the job   *)
(* is not running tasks or the task is done, unless it changes nothing.      *)
Accepted(t, st) ==
    \/ task[t] = StateOf(st)
    \/ /\ job.state \in {"CONSOLIDATIONINPROGRESS", "CONSOLIDATIONCANCELLING"}
       /\ task[t] # "DONE"

Ignored(t, st) == task[t] \in {"FAILED", "CANCELLED"} /\ st = "TaskFailed"

(* Mutant: the failed tasks are not considered. *)
MutConclusionOptimistic(j) ==
    IF j.active # 0 \/ j.state \in {"CANCELLATIONFAILED", "ABORTED", "ROLLBACKFAILED", "FAILED"}
    THEN Absent
    ELSE IF j.state = "CONSOLIDATIONCANCELLING" THEN "CancellationDone"
    ELSE "ConsolidationDone"

(* The event published when no task is active any more. *)
Conclusion(j) ==
    IF j.active # 0 \/ j.state \in {"CANCELLATIONFAILED", "ABORTED", "ROLLBACKFAILED", "FAILED"}
    THEN Absent
    ELSE IF j.state = "CONSOLIDATIONCANCELLING" THEN "CancellationDone"
    ELSE IF j.failed > 0 THEN "ConsolidationFailed"
    ELSE "ConsolidationDone"

(* handleTaskEvt: read the job and the task, update, save, publish.  Even an *)
(* event that changes nothing saves the job and publishes the conclusion.    *)
handleTaskEvt(t, st) ==
    LET redelivered == Fault /\ UNCHANGED taskEvents
        consumed == taskEvents' = [taskEvents EXCEPT ![<<t, st>>] = @ - 1]
        conclusion == Conclusion(job')
    IN  /\ taskEvents[<<t, st>>] > 0
        /\ IF task[t] = Absent \/ job.state = "FAILED" \/ ~Accepted(t, st)
           THEN consumed /\ UNCHANGED <<job, task, handler, jobEvents, faults>>
           ELSE /\ SetTasks(IF Ignored(t, st) THEN {} ELSE {t}, StateOf(st))
                /\ handler' = Stale
                /\ IF conclusion = Absent
                   THEN consumed /\ UNCHANGED <<jobEvents, faults>>
                   ELSE \/ consumed /\ Put(conclusion) /\ NoFault
                        \/ consumed /\ Fault /\ UNCHANGED jobEvents
                        \/ redelivered /\ UNCHANGED jobEvents
        /\ UNCHANGED <<plan, collapse, status, lock, output, deletion, storage, orders, commands>>

-----------------------------------------------------------------------------
(* The workers: cmd/consolidater and the consolidation handler *)

Advance(t, from, to) ==
    /\ orders[<<t, from>>] > 0
    /\ orders' = [orders EXCEPT ![<<t, from>>] = @ - 1, ![<<t, to>>] = @ + 1]

Finish(t, from) ==
    /\ orders[<<t, from>>] > 0
    /\ orders' = [orders EXCEPT ![<<t, from>>] = @ - 1]

Report(t, st) == taskEvents' = [taskEvents EXCEPT ![<<t, st>>] = @ + 1]

(* The last check before the upload finds no cancellation file. *)
workerChecks(t) ==
    /\ t \notin cancelFile
    /\ Advance(t, "queued", "checked")
    /\ UNCHANGED <<database, storage, jobEvents, taskEvents, handler, commands, faults>>

(* A cancellation file is found: TaskCancelled, which the server ignores; the *)
(* container is deleted unless the check was the first one.                   *)
workerCancelled(t) ==
    /\ t \in cancelFile
    /\ Finish(t, "queued")
    /\ file' \in {file, file \ {t}}
    /\ UNCHANGED <<database, cancelFile, jobEvents, taskEvents, handler, commands, faults>>

(* Mutant: the error of the upload is not looked at. *)
mutWorkerUploadsUnchecked(t) ==
    /\ Advance(t, "checked", "uploaded")
    /\ file' \in {file, file \cup {t}}
    /\ UNCHANGED <<database, cancelFile, jobEvents, taskEvents, handler, commands, faults>>

workerUploads(t) ==
    /\ Advance(t, "checked", "uploaded")
    /\ file' = file \cup {t}
    /\ UNCHANGED <<database, cancelFile, jobEvents, taskEvents, handler, commands, faults>>

(* Mutant: the container is not deleted. *)
mutWorkerReportsKeepsFile(t) ==
    /\ Finish(t, "uploaded")
    /\ \/ Report(t, "TaskSuccessful")
       \/ t \in cancelFile /\ UNCHANGED taskEvents
    /\ UNCHANGED <<database, storage, jobEvents, handler, commands, faults>>

(* The end of the work checks twice: to report a success or a cancellation,  *)
(* then to delete the container; the file may appear between the two.        *)
workerReports(t) ==
    /\ Finish(t, "uploaded")
    /\ IF t \in cancelFile
       THEN /\ file' = file \ {t}
            /\ Report(t, "TaskSuccessful") \/ UNCHANGED taskEvents
       ELSE Report(t, "TaskSuccessful") /\ UNCHANGED file
    /\ UNCHANGED <<database, cancelFile, jobEvents, handler, commands, faults>>

(* The consolidation fails, or the order was tried too many times. *)
workerFails(t) ==
    /\ \/ Finish(t, "queued") /\ file' \in {file, file \ (cancelFile \cap {t})}
       \/ Finish(t, "checked") /\ file' = file \ (cancelFile \cap {t})
    /\ Report(t, "TaskFailed")
    /\ UNCHANGED <<database, cancelFile, jobEvents, handler, commands, faults>>

(* A worker stops, or meets a temporary error: the order is delivered again. *)
workerCrashes(t) ==
    /\ Fault
    /\ \E from \in {"checked", "uploaded"} : Advance(t, from, "queued")
    /\ UNCHANGED <<database, storage, jobEvents, taskEvents, handler, commands>>

WorkerStep(t) ==
    workerChecks(t) \/ workerCancelled(t) \/ workerUploads(t) \/ workerReports(t) \/ workerFails(t)

-----------------------------------------------------------------------------
(* The queues deliver at least once *)

duplicateJobEvent(e) ==
    /\ jobEvents[e] > 0
    /\ Fault
    /\ Put(e)
    /\ UNCHANGED <<database, storage, taskEvents, orders, handler, commands>>

duplicateTaskEvent(t, st) ==
    /\ taskEvents[<<t, st>>] > 0
    /\ Fault
    /\ Report(t, st)
    /\ UNCHANGED <<database, storage, jobEvents, orders, handler, commands>>

Next ==
    \/ csldInit
    \/ \E c \in Commands : Command(c)
    \/ \E h \in Handler : HandlerStep(h) \/ Crash(h)
    \/ \E t \in Task, st \in TaskStatus : handleTaskEvt(t, st) \/ duplicateTaskEvent(t, st)
    \/ \E t \in Task : WorkerStep(t) \/ workerCrashes(t)
    \/ \E e \in JobEvent : duplicateJobEvent(e)

Spec == Init /\ [][Next]_vars

(* The queues keep delivering and the handlers and workers keep running;     *)
(* faults and commands may never happen.                                     *)
FairSpec ==
    /\ Spec
    /\ WF_vars(csldInit)
    /\ WF_vars(\E h \in Handler : HandlerStep(h))
    /\ WF_vars(\E t \in Task, st \in TaskStatus : handleTaskEvt(t, st))
    /\ WF_vars(\E t \in Task : WorkerStep(t))

-----------------------------------------------------------------------------
(* Safety properties *)

(* The counters of the job are those of its tasks, whatever the events,      *)
(* retries and cancellations that updated them: the end of the consolidation *)
(* is decided on them alone, and a negative counter is a panic (job.go,      *)
(* setTaskState; operations.go, handleTaskEvt).                              *)
CountersMatch ==
    /\ job.active = Cardinality(Tasks(ActiveTask))
    /\ job.failed = Cardinality(Tasks({"FAILED"}))

(* No data is ever lost: a dataset is out of the catalogue only while all    *)
(* the containers it was merged into are in (csldSwapDatasets, csldIndex,    *)
(* csldRollback, under any interleaving of events and any fault).            *)
NothingLost ==
    \A t \in plan : \A s \in Inputs[t] : status[s] # "ACTIVE" => output[t] = "ACTIVE"

(* No data is ever served twice: a container is not in the catalogue with    *)
(* the datasets it replaces, unless it was built for another record          *)
(* (csldSwapDatasets).                                                       *)
ServedOnce ==
    ~collapse =>
        \A t \in plan : \A s \in Inputs[t] : output[t] = "ACTIVE" => status[s] # "ACTIVE"

(* A dataset of the catalogue, even inactive, has its container in the       *)
(* storage, in spite of cancelled workers, rollbacks and handlers that work  *)
(* on a stale job (csldIndex, csldSubFncDeletePendingRemoteContainers,       *)
(* Consolidate's deferred deletion).                                         *)
IndexedHasFile == \A t \in Task : output[t] # Absent => t \in file

(* A container is indexed once: the task that built it is deleted with the   *)
(* indexing, so that no retry indexes it again and no rollback takes its     *)
(* container for a pending one (csldIndex).                                  *)
IndexedOnce == \A t \in Task : task[t] # Absent => output[t] = Absent

(* Until the swap, the datasets to replace stay locked by the job: no other  *)
(* job may consolidate or delete them (csldPrepareOrders, csldRollback).     *)
InputsStayLocked ==
    \A t \in Task : \A s \in Inputs[t] :
        task[t] # Absent \/ output[t] = "INACTIVE" => lock[s] = "TODELETE"

(* A job that says it is effective has swapped every container of its plan,  *)
(* even when old events are delivered late or twice (handleTaskEvt,          *)
(* csldSendOrders, csldIndex, csldSwapDatasets).                             *)
EffectiveIsComplete ==
    job.state \in {"CONSOLIDATIONEFFECTIVE", "DONE", "DONEBUTUNTIDY"} =>
        \A t \in plan : output[t] = "ACTIVE"

(* A rollback that succeeds leaves nothing: no task, no inactive dataset, no *)
(* dataset locked by the job (csldRollback; job.go, RollbackDone).           *)
RolledBack ==
    /\ Tasks(TaskState) = {}
    /\ \A t \in Task : output[t] # "INACTIVE"
    /\ \A s \in Source : lock[s] \notin {"INIT", "TODELETE"}

RollbackIsClean == [][job.state = "ABORTED" /\ job'.state = "FAILED" => RolledBack']_vars

(* A job that failed has left no container in the storage, once its last     *)
(* worker has stopped (csldCancel, csldRollback, Consolidate).               *)
NoOrphanFile ==
    /\ job.state = "FAILED"
    /\ \A m \in Task \X Progress : orders[m] = 0
    => \A t \in file : output[t] = "ACTIVE"

(* A task that is PENDING in a job in progress is being worked on: there is  *)
(* an order, an event or a handler that will change it (csldSendOrders,      *)
(* handleTaskEvt).                                                           *)
PendingIsInFlight ==
    job.state = "CONSOLIDATIONINPROGRESS" =>
        \A t \in Tasks({"PENDING"}) :
            \/ \E p \in Progress : orders[<<t, p>>] > 0
            \/ \E st \in TaskStatus : taskEvents[<<t, st>>] > 0

(* A job that failed has changed nothing in the catalogue: the consolidation *)
(* can be rolled back until it ends (csldRollback; operations.proto).        *)
FailedChangesNothing ==
    job.state = "FAILED" =>
        /\ \A s \in Source : status[s] = "ACTIVE"
        /\ \A t \in Task : output[t] # "ACTIVE"

-----------------------------------------------------------------------------
(* What the readers of the catalogue see *)

(* A job whose replacement was made has not failed them, whatever it says:   *)
(* that it may say so is the matter of FailedChangesNothing.                 *)
Outcome ==
    IF job.state \in {"CONSOLIDATIONEFFECTIVE", "DONE", "DONEBUTUNTIDY"} THEN "done"
    ELSE IF job.state = "FAILED" /\ \A t \in Task : output[t] # "ACTIVE" THEN "failed"
    ELSE "running"

Swap == INSTANCE CatalogueSwap
            WITH sources <- {s \in Source : status[s] = "ACTIVE"},
                 products <- {t \in Task : output[t] = "ACTIVE"},
                 outcome <- Outcome

(* The job implements the promised replacement: all at once, once, never     *)
(* undone, before any success and never after a failure, whatever the user   *)
(* forces (csldIndex, csldSwapDatasets, csldRollback and the automaton that  *)
(* orders them).                                                             *)
KeepsPromise == Swap!Spec

-----------------------------------------------------------------------------
(* Liveness *)

(* A job that ended, or that only a command of the user can move. *)
Settled ==
    \/ job.waiting
    \/ job.state \in {"DONE", "FAILED", "DONEBUTUNTIDY", "INITIALISATIONFAILED",
                      "CONSOLIDATIONFAILED", "CANCELLATIONFAILED", "ROLLBACKFAILED"}

(* A job ends or asks the user, whatever tasks fail and however cancellations *)
(* race with the steps: no state is left without an event to leave it        *)
(* (csldOnEnterNewState, handleTaskEvt).                                     *)
EventuallySettles == <>[]Settled
=============================================================================
