----------------------------- MODULE DeletionJob -----------------------------
(* One deletion job (internal/svc/operations.go, del... functions): it hides *)
(* the datasets it locks, removes them from the catalogue with the containers *)
(* that become empty, then deletes the files of these containers.  The job   *)
(* is submitted by a user, for datasets that can be read, or created by a    *)
(* consolidation, for the datasets it has replaced.                          *)
EXTENDS JobHandlers, FiniteSets

CONSTANTS
    Dataset,     \* the datasets of the catalogue
    Container,   \* their containers
    In,          \* the container of each dataset
    Managed,     \* the containers whose file the Geocube must delete
    Chosen       \* the datasets to delete

ASSUME ContainerAssumption == IsFiniteSet(Container)
ASSUME InAssumption == In \in [Dataset -> Container]
ASSUME ChosenAssumption == Managed \subseteq Container /\ Chosen \subseteq Dataset
ASSUME ManagedAssumption == \A c \in Managed : \E d \in Dataset : In[d] = c

VARIABLES
    status,     \* the status of the datasets, Absent once removed from the catalogue
    locked,     \* the datasets locked by the job, with the flag TODELETE
    task,       \* the row of the deletion task of each container
    file,       \* the containers present in the storage
    deleting    \* for each handler, the files to delete and those it could not

vars == <<job, status, locked, task, file, deleting, jobEvents, handler, commands, faults>>

-----------------------------------------------------------------------------
(* What a handler does on entering a state: delOnEnterNewState. *)
StepOf(s) ==
    CASE s = "NEW" -> "publishJobCreated"
      [] s = "CREATED" -> "delSetToDelete"
      [] s = "DELETIONINPROGRESS" -> "delRemoveDatasets"
      [] s = "DELETIONEFFECTIVE" -> "delDeleteContainers"
      [] s = "ABORTED" -> "delRollback"
      [] OTHER -> "idle"

FailureOf(pc) ==
    CASE pc = "delSetToDelete" -> "DeletionNotReady"
      [] pc = "delRemoveDatasets" -> "RemovalFailed"
      [] pc \in {"delDeleteContainers", "deleteContainers"} -> "DeletionFailed"
      [] OTHER -> "RollbackFailed"

(* Two steps stop midway: the files are deleted before the job is saved, and *)
(* the datasets are restored before they are released.                       *)
Step == ({StepOf(s) : s \in DeletionState} \ {"idle"}) \cup {"deleteContainers", "releaseDatasets"}

Nothing == [left |-> {}, failed |-> {}]

TaskState == {"NEW", "FAILED"}

TypeOK ==
    /\ job \in [state : DeletionState \cup {Absent}, waiting : BOOLEAN,
                active : Nat, failed : Nat]
    /\ status \in [Dataset -> {Absent, "ACTIVE", "TODELETE"}]
    /\ locked \subseteq Chosen
    /\ task \in [Container -> TaskState \cup {Absent}]
    /\ file \subseteq Container
    /\ deleting \in [Handler -> [left : SUBSET Container, failed : SUBSET Container]]
    /\ jobEvents \in [JobEvent -> Nat]
    /\ handler \in [Handler -> [pc : Step \cup {"idle"}, fresh : BOOLEAN,
                                msg : JobEvent \cup {Absent}]]
    /\ commands \in Nat
    /\ faults \in Nat

Tasks(S) == {c \in Container : task[c] \in S}

(* Mutant: a task that leaves the FAILED state is still counted. *)
MutSetTasksKeepsFailed(new) ==
    LET moved == {c \in Container : new[c] # task[c]}
        entering(s) == Cardinality({c \in moved : new[c] = s})
    IN  /\ task' = new
        /\ job' = [job EXCEPT !.active = @ + entering("NEW") - Cardinality(moved \cap Tasks({"NEW"})),
                              !.failed = @ + entering("FAILED")]

(* setTaskState and updateTaskCounters, for each task that changes. *)
SetTasks(new) ==
    LET moved == {c \in Container : new[c] # task[c]}
        change(s) == Cardinality({c \in moved : new[c] = s}) - Cardinality({c \in moved : task[c] = s})
    IN  /\ task' = new
        /\ job' = [job EXCEPT !.active = @ + change("NEW"), !.failed = @ + change("FAILED")]

(* The datasets of the job are those it has locked. *)
ChangeDatasetsStatus(from, to) ==
    status' = [d \in Dataset |-> IF d \in locked /\ status[d] = from THEN to ELSE status[d]]

-----------------------------------------------------------------------------
(* Submission and commands of the user *)

Init ==
    /\ job = [state |-> Absent, waiting |-> FALSE, active |-> 0, failed |-> 0]
    /\ \E replaced \in {{}, Chosen} :
        status = [d \in Dataset |-> IF d \in replaced THEN "TODELETE" ELSE "ACTIVE"]
    /\ locked = {}
    /\ task = [c \in Container |-> Absent]
    /\ file = Container
    /\ deleting = [h \in Handler |-> Nothing]
    /\ jobEvents = [e \in JobEvent |-> 0]
    /\ handler = [h \in Handler |-> Idle]
    /\ commands = 0
    /\ faults = 0

(* DeleteDatasets and delInit, or csldDeleteDatasets: the datasets are locked *)
(* and the job created in one transaction, then the first event is published. *)
delInit ==
    /\ job.state = Absent
    /\ job' = [job EXCEPT !.state = "NEW"]
    /\ locked' = Chosen
    /\ \/ Put("JobCreated") /\ NoFault
       \/ Fault /\ UNCHANGED jobEvents
    /\ UNCHANGED <<status, task, file, deleting, handler, commands>>

Triggered(e) == Trigger(DeletionEdges, DeletionPause, Level, job, e)

Command(c) ==
    /\ Send(c, Triggered(c))
    /\ UNCHANGED <<job, status, locked, task, file, deleting, handler, faults>>

-----------------------------------------------------------------------------
(* The handlers of job events *)

Reached(e) ==
    {[state |-> j.state, waiting |-> j.waiting, step |-> StepOf(j.state)] : j \in Triggered(e)}

Receive(h, e) ==
    /\ Handle(h, e, Reached(e))
    /\ UNCHANGED <<status, locked, task, file, deleting, commands, faults>>

Crash(h) ==
    /\ Stop(h)
    /\ deleting' = [deleting EXCEPT ![h] = Nothing]
    /\ UNCHANGED <<job, status, locked, task, file, commands>>

(* A step that has a stale copy of the job to save cannot succeed. *)
Doomed(h) ==
    /\ ~handler[h].fresh
    /\ handler[h].pc \notin {"delDeleteContainers", "delRollback"}
    /\ deleting[h].left = {}

StepFails(h) ==
    /\ ~At(h, "publishJobCreated")
    /\ Fails(h, Doomed(h), FailureOf(handler[h].pc))
    /\ deleting' = [deleting EXCEPT ![h] = Nothing]
    /\ UNCHANGED <<job, status, locked, task, file, commands>>

publishJobCreated(h) ==
    /\ At(h, "publishJobCreated")
    /\ JustEmit(h, "JobCreated")
    /\ UNCHANGED <<job, status, locked, task, file, deleting, commands>>

(* The datasets are hidden. *)
delSetToDelete(h) ==
    /\ FreshAt(h, "delSetToDelete")
    /\ ChangeDatasetsStatus("ACTIVE", "TODELETE")
    /\ SaveAndEmit(h, "DeletionReady")
    /\ UNCHANGED <<job, locked, task, file, deleting, commands>>

(* Mutant: a container is removed as soon as it loses a dataset. *)
MutEmptiedAnyLoss(removed) == {In[d] : d \in removed}

(* The containers left without dataset. *)
Emptied(removed) ==
    {c \in {In[d] : d \in removed} :
        \A d \in Dataset : In[d] = c => d \in removed \/ status[d] = Absent}

(* The hidden datasets are released, then removed with the containers they   *)
(* leave empty; a task is created for each of these that must be deleted.    *)
delRemoveDatasets(h) ==
    LET removed == {d \in locked : status[d] = "TODELETE"}
    IN  /\ FreshAt(h, "delRemoveDatasets")
        /\ status' = [d \in Dataset |-> IF d \in removed THEN Absent ELSE status[d]]
        /\ locked' = {}
        /\ SetTasks([c \in Container |-> IF c \in Emptied(removed) \cap Managed THEN "NEW"
                                         ELSE task[c]])
        /\ SaveAndEmit(h, "RemovalDone")
        /\ UNCHANGED <<file, deleting, commands>>

(* Mutant: the failed tasks are not retried. *)
MutToDeleteNew == Tasks({"NEW"})

ToDelete == Tasks(TaskState)

(* The tasks are read from the database, even by a handler whose copy of the *)
(* job is stale.  Without task there is nothing to delete and nothing saved. *)
delDeleteContainers(h) ==
    /\ At(h, "delDeleteContainers")
    /\ IF ToDelete = {}
       THEN JustEmit(h, "DeletionDone") /\ UNCHANGED deleting
       ELSE /\ deleting' = [deleting EXCEPT ![h] = [left |-> ToDelete, failed |-> {}]]
            /\ handler' = [handler EXCEPT ![h].pc = "deleteContainers"]
            /\ UNCHANGED <<jobEvents, faults>>
    /\ UNCHANGED <<job, status, locked, task, file, commands>>

(* The files are deleted in any order; a file already deleted is a success.  *)
deleteContainer(h, c) ==
    /\ At(h, "deleteContainers")
    /\ c \in deleting[h].left
    /\ \/ /\ file' = file \ {c}
          /\ deleting' = [deleting EXCEPT ![h].left = @ \ {c}]
          /\ NoFault
       \/ /\ Fault
          /\ deleting' = [deleting EXCEPT ![h].left = @ \ {c}, ![h].failed = @ \cup {c}]
          /\ UNCHANGED file
    /\ UNCHANGED <<job, status, locked, task, jobEvents, handler, commands>>

(* Mutant: the tasks that failed are deleted with the others. *)
MutRemainingNone(h) == [c \in Container |-> Absent]

(* The tasks that are done are deleted. *)
Remaining(h) == [c \in Container |-> IF c \in deleting[h].failed THEN "FAILED" ELSE Absent]

(* Once all the files were tried, the job is saved. *)
saveDeletions(h) ==
    /\ FreshAt(h, "deleteContainers")
    /\ deleting[h].left = {}
    /\ SetTasks(Remaining(h))
    /\ SaveAndEmit(h, IF deleting[h].failed = {} THEN "DeletionDone" ELSE "DeletionFailed")
    /\ deleting' = [deleting EXCEPT ![h] = Nothing]
    /\ UNCHANGED <<status, locked, file, commands>>

(* Mutant: the datasets are released, then restored. *)
mutDelRollbackReleasesFirst(h) ==
    /\ At(h, "delRollback")
    /\ locked' = {}
    /\ handler' = [handler EXCEPT ![h].pc = "releaseDatasets"]
    /\ UNCHANGED <<job, status, task, file, deleting, jobEvents, commands, faults>>

(* delRollback, first transaction: the datasets are restored, whoever saved  *)
(* the job meanwhile...                                                      *)
delRollback(h) ==
    /\ At(h, "delRollback")
    /\ ChangeDatasetsStatus("TODELETE", "ACTIVE")
    /\ handler' = [handler EXCEPT ![h].pc = "releaseDatasets"]
    /\ UNCHANGED <<job, locked, task, file, deleting, jobEvents, commands, faults>>

(* ... then they are released. *)
releaseDatasets(h) ==
    /\ FreshAt(h, "releaseDatasets")
    /\ locked' = {}
    /\ SaveAndEmit(h, "RollbackDone")
    /\ UNCHANGED <<job, status, task, file, deleting, commands>>

HandlerStep(h) ==
    \/ \E e \in JobEvent : Receive(h, e)
    \/ StepFails(h) \/ publishJobCreated(h) \/ delSetToDelete(h) \/ delRemoveDatasets(h)
    \/ delDeleteContainers(h) \/ saveDeletions(h)
    \/ \E c \in Container : deleteContainer(h, c)
    \/ delRollback(h) \/ releaseDatasets(h)

(* The queue delivers at least once. *)
duplicateJobEvent(e) ==
    /\ jobEvents[e] > 0
    /\ Fault
    /\ Put(e)
    /\ UNCHANGED <<job, status, locked, task, file, deleting, handler, commands>>

Next ==
    \/ delInit
    \/ \E c \in Commands : Command(c)
    \/ \E h \in Handler : HandlerStep(h) \/ Crash(h)
    \/ \E e \in JobEvent : duplicateJobEvent(e)

Spec == Init /\ [][Next]_vars

-----------------------------------------------------------------------------
(* Safety properties *)

Registered == {In[d] : d \in {x \in Dataset : status[x] # Absent}}

(* A dataset of the catalogue can be read: its container is in the storage,  *)
(* even when handlers that work on a stale job delete files, and however     *)
(* often the deletion is retried (delRemoveDatasets, delDeleteContainers).   *)
NoDanglingDataset == Registered \subseteq file

(* No file is forgotten: as long as a managed container without dataset is   *)
(* in the storage, a task remains to delete it, so that the job can be       *)
(* retried after any failure (delRemoveDatasets, delDeleteContainers).       *)
NoForgottenFile == \A c \in (file \cap Managed) \ Registered : task[c] # Absent

(* A job that says it is done has deleted everything: the datasets from the  *)
(* catalogue, and the files that no dataset needs.  The event that says so   *)
(* may have been sent by a handler on a stale job (delDeleteContainers).     *)
DoneIsDeleted ==
    job.state = "DONE" =>
        /\ \A d \in Chosen : status[d] = Absent
        /\ \A c \in file \cap Managed : c \in Registered

(* From the moment it is hidden to its removal or its restoration, a dataset *)
(* is locked: no other job may take it for one of its own (delSetToDelete,   *)
(* delRemoveDatasets, delRollback).                                          *)
HiddenIsLocked ==
    job.state # Absent => \A d \in Dataset : status[d] = "TODELETE" => d \in locked

(* A rollback that succeeds leaves no dataset hidden and none locked,        *)
(* although it restores and releases in two transactions and another handler *)
(* may be doing the same (delRollback).                                      *)
RollbackRestores ==
    [][job.state = "ABORTED" /\ job'.state = "FAILED" =>
          locked' = {} /\ \A d \in Dataset : status'[d] # "TODELETE"]_vars

(* The counters of the job are those of its tasks (setTaskState).            *)
CountersMatch ==
    /\ job.active = Cardinality(Tasks({"NEW"}))
    /\ job.failed = Cardinality(Tasks({"FAILED"}))
=============================================================================
