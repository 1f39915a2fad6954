------------------------------ MODULE Catalogue ------------------------------
(* The tables of the catalogue under concurrent requests: records and AOIs,  *)
(* variables, instances and consolidation parameters, containers and         *)
(* datasets, the locks of the jobs, and the files of the containers          *)
(* (internal/svc/service.go, admin.go, persister.go, operations.go and       *)
(* interface/database/pg).  A request is a transaction of READ COMMITTED     *)
(* isolation: it reads rows, computes, then writes.  The writes are one step *)
(* (the rows they touch stay locked until the commit) that fails as a whole  *)
(* when a key is duplicated or a reference is broken; whatever was read      *)
(* before may be stale by then.  One job is followed step by step, with its  *)
(* events and failures, by DeletionJob and ConsolidationJob: here there are  *)
(* several, that share containers with each other and with the requests.     *)
(* The commit of a step of a job and the event that changes its state are    *)
(* two steps wherever a command or a failure between them makes a difference *)
(* (the swap, the removal, the handover and the deletion of the files).      *)
EXTENDS Naturals

CONSTANTS
    Aoi, Record, Variable, Instance, Uri, Dataset,   \* the keys of the tables
    AoiOf,         \* the AOI of each record
    VariableOf,    \* the variable of each instance
    RecordOf, InstanceOf, UriOf,   \* the references of each dataset
    PlaceOf,       \* the subdir and the bands of each dataset in its container
    Deletion, Consolidation,   \* the jobs
    Client,        \* the requests under way at the same time
    MaxRequests    \* bound on the number of requests

(* Not a row, or nothing. *)
Absent == "none"

Job == Deletion \cup Consolidation

ASSUME ReferencesAssumption ==
    /\ AoiOf \in [Record -> Aoi]
    /\ VariableOf \in [Instance -> Variable]
    /\ RecordOf \in [Dataset -> Record]
    /\ InstanceOf \in [Dataset -> Instance]
    /\ UriOf \in [Dataset -> Uri]
ASSUME JobAssumption ==
    /\ Deletion \cap Consolidation = {}
    /\ Job \cap Variable = {}
    /\ Absent \notin Job

VARIABLES
    aoi, record, variable, instance,   \* the rows of these tables
    params,      \* the owners, variables or jobs, of consolidation parameters
    container,   \* for each URI, Absent, "managed" or "unmanaged"
    dataset,     \* for each dataset, Absent, its status or, once deleted, "GONE"
    lock,        \* the job that has locked each dataset
    job,         \* the row of each job and what its handler has read and done
    task,        \* the files each deletion job has still to delete
    file,        \* the files of the storage
    client,      \* the request each client is making
    dropped,     \* history: the managed containers that jobs have removed
    requests     \* the number of requests made

tables == <<aoi, record, variable, instance, params, container, dataset, lock>>
vars == <<tables, job, task, file, client, dropped, requests>>

-----------------------------------------------------------------------------

JobState ==
    {Absent, "CREATED", "INITIALISATIONFAILED", "CONSOLIDATIONINPROGRESS",
     "CONSOLIDATIONEFFECTIVE", "DELETIONINPROGRESS", "DELETIONFAILED", "DELETIONEFFECTIVE",
     "DONEBUTUNTIDY", "ABORTED", "ROLLBACKFAILED", "DONE", "FAILED", "CLEANED"}

(* Mutant: the jobs that have still files to delete are cleaned too. *)
MutCleanable == {"DONE", "DONEBUTUNTIDY", "FAILED"}

(* The states of the jobs that CleanJobs deletes by default. *)
Cleanable == {"DONE", "FAILED"}

NoRequest == [at |-> "idle", on |-> Absent, managed |-> FALSE, known |-> FALSE,
              new |-> {}, seen |-> {}]

(* What a job has done in its state: "reading" in a transaction that is not  *)
(* committed, "done" with the step of the state, the event of which is not   *)
(* handled yet.  Its datasets are those it has "chosen", the containers it   *)
(* has found "empty", and a handler is "deleting" files.  As a history, the  *)
(* job was "forced" if a forced cancellation came when its step could not be *)
(* undone any more, or ended it without a rollback.                          *)
NoJob == [state |-> Absent, reading |-> FALSE, done |-> FALSE, chosen |-> {}, empty |-> {},
          deleting |-> {}, forced |-> FALSE]

JobRow ==
    [state : JobState, reading : BOOLEAN, done : BOOLEAN, chosen : SUBSET Dataset,
     empty : SUBSET Uri, deleting : SUBSET Uri, forced : BOOLEAN]
ClientRow ==
    [at : {"idle", "prepareIndexation", "saveContainer", "ConfigConsolidation", "DeleteVariable"},
     on : Uri \cup Variable \cup {Absent}, managed : BOOLEAN, known : BOOLEAN,
     new : SUBSET Dataset, seen : SUBSET Instance]

TypeOK ==
    /\ aoi \subseteq Aoi
    /\ record \subseteq Record
    /\ variable \subseteq Variable
    /\ instance \subseteq Instance
    /\ params \subseteq Variable \cup Job
    /\ container \in [Uri -> {Absent, "managed", "unmanaged"}]
    /\ dataset \in [Dataset -> {Absent, "ACTIVE", "TODELETE", "GONE"}]
    /\ lock \in [Dataset -> Job \cup {Absent}]
    /\ job \in [Job -> JobRow]
    /\ task \in [Deletion -> SUBSET Uri]
    /\ file \subseteq Uri
    /\ client \in [Client -> ClientRow]
    /\ dropped \subseteq Uri
    /\ requests \in Nat

(* The rows of the tables datasets and jobs. *)
Stored == {d \in Dataset : dataset[d] \in {"ACTIVE", "TODELETE"}}
JobRows == {j \in Job : job[j].state \notin {Absent, "CLEANED"}}
Within(u) == {d \in Stored : UriOf[d] = u}

Init ==
    /\ aoi = Aoi /\ record = Record /\ variable = Variable /\ instance = Instance
    /\ params \in {{}, Variable}
    /\ \E indexed \in SUBSET Dataset, managed \in SUBSET Uri :
        /\ \A d, e \in indexed : UriOf[d] = UriOf[e] /\ PlaceOf[d] = PlaceOf[e] => d = e
        /\ container = [u \in Uri |->
                IF \A d \in indexed : UriOf[d] # u THEN Absent
                ELSE IF u \in managed THEN "managed" ELSE "unmanaged"]
        /\ dataset = [d \in Dataset |-> IF d \in indexed THEN "ACTIVE" ELSE Absent]
    /\ lock = [d \in Dataset |-> Absent]
    /\ job = [j \in Job |-> NoJob]
    /\ task = [j \in Deletion |-> {}]
    /\ file = Uri
    /\ client = [c \in Client |-> NoRequest]
    /\ dropped = {}
    /\ requests = 0

(* Every new request is counted. *)
Request ==
    /\ requests < MaxRequests
    /\ requests' = requests + 1

-----------------------------------------------------------------------------
(* Records and AOIs: each request is one statement. *)

CreateAOI(a) ==
    /\ Request
    /\ a \notin aoi
    /\ aoi' = aoi \cup {a}
    /\ UNCHANGED <<record, variable, instance, params, container, dataset, lock, job, task,
                   file, client, dropped>>

CreateRecords(R) ==
    /\ Request
    /\ R \cap record = {}
    /\ \A r \in R : AoiOf[r] \in aoi
    /\ record' = record \cup R
    /\ UNCHANGED <<aoi, variable, instance, params, container, dataset, lock, job, task,
                   file, client, dropped>>

PendingRecords == {r \in Record : \A d \in Stored : RecordOf[d] # r}

(* DeleteRecords fails if a dataset refers to one of the records, unless it  *)
(* was asked not to fail: then these records are kept.                       *)
DeleteRecords(R) ==
    /\ Request
    /\ record' = record \ (R \cap PendingRecords)
    /\ UNCHANGED <<aoi, variable, instance, params, container, dataset, lock, job, task,
                   file, client, dropped>>

-----------------------------------------------------------------------------
(* Variables, instances and consolidation parameters *)

CreateVariable(v) ==
    /\ Request
    /\ v \notin variable
    /\ variable' = variable \cup {v}
    /\ UNCHANGED <<aoi, record, instance, params, container, dataset, lock, job, task,
                   file, client, dropped>>

(* The variable is read first, but the reference is checked at the insertion. *)
InstantiateVariable(i) ==
    /\ Request
    /\ VariableOf[i] \in variable
    /\ i \notin instance
    /\ instance' = instance \cup {i}
    /\ UNCHANGED <<aoi, record, variable, params, container, dataset, lock, job, task,
                   file, client, dropped>>

InUse(I) == \E d \in Stored : InstanceOf[d] \in I

DeleteInstance(i) ==
    /\ Request
    /\ ~InUse({i})
    /\ instance' = instance \ {i}
    /\ UNCHANGED <<aoi, record, variable, params, container, dataset, lock, job, task,
                   file, client, dropped>>

OfVariable(v) == {i \in instance : VariableOf[i] = v}

(* ReadVariable, for the requests that save it afterwards. *)
ReadVariable(c, v, request) ==
    /\ Request
    /\ client[c].at = "idle"
    /\ v \in variable
    /\ client' = [client EXCEPT ![c] =
            [NoRequest EXCEPT !.at = request, !.on = v, !.seen = OfVariable(v)]]
    /\ UNCHANGED <<tables, job, task, file, dropped>>

Answered(c) == client' = [client EXCEPT ![c] = NoRequest]

(* A transaction that fails or is rolled back changes nothing. *)
RequestFails(c) ==
    /\ client[c].at # "idle"
    /\ Answered(c)
    /\ UNCHANGED <<tables, job, task, file, dropped, requests>>

(* saveVariable, after ToDelete: the instances that were read, the parameters *)
(* and the variable are deleted, unless a dataset refers to one of these     *)
(* instances or another instance refers to the variable.                     *)
DeleteVariable(c) ==
    LET v == client[c].on
    IN  /\ client[c].at = "DeleteVariable"
        /\ ~InUse(client[c].seen)
        /\ OfVariable(v) \subseteq client[c].seen
        /\ instance' = instance \ client[c].seen
        /\ params' = params \ {v}
        /\ variable' = variable \ {v}
        /\ Answered(c)
        /\ UNCHANGED <<aoi, record, container, dataset, lock, job, task, file, dropped, requests>>

(* saveVariable, after SetConsolidationParams.  No reference ties the        *)
(* parameters to the variable: they are stored even if it was deleted.       *)
ConfigConsolidation(c) ==
    /\ client[c].at = "ConfigConsolidation"
    /\ params' = params \cup {client[c].on}
    /\ Answered(c)
    /\ UNCHANGED <<aoi, record, variable, instance, container, dataset, lock, job, task,
                   file, dropped, requests>>

-----------------------------------------------------------------------------
(* Indexing of external datasets *)

(* The identifiers of the datasets of a request are new. *)
Unused(d) == dataset[d] = Absent /\ \A c \in Client : d \notin client[c].new

(* The instances are read and the file is opened before the transaction.     *)
IndexExternalDatasets(c, u, D, m) ==
    /\ Request
    /\ client[c].at = "idle"
    /\ u \in file
    /\ \A d \in D : UriOf[d] = u /\ Unused(d) /\ InstanceOf[d] \in instance
    /\ \A d, e \in D : PlaceOf[d] = PlaceOf[e] => d = e
    /\ client' = [client EXCEPT ![c] =
            [NoRequest EXCEPT !.at = "prepareIndexation", !.on = u, !.new = D, !.managed = m]]
    /\ UNCHANGED <<tables, job, task, file, dropped>>

IdenticalTo(d, e) == RecordOf[d] = RecordOf[e] /\ InstanceOf[d] = InstanceOf[e]

(* AddDataset: nothing is added to a container that has a hidden dataset;    *)
(* another dataset at the same place must be identical, and d is not added:  *)
(* if it is found first the others are not looked at.                        *)
CanAdd(d, present) ==
    \/ \E e \in present :
          dataset[e] = "ACTIVE" /\ PlaceOf[d] = PlaceOf[e] /\ IdenticalTo(d, e)
    \/ \A e \in present : dataset[e] = "ACTIVE" /\ PlaceOf[d] # PlaceOf[e]

Added(D, present) == {d \in D : \A e \in present : PlaceOf[d] # PlaceOf[e]}

(* The transaction reads the container with its datasets, if it exists. *)
prepareIndexation(c) ==
    LET u == client[c].on
    IN  /\ client[c].at = "prepareIndexation"
        /\ \A d \in client[c].new : CanAdd(d, Within(u))
        /\ client' = [client EXCEPT ![c].at = "saveContainer", ![c].known = container[u] # Absent,
                                    ![c].new = Added(@, Within(u))]
        /\ UNCHANGED <<tables, job, task, file, dropped, requests>>

(* saveContainer: CreateContainer if it was not found, then CreateDatasets.  *)
saveContainer(c) ==
    LET u == client[c].on
        new == client[c].new
    IN  /\ client[c].at = "saveContainer"
        /\ IF client[c].known THEN new # {} => container[u] # Absent ELSE container[u] = Absent
        /\ \A d \in new : RecordOf[d] \in record /\ InstanceOf[d] \in instance
        /\ container' = IF client[c].known THEN container
                        ELSE [container EXCEPT ![u] = IF client[c].managed THEN "managed"
                                                      ELSE "unmanaged"]
        /\ dataset' = [d \in Dataset |-> IF d \in new THEN "ACTIVE" ELSE dataset[d]]
        /\ Answered(c)
        /\ UNCHANGED <<aoi, record, variable, instance, params, lock, job, task, file,
                       dropped, requests>>

-----------------------------------------------------------------------------
(* Jobs.  Each transaction that reads before it writes is two steps; it may  *)
(* be rolled back between them.                                              *)

Active == {d \in Dataset : dataset[d] = "ACTIVE"}
LockedBy(j) == {d \in Stored : lock[d] = j}

(* FindDatasets of delInit, or ListActiveDatasetsID before csldInit: the     *)
(* datasets chosen may be locked by another job already.                     *)
FindDatasets(j, D) ==
    /\ Request
    /\ job[j] = NoJob
    /\ D \subseteq Active
    /\ job' = [job EXCEPT ![j].chosen = D, ![j].reading = TRUE]
    /\ UNCHANGED <<tables, task, file, client, dropped>>

(* Mutant: a lock is taken from the job that has it. *)
MutCanLockAny(D) == D \subseteq Stored

(* LockDatasets: all the datasets are still there, and none is locked. *)
CanLock(D) == D \subseteq Stored /\ \A d \in D : lock[d] = Absent

Lock(j, D) == lock' = [d \in Dataset |-> IF d \in D THEN j ELSE lock[d]]

(* ReleaseDatasets. *)
Release(j) == lock' = [d \in Dataset |-> IF lock[d] = j THEN Absent ELSE lock[d]]

(* ChangeDatasetsStatus. *)
ChangeStatus(D, to) == dataset' = [d \in Dataset |-> IF d \in D THEN to ELSE dataset[d]]

Enter(j, s) == job' = [job EXCEPT ![j].state = s, ![j].reading = FALSE, ![j].done = FALSE]

(* The step of the state is committed: its event is published. *)
Commit(j) == job' = [job EXCEPT ![j].reading = FALSE, ![j].done = TRUE]

(* The state where the files are deleted: the handler reads the tasks.       *)
EnterDeletion(j) ==
    job' = [job EXCEPT ![j].state = "DELETIONEFFECTIVE", ![j].done = FALSE,
                       ![j].deleting = task[j]]

(* saveJob of a new deletion job. *)
delInit(j) ==
    /\ j \in Deletion
    /\ job[j].state = Absent /\ job[j].reading
    /\ CanLock(job[j].chosen)
    /\ Lock(j, job[j].chosen)
    /\ Enter(j, "CREATED")
    /\ UNCHANGED <<aoi, record, variable, instance, params, container, dataset, task, file,
                   client, dropped, requests>>

(* saveJob of a new consolidation job, with a copy of the parameters of the  *)
(* variable v of its instance.                                               *)
csldInit(j, v) ==
    /\ j \in Consolidation
    /\ job[j].state = Absent /\ job[j].reading
    /\ \A d \in job[j].chosen : VariableOf[InstanceOf[d]] = v
    /\ v \in params
    /\ CanLock(job[j].chosen)
    /\ Lock(j, job[j].chosen)
    /\ params' = params \cup {j}
    /\ Enter(j, "CREATED")
    /\ UNCHANGED <<aoi, record, variable, instance, container, dataset, task, file,
                   client, dropped, requests>>

(* The step of a job fails and its transaction is rolled back; files may     *)
(* have been deleted.  The request that creates a job can be made again.     *)
TransactionFails(j) ==
    /\ ~job[j].done
    /\ \/ job[j].state = Absent /\ job[j].reading /\ job' = [job EXCEPT ![j] = NoJob]
       \/ job[j].state = "CREATED" /\ Enter(j, "INITIALISATIONFAILED")
       \/ job[j].state = "DELETIONINPROGRESS" /\ Enter(j, "DELETIONFAILED")
       \/ job[j].state = "CONSOLIDATIONEFFECTIVE" /\ Enter(j, "DONEBUTUNTIDY")
       \/ /\ job[j].state = "DELETIONEFFECTIVE"
          /\ job' = [job EXCEPT ![j].state = "DONEBUTUNTIDY", ![j].deleting = {}]
       \/ job[j].state = "ABORTED" /\ Enter(j, "ROLLBACKFAILED")
    /\ UNCHANGED <<tables, task, file, client, dropped, requests>>

(* csldPrepareOrders: the datasets D are consolidated, the others released.  *)
csldPrepareOrders(j, D) ==
    /\ j \in Consolidation
    /\ job[j].state = "CREATED"
    /\ D \subseteq job[j].chosen
    /\ lock' = [d \in Dataset |-> IF lock[d] = j /\ d \notin D THEN Absent ELSE lock[d]]
    /\ job' = [job EXCEPT ![j].state = "CONSOLIDATIONINPROGRESS", ![j].chosen = D]
    /\ UNCHANGED <<aoi, record, variable, instance, params, container, dataset, task, file,
                   client, dropped, requests>>

(* csldSwapDatasets: the datasets that were consolidated are hidden...       *)
csldSwapDatasets(j) ==
    /\ j \in Consolidation
    /\ job[j].state = "CONSOLIDATIONINPROGRESS" /\ ~job[j].done
    /\ ChangeStatus({d \in LockedBy(j) : dataset[d] = "ACTIVE"}, "TODELETE")
    /\ Commit(j)
    /\ UNCHANGED <<aoi, record, variable, instance, params, container, lock, task, file,
                   client, dropped, requests>>

Hidden(j) == {d \in LockedBy(j) : dataset[d] = "TODELETE"}

(* ... and handed over to a deletion job by csldDeleteDatasets.              *)
csldDeleteDatasets(j, k) ==
    /\ j \in Consolidation
    /\ job[j].state = "CONSOLIDATIONEFFECTIVE" /\ ~job[j].done
    /\ Hidden(j) # {}
    /\ k \in Deletion /\ job[k] = NoJob
    /\ lock' = [d \in Dataset |-> IF lock[d] = j THEN k ELSE lock[d]]
    /\ job' = [job EXCEPT ![j].done = TRUE, ![j].chosen = {},
                          ![k].state = "CREATED", ![k].chosen = Hidden(j)]
    /\ UNCHANGED <<aoi, record, variable, instance, params, container, dataset, task, file,
                   client, dropped, requests>>

delSetToDelete(j) ==
    /\ j \in Deletion
    /\ job[j].state = "CREATED"
    /\ ChangeStatus({d \in LockedBy(j) : dataset[d] = "ACTIVE"}, "TODELETE")
    /\ Enter(j, "DELETIONINPROGRESS")
    /\ UNCHANGED <<aoi, record, variable, instance, params, container, lock, task, file,
                   client, dropped, requests>>

(* RemoveDataset: the containers that have no other dataset, whatever its    *)
(* status.                                                                   *)
Emptied(D) == {u \in Uri : Within(u) # {} /\ Within(u) \subseteq D}

(* opSubFncRemoveDatasets: the containers are read with their datasets...    *)
ReadContainers(j) ==
    /\ j \in Deletion
    /\ job[j].state = "DELETIONINPROGRESS" /\ ~job[j].reading /\ ~job[j].done
    /\ job' = [job EXCEPT ![j].reading = TRUE, ![j].empty = Emptied(Hidden(j))]
    /\ UNCHANGED <<tables, task, file, client, dropped, requests>>

(* The files to delete with these containers. *)
ToDelete(U) == {u \in U : container[u] = "managed"}

(* Mutant: the deletion of a container is not checked against the datasets   *)
(* that refer to it.                                                         *)
MutStillEmptyUnchecked(j) == TRUE

(* DeleteContainer: no other dataset refers to the containers found empty. *)
StillEmpty(j) == \A u \in job[j].empty : Within(u) \subseteq Hidden(j)

(* ... then the datasets are released and removed, with the containers that  *)
(* were found empty if they still are, and tasks are created to delete the   *)
(* files of those that are managed.                                          *)
delRemoveDatasets(j) ==
    LET empty == job[j].empty
    IN  /\ j \in Deletion
        /\ job[j].state = "DELETIONINPROGRESS" /\ job[j].reading
        /\ StillEmpty(j)
        /\ Release(j)
        /\ ChangeStatus(Hidden(j), "GONE")
        /\ container' = [u \in Uri |-> IF u \in empty THEN Absent ELSE container[u]]
        /\ task' = [task EXCEPT ![j] = @ \cup ToDelete(empty)]
        /\ dropped' = dropped \cup {u \in empty : container[u] = "managed"}
        /\ Commit(j)
        /\ UNCHANGED <<aoi, record, variable, instance, params, file, client, requests>>

(* delDeleteContainers: the files are deleted one by one, even after the job *)
(* was cancelled...                                                          *)
DeleteContainer(j, u) ==
    /\ u \in job[j].deleting
    /\ file' = file \ {u}
    /\ job' = [job EXCEPT ![j].deleting = @ \ {u}]
    /\ UNCHANGED <<tables, task, client, dropped, requests>>

(* ... and the tasks of those that could not be are kept.                    *)
Remaining(j) == task[j] \cap file

delDeleteContainers(j) ==
    /\ j \in Deletion
    /\ job[j].state = "DELETIONEFFECTIVE" /\ ~job[j].done
    /\ task' = [task EXCEPT ![j] = Remaining(j)]
    /\ job' = [job EXCEPT ![j].done = TRUE, ![j].deleting = {}]
    /\ UNCHANGED <<tables, file, client, dropped, requests>>

(* The event of a step is handled: the job enters the next state.  A         *)
(* consolidation that has hidden nothing has nothing to hand over.           *)
handleJobEvt(j) ==
    /\ \/ /\ j \in Consolidation /\ job[j].done
          /\ job[j].state = "CONSOLIDATIONINPROGRESS" /\ Enter(j, "CONSOLIDATIONEFFECTIVE")
       \/ /\ j \in Consolidation /\ (job[j].done \/ Hidden(j) = {})
          /\ job[j].state = "CONSOLIDATIONEFFECTIVE" /\ Enter(j, "DONE")
       \/ /\ j \in Deletion /\ job[j].done
          /\ job[j].state = "DELETIONINPROGRESS" /\ EnterDeletion(j)
       \/ /\ j \in Deletion /\ job[j].done
          /\ job[j].state = "DELETIONEFFECTIVE"
          /\ Enter(j, IF task[j] = {} THEN "DONE" ELSE "DONEBUTUNTIDY")
    /\ UNCHANGED <<tables, task, file, client, dropped, requests>>

RetryJob(j) ==
    /\ Request
    /\ \/ job[j].state = "INITIALISATIONFAILED" /\ Enter(j, "CREATED")
       \/ job[j].state = "DELETIONFAILED" /\ Enter(j, "DELETIONINPROGRESS")
       \/ job[j].state = "ROLLBACKFAILED" /\ Enter(j, "ABORTED")
       \/ /\ job[j].state = "DONEBUTUNTIDY"
          /\ IF j \in Deletion THEN EnterDeletion(j) ELSE Enter(j, "CONSOLIDATIONEFFECTIVE")
    /\ UNCHANGED <<tables, task, file, client, dropped>>

(* The datasets are hidden or removed, but the state does not tell it yet:   *)
(* the cancellation is accepted, and the rollback will not undo the step.    *)
TooLate(j) == job[j].done \/ job[j].state = "DELETIONEFFECTIVE"

(* CancelJob, by force where the state asks for it.  A handler that is in a  *)
(* transaction has then a stale copy of the job and cannot save it           *)
(* (UpdateJob), but it goes on deleting files.                               *)
CancelJob(j) ==
    /\ Request
    /\ \/ /\ \/ job[j].state \in {"CREATED", "CONSOLIDATIONINPROGRESS", "DELETIONINPROGRESS",
                                  "DELETIONFAILED", "DELETIONEFFECTIVE"}
             \/ job[j].state = "INITIALISATIONFAILED" /\ j \in Consolidation
          /\ job' = [job EXCEPT ![j].state = "ABORTED", ![j].reading = FALSE, ![j].done = FALSE,
                                ![j].forced = TooLate(j)]
       \/ /\ \/ job[j].state = "ROLLBACKFAILED"
             \/ job[j].state = "INITIALISATIONFAILED" /\ j \in Deletion
          /\ job' = [job EXCEPT ![j].state = "FAILED", ![j].forced = TRUE]
    /\ UNCHANGED <<tables, task, file, client, dropped>>

(* delRollback: the datasets are restored in a first transaction...          *)
restoreDatasets(j) ==
    /\ j \in Deletion
    /\ job[j].state = "ABORTED" /\ ~job[j].reading
    /\ ChangeStatus(Hidden(j), "ACTIVE")
    /\ job' = [job EXCEPT ![j].reading = TRUE]
    /\ UNCHANGED <<aoi, record, variable, instance, params, container, lock, task, file,
                   client, dropped, requests>>

(* ... and released in a second one.  csldRollback releases its own at once. *)
ReleaseDatasets(j) ==
    /\ job[j].state = "ABORTED"
    /\ job[j].reading \/ j \in Consolidation
    /\ Release(j)
    /\ Enter(j, "FAILED")
    /\ UNCHANGED <<aoi, record, variable, instance, params, container, dataset, task, file,
                   client, dropped, requests>>

(* CleanJobs, for the states it takes by default: the job is deleted with    *)
(* its tasks and its locks, not with its parameters.                         *)
CleanJobs(j) ==
    /\ Request
    /\ job[j].state \in Cleanable
    /\ Release(j)
    /\ task' = [i \in Deletion |-> IF i = j THEN {} ELSE task[i]]
    /\ Enter(j, "CLEANED")
    /\ UNCHANGED <<aoi, record, variable, instance, params, container, dataset, file,
                   client, dropped>>

-----------------------------------------------------------------------------
(* TidyPending removes what nothing refers to, kind by kind: a record that   *)
(* goes leaves its AOI pending, an instance its variable, a variable its     *)
(* parameters.                                                               *)

PendingAois(R) == {a \in Aoi : \A r \in R : AoiOf[r] # a}
PendingInstances == {i \in Instance : ~InUse({i})}
PendingVariables(I) == {v \in Variable : \A i \in I : VariableOf[i] # v}
PendingContainers == {u \in Uri : container[u] = "unmanaged" /\ Within(u) = {}}

(* Mutant: only the parameters of variables are in use. *)
MutPendingParamsOfJobs(V) == params \ V

(* The parameters belong to no variable and to no job. *)
PendingParams(V) == params \ (V \cup JobRows)

TidyPending(kinds) ==
    /\ Request
    /\ record' = IF "records" \in kinds THEN record \ PendingRecords ELSE record
    /\ aoi' = IF "aois" \in kinds THEN aoi \ PendingAois(record') ELSE aoi
    /\ instance' = IF "instances" \in kinds THEN instance \ PendingInstances ELSE instance
    /\ variable' = IF "variables" \in kinds THEN variable \ PendingVariables(instance')
                   ELSE variable
    /\ container' = [u \in Uri |-> IF "containers" \in kinds /\ u \in PendingContainers
                                   THEN Absent ELSE container[u]]
    /\ params' = IF "params" \in kinds THEN params \ PendingParams(variable') ELSE params
    /\ UNCHANGED <<dataset, lock, job, task, file, client, dropped>>

Kinds == {"aois", "records", "variables", "instances", "containers", "params"}

Next ==
    \/ \E a \in Aoi : CreateAOI(a)
    \/ \E R \in SUBSET Record : CreateRecords(R) \/ DeleteRecords(R)
    \/ \E v \in Variable : CreateVariable(v)
    \/ \E i \in Instance : InstantiateVariable(i) \/ DeleteInstance(i)
    \/ \E c \in Client, v \in Variable, r \in {"ConfigConsolidation", "DeleteVariable"} :
          ReadVariable(c, v, r)
    \/ \E c \in Client, u \in Uri, D \in SUBSET Dataset, m \in BOOLEAN :
          IndexExternalDatasets(c, u, D, m)
    \/ \E c \in Client : \/ DeleteVariable(c) \/ ConfigConsolidation(c)
                         \/ prepareIndexation(c) \/ saveContainer(c) \/ RequestFails(c)
    \/ \E j \in Job, D \in SUBSET Dataset \ {{}} : FindDatasets(j, D)
    \/ \E j \in Job : \/ delInit(j) \/ TransactionFails(j) \/ delSetToDelete(j)
                      \/ ReadContainers(j) \/ delRemoveDatasets(j) \/ delDeleteContainers(j)
                      \/ RetryJob(j) \/ CancelJob(j) \/ restoreDatasets(j) \/ ReleaseDatasets(j)
                      \/ CleanJobs(j) \/ csldSwapDatasets(j) \/ handleJobEvt(j)
    \/ \E j \in Consolidation, v \in Variable : csldInit(j, v)
    \/ \E j \in Consolidation, D \in SUBSET Dataset : csldPrepareOrders(j, D)
    \/ \E j \in Consolidation, k \in Deletion : csldDeleteDatasets(j, k)
    \/ \E j \in Deletion, u \in Uri : DeleteContainer(j, u)
    \/ \E kinds \in SUBSET Kinds : TidyPending(kinds)

Spec == Init /\ [][Next]_vars

-----------------------------------------------------------------------------
(* Safety properties *)

(* Every dataset of the catalogue is in a container of the catalogue, and    *)
(* the only files ever deleted are those of managed containers that a job    *)
(* had taken out of the catalogue: neither a request that indexes a dataset  *)
(* in a container while a job removes its other datasets, nor two jobs that  *)
(* share a container, can lose the file of a dataset.  A URI indexed again   *)
(* after its removal is not protected: its file is that of the container     *)
(* that was removed (opSubFncRemoveDatasets, saveContainer).                 *)
FilesAreKept ==
    /\ \A d \in Stored : container[UriOf[d]] # Absent
    /\ Uri \ dropped \subseteq file

(* Once a job has taken a managed container out of the catalogue, nothing    *)
(* but its tasks remembers the file: as long as it is in the storage one job *)
(* has a task to delete it, whatever fails, is retried, is cancelled or is   *)
(* cleaned - unless that job was cancelled by force after the removal, which *)
(* nothing undoes, and was cleaned: CleanJobs takes the failed jobs with     *)
(* their tasks (delRemoveDatasets, delDeleteContainers, CleanJobs,           *)
(* triggerDeletion).                                                         *)
NoForgottenFile ==
    \A u \in dropped \cap file : \E j \in Deletion :
        \/ u \in task[j]
        \/ job[j].state = "CLEANED" /\ job[j].forced /\ u \in job[j].empty

(* The status a job has given to its datasets, and the states where it holds *)
(* them: those of a deletion are gone once its removal is committed.         *)
HeldStatus(j) ==
    CASE job[j].state \in {"CREATED", "INITIALISATIONFAILED"} -> {"ACTIVE", "TODELETE"}
      [] job[j].state = "CONSOLIDATIONINPROGRESS" ->
            IF job[j].done THEN {"TODELETE"} ELSE {"ACTIVE"}
      [] OTHER -> {"TODELETE"}

Holds(j) ==
    \/ job[j].state \in {"CREATED", "INITIALISATIONFAILED", "CONSOLIDATIONINPROGRESS",
                         "CONSOLIDATIONEFFECTIVE", "DELETIONFAILED"}
    \/ job[j].state = "DELETIONINPROGRESS" /\ ~job[j].done
    \/ job[j].state = "DONEBUTUNTIDY" /\ j \in Consolidation

RollsBack(j) == job[j].state \in {"ABORTED", "ROLLBACKFAILED"}

(* Jobs that want the same datasets do not disturb one another: from its     *)
(* creation to its end a job has all its datasets, in the status it gave     *)
(* them, although it had chosen them before they were locked; and a dataset  *)
(* that is hidden is always locked by a job that will remove or restore it,  *)
(* when it passes from a job to another, when a step fails and when jobs are *)
(* cleaned - unless the job that chose it was cancelled by force after the   *)
(* swap or the removal, or in place of a rollback (LockDatasets,             *)
(* ReleaseDatasets, ChangeDatasetsStatus, CleanJobs, triggerConsolidation).  *)
JobsHoldTheirDatasets ==
    /\ \A j \in Job : Holds(j) =>
          \A d \in job[j].chosen : lock[d] = j /\ dataset[d] \in HeldStatus(j)
    /\ \A d \in Dataset : dataset[d] = "TODELETE" => \E j \in Job :
          /\ d \in job[j].chosen
          /\ job[j].forced \/ (lock[d] = j /\ (Holds(j) \/ RollsBack(j)))

(* The parameters of a variable and those of a job, which a consolidation    *)
(* reads again long after its creation, disappear only with their owner: no  *)
(* reference protects them (DeletePendingConsolidationParams, saveVariable). *)
ParamsAreKept ==
    [][\A o \in params \ params' : o \notin variable' \cup JobRows']_vars
=============================================================================
