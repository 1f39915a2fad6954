# A TLA+ model of the Geocube

The Geocube (`github.com/airbusgeo/geocube`) is a catalogue of georeferenced
images. Its users index datasets that live in containers (files of an object
storage), read them back as cubes, and from time to time *consolidate* them
(merge many small images into containers laid out for fast reading) or *delete*
them. The last two are jobs: state machines whose row in a database is moved by
events, by several servers and many workers at once, under commands of the user,
crashes and messages delivered more than once. This project models the jobs, what
a consolidation merges and replaces, the workers that build the containers and
the autoscaler that starts and stops them, the tables of the catalogue under
concurrent requests and jobs, and the streaming of a cube.

## 1. Inventory

### The parts and how they interact

| Part | Code | State | Operations |
|---|---|---|---|
| Job automaton | `internal/geocube/job.go` | state, waiting, counters of tasks | `Trigger`, `UpdateTask`, `ResetTasks`, `CancelTask`, `DeleteTask`, `LockDatasets`, `ReleaseDatasets` |
| Event handlers | `internal/svc/operations.go`, `persister.go` | a copy of the job being worked on | `handleJobEvt`, `handleTaskEvt`, `saveJob` (optimistic concurrency control), `publishEvent` |
| Consolidation | `internal/svc/consolidater.go` | tasks, locks, new datasets, containers | the `csld...` functions |
| Choice of the orders | `consolidater.go:166-518` | datasets and their locks, parameters | list, lock, sort, exclude full containers, need (re)consolidation, split into containers |
| Worker | `cmd/consolidater`, `internal/image/handler_consolidation.go` | the order it holds, local files, a channel, counters | download under a quota, merge, check for cancellation, upload, clean, notify |
| Deletion | `internal/svc/operations.go` | tasks, locks, statuses, containers | the `del...` functions |
| User's commands | `internal/svc/service.go` | none | `RetryJob`, `CancelJob`, `ContinueJob`, `CleanJobs`, submissions |
| Database | `interface/database/pg` | rows; `locked_datasets` has the dataset as its key | transactions (READ COMMITTED) |
| Messaging | `interface/messaging` | two queues (events, orders) | publish, deliver at least once |
| Storage | `interface/storage` | files | upload, delete, exist |
| Containers, datasets | `internal/geocube/container.go`, `state.go`, `internal/svc/persister.go` | rows and their persistence state | `AddDataset`, `RemoveDataset`, `Delete`, `prepareIndexation`, `saveContainer` |
| Records, variables, instances, parameters | `internal/svc/service.go`, `admin.go`, `interface/database/pg` | rows that refer to one another | create, delete, configure, `TidyPending` |
| Autoscaler | `interface/autoscaler` | pods of the cluster | scaling rule, `Resize`, `ScaleDown` |
| Catalogue requests | `internal/svc/catalog.go`, `predownload.go`, `internal/grpc/downloader.go` | goroutines, channels, downloaded files | `DownloadCube`: download, merge, order, stream, remove |

A submission locks the datasets and creates the job in one transaction, then
publishes `JobCreated`. A server takes an event, reads the job, applies
`Trigger`, saves, and runs the step of the new state; the step commits one or
more transactions and publishes the next event. A consolidation sends one order
per container to the workers, which upload the container and publish a task
event; the last task event publishes the end of the consolidation. The swap then
exchanges old and new datasets, and a deletion job is created for the old ones.
Jobs and the requests of users (indexing, deletions of records and variables,
clean-up) meet in the same tables, in transactions of READ COMMITTED isolation.

The workers are pods that pull orders from a queue; the autoscaler reads the
backlog of that queue and the number of pods, then creates or deletes pods, the
ones that work included. A cube is streamed by the downloader, apart from the
jobs: goroutines download the containers, merge the slices, put them in order and
remove the local files, under a context that ends with the request.

### What is hard

* *Stale copies.* A step may last minutes. Another server may meanwhile have
  handled a command, a duplicated event or a task event. Only the check of
  `UpdateJob` on the last update time, at the end of the step, stops it; some
  steps publish a success without saving at all.
* *The gap between a commit and its event.* The state of the job lags what it
  has done until the event is handled; cancellations are accepted in the gap.
* *Late workers.* A worker does not know that its job was cancelled, rolled back
  or retried; cancellation files in the storage are its only sign.
* *Failures in the middle.* Files are deleted one by one; orders are published
  one by one; a crash makes the event come back to a job in another state.
* *Counters.* The end of a consolidation is decided on two counters kept by
  increments, across retries, deletions and late events. Local files are removed
  when a counter of their uses, shared by goroutines, comes down to zero.
* *Again and again.* Consolidations reuse, complete or exclude the containers of
  the previous ones, with other parameters, in cells that may overlap.
* *Stale numbers.* The autoscaler decides on a backlog and a size that were read
  at two moments, while pods die, start and finish their orders.
* *Read, then written.* A request reads a container, or the datasets a job may
  take, and writes in another statement or another transaction: in between,
  another job or request has removed the container, taken the datasets or added
  others.
* *Goroutines that wait for one another* through channels without a buffer, when
  the client leaves, a download fails or another goroutine gives up.

### What makes each part correct

| Part | Properties |
|---|---|
| Consolidation | nothing lost, nothing served twice, indexed once and with its file, inputs locked until the swap, effective only when complete, rollback leaves nothing, no orphan file, always settles |
| Deletion | no dataset without its file, no file forgotten, done means deleted, hidden implies locked, rollback restores and releases |
| Automaton and counters | pauses and cancellations only where announced; counters match the tasks |
| Locks | one job at a time per dataset |
| Messaging | what is published is delivered unless reported as failed |
| Choice of the orders | containers at most full, orders hold their sources, what is deleted is copied, nothing that could be read ceases to be |
| Worker | a source is kept while it is needed, the outcome tells what was done, always returns |
| Containers, locks, tables | no dataset without a container, no container without its file, no removed container forgotten, jobs hold their datasets from beginning to end, parameters live as long as their owner |
| Autoscaler | within its bounds, orders kept and held by one pod, busiest pods spared, work ends with the fleet at its minimum |
| Catalogue requests | slices in order, all of them or an error, files kept while read, everything released |

The hazards behind these properties are listed one by one, at their line, in
`PROJECT.json`.

## 2. The modules

| Module | Models |
|---|---|
| `JobStateMachine` | `job.go`: states, events, levels, in-place retries, transitions as sets of triples, `Trigger`. No variable |
| `JobHandlers` | what all jobs share: handlers and their copies of the job, the queue of events, commands, faults |
| `ConsolidationJob` | one consolidation: every `csld...` step, `handleTaskEvt`, the workers, the user |
| `CatalogueSwap` | abstract: what the readers of the catalogue are promised |
| `DeletionJob` | one deletion: every `del...` step |
| `ConsolidationOrders` | the catalogue under several consolidations: what they list, lock, merge, split, index and replace |
| `ConsolidationHandler` | `Consolidate`, the work on one order: loaders, merging goroutines, upload, cancellation |
| `ConsolidationFleet` | the queue of orders, the pods and the autoscaler, composed |
| `CubeRequest` | `DownloadCube`: downloads, merges, ordering, streaming, removal of files |
| `Catalogue` | the tables and their files under several deletion jobs, consolidations and clients at once |
| `MC...` | instances for TLC |
| `ConsolidationJobProofs`, `ConsolidationPromiseProofs` | theorems about `ConsolidationJob`: job, tasks, catalogue; the storage, the refinement of `CatalogueSwap`, and the files and messages of a job without faults nor retries |
| `DeletionJobProofs`, `ConsolidationOrdersProofs`, `ConsolidationHandlerProofs`, `CubeRequestProofs`, `ConsolidationFleetProofs`, `CatalogueProofs` | theorems about the module they are named after |

`JobStateMachine <- JobHandlers <- ConsolidationJob, DeletionJob` (EXTENDS);
`ConsolidationJob` instantiates `CatalogueSwap` with a refinement mapping. The
other modules look at the same jobs closer or from farther: `ConsolidationOrders`
makes of `ConsolidationJob`'s parameters (`Task`, `Inputs`) a computation, and
takes its steps as done or rolled back; `ConsolidationHandler` details one of its
worker's actions; `ConsolidationFleet` has orders pulled or not, whatever they are;
`Catalogue` has several jobs whose steps are reduced to their transactions and to
the events that matter to the others, where `ConsolidationJob` and `DeletionJob` have
one with its messages, handlers and crashes.

### Correspondence with the code

**Handlers and optimistic concurrency (`JobHandlers`).** Several handlers run at
once. `handler[h]` has the step it runs (`pc`), the message it holds and one bit,
`fresh`: nobody saved the job since this handler read it. Every save makes every
other copy stale (`Stale`), because every save changes the row's update time;
`FreshAt` is `saveJob` succeeding. A save and the publication that follows are
one action: nobody can tell them apart but for the three outcomes of `Emit`
(published; the publication fails and the message is acknowledged; the server
stops and the message is delivered again). Reading, triggering and saving the job
at the beginning of a handler is one action (`Handle`): had someone saved in
between, the save would fail with a temporary error and the event come back.

**Steps (`ConsolidationJob`).** One action per transaction: a step that commits
several is split there (`csldIndex` by container; `csldRollback` into the removal
of inactive datasets, the deletion of each pending container, the final release;
`csldCancel` into the upload of the cancellation files and the save). Failures of
a transaction are `StepFails`: with a fault, or without one when the copy is
stale (`Doomed`).

| Variable | In the code |
|---|---|
| `job` | row of `jobs`: `State`, `Waiting`, `ActiveTasks`, `FailedTasks` |
| `task` | rows of `tasks`; "none" before creation and after deletion |
| `plan` | which containers `csldPrepareOrders` calls for: any subset of `Task`, chosen at the start |
| `collapse` | whether the job collapses its records (`CollapseRecordId`), chosen at the start |
| `status`, `lock` | status and `locked_datasets` row of each source: flag INIT or TODELETE of this job, or "deletion" |
| `output` | datasets of the container of a task: none, INACTIVE (locked NEW by the job) or ACTIVE |
| `deletion` | the deletion job: not created, NEW, or started |
| `file`, `cancelFile` | containers, and cancellation files, in the storage |
| `jobEvents`, `taskEvents`, `orders` | the messages, as counts per kind; `orders` by progress of the worker |

**Workers.** An order is "queued", "checked" (past the last look for a
cancellation file before the upload) or "uploaded". Failing, being cancelled, a
temporary error and too many tries are actions. The checks before and inside the
deferred deletion may see different things, as in the code.

**Deletion (`DeletionJob`).** Datasets are ACTIVE, TODELETE or gone; a container
row exists while it has a dataset; `deleting` is what a handler still has to
delete and could not. Initially the job is one of a user (its datasets are
ACTIVE) or of a consolidation (they are TODELETE already).

**Orders (`ConsolidationOrders`).** Space is a small set of points; a cell covers
some of them, in a reference system (`Zone`). `consolidate` lists the datasets;
`csldInit` locks them in a later transaction, or the request fails;
`csldPrepareOrders` is one action, one transaction: for each cell the datasets
found (`Covers`: exact in one reference system, by extents otherwise), those
that need it (`NeedsAlone`), those of the containers that may be completed, in any order
the sort allows (it does not order the datasets of a record), without the full containers
(`ExcludedFrom` follows the two indices of the loop), grouped by record, cut into
containers. `csldIndex` adds one container, or fails as `AddDataset` does; every
job may be given up and rolled back at each step. Users index images and change
the parameters meanwhile.

| Variable | In the code |
|---|---|
| `datasets` | rows of `datasets` with their lock; `cell` stands for the name of a consolidated container |
| `toIndex` | what users will index |
| `format` | consolidation parameters of the variable; each job keeps those read by `csldInit` |
| `maxRecords` | `max_records` of the layout |
| `job` | for each job its state, the datasets listed, the orders not indexed yet |
| `nextUri` | uuids |

**Worker (`ConsolidationHandler`).** One action per step another goroutine may
come between. The loaders take files off a closed channel and their size off
`remaining` (a machine integer, `Wrap`), and fetch them or drop them; a failure
makes the loader skip the files left. The merging goroutines take records off `records`
and leave the record as it is, or merge it and decrement `counter`; the
removal of a file is a goroutine of its own (`removing`). `isCancelled` is a look at
`cancelled`, which may become true at any time, and answers no when the storage fails.
`Return` sets what is returned; the deferred functions come after it, in `deferredDelete`:
another look, the deletion of the container, either of which may fail in silence, and
the cleaning of the workspace. Before they are deferred, `Leave` cleans the workspace only.

**Fleet (`ConsolidationFleet`).** A pod that executes an order holds the lock of
its row (`held`) until the transaction commits; a pod that dies gives it back. When
the handler of an order returns an error, the transaction that deletes its row
enqueues it again, to be pulled later (`waiting`, `isDue`), as many times as the row has
waits left: three by default in the library, which the publisher does not change
(`Retries`). The last failure leaves no row. An error that is not temporary is
acknowledged (`fatalError`).
A tick of the autoscaler reads the backlog and the size separately, decides,
lists the pods again, polls the costs, and deletes or creates pods one by one;
anything may happen between these actions. The cost of a pod is how long it has
worked: the rank of its start in `since`. Nodes are abstracted by letting the
candidates come in any order.

| Variable | In the code |
|---|---|
| `queue`, `held`, `waiting` | rows of `pgq_jobs`: free, locked by the transaction of a pod, or with a `run_after` to come |
| `failed` | how many waits the row of each order has lost (`retry_waits`) |
| `since` | `jobStarted` of each pod, as an order |
| `answered`, `unpublished` | ghosts: orders whose result was published, orders acknowledged without one |
| `phase` | the cluster's view of each pod ("ready" is running with the condition Ready) |
| `scaler` | the local variables of `Autoscale`, `Resize`, `ScaleDown` |

**Catalogue (`Catalogue`).** One action per statement that reads and one per
transaction that writes. The writes of a transaction keep the rows they touch
locked until the commit, hence one action; it fails as a whole when a key is
duplicated or a reference broken (`RequestFails`, `TransactionFails`); what it
read before may be stale, and that is what the module is about. A request of
indexing reads the container (`prepareIndexation`) and writes it, new or with
datasets more (`saveContainer`). `delRemoveDatasets` reads the datasets that the
containers keep (`ReadContainers`), then removes datasets and the containers it
saw empty, of which the references refuse those that are not
(`StillEmpty`). Jobs list the datasets (`FindDatasets`) and lock them in a later
transaction (`delInit`, `csldInit`, `csldPrepareOrders`), at which the key of `locked_datasets`
refuses those that another job took. A step that commits (`Commit`, `done`) and the
event that changes the state of its job (`handleJobEvt`) are two actions wherever a
command or a failure in between makes a difference: the swap, the removal, the handover to a
deletion job, the deletion of the files. Elsewhere (`csldPrepareOrders`, `delSetToDelete`,
`ReleaseDatasets`) they are one, as the states before and after accept the same commands with
the same effects on what is locked or hidden. `CancelJob` has every cancellation that `Trigger`
accepts, forced or not: it makes a handler in a transaction stale, but one that deletes files
(`deleting`) goes on. Failures, retries and `CleanJobs` of each job are actions too.

| Variable | In the code |
|---|---|
| `aoi`, `record`, `variable`, `instance`, `params` | rows of these tables; `params` by owner, as no reference protects them |
| `container`, `dataset`, `lock` | rows of `containers`, `datasets`, `locked_datasets` |
| `job` | row of each job (`state`), the step it is in (`reading`, `done`), the datasets chosen, the containers found empty, the files a handler is deleting; `forced` is a history |
| `task` | the files each deletion job has still to delete |
| `file` | the storage |
| `client` | what each request under way has read |
| `dropped` | history: the managed containers that jobs have removed |

**Cube (`CubeRequest`).** One record per goroutine. Channels without a buffer are
joint actions (`receiveResult`, `streamSlice`); the buffered channel of
acknowledgements is `ack`; a channel closed without a result is an element of
`closed`. The check of a context and the send that follows it are two actions
(`checkAck`, `sendAck`), and a send on a closed channel sets `panicked`, after
which nothing runs. The client may leave at any time, or the stream break.

| Variable | In the code |
|---|---|
| `ctx` | the context of the request |
| `taken`, `worker` | the jobs of `jobChan`, the goroutines `mergeDatasetsWorker` |
| `closed` | the result channels closed without a result |
| `orderer`, `delivered`, `handler` | `orderResults`; what the handler received; `DownloadCube` |
| `toFetch`, `fetching`, `available` | `downloadChan`, the goroutine of the downloads, the availability channels |
| `file`, `remover`, `pending`, `ack` | the local files, the goroutines `removeLocalFileWorker`, their counts and channels |

## 3. The runs

Deadlock is checked in `Fleet`, which never stops; the others end: a job that
ended, or a request that was served, stays as it is. `MaxCommands` and
`MaxFaults` bound what the environment does; the queues, the counters and the
number of steps are unbounded.

| Run | Checks | Bounds and why they are enough |
|---|---|---|
| `TwoCells` | `CountersMatch`, `NothingLost`, `ServedOnce`, `InputsStayLocked`, `IndexedHasFile`, `IndexedOnce`, `EffectiveIsComplete`, `RollbackIsClean`, `KeepsPromise` | two containers sharing a dataset, so that one may fail and the other succeed, collapsing or not; pauses of `StepByStepCritical` (level 2), so that the user also acts on a job that waits; three commands among `Continue`, `Retried`, `RetryForced`, `CancelledByUserForced`; one fault; two handlers |
| `Cancel` | `NoOrphanFile`, `PendingIsInFlight`, `EventuallySettles` | two containers, two cancellations, under `FairSpec` |
| `Deletion` | `CountersMatch`, `NoDanglingDataset`, `NoForgottenFile`, `DoneIsDeleted`, `HiddenIsLocked`, `RollbackRestores` | four containers: two emptied and managed, one that keeps a dataset, one not managed; a job of a user or of a consolidation; three commands, two faults |
| `Orders` | types, `DeletedIsCopied`, `OrdersHoldTheirSources`, `NothingUnread` | two jobs, at once or in a row (a second consolidation finds the containers of the first); three images of two records over two cells; two formats; one or two records per container |
| `Worker` | types, `SourcesAreKept`, `OutcomeIsJustified`, `ConsolidateReturns` | four records, two of which share a file, one needing a file twice, one already a COG; a quota that is zero, too small, sufficient, or overflows; two loaders, two goroutines, two failures, those of the calls to the storage included; under `FairSpec` |
| `Fleet` | `BoundedFleet`, `OneHolder`, `LongestWorkIsSpared`, `OrdersAreKept`, `WorkEnds` | two orders, that the fleet has to grow to hold; three pods for a maximum of two, steps of one; one retry per order and three faults, so that an order may be given up while another fault hits the fleet (the theorems are for any `Retries`); under `FairSpec` |
| `Cube` | `InOrder`, `CompleteOrError`, `FileKeptWhileUsed`, `SoundWhileLive`, `EverythingReleased` | three slices, two workers, two containers each shared by two slices, one with two datasets of a slice; the client may leave; under `FairSpec` |
| `Catalogue` | `FilesAreKept`, `NoForgottenFile`, `JobsHoldTheirDatasets`, `ParamsAreKept` | one container, which all the jobs and requests meet in; two datasets, so that they may be removed at once by two jobs, each seeing the other's; two deletion jobs and a consolidation, so that a job may compete with either kind and hand its datasets over; two clients; four requests, commands included: enough for a deletion to be created, cancelled too late and cleaned while its container is indexed again |
| `ForceCancel` | `FailedChangesNothing` is violated | one command |
| `RetryThenCancel` | `NoOrphanFile` is violated | three commands |
| `MultiRecord` | `IndexingSucceeds` is violated | two records, two per container |
| `OverlapLoss` | `NothingUnread` is violated | one record, two cells that overlap |

Two handlers are enough for a stale copy: a third could only be stale as well.
The handlers are interchangeable, hence the symmetry; the run with liveness does
without it. The initial states of `Catalogue` have every set of datasets indexed,
in managed containers or not.

**The violations** are disagreements between the code and its documentation:

1. `ForceCancel`: the swap is committed and its event is not yet handled; a
   forced cancellation then rolls back, but the swap stays. The job is FAILED,
   the new datasets are served, the old ones are hidden and unlocked.
2. `RetryThenCancel`: a retry makes the sender of the orders stale; its
   `SendOrdersFailed` moves the retried job to CONSOLIDATIONFAILED while workers
   run. A cancellation from there writes no cancellation file, and a container
   uploaded after the rollback is orphaned. (`Cancel` shows that without retries
   no file is left.)
3. `MultiRecord`: the datasets of a consolidated container are INACTIVE, and
   `AddDataset` refuses any dataset of a container that has an INACTIVE one: no
   container of two records or more can be indexed. `Orders` therefore meets
   containers of one record only once they are indexed, and
   `ConsolidationJob`, where a task has one output, is exact for them.
4. `OverlapLoss`: two cells of different reference systems overlap, as
   neighbouring zones do. A record consolidated there twice has each of its containers
   excluded as full in its own cell, yet merged, for the overlap only, in the other
   cell, and then deleted: the rest is lost. `Orders` shows that nothing is lost
   when cells do not overlap.

`KeepsPromise` takes a job as failed when it says so *and* none of its
containers is served: the readers are then told, whatever the user forces, that
the replacement is done all at once, once, before any success and never after
a failure. That a job may say FAILED although it has replaced the datasets is
the subject of `FailedChangesNothing` (1). A forced cancellation is the short way
there; the same happens, with plain retries, when a failed swap is reported
twice and the duplicate is handled after the retry has swapped, and when
`RetryForced` runs the swap on two servers.

**Known issues without a run.** Met while modelling, present in the models,
allowed by the properties (each is at its line in "hazards"):

* A deletion has the gap of violation 1: cancelled by force after the removal was
  committed and before its event, or while the files are deleted (`job.go:574`), it
  ends FAILED though its datasets are gone (`operations.go:416`, "nothing to do (unit of
  work)"). Its tasks remain, until `CleanJobs`, which takes FAILED jobs by default, deletes
  them: the files that were left are then forgotten. `NoForgottenFile` of `Catalogue` has this
  exception only.
* Violation 1 leaves datasets hidden that no job holds: `JobsHoldTheirDatasets` excepts the
  datasets of the jobs cancelled by force that late. So does a forced cancellation in
  place of a rollback, of a deletion job that failed to start (`job.go:625`) or to roll
  back (`job.go:515`, `:617`): it ends FAILED at once, and cleaning it releases what is
  still hidden.
* The rollback of the deletion job of a consolidation makes the replaced datasets
  ACTIVE again, along with the consolidated ones (`operations.go:419`).
* `mergeDatasetsWorker` checks the context of an acknowledgement, then sends it
  on a channel that may have been closed in between: cancelling a request at that
  moment stops the whole downloader (`catalog.go:589`). `SoundWhileLive` is that
  it cannot happen before.
* A container with two datasets of a slice is counted twice but acknowledged
  once: its file is removed only at the end of the request
  (`predownload.go:97`, `:137`).
* `mergeTags` writes the tags it merges into those of the first record
  (`catalog.go:540`).
* The queue of PostgreSQL always gives a `TryCount` of -1 (`pgqueue.go:179`): the worker
  never reports "too many tries". A temporary error makes the library enqueue the order again,
  after one, ten and thirty minutes; the fourth failure deletes its row and reports
  nothing: the task stays PENDING. An order whose result cannot be published, and not
  for a temporary reason, is acknowledged likewise. `OrdersAreKept` has these two ways to
  leave the table besides an answer, and no other.
* `Consolidate` ignores the failure of its last look at the cancellation file, and of
  the deletion of the container (`handler_consolidation.go:84`, `:389`): one failure of the
  storage leaves the container of a task reported cancelled. `OutcomeIsJustified` says
  that it takes one.
* `orderedPodsCandidateForDeletion` takes from the list of all the pods the rank
  of a pod among the ready ones: with an unready pod it may delete another pod than
  the cheapest, or the same one twice (`replication-controller.go:400`).
  `LongestWorkIsSpared` is restricted to fleets whose pods are all ready, and to
  the pods that still exist: one that ended its order after the poll, and left, was
  not spared. When no pod answers the poll, it indexes an empty list (`:374`).
* The exclusion of full containers starts its search one dataset further after
  each container it did not exclude: a full container that is not at the head of
  the list may be merged again, uselessly (`consolidater.go:451`).
* With the default options of the consolidater the quota of local downloads is
  MaxInt64 megabytes, which overflows in bytes (`handler_consolidation.go:278`):
  nothing is ever downloaded, contrary to `docs/installation/local-install.md:129`.
  `Worker` has it at a smaller width.
* Ten goroutines write the map `filesToDownload` without a lock
  (`handler_consolidation.go:305`): the worker may stop (`loadersRace`), and
  deliver its order again.
* A source that is already a usable COG and was not downloaded is returned by its
  remote name and opened as a file of the disk: the task fails
  (`CogNotDownloaded`, an exception in `OutcomeIsJustified`).
* A merging goroutine that sees the cancellation returns an ordinary error: the
  task is reported failed rather than cancelled (`handler_consolidation.go:106`).

* A dataset loses its file when its URI is indexed again between the removal of
  its managed container and the deletion of the file (`operations.go:367`), even if
  it is then declared not managed, which `operations.proto:60` says is never
  deleted. `FilesAreKept` is restricted to the other containers.
* Two deletion jobs that remove the last two datasets of a managed container each
  see the dataset of the other: the container stays without dataset, with its
  file, and `TidyPending` lists only the containers that are not managed
  (`pg_containers.go:102`), though `admin.proto:17` speaks of all those without dataset.
* Two requests that index a container at once may add two datasets at the same
  place of it: `AddDataset` looks at what each has read, and no key forbids it.
* `ConfigConsolidation` may save the parameters of a variable after it was
  deleted, and `CleanJobs` leaves those of the jobs it deletes: they wait for
  `TidyPending`.
* `CreateAOI` answers the identifier of the request, not that of the AOI that
  another request created between its reading and its writing (`geocube.proto:34`).
* `UpdateVariable` and `UpdateInstance` write all the columns they have read:
  of two requests at once, the first is forgotten.
* `DeleteVariable` deletes the instances without dataset with the variable,
  where `variables.proto` announces an error.
* `CleanJobs` lists the jobs before its transaction and does not check that they have
  not moved since; and a `DONEBUTUNTIDY` job, whose tasks are the only memory of some
  files, may be asked for by its state (`internal/grpc/service.go:704`).

**Fairness.** `ConsolidationJob` (`Cancel`): weak fairness of the submission, of the
handlers taken together, of the task events and of the workers. The queues are
polled for ever by `Consumer.Pull` loops and a step always returns. Fairness is
not given to any particular handler, worker or outcome: a task may always fail,
and commands and faults never have to happen. `EventuallySettles` says that the
job ends or waits for the user; with faults it would be false, since an event
lost between a save and its publication leaves the job to a forced retry.
`ConsolidationHandler` and `CubeRequest`: each goroutine that can run does; calls
to GDAL, the storage and the client return, done or failed; nobody has to fail,
cancel or leave. `ConsolidationFleet`: each worker goes on, each pod that is
pending starts, the autoscaler ticks for ever (`Autoscaler.Run`), and time passes
(`isDue`: a worker polls every ten seconds for the rows whose time has come); publishing
orders and faults are not fair, and are finite by the bounds. An order that fails for
ever is finite too, by its waits.

## 4. The proofs

**The consolidation job.** `ConsolidationJobProofs` and `ConsolidationPromiseProofs`
prove, for any number of tasks, sources, handlers, commands and faults, with or
without collapsing, at every level but the synchronous one:

| Theorem | States |
|---|---|
| `TypeCorrect` | `Spec => [](TypeOK /\ CountersMatch)` |
| `CatalogueCorrect` | `Spec => []CatalogueInv`, the inductive invariant |
| `NothingIsLost`, `NothingIsServedTwice`, `ContainersAreIndexedOnce`, `LocksAreKept`, `EffectiveJobsAreComplete` | `NothingLost`, `ServedOnce`, `IndexedOnce`, `InputsStayLocked`, `EffectiveIsComplete` |
| `RollbacksAreClean` | `RollbackIsClean` |
| `IndexedContainersExist` | `Spec => []IndexedHasFile` |
| `PromiseKept` | `Spec => KeepsPromise`: `ConsolidationJob` implements `CatalogueSwap` |
| `NoFileIsOrphaned` | `ASSUME Calm PROVE Spec => []NoOrphanFile` |
| `PendingTasksAreInFlight` | `ASSUME Calm PROVE Spec => []PendingIsInFlight` |

Assumptions, `Calm` apart: the named ones of `JobHandlers` and `ConsolidationJob` only (a
finite `Task`; every task merges some sources; levels and commands are those of
the code).

`TypeOK` needs `CountersMatch` to be inductive: that a counter does not go below
zero follows only from its being the number of tasks in some states. The argument
is about the cardinalities of the sets of tasks that move (`CountMoves`,
`SetTasksCounts`, used for every action that calls `SetTasks`).

None of the five catalogue invariants is inductive. What makes them true is
*where a fresh handler can be*: a handler that has not been overtaken runs the
step of the state the job is in. `CatalogueInv` states this, then ties each phase
of the job to the rows: which states may have tasks, inactive or active outputs,
which locks are held, and which events may be in the queue or about to be sent in
which phase (an old `ConsolidationDone` may be handled late, but only a job whose
tasks are all done or indexed has sent one that its state still handles). The
proof has one lemma per part of the invariant. What a step may do to the queue,
to the handlers, to the state of the job and to the catalogue is stated once, in
`Emitted`, `HandlerMoves`, `Moved` (from `EdgeFacts`, about the automaton) and
`Effects`, so that the parts do not go through all the actions each.

`IndexedHasFile` needs an invariant of its own, `FileInv`, on top of
`CatalogueInv`: whatever was built (an order past its upload, a success not
handled yet, a task that is done) is in the storage until the job is cancelled
for good; cancellation files name tasks that are not indexed; and the steps that
write them or delete pending containers run in cancelled jobs only, even on a
stale copy. A file then leaves the storage only in a cancelled job and with its
dataset out of the catalogue (`FileStep`), while a container enters the catalogue
only in a job that is not cancelled (`OutputStep`).

`PromiseKept` is the step simulation, on top of `CatalogueInv`: what a reader can
see changes in the swap only (`ReadersSee`), which maps to `Swap`; what the user is
told maps to `Succeed` or `Fail`, every other step to a stutter. Its invariant,
`PromiseInv`, says what makes the swap replace the plan and nothing else: once the
orders were prepared, no lock of the submission is left (`InitLocks`), and only
planned sources are locked to be deleted or out of the catalogue; a container is
active only in a job that has swapped, and then all of them are (`AllProducts`).
The swap indeed hides whatever the job still has locked, without looking at the
plan.

The last two theorems assume `Calm`: `MaxFaults = 0` (no crash, no
call or publication that fails, nothing delivered twice) and no `Retried` nor
`RetryForced` among the `Commands`.
Everything else may happen: any interleaving of any number of handlers and workers,
events that come late, handlers that are overtaken, orders that fail, cancellations at any time, forced or
not, and jobs that pause, at any level, until the user lets them continue. `Cancel` is
the instance with two tasks and two handlers, at one level and without `Continue`. No
hypothesis can be dropped. A crash between the save of `csldSendOrders` and its publications leaves
PENDING tasks without an order, and a storage that refuses a deletion keeps the file
(`csldRollback` ignores the error). A retry orphans a file (`RetryThenCancel`); it also
takes a task out of flight, since `UpdateTask` refuses an event that arrives in
`CONSOLIDATIONRETRYING` and `handleTaskEvt` then drops it: the task stays PENDING, with
nothing left to change it, in a job that goes back to `CONSOLIDATIONINPROGRESS`. The guide
warns of it (`docs/user-guide/consolidation.md:94`).

Their invariant, `CalmInv`, holds on top of `CatalogueInv` and `FileInv`, and follows
every message and every file:

- a task has one message at most, its order or its event, and exactly one when it is
  PENDING in a job in progress (`LoadInv`);
- a file belongs to a dataset, to a task that is done or pending, or to an order that
  has uploaded it, and an order that has not, or a failure, has no file (`TrackedInv`);
- once the job is aborted, or a handler or an event is about to abort it, each worker
  still busy has a cancellation file (`CoveredInv`): `csldCancel` writes them before the
  save, and the other ways to abort find no order left (`NoOrders`), because the
  job is not started yet, is built, or has failed after its last task
  (`EarlyInv`, `CompleteHeard`, `FailedInv`);
- the orders are sent, and the rollback done, by one handler that nobody overtakes
  (`SoloInv`): the saves that could overtake it are those of task events, and none is in
  flight then. This is why a rollback does not fail, and why it is over when
  the job is FAILED (`RollbackInv`).

What a step may do is stated once for a message (`LoadStep`), a task (`TaskStep`), a
handler (`HandlerTurns`), the events that matter (`Posted`) and the state (`StateMoves`,
from `CalmEdges`); there is one lemma per part of the invariant on top of these.

**The orders.** `ConsolidationOrdersProofs`, for any finite set of records, any datasets,
cells, reference systems, formats and jobs:

| Theorem | States |
|---|---|
| `SourcesAreHeld` | `Spec => []OrdersHoldTheirSources` |
| `ContainersFit` | `Spec => []OrdersFit`, the part of `TypeOK` on the lengths of the containers |
| `OrderTypesHold` | `Spec => []TypeOK` |
| `ReplacedIsCopied` | `ASSUME Paving PROVE Spec => []DeletedIsCopied` |
| `NothingBecomesUnread` | `ASSUME Paving PROVE Spec => NothingUnread` |

`Paving` is that two cells share no point and have the same reference system, as
the cells of one regular grid. It cannot be dropped: `OverlapLoss` violates
`NothingUnread` without it. Nothing else is assumed but `OrdersAssumption`.

The argument for the sources: however the datasets of a cell are sorted, what is kept is among its
candidates (`KeptWereCandidates`), a chunk has only records of the sequence it cuts
(`ChunksOf`), and a candidate is active and locked by the job, or shares its
container with one that is (`CandidatesHeld`); the exchange of the locks fails
rather than touch a dataset locked by another job (`ExchangedLocks`). Every other
step leaves fewer orders and keeps what they read (`FewerOrders`). The theorems also
hold where cells overlap, and where containers are refused.

The types need to know that a name is given once and that a lock tells where its
job is. `CatalogueInv` says so: datasets have names of their own (`OwnNames`), and
those of the orders are new (`NewNames`); a dataset is free and active, or held
by a job whose state fits its flag and its status (`LocksInv`); a consolidated one lies in
its cell (`DatasetTypes`).

What is deleted is copied, point by point (`CopiesInv`), because what is locked is
what was kept of a cell, and all that matters of it was planned. A dataset that
was merged in a cell was found there (`CandidatesAre`). If users indexed it, it is
needed in every cell it has a point in, hence never excluded from any of them
(`NeedsAreKept`); if it is consolidated, it can only be found in its own cell, that it
does not leave, and this is where `Paving` is used (`PlanCopies`). What is kept is in a
record (`RecordsAre`), a record is in a chunk (`ChunkHas`), a chunk in an order. The
swap then makes the copies active in the step that hides what they replace
(`SwapCopies`); every other step keeps what is active.

`NeedsAreKept` is about all that the loop over the two indices may do, a function
that calls itself in `ExcludedFrom`. That it exists and follows its equation, and that
a search which ends excludes no dataset that needs to be consolidated, are proved from
the least search that would not (`LeastNatural`, from the well-foundedness
of the naturals): the induction theorems of the library, which take an operator,
are not needed.

**The cube.** `CubeRequestProofs`, for any number of workers, slices and
containers, whether clients leave or not:

| Theorem | States |
|---|---|
| `StreamCorrect` | `Spec => []CubeInv`, the inductive invariant |
| `SlicesAreInOrder` | `Spec => []InOrder` |
| `SuccessIsComplete` | `Spec => []CompleteOrError` |
| `FilesCorrect` | `Spec => []FilesInv`, the inductive invariant of the files |
| `FilesAreKept` | `Spec => []FileKeptWhileUsed` |
| `LiveRequestsDoNotPanic` | `Spec => []SoundWhileLive` |
| `CubeTypes` | `Spec => []TypeOK` |

Neither of the first two properties is inductive. `CubeInv` adds that `orderResults` is ahead of all
that was delivered (`Increasing`), and that while the request is live no result
channel was closed empty and what was delivered is exactly what is behind it
(`NothingMissing`): a success needs a context that is live when the ordered
channel is closed, which then was closed after the last slice.

`FilesInv` is what a file waits for: the slices that still have to acknowledge it
(`Due`), those not taken and those in the hands of a worker. As long as the
request is live, the counter of its remover is at least their number, plus the
acknowledgement that is in the channel (`Awaited`); so a file is not removed, nor its
channel closed, while a slice is due. It is "at least" and not "exactly": a
container that a slice uses twice is counted twice and acknowledged once. That the
first count is large enough is a fact about a sum over the slices
(`CountedPerSlice`), which is written as the cardinality of a union: no induction is
needed to reason about it.

**The worker.** `ConsolidationHandlerProofs`, for any records, files, sizes, quotas,
loaders, goroutines and faults, at any width of the integers:

| Theorem | States |
|---|---|
| `HandlerCorrect` | `Spec => []HandlerInv`, the inductive invariant |
| `HandlerTypes` | `Spec => []TypeOK` |
| `NeededSourcesAreKept` | `Spec => []SourcesAreKept` |
| `OutcomesAreJustified` | `ASSUME Worker # {} PROVE Spec => []OutcomeIsJustified` |

The counter of a local file is the number of the datasets that are in it and whose
record is not merged (`CounterInv`): decremented by the merge of a record for all that it
reads of the file, whatever the order, it comes to zero with the last of
them. A file of the workspace is on the disk, or has no use left, or a loader is
on its way to it (`FileInv`). `WorkerInv` says that two goroutines have
different records, and that a record of the queue is nobody's; `CauseInv` and
`DoneInv`, why the work has stopped, and that without a failure no record was forgotten;
so that a container is left behind a cancellation only by a fault.
`Worker # {}` is that the option `--workers` is at least one: with zero the code
starts no goroutine, and the upload fails without a cause.

**The fleet.** `ConsolidationFleetProofs`, for any number of orders and pods, and
any configuration that `Autoscale` accepts with whole ratios:

| Theorem | States |
|---|---|
| `OrdersAreHeldOnce` | `Spec => []OneHolder` |
| `FleetIsBounded` | `Spec => []BoundedFleet` |
| `OrdersRemain` | `Spec => OrdersAreKept` |
| `LongestWorkersAreSpared` | `Spec => []LongestWorkIsSpared` |

`OneHolder` needs only the types of what it is about (`WorkInv`), and that an order has
one row at most, none once it was given up: the transaction that deletes a row enqueues the
next. `BoundedFleet`
needs to know what a tick may still do: `TickInv` says that what the tick has
still to create, added to the pods that are active, never exceeds the maximum.
Only the autoscaler creates pods, and everything else that happens between its
reading of the pods and its last creation makes them fewer.

`LongestWorkIsSpared` compares pods long after they were ranked, some being deleted
meanwhile. `SpareInv` says what makes the comparison last: the costs are those of one poll, and
nothing is created after a poll, hence a pod that is deleted stays absent until
the end of the tick. When it was ranked, the list of the doomed was a prefix of the
pods sorted by cost. An earlier statement of the property, which also counted pods
that had gone, held in `Fleet` and was falsified by TLC on a larger instance
(four orders, three pods, steps of two) when its proof failed.

**The deletion job.** `DeletionJobProofs`, for any number of datasets, containers,
handlers, commands and faults:

| Theorem | States |
|---|---|
| `TypeCorrect` | `Spec => [](TypeOK /\ CountersMatch)` |
| `DeletionCorrect` | `Spec => []DeletionInv`, the inductive invariant |
| `DatasetsCanBeRead`, `FilesAreRemembered`, `HiddenDatasetsAreLocked`, `DoneJobsHaveDeleted` | `NoDanglingDataset`, `NoForgottenFile`, `HiddenIsLocked`, `DoneIsDeleted` |
| `RollbacksRestore` | `RollbackRestores` |

The state of the job says little: it may be ABORTED when everything is deleted,
and a stale handler deletes files whatever the state is. `DeletionInv` has one
part per kind of knowledge: `FilesInv`, what a container that is missing, a task
or a file implies, true in every state; `LocksInv`, what the phase of the job
(before the removal, after it, aborting) says of locks and statuses; `HandlersInv`,
in which phase a handler may be in a step, fresh or not; `EventsInv`, what an
event that is queued or about to be sent tells of the rows (a `DeletionDone` that
all is deleted, a `RollbackDone` that nothing is hidden or locked), which stays
true as long as the event may be handled (`Stays`).

Assumptions: those of `JobHandlers` and `DeletionJob`; among them
`ManagedAssumption`, that a container has a row only with datasets, which the
known issue of two concurrent deletions is an exception to.

**The catalogue.** `CatalogueProofs`, for any rows, jobs, clients and requests:

| Theorem | States |
|---|---|
| `SharedCatalogueCorrect` | `Spec => []CatalogueInv`, the inductive invariant, types included |
| `FilesKept`, `FilesRemembered`, `DatasetsHeld` | `FilesAreKept`, `NoForgottenFile`, `JobsHoldTheirDatasets` |
| `ParamsKept` | `ParamsAreKept` |

`CatalogueInv` adds what each request knows that cannot become stale (`ClientInv`);
in which states a job reads, has committed its step or was cancelled by force (`JobInv`); that a
lock belongs to a job that has the dataset among those it chose (`LockInv`); and that
tasks are for containers that were removed (`TaskInv`). The two sets are kept apart,
`Hold` and `Files`, since most actions disturb one only. A cancellation is the delicate
step: once the removal is committed the job has nothing locked any more, and what it
has hidden or removed is known from its history alone (`forced`, `chosen`, `empty`). That
history excuses no other job, and no job whose cancellation came in time.

**Only model-checked.** Liveness (`EventuallySettles`, `EverythingReleased`, `WorkEnds`,
`ConsolidateReturns`): it rests on fairness, which is out of the prover's reach. Every
invariant and every action property of a passing run is a theorem, some under the
hypotheses on the constants stated with them (`Calm`, `Paving`, a worker at least).

## 5. Not modelled, and the plan

Not modelled: the pixels, geometry, gRPC conversions and logs; layouts, grids,
palettes and tags, `UpdateVariable`, `UpdateInstance` and `UpdateDatasets` (single
rows, or columns that nothing here tells apart); persistence states (a computation
between reading and writing, done or not); transfers and retries inside storage
clients; synchronous deletion jobs; `HeadersOnly` cubes and tiles; orders of a
collapse record (in `ConsolidationOrders`); the pubsub consumer and its lease
extension. Most of the repository's lines are generated protocol code, request
conversions and numeric code on images, which have no state to check. A rollback
handler that was overtaken may delete the file of a pending container a second
time; the model stops it at the first save it fails. `ConsolidationFleet` assumes
that an API call of the cluster fails only for a pod that is gone already.
`Catalogue` merges a commit and its event where nothing that comes between tells them apart
(section 2), and has no crash nor message delivered twice: `ConsolidationJob` and
`DeletionJob` have them for one job. See "components" in `PROJECT.json`.

What comes next, the most important first:

1. The composition of a consolidation with the deletion job it creates, events
   of both included.
2. `PubSub`: the consumer, its lease extension and its retries.
3. The choice of the datasets of a cube (filters, headers only, tiles).

