------------------------ MODULE ConsolidationHandler ------------------------
(* The execution of one order by a worker (internal/image,                   *)
(* handler_consolidation.go): goroutines download the sources, others merge  *)
(* the records and remove the sources that are not needed any more, then the *)
(* container is uploaded.  For the server, all this is workerChecks to       *)
(* workerReports of ConsolidationJob.                                        *)
EXTENDS Integers, Sequences, FiniteSets, SequencesExt

CONSTANTS
    NbRecords,  \* the records of the order
    File,       \* the containers they are in
    Datasets,   \* Datasets[r]: the file of each dataset of record r
    Remote,     \* the files that can be downloaded
    Usable,     \* the files that are already COGs as the order wants them
    Size,       \* Size[f]: how much room file f takes
    Loader,     \* the goroutines that download
    Worker,     \* the goroutines that merge (--workers)
    MaxMb,      \* the possible values of --local-download-max-mb
    Mega,       \* the units in a megabyte: 1024 * 1024 in the code
    IntLimit,   \* integers are below: 2^63 in the code
    MaxFaults   \* how many calls fail

Record == 1..NbRecords
None == "none"
Merged == "merged"

ASSUME HandlerAssumption ==
    /\ NbRecords \in Nat
    /\ Datasets \in [Record -> Seq(File) \ {<<>>}]
    /\ Remote \subseteq File /\ Usable \subseteq File
    /\ Size \in [File -> Nat]
    /\ MaxMb \subseteq 0..(IntLimit - 1)
    /\ Mega \in Nat \ {0} /\ IntLimit \in Nat \ {0}
    /\ MaxFaults \in Nat
    /\ None \notin File /\ Merged \notin File
    /\ IsFiniteSet(File) /\ IsFiniteSet(Worker)

VARIABLES
    maxMb,     \* localDownloadMaxMb
    remaining, \* remainingSize
    toFetch,   \* the files that no goroutine has taken yet
    loader,    \* what each loader does, and with which file
    place,     \* whether each file is read in the workspace, or where it was given
    counter,   \* tmpFileCounter
    onDisk,    \* the files in the workspace
    removing,  \* the files that a goroutine is about to remove
    records,   \* the channel of records, and whether it is closed
    pushed,    \* how many records were sent to it
    worker,    \* what each worker does, and with which record (0: none)
    cogs,      \* cogListFile: what each record was made into
    failed,    \* whether the group of goroutines has an error
    cancelled, \* whether the cancellation file of the task exists
    main,      \* where Consolidate is ("returning": its deferred functions)
    uploaded,  \* whether the container is in the storage
    outcome,   \* what Consolidate returns
    faults

loading == <<maxMb, remaining, toFetch, loader, place>>
merging == <<counter, removing, records, pushed, worker, cogs>>
vars == <<loading, merging, onDisk, failed, cancelled, main, uploaded, outcome, faults>>

TypeOK ==
    /\ maxMb \in MaxMb
    /\ remaining \in -IntLimit..(IntLimit - 1)
    /\ toFetch \subseteq Remote
    /\ loader \in [Loader -> [pc : {"ranging", "fetching", "dropping", "failed"}, on : File \cup {None}]]
    /\ place \in [File -> {"workspace", "given"}]
    /\ counter \in [File -> Nat]
    /\ onDisk \subseteq Remote
    /\ removing \subseteq Remote
    /\ records.queue \in Seq(Record) /\ records.closed \in BOOLEAN
    /\ pushed \in 0..NbRecords
    /\ worker \in [Worker -> [pc : {"ranging", "opening", "merging", "ended"}, on : 0..NbRecords]]
    /\ cogs \in [Record -> File \cup {None, Merged}]
    /\ failed \in BOOLEAN
    /\ cancelled \in BOOLEAN
    /\ main \in {"loading", "pushing", "uploading", "uploaded", "returning", "returned", "crashed"}
    /\ uploaded \in BOOLEAN
    /\ outcome \in {None, "success", "cancelled", "error"}
    /\ faults \in 0..MaxFaults

Used == UNION {ToSet(Datasets[r]) : r \in Record}

(* Mutant: a file is counted once. *)
MutUsesOncePerFile(f) == IF f \in Used THEN 1 ELSE 0

(* Mutant: a file is counted once per record. *)
MutUsesOncePerRecord(f) == Cardinality({r \in Record : f \in ToSet(Datasets[r])})

(* The datasets of record r, or of all the records, that are in file f. *)
DatasetsIn(f, r) == {r} \X {n \in DOMAIN Datasets[r] : Datasets[r][n] = f}
Uses(f) == Cardinality(UNION {DatasetsIn(f, r) : r \in Record})

(* The value of an integer that overflows. *)
Wrap(n) == ((n + IntLimit) % (2 * IntLimit)) - IntLimit

(* Nothing is downloaded when the maximum is zero. *)
Init ==
    /\ maxMb \in MaxMb
    /\ remaining = Wrap(maxMb * Mega)
    /\ toFetch = IF maxMb > 0 THEN Used \cap Remote ELSE {}
    /\ loader = [l \in Loader |-> [pc |-> "ranging", on |-> None]]
    /\ place = [f \in File |-> IF f \in toFetch THEN "workspace" ELSE "given"]
    /\ counter = [f \in File |-> IF f \in toFetch THEN Uses(f) ELSE 0]
    /\ onDisk = {}
    /\ removing = {}
    /\ records = [queue |-> <<>>, closed |-> FALSE]
    /\ pushed = 0
    /\ worker = [w \in Worker |-> [pc |-> "ranging", on |-> 0]]
    /\ cogs = [r \in Record |-> None]
    /\ failed = FALSE
    /\ cancelled = FALSE
    /\ main = "loading"
    /\ uploaded = FALSE
    /\ outcome = None
    /\ faults = 0

Fault == faults < MaxFaults /\ faults' = faults + 1

-----------------------------------------------------------------------------
(* getLocalDatasetsByRecord: the loaders *)

Loads(l, pc, f) == loader' = [loader EXCEPT ![l] = [pc |-> pc, on |-> f]]

(* The size of the file is taken off what remains, even if it is too much. *)
loaderTakes(l) ==
    /\ main = "loading"
    /\ loader[l].pc = "ranging"
    /\ \E f \in toFetch :
        /\ toFetch' = toFetch \ {f}
        /\ remaining' = Wrap(remaining - Size[f])
        /\ Loads(l, IF Wrap(remaining - Size[f]) < 0 THEN "dropping" ELSE "fetching", f)
    /\ UNCHANGED <<maxMb, place, merging, onDisk, failed, cancelled, main, uploaded, outcome, faults>>

loaderFetches(l) ==
    /\ main = "loading"
    /\ loader[l].pc = "fetching"
    /\ onDisk' = onDisk \cup {loader[l].on}
    /\ Loads(l, "ranging", None)
    /\ UNCHANGED <<maxMb, remaining, toFetch, place, merging, failed, cancelled, main, uploaded, outcome, faults>>

(* The quota is reached: the file will be read where it is. *)
loaderDrops(l) ==
    /\ main = "loading"
    /\ loader[l].pc = "dropping"
    /\ place' = [place EXCEPT ![loader[l].on] = "given"]
    /\ Loads(l, "ranging", None)
    /\ UNCHANGED <<maxMb, remaining, toFetch, merging, onDisk, failed, cancelled, main, uploaded, outcome, faults>>

(* The map is not locked: two concurrent writes may stop the program. *)
loadersRace ==
    /\ main = "loading"
    /\ \E l, k \in Loader : l # k /\ loader[l].pc = "dropping" /\ loader[k].pc = "dropping"
    /\ main' = "crashed"
    /\ UNCHANGED <<loading, merging, onDisk, failed, cancelled, uploaded, outcome, faults>>

(* The size is not available, or the download fails: the loader skips the    *)
(* files it takes from now on, and the downloads of the others are cancelled. *)
loaderFails(l) ==
    /\ main = "loading"
    /\ \/ Fault /\ loader[l].pc = "ranging" /\ \E f \in toFetch : toFetch' = toFetch \ {f}
       \/ Fault /\ loader[l].pc = "fetching" /\ UNCHANGED toFetch
       \/ \E k \in Loader : loader[k].pc = "failed"
          /\ loader[l].pc = "fetching"
          /\ UNCHANGED <<toFetch, faults>>
    /\ Loads(l, "failed", None)
    /\ UNCHANGED <<maxMb, remaining, place, merging, onDisk, failed, cancelled, main, uploaded, outcome>>

loaderSkips(l) ==
    /\ main = "loading"
    /\ loader[l].pc = "failed"
    /\ \E f \in toFetch : toFetch' = toFetch \ {f}
    /\ UNCHANGED <<maxMb, remaining, loader, place, merging, onDisk, failed, cancelled, main, uploaded, outcome, faults>>

-----------------------------------------------------------------------------
(* Consolidate *)

(* isCancelled: a cancellation file that cannot be looked up is not seen.    *)
isCancelled(seen) ==
    \/ seen = cancelled /\ UNCHANGED faults
    \/ seen = FALSE /\ cancelled /\ Fault

(* The deletion of the container is not deferred yet: the workspace is       *)
(* cleaned, and nothing else.                                                *)
Leave(res) ==
    /\ main' = "returned"
    /\ outcome' = res
    /\ onDisk' = {}

returnFromLoading ==
    /\ main = "loading"
    /\ toFetch = {}
    /\ \A l \in Loader : loader[l].pc \in {"ranging", "failed"}
    /\ \/ /\ \E l \in Loader : loader[l].pc = "failed"
          /\ Leave("error")
          /\ UNCHANGED faults
       \/ /\ \A l \in Loader : loader[l].pc # "failed"
          /\ \E seen \in BOOLEAN :
              /\ isCancelled(seen)
              /\ IF seen THEN Leave("cancelled") ELSE main' = "pushing" /\ UNCHANGED <<outcome, onDisk>>
    /\ UNCHANGED <<loading, merging, failed, cancelled, uploaded>>

Return(res) ==
    /\ main' = "returning"
    /\ outcome' = res

(* Mutant: the container of a cancelled task is not deleted. *)
MutStaysUploaded == uploaded

(* The container of a task that is cancelled by now is deleted. *)
StaysUploaded == uploaded /\ ~cancelled

(* The deferred functions: the deletion, unless the look-up or the deletion  *)
(* fails, which nothing reports; then the workspace is cleaned.              *)
deferredDelete ==
    /\ main = "returning"
    /\ \/ uploaded' = StaysUploaded /\ UNCHANGED faults
       \/ cancelled /\ Fault /\ UNCHANGED uploaded
    /\ main' = "returned"
    /\ onDisk' = {}
    /\ UNCHANGED <<loading, merging, failed, cancelled, outcome>>

(* Mutant: the channel has room for one record. *)
MutRoomOfOne == 1

(* The channel has room for all the records: Consolidate sends them all,     *)
(* even if no worker is left to take them.                                   *)
Room == NbRecords

push ==
    /\ main = "pushing"
    /\ pushed < NbRecords
    /\ Len(records.queue) < Room
    /\ pushed' = pushed + 1
    /\ records' = [records EXCEPT !.queue = Append(@, pushed + 1)]
    /\ UNCHANGED <<loading, counter, removing, worker, cogs, onDisk, failed, cancelled, main, uploaded, outcome, faults>>

closeRecords ==
    /\ main = "pushing"
    /\ pushed = NbRecords
    /\ ~records.closed
    /\ records' = [records EXCEPT !.closed = TRUE]
    /\ UNCHANGED <<loading, counter, removing, pushed, worker, cogs, onDisk, failed, cancelled, main, uploaded, outcome, faults>>

Works(w, pc, r) == worker' = [worker EXCEPT ![w] = [pc |-> pc, on |-> r]]

(* A worker takes a record, and gives up if the task is cancelled or if      *)
(* another worker has failed.                                                *)
workerTakes(w) ==
    /\ main = "pushing"
    /\ worker[w].pc = "ranging"
    /\ records.queue # <<>>
    /\ records' = [records EXCEPT !.queue = Tail(@)]
    /\ \E seen \in BOOLEAN :
        /\ isCancelled(seen)
        /\ IF seen \/ failed
           THEN Works(w, "ended", 0) /\ failed' = TRUE
           ELSE Works(w, "opening", Head(records.queue)) /\ UNCHANGED failed
    /\ UNCHANGED <<loading, counter, removing, pushed, cogs, onDisk, cancelled, main, uploaded, outcome>>

workerEnds(w) ==
    /\ main = "pushing"
    /\ worker[w].pc = "ranging"
    /\ records.queue = <<>> /\ records.closed
    /\ Works(w, "ended", 0)
    /\ UNCHANGED <<loading, counter, removing, records, pushed, cogs, onDisk, failed, cancelled, main, uploaded, outcome, faults>>

(* isAlreadyUsableCOG *)
usableCOG(r) == Len(Datasets[r]) = 1 /\ Datasets[r][1] \in Usable

(* The file is kept as it is: it remains counted. *)
workerSkips(w) ==
    /\ worker[w].pc = "opening"
    /\ LET r == worker[w].on IN
        /\ usableCOG(r)
        /\ cogs' = [cogs EXCEPT ![r] = Datasets[r][1]]
    /\ Works(w, "ranging", 0)
    /\ UNCHANGED <<loading, counter, removing, records, pushed, onDisk, failed, cancelled, main, uploaded, outcome, faults>>

workerStartsToMerge(w) ==
    /\ worker[w].pc = "opening"
    /\ ~usableCOG(worker[w].on)
    /\ Works(w, "merging", worker[w].on)
    /\ UNCHANGED <<loading, counter, removing, records, pushed, cogs, onDisk, failed, cancelled, main, uploaded, outcome, faults>>

(* One use less for each dataset. *)
Released(c, r) ==
    [f \in File |-> IF place[f] = "workspace" THEN c[f] - Cardinality(DatasetsIn(f, r)) ELSE c[f]]

(* The record is merged; the files it was the last to need are removed by    *)
(* other goroutines.                                                         *)
workerMerges(w) ==
    /\ worker[w].pc = "merging"
    /\ LET r == worker[w].on IN
        /\ cogs' = [cogs EXCEPT ![r] = Merged]
        /\ counter' = Released(counter, r)
        /\ removing' = removing \cup {f \in File : counter[f] > 0 /\ Released(counter, r)[f] = 0}
    /\ Works(w, "ranging", 0)
    /\ UNCHANGED <<loading, records, pushed, onDisk, failed, cancelled, main, uploaded, outcome, faults>>

workerFails(w) ==
    /\ Fault
    /\ worker[w].pc = "merging"
    /\ Works(w, "ended", 0)
    /\ failed' = TRUE
    /\ UNCHANGED <<loading, counter, removing, records, pushed, cogs, onDisk, cancelled, main, uploaded, outcome>>

remove(f) ==
    /\ f \in removing
    /\ removing' = removing \ {f}
    /\ onDisk' = onDisk \ {f}
    /\ UNCHANGED <<loading, counter, records, pushed, worker, cogs, failed, cancelled, main, uploaded, outcome, faults>>

(* Mutant: the first worker that ends ends the group. *)
MutEndedFirst(S) == \E w \in S : worker[w].pc = "ended"

Ended(S) == \A w \in S : worker[w].pc = "ended"

waitForWorkers ==
    /\ main = "pushing"
    /\ records.closed
    /\ Ended(Worker)
    /\ \/ failed /\ Return("error") /\ UNCHANGED faults
       \/ /\ ~failed
          /\ \E seen \in BOOLEAN :
              /\ isCancelled(seen)
              /\ IF seen THEN Return("cancelled") ELSE main' = "uploading" /\ UNCHANGED outcome
    /\ UNCHANGED <<loading, merging, onDisk, failed, cancelled, uploaded>>

(* The files are opened as files of the disk, not of the storage. *)
Openable(r) == cogs[r] = Merged \/ cogs[r] \in onDisk \/ cogs[r] \in File \ Remote

uploadFile ==
    /\ main = "uploading"
    /\ \/ /\ \A r \in Record : Openable(r)
          /\ main' = "uploaded"
          /\ uploaded' = TRUE
          /\ UNCHANGED <<outcome, faults>>
       \/ /\ \E r \in Record : ~Openable(r)
          /\ Return("error")
          /\ UNCHANGED <<uploaded, faults>>
       \/ Fault /\ Return("error") /\ UNCHANGED uploaded
    /\ UNCHANGED <<loading, merging, onDisk, failed, cancelled>>

(* The task may be cancelled between this check and the deferred one. *)
returnFromUpload ==
    /\ main = "uploaded"
    /\ \E seen \in BOOLEAN : isCancelled(seen) /\ Return(IF seen THEN "cancelled" ELSE "success")
    /\ UNCHANGED <<loading, merging, onDisk, failed, cancelled, uploaded>>

cancel ==
    /\ ~cancelled
    /\ cancelled' = TRUE
    /\ UNCHANGED <<loading, merging, onDisk, failed, main, uploaded, outcome, faults>>
-----------------------------------------------------------------------------
LoaderStep(l) ==
    loaderTakes(l) \/ loaderFetches(l) \/ loaderDrops(l) \/ loaderFails(l) \/ loaderSkips(l)

WorkerStep(w) ==
    workerTakes(w) \/ workerSkips(w) \/ workerStartsToMerge(w) \/ workerMerges(w) \/ workerFails(w) \/ workerEnds(w)

MainStep ==
    returnFromLoading \/ push \/ closeRecords \/ waitForWorkers \/ uploadFile \/ returnFromUpload \/ deferredDelete

Next ==
    \/ \E l \in Loader : LoaderStep(l)
    \/ \E w \in Worker : WorkerStep(w)
    \/ \E f \in File : remove(f)
    \/ MainStep
    \/ loadersRace
    \/ cancel

Spec == Init /\ [][Next]_vars

(* Every goroutine goes on. *)
FairSpec ==
    /\ Spec
    /\ \A l \in Loader : WF_vars(LoaderStep(l))
    /\ \A w \in Worker : WF_vars(WorkerStep(w))
    /\ WF_vars(MainStep)

-----------------------------------------------------------------------------
(* While the records are merged, in any order and by any workers, a source   *)
(* that was downloaded is removed only when no record still needs it, and    *)
(* never when it is itself part of the result (tmpFileCounter).              *)
SourcesAreKept ==
    main \in {"pushing", "uploading", "uploaded"} =>
        \A r \in Record : cogs[r] # Merged =>
            \A f \in ToSet(Datasets[r]) : place[f] = "workspace" => f \in onDisk \ removing

(* A source that is a COG already, and that was not downloaded. *)
CogNotDownloaded == \E r \in Record : usableCOG(r) /\ Datasets[r][1] \in Remote /\ place[Datasets[r][1]] = "given"

(* What is returned is true: an error has a cause, whichever goroutines end  *)
(* first; a task that says it is cancelled leaves no container, unless a     *)
(* call to the storage failed; one that succeeded leaves its container,      *)
(* unless it was cancelled after all (Consolidate, isCancelled).             *)
OutcomeIsJustified ==
    /\ outcome = "error" => faults > 0 \/ cancelled \/ CogNotDownloaded
    /\ outcome = "cancelled" => cancelled
    /\ outcome = "cancelled" /\ main = "returned" /\ uploaded => faults > 0
    /\ outcome = "success" => uploaded \/ cancelled

(* Whatever fails or is cancelled, Consolidate returns, unless the program   *)
(* stops: no goroutine waits for another that has given up.                  *)
ConsolidateReturns == <>(main \in {"returned", "crashed"})

=============================================================================
