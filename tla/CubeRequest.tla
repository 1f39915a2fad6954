---------------------------- MODULE CubeRequest ----------------------------
(* A cube of data served to one client by the downloader, with its datasets  *)
(* downloaded beforehand (internal/svc/catalog.go, predownload.go;           *)
(* internal/grpc/downloader.go, DownloadCube): the goroutines, the channels  *)
(* between them and the context that cancels them.  Pixels, headers and      *)
(* chunks are left out: a slice is its number, a container is its name.      *)
EXTENDS Integers, Sequences, FiniteSets, FiniteSetsExt

CONSTANTS
    Worker,      \* the goroutines mergeDatasetsWorker
    Uri,         \* the containers that are not local files
    NbSlices,    \* how many slices the cube has
    Uses,        \* Uses[i][u]: how many datasets of slice i are in container u
    ClientLeaves \* whether the client may leave, or the request time out

Slice == 1..NbSlices

ASSUME CubeAssumption ==
    /\ NbSlices \in Nat
    /\ Uses \in [Slice -> [Uri -> Nat]]
    /\ IsFiniteSet(Uri) /\ "none" \notin Uri
    /\ ClientLeaves \in BOOLEAN

VARIABLES
    ctx,       \* the context of the request: "live" or "cancelled"
    taken,     \* how many jobs the workers have taken from jobChan
    worker,    \* what each worker does, for which slice, with which containers
    closed,    \* the slices whose result channel was closed without a result
    orderer,   \* what orderResults does, and the slice it is at
    delivered, \* the slices the handler received, in order
    handler,   \* the gRPC handler
    toFetch,   \* the containers still in downloadChan
    fetching,  \* the container being downloaded, or none
    available, \* what the availability channel of a container gives
    file,      \* the containers downloaded in a local file
    remover,   \* what removeLocalFileWorker does for a container
    pending,   \* how many acknowledgements it still waits for
    ack,       \* its channel of acknowledgements: "empty", "full" or "closed"
    panicked   \* a send on a closed channel stopped the process

downloads == <<toFetch, fetching, available>>
files == <<file, remover, pending, ack>>
stream == <<orderer, delivered, handler>>
vars == <<ctx, taken, worker, closed, stream, downloads, files, panicked>>

None == "none"
Resting == [pc |-> "idle", slice |-> 0, wait |-> {}, acks |-> {}]

(* The goroutines of a file whose download ended with a local copy. *)
RemoverState == {"none", "running", "closing", "removing", "ended"}

TypeOK ==
    /\ ctx \in {"live", "cancelled"}
    /\ taken \in 0..NbSlices
    /\ worker \in [Worker -> [pc : {"idle", "waiting", "merging", "acking", "sending", "result", "ended"},
                              slice : 0..NbSlices, wait : SUBSET Uri, acks : SUBSET Uri]]
    /\ closed \subseteq Slice
    /\ orderer \in [pc : {"waiting", "streaming", "ended"}, next : 1..(NbSlices + 1)]
    /\ delivered \in Seq(Slice)
    /\ handler \in {"reading", "sending", "failed", "succeeded"}
    /\ toFetch \subseteq Uri
    /\ fetching \in Uri \cup {None}
    /\ available \in [Uri -> {"none", "local", "remote", "closed"}]
    /\ file \subseteq Uri
    /\ remover \in [Uri -> RemoverState]
    /\ pending \in [Uri -> Nat]
    /\ ack \in [Uri -> {"empty", "full", "closed"}]
    /\ panicked \in BOOLEAN

-----------------------------------------------------------------------------
Needs(i) == {u \in Uri : Uses[i][u] > 0}

(* Mutant: a container is counted once, however many slices need it. *)
MutRefCountOnce(u) == 1

(* A container is needed once per dataset, even of the same slice. *)
DatasetsIn(u) == UNION {{i} \X (1..Uses[i][u]) : i \in Slice}
RefCount(u) == Cardinality(DatasetsIn(u))

(* Containers are downloaded in the order they appear in the slices. *)
FirstUse(u) == Min({i \in Slice : u \in Needs(i)})

(* The workers are started while the handler sends the header of the cube. *)
Init ==
    /\ ctx = "live"
    /\ taken = 0
    /\ worker = [w \in Worker |-> Resting]
    /\ closed = {}
    /\ orderer = [pc |-> "waiting", next |-> 1]
    /\ delivered = <<>>
    /\ handler = "sending"
    /\ toFetch = {u \in Uri : \E i \in Slice : u \in Needs(i)}
    /\ fetching = None
    /\ available = [u \in Uri |-> "none"]
    /\ file = {}
    /\ remover = [u \in Uri |-> "none"]
    /\ pending = [u \in Uri |-> 0]
    /\ ack = [u \in Uri |-> "empty"]
    /\ panicked = FALSE

Cancelled == ctx = "cancelled"

-----------------------------------------------------------------------------
(* downloadRemoteDatasetsWorker: the one goroutine that downloads *)

startDownload(u) ==
    /\ fetching = None
    /\ u \in toFetch
    /\ \A v \in toFetch : FirstUse(u) <= FirstUse(v)
    /\ ~Cancelled
    /\ toFetch' = toFetch \ {u}
    /\ fetching' = u
    /\ UNCHANGED <<available, ctx, taken, worker, closed, stream, files>>

(* Mutant: nothing is done for the containers left in the channel. *)
mutSkipDownloadSilently(u) ==
    /\ fetching = None
    /\ u \in toFetch
    /\ Cancelled
    /\ toFetch' = toFetch \ {u}
    /\ UNCHANGED <<fetching, available, ctx, taken, worker, closed, stream, files>>

skipDownload(u) ==
    /\ fetching = None
    /\ u \in toFetch
    /\ Cancelled
    /\ toFetch' = toFetch \ {u}
    /\ available' = [available EXCEPT ![u] = "closed"]
    /\ UNCHANGED <<fetching, ctx, taken, worker, closed, stream, files>>

(* The result is sent as many times as it is needed, in a channel that holds *)
(* them all.  A file downloaded has its own goroutine, that will remove it.   *)
downloaded(u) ==
    /\ fetching = u
    /\ fetching' = None
    /\ available' = [available EXCEPT ![u] = "local"]
    /\ file' = file \cup {u}
    /\ remover' = [remover EXCEPT ![u] = "running"]
    /\ pending' = [pending EXCEPT ![u] = RefCount(u)]
    /\ UNCHANGED <<toFetch, ack, ctx, taken, worker, closed, stream>>

(* The download failed: the container will be read where it is. *)
notDownloaded(u) ==
    /\ fetching = u
    /\ fetching' = None
    /\ available' = [available EXCEPT ![u] = "remote"]
    /\ UNCHANGED <<toFetch, ctx, taken, worker, closed, stream, files>>

-----------------------------------------------------------------------------
(* removeLocalFileWorker: one goroutine per downloaded file *)

(* Receive an acknowledgement; after the last one, cancel the context of the *)
(* acknowledgements and leave.                                               *)
receiveAck(u) ==
    /\ remover[u] = "running"
    /\ ack[u] = "full"
    /\ ack' = [ack EXCEPT ![u] = "empty"]
    /\ pending' = [pending EXCEPT ![u] = @ - 1]
    /\ remover' = [remover EXCEPT ![u] = IF pending[u] = 1 THEN "closing" ELSE @]
    /\ UNCHANGED <<file, ctx, taken, worker, closed, stream, downloads>>

stopRemover(u) ==
    /\ remover[u] = "running"
    /\ Cancelled
    /\ remover' = [remover EXCEPT ![u] = "closing"]
    /\ UNCHANGED <<file, pending, ack, ctx, taken, worker, closed, stream, downloads>>

closeAck(u) ==
    /\ remover[u] = "closing"
    /\ ack' = [ack EXCEPT ![u] = "closed"]
    /\ remover' = [remover EXCEPT ![u] = "removing"]
    /\ UNCHANGED <<file, pending, ctx, taken, worker, closed, stream, downloads>>

removeFile(u) ==
    /\ remover[u] = "removing"
    /\ file' = file \ {u}
    /\ remover' = [remover EXCEPT ![u] = "ended"]
    /\ UNCHANGED <<pending, ack, ctx, taken, worker, closed, stream, downloads>>

-----------------------------------------------------------------------------
(* mergeDatasetsWorker *)

Becomes(w, pc) == worker' = [worker EXCEPT ![w].pc = pc]

(* Take the next job; if the request is cancelled already, only close the    *)
(* channel of its result.                                                    *)
takeJob(w) ==
    /\ worker[w].pc = "idle"
    /\ taken < NbSlices
    /\ taken' = taken + 1
    /\ IF Cancelled
       THEN closed' = closed \cup {taken'} /\ UNCHANGED worker
       ELSE /\ worker' = [worker EXCEPT ![w] = [pc |-> "waiting", slice |-> taken', wait |-> Needs(taken'), acks |-> {}]]
            /\ UNCHANGED closed
    /\ UNCHANGED <<ctx, stream, downloads, files>>

noMoreJob(w) ==
    /\ worker[w].pc = "idle"
    /\ taken = NbSlices
    /\ Becomes(w, "ended")
    /\ UNCHANGED <<ctx, taken, closed, stream, downloads, files>>

(* WaitForAvailability: one result per container, in any order; a file that  *)
(* was downloaded will have to be acknowledged.                              *)
waitForAvailability(w, u) ==
    /\ worker[w].pc = "waiting"
    /\ u \in worker[w].wait
    /\ available[u] # "none"
    /\ worker' = [worker EXCEPT ![w].wait = @ \ {u},
                                ![w].acks = IF available[u] = "local" THEN @ \cup {u} ELSE @]
    /\ UNCHANGED <<ctx, taken, closed, stream, downloads, files>>

startMerge(w) ==
    /\ worker[w].pc = "waiting"
    /\ worker[w].wait = {}
    /\ Becomes(w, "merging")
    /\ UNCHANGED <<ctx, taken, closed, stream, downloads, files>>

(* MergeDatasets returns, an image in memory or an error. *)
merged(w) ==
    /\ worker[w].pc = "merging"
    /\ Becomes(w, "acking")
    /\ UNCHANGED <<ctx, taken, closed, stream, downloads, files>>

(* The context of the acknowledgements of a file is cancelled. *)
AckIsUseless(u) == Cancelled \/ remover[u] \in {"closing", "removing", "ended"}

(* Acknowledge the files one after the other, unless it is useless.  The     *)
(* check and the sending are two steps: wait holds the file between them.    *)
checkAck(w, u) ==
    /\ worker[w].pc = "acking"
    /\ u \in worker[w].acks
    /\ worker' = [worker EXCEPT ![w].acks = @ \ {u},
                                ![w].pc = IF AckIsUseless(u) THEN @ ELSE "sending",
                                ![w].wait = IF AckIsUseless(u) THEN @ ELSE {u}]
    /\ UNCHANGED <<ctx, taken, closed, stream, downloads, files, panicked>>

(* A send waits for room in the channel, and panics if it is closed. *)
sendAck(w, u) ==
    /\ worker[w].pc = "sending"
    /\ worker[w].wait = {u}
    /\ \/ /\ ack[u] = "empty"
          /\ ack' = [ack EXCEPT ![u] = "full"]
          /\ worker' = [worker EXCEPT ![w].pc = "acking", ![w].wait = {}]
          /\ UNCHANGED panicked
       \/ /\ ack[u] = "closed"
          /\ panicked' = TRUE
          /\ UNCHANGED <<ack, worker>>
    /\ UNCHANGED <<file, remover, pending, ctx, taken, closed, stream, downloads>>

allAcked(w) ==
    /\ worker[w].pc = "acking"
    /\ worker[w].acks = {}
    /\ Becomes(w, "result")
    /\ UNCHANGED <<ctx, taken, closed, stream, downloads, files>>

dropResult(w) ==
    /\ worker[w].pc = "result"
    /\ Cancelled
    /\ closed' = closed \cup {worker[w].slice}
    /\ worker' = [worker EXCEPT ![w] = Resting]
    /\ UNCHANGED <<ctx, taken, stream, downloads, files>>

-----------------------------------------------------------------------------
(* orderResults *)

(* Mutant: the results are streamed as they come. *)
MutIsNextAny(i) == TRUE

IsNext(i) == i = orderer.next

(* The result channel has no buffer: the worker and orderResults meet. *)
receiveResult(w) ==
    /\ orderer.pc = "waiting"
    /\ worker[w].pc = "result"
    /\ IsNext(worker[w].slice)
    /\ orderer' = [pc |-> "streaming", next |-> worker[w].slice]
    /\ worker' = [worker EXCEPT ![w] = Resting]
    /\ UNCHANGED <<ctx, taken, closed, delivered, handler, downloads, files>>

(* A closed channel gives an empty slice, which is not streamed. *)
skipResult ==
    /\ orderer.pc = "waiting"
    /\ orderer.next \in closed
    /\ orderer' = [orderer EXCEPT !.next = @ + 1]
    /\ UNCHANGED <<ctx, taken, worker, closed, delivered, handler, downloads, files>>

(* The channel of the ordered slices has no buffer either. *)
streamSlice ==
    /\ orderer.pc = "streaming"
    /\ handler = "reading"
    /\ orderer' = [pc |-> "waiting", next |-> orderer.next + 1]
    /\ delivered' = Append(delivered, orderer.next)
    /\ handler' = "sending"
    /\ UNCHANGED <<ctx, taken, worker, closed, downloads, files>>

(* All the slices were streamed, or the request is cancelled. *)
closeOrdered ==
    /\ \/ orderer.pc = "waiting" /\ orderer.next > NbSlices
       \/ orderer.pc # "ended" /\ Cancelled
    /\ orderer' = [orderer EXCEPT !.pc = "ended"]
    /\ UNCHANGED <<ctx, taken, worker, closed, delivered, handler, downloads, files>>

-----------------------------------------------------------------------------
(* DownloadCube, and its client *)

sendSlice ==
    /\ handler = "sending"
    /\ handler' = "reading"
    /\ UNCHANGED <<ctx, taken, worker, closed, orderer, delivered, downloads, files>>

(* The stream is broken: the handler returns, which cancels the request. *)
sendSliceFails ==
    /\ ClientLeaves
    /\ handler = "sending"
    /\ handler' = "failed"
    /\ ctx' = "cancelled"
    /\ UNCHANGED <<taken, worker, closed, orderer, delivered, downloads, files>>

(* Mutant: the error of the context is not returned. *)
MutOutcomeAlwaysNil == "succeeded"

Outcome == IF Cancelled THEN "failed" ELSE "succeeded"

(* The ordered channel is closed: the handler returns the error of the       *)
(* context, then cancels it.                                                 *)
endOfCube ==
    /\ handler = "reading"
    /\ orderer.pc = "ended"
    /\ handler' = Outcome
    /\ ctx' = "cancelled"
    /\ UNCHANGED <<taken, worker, closed, orderer, delivered, downloads, files>>

(* The client cancels, or maxConnectionAge is reached. *)
leave ==
    /\ ClientLeaves
    /\ ~Cancelled
    /\ ctx' = "cancelled"
    /\ UNCHANGED <<taken, worker, closed, stream, downloads, files>>

-----------------------------------------------------------------------------
Acknowledge(w) == \E u \in Uri : checkAck(w, u) \/ sendAck(w, u)

Download ==
    /\ \E u \in Uri : startDownload(u) \/ skipDownload(u) \/ downloaded(u) \/ notDownloaded(u)
    /\ UNCHANGED panicked

Remove(u) ==
    /\ receiveAck(u) \/ stopRemover(u) \/ closeAck(u) \/ removeFile(u)
    /\ UNCHANGED panicked

Work(w) ==
    \/ /\ takeJob(w) \/ noMoreJob(w) \/ startMerge(w) \/ merged(w) \/ allAcked(w) \/ dropResult(w)
       /\ UNCHANGED panicked
    \/ (\E u \in Uri : waitForAvailability(w, u)) /\ UNCHANGED panicked
    \/ Acknowledge(w)

Order ==
    /\ skipResult \/ streamSlice \/ closeOrdered \/ \E w \in Worker : receiveResult(w)
    /\ UNCHANGED panicked

Serve ==
    /\ sendSlice \/ sendSliceFails \/ endOfCube
    /\ UNCHANGED panicked

(* A panic stops the whole process. *)
Next ==
    /\ ~panicked
    /\ \/ Download
       \/ \E u \in Uri : Remove(u)
       \/ \E w \in Worker : Work(w)
       \/ Order
       \/ Serve
       \/ leave /\ UNCHANGED panicked

Spec == Init /\ [][Next]_vars

(* Every goroutine that can run does: the downloads and the merges end, with *)
(* a result or an error, and a send to the client ends too, done or failed.  *)
Fairness ==
    /\ WF_vars(~panicked /\ Download)
    /\ \A u \in Uri : WF_vars(~panicked /\ Remove(u))
    /\ \A w \in Worker : WF_vars(~panicked /\ Work(w))
    /\ WF_vars(~panicked /\ Order)
    /\ WF_vars(~panicked /\ Serve)

FairSpec == Spec /\ Fairness

-----------------------------------------------------------------------------
(* What a client is promised *)

(* The slices are streamed in the order of the records whichever worker ends *)
(* first (orderResults); none is missed as long as the request is live.      *)
InOrder ==
    /\ \A j, k \in 1..Len(delivered) : j < k => delivered[j] < delivered[k]
    /\ ~Cancelled => \A k \in 1..Len(delivered) : delivered[k] = k

(* The client is told of a success only if it received all the slices: a     *)
(* slice dropped by a worker or by orderResults is never passed over in      *)
(* silence (DownloadCube returns ctx.Err()).                                 *)
CompleteOrError == handler = "succeeded" => delivered = [k \in Slice |-> k]

(* removeLocalFileWorker keeps a downloaded file until every merge that was  *)
(* told to read it is over, unless the request is cancelled.                 *)
FileKeptWhileUsed ==
    \A w \in Worker : worker[w].pc = "merging" /\ ~Cancelled => worker[w].acks \subseteq file

(* The channel of acknowledgements of a file is closed after the last one:   *)
(* a send never finds it closed while the request is live.                   *)
SoundWhileLive == ~Cancelled => ~panicked

(* Whether the client leaves or not, the handler returns, every goroutine of *)
(* the request ends and no downloaded file is left on the disk.              *)
Over ==
    /\ handler \in {"failed", "succeeded"}
    /\ \A w \in Worker : worker[w].pc = "ended"
    /\ orderer.pc = "ended"
    /\ toFetch = {} /\ fetching = None
    /\ \A u \in Uri : remover[u] \in {"none", "ended"}
    /\ file = {}

EverythingReleased == <>[](Over \/ panicked)

=============================================================================
