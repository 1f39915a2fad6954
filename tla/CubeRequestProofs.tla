-------------------------- MODULE CubeRequestProofs --------------------------
(* What TLAPS proves of a cube request, for any number of workers, slices    *)
(* and containers: the slices are streamed in order, a success is only       *)
(* reported to a client that received all of them, a file is kept as long as *)
(* a merge reads it and no live request sends on a closed channel.           *)
EXTENDS CubeRequest, FiniteSetTheorems, TLAPS

Pc == {"idle", "waiting", "merging", "acking", "sending", "result", "ended"}

(* A worker that has a job works on a slice of the cube. *)
WorkerInv ==
    /\ taken \in 0..NbSlices
    /\ closed \subseteq Slice
    /\ worker \in [Worker -> [pc : Pc, slice : 0..NbSlices, wait : SUBSET Uri, acks : SUBSET Uri]]
    /\ \A w \in Worker : worker[w].pc \notin {"idle", "ended"} => worker[w].slice \in Slice

StreamType ==
    /\ ctx \in {"live", "cancelled"}
    /\ orderer \in [pc : {"waiting", "streaming", "ended"}, next : 1..(NbSlices + 1)]
    /\ orderer.pc = "streaming" => orderer.next \in Slice
    /\ delivered \in Seq(Slice)

(* What was delivered is behind the slice that orderResults is at... *)
Increasing ==
    /\ \A k \in 1..Len(delivered) : delivered[k] < orderer.next
    /\ \A j, k \in 1..Len(delivered) : j < k => delivered[j] < delivered[k]

(* ...and is all that is behind, as long as no slice was dropped. *)
NothingMissing ==
    ~Cancelled => /\ closed = {}
                  /\ Len(delivered) = orderer.next - 1
                  /\ \A k \in 1..Len(delivered) : delivered[k] = k
                  /\ orderer.pc = "ended" => orderer.next = NbSlices + 1

CubeInv == WorkerInv /\ StreamType /\ Increasing /\ NothingMissing /\ CompleteOrError

-----------------------------------------------------------------------------
LEMMA InitCube == Init => CubeInv
  BY CubeAssumption
  DEF Init, CubeInv, WorkerInv, StreamType, Increasing, NothingMissing, CompleteOrError,
      Cancelled, Resting, Pc, Slice

(* A worker moves on; it has a job unless it waits for one, or has ended. *)
LEMMA OneWorker ==
    ASSUME WorkerInv, NEW w \in Worker,
           NEW r \in [pc : Pc, slice : 0..NbSlices, wait : SUBSET Uri, acks : SUBSET Uri],
           r.pc \notin {"idle", "ended"} => r.slice \in Slice,
           worker' = [worker EXCEPT ![w] = r],
           taken' \in 0..NbSlices, closed' \subseteq Slice
    PROVE  WorkerInv'
  BY DEF WorkerInv

(* The goroutines of the workers, the only ones that take jobs. *)
LEMMA WorkerStep ==
    ASSUME WorkerInv, [Next]_vars
    PROVE  WorkerInv'
<1> USE CubeAssumption DEF Slice
<1>1. CASE UNCHANGED <<taken, closed, worker>>
  BY <1>1 DEF WorkerInv
<1>2. ASSUME NEW w \in Worker, Work(w)
      PROVE  WorkerInv'
  <2> DEFINE Record == [pc : Pc, slice : 0..NbSlices, wait : SUBSET Uri, acks : SUBSET Uri]
  <2>a. /\ worker[w] \in Record /\ worker \in [Worker -> Record]
        /\ worker[w].pc \notin {"idle", "ended"} => worker[w].slice \in Slice
        /\ taken \in 0..NbSlices /\ closed \subseteq Slice
    BY DEF WorkerInv
  <2>b. ASSUME NEW r \in Record, r.pc \notin {"idle", "ended"} => r.slice \in Slice,
               worker' = [worker EXCEPT ![w] = r], taken' \in 0..NbSlices, closed' \subseteq Slice
        PROVE  WorkerInv'
    BY <2>b, OneWorker
  <2>1. CASE takeJob(w)
    <3>0. taken \in 0..NbSlices /\ taken < NbSlices /\ taken' = taken + 1
      BY <2>1, <2>a DEF takeJob
    <3>1. taken' \in 0..NbSlices /\ taken' \in Slice /\ closed' \subseteq Slice
      <4>1. taken' \in 0..NbSlices /\ taken' \in Slice
        BY <3>0
      <4>2. closed' \subseteq closed \cup {taken'}
        BY <2>1 DEF takeJob
      <4>3. QED
        BY <2>a, <4>1, <4>2
    <3>2. [pc |-> "waiting", slice |-> taken', wait |-> Needs(taken'), acks |-> {}] \in Record
      BY <3>1 DEF Pc, Needs
    <3>3. CASE Cancelled
      BY <2>1, <3>1, <3>3 DEF takeJob, WorkerInv
    <3>4. CASE ~Cancelled
      BY <2>1, <2>b, <3>1, <3>2, <3>4 DEF takeJob
    <3>5. QED
      BY <3>3, <3>4
  <2>2. CASE noMoreJob(w) \/ startMerge(w) \/ merged(w) \/ allAcked(w)
    <3>1. PICK pc \in Pc : Becomes(w, pc) /\ UNCHANGED <<taken, closed>> /\ (pc = "ended" \/ worker[w].pc \notin {"idle", "ended"})
      BY <2>2 DEF noMoreJob, startMerge, merged, allAcked, Pc
    <3>2. [worker[w] EXCEPT !.pc = pc] \in Record
      BY <2>a
    <3>3. worker' = [worker EXCEPT ![w] = [worker[w] EXCEPT !.pc = pc]]
      BY <3>1, <2>a DEF Becomes
    <3>4. QED
      BY <2>a, <2>b, <3>1, <3>2, <3>3
  <2>3. CASE dropResult(w)
    <3>1. Resting \in Record
      BY DEF Resting, Pc
    <3>2. QED
      BY <2>3, <2>a, <2>b, <3>1 DEF dropResult, Resting
  <2>4. ASSUME NEW u \in Uri, waitForAvailability(w, u)
        PROVE  WorkerInv'
    <3> DEFINE acks == IF available[u] = "local" THEN worker[w].acks \cup {u} ELSE worker[w].acks
               r == [worker[w] EXCEPT !.wait = @ \ {u}, !.acks = acks]
    <3>1. r \in Record /\ r.pc = worker[w].pc /\ r.slice = worker[w].slice
      BY <2>a
    <3>2. worker' = [worker EXCEPT ![w] = r]
      BY <2>4, <2>a DEF waitForAvailability
    <3>3. QED
      BY <2>4, <2>a, <2>b, <3>1, <3>2 DEF waitForAvailability
  <2>5. ASSUME NEW u \in Uri, checkAck(w, u)
        PROVE  WorkerInv'
    <3> DEFINE r == [worker[w] EXCEPT !.acks = @ \ {u},
                                      !.pc = IF AckIsUseless(u) THEN @ ELSE "sending",
                                      !.wait = IF AckIsUseless(u) THEN @ ELSE {u}]
    <3>1. r \in Record /\ r.slice = worker[w].slice
      BY <2>a DEF Pc
    <3>2. worker' = [worker EXCEPT ![w] = r]
      BY <2>5, <2>a DEF checkAck
    <3>3. worker[w].pc = "acking"
      BY <2>5 DEF checkAck
    <3>4. QED
      BY <2>5, <2>a, <2>b, <3>1, <3>2, <3>3 DEF checkAck
  <2>6. ASSUME NEW u \in Uri, sendAck(w, u)
        PROVE  WorkerInv'
    <3>1. CASE UNCHANGED worker
      BY <2>6, <3>1 DEF sendAck, WorkerInv
    <3>2. CASE worker' = [worker EXCEPT ![w].pc = "acking", ![w].wait = {}]
      <4> DEFINE r == [worker[w] EXCEPT !.pc = "acking", !.wait = {}]
      <4>1. r \in Record /\ r.slice = worker[w].slice /\ worker[w].pc = "sending"
        BY <2>6, <2>a DEF Pc, sendAck
      <4>2. worker' = [worker EXCEPT ![w] = r]
        BY <3>2, <2>a
      <4>3. QED
        BY <2>6, <2>a, <2>b, <4>1, <4>2 DEF sendAck
    <3>3. QED
      BY <2>6, <3>1, <3>2 DEF sendAck
  <2>7. QED
    BY <1>2, <2>1, <2>2, <2>3, <2>4, <2>5, <2>6 DEF Work, Acknowledge
<1>3. ASSUME NEW w \in Worker, receiveResult(w)
      PROVE  WorkerInv'
  <2>1. Resting \in [pc : Pc, slice : 0..NbSlices, wait : SUBSET Uri, acks : SUBSET Uri]
    BY DEF Resting, Pc
  <2>2. QED
    BY <1>3, <2>1, OneWorker DEF WorkerInv, receiveResult, Resting
<1>4. CASE Download
  BY <1>1, <1>4 DEF Download, startDownload, skipDownload, downloaded, notDownloaded
<1>5. ASSUME NEW u \in Uri, Remove(u)
      PROVE  WorkerInv'
  BY <1>1, <1>5 DEF Remove, receiveAck, stopRemover, closeAck, removeFile
<1>6. CASE Order
  BY <1>1, <1>3, <1>6 DEF Order, skipResult, streamSlice, closeOrdered
<1>7. CASE Serve \/ leave
  BY <1>1, <1>7 DEF Serve, sendSlice, sendSliceFails, endOfCube, leave
<1>8. QED
  BY <1>1, <1>2, <1>4, <1>5, <1>6, <1>7 DEF Next, vars

-----------------------------------------------------------------------------
Streamed == StreamType /\ Increasing /\ NothingMissing /\ CompleteOrError

(* A step that leaves the stream alone may cancel the request, and drops a   *)
(* slice only when it is cancelled.                                          *)
LEMMA StreamIdle ==
    ASSUME Streamed, UNCHANGED stream, ctx' \in {ctx, "cancelled"}, ~Cancelled => closed' = closed \/ Cancelled'
    PROVE  Streamed'
  BY DEF Streamed, StreamType, Increasing, NothingMissing, CompleteOrError, Cancelled, stream

LEMMA StreamSlice ==
    ASSUME Streamed, streamSlice
    PROVE  Streamed'
<1> USE CubeAssumption DEF Slice, streamSlice
<1>1. /\ Len(delivered') = Len(delivered) + 1
      /\ \A k \in 1..Len(delivered) : delivered'[k] = delivered[k]
      /\ delivered'[Len(delivered) + 1] = orderer.next
      /\ delivered' \in Seq(Slice)
  BY DEF Streamed, StreamType
<1>2. Len(delivered) \in Nat /\ \A k \in 1..Len(delivered) : delivered[k] \in Int
  BY DEF Streamed, StreamType
<1>3. StreamType'
  BY <1>1 DEF Streamed, StreamType
<1>4. Increasing'
  BY <1>1, <1>2 DEF Streamed, StreamType, Increasing
<1>5. NothingMissing'
  BY <1>1, <1>2 DEF Streamed, StreamType, NothingMissing, Cancelled
<1>6. CompleteOrError'
  BY DEF CompleteOrError
<1>7. QED
  BY <1>3, <1>4, <1>5, <1>6 DEF Streamed

(* orderResults moves, and delivers nothing. *)
LEMMA OrderStep ==
    ASSUME Streamed, WorkerInv,
           skipResult \/ closeOrdered \/ \E w \in Worker : receiveResult(w)
    PROVE  Streamed'
<1> USE CubeAssumption DEF Slice
<1>1. CASE skipResult
  <2>1. orderer.next \in Slice /\ Cancelled
    BY <1>1 DEF skipResult, Streamed, NothingMissing, WorkerInv
  <2>2. \A k \in 1..Len(delivered) : delivered[k] \in Int
    BY DEF Streamed, StreamType
  <2>a. orderer' = [pc |-> "waiting", next |-> orderer.next + 1] /\ UNCHANGED <<ctx, delivered>>
    BY <1>1 DEF skipResult, Streamed, StreamType
  <2>3. StreamType'
    BY <2>1, <2>a DEF Streamed, StreamType
  <2>4. Increasing'
    BY <1>1, <2>1, <2>2 DEF skipResult, Streamed, StreamType, Increasing
  <2>5. NothingMissing' /\ CompleteOrError'
    BY <1>1, <2>1 DEF skipResult, Streamed, NothingMissing, CompleteOrError, Cancelled
  <2>6. QED
    BY <2>3, <2>4, <2>5 DEF Streamed
<1>2. CASE closeOrdered
  BY <1>2 DEF closeOrdered, Streamed, StreamType, Increasing, NothingMissing, CompleteOrError, Cancelled
<1>3. ASSUME NEW w \in Worker, receiveResult(w)
      PROVE  Streamed'
  <2>1. worker[w].slice = orderer.next /\ worker[w].slice \in Slice
    BY <1>3 DEF receiveResult, IsNext, WorkerInv
  <2>2. QED
    BY <1>3, <2>1 DEF receiveResult, Streamed, StreamType, Increasing, NothingMissing, CompleteOrError, Cancelled
<1>4. QED
  BY <1>1, <1>2, <1>3

(* The handler: a success is reported at the end of a stream that is still   *)
(* live, where nothing is missing.                                           *)
LEMMA ServeStep ==
    ASSUME Streamed, Serve
    PROVE  Streamed'
<1> USE CubeAssumption DEF Slice
<1>1. CASE sendSlice \/ sendSliceFails
  BY <1>1 DEF sendSlice, sendSliceFails, Streamed, StreamType, Increasing, NothingMissing, CompleteOrError, Cancelled
<1>2. CASE endOfCube
  <2>1. ASSUME handler' = "succeeded"
        PROVE  delivered' = [k \in 1..NbSlices |-> k]
    <3>1. ~Cancelled
      BY <1>2, <2>1 DEF endOfCube, Outcome
    <3>2. Len(delivered) = NbSlices /\ \A k \in 1..NbSlices : delivered[k] = k
      BY <1>2, <3>1 DEF endOfCube, Streamed, NothingMissing
    <3>3. delivered = [k \in 1..NbSlices |-> delivered[k]]
      BY <3>2 DEF Streamed, StreamType
    <3>4. QED
      BY <1>2, <3>2, <3>3 DEF endOfCube
  <2>2. QED
    BY <1>2, <2>1 DEF endOfCube, Streamed, StreamType, Increasing, NothingMissing, CompleteOrError, Cancelled
<1>3. QED
  BY <1>1, <1>2 DEF Serve

LEMMA StreamStep ==
    ASSUME Streamed, WorkerInv, [Next]_vars
    PROVE  Streamed'
<1>1. CASE UNCHANGED vars
  BY <1>1, StreamIdle DEF vars, Streamed, StreamType
<1>2. CASE Download
  BY <1>2, StreamIdle DEF Download, startDownload, skipDownload, downloaded, notDownloaded
<1>3. ASSUME NEW u \in Uri, Remove(u)
      PROVE  Streamed'
  BY <1>3, StreamIdle DEF Remove, receiveAck, stopRemover, closeAck, removeFile
<1>4. ASSUME NEW w \in Worker, Work(w)
      PROVE  Streamed'
  <2>1. CASE takeJob(w) \/ dropResult(w)
    BY <2>1, StreamIdle DEF takeJob, dropResult, Cancelled
  <2>2. CASE noMoreJob(w) \/ startMerge(w) \/ merged(w) \/ allAcked(w)
    BY <2>2, StreamIdle DEF noMoreJob, startMerge, merged, allAcked
  <2>3. ASSUME NEW u \in Uri, waitForAvailability(w, u) \/ checkAck(w, u) \/ sendAck(w, u)
        PROVE  Streamed'
    BY <2>3, StreamIdle DEF waitForAvailability, checkAck, sendAck
  <2>4. QED
    BY <1>4, <2>1, <2>2, <2>3 DEF Work, Acknowledge
<1>5. CASE Order
  BY <1>5, StreamSlice, OrderStep DEF Order
<1>6. CASE Serve
  BY <1>6, ServeStep
<1>7. CASE leave
  BY <1>7, StreamIdle DEF leave, stream, Cancelled
<1>8. QED
  BY <1>1, <1>2, <1>3, <1>4, <1>5, <1>6, <1>7 DEF Next

-----------------------------------------------------------------------------
(* The invariant that relates the stream, what orderResults waits for and    *)
(* the context (getCubeStream, orderResults, DownloadCube).                  *)
THEOREM StreamCorrect == Spec => []CubeInv
<1>1. CubeInv /\ [Next]_vars => CubeInv'
  BY WorkerStep, StreamStep DEF CubeInv, Streamed
<1>2. QED
  BY InitCube, <1>1, PTL DEF Spec

(* The slices reach the client in order, whichever worker ends first, and    *)
(* none is missed before the request is cancelled (orderResults).            *)
THEOREM SlicesAreInOrder == Spec => []InOrder
<1>1. CubeInv => InOrder
  BY DEF CubeInv, InOrder, Increasing, NothingMissing
<1>2. QED
  BY StreamCorrect, <1>1, PTL

(* A success is only reported when all the slices were streamed              *)
(* (DownloadCube).                                                           *)
THEOREM SuccessIsComplete == Spec => []CompleteOrError
<1>1. CubeInv => CompleteOrError
  BY DEF CubeInv
<1>2. QED
  BY StreamCorrect, <1>1, PTL

-----------------------------------------------------------------------------
(* The downloaded files *)

Row == [pc : Pc, slice : 0..NbSlices, wait : SUBSET Uri, acks : SUBSET Uri]

(* A worker that works on a slice has taken it, and waits for, or will       *)
(* acknowledge, containers of that slice; it holds none when it rests or     *)
(* gives its result.                                                         *)
SoundRow(r, n) ==
    /\ r.pc \in {"idle", "ended"} => r.slice = 0
    /\ r.pc \in {"idle", "ended", "result"} => r.acks = {}
    /\ r.pc \notin {"waiting", "sending"} => r.wait = {}
    /\ r.pc = "sending" => \E u \in Uri : r.wait = {u} /\ u \notin r.acks
    /\ r.slice <= n
    /\ \A u \in r.wait \cup r.acks : r.slice \in Slice /\ u \in Needs(r.slice)

(* The workers work on different slices. *)
Jobs ==
    /\ \A w \in Worker : SoundRow(worker[w], taken)
    /\ \A v, w \in Worker : worker[v].slice = worker[w].slice => v = w \/ worker[w].slice = 0

DownloadType ==
    /\ toFetch \subseteq Uri
    /\ fetching \in Uri \cup {None}
    /\ available \in [Uri -> {"none", "local", "remote", "closed"}]
    /\ file \subseteq Uri
    /\ remover \in [Uri -> RemoverState]
    /\ pending \in [Uri -> Nat]
    /\ ack \in [Uri -> {"empty", "full", "closed"}]

(* Containers of the cube are downloaded, each of them once. *)
Downloading ==
    /\ fetching \notin toFetch
    /\ \A u \in Uri : u \in toFetch \/ u = fetching => available[u] = "none" /\ \E i \in Slice : u \in Needs(i)

(* A file has its remover, whose progress the file and the channel of the    *)
(* acknowledgements follow.                                                  *)
Removing ==
    \A u \in Uri :
        /\ remover[u] = "none" <=> available[u] # "local"
        /\ remover[u] = "none" => ack[u] = "empty"
        /\ ack[u] = "closed" <=> remover[u] \in {"removing", "ended"}
        /\ u \in file <=> remover[u] \in {"running", "closing", "removing"}
        /\ remover[u] = "running" => pending[u] >= 1

(* What a worker will acknowledge is a local file. *)
Acknowledged(r) ==
    \A u \in Uri : u \in r.acks \/ (r.pc = "sending" /\ u \in r.wait) => available[u] = "local"

(* The slices that still have to acknowledge container u. *)
Due(u) ==
    {i \in Slice : /\ u \in Needs(i)
                   /\ \/ i > taken
                      \/ \E w \in Worker : worker[w].slice = i /\ u \in worker[w].wait \cup worker[w].acks}

(* As long as the request is live, the remover of a file waits for all of    *)
(* them, and for the acknowledgement that is in its channel.                 *)
Awaited ==
    ~Cancelled => \A u \in Uri :
        /\ remover[u] = "running" => pending[u] >= Cardinality(Due(u)) + (IF ack[u] = "full" THEN 1 ELSE 0)
        /\ remover[u] \in {"closing", "removing", "ended"} => Due(u) = {}

FilesInv ==
    /\ Jobs /\ DownloadType /\ Downloading /\ Removing
    /\ \A w \in Worker : Acknowledged(worker[w])
    /\ Awaited /\ SoundWhileLive

(* A container is counted at least once for each slice that needs it. *)
LEMMA CountedPerSlice ==
    ASSUME NEW u \in Uri
    PROVE  /\ RefCount(u) \in Nat
           /\ \A S \in SUBSET Slice : (\A i \in S : u \in Needs(i)) => IsFiniteSet(S) /\ Cardinality(S) <= RefCount(u)
<1> USE CubeAssumption
<1> DEFINE In(i) == {i} \X (1..Uses[i][u])
           in == [i \in Slice |-> In(i)]
           Ins == {in[i] : i \in Slice}
<1>1. \A i \in Slice : Uses[i][u] \in Nat
  OBVIOUS
<1>2. IsFiniteSet(Slice)
  BY FS_Interval DEF Slice
<1>3. IsFiniteSet(DatasetsIn(u))
  <2>1. in \in Surjection(Slice, Ins)
    BY DEF Surjection
  <2>2. IsFiniteSet(Ins)
    <3> HIDE DEF in, Ins
    <3> QED
      BY <1>2, <2>1, FS_Surjection
  <2>3. ASSUME NEW T \in Ins
        PROVE  IsFiniteSet(T)
    <3>1. PICK i \in Slice : T = {i} \X (1..Uses[i][u])
      OBVIOUS
    <3>2. IsFiniteSet({i})
      BY FS_Singleton
    <3>3. IsFiniteSet(1..Uses[i][u])
      BY <1>1, FS_Interval
    <3>4. QED
      BY <3>1, <3>2, <3>3, FS_Product
  <2>4. DatasetsIn(u) = UNION Ins
    BY DEF DatasetsIn
  <2> HIDE DEF Ins
  <2>5. QED
    BY <2>2, <2>3, <2>4, FS_UNION
<1>4. ASSUME NEW S \in SUBSET Slice, \A i \in S : u \in Needs(i)
      PROVE  IsFiniteSet(S) /\ Cardinality(S) <= RefCount(u)
  <2> DEFINE first == [i \in S |-> <<i, 1>>]
  <2>1. first \in Injection(S, DatasetsIn(u))
    <3>1. \A i \in S : <<i, 1>> \in DatasetsIn(u)
      BY <1>1, <1>4 DEF DatasetsIn, Needs
    <3>2. QED
      BY <3>1 DEF Injection, IsInjective
  <2> HIDE DEF first
  <2>2. QED
    BY <1>3, <2>1, FS_Injection DEF RefCount
<1>5. QED
  BY <1>3, <1>4, FS_CardinalityType DEF RefCount

LEMMA DueIsFinite ==
    ASSUME NEW u \in Uri
    PROVE  /\ IsFiniteSet(Due(u)) /\ Cardinality(Due(u)) \in Nat
           /\ Cardinality(Due(u)) <= RefCount(u)
<1>1. Due(u) \in SUBSET Slice /\ \A i \in Due(u) : u \in Needs(i)
  BY DEF Due
<1>2. IsFiniteSet(Due(u)) /\ Cardinality(Due(u)) <= RefCount(u)
  BY <1>1, CountedPerSlice
<1>3. QED
  BY <1>2, FS_CardinalityType

(* A slice no longer has to acknowledge a container... *)
LEMMA DueShrinks ==
    ASSUME taken \in Nat, taken' \in Nat, taken <= taken', NEW u \in Uri,
           \A w \in Worker : \A i \in Slice :
               worker'[w].slice = i /\ u \in worker'[w].wait \cup worker'[w].acks
                 => i > taken \/ (worker[w].slice = i /\ u \in worker[w].wait \cup worker[w].acks)
    PROVE  Due(u)' \subseteq Due(u)
<1>1. SUFFICES ASSUME NEW i \in Slice, i \in Due(u)'
               PROVE  i \in Due(u)
  BY DEF Due
<1>2. i \in Int
  BY CubeAssumption DEF Slice
<1>3. u \in Needs(i)
  BY <1>1 DEF Due, Needs
<1>4. CASE i > taken'
  BY <1>2, <1>3, <1>4 DEF Due
<1>5. CASE \E w \in Worker : worker'[w].slice = i /\ u \in worker'[w].wait \cup worker'[w].acks
  BY <1>3, <1>5 DEF Due
<1>6. QED
  BY <1>1, <1>4, <1>5 DEF Due

(* ...and the remover of that container waits long enough still. *)
LEMMA StillAwaited ==
    ASSUME Awaited, DownloadType, \A u \in Uri : Due(u)' \subseteq Due(u),
           UNCHANGED <<remover, pending, ack>>, Cancelled => Cancelled'
    PROVE  Awaited'
<1>1. SUFFICES ASSUME ~Cancelled, NEW u \in Uri
               PROVE  /\ remover[u] = "running"
                           => pending[u] >= Cardinality(Due(u)') + (IF ack[u] = "full" THEN 1 ELSE 0)
                      /\ remover[u] \in {"closing", "removing", "ended"} => Due(u)' = {}
  BY DEF Awaited
<1>2. Cardinality(Due(u)) \in Nat
  BY DueIsFinite
<1>3. Cardinality(Due(u)') \in Nat /\ Cardinality(Due(u)') <= Cardinality(Due(u))
  BY DueIsFinite, FS_Subset, FS_CardinalityType
<1>4. pending[u] \in Nat
  BY DEF DownloadType
<1>5. QED
  BY <1>1, <1>2, <1>3, <1>4 DEF Awaited

RowIs(f, w, r) == DOMAIN f = Worker /\ f[w] = r /\ \A v \in Worker \ {w} : f[v] = worker[v]
Replaces(w, r) == RowIs(worker', w, r)

(* Worker w moves to row r: it keeps its slice, takes a new one or rests,    *)
(* and only a new slice brings containers to wait for.                       *)
Moves(w, r) ==
    /\ r \in Row /\ SoundRow(r, taken') /\ Acknowledged(r)
    /\ Replaces(w, r)
    /\ taken' \in 0..NbSlices /\ taken <= taken'
    /\ r.slice = 0 \/ r.slice = worker[w].slice \/ r.slice > taken
    /\ \A u \in r.wait \cup r.acks :
           r.slice > taken \/ (r.slice = worker[w].slice /\ u \in worker[w].wait \cup worker[w].acks)

LEMMA MovesAreSound ==
    ASSUME WorkerInv, Jobs, \A v \in Worker : Acknowledged(worker[v]),
           NEW w \in Worker, NEW r, Moves(w, r), UNCHANGED available
    PROVE  /\ Jobs' /\ \A v \in Worker : Acknowledged(worker[v])'
           /\ \A u \in Uri : Due(u)' \subseteq Due(u)
<1> USE CubeAssumption
<1>1. /\ taken \in Nat /\ taken' \in Nat /\ taken <= taken'
      /\ worker \in [Worker -> Row] /\ \A v \in Worker : worker[v].slice \in Nat
      /\ r.slice \in Nat
  BY DEF WorkerInv, Moves, Row
<1>2. \A v \in Worker : worker'[v] = IF v = w THEN r ELSE worker[v]
  BY DEF Moves, Replaces, RowIs
<1>3. \A v \in Worker : worker[v].slice <= taken
  BY DEF Jobs, SoundRow
<1>4. \A v \in Worker : SoundRow(worker'[v], taken')
  <2>1. ASSUME NEW v \in Worker
        PROVE  SoundRow(worker[v], taken')
    BY <1>1 DEF Jobs, SoundRow
  <2>2. SoundRow(r, taken')
    BY DEF Moves
  <2> HIDE DEF SoundRow
  <2>3. QED
    BY <1>2, <2>1, <2>2
<1>5. ASSUME NEW v \in Worker, NEW x \in Worker, worker'[v].slice = worker'[x].slice
      PROVE  v = x \/ worker'[x].slice = 0
  <2>1. /\ worker[v].slice = worker[x].slice => v = x \/ worker[x].slice = 0
        /\ worker[v].slice <= taken /\ worker[x].slice <= taken
    BY <1>3 DEF Jobs
  <2>2. CASE r.slice > taken
    BY <1>1, <1>2, <1>5, <2>1, <2>2
  <2>3. CASE r.slice = 0
    BY <1>1, <1>2, <1>5, <2>1, <2>3
  <2>4. CASE r.slice = worker[w].slice
    BY <1>1, <1>2, <1>5, <2>1, <2>4 DEF Jobs
  <2>5. QED
    BY <2>2, <2>3, <2>4 DEF Moves
<1>6. Jobs'
  <2> HIDE DEF SoundRow
  <2>1. QED
    BY <1>4, <1>5 DEF Jobs, SoundRow
<1>7. \A v \in Worker : Acknowledged(worker[v])'
  BY <1>2 DEF Acknowledged, Moves
<1>8. ASSUME NEW u \in Uri
      PROVE  Due(u)' \subseteq Due(u)
  <2>1. ASSUME NEW v \in Worker, NEW i \in Slice,
               worker'[v].slice = i /\ u \in worker'[v].wait \cup worker'[v].acks
        PROVE  i > taken \/ (worker[v].slice = i /\ u \in worker[v].wait \cup worker[v].acks)
    BY <1>2, <2>1 DEF Moves
  <2>2. QED
    BY <1>1, <2>1, DueShrinks
<1>9. QED
  BY <1>6, <1>7, <1>8

(* A field of a worker's row changes. *)
LEMMA RowEdits ==
    ASSUME NEW f, NEW w \in Worker, NEW pc, NEW s, NEW wait, NEW acks, NEW x,
           RowIs(f, w, [pc |-> pc, slice |-> s, wait |-> wait, acks |-> acks])
    PROVE  /\ RowIs([f EXCEPT ![w].pc = x], w, [pc |-> x, slice |-> s, wait |-> wait, acks |-> acks])
           /\ RowIs([f EXCEPT ![w].wait = x], w, [pc |-> pc, slice |-> s, wait |-> x, acks |-> acks])
           /\ RowIs([f EXCEPT ![w].acks = x], w, [pc |-> pc, slice |-> s, wait |-> wait, acks |-> x])
  BY DEF RowIs

(* Every step of a worker is such a move. *)
LEMMA WorkMoves ==
    ASSUME WorkerInv, Jobs, \A v \in Worker : Acknowledged(worker[v]), DownloadType, NEW w \in Worker,
           \/ takeJob(w) /\ ~Cancelled
           \/ noMoreJob(w) \/ startMerge(w) \/ merged(w) \/ allAcked(w) \/ dropResult(w) \/ receiveResult(w)
           \/ \E u \in Uri : waitForAvailability(w, u) \/ checkAck(w, u) \/ (sendAck(w, u) /\ ack[u] = "empty")
    PROVE  \E r : Moves(w, r)
<1> USE CubeAssumption
<1> DEFINE p == worker[w].pc
           i == worker[w].slice
           W == worker[w].wait
           A == worker[w].acks
           New(pc, s, wait, acks) == [pc |-> pc, slice |-> s, wait |-> wait, acks |-> acks]
<1>1. /\ taken \in 0..NbSlices /\ worker \in [Worker -> Row]
      /\ p \in Pc /\ i \in 0..NbSlices /\ W \in SUBSET Uri /\ A \in SUBSET Uri
      /\ worker[w] = New(p, i, W, A)
  BY DEF WorkerInv, Row
<1>2. SoundRow(worker[w], taken) /\ Acknowledged(worker[w])
  BY DEF Jobs
<1>3. /\ i <= taken /\ \A u \in W \cup A : i \in Slice /\ u \in Needs(i)
      /\ p \in {"idle", "ended"} => i = 0 /\ A = {}
      /\ p \notin {"waiting", "sending"} => W = {}
      /\ p = "result" => A = {}
      /\ p = "sending" => \E u \in Uri : W = {u} /\ u \notin A
      /\ \A u \in Uri : u \in A \/ (p = "sending" /\ u \in W) => available[u] = "local"
  BY <1>2 DEF SoundRow, Acknowledged
<1> DEFINE Fits(pc, s, wait, acks) ==
      /\ pc \in Pc /\ s \in {0, i} /\ wait \in SUBSET Uri /\ acks \in SUBSET Uri
      /\ s = i \/ (wait = {} /\ acks = {})
      /\ wait \cup acks \subseteq W \cup A
      /\ pc \in {"idle", "ended"} => s = 0
      /\ pc \in {"idle", "ended", "result"} => acks = {}
      /\ pc \notin {"waiting", "sending"} => wait = {}
      /\ pc = "sending" => \E u \in Uri : wait = {u} /\ u \notin acks
      /\ \A u \in Uri : u \in acks \/ (pc = "sending" /\ u \in wait) => available[u] = "local"
<1>4. ASSUME NEW pc, NEW s, NEW wait, NEW acks, Fits(pc, s, wait, acks),
             Replaces(w, New(pc, s, wait, acks)), UNCHANGED taken
      PROVE  \E r : Moves(w, r)
  <2> DEFINE r == New(pc, s, wait, acks)
  <2>1. r \in Row /\ r.pc = pc /\ r.slice = s /\ r.wait = wait /\ r.acks = acks
    BY <1>1, <1>4 DEF Row
  <2> HIDE DEF r
  <2>2. s <= taken
    BY <1>1, <1>3, <1>4
  <2>3. \A u \in wait \cup acks : s \in Slice /\ u \in Needs(s)
    BY <1>3, <1>4
  <2>4. SoundRow(r, taken')
    BY <1>4, <2>1, <2>2, <2>3 DEF SoundRow
  <2>5. Acknowledged(r)
    BY <1>4, <2>1 DEF Acknowledged
  <2>6. \A u \in wait \cup acks : s = i /\ u \in W \cup A
    BY <1>4
  <2>7. Replaces(w, r)
    BY <1>4 DEF r
  <2>8. /\ taken' \in 0..NbSlices /\ taken <= taken'
        /\ r.slice = 0 \/ r.slice = i
        /\ \A u \in r.wait \cup r.acks : r.slice = i /\ u \in W \cup A
    BY <1>1, <1>4, <2>1, <2>6
  <2>9. Moves(w, r)
    BY <2>1, <2>4, <2>5, <2>7, <2>8 DEF Moves
  <2>10. QED
    BY <2>9
<1>5. ASSUME NEW f, NEW pc, NEW s, NEW wait, NEW acks, NEW x, RowIs(f, w, New(pc, s, wait, acks))
      PROVE  /\ RowIs([f EXCEPT ![w].pc = x], w, New(x, s, wait, acks))
             /\ RowIs([f EXCEPT ![w].wait = x], w, New(pc, s, x, acks))
             /\ RowIs([f EXCEPT ![w].acks = x], w, New(pc, s, wait, x))
  BY <1>5, RowEdits
<1>a. RowIs(worker, w, New(p, i, W, A))
  BY <1>1 DEF RowIs
<1>b. ASSUME NEW pc, Becomes(w, pc)
      PROVE  Replaces(w, New(pc, i, W, A))
  <2> HIDE DEF New, p, i, W, A
  <2>1. QED
    BY <1>5, <1>a, <1>b DEF Becomes, Replaces
<1>c. worker \in [Worker -> Row] => \A r : worker' = [worker EXCEPT ![w] = r] => Replaces(w, r)
  BY DEF Replaces, RowIs
<1> HIDE DEF New, Fits, p, i, W, A
<1>6. CASE takeJob(w) /\ ~Cancelled
  <2> DEFINE r == New("waiting", taken', Needs(taken'), {})
  <2>1. /\ p = "idle" /\ taken' = taken + 1 /\ taken' \in 1..NbSlices
        /\ worker' = [worker EXCEPT ![w] = r]
    BY <1>1, <1>6 DEF takeJob, p, New
  <2>2. r \in Row
    BY <2>1 DEF Row, Pc, Needs, New
  <2>3. SoundRow(r, taken')
    BY <2>1 DEF SoundRow, Slice, New
  <2>4. Acknowledged(r)
    BY DEF Acknowledged, New
  <2>5. taken' \in 0..NbSlices /\ taken <= taken' /\ r.slice > taken
    BY <1>1, <2>1 DEF New
  <2> HIDE DEF r
  <2>6. Replaces(w, r)
    BY <1>1, <1>c, <2>1
  <2>7. Moves(w, r)
    BY <2>2, <2>3, <2>4, <2>5, <2>6 DEF Moves
  <2>8. QED
    BY <2>7
<1>7. CASE noMoreJob(w)
  <2>1. p = "idle" /\ UNCHANGED taken /\ Becomes(w, "ended")
    BY <1>7 DEF noMoreJob, p
  <2>2. Fits("ended", i, W, A)
    BY <1>1, <1>3, <2>1 DEF Fits, Pc
  <2>3. QED
    BY <1>4, <1>b, <2>1, <2>2
<1>8. CASE startMerge(w)
  <2>1. p = "waiting" /\ W = {} /\ UNCHANGED taken /\ Becomes(w, "merging")
    BY <1>8 DEF startMerge, p, W
  <2>2. Fits("merging", i, W, A)
    BY <1>1, <1>3, <2>1 DEF Fits, Pc
  <2>3. QED
    BY <1>4, <1>b, <2>1, <2>2
<1>9. CASE merged(w)
  <2>1. p = "merging" /\ UNCHANGED taken /\ Becomes(w, "acking")
    BY <1>9 DEF merged, p
  <2>2. Fits("acking", i, W, A)
    BY <1>1, <1>3, <2>1 DEF Fits, Pc
  <2>3. QED
    BY <1>4, <1>b, <2>1, <2>2
<1>10. CASE allAcked(w)
  <2>1. p = "acking" /\ A = {} /\ UNCHANGED taken /\ Becomes(w, "result")
    BY <1>10 DEF allAcked, p, A
  <2>2. Fits("result", i, W, A)
    BY <1>1, <1>3, <2>1 DEF Fits, Pc
  <2>3. QED
    BY <1>4, <1>b, <2>1, <2>2
<1>11. CASE dropResult(w) \/ receiveResult(w)
  <2>1. UNCHANGED taken /\ worker' = [worker EXCEPT ![w] = New("idle", 0, {}, {})]
    BY <1>11 DEF dropResult, receiveResult, Resting, New
  <2>2. Fits("idle", 0, {}, {})
    BY <1>1, <1>3, <2>1 DEF Fits, Pc
  <2>3. QED
    BY <1>1, <1>4, <1>c, <2>1, <2>2
<1>12. ASSUME NEW u \in Uri, waitForAvailability(w, u)
       PROVE  \E r : Moves(w, r)
  <2> DEFINE acks == IF available[u] = "local" THEN A \cup {u} ELSE A
             got == [worker EXCEPT ![w].wait = W \ {u}]
  <2>1. p = "waiting" /\ u \in W /\ UNCHANGED taken
    BY <1>12 DEF waitForAvailability, p, W
  <2>2. RowIs(got, w, New(p, i, W \ {u}, A))
    BY <1>5, <1>a
  <2>3. worker' = [got EXCEPT ![w].acks = acks]
    <3>1. worker' = [got EXCEPT ![w].acks = IF available[u] = "local" THEN @ \cup {u} ELSE @]
      BY <1>12 DEF waitForAvailability, W
    <3>2. got[w].acks = A
      BY <2>2 DEF RowIs, New
    <3> HIDE DEF got
    <3>3. QED
      BY <3>1, <3>2
  <2>4. /\ acks \in SUBSET Uri /\ (W \ {u}) \cup acks \subseteq W \cup A
        /\ \A v \in Uri : v \in acks => available[v] = "local"
    BY <1>1, <1>3, <2>1
  <2> HIDE DEF acks, got
  <2>5. Replaces(w, New(p, i, W \ {u}, acks))
    BY <1>5, <2>2, <2>3 DEF Replaces
  <2>6. Fits(p, i, W \ {u}, acks)
    BY <1>1, <1>3, <2>1, <2>4 DEF Fits, Pc
  <2>7. QED
    BY <1>4, <2>1, <2>5, <2>6
<1>13. ASSUME NEW u \in Uri, checkAck(w, u)
       PROVE  \E r : Moves(w, r)
  <2> DEFINE one == [worker EXCEPT ![w].acks = A \ {u}]
  <2>1. p = "acking" /\ u \in A /\ W = {} /\ UNCHANGED taken
    BY <1>3, <1>13 DEF checkAck, p, i, W, A
  <2>2. RowIs(one, w, New(p, i, W, A \ {u}))
    BY <1>5, <1>a
  <2>3. \A x : RowIs([one EXCEPT ![w].pc = x], w, New(x, i, W, A \ {u}))
    BY <1>5, <2>2
  <2>4. \A x, y : RowIs([[one EXCEPT ![w].pc = x] EXCEPT ![w].wait = y], w, New(x, i, y, A \ {u}))
    BY <1>5, <2>3
  <2>5. one[w].pc = p /\ \A x : [one EXCEPT ![w].pc = x][w].wait = W
    <3>1. one[w] = New(p, i, W, A \ {u}) /\ \A x : [one EXCEPT ![w].pc = x][w] = New(x, i, W, A \ {u})
      BY <2>2, <2>3 DEF RowIs
    <3> HIDE DEF one
    <3>2. QED
      BY <3>1 DEF New
  <2>6. worker' = [one EXCEPT ![w].pc = IF AckIsUseless(u) THEN @ ELSE "sending",
                              ![w].wait = IF AckIsUseless(u) THEN @ ELSE {u}]
    BY <1>13 DEF checkAck, A
  <2> HIDE DEF one
  <2>7. CASE AckIsUseless(u)
    <3>1. worker' = [[one EXCEPT ![w].pc = p] EXCEPT ![w].wait = W]
      BY <2>5, <2>6, <2>7
    <3>2. Replaces(w, New(p, i, W, A \ {u}))
      BY <2>4, <3>1 DEF Replaces
    <3>3. Fits(p, i, W, A \ {u})
      BY <1>1, <1>3, <2>1 DEF Fits, Pc
    <3>4. QED
      BY <1>4, <2>1, <3>2, <3>3
  <2>8. CASE ~AckIsUseless(u)
    <3>1. worker' = [[one EXCEPT ![w].pc = "sending"] EXCEPT ![w].wait = {u}]
      BY <2>5, <2>6, <2>8
    <3>2. Replaces(w, New("sending", i, {u}, A \ {u}))
      BY <2>4, <3>1 DEF Replaces
    <3>3. Fits("sending", i, {u}, A \ {u})
      BY <1>1, <1>3, <2>1 DEF Fits, Pc
    <3>4. QED
      BY <1>4, <2>1, <3>2, <3>3
  <2>9. QED
    BY <2>7, <2>8
<1>14. ASSUME NEW u \in Uri, sendAck(w, u), ack[u] = "empty"
       PROVE  \E r : Moves(w, r)
  <2>1. /\ p = "sending" /\ W = {u} /\ UNCHANGED taken
        /\ worker' = [[worker EXCEPT ![w].pc = "acking"] EXCEPT ![w].wait = {}]
    BY <1>14 DEF sendAck, p, W
  <2>2. RowIs([worker EXCEPT ![w].pc = "acking"], w, New("acking", i, W, A))
    BY <1>5, <1>a
  <2>3. Replaces(w, New("acking", i, {}, A))
    BY <1>5, <2>1, <2>2 DEF Replaces
  <2>4. Fits("acking", i, {}, A)
    BY <1>1, <1>3, <2>1 DEF Fits, Pc
  <2>5. QED
    BY <1>4, <2>1, <2>3, <2>4
<1>15. QED
  BY <1>6, <1>7, <1>8, <1>9, <1>10, <1>11, <1>12, <1>13, <1>14

(* A step that leaves the downloads and the files alone. *)
LEMMA FilesIdle ==
    ASSUME FilesInv, UNCHANGED <<downloads, files>>, Jobs', \A w \in Worker : Acknowledged(worker[w])',
           \A u \in Uri : Due(u)' \subseteq Due(u), Cancelled => Cancelled', panicked' => panicked \/ Cancelled'
    PROVE  FilesInv'
<1>1. DownloadType' /\ Downloading' /\ Removing'
  BY DEF FilesInv, DownloadType, Downloading, Removing, downloads, files
<1>2. Awaited'
  BY StillAwaited DEF FilesInv, files
<1>3. SoundWhileLive'
  BY DEF FilesInv, SoundWhileLive
<1>4. QED
  BY <1>1, <1>2, <1>3 DEF FilesInv

LEMMA FilesStutter ==
    ASSUME FilesInv, UNCHANGED <<taken, worker, downloads, files, panicked>>, Cancelled => Cancelled'
    PROVE  FilesInv'
<1>1. Jobs' /\ \A w \in Worker : Acknowledged(worker[w])'
  BY DEF FilesInv, Jobs, SoundRow, Acknowledged, downloads
<1>2. \A u \in Uri : Due(u)' \subseteq Due(u)
  BY DEF Due
<1>3. QED
  BY <1>1, <1>2, FilesIdle

(* A container that a worker acknowledges is due for its slice. *)
LEMMA SendingIsDue ==
    ASSUME WorkerInv, Jobs, NEW w \in Worker, NEW u \in worker[w].wait \cup worker[w].acks
    PROVE  u \in Uri /\ worker[w].slice \in Due(u)
<1>1. SoundRow(worker[w], taken) /\ worker[w] \in Row
  BY DEF Jobs, WorkerInv, Row
<1>2. u \in Uri /\ worker[w].slice \in Slice /\ u \in Needs(worker[w].slice)
  BY <1>1 DEF SoundRow, Row
<1>3. QED
  BY <1>2 DEF Due

(* An acknowledgement is sent: one slice less to wait for. *)
LEMMA SendAckStep ==
    ASSUME WorkerInv, FilesInv, NEW w \in Worker, NEW u \in Uri, sendAck(w, u), ack[u] = "empty"
    PROVE  FilesInv'
<1> USE CubeAssumption
<1> DEFINE i == worker[w].slice
<1>1. PICK r : Moves(w, r)
  BY WorkMoves DEF FilesInv
<1>2. /\ Jobs' /\ \A v \in Worker : Acknowledged(worker[v])'
      /\ \A v \in Uri : Due(v)' \subseteq Due(v)
  BY <1>1, MovesAreSound DEF sendAck, FilesInv, downloads
<1>3. /\ ack' = [ack EXCEPT ![u] = "full"]
      /\ worker' = [worker EXCEPT ![w].pc = "acking", ![w].wait = {}]
      /\ UNCHANGED <<file, remover, pending, ctx, taken, downloads, panicked>>
      /\ worker[w].pc = "sending" /\ worker[w].wait = {u}
  BY DEF sendAck
<1>4. i \in Due(u) /\ i \in Slice
  BY <1>3, SendingIsDue DEF FilesInv, Due
<1>5. i \notin Due(u)'
  <2>0. SoundRow(worker[w], taken) /\ taken \in Nat /\ i \in Nat
    BY <1>4 DEF FilesInv, Jobs, WorkerInv, Slice
  <2>1. i <= taken' /\ taken' \in Nat
    BY <1>3, <2>0 DEF SoundRow
  <2>2. u \notin worker[w].acks
    BY <1>3, <2>0 DEF SoundRow
  <2>3. worker \in [Worker -> Row]
    BY DEF WorkerInv, Row
  <2>4. /\ worker'[w].slice = i /\ worker'[w].wait = {} /\ worker'[w].acks = worker[w].acks
        /\ \A v \in Worker \ {w} : worker'[v] = worker[v]
    BY <1>3, <2>3 DEF Row
  <2>5. \A v \in Worker : worker[v].slice = i => v = w
    BY <1>4 DEF FilesInv, Jobs, Slice
  <2>6. QED
    BY <2>0, <2>1, <2>2, <2>4, <2>5 DEF Due
<1>6. Cardinality(Due(u)) \in Nat /\ Cardinality(Due(u)') \in Nat /\ Cardinality(Due(u)') + 1 <= Cardinality(Due(u))
  <2>1. IsFiniteSet(Due(u)) /\ Cardinality(Due(u)) \in Nat
    BY DueIsFinite
  <2>2. Due(u)' \in SUBSET (Due(u) \ {i})
    BY <1>2, <1>5
  <2>3. IsFiniteSet(Due(u) \ {i}) /\ Cardinality(Due(u) \ {i}) = Cardinality(Due(u)) - 1
    BY <1>4, <2>1, FS_RemoveElement
  <2>4. IsFiniteSet(Due(u)') /\ Cardinality(Due(u)') <= Cardinality(Due(u) \ {i})
    BY <2>2, <2>3, FS_Subset
  <2>5. Cardinality(Due(u)') \in Nat
    BY <2>4, FS_CardinalityType
  <2>6. QED
    BY <2>1, <2>3, <2>4, <2>5
<1>7. Awaited'
  <2>1. SUFFICES ASSUME ~Cancelled, NEW v \in Uri
                 PROVE  /\ remover[v] = "running"
                             => pending[v] >= Cardinality(Due(v)') + (IF ack'[v] = "full" THEN 1 ELSE 0)
                        /\ remover[v] \in {"closing", "removing", "ended"} => Due(v)' = {}
    BY <1>3 DEF Awaited, Cancelled
  <2>2. /\ remover[v] = "running" => pending[v] >= Cardinality(Due(v)) + (IF ack[v] = "full" THEN 1 ELSE 0)
        /\ remover[v] \in {"closing", "removing", "ended"} => Due(v) = {}
        /\ pending[v] \in Nat /\ ack \in [Uri -> {"empty", "full", "closed"}]
    BY <2>1 DEF FilesInv, Awaited, DownloadType
  <2>3. CASE v = u
    BY <1>2, <1>3, <1>6, <2>2, <2>3
  <2>4. CASE v # u
    <3>1. ack'[v] = ack[v]
      BY <1>3, <2>2, <2>4
    <3>2. Cardinality(Due(v)) \in Nat /\ Cardinality(Due(v)') \in Nat /\ Cardinality(Due(v)') <= Cardinality(Due(v))
      BY <1>2, DueIsFinite, FS_Subset, FS_CardinalityType
    <3>3. QED
      BY <1>2, <2>2, <3>1, <3>2
  <2>5. QED
    BY <2>3, <2>4
<1>8. DownloadType' /\ Downloading'
  BY <1>3 DEF FilesInv, DownloadType, Downloading, downloads
<1>9. Removing'
  <2>1. available[u] = "local"
    BY <1>3 DEF FilesInv, Acknowledged
  <2>2. ack' = [v \in Uri |-> IF v = u THEN "full" ELSE ack[v]]
    BY <1>3 DEF FilesInv, DownloadType
  <2>3. QED
    BY <1>3, <2>1, <2>2 DEF FilesInv, Removing, downloads
<1>10. SoundWhileLive'
  BY <1>3 DEF FilesInv, SoundWhileLive, Cancelled
<1>11. QED
  BY <1>2, <1>7, <1>8, <1>9, <1>10 DEF FilesInv

(* The workers, and orderResults that meets one of them. *)
LEMMA WorkFiles ==
    ASSUME WorkerInv, FilesInv, NEW w \in Worker,
           Work(w) \/ (receiveResult(w) /\ UNCHANGED panicked)
    PROVE  FilesInv'
<1> USE CubeAssumption
<1>1. CASE takeJob(w) /\ Cancelled /\ UNCHANGED panicked
  <2>1. /\ taken \in Nat /\ taken' \in Nat /\ taken <= taken' /\ UNCHANGED worker
        /\ UNCHANGED <<ctx, downloads, files>> /\ \A v \in Worker : worker[v].slice \in Nat
    BY <1>1 DEF takeJob, WorkerInv
  <2>2. Jobs'
    BY <2>1 DEF FilesInv, Jobs, SoundRow
  <2>3. \A v \in Worker : Acknowledged(worker[v])'
    BY <2>1 DEF FilesInv, Acknowledged, downloads
  <2>4. \A u \in Uri : Due(u)' \subseteq Due(u)
    BY <2>1, DueShrinks
  <2>5. QED
    BY <1>1, <2>1, <2>2, <2>3, <2>4, FilesIdle DEF Cancelled
<1>2. ASSUME \E r : Moves(w, r), UNCHANGED <<ctx, downloads, files, panicked>>
      PROVE  FilesInv'
  <2>1. PICK r : Moves(w, r)
    BY <1>2
  <2>2. /\ Jobs' /\ \A v \in Worker : Acknowledged(worker[v])'
        /\ \A u \in Uri : Due(u)' \subseteq Due(u)
    BY <1>2, <2>1, MovesAreSound DEF FilesInv, downloads
  <2>3. QED
    BY <1>2, <2>2, FilesIdle DEF Cancelled
<1>3. CASE takeJob(w) /\ ~Cancelled /\ UNCHANGED panicked
  BY <1>2, <1>3, WorkMoves DEF FilesInv, takeJob
<1>4. CASE (noMoreJob(w) \/ startMerge(w) \/ merged(w) \/ allAcked(w)) /\ UNCHANGED panicked
  BY <1>2, <1>4, WorkMoves DEF FilesInv, noMoreJob, startMerge, merged, allAcked
<1>5. CASE (dropResult(w) \/ receiveResult(w)) /\ UNCHANGED panicked
  BY <1>2, <1>5, WorkMoves DEF FilesInv, dropResult, receiveResult
<1>6. ASSUME NEW u \in Uri, (waitForAvailability(w, u) /\ UNCHANGED panicked) \/ checkAck(w, u)
      PROVE  FilesInv'
  BY <1>2, <1>6, WorkMoves DEF FilesInv, waitForAvailability, checkAck
<1>7. ASSUME NEW u \in Uri, sendAck(w, u)
      PROVE  FilesInv'
  <2>1. CASE ack[u] = "empty"
    BY <1>7, <2>1, SendAckStep
  <2>2. CASE ack[u] # "empty"
    <3>1. /\ ack[u] = "closed" /\ u \in worker[w].wait
          /\ UNCHANGED <<taken, worker, ctx, downloads, files>>
      BY <1>7, <2>2 DEF sendAck, files
    <3>2. worker[w].slice \in Due(u)
      BY <3>1, SendingIsDue DEF FilesInv
    <3>3. Cancelled
      BY <3>1, <3>2 DEF FilesInv, Awaited, Removing
    <3>4. Jobs' /\ \A v \in Worker : Acknowledged(worker[v])'
      BY <3>1 DEF FilesInv, Jobs, SoundRow, Acknowledged, downloads
    <3>5. \A v \in Uri : Due(v)' \subseteq Due(v)
      BY <3>1 DEF Due
    <3>6. QED
      BY <3>1, <3>3, <3>4, <3>5, FilesIdle DEF Cancelled
  <2>3. QED
    BY <2>1, <2>2
<1>8. QED
  BY <1>1, <1>3, <1>4, <1>5, <1>6, <1>7 DEF Work, Acknowledge

(* What a download or a remover changes is unknown to the workers, but for   *)
(* the local files.                                                          *)
LEMMA WorkersIdle ==
    ASSUME FilesInv, UNCHANGED <<taken, worker>>, \A u \in Uri : available[u] = "local" => available'[u] = "local"
    PROVE  /\ Jobs' /\ \A w \in Worker : Acknowledged(worker[w])'
           /\ \A u \in Uri : Due(u)' = Due(u)
  BY DEF FilesInv, Jobs, SoundRow, Acknowledged, Due

LEMMA DownloadFiles ==
    ASSUME WorkerInv, FilesInv, Download
    PROVE  FilesInv'
<1> USE CubeAssumption DEF None
<1>0. panicked' = panicked /\ UNCHANGED <<ctx, taken, worker>>
  BY DEF Download, startDownload, skipDownload, downloaded, notDownloaded
<1>1. SoundWhileLive'
  BY <1>0 DEF FilesInv, SoundWhileLive, Cancelled
<1>2. ASSUME NEW u \in Uri, startDownload(u)
      PROVE  FilesInv'
  <2>1. /\ UNCHANGED <<available, ctx, taken, worker, file, remover, pending, ack>>
        /\ fetching = "none" /\ u \in toFetch /\ toFetch' = toFetch \ {u} /\ fetching' = u
    BY <1>2 DEF startDownload, files
  <2>2. Jobs' /\ (\A w \in Worker : Acknowledged(worker[w])') /\ \A v \in Uri : Due(v)' = Due(v)
    BY <2>1, WorkersIdle
  <2>3. Awaited'
    BY <2>1, <2>2, StillAwaited DEF FilesInv, Cancelled
  <2>4. DownloadType' /\ Downloading'
    BY <2>1 DEF FilesInv, DownloadType, Downloading
  <2>5. Removing'
    BY <2>1 DEF FilesInv, Removing
  <2>6. QED
    BY <1>1, <2>2, <2>3, <2>4, <2>5 DEF FilesInv
<1>3. ASSUME NEW u \in Uri, NEW s \in {"remote", "closed"},
             available' = [available EXCEPT ![u] = s], UNCHANGED <<ctx, taken, worker, file, remover, pending, ack>>,
             u \in toFetch \/ u = fetching, u \notin toFetch' /\ u # fetching',
             toFetch' \subseteq toFetch, fetching' \in {fetching, "none"}
      PROVE  FilesInv'
  <2>1. /\ available[u] = "none"
        /\ \A v \in Uri : available'[v] = IF v = u THEN s ELSE available[v]
        /\ available' \in [Uri -> {"none", "local", "remote", "closed"}]
    BY <1>3 DEF FilesInv, Downloading, DownloadType
  <2>2. Jobs' /\ (\A w \in Worker : Acknowledged(worker[w])') /\ \A v \in Uri : Due(v)' = Due(v)
    BY <1>3, <2>1, WorkersIdle
  <2>3. Awaited'
    BY <1>3, <2>2, StillAwaited DEF FilesInv, Cancelled
  <2>4. DownloadType'
    BY <1>3, <2>1 DEF FilesInv, DownloadType
  <2>5. Downloading'
    BY <1>3, <2>1 DEF FilesInv, Downloading, DownloadType
  <2>6. Removing'
    BY <1>3, <2>1 DEF FilesInv, Removing
  <2>7. QED
    BY <1>1, <2>2, <2>3, <2>4, <2>5, <2>6 DEF FilesInv
<1>4. ASSUME NEW u \in Uri, skipDownload(u) \/ notDownloaded(u)
      PROVE  FilesInv'
  <2>1. PICK s \in {"remote", "closed"} : available' = [available EXCEPT ![u] = s]
    BY <1>4 DEF skipDownload, notDownloaded
  <2>2. UNCHANGED <<ctx, taken, worker, file, remover, pending, ack>>
    BY <1>4 DEF skipDownload, notDownloaded, files
  <2>3. /\ u \in toFetch \/ u = fetching
        /\ u \notin toFetch' /\ u # fetching'
        /\ toFetch' \subseteq toFetch /\ fetching' \in {fetching, "none"}
    BY <1>4 DEF skipDownload, notDownloaded, FilesInv, Downloading
  <2>4. QED
    BY <1>3, <2>1, <2>2, <2>3
<1>5. ASSUME NEW u \in Uri, downloaded(u)
      PROVE  FilesInv'
  <2>1. /\ fetching = u /\ fetching' = "none" /\ UNCHANGED <<toFetch, ack, ctx, taken, worker>>
        /\ file' = file \cup {u}
        /\ available' = [available EXCEPT ![u] = "local"]
        /\ remover' = [remover EXCEPT ![u] = "running"]
        /\ pending' = [pending EXCEPT ![u] = RefCount(u)]
    BY <1>5 DEF downloaded
  <2>2. RefCount(u) \in Nat /\ RefCount(u) >= 1
    <3>1. PICK i \in Slice : u \in Needs(i)
      BY <2>1 DEF FilesInv, Downloading
    <3>2. IsFiniteSet({i}) /\ Cardinality({i}) = 1
      BY FS_Singleton
    <3>3. Cardinality({i}) <= RefCount(u)
      BY <3>1, CountedPerSlice
    <3>4. RefCount(u) \in Nat
      BY CountedPerSlice
    <3>5. QED
      BY <3>2, <3>3, <3>4
  <2>3. /\ \A v \in Uri : available'[v] = IF v = u THEN "local" ELSE available[v]
        /\ \A v \in Uri : remover'[v] = IF v = u THEN "running" ELSE remover[v]
        /\ \A v \in Uri : pending'[v] = IF v = u THEN RefCount(u) ELSE pending[v]
        /\ u \notin toFetch /\ available[u] = "none"
    BY <2>1 DEF FilesInv, DownloadType, Downloading
  <2>4. remover[u] = "none" /\ ack[u] = "empty"
    BY <2>3 DEF FilesInv, Removing
  <2>5. Jobs' /\ (\A w \in Worker : Acknowledged(worker[w])') /\ \A v \in Uri : Due(v)' = Due(v)
    BY <2>1, <2>3, WorkersIdle
  <2>6. DownloadType'
    BY <2>1, <2>2 DEF FilesInv, DownloadType, RemoverState
  <2>7. Downloading'
    BY <2>1, <2>3 DEF FilesInv, Downloading, DownloadType
  <2>8. Removing'
    <3> HIDE DEF RefCount
    <3>1. QED
      BY <2>1, <2>2, <2>3, <2>4 DEF FilesInv, Removing
  <2>9. Awaited'
    <3>1. SUFFICES ASSUME ~Cancelled, NEW v \in Uri
                   PROVE  /\ remover'[v] = "running"
                               => pending'[v] >= Cardinality(Due(v)) + (IF ack[v] = "full" THEN 1 ELSE 0)
                          /\ remover'[v] \in {"closing", "removing", "ended"} => Due(v) = {}
      BY <2>1, <2>5 DEF Awaited, Cancelled
    <3>2. Cardinality(Due(u)) \in Nat /\ Cardinality(Due(u)) <= RefCount(u)
      BY DueIsFinite
    <3>3. QED
      BY <2>2, <2>3, <2>4, <3>1, <3>2 DEF FilesInv, Awaited
  <2>10. QED
    BY <1>1, <2>5, <2>6, <2>7, <2>8, <2>9 DEF FilesInv
<1>6. QED
  BY <1>2, <1>4, <1>5 DEF Download

LEMMA RemoveFiles ==
    ASSUME WorkerInv, FilesInv, NEW u \in Uri, Remove(u)
    PROVE  FilesInv'
<1>1. /\ UNCHANGED <<ctx, taken, worker, toFetch, fetching, available, panicked>>
      /\ Jobs' /\ (\A w \in Worker : Acknowledged(worker[w])') /\ \A v \in Uri : Due(v)' = Due(v)
  <2>1. UNCHANGED <<ctx, taken, worker, toFetch, fetching, available, panicked>>
    BY DEF Remove, receiveAck, stopRemover, closeAck, removeFile, downloads
  <2>2. QED
    BY <2>1, WorkersIdle
<1>2. Downloading' /\ SoundWhileLive'
  BY <1>1 DEF FilesInv, Downloading, SoundWhileLive, Cancelled
<1>3. /\ remover[u] \in RemoverState /\ pending[u] \in Nat /\ file \subseteq Uri
      /\ remover \in [Uri -> RemoverState] /\ pending \in [Uri -> Nat] /\ ack \in [Uri -> {"empty", "full", "closed"}]
  BY DEF FilesInv, DownloadType
<1>4. PICK s \in RemoverState, n \in Int, a \in {"empty", "full", "closed"} :
         /\ remover' = [remover EXCEPT ![u] = s]
         /\ pending' = [pending EXCEPT ![u] = n]
         /\ ack' = [ack EXCEPT ![u] = a]
         /\ file' = IF s = "ended" THEN file \ {u} ELSE file
         /\ \/ /\ remover[u] = "running" /\ ack[u] = "full" /\ a = "empty" /\ n = pending[u] - 1
               /\ s = IF pending[u] = 1 THEN "closing" ELSE "running"
            \/ remover[u] = "running" /\ Cancelled /\ s = "closing" /\ n = pending[u] /\ a = ack[u]
            \/ remover[u] = "closing" /\ s = "removing" /\ a = "closed" /\ n = pending[u]
            \/ remover[u] = "removing" /\ s = "ended" /\ a = ack[u] /\ n = pending[u]
  <2>0. /\ pending = [pending EXCEPT ![u] = pending[u]] /\ ack = [ack EXCEPT ![u] = ack[u]]
        /\ ack[u] \in {"empty", "full", "closed"}
    BY <1>3
  <2>1. CASE receiveAck(u)
    <3> DEFINE s == IF pending[u] = 1 THEN "closing" ELSE "running"
    <3>1. /\ remover' = [remover EXCEPT ![u] = s] /\ pending' = [pending EXCEPT ![u] = pending[u] - 1]
          /\ ack' = [ack EXCEPT ![u] = "empty"] /\ UNCHANGED file
          /\ remover[u] = "running" /\ ack[u] = "full"
      BY <2>1 DEF receiveAck
    <3>2. s \in RemoverState /\ s # "ended" /\ pending[u] - 1 \in Int
      BY <1>3 DEF RemoverState
    <3> HIDE DEF s
    <3>3. QED
      BY <3>1, <3>2 DEF s
  <2>2. CASE stopRemover(u)
    BY <1>3, <2>0, <2>2 DEF stopRemover, RemoverState
  <2>3. CASE closeAck(u)
    BY <1>3, <2>0, <2>3 DEF closeAck, RemoverState
  <2>4. CASE removeFile(u)
    BY <1>3, <2>0, <2>4 DEF removeFile, RemoverState
  <2>5. QED
    BY <2>1, <2>2, <2>3, <2>4 DEF Remove
<1>5. /\ \A v \in Uri : remover'[v] = IF v = u THEN s ELSE remover[v]
      /\ \A v \in Uri : pending'[v] = IF v = u THEN n ELSE pending[v]
      /\ \A v \in Uri : ack'[v] = IF v = u THEN a ELSE ack[v]
  BY <1>3, <1>4
<1>6. remover[u] = "running" => pending[u] >= 1
  BY DEF FilesInv, Removing
<1>7. n \in Nat
  BY <1>3, <1>4, <1>6
<1>8. DownloadType'
  BY <1>1, <1>3, <1>4, <1>7 DEF FilesInv, DownloadType
<1>9. Removing'
  BY <1>1, <1>3, <1>4, <1>5, <1>6 DEF FilesInv, Removing
<1>10. Awaited'
  <2>1. SUFFICES ASSUME ~Cancelled, NEW v \in Uri
                 PROVE  /\ remover'[v] = "running"
                             => pending'[v] >= Cardinality(Due(v)) + (IF ack'[v] = "full" THEN 1 ELSE 0)
                        /\ remover'[v] \in {"closing", "removing", "ended"} => Due(v) = {}
    BY <1>1 DEF Awaited, Cancelled
  <2>2. /\ remover[v] = "running" => pending[v] >= Cardinality(Due(v)) + (IF ack[v] = "full" THEN 1 ELSE 0)
        /\ remover[v] \in {"closing", "removing", "ended"} => Due(v) = {}
    BY <2>1 DEF FilesInv, Awaited
  <2>3. Cardinality(Due(v)) \in Nat /\ IsFiniteSet(Due(v)) /\ (Cardinality(Due(v)) = 0 => Due(v) = {})
    BY DueIsFinite, FS_EmptySet
  <2>4. QED
    BY <1>3, <1>4, <1>5, <2>1, <2>2, <2>3
<1>11. QED
  BY <1>1, <1>2, <1>8, <1>9, <1>10 DEF FilesInv

LEMMA FilesStep ==
    ASSUME WorkerInv, StreamType, FilesInv, [Next]_vars
    PROVE  FilesInv'
<1>1. CASE Download
  BY <1>1, DownloadFiles
<1>2. ASSUME NEW u \in Uri, Remove(u)
      PROVE  FilesInv'
  BY <1>2, RemoveFiles
<1>3. ASSUME NEW w \in Worker, Work(w)
      PROVE  FilesInv'
  BY <1>3, WorkFiles
<1>4. CASE Order
  <2>1. ASSUME NEW w \in Worker, receiveResult(w), UNCHANGED panicked
        PROVE  FilesInv'
    BY <2>1, WorkFiles
  <2>2. CASE (skipResult \/ streamSlice \/ closeOrdered) /\ UNCHANGED panicked
    BY <2>2, FilesStutter DEF skipResult, streamSlice, closeOrdered, Cancelled
  <2>3. QED
    BY <1>4, <2>1, <2>2 DEF Order
<1>5. CASE Serve
  BY <1>5, FilesStutter DEF Serve, sendSlice, sendSliceFails, endOfCube, Cancelled
<1>6. CASE leave /\ UNCHANGED panicked
  BY <1>6, FilesStutter DEF leave, Cancelled
<1>7. CASE UNCHANGED vars
  BY <1>7, FilesStutter DEF vars, Cancelled
<1>8. QED
  BY <1>1, <1>2, <1>3, <1>4, <1>5, <1>6, <1>7 DEF Next

LEMMA InitFiles == Init => FilesInv
<1> SUFFICES ASSUME Init PROVE FilesInv
  OBVIOUS
<1> USE CubeAssumption DEF None
<1>1. Jobs /\ \A w \in Worker : Acknowledged(worker[w])
  BY DEF Init, Jobs, SoundRow, Acknowledged, Resting
<1>2. DownloadType /\ Downloading /\ Removing
  BY DEF Init, DownloadType, Downloading, Removing, RemoverState
<1>3. Awaited /\ SoundWhileLive
  BY DEF Init, Awaited, SoundWhileLive
<1>4. QED
  BY <1>1, <1>2, <1>3 DEF FilesInv

-----------------------------------------------------------------------------
(* The invariant that relates what the workers hold, the removers of the     *)
(* files and the acknowledgements in their channels (mergeDatasetsWorker,    *)
(* WaitForAvailability, removeLocalFileWorker).                              *)
THEOREM FilesCorrect == Spec => []FilesInv
<1>1. CubeInv /\ FilesInv /\ [Next]_vars => FilesInv'
  BY FilesStep DEF CubeInv
<1>2. QED
  BY StreamCorrect, InitFiles, <1>1, PTL DEF Spec

(* A downloaded file is only removed when no merge reads it, unless the      *)
(* request is cancelled (removeLocalFileWorker).                             *)
THEOREM FilesAreKept == Spec => []FileKeptWhileUsed
<1>1. CubeInv /\ FilesInv => FileKeptWhileUsed
  <2>1. SUFFICES ASSUME CubeInv, FilesInv, NEW w \in Worker, worker[w].pc = "merging", ~Cancelled,
                        NEW u \in worker[w].acks
                 PROVE  u \in file
    BY DEF FileKeptWhileUsed
  <2>2. u \in Uri /\ worker[w].slice \in Due(u)
    BY <2>1, SendingIsDue DEF CubeInv, FilesInv
  <2>3. available[u] = "local"
    BY <2>1, <2>2 DEF FilesInv, Acknowledged
  <2>4. remover[u] \in RemoverState /\ remover[u] \notin {"none", "closing", "removing", "ended"}
    BY <2>1, <2>2, <2>3 DEF FilesInv, DownloadType, Removing, Awaited
  <2>5. remover[u] = "running"
    BY <2>4 DEF RemoverState
  <2>6. QED
    BY <2>1, <2>2, <2>5 DEF FilesInv, Removing
<1>2. QED
  BY StreamCorrect, FilesCorrect, <1>1, PTL

(* The channel of the acknowledgements is only closed after the last one, or *)
(* when the request is cancelled: no live request panics (AckChan).          *)
THEOREM LiveRequestsDoNotPanic == Spec => []SoundWhileLive
<1>1. FilesInv => SoundWhileLive
  BY DEF FilesInv
<1>2. QED
  BY FilesCorrect, <1>1, PTL

HandlerType == handler \in {"reading", "sending", "failed", "succeeded"} /\ panicked \in BOOLEAN

LEMMA HandlerStep ==
    ASSUME HandlerType, [Next]_vars
    PROVE  HandlerType'
<1>1. CASE UNCHANGED <<handler, panicked>>
  BY <1>1 DEF HandlerType
<1>2. CASE Download \/ \E u \in Uri : Remove(u)
  BY <1>1, <1>2 DEF Download, startDownload, skipDownload, downloaded, notDownloaded, Remove, receiveAck,
                    stopRemover, closeAck, removeFile, stream
<1>3. ASSUME NEW w \in Worker, Work(w)
      PROVE  HandlerType'
  <2>1. CASE UNCHANGED panicked /\ handler' = handler
    BY <1>1, <2>1
  <2>2. ASSUME NEW u \in Uri, sendAck(w, u)
        PROVE  HandlerType'
    BY <2>2 DEF sendAck, HandlerType, stream
  <2>3. QED
    BY <1>3, <2>1, <2>2 DEF Work, Acknowledge, takeJob, noMoreJob, startMerge, merged, allAcked, dropResult,
                            waitForAvailability, checkAck, stream
<1>4. CASE Order
  BY <1>1, <1>4 DEF Order, skipResult, streamSlice, closeOrdered, receiveResult, HandlerType
<1>5. CASE Serve \/ (leave /\ UNCHANGED panicked)
  BY <1>5 DEF Serve, sendSlice, sendSliceFails, endOfCube, Outcome, leave, stream, HandlerType
<1>6. QED
  BY <1>1, <1>2, <1>3, <1>4, <1>5 DEF Next, vars, stream

(* Every variable of the request keeps its type: no counter of               *)
(* acknowledgements gets below zero (removeLocalFileWorker).                 *)
THEOREM CubeTypes == Spec => []TypeOK
<1>1. Init => HandlerType
  BY DEF Init, HandlerType
<1>2. HandlerType /\ [Next]_vars => HandlerType'
  BY HandlerStep
<1>3. CubeInv /\ FilesInv /\ HandlerType => TypeOK
  BY DEF CubeInv, WorkerInv, StreamType, FilesInv, DownloadType, HandlerType, TypeOK, Pc
<1>4. QED
  BY StreamCorrect, FilesCorrect, <1>1, <1>2, <1>3, PTL DEF Spec

=============================================================================
