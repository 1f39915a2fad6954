---------------------- MODULE ConsolidationHandlerProofs ----------------------
(* What TLAPS proves of the execution of an order: a source downloaded stays *)
(* as long as a record needs it, and what is returned has a cause, for any   *)
(* records, files, sizes, quotas, goroutines and faults.                     *)
EXTENDS ConsolidationHandler, FiniteSetTheorems, TLAPS

Loading == [pc : {"ranging", "fetching", "dropping", "failed"}, on : File \cup {None}]
Working == [pc : {"ranging", "opening", "merging", "ended"}, on : 0..NbRecords]

LoaderInv ==
    /\ maxMb \in MaxMb
    /\ remaining \in -IntLimit..(IntLimit - 1)
    /\ toFetch \subseteq Remote
    /\ loader \in [Loader -> Loading]
    /\ \A l \in Loader : loader[l].pc \in {"fetching", "dropping"} => loader[l].on \in Remote
    /\ place \in [File -> {"workspace", "given"}]
    /\ \A f \in File : place[f] = "workspace" => f \in Remote

(* The records are pushed, and taken, in order. *)
Taken == pushed - Len(records.queue)

QueueInv ==
    /\ records = [queue |-> records.queue, closed |-> records.closed]
    /\ records.queue \in Seq(Record) /\ records.closed \in BOOLEAN
    /\ pushed \in 0..NbRecords /\ Len(records.queue) <= pushed
    /\ \A k \in 1..Len(records.queue) : records.queue[k] = Taken + k
    /\ records.closed => pushed = NbRecords

(* The workers have different records, that were taken and are not done. *)
Busy(w) == worker[w].pc \in {"opening", "merging"}

WorkerInv ==
    /\ worker \in [Worker -> Working]
    /\ \A w \in Worker : Busy(w) => worker[w].on \in 1..Taken /\ cogs[worker[w].on] = None
    /\ \A v, w \in Worker : Busy(v) /\ Busy(w) /\ worker[v].on = worker[w].on => v = w
    /\ cogs \in [Record -> File \cup {None, Merged}]
    /\ \A r \in Record : cogs[r] # None => r <= Taken
    /\ \A r \in Record : cogs[r] \in File => usableCOG(r) /\ cogs[r] = Datasets[r][1]
    /\ main = "loading" => \A w \in Worker : worker[w].pc = "ranging"

(* The datasets in file f of the records that are not merged. *)
Left(f) == UNION {DatasetsIn(f, r) : r \in {s \in Record : cogs[s] # Merged}}

CounterInv ==
    /\ counter \in [File -> Nat]
    /\ \A f \in File : place[f] = "workspace" => counter[f] = Cardinality(Left(f))
    /\ removing \subseteq {f \in Remote : place[f] = "workspace" /\ counter[f] = 0}
    /\ main = "loading" => removing = {}

(* Where a file of the workspace is, unless it is not needed any more. *)
OnItsWay(f) ==
    \/ f \in toFetch
    \/ \E l \in Loader : loader[l].pc = "failed" \/ (loader[l].pc \in {"fetching", "dropping"} /\ loader[l].on = f)

FileInv ==
    /\ onDisk \subseteq Remote
    /\ main \notin {"returned", "crashed"} =>
          \A f \in File : place[f] = "workspace" =>
              f \in onDisk \/ counter[f] = 0 \/ (main = "loading" /\ OnItsWay(f))

FlagType ==
    /\ failed \in BOOLEAN /\ cancelled \in BOOLEAN /\ uploaded \in BOOLEAN
    /\ main \in {"loading", "pushing", "uploading", "uploaded", "returning", "returned", "crashed"}
    /\ outcome \in {None, "success", "cancelled", "error"}
    /\ faults \in 0..MaxFaults

(* A failure has a cause, the container is there once it is uploaded... *)
CauseInv ==
    /\ \A l \in Loader : loader[l].pc = "failed" => faults > 0
    /\ failed => faults > 0 \/ cancelled
    /\ main \notin {"returning", "returned"} => outcome = None
    /\ main \in {"loading", "pushing", "uploading"} => ~uploaded
    /\ main = "uploaded" => uploaded

(* ...and without a failure no record is forgotten. *)
DoneInv ==
    /\ main \in {"uploading", "uploaded"} => ~failed /\ records.closed /\ Ended(Worker)
    /\ ~failed =>
          /\ \A w \in Worker : worker[w].pc = "ended" => records.closed /\ records.queue = <<>>
          /\ \A r \in 1..Taken : cogs[r] # None \/ \E w \in Worker : Busy(w) /\ worker[w].on = r

HandlerInv == LoaderInv /\ QueueInv /\ WorkerInv /\ CounterInv /\ FileInv /\ FlagType /\ CauseInv /\ DoneInv

-----------------------------------------------------------------------------
(* Integers that overflow stay in their range. *)
LEMMA WrapRange ==
    ASSUME NEW n \in Int
    PROVE  Wrap(n) \in -IntLimit..(IntLimit - 1)
<1> DEFINE L == 2 * IntLimit
           m == (n + IntLimit) % L
<1>1. IntLimit \in Nat \ {0} /\ L \in Nat \ {0} /\ n + IntLimit \in Int
  BY HandlerAssumption
<1>2. m \in 0..(L - 1)
  <2> HIDE DEF L
  <2>1. QED
    BY <1>1
<1> HIDE DEF m
<1>3. m - IntLimit \in -IntLimit..(IntLimit - 1)
  BY <1>1, <1>2
<1>4. QED
  BY <1>3 DEF Wrap, m

(* The datasets in a file are counted. *)
LEMMA FiniteLeft ==
    ASSUME NEW f \in File
    PROVE  /\ \A r \in Record : IsFiniteSet(DatasetsIn(f, r))
           /\ \A S \in SUBSET Record : IsFiniteSet(UNION {DatasetsIn(f, r) : r \in S})
<1> USE HandlerAssumption
<1>1. ASSUME NEW r \in Record
      PROVE  IsFiniteSet(DatasetsIn(f, r))
  <2> DEFINE D == {n \in DOMAIN Datasets[r] : Datasets[r][n] = f}
  <2>1. Datasets[r] \in Seq(File) /\ DOMAIN Datasets[r] = 1..Len(Datasets[r]) /\ Len(Datasets[r]) \in Nat
    OBVIOUS
  <2>2. IsFiniteSet(1..Len(Datasets[r]))
    BY <2>1, FS_Interval
  <2>3. D \in SUBSET (1..Len(Datasets[r]))
    BY <2>1
  <2> HIDE DEF D
  <2>4. IsFiniteSet(D)
    BY <2>2, <2>3, FS_Subset
  <2>5. IsFiniteSet({r})
    BY FS_Singleton
  <2>6. QED
    BY <2>4, <2>5, FS_Product DEF DatasetsIn, D
<1>2. ASSUME NEW S \in SUBSET Record
      PROVE  IsFiniteSet(UNION {DatasetsIn(f, r) : r \in S})
  <2> DEFINE in == [r \in S |-> DatasetsIn(f, r)]
             Ins == {in[r] : r \in S}
  <2>1. in \in Surjection(S, Ins)
    BY DEF Surjection
  <2>2. IsFiniteSet(Record)
    BY FS_Interval DEF Record
  <2>3. IsFiniteSet(S)
    BY <2>2, FS_Subset
  <2>4. IsFiniteSet(Ins)
    <3> HIDE DEF in, Ins
    <3>1. QED
      BY <2>1, <2>3, FS_Surjection
  <2>5. \A T \in Ins : IsFiniteSet(T)
    BY <1>1
  <2>6. UNION Ins = UNION {DatasetsIn(f, r) : r \in S}
    OBVIOUS
  <2> HIDE DEF Ins
  <2>7. IsFiniteSet(UNION Ins)
    BY <2>4, <2>5, FS_UNION
  <2>8. QED
    BY <2>6, <2>7
<1>3. QED
  BY <1>1, <1>2

(* A record that is merged releases its datasets, and only them. *)
LEMMA RecordMerged ==
    ASSUME NEW f \in File, NEW r \in Record, cogs[r] # Merged,
           \A s \in Record : cogs'[s] = IF s = r THEN Merged ELSE cogs[s]
    PROVE  /\ Cardinality(Left(f)) \in Nat /\ Cardinality(Left(f)') \in Nat
           /\ Cardinality(Left(f)') = Cardinality(Left(f)) - Cardinality(DatasetsIn(f, r))
<1>1. IsFiniteSet(Left(f)) /\ IsFiniteSet(Left(f)')
  BY FiniteLeft DEF Left
<1>2. DatasetsIn(f, r) \subseteq Left(f)
  BY DEF Left
<1>3. Left(f)' = Left(f) \ DatasetsIn(f, r)
  <2>1. \A s \in Record \ {r} : DatasetsIn(f, s) \cap DatasetsIn(f, r) = {}
    BY DEF DatasetsIn
  <2>2. Left(f)' = UNION {DatasetsIn(f, s) : s \in {t \in Record \ {r} : cogs[t] # Merged}}
    BY DEF Left, DatasetsIn
  <2>3. Left(f) = DatasetsIn(f, r) \cup UNION {DatasetsIn(f, s) : s \in {t \in Record \ {r} : cogs[t] # Merged}}
    BY DEF Left
  <2>4. QED
    BY <2>1, <2>2, <2>3
<1>4. Left(f) \cap DatasetsIn(f, r) = DatasetsIn(f, r)
  BY <1>2
<1>5. Cardinality(Left(f) \ DatasetsIn(f, r)) = Cardinality(Left(f)) - Cardinality(DatasetsIn(f, r))
  BY <1>1, <1>4, FS_Difference
<1>6. QED
  BY <1>1, <1>3, <1>5, FS_CardinalityType

(* A record that is not merged is counted in each of its files. *)
LEMMA StillCounted ==
    ASSUME NEW r \in Record, cogs[r] # Merged, NEW f \in ToSet(Datasets[r])
    PROVE  f \in File /\ Cardinality(Left(f)) # 0
<1>1. PICK n \in DOMAIN Datasets[r] : Datasets[r][n] = f
  BY DEF ToSet
<1>2. f \in File
  BY <1>1, HandlerAssumption
<1>3. <<r, n>> \in Left(f)
  BY <1>1 DEF Left, DatasetsIn
<1>4. IsFiniteSet(Left(f))
  BY <1>2, FiniteLeft DEF Left
<1>5. QED
  BY <1>2, <1>3, <1>4, FS_EmptySet

LEMMA InitHandler == Init => HandlerInv
<1> SUFFICES ASSUME Init PROVE HandlerInv
  OBVIOUS
<1> USE HandlerAssumption
<1>1. LoaderInv
  <2>1. maxMb \in Nat /\ maxMb * Mega \in Int
    BY DEF Init
  <2>2. remaining \in -IntLimit..(IntLimit - 1)
    BY <2>1, WrapRange DEF Init
  <2>3. QED
    BY <2>2 DEF Init, LoaderInv, Loading
<1>2. QueueInv
  BY DEF Init, QueueInv, Taken
<1>3. WorkerInv
  BY DEF Init, WorkerInv, Working, Busy, Record, Taken
<1>4. CounterInv
  <2>1. ASSUME NEW g \in File
        PROVE  Left(g) = UNION {DatasetsIn(g, r) : r \in Record}
    BY DEF Init, Left, Merged, None
  <2>2. ASSUME NEW g \in File
        PROVE  Uses(g) = Cardinality(Left(g)) /\ Uses(g) \in Nat
    <3>1. IsFiniteSet(UNION {DatasetsIn(g, r) : r \in Record})
      BY FiniteLeft
    <3>2. QED
      BY <2>1, <3>1, FS_CardinalityType DEF Uses
  <2> HIDE DEF Uses, Left
  <2>3. counter \in [File -> Nat]
    BY <2>2 DEF Init
  <2>4. QED
    BY <2>2, <2>3 DEF Init, CounterInv
<1>5. FileInv
  <2>1. \A f \in File : place[f] = "workspace" => f \in toFetch
    BY DEF Init
  <2>2. QED
    BY <2>1 DEF Init, FileInv, OnItsWay
<1>6. FlagType /\ CauseInv
  <2>1. main = "loading" /\ outcome = None /\ faults = 0 /\ ~failed /\ failed \in BOOLEAN /\ ~uploaded
    BY DEF Init
  <2>2. cancelled \in BOOLEAN /\ uploaded \in BOOLEAN /\ \A l \in Loader : loader[l].pc = "ranging"
    BY DEF Init
  <2>3. QED
    BY <2>1, <2>2 DEF FlagType, CauseInv
<1>7. DoneInv
  <2>1. main = "loading" /\ \A w \in Worker : worker[w].pc = "ranging"
    BY DEF Init
  <2>2. pushed = 0 /\ records.queue = <<>>
    BY DEF Init
  <2>3. \A r \in 1..Taken : FALSE
    BY <2>2 DEF Taken
  <2>4. QED
    BY <2>1, <2>3 DEF DoneInv
<1>8. QED
  BY <1>1, <1>2, <1>3, <1>4, <1>5, <1>6, <1>7 DEF HandlerInv

-----------------------------------------------------------------------------
(* What a step leaves alone. *)
LEMMA LoaderSame == LoaderInv /\ UNCHANGED loading => LoaderInv'
  BY DEF LoaderInv, loading

LEMMA QueueSame == QueueInv /\ UNCHANGED <<records, pushed>> => QueueInv'
  BY DEF QueueInv, Taken

LEMMA WorkerSame ==
    ASSUME WorkerInv, UNCHANGED <<worker, cogs, records, pushed>>, main' = "loading" => main = "loading"
    PROVE  WorkerInv'
  BY DEF WorkerInv, Busy, Taken

LEMMA CounterSame ==
    ASSUME CounterInv, UNCHANGED <<counter, place, cogs, removing>>, main' = "loading" => main = "loading"
    PROVE  CounterInv'
<1>1. \A f \in File : Left(f)' = Left(f)
  BY DEF Left
<1>2. QED
  BY <1>1 DEF CounterInv

LEMMA DoneSame ==
    ASSUME DoneInv, UNCHANGED <<failed, records, pushed, worker, cogs>>,
           main' \in {"uploading", "uploaded"} => main \in {"uploading", "uploaded"}
    PROVE  DoneInv'
  BY DEF DoneInv, Ended, Busy, Taken

(* A loader that gives up has met a fault, or another loader has. *)
LEMMA FlagsKept ==
    ASSUME HandlerInv, UNCHANGED <<failed, cancelled, main, uploaded, outcome>>,
           faults' \in 0..MaxFaults, faults' >= faults,
           \A l \in Loader : loader'[l].pc = "failed" => loader[l].pc = "failed" \/ faults' > 0
    PROVE  FlagType' /\ CauseInv'
<1>1. FlagType'
  BY DEF HandlerInv, FlagType
<1>2. faults \in 0..MaxFaults /\ MaxFaults \in Nat
  BY HandlerAssumption DEF HandlerInv, FlagType
<1>3. faults > 0 => faults' > 0
  BY <1>2
<1>4. /\ \A l \in Loader : loader[l].pc = "failed" => faults > 0
      /\ failed => faults > 0 \/ cancelled
      /\ main \notin {"returning", "returned"} => outcome = None
      /\ main \in {"loading", "pushing", "uploading"} => ~uploaded
      /\ main = "uploaded" => uploaded
  BY DEF HandlerInv, CauseInv
<1>5. CauseInv'
  BY <1>3, <1>4 DEF CauseInv
<1>6. QED
  BY <1>1, <1>5

(* The loaders, that do not touch what the workers will do. *)
LEMMA LoaderSteps ==
    ASSUME HandlerInv, NEW l \in Loader, LoaderStep(l)
    PROVE  HandlerInv'
<1> USE HandlerAssumption
<1>1. /\ main = "loading" /\ UNCHANGED <<merging, main, failed, cancelled, uploaded, outcome, maxMb>>
      /\ UNCHANGED <<counter, removing, records, pushed, worker, cogs>>
  BY DEF LoaderStep, loaderTakes, loaderFetches, loaderDrops, loaderFails, loaderSkips, merging
<1>2. QueueInv' /\ WorkerInv' /\ DoneInv'
  BY <1>1, QueueSame, WorkerSame, DoneSame DEF HandlerInv
<1>3. /\ loader \in [Loader -> Loading] /\ toFetch \subseteq Remote /\ place \in [File -> {"workspace", "given"}]
      /\ loader[l].pc \in {"fetching", "dropping"} => loader[l].on \in Remote
      /\ removing = {} /\ faults \in 0..MaxFaults /\ faults >= faults /\ onDisk \subseteq Remote
  BY <1>1 DEF HandlerInv, LoaderInv, CounterInv, FlagType, FileInv
<1>4. ASSUME NEW pc \in {"ranging", "fetching", "dropping", "failed"}, NEW f \in File \cup {None}, Loads(l, pc, f)
      PROVE  /\ loader' \in [Loader -> Loading]
             /\ \A k \in Loader : loader'[k] = IF k = l THEN [pc |-> pc, on |-> f] ELSE loader[k]
  BY <1>3, <1>4 DEF Loads, Loading
<1>5. CounterInv'
  <2>1. \A f \in File : place'[f] = "workspace" => place[f] = "workspace"
    <3>1. CASE loaderDrops(l)
      BY <1>3, <3>1 DEF loaderDrops
    <3>2. CASE UNCHANGED place
      BY <3>2
    <3>3. QED
      BY <3>1, <3>2 DEF LoaderStep, loaderTakes, loaderFetches, loaderFails, loaderSkips
  <2>2. \A f \in File : Left(f)' = Left(f)
    BY <1>1 DEF Left
  <2>3. QED
    BY <1>1, <1>3, <2>1, <2>2 DEF HandlerInv, CounterInv
<1>6. CASE loaderTakes(l)
  <2>1. PICK f \in toFetch :
           /\ toFetch' = toFetch \ {f}
           /\ remaining' = Wrap(remaining - Size[f])
           /\ Loads(l, IF Wrap(remaining - Size[f]) < 0 THEN "dropping" ELSE "fetching", f)
    BY <1>6 DEF loaderTakes
  <2>2. PICK pc \in {"fetching", "dropping"} : Loads(l, pc, f)
    BY <2>1
  <2>3. /\ loader' \in [Loader -> Loading]
        /\ \A k \in Loader : loader'[k] = IF k = l THEN [pc |-> pc, on |-> f] ELSE loader[k]
    BY <1>3, <1>4, <2>2
  <2>4. UNCHANGED <<place, onDisk, faults>> /\ loader[l].pc = "ranging"
    BY <1>6 DEF loaderTakes
  <2>5. remaining' \in -IntLimit..(IntLimit - 1)
    <3>1. remaining - Size[f] \in Int
      BY <1>3 DEF HandlerInv, LoaderInv
    <3>2. QED
      BY <2>1, <3>1, WrapRange
  <2>6. LoaderInv'
    BY <1>1, <1>3, <2>1, <2>3, <2>4, <2>5 DEF HandlerInv, LoaderInv
  <2>7. FileInv'
    <3>1. \A g \in File : OnItsWay(g) => OnItsWay(g)'
      BY <2>1, <2>3, <2>4 DEF OnItsWay
    <3>2. QED
      BY <1>1, <2>4, <3>1 DEF HandlerInv, FileInv
  <2>8. FlagType' /\ CauseInv'
    <3>1. \A k \in Loader : loader'[k].pc = "failed" => loader[k].pc = "failed"
      BY <2>2, <2>3
    <3>2. QED
      BY <1>1, <1>3, <2>4, <3>1, FlagsKept
  <2>9. QED
    BY <1>2, <1>5, <2>6, <2>7, <2>8 DEF HandlerInv
<1>7. CASE loaderFetches(l)
  <2>1. /\ Loads(l, "ranging", None) /\ onDisk' = onDisk \cup {loader[l].on}
        /\ UNCHANGED <<remaining, toFetch, place, faults>> /\ loader[l].pc = "fetching"
    BY <1>7 DEF loaderFetches
  <2>2. /\ loader' \in [Loader -> Loading]
        /\ \A k \in Loader : loader'[k] = IF k = l THEN [pc |-> "ranging", on |-> None] ELSE loader[k]
    BY <1>4, <2>1
  <2>3. LoaderInv'
    BY <1>1, <1>3, <2>1, <2>2 DEF HandlerInv, LoaderInv
  <2>4. FileInv'
    <3>1. \A g \in File : OnItsWay(g) => OnItsWay(g)' \/ g \in onDisk'
      BY <2>1, <2>2 DEF OnItsWay
    <3>2. QED
      BY <1>1, <1>3, <2>1, <3>1 DEF HandlerInv, FileInv
  <2>5. FlagType' /\ CauseInv'
    <3>1. \A k \in Loader : loader'[k].pc = "failed" => loader[k].pc = "failed"
      BY <2>2
    <3>2. QED
      BY <1>1, <1>3, <2>1, <3>1, FlagsKept
  <2>6. QED
    BY <1>2, <1>5, <2>3, <2>4, <2>5 DEF HandlerInv
<1>8. CASE loaderDrops(l)
  <2>1. /\ Loads(l, "ranging", None) /\ place' = [place EXCEPT ![loader[l].on] = "given"]
        /\ UNCHANGED <<remaining, toFetch, onDisk, faults>> /\ loader[l].pc = "dropping"
    BY <1>8 DEF loaderDrops
  <2>2. /\ loader' \in [Loader -> Loading]
        /\ \A k \in Loader : loader'[k] = IF k = l THEN [pc |-> "ranging", on |-> None] ELSE loader[k]
    BY <1>4, <2>1
  <2>3. \A g \in File : place'[g] = IF g = loader[l].on THEN "given" ELSE place[g]
    BY <1>3, <2>1
  <2>4. LoaderInv'
    <3>1. place' \in [File -> {"workspace", "given"}]
      BY <1>3, <2>1
    <3>2. \A g \in File : place'[g] = "workspace" => g \in Remote
      BY <2>3 DEF HandlerInv, LoaderInv
    <3>3. maxMb' \in MaxMb /\ remaining' \in -IntLimit..(IntLimit - 1) /\ toFetch' \subseteq Remote
      BY <1>1, <2>1 DEF HandlerInv, LoaderInv
    <3>4. \A k \in Loader : loader[k].pc \in {"fetching", "dropping"} => loader[k].on \in Remote
      BY DEF HandlerInv, LoaderInv
    <3>5. ASSUME NEW k \in Loader, loader'[k].pc \in {"fetching", "dropping"}
          PROVE  loader'[k].on \in Remote
      <4>1. loader'[l].pc = "ranging" /\ \A j \in Loader \ {l} : loader'[j] = loader[j]
        BY <2>2
      <4>2. QED
        BY <3>4, <3>5, <4>1
    <3>6. QED
      BY <2>2, <3>1, <3>2, <3>3, <3>5 DEF LoaderInv
  <2>5. FileInv'
    <3>1. \A g \in File : OnItsWay(g) => OnItsWay(g)' \/ g = loader[l].on
      BY <2>1, <2>2 DEF OnItsWay
    <3>2. QED
      BY <1>1, <1>3, <2>1, <2>3, <3>1 DEF HandlerInv, FileInv
  <2>6. FlagType' /\ CauseInv'
    <3>1. \A k \in Loader : loader'[k].pc = "failed" => loader[k].pc = "failed"
      BY <2>2
    <3>2. QED
      BY <1>1, <1>3, <2>1, <3>1, FlagsKept
  <2>7. QED
    BY <1>2, <1>5, <2>4, <2>5, <2>6 DEF HandlerInv
<1>9. CASE loaderFails(l)
  <2>1. /\ Loads(l, "failed", None) /\ UNCHANGED <<remaining, place, onDisk>> /\ toFetch' \subseteq toFetch
        /\ faults' \in 0..MaxFaults /\ faults' >= faults
        /\ faults' > 0 \/ \E k \in Loader : loader[k].pc = "failed"
    BY <1>3, <1>9 DEF loaderFails, Fault
  <2>2. /\ loader' \in [Loader -> Loading]
        /\ \A k \in Loader : loader'[k] = IF k = l THEN [pc |-> "failed", on |-> None] ELSE loader[k]
    BY <1>4, <2>1
  <2>3. LoaderInv'
    BY <1>1, <1>3, <2>1, <2>2 DEF HandlerInv, LoaderInv
  <2>4. FileInv'
    <3>1. \A g \in File : OnItsWay(g)'
      BY <2>2 DEF OnItsWay
    <3>2. QED
      BY <1>1, <1>3, <2>1, <3>1 DEF HandlerInv, FileInv
  <2>5. faults' > 0
    BY <1>3, <2>1 DEF HandlerInv, CauseInv
  <2>6. FlagType' /\ CauseInv'
    BY <1>1, <2>1, <2>5, FlagsKept
  <2>7. QED
    BY <1>2, <1>5, <2>3, <2>4, <2>6 DEF HandlerInv
<1>10. CASE loaderSkips(l)
  <2>1. UNCHANGED <<remaining, loader, place, onDisk, faults>> /\ toFetch' \subseteq toFetch /\ loader[l].pc = "failed"
    BY <1>10 DEF loaderSkips
  <2>2. LoaderInv'
    BY <1>1, <1>3, <2>1 DEF HandlerInv, LoaderInv
  <2>3. FileInv'
    <3>1. \A g \in File : OnItsWay(g)'
      BY <2>1 DEF OnItsWay
    <3>2. QED
      BY <1>1, <1>3, <2>1, <3>1 DEF HandlerInv, FileInv
  <2>4. FlagType' /\ CauseInv'
    BY <1>1, <1>3, <2>1, FlagsKept
  <2>5. QED
    BY <1>2, <1>5, <2>2, <2>3, <2>4 DEF HandlerInv
<1>11. QED
  BY <1>6, <1>7, <1>8, <1>9, <1>10 DEF LoaderStep

(* The record a worker takes is the first that was not taken. *)
LEMMA QueueTaken ==
    ASSUME QueueInv, records.queue # <<>>, records' = [records EXCEPT !.queue = Tail(@)], pushed' = pushed
    PROVE  /\ QueueInv'
           /\ Head(records.queue) = Taken + 1 /\ Taken \in Nat /\ Taken + 1 \in Record
           /\ Taken' = Taken + 1
<1> DEFINE q == records.queue
           n == Len(q)
<1>1. /\ records = [queue |-> q, closed |-> records.closed] /\ records.closed \in BOOLEAN
      /\ q \in Seq(Record) /\ n \in Nat \ {0} /\ pushed \in 0..NbRecords /\ n <= pushed
      /\ \A k \in 1..n : q[k] = (pushed - n) + k
      /\ records.closed => pushed = NbRecords
  BY DEF QueueInv, Taken
<1>2. records' = [queue |-> Tail(q), closed |-> records.closed]
  BY <1>1
<1>3. Tail(q) \in Seq(Record) /\ Len(Tail(q)) = n - 1 /\ Head(q) = q[1]
      /\ \A k \in 1..(n - 1) : Tail(q)[k] = q[k + 1]
  BY <1>1
<1>4. records'.queue = Tail(q) /\ records'.closed = records.closed
  BY <1>2
<1>5. Taken = pushed - n /\ Taken' = pushed - (n - 1)
  BY <1>3, <1>4 DEF Taken
<1> HIDE DEF q, n
<1>6. NbRecords \in Nat
  BY HandlerAssumption
<1>7. Taken \in Nat /\ Taken + 1 \in Record /\ Taken' = Taken + 1 /\ Head(q) = Taken + 1
  <2>1. 1 \in 1..n /\ n \in Nat /\ pushed \in Nat /\ n >= 1 /\ n <= pushed /\ pushed <= NbRecords
    BY <1>1, <1>6
  <2>2. q[1] = (pushed - n) + 1
    BY <1>1, <2>1
  <2>3. QED
    BY <1>3, <1>5, <1>6, <2>1, <2>2 DEF Record
<1>8. \A k \in 1..(n - 1) : Tail(q)[k] = Taken' + k
  <2>1. \A k \in 1..(n - 1) : k + 1 \in 1..n
    BY <1>1
  <2>2. QED
    BY <1>1, <1>3, <1>5, <2>1
<1>9. QueueInv'
  <2>1. n - 1 \in Nat /\ n - 1 <= pushed
    BY <1>1
  <2>2. records' = [queue |-> records'.queue, closed |-> records'.closed]
    BY <1>2, <1>4
  <2>3. \A k \in 1..Len(records'.queue) : records'.queue[k] = Taken' + k
    BY <1>3, <1>4, <1>8
  <2>4. /\ records'.queue \in Seq(Record) /\ records'.closed \in BOOLEAN /\ Len(records'.queue) <= pushed'
        /\ records'.closed => pushed' = NbRecords
    BY <1>1, <1>3, <1>4, <2>1
  <2>5. QED
    BY <1>1, <2>2, <2>3, <2>4 DEF QueueInv
<1>10. QED
  BY <1>7, <1>9 DEF q

(* A worker takes a record, or gives up. *)
LEMMA WorkerTakes ==
    ASSUME HandlerInv, NEW w \in Worker, workerTakes(w)
    PROVE  HandlerInv'
<1> USE HandlerAssumption
<1>1. /\ main = "pushing" /\ worker[w].pc = "ranging" /\ records.queue # <<>>
      /\ records' = [records EXCEPT !.queue = Tail(@)]
      /\ UNCHANGED loading /\ UNCHANGED <<counter, removing, pushed, cogs>>
      /\ UNCHANGED <<onDisk, cancelled, main, uploaded, outcome>>
  BY DEF workerTakes
<1>0. PICK seen \in BOOLEAN :
        /\ isCancelled(seen)
        /\ IF seen \/ failed
           THEN Works(w, "ended", 0) /\ failed' = TRUE
           ELSE Works(w, "opening", Head(records.queue)) /\ UNCHANGED failed
  BY DEF workerTakes
<1>2. /\ QueueInv' /\ Head(records.queue) = Taken + 1 /\ Taken \in Nat /\ Taken + 1 \in Record /\ Taken' = Taken + 1
  BY <1>1, QueueTaken DEF HandlerInv
<1>3. UNCHANGED <<maxMb, remaining, toFetch, loader, place>>
  BY <1>1 DEF loading
<1>4. LoaderInv' /\ CounterInv' /\ FileInv'
  <2>1. LoaderInv' /\ CounterInv'
    BY <1>1, <1>3, LoaderSame, CounterSame DEF HandlerInv
  <2>2. QED
    BY <1>1, <1>3, <2>1 DEF HandlerInv, FileInv
<1>5. /\ worker \in [Worker -> Working] /\ cogs \in [Record -> File \cup {None, Merged}]
      /\ \A v \in Worker : Busy(v) => worker[v].on \in 1..Taken /\ cogs[worker[v].on] = None
      /\ \A v, u \in Worker : Busy(v) /\ Busy(u) /\ worker[v].on = worker[u].on => v = u
      /\ \A r \in Record : cogs[r] # None => r <= Taken
      /\ \A r \in Record : cogs[r] \in File => usableCOG(r) /\ cogs[r] = Datasets[r][1]
  BY DEF HandlerInv, WorkerInv
<1>6. FlagType /\ CauseInv
  BY DEF HandlerInv
<1>10. faults' \in 0..MaxFaults /\ (faults > 0 => faults' > 0) /\ (seen => cancelled)
  BY <1>0, <1>6 DEF isCancelled, Fault, FlagType
<1>7. CASE seen \/ failed
  <2>1. failed' = TRUE /\ Works(w, "ended", 0)
    BY <1>0, <1>7
  <2>2. /\ worker' \in [Worker -> Working]
        /\ \A v \in Worker : worker'[v] = IF v = w THEN [pc |-> "ended", on |-> 0] ELSE worker[v]
    BY <1>5, <2>1 DEF Works, Working
  <2>3. \A v \in Worker : Busy(v)' => v # w /\ Busy(v) /\ worker'[v] = worker[v]
    BY <2>2 DEF Busy
  <2>4. WorkerInv'
    BY <1>1, <1>2, <1>5, <2>2, <2>3 DEF WorkerInv, usableCOG, Record
  <2>5. FlagType' /\ CauseInv' /\ DoneInv'
    BY <1>1, <1>3, <1>6, <1>7, <1>10, <2>1 DEF FlagType, CauseInv, DoneInv
  <2>6. QED
    BY <1>2, <1>4, <2>4, <2>5 DEF HandlerInv
<1>8. CASE ~(seen \/ failed)
  <2>1. UNCHANGED failed /\ Works(w, "opening", Taken + 1)
    BY <1>0, <1>2, <1>8
  <2>2. Taken + 1 \in 0..NbRecords
    BY <1>2 DEF Record
  <2>3. /\ worker' \in [Worker -> Working]
        /\ \A v \in Worker : worker'[v] = IF v = w THEN [pc |-> "opening", on |-> Taken + 1] ELSE worker[v]
    BY <1>5, <2>1, <2>2 DEF Works, Working
  <2>4. /\ \A v \in Worker \ {w} : (Busy(v)' <=> Busy(v)) /\ worker'[v] = worker[v]
        /\ Busy(w)' /\ ~Busy(w) /\ worker'[w].on = Taken + 1
    BY <1>1, <2>3 DEF Busy
  <2>5. cogs[Taken + 1] = None
    BY <1>2, <1>5
  <2>6. WorkerInv'
    <3>1. ASSUME NEW v \in Worker, Busy(v)'
          PROVE  worker'[v].on \in 1..Taken' /\ cogs'[worker'[v].on] = None
      <4>1. CASE v = w
        BY <1>1, <1>2, <2>4, <2>5, <4>1
      <4>2. CASE v # w
        <5>1. worker[v].on \in 1..Taken /\ cogs[worker[v].on] = None /\ worker'[v] = worker[v]
          BY <1>5, <2>4, <3>1, <4>2
        <5>2. QED
          BY <1>1, <1>2, <5>1
      <4>3. QED
        BY <4>1, <4>2
    <3>2. ASSUME NEW v \in Worker, NEW u \in Worker, Busy(v)', Busy(u)', worker'[v].on = worker'[u].on
          PROVE  v = u
      <4>1. \A x \in Worker : Busy(x)' /\ worker'[x].on = Taken + 1 => x = w
        BY <1>2, <1>5, <2>4
      <4>2. CASE worker'[v].on = Taken + 1
        BY <3>2, <4>1, <4>2
      <4>3. CASE worker'[v].on # Taken + 1
        BY <1>5, <2>4, <3>2, <4>3
      <4>4. QED
        BY <4>2, <4>3
    <3>3. \A r \in Record : cogs'[r] # None => r <= Taken'
      BY <1>1, <1>2, <1>5 DEF Record
    <3>4. QED
      BY <1>1, <1>5, <2>3, <3>1, <3>2, <3>3 DEF WorkerInv, usableCOG
  <2>7. FlagType' /\ CauseInv'
    BY <1>1, <1>3, <1>6, <1>10, <2>1 DEF FlagType, CauseInv
  <2>8. DoneInv'
    <3>1. \A v \in Worker : worker[v].pc # "ended"
      BY <1>1, <1>8 DEF HandlerInv, DoneInv
    <3>2. \A v \in Worker : worker'[v].pc # "ended"
      BY <2>3, <3>1
    <3>3. ASSUME NEW r \in 1..Taken'
          PROVE  cogs'[r] # None \/ \E v \in Worker : Busy(v)' /\ worker'[v].on = r
      <4>1. CASE r = Taken + 1
        BY <2>4, <4>1
      <4>2. CASE r # Taken + 1
        <5>1. r \in 1..Taken
          BY <1>2, <4>2
        <5>2. cogs[r] # None \/ \E v \in Worker : Busy(v) /\ worker[v].on = r
          BY <1>8, <5>1 DEF HandlerInv, DoneInv
        <5>3. QED
          BY <1>1, <2>4, <5>2
      <4>3. QED
        BY <4>1, <4>2
    <3>4. QED
      BY <1>1, <3>2, <3>3 DEF DoneInv
  <2>9. QED
    BY <1>2, <1>4, <2>6, <2>7, <2>8 DEF HandlerInv
<1>9. QED
  BY <1>7, <1>8

(* A worker makes a COG of its record: any way of doing it. *)
LEMMA RecordDone ==
    ASSUME HandlerInv, NEW w \in Worker, Busy(w), NEW x \in File \cup {Merged},
           x \in File => usableCOG(worker[w].on) /\ x = Datasets[worker[w].on][1],
           cogs' = [cogs EXCEPT ![worker[w].on] = x], Works(w, "ranging", 0),
           UNCHANGED <<records, pushed, main, failed>>
    PROVE  WorkerInv' /\ DoneInv'
<1> DEFINE r == worker[w].on
<1>1. /\ worker \in [Worker -> Working] /\ cogs \in [Record -> File \cup {None, Merged}]
      /\ r \in 1..Taken /\ main # "loading"
      /\ \A v \in Worker : Busy(v) => worker[v].on \in 1..Taken /\ cogs[worker[v].on] = None
      /\ \A v, u \in Worker : Busy(v) /\ Busy(u) /\ worker[v].on = worker[u].on => v = u
      /\ \A s \in Record : cogs[s] # None => s <= Taken
      /\ \A s \in Record : cogs[s] \in File => usableCOG(s) /\ cogs[s] = Datasets[s][1]
  BY DEF HandlerInv, WorkerInv, Busy
<1>2. /\ UNCHANGED Taken /\ Taken <= NbRecords /\ Taken \in Nat /\ r \in Record
      /\ \A s \in 1..Taken : s \in Record
  <2>1. NbRecords \in Nat /\ Len(records.queue) \in Nat /\ pushed \in 0..NbRecords /\ Len(records.queue) <= pushed
    BY HandlerAssumption DEF HandlerInv, QueueInv
  <2>2. Taken <= NbRecords /\ Taken \in Nat
    BY <2>1 DEF Taken
  <2>3. \A s \in 1..Taken : s \in Record
    BY <2>1, <2>2 DEF Record
  <2>4. UNCHANGED Taken
    BY DEF Taken
  <2>5. QED
    BY <1>1, <2>2, <2>3, <2>4
<1> HIDE DEF r
<1>3. /\ worker' \in [Worker -> Working]
      /\ \A v \in Worker : worker'[v] = IF v = w THEN [pc |-> "ranging", on |-> 0] ELSE worker[v]
  <2>1. 0 \in 0..NbRecords
    BY HandlerAssumption
  <2>2. QED
    BY <1>1, <2>1 DEF Works, Working
<1>4. /\ cogs' \in [Record -> File \cup {None, Merged}]
      /\ \A s \in Record : cogs'[s] = IF s = r THEN x ELSE cogs[s]
  BY <1>1 DEF r
<1>5. /\ \A v \in Worker : Busy(v)' <=> Busy(v) /\ v # w
      /\ \A v \in Worker : v # w => worker'[v] = worker[v]
  BY <1>3 DEF Busy
<1>6. \A v \in Worker : Busy(v) /\ v # w => worker[v].on # r
  BY <1>1 DEF r
<1>7. x # None
  BY HandlerAssumption DEF None, Merged
<1>8. WorkerInv'
  <2>1. ASSUME NEW v \in Worker, Busy(v)'
        PROVE  worker'[v].on \in 1..Taken' /\ cogs'[worker'[v].on] = None
    <3>1. Busy(v) /\ v # w /\ worker'[v] = worker[v]
      BY <1>5, <2>1
    <3>2. worker[v].on \in 1..Taken /\ cogs[worker[v].on] = None /\ worker[v].on # r /\ worker[v].on \in Record
      BY <1>1, <1>2, <1>6, <3>1
    <3>3. QED
      BY <1>2, <1>4, <3>1, <3>2
  <2>2. ASSUME NEW v \in Worker, NEW u \in Worker, Busy(v)', Busy(u)', worker'[v].on = worker'[u].on
        PROVE  v = u
    BY <1>1, <1>5, <2>2
  <2>3. \A s \in Record : cogs'[s] # None => s <= Taken'
    BY <1>1, <1>2, <1>4
  <2>4. \A s \in Record : cogs'[s] \in File => usableCOG(s)' /\ cogs'[s] = Datasets[s][1]
    BY <1>1, <1>4 DEF usableCOG, r
  <2>5. main' # "loading"
    BY <1>1
  <2>6. QED
    BY <1>3, <1>4, <2>1, <2>2, <2>3, <2>4, <2>5 DEF WorkerInv
<1>9. DoneInv'
  <2>1. main' \notin {"uploading", "uploaded"}
    BY DEF HandlerInv, DoneInv, Ended, Busy
  <2>2. ASSUME ~failed', NEW v \in Worker, worker'[v].pc = "ended"
        PROVE  records'.closed /\ records'.queue = <<>>
    <3>1. worker[v].pc = "ended" /\ ~failed
      BY <1>3, <2>2
    <3>2. QED
      BY <3>1 DEF HandlerInv, DoneInv
  <2>3. ASSUME ~failed', NEW s \in 1..Taken'
        PROVE  cogs'[s] # None \/ \E v \in Worker : Busy(v)' /\ worker'[v].on = s
    <3>1. s \in 1..Taken /\ s \in Record
      BY <1>2, <2>3
    <3>2. cogs[s] # None \/ \E v \in Worker : Busy(v) /\ worker[v].on = s
      BY <2>3, <3>1 DEF HandlerInv, DoneInv
    <3>3. CASE s = r
      BY <1>4, <1>7, <3>1, <3>3
    <3>4. CASE s # r
      <4>1. \A v \in Worker : worker[v].on = s => v # w
        BY <3>4 DEF r
      <4>2. QED
        BY <1>4, <1>5, <3>1, <3>2, <3>4, <4>1
    <3>5. QED
      BY <3>3, <3>4
  <2>4. QED
    BY <2>1, <2>2, <2>3 DEF DoneInv
<1>10. QED
  BY <1>8, <1>9

(* A worker gives its record up: somebody failed, or nothing is left. *)
LEMMA WorkerQuits ==
    ASSUME HandlerInv, NEW w \in Worker, Works(w, "ended", 0), main # "loading",
           UNCHANGED <<cogs, records, pushed, main>>,
           \/ failed' = TRUE /\ worker[w].pc # "ended"
           \/ UNCHANGED failed /\ ~Busy(w) /\ records.closed /\ records.queue = <<>>
    PROVE  WorkerInv' /\ DoneInv'
<1>1. /\ worker \in [Worker -> Working] /\ 0 \in 0..NbRecords
  BY HandlerAssumption DEF HandlerInv, WorkerInv
<1>2. /\ worker' \in [Worker -> Working]
      /\ \A v \in Worker : worker'[v] = IF v = w THEN [pc |-> "ended", on |-> 0] ELSE worker[v]
  BY <1>1 DEF Works, Working
<1>3. \A v \in Worker : Busy(v)' => Busy(v) /\ v # w /\ worker'[v] = worker[v]
  BY <1>2 DEF Busy
<1>4. UNCHANGED Taken
  BY DEF Taken
<1>5. WorkerInv'
  BY <1>2, <1>3, <1>4 DEF HandlerInv, WorkerInv, usableCOG
<1>6. DoneInv'
  <2>1. CASE failed' = TRUE /\ worker[w].pc # "ended"
    BY <2>1 DEF HandlerInv, DoneInv, Ended
  <2>2. CASE UNCHANGED failed /\ ~Busy(w) /\ records.closed /\ records.queue = <<>>
    <3>1. \A v \in Worker : Busy(v) => Busy(v)' /\ worker'[v] = worker[v]
      BY <1>2, <2>2 DEF Busy
    <3>2. main' \in {"uploading", "uploaded"} => ~failed' /\ records'.closed /\ Ended(Worker)'
      BY <1>2, <2>2 DEF HandlerInv, DoneInv, Ended
    <3>3. \A v \in Worker : worker'[v].pc = "ended" => records'.closed /\ records'.queue = <<>>
      BY <2>2
    <3>4. ASSUME ~failed'
          PROVE  \A r \in 1..Taken' : cogs'[r] # None \/ \E v \in Worker : Busy(v)' /\ worker'[v].on = r
      BY <1>4, <2>2, <3>1, <3>4 DEF HandlerInv, DoneInv
    <3>5. QED
      BY <3>2, <3>3, <3>4 DEF DoneInv
  <2>3. QED
    BY <2>1, <2>2
<1>7. QED
  BY <1>5, <1>6

(* What the steps of the workers leave alone, but for the counters. *)
LEMMA WorkerFrame ==
    ASSUME HandlerInv, UNCHANGED loading, UNCHANGED <<records, pushed, onDisk, cancelled, main, uploaded, outcome>>,
           faults' \in 0..MaxFaults /\ faults' >= faults,
           UNCHANGED failed \/ (failed' = TRUE /\ faults' > 0)
    PROVE  /\ LoaderInv' /\ QueueInv' /\ FlagType' /\ CauseInv'
           /\ UNCHANGED counter => FileInv'
<1>1. UNCHANGED <<maxMb, remaining, toFetch, loader, place>>
  BY DEF loading
<1>2. LoaderInv' /\ QueueInv'
  BY LoaderSame, QueueSame DEF HandlerInv
<1>3. faults \in 0..MaxFaults /\ MaxFaults \in Nat
  BY HandlerAssumption DEF HandlerInv, FlagType
<1>4. FlagType'
  BY <1>1 DEF HandlerInv, FlagType
<1>5. CauseInv'
  BY <1>1, <1>3 DEF HandlerInv, CauseInv
<1>6. UNCHANGED counter => FileInv'
  <2>1. \A f \in File : UNCHANGED OnItsWay(f)
    BY <1>1 DEF OnItsWay
  <2>2. QED
    BY <1>1, <2>1 DEF HandlerInv, FileInv
<1>7. QED
  BY <1>2, <1>4, <1>5, <1>6

(* The counters follow the records that are merged: a source is removed when *)
(* its counter gets to zero.                                                 *)
LEMMA WorkerMerges ==
    ASSUME HandlerInv, NEW w \in Worker, workerMerges(w)
    PROVE  HandlerInv'
<1> USE HandlerAssumption
<1> DEFINE r == worker[w].on
<1>1. /\ worker[w].pc = "merging" /\ Busy(w)
      /\ cogs' = [cogs EXCEPT ![r] = Merged]
      /\ counter' = Released(counter, r)
      /\ removing' = removing \cup {f \in File : counter[f] > 0 /\ Released(counter, r)[f] = 0}
      /\ Works(w, "ranging", 0) /\ UNCHANGED loading
      /\ UNCHANGED <<records, pushed, onDisk, failed, cancelled, main, uploaded, outcome, faults>>
  BY DEF workerMerges, Busy
<1>2. UNCHANGED <<maxMb, remaining, toFetch, loader, place>>
  BY <1>1 DEF loading
<1>3. faults \in 0..MaxFaults /\ MaxFaults \in Nat
  BY DEF HandlerInv, FlagType
<1>4. LoaderInv' /\ QueueInv' /\ FlagType' /\ CauseInv'
  BY <1>1, <1>3, WorkerFrame
<1>5. WorkerInv' /\ DoneInv'
  <2>1. Merged \in File \cup {Merged} /\ Merged \notin File
    OBVIOUS
  <2>2. QED
    BY <1>1, <2>1, RecordDone
<1>6. /\ r \in Record /\ cogs[r] = None /\ main # "loading"
      /\ \A s \in Record : cogs'[s] = IF s = r THEN Merged ELSE cogs[s]
  <2>1. r \in 1..Taken /\ cogs[r] = None /\ main # "loading" /\ cogs \in [Record -> File \cup {None, Merged}]
    BY <1>1 DEF HandlerInv, WorkerInv
  <2>2. r \in Record
    <3>1. Len(records.queue) \in Nat /\ pushed \in 0..NbRecords /\ Len(records.queue) <= pushed
      BY DEF HandlerInv, QueueInv
    <3>2. QED
      BY <2>1, <3>1 DEF Taken, Record
  <2>3. QED
    BY <1>1, <2>1, <2>2
<1> HIDE DEF r
<1>7. ASSUME NEW f \in File
      PROVE  /\ Cardinality(DatasetsIn(f, r)) \in Nat
             /\ Cardinality(Left(f)) \in Nat /\ Cardinality(Left(f)') \in Nat
             /\ Cardinality(Left(f)') = Cardinality(Left(f)) - Cardinality(DatasetsIn(f, r))
  <2>1. cogs[r] # Merged
    BY <1>6 DEF None, Merged
  <2>2. Cardinality(DatasetsIn(f, r)) \in Nat
    BY <1>6, FiniteLeft, FS_CardinalityType
  <2>3. QED
    BY <1>6, <2>1, <2>2, RecordMerged
<1>8. /\ counter \in [File -> Nat] /\ place \in [File -> {"workspace", "given"}]
      /\ \A f \in File : place[f] = "workspace" => f \in Remote /\ counter[f] = Cardinality(Left(f))
      /\ removing \subseteq {f \in Remote : place[f] = "workspace" /\ counter[f] = 0}
  BY DEF HandlerInv, LoaderInv, CounterInv
<1>9. DOMAIN counter' = File
  BY <1>1 DEF Released
<1>10. ASSUME NEW f \in File
       PROVE  /\ place[f] = "workspace" => counter'[f] = Cardinality(Left(f)') /\ counter'[f] <= counter[f]
              /\ place[f] # "workspace" => counter'[f] = counter[f]
              /\ counter'[f] \in Nat
  <2>1. counter'[f] = IF place[f] = "workspace" THEN counter[f] - Cardinality(DatasetsIn(f, r)) ELSE counter[f]
    BY <1>1 DEF Released
  <2>2. CASE place[f] = "workspace"
    BY <1>7, <1>8, <2>1, <2>2
  <2>3. CASE place[f] # "workspace"
    BY <1>8, <2>1, <2>3
  <2>4. QED
    BY <2>2, <2>3
<1>11. CounterInv'
  <2>1. counter' \in [File -> Nat]
    <3>1. counter' = [f \in File |-> counter'[f]]
      BY <1>1 DEF Released
    <3>2. QED
      BY <1>10, <3>1
  <2>2. \A f \in File : place'[f] = "workspace" => counter'[f] = Cardinality(Left(f)')
    BY <1>2, <1>10
  <2>3. removing' \subseteq {f \in Remote : place[f] = "workspace" /\ counter'[f] = 0}
    <3>1. ASSUME NEW f \in removing
          PROVE  f \in Remote /\ place[f] = "workspace" /\ counter'[f] = 0
      <4>1. f \in Remote /\ f \in File /\ place[f] = "workspace" /\ counter[f] = 0
        BY <1>8
      <4>2. counter'[f] \in Nat /\ counter'[f] <= 0
        BY <1>10, <4>1
      <4>3. QED
        BY <4>1, <4>2
    <3>2. ASSUME NEW f \in File, counter[f] > 0, counter'[f] = 0
          PROVE  f \in Remote /\ place[f] = "workspace"
      BY <1>8, <1>10, <3>2
    <3>3. QED
      BY <1>1, <3>1, <3>2
  <2>4. QED
    BY <1>1, <1>2, <1>6, <2>1, <2>2, <2>3 DEF CounterInv
<1>12. FileInv'
  <2>1. \A f \in File : place[f] = "workspace" /\ counter[f] = 0 => counter'[f] = 0
    <3>1. ASSUME NEW f \in File, place[f] = "workspace", counter[f] = 0
          PROVE  counter'[f] = 0
      <4>1. counter'[f] \in Nat /\ counter'[f] <= 0
        BY <1>10, <3>1
      <4>2. QED
        BY <4>1
    <3>2. QED
      BY <3>1
  <2>2. QED
    BY <1>1, <1>2, <1>6, <2>1 DEF HandlerInv, FileInv
<1>13. QED
  BY <1>4, <1>5, <1>11, <1>12 DEF HandlerInv

(* The workers, that take the records, merge them or keep them as they are. *)
LEMMA WorkerSteps ==
    ASSUME HandlerInv, NEW w \in Worker, WorkerStep(w)
    PROVE  HandlerInv'
<1> USE HandlerAssumption
<1>1. faults \in 0..MaxFaults /\ MaxFaults \in Nat
  BY DEF HandlerInv, FlagType
<1>2. main = "loading" => worker[w].pc = "ranging"
  BY DEF HandlerInv, WorkerInv
<1>3. CASE workerSkips(w)
  <2>1. /\ Busy(w) /\ UNCHANGED loading /\ UNCHANGED <<counter, removing, place>> /\ main # "loading"
        /\ usableCOG(worker[w].on) /\ cogs' = [cogs EXCEPT ![worker[w].on] = Datasets[worker[w].on][1]]
        /\ Works(w, "ranging", 0)
        /\ UNCHANGED <<records, pushed, onDisk, failed, cancelled, main, uploaded, outcome, faults>>
    BY <1>2, <1>3 DEF workerSkips, Busy, loading
  <2>2. LoaderInv' /\ QueueInv' /\ FlagType' /\ CauseInv' /\ FileInv'
    BY <1>1, <2>1, WorkerFrame
  <2>3. Datasets[worker[w].on][1] \in File
    BY <2>1 DEF usableCOG
  <2>4. WorkerInv' /\ DoneInv'
    BY <2>1, <2>3, RecordDone
  <2>5. CounterInv'
    <3>1. cogs \in [Record -> File \cup {None, Merged}] /\ cogs[worker[w].on] = None
      BY <2>1 DEF HandlerInv, WorkerInv
    <3>2. \A s \in Record : cogs'[s] # Merged <=> cogs[s] # Merged
      BY <2>1, <2>3, <3>1 DEF None, Merged
    <3>3. \A f \in File : Left(f)' = Left(f)
      BY <3>2 DEF Left, DatasetsIn
    <3>4. QED
      BY <2>1, <3>3 DEF HandlerInv, CounterInv
  <2>6. QED
    BY <2>2, <2>4, <2>5 DEF HandlerInv
<1>4. CASE workerStartsToMerge(w)
  <2>1. /\ Busy(w) /\ UNCHANGED loading /\ UNCHANGED <<counter, removing, place, cogs>> /\ main # "loading"
        /\ Works(w, "merging", worker[w].on) /\ worker[w].pc = "opening"
        /\ UNCHANGED <<records, pushed, onDisk, failed, cancelled, main, uploaded, outcome, faults>>
    BY <1>2, <1>4 DEF workerStartsToMerge, Busy, loading
  <2>2. LoaderInv' /\ QueueInv' /\ FlagType' /\ CauseInv' /\ FileInv'
    BY <1>1, <2>1, WorkerFrame
  <2>3. CounterInv'
    BY <2>1, CounterSame DEF HandlerInv
  <2>4. /\ worker \in [Worker -> Working] /\ worker[w].on \in 0..NbRecords
    BY DEF HandlerInv, WorkerInv, Working
  <2>5. /\ worker' \in [Worker -> Working]
        /\ \A v \in Worker : worker'[v] = IF v = w THEN [pc |-> "merging", on |-> worker[w].on] ELSE worker[v]
    BY <2>1, <2>4 DEF Works, Working
  <2>6. /\ \A v \in Worker : (Busy(v)' <=> Busy(v)) /\ worker'[v].on = worker[v].on
        /\ \A v \in Worker : worker'[v].pc = "ended" <=> worker[v].pc = "ended"
    BY <2>1, <2>5 DEF Busy
  <2>7. UNCHANGED Taken
    BY <2>1 DEF Taken
  <2>8. WorkerInv'
    <3>1. /\ \A v \in Worker : Busy(v)' => worker'[v].on \in 1..Taken' /\ cogs'[worker'[v].on] = None
          /\ \A v, u \in Worker : Busy(v)' /\ Busy(u)' /\ worker'[v].on = worker'[u].on => v = u
      BY <2>1, <2>6, <2>7 DEF HandlerInv, WorkerInv
    <3>2. /\ cogs' \in [Record -> File \cup {None, Merged}]
          /\ \A r \in Record : cogs'[r] # None => r <= Taken'
          /\ \A r \in Record : cogs'[r] \in File => usableCOG(r)' /\ cogs'[r] = Datasets[r][1]
      BY <2>1, <2>7 DEF HandlerInv, WorkerInv, usableCOG
    <3>3. QED
      BY <2>1, <2>5, <3>1, <3>2 DEF WorkerInv
  <2>9. DoneInv'
    BY <2>1, <2>5, <2>6, <2>7 DEF HandlerInv, DoneInv, Ended
  <2>10. QED
    BY <2>2, <2>3, <2>8, <2>9 DEF HandlerInv
<1>5. CASE workerFails(w)
  <2>1. /\ UNCHANGED loading /\ UNCHANGED <<counter, removing, place, cogs>> /\ main # "loading"
        /\ Works(w, "ended", 0) /\ failed' = TRUE /\ worker[w].pc # "ended"
        /\ UNCHANGED <<records, pushed, onDisk, cancelled, main, uploaded, outcome>>
    BY <1>2, <1>5 DEF workerFails, loading
  <2>2. faults' \in 0..MaxFaults /\ faults' >= faults /\ faults' > 0
    BY <1>1, <1>5 DEF workerFails, Fault
  <2>3. LoaderInv' /\ QueueInv' /\ FlagType' /\ CauseInv' /\ FileInv'
    BY <2>1, <2>2, WorkerFrame
  <2>4. CounterInv'
    BY <2>1, CounterSame DEF HandlerInv
  <2>5. WorkerInv' /\ DoneInv'
    BY <2>1, WorkerQuits
  <2>6. QED
    BY <2>3, <2>4, <2>5 DEF HandlerInv
<1>6. CASE workerEnds(w)
  <2>1. /\ UNCHANGED loading /\ UNCHANGED <<counter, removing, place, cogs>> /\ main # "loading"
        /\ Works(w, "ended", 0) /\ ~Busy(w) /\ records.closed /\ records.queue = <<>>
        /\ UNCHANGED <<records, pushed, onDisk, failed, cancelled, main, uploaded, outcome, faults>>
    BY <1>6 DEF workerEnds, loading, Busy
  <2>2. LoaderInv' /\ QueueInv' /\ FlagType' /\ CauseInv' /\ FileInv'
    BY <1>1, <2>1, WorkerFrame
  <2>3. CounterInv'
    BY <2>1, CounterSame DEF HandlerInv
  <2>4. WorkerInv' /\ DoneInv'
    BY <2>1, WorkerQuits
  <2>5. QED
    BY <2>2, <2>3, <2>4 DEF HandlerInv
<1>7. QED
  BY <1>3, <1>4, <1>5, <1>6, WorkerTakes, WorkerMerges DEF WorkerStep

-----------------------------------------------------------------------------
(* Consolidate returns, and in the end its workspace is cleaned. *)
LEMMA Returns ==
    ASSUME HandlerInv, UNCHANGED loading, UNCHANGED merging, UNCHANGED <<failed, cancelled>>,
           faults' \in 0..MaxFaults /\ faults' >= faults, uploaded' \in BOOLEAN,
           outcome' \in {None, "success", "cancelled", "error"},
           \/ main' = "returned" /\ onDisk' = {}
           \/ main' = "returning" /\ UNCHANGED onDisk /\ main \notin {"loading", "returned", "crashed"}
    PROVE  HandlerInv'
<1>1. /\ UNCHANGED <<maxMb, remaining, toFetch, loader, place>>
      /\ UNCHANGED <<counter, removing, records, pushed, worker, cogs>>
      /\ main' \in {"returned", "returning"}
  BY DEF loading, merging
<1>2. LoaderInv' /\ QueueInv' /\ WorkerInv' /\ CounterInv' /\ DoneInv'
  BY <1>1, LoaderSame, QueueSame, WorkerSame, CounterSame, DoneSame DEF HandlerInv
<1>3. FileInv'
  BY <1>1 DEF HandlerInv, FileInv
<1>4. FlagType'
  BY <1>1 DEF HandlerInv, FlagType
<1>5. CauseInv'
  <2>1. faults \in 0..MaxFaults /\ MaxFaults \in Nat
    BY HandlerAssumption DEF HandlerInv, FlagType
  <2>2. QED
    BY <1>1, <2>1 DEF HandlerInv, CauseInv
<1>6. QED
  BY <1>2, <1>3, <1>4, <1>5 DEF HandlerInv

(* Consolidate goes on: every file is where it should be when it does. *)
LEMMA GoesOn ==
    ASSUME HandlerInv, UNCHANGED loading, UNCHANGED merging,
           UNCHANGED <<failed, cancelled, onDisk, outcome>>, faults' \in 0..MaxFaults /\ faults' >= faults,
           \/ /\ main = "loading" /\ main' = "pushing"
              /\ toFetch = {} /\ \A l \in Loader : loader[l].pc = "ranging"
           \/ /\ main = "pushing" /\ main' = "uploading"
              /\ ~failed /\ records.closed /\ Ended(Worker)
           \/ main = "uploading" /\ main' = "uploaded",
           uploaded' = IF main' = "uploaded" THEN TRUE ELSE uploaded
    PROVE  HandlerInv'
<1>1. /\ UNCHANGED <<maxMb, remaining, toFetch, loader, place>>
      /\ UNCHANGED <<counter, removing, records, pushed, worker, cogs>>
      /\ main' \in {"pushing", "uploading", "uploaded"} /\ main \in {"loading", "pushing", "uploading"}
  BY DEF loading, merging
<1>2. LoaderInv' /\ QueueInv' /\ WorkerInv' /\ CounterInv'
  BY <1>1, LoaderSame, QueueSame, WorkerSame, CounterSame DEF HandlerInv
<1>3. FileInv'
  <2>1. main = "loading" => \A f \in File : ~OnItsWay(f)
    BY DEF OnItsWay
  <2>2. QED
    BY <1>1, <2>1 DEF HandlerInv, FileInv
<1>4. FlagType' /\ CauseInv'
  <2>1. faults \in 0..MaxFaults /\ MaxFaults \in Nat
    BY HandlerAssumption DEF HandlerInv, FlagType
  <2>2. faults > 0 => faults' > 0
    BY <2>1
  <2>3. QED
    BY <1>1, <2>2 DEF HandlerInv, FlagType, CauseInv
<1>5. DoneInv'
  BY <1>1 DEF HandlerInv, DoneInv, Ended, Busy, Taken
<1>6. QED
  BY <1>2, <1>3, <1>4, <1>5 DEF HandlerInv

(* The records are sent in order, then the channel is closed. *)
LEMMA RecordsSent ==
    ASSUME HandlerInv, push \/ closeRecords
    PROVE  HandlerInv'
<1> USE HandlerAssumption
<1> DEFINE q == records.queue
           n == Len(q)
<1>1. /\ main = "pushing" /\ UNCHANGED loading
      /\ UNCHANGED <<counter, removing, worker, cogs, place>>
      /\ UNCHANGED <<onDisk, failed, cancelled, main, uploaded, outcome, faults>>
      /\ ~records.closed
  <2>1. CASE push
    BY <2>1 DEF push, loading, HandlerInv, QueueInv
  <2>2. CASE closeRecords
    BY <2>2 DEF closeRecords, loading
  <2>3. QED
    BY <2>1, <2>2
<1>2. /\ records = [queue |-> q, closed |-> records.closed]
      /\ q \in Seq(Record) /\ n \in Nat /\ pushed \in 0..NbRecords /\ n <= pushed
      /\ records.closed \in BOOLEAN
      /\ \A k \in 1..n : q[k] = (pushed - n) + k
  BY DEF HandlerInv, QueueInv, Taken
<1>3. LoaderInv' /\ CounterInv'
  BY <1>1, LoaderSame, CounterSame DEF HandlerInv
<1>4. FileInv' /\ FlagType' /\ CauseInv'
  BY <1>1 DEF loading, HandlerInv, FileInv, FlagType, CauseInv
<1>5. QueueInv' /\ UNCHANGED Taken
  <2>1. CASE push
    <3>1. pushed < NbRecords /\ pushed' = pushed + 1 /\ records' = [records EXCEPT !.queue = Append(@, pushed + 1)]
      BY <2>1 DEF push
    <3>2. records' = [queue |-> Append(q, pushed + 1), closed |-> FALSE]
      <4>1. records = [queue |-> q, closed |-> FALSE]
        BY <1>1, <1>2
      <4> DEFINE a == Append(q, pushed + 1)
      <4>2. records' = [records EXCEPT !.queue = a]
        BY <3>1
      <4> HIDE DEF a, q
      <4>3. records' = [queue |-> a, closed |-> FALSE]
        BY <4>1, <4>2
      <4>4. QED
        BY <4>3 DEF a
    <3>3. records'.queue = Append(q, pushed + 1) /\ records'.closed = FALSE
      BY <3>2
    <3>4. pushed + 1 \in Record /\ pushed' \in 0..NbRecords /\ pushed \in Nat
      BY <1>2, <3>1 DEF Record
    <3>5. /\ Append(q, pushed + 1) \in Seq(Record) /\ Len(Append(q, pushed + 1)) = n + 1
          /\ \A k \in 1..n : Append(q, pushed + 1)[k] = q[k]
          /\ Append(q, pushed + 1)[n + 1] = pushed + 1
      BY <1>2, <3>4
    <3>6. Taken' = (pushed + 1) - (n + 1) /\ Taken = pushed - n
      BY <3>1, <3>3, <3>5 DEF Taken
    <3> HIDE DEF n
    <3>7. UNCHANGED Taken
      BY <1>2, <3>4, <3>6
    <3>8. \A k \in 1..(n + 1) : Append(q, pushed + 1)[k] = Taken + k
      <4>1. ASSUME NEW k \in 1..(n + 1)
            PROVE  Append(q, pushed + 1)[k] = Taken + k
        <5>1. CASE k \in 1..n
          BY <1>2, <3>5, <3>6, <5>1
        <5>2. CASE k = n + 1
          BY <1>2, <3>4, <3>5, <3>6, <5>2
        <5>3. n \in Nat
          BY <1>2
        <5>4. k \in 1..n \/ k = n + 1
          BY <5>3
        <5>5. QED
          BY <5>1, <5>2, <5>4
      <4>2. QED
        BY <4>1
    <3>9. n + 1 <= pushed'
      BY <1>2, <3>1, <3>4
    <3>10. QueueInv'
      BY <3>2, <3>3, <3>4, <3>5, <3>7, <3>8, <3>9 DEF QueueInv
    <3>11. QED
      BY <3>7, <3>10
  <2>2. CASE closeRecords
    <3>1. pushed = NbRecords /\ UNCHANGED pushed /\ records' = [records EXCEPT !.closed = TRUE]
      BY <2>2 DEF closeRecords
    <3>2. records' = [queue |-> q, closed |-> TRUE]
      BY <1>2, <3>1
    <3>3. records'.queue = q /\ records'.closed = TRUE
      BY <3>2
    <3>4. UNCHANGED Taken /\ Taken = pushed - n
      BY <3>1, <3>3 DEF Taken
    <3>5. QueueInv'
      BY <1>2, <3>1, <3>2, <3>3, <3>4 DEF QueueInv
    <3>6. QED
      BY <3>4, <3>5
  <2>3. QED
    BY <2>1, <2>2
<1>6. WorkerInv'
  BY <1>1, <1>5 DEF HandlerInv, WorkerInv, Busy, usableCOG
<1>7. DoneInv'
  <2>1. main' \notin {"uploading", "uploaded"}
    BY <1>1
  <2>2. ~failed => \A w \in Worker : worker'[w].pc # "ended"
    BY <1>1 DEF HandlerInv, DoneInv
  <2>3. QED
    BY <1>1, <1>5, <2>1, <2>2 DEF HandlerInv, DoneInv, Busy
<1>8. QED
  BY <1>3, <1>4, <1>5, <1>6, <1>7 DEF HandlerInv

LEMMA MainSteps ==
    ASSUME HandlerInv, MainStep
    PROVE  HandlerInv'
<1>1. /\ faults \in 0..MaxFaults /\ MaxFaults \in Nat /\ uploaded \in BOOLEAN
      /\ loader \in [Loader -> Loading]
  BY HandlerAssumption DEF HandlerInv, FlagType, LoaderInv
<1>2. CASE returnFromLoading
  <2>1. /\ UNCHANGED loading /\ UNCHANGED merging /\ UNCHANGED <<failed, cancelled>> /\ uploaded' = uploaded
        /\ faults' \in 0..MaxFaults /\ faults' >= faults
    BY <1>1, <1>2 DEF returnFromLoading, isCancelled, Fault
  <2>2. CASE Leave("error") \/ Leave("cancelled")
    BY <1>1, <2>1, <2>2, Returns DEF Leave
  <2>3. CASE ~(Leave("error") \/ Leave("cancelled"))
    <3>1. /\ main = "loading" /\ main' = "pushing" /\ UNCHANGED <<outcome, onDisk>> /\ toFetch = {}
          /\ \A l \in Loader : loader[l].pc = "ranging"
      BY <1>2, <2>3 DEF returnFromLoading
    <3>2. QED
      BY <1>1, <2>1, <3>1, GoesOn
  <2>4. QED
    BY <2>2, <2>3
<1>3. CASE push \/ closeRecords
  BY <1>3, RecordsSent
<1>4. CASE waitForWorkers
  <2>1. /\ UNCHANGED loading /\ UNCHANGED merging /\ UNCHANGED <<failed, cancelled, onDisk, uploaded>>
        /\ faults' \in 0..MaxFaults /\ faults' >= faults /\ main = "pushing"
    BY <1>1, <1>4 DEF waitForWorkers, isCancelled, Fault
  <2>2. CASE Return("error") \/ Return("cancelled")
    BY <1>1, <2>1, <2>2, Returns DEF Return
  <2>3. CASE ~(Return("error") \/ Return("cancelled"))
    <3>1. /\ main = "pushing" /\ main' = "uploading" /\ UNCHANGED outcome
          /\ ~failed /\ records.closed /\ Ended(Worker)
      BY <1>4, <2>3 DEF waitForWorkers
    <3>2. QED
      BY <1>1, <2>1, <3>1, GoesOn
  <2>4. QED
    BY <2>2, <2>3
<1>5. CASE uploadFile
  <2>1. /\ UNCHANGED loading /\ UNCHANGED merging /\ UNCHANGED <<failed, cancelled, onDisk>>
        /\ main = "uploading"
    BY <1>5 DEF uploadFile
  <2>2. CASE Return("error")
    <3>1. faults' \in 0..MaxFaults /\ faults' >= faults /\ main' = "returning" /\ outcome' = "error"
      BY <1>1, <1>5, <2>2 DEF uploadFile, Fault, Return
    <3>2. uploaded' = uploaded
      BY <1>5, <3>1 DEF uploadFile
    <3>3. QED
      BY <1>1, <2>1, <3>1, <3>2, Returns
  <2>3. CASE ~Return("error")
    <3>1. main' = "uploaded" /\ uploaded' = TRUE /\ UNCHANGED <<outcome, faults>>
      BY <1>5, <2>3 DEF uploadFile
    <3>2. QED
      BY <1>1, <2>1, <3>1, GoesOn
  <2>4. QED
    BY <2>2, <2>3
<1>6. CASE returnFromUpload
  <2>1. /\ UNCHANGED loading /\ UNCHANGED merging /\ UNCHANGED <<failed, cancelled, onDisk, uploaded>>
        /\ main = "uploaded" /\ main' = "returning" /\ outcome' \in {"cancelled", "success"}
        /\ faults' \in 0..MaxFaults /\ faults' >= faults
    BY <1>1, <1>6 DEF returnFromUpload, Return, isCancelled, Fault
  <2>2. QED
    BY <1>1, <2>1, Returns
<1>7. CASE deferredDelete
  <2>1. /\ UNCHANGED loading /\ UNCHANGED merging /\ UNCHANGED <<failed, cancelled, outcome>>
        /\ main' = "returned" /\ onDisk' = {} /\ faults' \in 0..MaxFaults /\ faults' >= faults
    BY <1>1, <1>7 DEF deferredDelete, Fault
  <2>4. uploaded' \in BOOLEAN
    BY <1>1, <1>7 DEF deferredDelete, StaysUploaded
  <2>2. outcome \in {None, "success", "cancelled", "error"}
    BY DEF HandlerInv, FlagType
  <2>3. QED
    BY <2>1, <2>2, <2>4, Returns
<1>8. QED
  BY <1>2, <1>3, <1>4, <1>5, <1>6, <1>7 DEF MainStep

(* The rest: the removals, the cancellation, the race of the loaders. *)
LEMMA OtherSteps ==
    ASSUME HandlerInv, (\E f \in File : remove(f)) \/ loadersRace \/ cancel \/ UNCHANGED vars
    PROVE  HandlerInv'
<1>1. CASE \E f \in File : remove(f)
  <2>1. PICK f \in File : remove(f)
    BY <1>1
  <2>2. /\ f \in removing /\ removing' = removing \ {f} /\ onDisk' = onDisk \ {f}
        /\ UNCHANGED loading /\ UNCHANGED <<counter, records, pushed, worker, cogs>>
        /\ UNCHANGED <<failed, cancelled, main, uploaded, outcome, faults>>
    BY <2>1 DEF remove
  <2>3. UNCHANGED <<maxMb, remaining, toFetch, loader, place>>
    BY <2>2 DEF loading
  <2>4. LoaderInv' /\ QueueInv' /\ WorkerInv' /\ DoneInv'
    BY <2>2, LoaderSame, QueueSame, WorkerSame, DoneSame DEF HandlerInv
  <2>5. CounterInv'
    <3>1. \A g \in File : Left(g)' = Left(g)
      BY <2>2 DEF Left
    <3>2. QED
      BY <2>2, <2>3, <3>1 DEF HandlerInv, CounterInv
  <2>6. FileInv'
    <3>1. counter[f] = 0 /\ main # "loading"
      BY <2>2 DEF HandlerInv, CounterInv
    <3>2. QED
      BY <2>2, <2>3, <3>1 DEF HandlerInv, FileInv
  <2>7. FlagType' /\ CauseInv'
    BY <2>2, <2>3 DEF HandlerInv, FlagType, CauseInv
  <2>8. QED
    BY <2>4, <2>5, <2>6, <2>7 DEF HandlerInv
<1>2. CASE loadersRace \/ cancel \/ UNCHANGED vars
  <2>1. /\ UNCHANGED loading /\ UNCHANGED <<counter, removing, records, pushed, worker, cogs>>
        /\ UNCHANGED <<onDisk, failed, uploaded, outcome, faults>>
        /\ UNCHANGED main \/ (main = "loading" /\ main' = "crashed")
        /\ UNCHANGED cancelled \/ cancelled' = TRUE
    BY <1>2 DEF loadersRace, cancel, vars, loading, merging
  <2>2. UNCHANGED <<maxMb, remaining, toFetch, loader, place>>
    BY <2>1 DEF loading
  <2>3. LoaderInv' /\ QueueInv' /\ WorkerInv' /\ CounterInv' /\ DoneInv'
    BY <2>1, <2>2, LoaderSame, QueueSame, WorkerSame, CounterSame, DoneSame DEF HandlerInv
  <2>4. FileInv'
    <3>1. \A f \in File : UNCHANGED OnItsWay(f)
      BY <2>2 DEF OnItsWay
    <3>2. QED
      BY <2>1, <2>2, <3>1 DEF HandlerInv, FileInv
  <2>5. FlagType'
    BY <2>1 DEF HandlerInv, FlagType
  <2>6. CauseInv'
    BY <2>1, <2>2 DEF HandlerInv, FlagType, CauseInv
  <2>7. QED
    BY <2>3, <2>4, <2>5, <2>6 DEF HandlerInv
<1>3. QED
  BY <1>1, <1>2

-----------------------------------------------------------------------------
(* The execution of an order keeps its invariant (Consolidate and its        *)
(* goroutines).                                                              *)
THEOREM HandlerCorrect == Spec => []HandlerInv
<1>1. Init => HandlerInv
  BY InitHandler
<1>2. HandlerInv /\ [Next]_vars => HandlerInv'
  BY LoaderSteps, WorkerSteps, MainSteps, OtherSteps DEF Next
<1>3. QED
  BY <1>1, <1>2, PTL DEF Spec

(* Every variable of the execution of an order keeps its type; the quota     *)
(* stays in the range of the integers, even when it overflows.               *)
THEOREM HandlerTypes == Spec => []TypeOK
<1>1. HandlerInv => TypeOK
  <2> SUFFICES ASSUME HandlerInv PROVE TypeOK
    OBVIOUS
  <2>1. removing \subseteq Remote /\ counter \in [File -> Nat]
    BY DEF HandlerInv, CounterInv
  <2>2. /\ maxMb \in MaxMb /\ remaining \in -IntLimit..(IntLimit - 1) /\ toFetch \subseteq Remote
        /\ loader \in [Loader -> Loading] /\ place \in [File -> {"workspace", "given"}]
    BY DEF HandlerInv, LoaderInv
  <2>3. records.queue \in Seq(Record) /\ records.closed \in BOOLEAN /\ pushed \in 0..NbRecords
    BY DEF HandlerInv, QueueInv
  <2>4. worker \in [Worker -> Working] /\ cogs \in [Record -> File \cup {None, Merged}]
    BY DEF HandlerInv, WorkerInv
  <2>5. onDisk \subseteq Remote
    BY DEF HandlerInv, FileInv
  <2>6. FlagType
    BY DEF HandlerInv
  <2>7. QED
    BY <2>1, <2>2, <2>3, <2>4, <2>5, <2>6 DEF TypeOK, FlagType, Loading, Working
<1>2. QED
  BY <1>1, HandlerCorrect, PTL

(* A source is counted as long as a record needs it. *)
LEMMA NeededIsKept == HandlerInv => SourcesAreKept
<1> SUFFICES ASSUME HandlerInv, main \in {"pushing", "uploading", "uploaded"},
                    NEW r \in Record, cogs[r] # Merged,
                    NEW f \in ToSet(Datasets[r]), place[f] = "workspace"
             PROVE  f \in onDisk \ removing
  BY DEF SourcesAreKept
<1>1. f \in File /\ Cardinality(Left(f)) # 0
  BY StillCounted
<1>2. counter[f] # 0 /\ f \notin removing
  BY <1>1 DEF HandlerInv, CounterInv
<1>3. f \in onDisk
  BY <1>1, <1>2 DEF HandlerInv, FileInv
<1>4. QED
  BY <1>2, <1>3

(* A source that was downloaded is removed only when no record needs it any  *)
(* more, whatever the order in which the workers merge (tmpFileCounter).     *)
THEOREM NeededSourcesAreKept == Spec => []SourcesAreKept
<1>1. QED
  BY HandlerCorrect, NeededIsKept, PTL

(* When there are workers, the records are all made into COGs before the     *)
(* container is uploaded.                                                    *)
LEMMA AllMade ==
    ASSUME HandlerInv, Worker # {}, main = "uploading", NEW r \in Record
    PROVE  cogs[r] # None
<1>1. ~failed /\ records.closed /\ \A w \in Worker : worker[w].pc = "ended"
  BY DEF HandlerInv, DoneInv, Ended
<1>2. records.queue = <<>> /\ pushed = NbRecords
  BY <1>1 DEF HandlerInv, DoneInv, QueueInv
<1>3. r \in 1..Taken
  BY <1>2, HandlerAssumption DEF Taken, Record
<1>4. \A w \in Worker : ~Busy(w)
  BY <1>1 DEF Busy
<1>5. QED
  BY <1>1, <1>3, <1>4 DEF HandlerInv, DoneInv

(* The upload opens every record, but the sources that were not downloaded. *)
LEMMA UploadOpens ==
    ASSUME HandlerInv, Worker # {}, main = "uploading", NEW r \in Record, ~Openable(r)
    PROVE  CogNotDownloaded
<1>1. cogs[r] \in File /\ cogs[r] \in Remote /\ cogs[r] \notin onDisk /\ cogs[r] # Merged
  <2>1. cogs[r] \in File \cup {None, Merged} /\ cogs[r] # None
    BY AllMade DEF HandlerInv, WorkerInv
  <2>2. QED
    BY <2>1 DEF Openable
<1>2. usableCOG(r) /\ cogs[r] = Datasets[r][1]
  BY <1>1 DEF HandlerInv, WorkerInv
<1>3. Datasets[r][1] \in ToSet(Datasets[r])
  <2>1. 1 \in DOMAIN Datasets[r]
    BY <1>2, HandlerAssumption DEF usableCOG
  <2>2. QED
    BY <2>1 DEF ToSet
<1>4. place[Datasets[r][1]] # "workspace"
  BY <1>1, <1>2, <1>3, NeededIsKept DEF SourcesAreKept
<1>5. place[Datasets[r][1]] = "given"
  BY <1>1, <1>2, <1>4 DEF HandlerInv, LoaderInv
<1>6. QED
  BY <1>1, <1>2, <1>5 DEF CogNotDownloaded

(* What Consolidate returns has a cause: an error is a fault, a cancellation *)
(* or a COG that the quota kept out of the workspace; a task that says it is *)
(* cancelled leaves no container if no call fails; one that succeeded leaves *)
(* its container or was cancelled after the last check (Consolidate).  It    *)
(* needs a worker (--workers): with none, the records are not made and the   *)
(* upload fails.                                                             *)
THEOREM OutcomesAreJustified ==
    ASSUME Worker # {}
    PROVE  Spec => []OutcomeIsJustified
<1>1. Init => OutcomeIsJustified
  BY DEF Init, OutcomeIsJustified, None
<1>2. ASSUME HandlerInv, HandlerInv', OutcomeIsJustified, [Next]_vars
      PROVE  OutcomeIsJustified'
  <2> USE HandlerAssumption
  <2>1. faults \in 0..MaxFaults /\ faults' \in Nat /\ cancelled \in BOOLEAN /\ uploaded \in BOOLEAN
    BY <1>2 DEF HandlerInv, FlagType
  <2>2. /\ main \notin {"returning", "returned"} => outcome = None
        /\ main \in {"loading", "pushing", "uploading"} => ~uploaded
        /\ main = "uploaded" => uploaded
    BY <1>2 DEF HandlerInv, CauseInv
  <2>3. CASE outcome' = None
    BY <2>3 DEF OutcomeIsJustified, None
  <2>4. CASE UNCHANGED <<outcome, main>> /\ outcome' # None
    <3>1. main \in {"returning", "returned"}
      BY <2>2, <2>4
    <3>2. UNCHANGED <<place, uploaded>> /\ faults' >= faults /\ (cancelled => cancelled')
      <4>1. CASE \E l \in Loader : LoaderStep(l)
        BY <3>1, <4>1 DEF LoaderStep, loaderTakes, loaderFetches, loaderDrops, loaderFails, loaderSkips
      <4>2. CASE \E w \in Worker : WorkerStep(w)
        BY <2>1, <3>1, <4>2 DEF WorkerStep, workerTakes, workerSkips, workerStartsToMerge, workerMerges, workerFails,
                          workerEnds, Fault, loading
      <4>3. CASE MainStep
        BY <2>4, <3>1, <4>3 DEF MainStep, returnFromLoading, push, closeRecords, waitForWorkers, uploadFile,
                          returnFromUpload, deferredDelete
      <4>4. CASE (\E f \in File : remove(f)) \/ loadersRace \/ cancel \/ UNCHANGED vars
        BY <2>1, <4>4 DEF remove, loadersRace, cancel, vars, loading
      <4>5. QED
        BY <1>2, <4>1, <4>2, <4>3, <4>4 DEF Next
    <3>3. CogNotDownloaded => CogNotDownloaded'
      BY <3>2 DEF CogNotDownloaded, usableCOG
    <3>4. QED
      BY <1>2, <2>1, <2>4, <3>2, <3>3 DEF OutcomeIsJustified
  <2>5. CASE ~UNCHANGED <<outcome, main>> /\ outcome' # None
    <3>1. MainStep
      <4>1. CASE loadersRace
        BY <2>2, <2>5, <4>1 DEF loadersRace
      <4>2. CASE ~loadersRace
        BY <1>2, <2>5, <4>2 DEF Next, LoaderStep, loaderTakes, loaderFetches, loaderDrops, loaderFails, loaderSkips,
              WorkerStep, workerTakes, workerSkips, workerStartsToMerge, workerMerges, workerFails, workerEnds,
              remove, cancel, vars
      <4>3. QED
        BY <4>1, <4>2
    <3>2. UNCHANGED loading /\ UNCHANGED cancelled
      BY <3>1 DEF MainStep, returnFromLoading, push, closeRecords, waitForWorkers, uploadFile, returnFromUpload,
            deferredDelete
    <3>3. CogNotDownloaded => CogNotDownloaded'
      BY <3>2 DEF loading, CogNotDownloaded, usableCOG
    <3>4. CASE deferredDelete
      <4>1. /\ outcome' = outcome /\ main = "returning"
            /\ \/ uploaded' = (uploaded /\ ~cancelled) /\ faults' = faults
               \/ cancelled /\ faults' = faults + 1
        BY <3>4 DEF deferredDelete, StaysUploaded, Fault
      <4>2. /\ outcome = "error" => faults > 0 \/ cancelled \/ CogNotDownloaded
            /\ outcome = "cancelled" => cancelled
            /\ outcome = "success" => uploaded \/ cancelled
        BY <1>2 DEF OutcomeIsJustified
      <4>3. CASE cancelled /\ faults' = faults + 1
        BY <2>1, <3>2, <4>2, <4>3, <4>1 DEF OutcomeIsJustified
      <4>4. CASE uploaded' = (uploaded /\ ~cancelled) /\ faults' = faults
        BY <2>1, <3>2, <3>3, <4>1, <4>2, <4>4 DEF OutcomeIsJustified
      <4>5. QED
        BY <4>1, <4>3, <4>4
    <3>5. CASE returnFromLoading
      <4>1. \/ outcome' = "error" /\ \E l \in Loader : loader[l].pc = "failed"
            \/ outcome' = "cancelled" /\ cancelled
        BY <2>2, <2>5, <3>5 DEF returnFromLoading, Leave, isCancelled
      <4>2. ~uploaded' /\ faults' >= faults
        BY <2>1, <2>2, <3>5 DEF returnFromLoading, isCancelled, Fault
      <4>3. \A l \in Loader : loader[l].pc = "failed" => faults > 0
        BY <1>2 DEF HandlerInv, CauseInv
      <4>4. QED
        BY <2>1, <3>2, <4>1, <4>2, <4>3 DEF OutcomeIsJustified
    <3>6. CASE waitForWorkers
      <4>1. main = "pushing" /\ outcome = None
        BY <2>2, <3>6 DEF waitForWorkers
      <4>5. /\ main' = "returning"
            /\ (outcome' = "error" /\ failed) \/ (outcome' = "cancelled" /\ cancelled)
        <5>1. CASE failed /\ Return("error")
          BY <5>1 DEF Return
        <5>2. CASE ~(failed /\ Return("error"))
          <6>1. PICK seen \in BOOLEAN :
                  isCancelled(seen) /\ IF seen THEN Return("cancelled") ELSE main' = "uploading" /\ UNCHANGED outcome
            BY <3>6, <5>2 DEF waitForWorkers
          <6>2. seen
            BY <2>5, <4>1, <6>1
          <6>3. QED
            BY <6>1, <6>2 DEF Return, isCancelled
        <5>3. QED
          BY <5>1, <5>2
      <4>2. failed => faults > 0 \/ cancelled
        BY <1>2 DEF HandlerInv, CauseInv
      <4>4. faults' >= faults
        BY <2>1, <3>6 DEF waitForWorkers, isCancelled, Fault
      <4>3. QED
        BY <2>1, <3>2, <4>2, <4>4, <4>5 DEF OutcomeIsJustified
    <3>7. CASE uploadFile
      <4>1. outcome' = "error" /\ (faults' > 0 \/ \E r \in Record : ~Openable(r))
        BY <2>1, <2>2, <2>5, <3>7 DEF uploadFile, Return, Fault
      <4>2. main = "uploading"
        BY <3>7 DEF uploadFile
      <4>3. faults' > 0 \/ CogNotDownloaded'
        BY <1>2, <3>3, <4>1, <4>2, UploadOpens
      <4>4. QED
        BY <4>1, <4>3 DEF OutcomeIsJustified
    <3>8. CASE returnFromUpload
      <4>1. /\ outcome' = "success" \/ (outcome' = "cancelled" /\ cancelled)
            /\ main' = "returning" /\ uploaded'
        BY <2>2, <3>8 DEF returnFromUpload, Return, isCancelled
      <4>2. QED
        BY <3>2, <4>1 DEF OutcomeIsJustified
    <3>9. CASE push \/ closeRecords
      BY <2>5, <3>9 DEF push, closeRecords
    <3>10. QED
      BY <3>1, <3>4, <3>5, <3>6, <3>7, <3>8, <3>9 DEF MainStep
  <2>6. QED
    BY <2>3, <2>4, <2>5
<1>3. QED
  BY <1>1, <1>2, HandlerCorrect, PTL DEF Spec

=============================================================================
