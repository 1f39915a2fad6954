------------------------- MODULE ConsolidationOrders ------------------------
(* What a consolidation merges, in which containers, and what it replaces    *)
(* (internal/svc/consolidater.go, csldPrepareOrders and csldIndex).  Space   *)
(* is a line of points, a cell of the layout covers some of them.  The steps *)
(* of a job, its faults and its messages are those of ConsolidationJob: here *)
(* a step succeeds, or the job is given up and rolled back.                  *)
EXTENDS Integers, Sequences, FiniteSets, FiniteSetsExt, SequencesExt

CONSTANTS
    Point,      \* the points of space, integers
    Cell,       \* the cells of the grid of the layout
    Area,       \* Area[c]: the points of cell c
    Zone,       \* Zone[c]: the reference system of cell c
    Record,     \* the records, integers, in the order of their times
    Format,     \* the formats that ConfigConsolidation may ask for
    External,   \* the containers that users index, one dataset each
    Depths,     \* the possible values of max_records of the layout
    Job         \* the consolidation jobs

NoCell == "no cell"

ASSUME OrdersAssumption ==
    /\ Point \subseteq Int /\ IsFiniteSet(Point)
    /\ IsFiniteSet(Cell) /\ NoCell \notin Cell
    /\ Area \in [Cell -> SUBSET Point] /\ DOMAIN Zone = Cell
    /\ UNION {Area[c] : c \in Cell} = Point
    /\ Record \subseteq Int /\ IsFiniteSet(Record)
    /\ IsFiniteSet(External)
    /\ \A e \in External : e.rec \in Record /\ e.shape \subseteq Point
    /\ Depths \subseteq Nat \ {0}
    /\ "nobody" \notin Job

VARIABLES
    datasets,   \* the datasets in the database
    toIndex,    \* the external containers not indexed yet
    format,     \* the current consolidation parameters of the variable
    maxRecords, \* the max_records of the layout
    nextUri,    \* the next name of a container, never used before
    job         \* the jobs

vars == <<datasets, toIndex, format, maxRecords, nextUri, job>>

Free == [job |-> "nobody", flag |-> "NONE"]

(* Containers are numbered; a consolidated one is named after its cell.      *)
Dataset ==
    [uri : Nat, rec : Record, cell : Cell \cup {NoCell}, zone : Range(Zone) \cup {"user"},
     fmt : Format \cup {"user"}, shape : SUBSET Point, status : {"ACTIVE", "INACTIVE", "TODELETE"},
     lock : [job : Job, flag : {"INIT", "NEW", "TODELETE"}] \cup {Free}]

JobState ==
    {"NONE", "NEW", "CREATED", "CONSOLIDATIONINPROGRESS", "CONSOLIDATIONINDEXED",
     "CONSOLIDATIONEFFECTIVE", "DONE", "INITIALISATIONFAILED", "CONSOLIDATIONFAILED", "FAILED"}

(* The orders of a job: the containers to build, each with its records.      *)
OrderRecord == [rec : Record, from : SUBSET Nat, shape : SUBSET Point]

(* A container of an order has a record at least, and max_records at most. *)
OrdersFit == \A j \in Job : \A o \in job[j].orders : Len(o.records) \in 1..maxRecords

TypeOK ==
    /\ datasets \subseteq Dataset
    /\ toIndex \subseteq External
    /\ format \in Format
    /\ maxRecords \in Depths
    /\ nextUri \in Nat
    /\ \A j \in Job :
        /\ job[j].state \in JobState
        /\ job[j].fmt \in Format
        /\ job[j].listed \subseteq Nat
        /\ \A o \in job[j].orders : o.uri \in 0..(nextUri - 1) /\ o.cell \in Cell /\ o.records \in Seq(OrderRecord)
    /\ OrdersFit

Init ==
    /\ datasets = {}
    /\ toIndex = External
    /\ format \in Format
    /\ maxRecords \in Depths
    /\ nextUri = Cardinality(External)
    /\ job = [j \in Job |-> [state |-> "NONE", fmt |-> format, listed |-> {}, orders |-> {}]]

LockedBy(j, flag) == {d \in datasets : d.lock = [job |-> j, flag |-> flag]}

-----------------------------------------------------------------------------
(* The users *)

(* IndexExternalDatasets: the container, whose dataset is active at once. *)
indexExternal(e) ==
    /\ e \in toIndex
    /\ toIndex' = toIndex \ {e}
    /\ datasets' = datasets \cup
        {[uri |-> Cardinality(External) - Cardinality(toIndex), rec |-> e.rec, cell |-> NoCell, zone |-> "user",
          fmt |-> "user", shape |-> e.shape, status |-> "ACTIVE", lock |-> Free]}
    /\ UNCHANGED <<format, maxRecords, nextUri, job>>

configConsolidation(f) ==
    /\ format' = f
    /\ f # format
    /\ UNCHANGED <<datasets, toIndex, maxRecords, nextUri, job>>

-----------------------------------------------------------------------------
(* The creation of a job *)

(* ConsolidateFromRecords lists the datasets before the transaction... *)
consolidate(j, recs) ==
    /\ job[j].state = "NONE"
    /\ LET listed == {d.uri : d \in {e \in datasets : e.rec \in recs /\ e.status = "ACTIVE"}} IN
        /\ listed # {}
        /\ job' = [job EXCEPT ![j].listed = listed, ![j].state = "NEW"]
    /\ UNCHANGED <<datasets, toIndex, format, maxRecords, nextUri>>

(* Mutant: a dataset locked by another job can be locked again. *)
MutLockableAny(j, listed) == {d.uri : d \in listed} = job[j].listed

(* The keys of the table of locks: the datasets exist, nobody locked them. *)
Lockable(j, listed) ==
    /\ {d.uri : d \in listed} = job[j].listed
    /\ \A d \in listed : d.lock = Free

(* ...of csldInit, which locks them and keeps the parameters of the variable. *)
(* The request fails, and the job is never saved, if they cannot be locked.  *)
csldInit(j) ==
    /\ job[j].state = "NEW"
    /\ LET listed == {d \in datasets : d.uri \in job[j].listed}
       IN IF Lockable(j, listed)
          THEN /\ datasets' = (datasets \ listed) \cup {[d EXCEPT !.lock = [job |-> j, flag |-> "INIT"]] : d \in listed}
               /\ job' = [job EXCEPT ![j].state = "CREATED", ![j].fmt = format]
          ELSE /\ job' = [job EXCEPT ![j].state = "FAILED"]
               /\ UNCHANGED datasets
    /\ UNCHANGED <<toIndex, format, maxRecords, nextUri>>

-----------------------------------------------------------------------------
(* csldPrepareOrders: the operators *)

Box(S) == IF S = {} THEN {} ELSE Min(S)..Max(S)

(* FindDatasets: precise only between shapes of the same reference system.   *)
Covers(c, d) ==
    IF d.zone = Zone[c] THEN d.shape \cap Area[c] # {} ELSE Box(d.shape) \cap Box(Area[c]) # {}

(* A dataset is consolidated if it is not in a container of the cell, or if  *)
(* the parameters changed.                                                   *)
NeedsAlone(d, c, fmt) == d.cell # c \/ d.fmt # fmt

(* The datasets of the cell, if one at least needs it, with those of the     *)
(* containers of the cell that may be completed.                             *)
Candidates(j, c) ==
    LET found == {d \in LockedBy(j, "INIT") : d.status = "ACTIVE" /\ Covers(c, d)}
        complete == {d \in datasets : \E f \in found : ~NeedsAlone(f, c, job[j].fmt) /\ d.uri = f.uri}
    IN IF \E d \in found : NeedsAlone(d, c, job[j].fmt) THEN found \cup complete ELSE {}

(* The sort by time and record leaves the datasets of a record in any order. *)
Sortings(S) == {q \in SetToSeqs(S) : \A m, n \in 1..Len(q) : m < n => q[m].rec <= q[n].rec}

(* From start, where the datasets of the container of anchor that need       *)
(* nothing end.                                                              *)
Stop(q, needs, anchor, start) ==
    Min({n \in start..(Len(q) + 1) : n = Len(q) + 1 \/ q[n].uri \in needs \/ q[n].uri # q[anchor].uri})

(* csldPrepareOrdersExcludeFullContainers: a search is an anchor and a       *)
(* start; the datasets found are excluded when they fill their container,    *)
(* otherwise the search goes on one dataset further.                         *)
ExcludedFrom(q, needs, depth) ==
    LET excluded[search \in (1..(Len(q) + 1)) \X (1..(Len(q) + 2))] ==
            IF search[2] > Len(q) THEN {}
            ELSE LET stop == Stop(q, needs, search[1], search[2]) IN
                 IF stop - search[2] = depth
                 THEN (search[1]..(stop - 1)) \cup excluded[<<stop, stop>>]
                 ELSE excluded[<<stop, stop + 1>>]
    IN excluded[<<1, 1>>]

ExcludeFullContainers(q, needs, depth) ==
    {q[n] : n \in (1..Len(q)) \ ExcludedFrom(q, needs, depth)}

(* ComputeValidShapeFromCell *)
ValidShape(D, c) == (UNION {d.shape : d \in D}) \cap Area[c]

(* The n-th element of a set of integers. *)
Nth(S, n) == CHOOSE s \in S : Cardinality({t \in S : t <= s}) = n

(* One record per group of datasets, in the order of the records; a record   *)
(* that is not in the cell after all is skipped.                             *)
Records(D, c) ==
    LET of(r) == {d \in D : d.rec = r}
        inCell == {r \in Record : ValidShape(of(r), c) # {}}
    IN [n \in 1..Cardinality(inCell) |->
         LET r == Nth(inCell, n) IN
         [rec |-> r, from |-> {d.uri : d \in of(r)}, shape |-> ValidShape(of(r), c)]]

(* Mutant: a container is planned after the last record when it is full. *)
MutChunksOneMore(records, depth) ==
    IF records = <<>> THEN {}
    ELSE {SubSeq(records, i * depth + 1, Min({Len(records), (i + 1) * depth})) :
            i \in 0..(Len(records) \div depth)}

(* Mutant: the last container is dropped when it is not full. *)
MutChunksFull(records, depth) ==
    {SubSeq(records, i * depth + 1, (i + 1) * depth) : i \in 0..((Len(records) \div depth) - 1)}

(* The records are split into containers of at most depth records. *)
Chunks(records, depth) ==
    IF records = <<>> THEN {}
    ELSE {SubSeq(records, i * depth + 1, Min({Len(records), (i + 1) * depth})) :
            i \in 0..((Len(records) - 1) \div depth)}

Sources(records) == UNION {records[n].from : n \in 1..Len(records)}

(* Mutant: all the datasets that were examined are locked. *)
MutReplacedAll(j, plan) == UNION {{d.uri : d \in Candidates(j, c)} : c \in Cell}

(* The datasets of the records kept in one cell or another. *)
Replaced(j, plan) == UNION {Sources(plan[c]) : c \in Cell}

-----------------------------------------------------------------------------
(* csldPrepareOrders: for each cell, what is consolidated, whichever way the *)
(* datasets were sorted; then the locks are exchanged.                       *)
csldPrepareOrders(j) ==
    /\ job[j].state = "CREATED"
    /\ \E sorted \in [Cell -> UNION {Sortings(Candidates(j, c)) : c \in Cell}] :
        /\ \A c \in Cell : sorted[c] \in Sortings(Candidates(j, c))
        /\ LET kept(c) ==
                LET needs == {d.uri : d \in {e \in Candidates(j, c) : NeedsAlone(e, c, job[j].fmt)}}
                IN ExcludeFullContainers(sorted[c], needs, maxRecords)
               plan == [c \in Cell |-> Records(kept(c), c)]
               orders == UNION {{<<c, k>> : k \in Chunks(plan[c], maxRecords)} : c \in Cell}
               name == CHOOSE f \in [orders -> nextUri..(nextUri + Cardinality(orders) - 1)] : IsInjective(f)
               replaced == {d \in datasets : d.uri \in Replaced(j, plan)}
               released == {[d EXCEPT !.lock = IF d.lock = [job |-> j, flag |-> "INIT"] THEN Free ELSE @] :
                              d \in datasets}
           IN IF \A d \in replaced : d.lock.job \in {j, "nobody"}
              THEN /\ datasets' = {[d EXCEPT !.lock = IF d.uri \in Replaced(j, plan)
                                                      THEN [job |-> j, flag |-> "TODELETE"] ELSE @] : d \in released}
                   /\ job' = [job EXCEPT ![j].state = "CONSOLIDATIONINPROGRESS",
                                         ![j].orders = {[uri |-> name[o], cell |-> o[1], records |-> o[2]] : o \in orders}]
                   /\ nextUri' = nextUri + Cardinality(orders)
              ELSE /\ job' = [job EXCEPT ![j].state = "INITIALISATIONFAILED"]
                   /\ UNCHANGED <<datasets, nextUri>>
    /\ UNCHANGED <<toIndex, format, maxRecords>>

-----------------------------------------------------------------------------
(* The containers are built, then indexed one after the other *)

(* AddDataset refuses to add a dataset to a container that has an inactive   *)
(* one, and the datasets of a consolidated container are inactive.           *)
Accepted(records) == Len(records) <= 1

csldIndex(j, o) ==
    /\ job[j].state = "CONSOLIDATIONINPROGRESS"
    /\ o \in job[j].orders
    /\ IF Accepted(o.records)
       THEN /\ datasets' = datasets \cup
                {[uri |-> o.uri, rec |-> o.records[n].rec, cell |-> o.cell, zone |-> Zone[o.cell], fmt |-> job[j].fmt,
                  shape |-> o.records[n].shape, status |-> "INACTIVE", lock |-> [job |-> j, flag |-> "NEW"]] :
                   n \in 1..Len(o.records)}
            /\ job' = [job EXCEPT ![j].orders = @ \ {o}]
       ELSE /\ job' = [job EXCEPT ![j].state = "CONSOLIDATIONFAILED"]
            /\ UNCHANGED datasets
    /\ UNCHANGED <<toIndex, format, maxRecords, nextUri>>

indexed(j) ==
    /\ job[j].state = "CONSOLIDATIONINPROGRESS"
    /\ job[j].orders = {}
    /\ job' = [job EXCEPT ![j].state = "CONSOLIDATIONINDEXED"]
    /\ UNCHANGED <<datasets, toIndex, format, maxRecords, nextUri>>

(* In one transaction, the replaced datasets are hidden and the new served. *)
csldSwapDatasets(j) ==
    /\ job[j].state = "CONSOLIDATIONINDEXED"
    /\ datasets' = {IF d.lock = [job |-> j, flag |-> "NEW"] THEN [d EXCEPT !.status = "ACTIVE", !.lock = Free]
                    ELSE IF d.lock.job = j /\ d.status = "ACTIVE" THEN [d EXCEPT !.status = "TODELETE"]
                    ELSE d : d \in datasets}
    /\ job' = [job EXCEPT ![j].state = "CONSOLIDATIONEFFECTIVE"]
    /\ UNCHANGED <<toIndex, format, maxRecords, nextUri>>

(* csldDeleteDatasets, and the deletion job it creates. *)
deleteReplaced(j) ==
    /\ job[j].state = "CONSOLIDATIONEFFECTIVE"
    /\ datasets' = datasets \ LockedBy(j, "TODELETE")
    /\ job' = [job EXCEPT ![j].state = "DONE"]
    /\ UNCHANGED <<toIndex, format, maxRecords, nextUri>>

(* The job is cancelled, or has failed: csldRollback. *)
csldRollback(j) ==
    /\ job[j].state \in {"CREATED", "CONSOLIDATIONINPROGRESS", "CONSOLIDATIONINDEXED",
                         "INITIALISATIONFAILED", "CONSOLIDATIONFAILED"}
    /\ datasets' = {IF d.lock.job = j THEN [d EXCEPT !.lock = Free] ELSE d : d \in datasets \ LockedBy(j, "NEW")}
    /\ job' = [job EXCEPT ![j].state = "FAILED", ![j].orders = {}]
    /\ UNCHANGED <<toIndex, format, maxRecords, nextUri>>

Next ==
    \/ \E e \in External : indexExternal(e)
    \/ \E f \in Format : configConsolidation(f)
    \/ \E j \in Job :
        \/ \E recs \in SUBSET Record : consolidate(j, recs)
        \/ csldInit(j) \/ csldPrepareOrders(j)
        \/ \E o \in job[j].orders : csldIndex(j, o)
        \/ indexed(j) \/ csldSwapDatasets(j) \/ deleteReplaced(j) \/ csldRollback(j)

Spec == Init /\ [][Next]_vars

-----------------------------------------------------------------------------
Active == {d \in datasets : d.status = "ACTIVE"}

(* The points where record r can be read. *)
Served(r) == UNION {d.shape : d \in {e \in Active : e.rec = r}}

(* Whatever is consolidated, again and again, with which parameters, nothing *)
(* that could be read ceases to be: a container excluded from a cell is not  *)
(* replaced because of another cell (csldPrepareOrders).                     *)
NothingUnread == [][\A r \in Record : Served(r) \subseteq Served(r)']_vars

(* From the orders to the swap, what a job will delete is in the containers  *)
(* that it has indexed or must still build, point by point and record by     *)
(* record: the locks taken by csldPrepareOrders are those of the orders.     *)
Copied(j, r) ==
    UNION ({d.shape : d \in {e \in LockedBy(j, "NEW") : e.rec = r}} \cup
           UNION {{o.records[n].shape : n \in {m \in 1..Len(o.records) : o.records[m].rec = r}} : o \in job[j].orders})

DeletedIsCopied ==
    \A j \in Job : \A d \in LockedBy(j, "TODELETE") :
        job[j].state \in {"CONSOLIDATIONINPROGRESS", "CONSOLIDATIONINDEXED"} => d.shape \subseteq Copied(j, d.rec)

(* The datasets of an order stay in the catalogue, active and locked by the  *)
(* job, as long as the order may be executed.                                *)
OrdersHoldTheirSources ==
    \A j \in Job : \A o \in job[j].orders :
        Sources(o.records) \subseteq {d.uri : d \in LockedBy(j, "TODELETE") \cap Active}

(* docs/user-guide/consolidation.md:41, "max_records per file": containers   *)
(* of several records are consolidated too, none of them is refused.         *)
IndexingSucceeds == \A j \in Job : job[j].state # "CONSOLIDATIONFAILED"

=============================================================================
