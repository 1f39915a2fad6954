---------------------- MODULE ConsolidationOrdersProofs ---------------------
(* Proofs about ConsolidationOrders: what an order reads cannot be taken     *)
(* away, whichever datasets the jobs list, in whatever order they are sorted *)
(* and whatever the cells, and no container is planned beyond max_records.   *)
EXTENDS ConsolidationOrders, SequenceTheorems, FunctionTheorems, FiniteSetTheorems, WellFoundedInduction, TLAPS

(* The fields of the rows, whatever they hold; the catalogue is finite. *)
Rows ==
    /\ IsFiniteSet(datasets)
    /\ \A d \in datasets :
        d = [uri |-> d.uri, rec |-> d.rec, cell |-> d.cell, zone |-> d.zone, fmt |-> d.fmt,
             shape |-> d.shape, status |-> d.status, lock |-> d.lock]
    /\ job = [j \in Job |-> [state |-> job[j].state, fmt |-> job[j].fmt,
                             listed |-> job[j].listed, orders |-> job[j].orders]]
    /\ maxRecords \in Nat \ {0}

(* A job has orders from their preparation to the last of them. *)
OrdersWhen ==
    \A j \in Job : job[j].orders # {} =>
        job[j].state \in {"CONSOLIDATIONINPROGRESS", "CONSOLIDATIONFAILED"}

OrdersInv == Rows /\ OrdersWhen /\ OrdersFit /\ OrdersHoldTheirSources

-----------------------------------------------------------------------------
(* The operators of csldPrepareOrders *)

(* Min is one of its two arguments and not above the other. *)
LEMMA MinOfTwo ==
    ASSUME NEW a \in Nat, NEW b \in Nat
    PROVE  Min({a, b}) \in {a, b} /\ Min({a, b}) <= a /\ Min({a, b}) <= b
<1>1. \E x \in {a, b} : \A y \in {a, b} : x <= y
  OBVIOUS
<1>2. QED
  BY <1>1 DEF Min

(* A chunk has 1 to depth elements, all of them of the sequence it cuts. *)
LEMMA ChunksOf ==
    ASSUME NEW S, NEW records \in Seq(S), NEW depth \in Nat \ {0},
           NEW k \in Chunks(records, depth)
    PROVE  /\ Len(k) \in 1..depth
           /\ \A n \in 1..Len(k) : \E m \in 1..Len(records) : k[n] = records[m]
<1> DEFINE L == Len(records)
<1>1. records # <<>> /\ L \in Nat /\ L # 0
  BY DEF Chunks
<1>2. PICK i \in 0..((L - 1) \div depth) :
         k = SubSeq(records, i * depth + 1, Min({L, (i + 1) * depth}))
  BY <1>1 DEF Chunks
<1>3. i \in Nat /\ i * depth \in Nat /\ i * depth <= L - 1 /\ (i + 1) * depth = i * depth + depth
  BY <1>1, <1>2
<1> DEFINE from == i * depth
           to == Min({L, from + depth})
<1>4. from \in Nat /\ from <= L - 1
  BY <1>3
<1>5. to \in {L, from + depth} /\ to <= L /\ to <= from + depth
  <2> HIDE DEF from, L
  <2>1. QED
    BY <1>1, <1>4, MinOfTwo
<1>6. k = SubSeq(records, from + 1, to)
  BY <1>2, <1>3
<1> HIDE DEF from, to
<1>7. from + 1 \in 1..L /\ to \in (from + 1)..L /\ to - from \in 1..depth
  <2> HIDE DEF L
  <2>1. QED
    BY <1>1, <1>4, <1>5
<1>8. \A n \in (from + 1)..to : n \in 1..L /\ records[n] \in S
  BY <1>7
<1>9. /\ Len(k) = to - from
      /\ \A n \in 1..(to - from) : k[n] = records[from + n]
  <2>1. /\ Len(k) = IF from + 1 <= to THEN to - (from + 1) + 1 ELSE 0
        /\ \A n \in 1..(to - (from + 1) + 1) : k[n] = records[from + 1 + n - 1]
    BY <1>6, <1>7, <1>8, SubSeqProperties
  <2> HIDE DEF L
  <2>2. to - (from + 1) + 1 = to - from /\ from + 1 <= to /\ \A n \in 1..(to - from) : from + 1 + n - 1 = from + n
    BY <1>7, <1>4
  <2>3. QED
    BY <2>1, <2>2
<1>10. \A n \in 1..(to - from) : from + n \in 1..L
  <2> HIDE DEF L
  <2>1. QED
    BY <1>1, <1>4, <1>7
<1>11. QED
  BY <1>7, <1>9, <1>10 DEF L

(* A function on 1..n is a sequence of length n. *)
LEMMA FunctionIsSequence ==
    ASSUME NEW n \in Nat, NEW f, NEW T, f \in [1..n -> T]
    PROVE  f \in Seq(T) /\ Len(f) = n
  OBVIOUS

(* What is kept of a sorted cell was found there. *)
LEMMA KeptWereCandidates ==
    ASSUME NEW S, IsFiniteSet(S), NEW q \in Sortings(S), NEW needs, NEW depth
    PROVE  ExcludeFullContainers(q, needs, depth) \subseteq S
<1>1. q \in [1..Cardinality(S) -> S]
  BY DEF Sortings, SetToSeqs
<1>2. Cardinality(S) \in Nat /\ Len(q) = Cardinality(S)
  BY <1>1, FS_CardinalityType, FunctionIsSequence
<1>3. QED
  BY <1>1, <1>2 DEF ExcludeFullContainers

(* The records of a cell are a sequence, of datasets that were kept. *)
LEMMA RecordsOf ==
    ASSUME NEW D, NEW c \in Cell
    PROVE  /\ Records(D, c) \in Seq({Records(D, c)[n] : n \in 1..Len(Records(D, c))})
           /\ \A n \in 1..Len(Records(D, c)) : Records(D, c)[n].from \subseteq {d.uri : d \in D}
<1> DEFINE of(r) == {d \in D : d.rec = r}
           inCell == {r \in Record : ValidShape(of(r), c) # {}}
           order(r) == [rec |-> r, from |-> {d.uri : d \in of(r)}, shape |-> ValidShape(of(r), c)]
           key(n) == Nth(inCell, n)
           R == [n \in 1..Cardinality(inCell) |-> order(key(n))]
<1>1. Cardinality(inCell) \in Nat
  BY FS_Subset, FS_CardinalityType, OrdersAssumption
<1>2. Records(D, c) = R
  BY DEF Records
<1>3. R \in Seq({R[n] : n \in 1..Cardinality(inCell)}) /\ Len(R) = Cardinality(inCell)
  <2> DEFINE T == {R[n] : n \in 1..Cardinality(inCell)}
  <2> HIDE DEF key, order, inCell
  <2>1. R \in [1..Cardinality(inCell) -> T]
    OBVIOUS
  <2> HIDE DEF R, T
  <2>2. QED
    BY <1>1, <2>1, FunctionIsSequence DEF T
<1>4. \A n \in 1..Cardinality(inCell) : R[n].from \subseteq {d.uri : d \in D}
  <2> HIDE DEF key, inCell
  <2>1. QED
    OBVIOUS
<1> HIDE DEF R
<1>5. QED
  BY <1>2, <1>3, <1>4

(* The sources of a chunk are among those of the cell it is cut from. *)
LEMMA ChunkSources ==
    ASSUME NEW D, NEW c \in Cell, NEW depth \in Nat \ {0},
           NEW k \in Chunks(Records(D, c), depth)
    PROVE  /\ Len(k) \in 1..depth
           /\ Sources(k) \subseteq Sources(Records(D, c))
           /\ Sources(k) \subseteq {d.uri : d \in D}
<1> DEFINE R == Records(D, c)
<1>1. /\ Len(k) \in 1..depth
      /\ \A n \in 1..Len(k) : \E m \in 1..Len(R) : k[n] = R[m]
  <2> HIDE DEF R
  <2>1. R \in Seq({R[n] : n \in 1..Len(R)})
    BY RecordsOf DEF R
  <2>2. QED
    BY <2>1, ChunksOf DEF R
<1>2. Sources(k) \subseteq Sources(R)
  BY <1>1 DEF Sources
<1>3. Sources(R) \subseteq {d.uri : d \in D}
  <2>1. \A n \in 1..Len(R) : R[n].from \subseteq {d.uri : d \in D}
    BY RecordsOf
  <2> HIDE DEF R
  <2>2. QED
    BY <2>1 DEF Sources
<1>4. QED
  BY <1>1, <1>2, <1>3

-----------------------------------------------------------------------------
(* The invariant *)

LEMMA OrdersInit == Init => OrdersInv
<1> SUFFICES ASSUME Init PROVE OrdersInv
  OBVIOUS
<1>1. Rows
  BY OrdersAssumption, FS_EmptySet DEF Init, Rows
<1>2. \A j \in Job : job[j].orders = {}
  BY DEF Init
<1>3. QED
  BY <1>1, <1>2 DEF OrdersInv, OrdersWhen, OrdersFit, OrdersHoldTheirSources

(* The datasets that a job has locked to be deleted are those of its orders  *)
(* as long as they are there: no other step than the end of the job takes    *)
(* them.                                                                     *)
Keeps(j) ==
    \A d \in LockedBy(j, "TODELETE") \cap Active : d \in (LockedBy(j, "TODELETE") \cap Active)'

(* A step that leaves fewer orders, and keeps the datasets they read. *)
LEMMA FewerOrders ==
    ASSUME OrdersInv, maxRecords' = maxRecords,
           \A j \in Job : \/ job'[j].orders = {}
                          \/ /\ job'[j].orders \subseteq job[j].orders
                             /\ job'[j].state \in {job[j].state, "CONSOLIDATIONFAILED"}
                             /\ Keeps(j)
    PROVE  (OrdersWhen /\ OrdersFit /\ OrdersHoldTheirSources)'
<1>1. OrdersWhen'
  BY DEF OrdersInv, OrdersWhen
<1>2. OrdersFit'
  BY DEF OrdersInv, OrdersFit
<1>3. ASSUME NEW j \in Job, NEW o \in job'[j].orders
      PROVE  Sources(o.records) \subseteq {d.uri : d \in (LockedBy(j, "TODELETE") \cap Active)'}
  <2>1. o \in job[j].orders /\ Keeps(j)
    BY <1>3
  <2>2. Sources(o.records) \subseteq {d.uri : d \in LockedBy(j, "TODELETE") \cap Active}
    BY <2>1 DEF OrdersInv, OrdersHoldTheirSources
  <2>3. QED
    BY <2>1, <2>2 DEF Keeps
<1>4. OrdersHoldTheirSources'
  BY <1>3 DEF OrdersHoldTheirSources
<1>5. QED
  BY <1>1, <1>2, <1>4

(* The image of a finite set is finite. *)
LEMMA FiniteImage ==
    ASSUME NEW S, IsFiniteSet(S), NEW f, f = [x \in S |-> f[x]]
    PROVE  IsFiniteSet({f[x] : x \in S})
<1> DEFINE T == {f[x] : x \in S}
<1>1. f \in Surjection(S, T)
  BY DEF Surjection
<1>2. QED
  BY <1>1, FS_Surjection

(* The shape of the jobs, and of the datasets, apart. *)
JobRows == job = [j \in Job |-> [state |-> job[j].state, fmt |-> job[j].fmt,
                                 listed |-> job[j].listed, orders |-> job[j].orders]]

DatasetRows ==
    \A d \in datasets :
        d = [uri |-> d.uri, rec |-> d.rec, cell |-> d.cell, zone |-> d.zone, fmt |-> d.fmt,
             shape |-> d.shape, status |-> d.status, lock |-> d.lock]

LEMMA RowsParts == Rows <=> IsFiniteSet(datasets) /\ DatasetRows /\ JobRows /\ maxRecords \in Nat \ {0}
  BY DEF Rows, DatasetRows, JobRows

(* Two fields of a job change. *)
LEMMA TwoFields ==
    ASSUME JobRows, NEW i \in Job, NEW a, NEW b,
           \/ job' = [job EXCEPT ![i].listed = a, ![i].state = b]
           \/ job' = [job EXCEPT ![i].state = b, ![i].orders = a]
           \/ job' = [job EXCEPT ![i].state = b, ![i].fmt = a]
    PROVE  JobRows'
<1>1. DOMAIN job = Job
  BY DEF JobRows
<1>2. \A j \in Job : job[j] = [state |-> job[j].state, fmt |-> job[j].fmt,
                               listed |-> job[j].listed, orders |-> job[j].orders]
  BY DEF JobRows
<1>3. CASE job' = [job EXCEPT ![i].listed = a, ![i].state = b]
  <2>1. \A j \in Job : job'[j] = IF j = i THEN [state |-> b, fmt |-> job[i].fmt, listed |-> a, orders |-> job[i].orders]
                                 ELSE job[j]
    BY <1>1, <1>2, <1>3
  <2>2. job' = [j \in Job |-> job'[j]]
    BY <1>1, <1>3
  <2>3. \A j \in Job : job'[j] = [state |-> job'[j].state, fmt |-> job'[j].fmt,
                                  listed |-> job'[j].listed, orders |-> job'[j].orders]
    BY <1>2, <2>1
  <2>4. QED
    BY <2>2, <2>3 DEF JobRows
<1>4. CASE job' = [job EXCEPT ![i].state = b, ![i].orders = a]
  <2>1. \A j \in Job : job'[j] = IF j = i THEN [state |-> b, fmt |-> job[i].fmt, listed |-> job[i].listed, orders |-> a]
                                 ELSE job[j]
    BY <1>1, <1>2, <1>4
  <2>2. job' = [j \in Job |-> job'[j]]
    BY <1>1, <1>4
  <2>3. \A j \in Job : job'[j] = [state |-> job'[j].state, fmt |-> job'[j].fmt,
                                  listed |-> job'[j].listed, orders |-> job'[j].orders]
    BY <1>2, <2>1
  <2>4. QED
    BY <2>2, <2>3 DEF JobRows
<1>5. CASE job' = [job EXCEPT ![i].state = b, ![i].fmt = a]
  <2> DEFINE started == [job EXCEPT ![i].state = b]
  <2>0. started[i] = [state |-> b, fmt |-> job[i].fmt, listed |-> job[i].listed, orders |-> job[i].orders]
    BY <1>1, <1>2
  <2>1. \A j \in Job : job'[j] = IF j = i THEN [state |-> b, fmt |-> a, listed |-> job[i].listed, orders |-> job[i].orders]
                                 ELSE job[j]
    <3>1. DOMAIN started = Job /\ \A j \in Job \ {i} : started[j] = job[j]
      BY <1>1
    <3>2. job' = [started EXCEPT ![i].fmt = a]
      BY <1>5
    <3> HIDE DEF started
    <3>3. QED
      BY <2>0, <3>1, <3>2
  <2>2. job' = [j \in Job |-> job'[j]]
    BY <1>1, <1>5
  <2>3. \A j \in Job : job'[j] = [state |-> job'[j].state, fmt |-> job'[j].fmt,
                                  listed |-> job'[j].listed, orders |-> job'[j].orders]
    BY <1>2, <2>1
  <2>4. QED
    BY <2>2, <2>3 DEF JobRows
<1>6. QED
  BY <1>3, <1>4, <1>5

(* The users index containers and change the parameters. *)
LEMMA UserSteps ==
    ASSUME OrdersInv,
           (\E e \in External : indexExternal(e)) \/ (\E f \in Format : configConsolidation(f))
    PROVE  OrdersInv'
<1>1. job' = job /\ maxRecords' = maxRecords /\ datasets \subseteq datasets'
  BY DEF indexExternal, configConsolidation
<1>2. Rows'
  <2>1. CASE datasets' = datasets
    BY <1>1, <2>1 DEF OrdersInv, Rows
  <2>2. ASSUME NEW e \in External, indexExternal(e) PROVE Rows'
    <3>1. IsFiniteSet(datasets')
      BY <2>2, FS_AddElement DEF indexExternal, OrdersInv, Rows
    <3>2. DatasetRows'
      BY <2>2 DEF indexExternal, OrdersInv, Rows, DatasetRows
    <3>3. QED
      BY <1>1, <3>1, <3>2 DEF OrdersInv, Rows, DatasetRows
  <2>3. QED
    BY <2>1, <2>2 DEF configConsolidation
<1>3. \A j \in Job : Keeps(j)
  BY <1>1 DEF Keeps, LockedBy, Active
<1>4. QED
  BY <1>1, <1>2, <1>3, FewerOrders DEF OrdersInv

(* A request lists its datasets. *)
LEMMA ListStep ==
    ASSUME OrdersInv, NEW i \in Job, NEW recs \in SUBSET Record, consolidate(i, recs)
    PROVE  OrdersInv'
<1> DEFINE listed == {d.uri : d \in {e \in datasets : e.rec \in recs /\ e.status = "ACTIVE"}}
<1>1. /\ job' = [job EXCEPT ![i].listed = listed, ![i].state = "NEW"]
      /\ datasets' = datasets /\ maxRecords' = maxRecords /\ job[i].state = "NONE"
  BY DEF consolidate
<1> HIDE DEF listed
<1>2. \A j \in Job : job'[j].orders = job[j].orders /\ (j # i => job'[j].state = job[j].state)
  BY <1>1 DEF OrdersInv, Rows
<1>3. Rows'
  <2>1. JobRows'
    <3>1. JobRows
      BY DEF OrdersInv, Rows, JobRows
    <3>2. QED
      BY <1>1, <3>1, TwoFields
  <2>2. DatasetRows'
    BY <1>1 DEF OrdersInv, Rows, DatasetRows
  <2>3. QED
    BY <1>1, <2>1, <2>2 DEF OrdersInv, Rows, JobRows, DatasetRows
<1>4. job[i].orders = {}
  BY <1>1 DEF OrdersInv, OrdersWhen
<1>5. \A j \in Job : Keeps(j)
  BY <1>1 DEF Keeps, LockedBy, Active
<1>6. QED
  BY <1>1, <1>2, <1>3, <1>4, <1>5, FewerOrders DEF OrdersInv

(* A job is created: it locks datasets that no job has locked. *)
LEMMA CreationStep ==
    ASSUME OrdersInv, NEW i \in Job, csldInit(i)
    PROVE  OrdersInv'
<1> DEFINE listed == {d \in datasets : d.uri \in job[i].listed}
           locked == [d \in listed |-> [d EXCEPT !.lock = [job |-> i, flag |-> "INIT"]]]
<1>1. job[i].orders = {} /\ maxRecords' = maxRecords
  BY DEF OrdersInv, OrdersWhen, csldInit
<1>2. \A j \in Job : job'[j].orders = job[j].orders /\ (j # i => job'[j].state = job[j].state)
  BY DEF OrdersInv, Rows, csldInit
<1>3. JobRows'
  BY DEF OrdersInv, Rows, csldInit, JobRows
<1>4. \/ datasets' = datasets
      \/ /\ datasets' = (datasets \ listed) \cup {locked[d] : d \in listed}
         /\ \A d \in listed : d.lock = Free
  BY DEF csldInit, Lockable
<1>5. IsFiniteSet(datasets')
  <2>1. IsFiniteSet(datasets) /\ listed \subseteq datasets /\ locked = [d \in listed |-> locked[d]]
    BY DEF OrdersInv, Rows
  <2> HIDE DEF listed, locked
  <2>2. IsFiniteSet(listed) /\ IsFiniteSet(datasets \ listed)
    BY <2>1, FS_Subset, FS_Difference
  <2>3. IsFiniteSet({locked[d] : d \in listed})
    BY <2>1, <2>2, FiniteImage
  <2>4. IsFiniteSet((datasets \ listed) \cup {locked[d] : d \in listed})
    BY <2>2, <2>3, FS_Union
  <2>5. QED
    BY <1>4, <2>1, <2>4
<1>6. DatasetRows'
  BY <1>4 DEF OrdersInv, Rows, DatasetRows
<1>7. Rows'
  BY <1>1, <1>3, <1>5, <1>6 DEF OrdersInv, Rows, DatasetRows, JobRows
<1>8. \A j \in Job : Keeps(j)
  BY <1>4, OrdersAssumption DEF Keeps, LockedBy, Active, Free
<1>9. QED
  BY <1>1, <1>2, <1>7, <1>8, FewerOrders DEF OrdersInv

(* A container is indexed, or refused. *)
LEMMA IndexStep ==
    ASSUME OrdersInv, NEW i \in Job, NEW o \in job[i].orders, csldIndex(i, o)
    PROVE  OrdersInv'
<1> DEFINE row == [n \in 1..Len(o.records) |->
                     [uri |-> o.uri, rec |-> o.records[n].rec, cell |-> o.cell, zone |-> Zone[o.cell], fmt |-> job[i].fmt,
                      shape |-> o.records[n].shape, status |-> "INACTIVE", lock |-> [job |-> i, flag |-> "NEW"]]]
           rows == {row[n] : n \in 1..Len(o.records)}
<1>1. /\ datasets' = datasets \/ datasets' = datasets \cup rows
      /\ maxRecords' = maxRecords
  BY DEF csldIndex
<1>2. /\ \A j \in Job : j # i => job'[j] = job[j]
      /\ job'[i].orders \subseteq job[i].orders
      /\ job'[i].state \in {job[i].state, "CONSOLIDATIONFAILED"}
      /\ JobRows'
  BY DEF csldIndex, OrdersInv, Rows, JobRows
<1>3. IsFiniteSet(rows)
  <2>1. IsFiniteSet(1..Len(o.records))
    BY FS_Interval DEF OrdersInv, OrdersFit
  <2>2. QED
    BY <2>1, FiniteImage
<1>4. IsFiniteSet(datasets')
  <2>1. IsFiniteSet(datasets)
    BY DEF OrdersInv, Rows
  <2> HIDE DEF rows
  <2>2. IsFiniteSet(datasets \cup rows)
    BY <1>3, <2>1, FS_Union
  <2>3. QED
    BY <1>1, <2>1, <2>2
<1>5. DatasetRows'
  <2>1. \A d \in rows :
          d = [uri |-> d.uri, rec |-> d.rec, cell |-> d.cell, zone |-> d.zone, fmt |-> d.fmt,
               shape |-> d.shape, status |-> d.status, lock |-> d.lock]
    OBVIOUS
  <2> HIDE DEF rows
  <2>2. QED
    BY <1>1, <2>1 DEF OrdersInv, Rows, DatasetRows
<1>6. Rows'
  BY <1>1, <1>2, <1>4, <1>5 DEF OrdersInv, Rows, DatasetRows, JobRows
<1>7. \A j \in Job : Keeps(j)
  BY <1>1 DEF Keeps, LockedBy, Active
<1>8. QED
  BY <1>1, <1>2, <1>6, <1>7, FewerOrders DEF OrdersInv

(* The job has no order left: it is swapped, then ended. *)
LEMMA EndSteps ==
    ASSUME OrdersInv, NEW i \in Job, indexed(i) \/ csldSwapDatasets(i) \/ deleteReplaced(i)
    PROVE  OrdersInv'
<1> DEFINE swapped == [d \in datasets |->
                IF d.lock = [job |-> i, flag |-> "NEW"] THEN [d EXCEPT !.status = "ACTIVE", !.lock = Free]
                ELSE IF d.lock.job = i /\ d.status = "ACTIVE" THEN [d EXCEPT !.status = "TODELETE"]
                ELSE d]
<1>1. /\ \/ datasets' = datasets
         \/ datasets' = {swapped[d] : d \in datasets}
         \/ datasets' = datasets \ LockedBy(i, "TODELETE")
      /\ maxRecords' = maxRecords
  <2>1. CASE indexed(i)
    BY <2>1 DEF indexed
  <2>2. CASE csldSwapDatasets(i)
    <3>1. /\ datasets' = {swapped[d] : d \in datasets}
          /\ maxRecords' = maxRecords
      BY <2>2 DEF csldSwapDatasets
    <3>2. QED
      BY <3>1
  <2>3. CASE deleteReplaced(i)
    BY <2>3 DEF deleteReplaced
  <2>4. QED
    BY <2>1, <2>2, <2>3
<1>2. /\ \A j \in Job : j # i => job'[j] = job[j]
      /\ job[i].orders = {} /\ job'[i].orders = {}
      /\ JobRows'
  <2>1. /\ JobRows /\ job[i].orders = {}
        /\ \E s : job' = [job EXCEPT ![i].state = s]
    BY DEF indexed, csldSwapDatasets, deleteReplaced, OrdersInv, OrdersWhen, Rows, JobRows
  <2>2. QED
    BY <2>1 DEF JobRows
<1>3. IsFiniteSet(datasets')
  <2>1. IsFiniteSet(datasets) /\ swapped = [d \in datasets |-> swapped[d]]
    BY DEF OrdersInv, Rows
  <2> HIDE DEF swapped
  <2>2. IsFiniteSet({swapped[d] : d \in datasets})
    BY <2>1, FiniteImage
  <2>3. IsFiniteSet(datasets \ LockedBy(i, "TODELETE"))
    BY <2>1, FS_Difference
  <2>4. QED
    BY <1>1, <2>1, <2>2, <2>3
<1>4. DatasetRows'
  <2>1. CASE datasets' \subseteq datasets
    BY <2>1 DEF OrdersInv, Rows, DatasetRows
  <2>2. CASE datasets' = {swapped[d] : d \in datasets}
    <3>1. ASSUME NEW d \in datasets
          PROVE  swapped[d] = [uri |-> d.uri, rec |-> d.rec, cell |-> d.cell, zone |-> d.zone, fmt |-> d.fmt,
                               shape |-> d.shape, status |-> swapped[d].status, lock |-> swapped[d].lock]
      <4>1. d = [uri |-> d.uri, rec |-> d.rec, cell |-> d.cell, zone |-> d.zone, fmt |-> d.fmt,
                 shape |-> d.shape, status |-> d.status, lock |-> d.lock]
        BY DEF OrdersInv, Rows
      <4>2. QED
        BY <4>1
    <3> HIDE DEF swapped
    <3>2. QED
      BY <2>2, <3>1 DEF DatasetRows
  <2>3. QED
    BY <1>1, <2>1, <2>2
<1>5. Rows'
  BY <1>1, <1>2, <1>3, <1>4 DEF OrdersInv, Rows, DatasetRows, JobRows
<1>6. ASSUME NEW j \in Job, j # i PROVE Keeps(j)
  <2>1. \A d \in datasets : d.lock.job = j => swapped[d] = d /\ d \notin LockedBy(i, "TODELETE")
    BY <1>6 DEF LockedBy
  <2> HIDE DEF swapped
  <2>2. \A d \in datasets : d.lock.job = j => d \in datasets'
    BY <1>1, <2>1
  <2>3. QED
    BY <2>2 DEF Keeps, LockedBy, Active
<1>7. QED
  BY <1>1, <1>2, <1>5, <1>6, FewerOrders DEF OrdersInv

(* The job is rolled back: it has no order any more. *)
LEMMA RollbackStep ==
    ASSUME OrdersInv, NEW i \in Job, csldRollback(i)
    PROVE  OrdersInv'
<1> DEFINE left == datasets \ LockedBy(i, "NEW")
           freed == [d \in left |-> IF d.lock.job = i THEN [d EXCEPT !.lock = Free] ELSE d]
<1>1. datasets' = {freed[d] : d \in left} /\ maxRecords' = maxRecords
  BY DEF csldRollback
<1>2. /\ \A j \in Job : j # i => job'[j] = job[j]
      /\ job'[i].orders = {}
      /\ JobRows'
  <2>1. JobRows
    BY DEF OrdersInv, Rows, JobRows
  <2>2. job' = [job EXCEPT ![i].state = "FAILED", ![i].orders = {}]
    BY DEF csldRollback
  <2>3. JobRows'
    BY <2>1, <2>2, TwoFields
  <2>4. DOMAIN job = Job /\ DOMAIN job[i] = {"state", "fmt", "listed", "orders"}
    BY <2>1 DEF JobRows
  <2>5. job'[i].orders = {} /\ \A j \in Job : j # i => job'[j] = job[j]
    BY <2>2, <2>4
  <2>6. QED
    BY <2>3, <2>5
<1>3. IsFiniteSet(datasets')
  <2>1. IsFiniteSet(left) /\ freed = [d \in left |-> freed[d]]
    BY FS_Difference DEF OrdersInv, Rows
  <2> HIDE DEF left, freed
  <2>2. QED
    BY <1>1, <2>1, FiniteImage
<1>4. DatasetRows'
  BY <1>1 DEF OrdersInv, Rows, DatasetRows
<1>5. Rows'
  BY <1>1, <1>2, <1>3, <1>4 DEF OrdersInv, Rows, DatasetRows, JobRows
<1>6. \A j \in Job : j # i => Keeps(j)
  BY <1>1 DEF Keeps, LockedBy, Active
<1>7. QED
  BY <1>1, <1>2, <1>5, <1>6, FewerOrders DEF OrdersInv

-----------------------------------------------------------------------------
(* csldPrepareOrders *)

(* What is consolidated in a cell is locked by the job and active, or shares *)
(* its container with such a dataset.                                        *)
LEMMA CandidatesHeld ==
    ASSUME NEW i \in Job, NEW c \in Cell, NEW d \in Candidates(i, c)
    PROVE  d \in datasets /\ \E f \in LockedBy(i, "INIT") \cap Active : f.uri = d.uri
  BY DEF Candidates, LockedBy, Active

(* The orders of a cell, however its candidates were sorted. *)
LEMMA CellOrders ==
    ASSUME OrdersInv, NEW i \in Job, NEW c \in Cell, NEW q \in Sortings(Candidates(i, c)), NEW needs,
           NEW k \in Chunks(Records(ExcludeFullContainers(q, needs, maxRecords), c), maxRecords)
    PROVE  /\ Len(k) \in 1..maxRecords
           /\ Sources(k) \subseteq Sources(Records(ExcludeFullContainers(q, needs, maxRecords), c))
           /\ Sources(k) \subseteq {f.uri : f \in LockedBy(i, "INIT") \cap Active}
<1> DEFINE D == ExcludeFullContainers(q, needs, maxRecords)
<1>1. IsFiniteSet(Candidates(i, c))
  <2>1. Candidates(i, c) \subseteq datasets
    BY CandidatesHeld
  <2>2. QED
    BY <2>1, FS_Subset DEF OrdersInv, Rows
<1>2. D \subseteq Candidates(i, c)
  BY <1>1, KeptWereCandidates
<1>3. maxRecords \in Nat \ {0}
  BY DEF OrdersInv, Rows
<1> HIDE DEF D
<1>4. ASSUME NEW l \in Chunks(Records(D, c), maxRecords)
      PROVE  /\ Len(l) \in 1..maxRecords
             /\ Sources(l) \subseteq Sources(Records(D, c))
             /\ Sources(l) \subseteq {d.uri : d \in D}
  BY <1>3, ChunkSources
<1>5. {d.uri : d \in D} \subseteq {f.uri : f \in LockedBy(i, "INIT") \cap Active}
  <2>1. \A d \in D : \E f \in LockedBy(i, "INIT") \cap Active : f.uri = d.uri
    BY <1>2, CandidatesHeld
  <2>2. QED
    BY <2>1
<1>6. QED
  BY <1>4, <1>5 DEF D

(* A transaction that exchanges the locks of the submission for those of the *)
(* orders, of the datasets named, touches no dataset that another job has    *)
(* locked to delete it.                                                      *)
Exchanges(i, uris) ==
    /\ \A d \in datasets : d.uri \in uris => d.lock.job \in {i, "nobody"}
    /\ datasets' = {[d EXCEPT !.lock = IF d.uri \in uris THEN [job |-> i, flag |-> "TODELETE"]
                                       ELSE IF d.lock = [job |-> i, flag |-> "INIT"] THEN Free ELSE @] :
                      d \in datasets}

LEMMA ExchangedLocks ==
    ASSUME OrdersInv, NEW i \in Job, NEW uris, Exchanges(i, uris)
    PROVE  /\ IsFiniteSet(datasets') /\ DatasetRows'
           /\ \A j \in Job : j # i => Keeps(j)
           /\ \A f \in LockedBy(i, "INIT") \cap Active :
                f.uri \in uris => \E d \in (LockedBy(i, "TODELETE") \cap Active)' : d.uri = f.uri
<1> DEFINE changed == [d \in datasets |->
                [d EXCEPT !.lock = IF d.uri \in uris THEN [job |-> i, flag |-> "TODELETE"]
                                   ELSE IF d.lock = [job |-> i, flag |-> "INIT"] THEN Free ELSE @]]
<1>0. datasets' = {changed[d] : d \in datasets}
  BY DEF Exchanges
<1>1. IsFiniteSet(datasets')
  <2>1. IsFiniteSet(datasets) /\ changed = [d \in datasets |-> changed[d]]
    BY DEF OrdersInv, Rows
  <2> HIDE DEF changed
  <2>2. QED
    BY <1>0, <2>1, FiniteImage
<1>2. ASSUME NEW d \in datasets
      PROVE  changed[d] = [uri |-> d.uri, rec |-> d.rec, cell |-> d.cell, zone |-> d.zone, fmt |-> d.fmt,
                           shape |-> d.shape, status |-> d.status,
                           lock |-> IF d.uri \in uris THEN [job |-> i, flag |-> "TODELETE"]
                                    ELSE IF d.lock = [job |-> i, flag |-> "INIT"] THEN Free ELSE d.lock]
  <2>1. d = [uri |-> d.uri, rec |-> d.rec, cell |-> d.cell, zone |-> d.zone, fmt |-> d.fmt,
             shape |-> d.shape, status |-> d.status, lock |-> d.lock]
    BY DEF OrdersInv, Rows
  <2>2. QED
    BY <2>1
<1> HIDE DEF changed
<1>3. DatasetRows'
  <2>1. SUFFICES ASSUME NEW e \in datasets'
                 PROVE  e = [uri |-> e.uri, rec |-> e.rec, cell |-> e.cell, zone |-> e.zone, fmt |-> e.fmt,
                             shape |-> e.shape, status |-> e.status, lock |-> e.lock]
    BY DEF DatasetRows
  <2>2. PICK d \in datasets : e = changed[d]
    BY <1>0
  <2>3. PICK l : changed[d] = [uri |-> d.uri, rec |-> d.rec, cell |-> d.cell, zone |-> d.zone, fmt |-> d.fmt,
                               shape |-> d.shape, status |-> d.status, lock |-> l]
    BY <1>2
  <2>4. QED
    BY <2>2, <2>3
<1>4. ASSUME NEW j \in Job, j # i PROVE Keeps(j)
  <2>1. ASSUME NEW d \in datasets, d.lock.job = j PROVE changed[d] = d
    <3>1. d.uri \notin uris /\ d.lock # [job |-> i, flag |-> "INIT"]
      BY <1>4, <2>1, OrdersAssumption DEF Exchanges
    <3>2. d = [uri |-> d.uri, rec |-> d.rec, cell |-> d.cell, zone |-> d.zone, fmt |-> d.fmt,
               shape |-> d.shape, status |-> d.status, lock |-> d.lock]
      BY DEF OrdersInv, Rows
    <3>3. QED
      BY <1>2, <3>1, <3>2
  <2>2. datasets' = {changed[d] : d \in datasets}
    BY <1>0
  <2>3. QED
    BY <2>1, <2>2 DEF Keeps, LockedBy, Active
<1>5. ASSUME NEW f \in LockedBy(i, "INIT") \cap Active, f.uri \in uris
      PROVE  \E d \in (LockedBy(i, "TODELETE") \cap Active)' : d.uri = f.uri
  <2>1. f \in datasets /\ f.status = "ACTIVE"
    BY DEF LockedBy, Active
  <2>2. changed[f] \in datasets'
    BY <1>0, <2>1
  <2>3. changed[f] = [uri |-> f.uri, rec |-> f.rec, cell |-> f.cell, zone |-> f.zone, fmt |-> f.fmt,
                      shape |-> f.shape, status |-> "ACTIVE", lock |-> [job |-> i, flag |-> "TODELETE"]]
    BY <1>2, <1>5, <2>1
  <2>4. QED
    BY <2>2, <2>3 DEF LockedBy, Active
<1>6. QED
  BY <1>1, <1>3, <1>4, <1>5

(* The orders that csldPrepareOrders makes, and what it locks. *)
PlanOf(i, sorted) ==
    [c \in Cell |->
        Records(ExcludeFullContainers(sorted[c],
                    {d.uri : d \in {e \in Candidates(i, c) : NeedsAlone(e, c, job[i].fmt)}}, maxRecords), c)]

ChunksOfPlan(plan) == UNION {{<<c, k>> : k \in Chunks(plan[c], maxRecords)} : c \in Cell}

Names(orders) == CHOOSE f \in [orders -> nextUri..(nextUri + Cardinality(orders) - 1)] : IsInjective(f)

OrdersMade(name, orders) == {[uri |-> name[o], cell |-> o[1], records |-> o[2]] : o \in orders}

Prepared(i, plan) ==
    /\ Exchanges(i, Replaced(i, plan))
    /\ nextUri' = nextUri + Cardinality(ChunksOfPlan(plan))
    /\ job' = [job EXCEPT ![i].state = "CONSOLIDATIONINPROGRESS",
                          ![i].orders = OrdersMade(Names(ChunksOfPlan(plan)), ChunksOfPlan(plan))]

LEMMA PrepareOutcome ==
    ASSUME OrdersInv, NEW i \in Job, csldPrepareOrders(i)
    PROVE  \/ /\ job' = [job EXCEPT ![i].state = "INITIALISATIONFAILED"]
              /\ datasets' = datasets /\ nextUri' = nextUri
           \/ \E sorted :
                /\ \A c \in Cell : sorted[c] \in Sortings(Candidates(i, c))
                /\ Prepared(i, PlanOf(i, sorted))
<1> DEFINE kept(sorted, c) ==
            ExcludeFullContainers(sorted[c],
                {d.uri : d \in {e \in Candidates(i, c) : NeedsAlone(e, c, job[i].fmt)}}, maxRecords)
           plan(sorted) == [c \in Cell |-> Records(kept(sorted, c), c)]
           orders(sorted) == UNION {{<<c, k>> : k \in Chunks(plan(sorted)[c], maxRecords)} : c \in Cell}
           name(sorted) == CHOOSE f \in [orders(sorted) -> nextUri..(nextUri + Cardinality(orders(sorted)) - 1)] :
                               IsInjective(f)
           released == {[d EXCEPT !.lock = IF d.lock = [job |-> i, flag |-> "INIT"] THEN Free ELSE @] :
                          d \in datasets}
           done(sorted) ==
                /\ datasets' = {[d EXCEPT !.lock = IF d.uri \in Replaced(i, plan(sorted))
                                                   THEN [job |-> i, flag |-> "TODELETE"] ELSE @] : d \in released}
                /\ job' = [job EXCEPT ![i].state = "CONSOLIDATIONINPROGRESS",
                                      ![i].orders = {[uri |-> name(sorted)[o], cell |-> o[1], records |-> o[2]] :
                                                       o \in orders(sorted)}]
                /\ nextUri' = nextUri + Cardinality(orders(sorted))
<1>1. PICK sorted \in [Cell -> UNION {Sortings(Candidates(i, c)) : c \in Cell}] :
        /\ \A c \in Cell : sorted[c] \in Sortings(Candidates(i, c))
        /\ \/ /\ \A d \in {e \in datasets : e.uri \in Replaced(i, plan(sorted))} : d.lock.job \in {i, "nobody"}
              /\ done(sorted)
           \/ /\ job' = [job EXCEPT ![i].state = "INITIALISATIONFAILED"]
              /\ datasets' = datasets /\ nextUri' = nextUri
  BY DEF csldPrepareOrders
<1>2. ASSUME NEW uris
      PROVE  {[d EXCEPT !.lock = IF d.uri \in uris THEN [job |-> i, flag |-> "TODELETE"] ELSE @] : d \in released}
             = {[d EXCEPT !.lock = IF d.uri \in uris THEN [job |-> i, flag |-> "TODELETE"]
                                   ELSE IF d.lock = [job |-> i, flag |-> "INIT"] THEN Free ELSE @] : d \in datasets}
  <2> DEFINE release(d) == [d EXCEPT !.lock = IF d.lock = [job |-> i, flag |-> "INIT"] THEN Free ELSE @]
             take(d) == [d EXCEPT !.lock = IF d.uri \in uris THEN [job |-> i, flag |-> "TODELETE"] ELSE @]
             both(d) == [d EXCEPT !.lock = IF d.uri \in uris THEN [job |-> i, flag |-> "TODELETE"]
                                           ELSE IF d.lock = [job |-> i, flag |-> "INIT"] THEN Free ELSE @]
  <2>1. ASSUME NEW d \in datasets PROVE take(release(d)) = both(d)
    <3>1. d = [uri |-> d.uri, rec |-> d.rec, cell |-> d.cell, zone |-> d.zone, fmt |-> d.fmt,
               shape |-> d.shape, status |-> d.status, lock |-> d.lock]
      BY DEF OrdersInv, Rows
    <3> DEFINE free == IF d.lock = [job |-> i, flag |-> "INIT"] THEN Free ELSE d.lock
    <3>2. release(d) = [uri |-> d.uri, rec |-> d.rec, cell |-> d.cell, zone |-> d.zone, fmt |-> d.fmt,
                        shape |-> d.shape, status |-> d.status, lock |-> free]
      BY <3>1
    <3>3. both(d) = [uri |-> d.uri, rec |-> d.rec, cell |-> d.cell, zone |-> d.zone, fmt |-> d.fmt,
                     shape |-> d.shape, status |-> d.status,
                     lock |-> IF d.uri \in uris THEN [job |-> i, flag |-> "TODELETE"] ELSE free]
      BY <3>1
    <3> HIDE DEF free, release, both
    <3>4. QED
      BY <3>2, <3>3
  <2>2. {take(d) : d \in {release(e) : e \in datasets}} = {both(d) : d \in datasets}
    <3> HIDE DEF take, release, both
    <3>1. QED
      BY <2>1
  <2>3. QED
    BY <2>2
<1>3. ASSUME \A d \in {e \in datasets : e.uri \in Replaced(i, plan(sorted))} : d.lock.job \in {i, "nobody"},
             done(sorted)
      PROVE  Prepared(i, PlanOf(i, sorted))
  <2> DEFINE uris == Replaced(i, plan(sorted))
  <2>1. \A d \in datasets : d.uri \in uris => d.lock.job \in {i, "nobody"}
    BY <1>3
  <2>2. datasets' = {[d EXCEPT !.lock = IF d.uri \in uris THEN [job |-> i, flag |-> "TODELETE"]
                                        ELSE IF d.lock = [job |-> i, flag |-> "INIT"] THEN Free ELSE @] :
                       d \in datasets}
    BY <1>2, <1>3
  <2>3. Exchanges(i, uris)
    <3> HIDE DEF uris
    <3>1. QED
      BY <2>1, <2>2 DEF Exchanges
  <2>4. plan(sorted) = PlanOf(i, sorted) /\ orders(sorted) = ChunksOfPlan(PlanOf(i, sorted))
    BY DEF PlanOf, ChunksOfPlan
  <2>5. job' = [job EXCEPT ![i].state = "CONSOLIDATIONINPROGRESS",
                           ![i].orders = OrdersMade(name(sorted), orders(sorted))]
    BY <1>3 DEF OrdersMade
  <2>6. name(sorted) = Names(orders(sorted)) /\ nextUri' = nextUri + Cardinality(orders(sorted))
    BY <1>3 DEF Names
  <2> HIDE DEF plan, orders, name, done
  <2>7. QED
    BY <2>3, <2>4, <2>5, <2>6 DEF Prepared
<1>4. QED
  BY <1>1, <1>3

(* The orders are prepared, or the job fails at once. *)
LEMMA PrepareStep ==
    ASSUME OrdersInv, NEW i \in Job, csldPrepareOrders(i)
    PROVE  OrdersInv'
<1>1. maxRecords' = maxRecords /\ job[i].orders = {}
  BY DEF csldPrepareOrders, OrdersInv, OrdersWhen
<1>2. JobRows /\ maxRecords \in Nat \ {0}
  BY DEF OrdersInv, Rows, JobRows
<1>3. CASE /\ job' = [job EXCEPT ![i].state = "INITIALISATIONFAILED"]
           /\ datasets' = datasets
  <2>1. JobRows' /\ \A j \in Job : job'[j].orders = job[j].orders /\ (j # i => job'[j] = job[j])
    BY <1>2, <1>3 DEF JobRows
  <2>2. Rows'
    BY <1>1, <1>3, <2>1 DEF OrdersInv, Rows, JobRows
  <2>3. \A j \in Job : Keeps(j)
    BY <1>3 DEF Keeps, LockedBy, Active
  <2>4. QED
    BY <1>1, <2>1, <2>2, <2>3, FewerOrders DEF OrdersInv
<1>4. ASSUME NEW sorted, \A c \in Cell : sorted[c] \in Sortings(Candidates(i, c)),
             Prepared(i, PlanOf(i, sorted))
      PROVE  OrdersInv'
  <2> DEFINE plan == PlanOf(i, sorted)
  <2>1. ASSUME NEW p \in ChunksOfPlan(plan)
        PROVE  /\ Len(p[2]) \in 1..maxRecords
               /\ Sources(p[2]) \subseteq Replaced(i, plan)
               /\ Sources(p[2]) \subseteq {f.uri : f \in LockedBy(i, "INIT") \cap Active}
    <3>1. PICK c \in Cell : p[2] \in Chunks(plan[c], maxRecords)
      BY <2>1 DEF ChunksOfPlan
    <3> DEFINE needs == {d.uri : d \in {e \in Candidates(i, c) : NeedsAlone(e, c, job[i].fmt)}}
    <3>2. plan[c] = Records(ExcludeFullContainers(sorted[c], needs, maxRecords), c)
      BY DEF PlanOf
    <3> HIDE DEF needs, plan
    <3>3. sorted[c] \in Sortings(Candidates(i, c))
      BY <1>4
    <3>4. /\ Len(p[2]) \in 1..maxRecords
          /\ Sources(p[2]) \subseteq Sources(plan[c])
          /\ Sources(p[2]) \subseteq {f.uri : f \in LockedBy(i, "INIT") \cap Active}
      BY <3>1, <3>2, <3>3, CellOrders
    <3>5. Sources(plan[c]) \subseteq Replaced(i, plan)
      BY DEF Replaced
    <3>6. QED
      BY <3>4, <3>5
  <2> HIDE DEF plan
  <2>2. Exchanges(i, Replaced(i, plan))
    BY <1>4 DEF Prepared, plan
  <2> DEFINE made == OrdersMade(Names(ChunksOfPlan(plan)), ChunksOfPlan(plan))
  <2>4. \A o \in made : \E p \in ChunksOfPlan(plan) : o.records = p[2]
    BY DEF OrdersMade
  <2>5. job' = [job EXCEPT ![i].state = "CONSOLIDATIONINPROGRESS", ![i].orders = made]
    BY <1>4 DEF Prepared, plan
  <2> HIDE DEF made
  <2>6. JobRows'
    BY <1>2, <2>5, TwoFields
  <2>7. /\ job'[i].state = "CONSOLIDATIONINPROGRESS" /\ job'[i].orders = made
        /\ \A j \in Job : j # i => job'[j] = job[j]
    <3>1. DOMAIN job = Job /\ DOMAIN job[i] = {"state", "fmt", "listed", "orders"}
      BY <1>2 DEF JobRows
    <3>2. QED
      BY <2>5, <3>1
  <2>8. /\ IsFiniteSet(datasets') /\ DatasetRows'
        /\ \A j \in Job : j # i => Keeps(j)
        /\ \A f \in LockedBy(i, "INIT") \cap Active :
             f.uri \in Replaced(i, plan) => \E d \in (LockedBy(i, "TODELETE") \cap Active)' : d.uri = f.uri
    BY <2>2, ExchangedLocks
  <2>9. Rows'
    BY <1>1, <1>2, <2>6, <2>8 DEF Rows, DatasetRows, JobRows
  <2>10. OrdersWhen'
    BY <2>7 DEF OrdersInv, OrdersWhen
  <2>11. OrdersFit'
    BY <1>1, <2>1, <2>4, <2>7 DEF OrdersInv, OrdersFit
  <2>12. ASSUME NEW j \in Job, NEW o \in job'[j].orders
         PROVE  Sources(o.records) \subseteq {d.uri : d \in (LockedBy(j, "TODELETE") \cap Active)'}
    <3>1. CASE j = i
      <4>1. /\ Sources(o.records) \subseteq Replaced(i, plan)
            /\ Sources(o.records) \subseteq {f.uri : f \in LockedBy(i, "INIT") \cap Active}
        BY <2>1, <2>4, <2>7, <2>12, <3>1
      <4>2. QED
        BY <2>8, <3>1, <4>1
    <3>2. CASE j # i
      <4>1. o \in job[j].orders /\ Keeps(j)
        BY <2>7, <2>8, <2>12, <3>2
      <4>2. Sources(o.records) \subseteq {d.uri : d \in LockedBy(j, "TODELETE") \cap Active}
        BY <4>1 DEF OrdersInv, OrdersHoldTheirSources
      <4>3. QED
        BY <4>1, <4>2 DEF Keeps
    <3>3. QED
      BY <3>1, <3>2
  <2>13. OrdersHoldTheirSources'
    BY <2>12 DEF OrdersHoldTheirSources
  <2>14. QED
    BY <2>9, <2>10, <2>11, <2>13 DEF OrdersInv
<1>5. QED
  BY <1>3, <1>4, PrepareOutcome

-----------------------------------------------------------------------------
LEMMA OrdersStep == OrdersInv /\ [Next]_vars => OrdersInv'
<1> SUFFICES ASSUME OrdersInv, [Next]_vars PROVE OrdersInv'
  OBVIOUS
<1>1. CASE UNCHANGED vars
  BY <1>1 DEF vars, OrdersInv, Rows, OrdersWhen, OrdersFit, OrdersHoldTheirSources, LockedBy, Active
<1>2. CASE Next
  BY <1>2, UserSteps, ListStep, CreationStep, PrepareStep, IndexStep, EndSteps, RollbackStep DEF Next
<1>3. QED
  BY <1>1, <1>2

(* The datasets of an order stay in the catalogue, active and locked by the  *)
(* job, as long as the order may be executed: for any datasets, cells,       *)
(* formats, numbers of records and jobs (csldPrepareOrders, csldRollback).   *)
THEOREM SourcesAreHeld == Spec => []OrdersHoldTheirSources
<1>1. OrdersInv => OrdersHoldTheirSources
  BY DEF OrdersInv
<1>2. QED
  BY <1>1, OrdersInit, OrdersStep, PTL DEF Spec

(* A container is planned with a record at least and max_records at most:    *)
(* csldPrepareOrders cuts the records of a cell without an empty container   *)
(* at the end, when they fill the last one exactly.                          *)
THEOREM ContainersFit == Spec => []OrdersFit
<1>1. OrdersInv => OrdersFit
  BY DEF OrdersInv
<1>2. QED
  BY <1>1, OrdersInit, OrdersStep, PTL DEF Spec

-----------------------------------------------------------------------------
(* Integers: least elements, bounds and ranks *)

LEMMA LeastNatural ==
    ASSUME NEW T \in SUBSET Nat, T # {}
    PROVE  \E n \in T : \A m \in T : n <= m
<1> DEFINE less == {p \in Nat \X Nat : p[1] < p[2]}
<1>1. IsWellFoundedOn(less, Nat)
  BY NatLessThanWellFounded DEF OpToRel
<1>2. \A m \in Nat, n \in Nat : m < n => <<m, n>> \in less
  OBVIOUS
<1> HIDE DEF less
<1>3. PICK n \in T : \A m \in T : ~(<<m, n>> \in less)
  BY <1>1, WFMin
<1>4. \A m \in T : ~(m < n)
  BY <1>2, <1>3
<1>5. \A m \in T : n <= m
  BY <1>4
<1>6. QED
  BY <1>5

(* A finite set of integers has a least and a greatest element: otherwise    *)
(* take one of the smallest sets that have not, and remove an element.       *)
LEMMA FiniteBounds ==
    ASSUME NEW S \in SUBSET Int, IsFiniteSet(S), S # {}
    PROVE  \E a, b \in S : \A x \in S : a <= x /\ x <= b
<1> DEFINE Bounded(T) == \E a, b \in T : \A x \in T : a <= x /\ x <= b
           Bad == {T \in SUBSET S : T # {} /\ ~Bounded(T)}
           Sizes == {Cardinality(T) : T \in Bad}
<1>1. SUFFICES ASSUME Bad # {} PROVE FALSE
  OBVIOUS
<1>2. \A T \in SUBSET S : IsFiniteSet(T) /\ Cardinality(T) \in Nat
  BY FS_Subset, FS_CardinalityType
<1>3. PICK n \in Sizes : \A m \in Sizes : n <= m
  <2>1. Sizes \in SUBSET Nat /\ Sizes # {}
    BY <1>1, <1>2
  <2> HIDE DEF Sizes
  <2>2. QED
    BY <2>1, LeastNatural
<1>4. PICK T \in Bad : n = Cardinality(T)
  BY <1>3
<1>5. PICK x \in T : TRUE
  BY <1>4
<1> DEFINE U == T \ {x}
<1>6. T \in SUBSET S /\ IsFiniteSet(T) /\ Cardinality(T) \in Nat /\ U \in SUBSET S
  BY <1>2, <1>4
<1>7. Cardinality(U) = Cardinality(T) - 1
  <2> HIDE DEF Bad, Sizes
  <2>1. QED
    BY <1>5, <1>6, FS_RemoveElement
<1>8. U \notin Bad
  <2>1. ASSUME U \in Bad
        PROVE  Cardinality(T) <= Cardinality(U)
    BY <1>3, <1>4, <2>1
  <2> HIDE DEF Bad, Sizes, U
  <2>2. QED
    BY <1>6, <1>7, <2>1
<1>9. T \in SUBSET Int /\ ~Bounded(T)
  BY <1>4, <1>6
<1>10. CASE U = {}
  <2>1. T = {x}
    BY <1>5, <1>10
  <2>2. QED
    BY <1>9, <2>1
<1>11. CASE U # {}
  <2>1. Bounded(U)
    BY <1>6, <1>8, <1>11
  <2>2. PICK a, b \in U : \A y \in U : a <= y /\ y <= b
    BY <2>1
  <2>3. x \in Int /\ a \in Int /\ b \in Int /\ U \in SUBSET Int /\ a \in T /\ b \in T
    BY <1>5, <1>9, <2>2
  <2>4. \A y \in T : y = x \/ y \in U
    OBVIOUS
  <2> HIDE DEF U
  <2>5. PICK c \in {a, x} : c <= a /\ c <= x
    BY <2>3
  <2>6. PICK d \in {b, x} : b <= d /\ x <= d
    BY <2>3
  <2>7. c \in Int /\ d \in Int
    BY <2>3, <2>5, <2>6
  <2>8. \A y \in T : c <= y /\ y <= d
    <3>1. ASSUME NEW y \in U
          PROVE  c <= y /\ y <= d
      <4>1. y \in Int /\ a <= y /\ y <= b
        BY <2>2, <2>3, <3>1
      <4>2. c <= a /\ b <= d
        BY <2>5, <2>6
      <4>3. a \in Int /\ b \in Int /\ c \in Int /\ d \in Int
        BY <2>3, <2>7
      <4> HIDE DEF Bounded, Bad, Sizes
      <4>4. QED
        BY <4>1, <4>2, <4>3
    <3>2. c <= x /\ x <= d
      BY <2>5, <2>6
    <3>3. ASSUME NEW y \in T
          PROVE  c <= y /\ y <= d
      <4>1. CASE y = x
        BY <3>2, <4>1
      <4>2. CASE y \in U
        BY <3>1, <4>2
      <4>3. QED
        BY <2>4, <4>1, <4>2
    <3>4. QED
      BY <3>3
  <2>9. c \in T /\ d \in T
    BY <1>5, <2>3
  <2>10. QED
    BY <1>9, <2>8, <2>9
<1>12. QED
  BY <1>10, <1>11

(* The bounding box of a set of points has all of them. *)
LEMMA BoxHas ==
    ASSUME NEW S \in SUBSET Point, NEW p \in S
    PROVE  p \in Box(S)
<1>1. S \in SUBSET Int /\ IsFiniteSet(S) /\ S # {}
  BY OrdersAssumption, FS_Subset
<1>2. PICK a, b \in S : \A x \in S : a <= x /\ x <= b
  BY <1>1, FiniteBounds
<1>3. Min(S) \in S /\ \A x \in S : Min(S) <= x
  BY <1>2 DEF Min
<1>4. Max(S) \in S /\ \A x \in S : x <= Max(S)
  <2>1. \A x \in S : b >= x
    BY <1>1, <1>2
  <2>2. Max(S) \in S /\ \A x \in S : Max(S) >= x
    BY <2>1 DEF Max
  <2>3. QED
    BY <1>1, <2>2
<1>5. QED
  BY <1>1, <1>3, <1>4 DEF Box

(* The elements of a finite set of integers are its n-th ones. *)
LEMMA NthOf ==
    ASSUME NEW S \in SUBSET Int, IsFiniteSet(S)
    PROVE  /\ \A n \in 1..Cardinality(S) : Nth(S, n) \in S
           /\ \A s \in S : \E n \in 1..Cardinality(S) : Nth(S, n) = s
<1> DEFINE k == Cardinality(S)
           Upto(s) == {t \in S : t <= s}
           rank == [s \in S |-> Cardinality(Upto(s))]
<1>1. k \in Nat
  BY FS_CardinalityType
<1>2. ASSUME NEW s \in S
      PROVE  /\ Upto(s) \in SUBSET S /\ s \in Upto(s)
             /\ IsFiniteSet(Upto(s)) /\ Cardinality(Upto(s)) \in 1..k
  <2>1. Upto(s) \in SUBSET S /\ s \in Upto(s)
    OBVIOUS
  <2> HIDE DEF Upto, k
  <2>2. IsFiniteSet(Upto(s)) /\ Cardinality(Upto(s)) <= k
    BY <2>1, FS_Subset DEF k
  <2>3. Cardinality(Upto(s)) \in Nat /\ Cardinality(Upto(s)) # 0
    BY <2>1, <2>2, FS_CardinalityType, FS_EmptySet
  <2>4. QED
    BY <1>1, <2>1, <2>2, <2>3
<1>3. ASSUME NEW s \in S, NEW t \in S, s < t
      PROVE  rank[s] < rank[t]
  <2>1. Upto(s) \in SUBSET (Upto(t) \ {t})
    <3>1. ASSUME NEW r \in S, r <= s
          PROVE  r <= t /\ r # t
      BY <1>3, <3>1
    <3>2. QED
      BY <3>1
  <2>2. IsFiniteSet(Upto(t)) /\ t \in Upto(t) /\ Cardinality(Upto(t)) \in 1..k /\ Cardinality(Upto(s)) \in 1..k
    BY <1>2
  <2>3. rank[s] = Cardinality(Upto(s)) /\ rank[t] = Cardinality(Upto(t))
    OBVIOUS
  <2> HIDE DEF Upto, rank, k
  <2>4. IsFiniteSet(Upto(t) \ {t}) /\ Cardinality(Upto(t) \ {t}) = Cardinality(Upto(t)) - 1
    BY <2>2, FS_RemoveElement
  <2>5. Cardinality(Upto(s)) <= Cardinality(Upto(t)) - 1
    BY <2>1, <2>4, FS_Subset
  <2>6. QED
    BY <1>1, <2>2, <2>3, <2>5
<1>4. \A s, t \in S : rank[s] = rank[t] => s = t
  <2>1. ASSUME NEW s \in S, NEW t \in S, rank[s] = rank[t], s # t
        PROVE  FALSE
    <3>1. rank[s] \in 1..k /\ rank[t] \in 1..k
      BY <1>2
    <3> HIDE DEF rank, k
    <3>2. s < t \/ t < s
      BY <2>1
    <3>3. QED
      BY <1>1, <1>3, <2>1, <3>1, <3>2
  <2>2. QED
    BY <2>1
<1>5. rank \in Injection(S, 1..k)
  BY <1>2, <1>4 DEF Injection, IsInjective
<1>6. IsFiniteSet(1..k) /\ Cardinality(1..k) = k
  BY <1>1, FS_Interval
<1>7. rank \in Surjection(S, 1..k)
  <2> HIDE DEF rank, k
  <2>1. Cardinality(S) = Cardinality(1..k)
    BY <1>6 DEF k
  <2>2. QED
    BY <1>5, <1>6, <2>1, FS_Injection
<1>8. \A n \in 1..k : \E s \in S : rank[s] = n
  BY <1>7 DEF Surjection
<1>9. \A s \in S : rank[s] = Cardinality({t \in S : t <= s}) /\ rank[s] \in 1..k
  BY <1>2
<1> HIDE DEF rank, k
<1>10. ASSUME NEW n \in 1..k
       PROVE  Nth(S, n) \in S /\ rank[Nth(S, n)] = n
  <2>1. \E s \in S : Cardinality({t \in S : t <= s}) = n
    BY <1>8, <1>9
  <2>2. Nth(S, n) \in S /\ Cardinality({t \in S : t <= Nth(S, n)}) = n
    BY <2>1 DEF Nth
  <2>3. QED
    BY <1>9, <2>2
<1>11. ASSUME NEW s \in S
       PROVE  \E n \in 1..k : Nth(S, n) = s
  BY <1>4, <1>9, <1>10
<1>12. QED
  BY <1>10, <1>11 DEF k

-----------------------------------------------------------------------------
(* What is excluded from a cell needs nothing *)

(* A search stops after its start, or there, and not before the end of the   *)
(* datasets of its container that need nothing.                              *)
LEMMA StopIs ==
    ASSUME NEW q, Len(q) \in Nat, NEW needs, NEW anchor, NEW start \in 1..Len(q)
    PROVE  /\ Stop(q, needs, anchor, start) \in start..(Len(q) + 1)
           /\ \A n \in start..(Stop(q, needs, anchor, start) - 1) :
                n \in 1..Len(q) /\ q[n].uri \notin needs /\ q[n].uri = q[anchor].uri
<1> DEFINE N == Len(q)
           ends(n) == n = N + 1 \/ q[n].uri \in needs \/ q[n].uri # q[anchor].uri
           T == {n \in start..(N + 1) : ends(n)}
<1>1. N \in Nat /\ start \in 1..N /\ Stop(q, needs, anchor, start) = Min(T)
  BY DEF Stop
<1>2. T \in SUBSET Nat /\ T # {}
  <2>1. N + 1 \in T
    BY <1>1
  <2>2. \A n \in start..(N + 1) : n \in Nat
    BY <1>1
  <2>3. QED
    BY <2>1, <2>2
<1>3. \A n \in start..(N + 1) : n \in T <=> ends(n)
  OBVIOUS
<1>4. T \subseteq start..(N + 1)
  OBVIOUS
<1> HIDE DEF T
<1>5. \E n \in T : \A m \in T : n <= m
  BY <1>2, LeastNatural
<1>6. Min(T) \in T /\ \A m \in T : Min(T) <= m
  BY <1>5 DEF Min
<1>7. Min(T) \in start..(N + 1)
  BY <1>4, <1>6
<1> DEFINE stop == Min(T)
<1> HIDE DEF stop
<1>8. stop \in start..(N + 1) /\ \A m \in T : stop <= m
  BY <1>6, <1>7 DEF stop
<1>9. ASSUME NEW n \in start..(stop - 1)
      PROVE  n \in 1..N /\ q[n].uri \notin needs /\ q[n].uri = q[anchor].uri
  <2>1. n \in start..(N + 1) /\ n < stop /\ n \in 1..N /\ n # N + 1
    <3> HIDE DEF N, ends
    <3>1. QED
      BY <1>1, <1>8
  <2>2. n \notin T
    <3>1. n \in T => stop <= n
      BY <1>8
    <3> HIDE DEF N
    <3>2. QED
      BY <1>1, <1>8, <2>1, <3>1
  <2>3. ~ends(n)
    BY <1>3, <2>1, <2>2
  <2>4. QED
    BY <2>1, <2>3
<1>10. Stop(q, needs, anchor, start) = stop
  BY <1>1 DEF stop
<1>11. QED
  BY <1>8, <1>9, <1>10

Searches(q) == (1..(Len(q) + 1)) \X (1..(Len(q) + 2))

(* The body of the recursive definition of what is excluded. *)
Excludes(f, q, needs, depth, search) ==
    IF search[2] > Len(q) THEN {}
    ELSE LET stop == Stop(q, needs, search[1], search[2]) IN
         IF stop - search[2] = depth
         THEN (search[1]..(stop - 1)) \cup f[<<stop, stop>>]
         ELSE f[<<stop, stop + 1>>]

(* The searches that follow one start after it. *)
LEMMA NextSearches ==
    ASSUME NEW q, Len(q) \in Nat, NEW needs, NEW depth \in Nat \ {0}, NEW search \in Searches(q),
           ~(search[2] > Len(q)), NEW stop, stop = Stop(q, needs, search[1], search[2])
    PROVE  /\ search[1] \in 1..(Len(q) + 1) /\ search[2] \in 1..Len(q)
           /\ stop \in search[2]..(Len(q) + 1)
           /\ <<stop, stop + 1>> \in Searches(q)
           /\ stop - search[2] = depth => <<stop, stop>> \in Searches(q) /\ stop > search[2]
<1>1. search[1] \in 1..(Len(q) + 1) /\ search[2] \in 1..Len(q)
  BY DEF Searches
<1>2. stop \in search[2]..(Len(q) + 1)
  BY <1>1, StopIs
<1>3. stop \in 1..(Len(q) + 1) /\ stop + 1 \in 1..(Len(q) + 2) /\ stop \in 1..(Len(q) + 2)
  BY <1>1, <1>2
<1>4. stop - search[2] = depth => stop > search[2]
  BY <1>1, <1>2
<1>5. QED
  BY <1>1, <1>2, <1>3, <1>4 DEF Searches

(* The recursive definition is that of a function: it is built from the last *)
(* starts to the first ones.                                                 *)
LEMMA ExcludedExists ==
    ASSUME NEW q, Len(q) \in Nat, NEW needs, NEW depth \in Nat \ {0}
    PROVE  \E f : f = [search \in Searches(q) |-> Excludes(f, q, needs, depth, search)]
<1> DEFINE N == Len(q)
           S == Searches(q)
           From(k) == {search \in S : search[2] >= N + 2 - k}
           Correct(f, k) == f = [search \in S |-> f[search]] /\ \A search \in From(k) : f[search] = Excludes(f, q, needs, depth, search)
           Bad == {k \in Nat : \A f : ~Correct(f, k)}
<1>1. N \in Nat /\ \A search \in S : search[1] \in 1..(N + 1) /\ search[2] \in 1..(N + 2)
  BY DEF Searches
<1>2. Bad = {}
  <2>1. SUFFICES ASSUME Bad # {} PROVE FALSE
    OBVIOUS
  <2>2. PICK k \in Bad : \A m \in Bad : k <= m
    <3>1. Bad \in SUBSET Nat
      OBVIOUS
    <3> HIDE DEF Bad
    <3>2. QED
      BY <2>1, <3>1, LeastNatural
  <2>3. k \in Nat /\ \A f : ~Correct(f, k)
    BY <2>2
  <2>4. CASE k = 0
    <3> DEFINE f == [search \in S |-> {}]
    <3>1. \A search \in From(0) : search[2] > N
      <4>1. ASSUME NEW search \in From(0)
            PROVE  search[2] > N
        <5>1. search[2] \in 1..(N + 2) /\ search[2] >= N + 2 - 0
          BY <1>1
        <5> HIDE DEF N, S
        <5>2. QED
          BY <1>1, <5>1
      <4>2. QED
        BY <4>1
    <3>2. \A search \in From(0) : f[search] = Excludes(f, q, needs, depth, search)
      BY <3>1 DEF Excludes
    <3>3. Correct(f, 0)
      BY <3>2
    <3> HIDE DEF Correct, f
    <3>4. QED
      BY <2>3, <2>4, <3>3
  <2>5. CASE k # 0
    <3>1. k - 1 \in Nat /\ k - 1 \notin Bad
      <4>1. k - 1 \in Nat
        BY <2>3, <2>5
      <4>2. k - 1 \in Bad => k <= k - 1
        BY <2>2
      <4> HIDE DEF Bad
      <4>3. QED
        BY <2>3, <4>1, <4>2
    <3>2. PICK g : Correct(g, k - 1)
      BY <3>1
    <3> DEFINE f == [search \in S |-> IF search[2] >= N + 2 - (k - 1) THEN g[search]
                                      ELSE Excludes(g, q, needs, depth, search)]
    <3>3. ASSUME NEW search \in From(k)
          PROVE  f[search] = Excludes(g, q, needs, depth, search)
      <4>1. CASE search[2] >= N + 2 - (k - 1)
        <5>1. search \in From(k - 1)
          BY <4>1
        <5>2. QED
          BY <3>2, <4>1, <5>1
      <4>2. CASE ~(search[2] >= N + 2 - (k - 1))
        BY <4>2
      <4>3. QED
        BY <4>1, <4>2
    <3>4. ASSUME NEW search \in From(k)
          PROVE  Excludes(g, q, needs, depth, search) = Excludes(f, q, needs, depth, search)
      <4>1. CASE search[2] > N
        BY <4>1 DEF Excludes
      <4>2. CASE ~(search[2] > N)
        <5> DEFINE stop == Stop(q, needs, search[1], search[2])
        <5>1. /\ search[2] \in 1..N /\ stop \in search[2]..(N + 1)
              /\ <<stop, stop + 1>> \in S
              /\ stop - search[2] = depth => <<stop, stop>> \in S /\ stop > search[2]
          <6> HIDE DEF stop
          <6>1. QED
            BY <4>2, NextSearches DEF stop
        <5>2. search[2] >= N + 2 - k
          OBVIOUS
        <5>3. /\ stop + 1 >= N + 2 - (k - 1)
              /\ stop > search[2] => stop >= N + 2 - (k - 1)
          <6> HIDE DEF N, S, stop
          <6>1. QED
            BY <1>1, <2>3, <5>1, <5>2
        <5>4. \A s \in S : s[2] >= N + 2 - (k - 1) => f[s] = g[s]
          OBVIOUS
        <5> HIDE DEF f, stop
        <5>5. f[<<stop, stop + 1>>] = g[<<stop, stop + 1>>]
          BY <5>1, <5>3, <5>4
        <5>6. stop - search[2] = depth => f[<<stop, stop>>] = g[<<stop, stop>>]
          BY <5>1, <5>3, <5>4
        <5>7. QED
          BY <5>5, <5>6 DEF Excludes, stop
      <4>3. QED
        BY <4>1, <4>2
    <3>5. f = [search \in S |-> f[search]]
      OBVIOUS
    <3> HIDE DEF f, S
    <3>6. Correct(f, k)
      BY <3>3, <3>4, <3>5
    <3> HIDE DEF Correct
    <3>7. QED
      BY <2>3, <3>6
  <2>6. QED
    BY <2>4, <2>5
<1>3. PICK f : Correct(f, N + 2)
  <2>1. N + 2 \in Nat
    BY <1>1
  <2>2. \A k \in Nat : \E f : Correct(f, k)
    <3> HIDE DEF Correct
    <3>1. QED
      BY <1>2
  <2> HIDE DEF Correct, N
  <2>3. QED
    BY <2>1, <2>2
<1>4. \A search \in S : search \in From(N + 2)
  <2>1. ASSUME NEW k \in Nat, k = N + 2, NEW search \in S
        PROVE  search \in From(k)
    <3>1. search[2] \in 1..(N + 2)
      BY <1>1
    <3>2. search[2] >= N + 2 - k
      <4> HIDE DEF N, S
      <4>1. QED
        BY <1>1, <2>1, <3>1
    <3> HIDE DEF N, S
    <3>3. QED
      BY <3>2
  <2>2. N + 2 \in Nat
    BY <1>1
  <2> HIDE DEF From, N, S
  <2>3. QED
    BY <2>1, <2>2
<1>5. f = [search \in S |-> f[search]] /\ \A search \in S : f[search] = Excludes(f, q, needs, depth, search)
  BY <1>3, <1>4
<1> HIDE DEF From, Correct, Bad
<1>6. QED
  BY <1>5

(* The function of ExcludedFrom. *)
Searched(f, q, needs, depth) ==
    /\ f = [search \in Searches(q) |-> Excludes(f, q, needs, depth, search)]
    /\ ExcludedFrom(q, needs, depth) = f[<<1, 1>>]

LEMMA ExcludedIs ==
    ASSUME NEW q, Len(q) \in Nat, NEW needs, NEW depth \in Nat \ {0}
    PROVE  \E f : Searched(f, q, needs, depth)
<1> DEFINE f == CHOOSE g : g = [search \in Searches(q) |-> Excludes(g, q, needs, depth, search)]
<1>1. f = [search \in Searches(q) |-> Excludes(f, q, needs, depth, search)]
  BY ExcludedExists
<1>2. ExcludedFrom(q, needs, depth) = f[<<1, 1>>]
  BY DEF ExcludedFrom, Searches, Excludes
<1> HIDE DEF f
<1>3. Searched(f, q, needs, depth)
  BY <1>1, <1>2 DEF Searched
<1>4. QED
  BY <1>3

(* csldPrepareOrdersExcludeFullContainers: what must be consolidated is      *)
(* never excluded.  A search starts at its anchor or just after it.          *)
LEMMA NeedsAreKept ==
    ASSUME NEW q, Len(q) \in Nat, NEW needs, NEW depth \in Nat \ {0},
           NEW n \in 1..Len(q), q[n].uri \in needs
    PROVE  n \notin ExcludedFrom(q, needs, depth)
<1>0. PICK f : Searched(f, q, needs, depth)
  BY ExcludedIs
<1>1. /\ f = [search \in Searches(q) |-> Excludes(f, q, needs, depth, search)]
      /\ ExcludedFrom(q, needs, depth) = f[<<1, 1>>]
  BY <1>0 DEF Searched
<1> DEFINE N == Len(q)
           S == Searches(q)
           Fails(search) == search[2] \in {search[1], search[1] + 1} /\ n \in f[search]
           Bad == {k \in Nat : \E search \in S : search[2] = N + 2 - k /\ Fails(search)}
<1>2. N \in Nat /\ \A search \in S : search[1] \in 1..(N + 1) /\ search[2] \in 1..(N + 2)
  BY DEF Searches
<1>3. Bad = {}
  <2>1. SUFFICES ASSUME Bad # {} PROVE FALSE
    OBVIOUS
  <2>2. PICK k \in Bad : \A m \in Bad : k <= m
    <3>1. Bad \in SUBSET Nat
      OBVIOUS
    <3> HIDE DEF Bad
    <3>2. QED
      BY <2>1, <3>1, LeastNatural
  <2>3. PICK search \in S : search[2] = N + 2 - k /\ Fails(search) /\ k \in Nat
    BY <2>2
  <2>4. f[search] = Excludes(f, q, needs, depth, search)
    BY <1>1, <2>3
  <2>5. ~(search[2] > N)
    BY <2>3, <2>4 DEF Excludes
  <2> DEFINE stop == Stop(q, needs, search[1], search[2])
  <2>6. /\ search[1] \in 1..(N + 1) /\ search[2] \in 1..N
        /\ stop \in search[2]..(N + 1)
        /\ <<stop, stop + 1>> \in S
        /\ stop - search[2] = depth => <<stop, stop>> \in S /\ stop > search[2]
    <3> HIDE DEF stop
    <3>1. QED
      BY <2>5, NextSearches DEF stop
  <2>7. \A m \in search[2]..(stop - 1) : q[m].uri \notin needs /\ q[m].uri = q[search[1]].uri
    BY <2>6, StopIs
  <2>8. ASSUME NEW s \in S, s[2] > search[2], s[2] \in {s[1], s[1] + 1}
        PROVE  n \notin f[s]
    <3> DEFINE m == N + 2 - s[2]
    <3>1. m \in Nat /\ m < k /\ s[2] = N + 2 - m
      <4>1. s[2] \in 1..(N + 2)
        BY <1>2
      <4>2. PICK a, b : a = s[2] /\ b = search[2]
        OBVIOUS
      <4>3. b = N + 2 - k /\ k \in Nat /\ a \in 1..(N + 2) /\ a > b /\ N \in Nat
        BY <1>2, <2>3, <2>8, <4>1, <4>2
      <4> HIDE DEF N, S
      <4>4. N + 2 - a \in Nat /\ N + 2 - a < k /\ a = N + 2 - (N + 2 - a)
        BY <4>3
      <4>5. QED
        BY <4>2, <4>4
    <3> HIDE DEF m
    <3>2. m \notin Bad
      <4>1. m \in Bad => k <= m
        BY <2>2
      <4> HIDE DEF Bad
      <4>2. QED
        BY <2>3, <3>1, <4>1
    <3>3. QED
      BY <2>8, <3>1, <3>2
  <2>9. CASE stop - search[2] = depth
    <3>1. n \in search[1]..(stop - 1) \/ n \in f[<<stop, stop>>]
      <4> HIDE DEF stop
      <4>1. QED
        BY <2>3, <2>4, <2>5, <2>9 DEF Excludes, stop
    <3>2. n \notin f[<<stop, stop>>]
      BY <2>6, <2>8, <2>9
    <3>3. search[2] \in search[2]..(stop - 1)
      <4> HIDE DEF stop, N, S
      <4>1. QED
        BY <1>2, <2>6, <2>9
    <3>4. n \in search[2]..(stop - 1) \/ n = search[1]
      <4>1. search[2] = search[1] \/ search[2] = search[1] + 1
        BY <2>3
      <4>2. PICK a, b, s : a = search[1] /\ b = search[2] /\ s = stop
        OBVIOUS
      <4> HIDE DEF stop, N, S
      <4>3. a \in Nat /\ b \in Nat /\ s \in Nat
        BY <1>2, <2>6, <4>2
      <4>4. QED
        BY <3>1, <3>2, <4>1, <4>2, <4>3
    <3>5. QED
      BY <2>7, <3>3, <3>4
  <2>10. CASE stop - search[2] # depth
    <3>1. n \in f[<<stop, stop + 1>>]
      <4> HIDE DEF stop
      <4>1. QED
        BY <2>3, <2>4, <2>5, <2>10 DEF Excludes, stop
    <3>2. stop + 1 > search[2]
      <4> HIDE DEF stop, N, S
      <4>1. QED
        BY <1>2, <2>6
    <3>3. QED
      BY <2>6, <2>8, <3>1, <3>2
  <2>11. QED
    BY <2>9, <2>10
<1>4. <<1, 1>> \in S /\ N + 1 \in Nat /\ 1 = N + 2 - (N + 1)
  BY DEF Searches
<1>5. n \notin f[<<1, 1>>]
  <2>1. N + 1 \notin Bad
    BY <1>3
  <2> HIDE DEF N, S
  <2>2. QED
    BY <1>4, <2>1
<1>6. QED
  BY <1>1, <1>5

(* All that was sorted and must be consolidated is kept. *)
LEMMA NeedyCandidatesKept ==
    ASSUME NEW C, IsFiniteSet(C), NEW q \in Sortings(C), NEW needs, NEW depth \in Nat \ {0},
           NEW d \in C, d.uri \in needs
    PROVE  d \in ExcludeFullContainers(q, needs, depth)
<1>1. /\ q \in [1..Cardinality(C) -> C]
      /\ \A i, j \in 1..Cardinality(C) : i # j => q[i] # q[j]
  BY DEF Sortings, SetToSeqs
<1>2. Cardinality(C) \in Nat /\ Len(q) = Cardinality(C)
  BY <1>1, FS_CardinalityType, FunctionIsSequence
<1>3. q \in Injection(1..Len(q), C)
  BY <1>1, <1>2 DEF Injection, IsInjective
<1>4. Cardinality(1..Len(q)) = Cardinality(C) /\ IsFiniteSet(1..Len(q))
  BY <1>2, FS_Interval
<1>5. q \in Surjection(1..Len(q), C)
  BY <1>3, <1>4, FS_Injection
<1>6. PICK n \in 1..Len(q) : q[n] = d
  BY <1>5 DEF Surjection
<1>7. n \notin ExcludedFrom(q, needs, depth)
  BY <1>2, <1>6, NeedsAreKept
<1>8. QED
  BY <1>6, <1>7 DEF ExcludeFullContainers

-----------------------------------------------------------------------------
(* What is kept is in a container to build *)

(* Every element of a sequence is in one of its chunks. *)
LEMMA ChunkHas ==
    ASSUME NEW S, NEW records \in Seq(S), NEW depth \in Nat \ {0}, NEW n \in 1..Len(records)
    PROVE  \E k \in Chunks(records, depth) : \E m \in 1..Len(k) : k[m] = records[n]
<1> DEFINE L == Len(records)
           i == (n - 1) \div depth
           last == (L - 1) \div depth
           from == i * depth
           to == Min({L, from + depth})
<1>1. L \in Nat /\ n \in 1..L /\ records # <<>>
  OBVIOUS
<1>2. i \in Nat /\ from \in Nat /\ from <= n - 1 /\ n - 1 < from + depth /\ (i + 1) * depth = from + depth
  <2> HIDE DEF L
  <2>1. QED
    BY <1>1
<1>3. i \in 0..last
  <2>1. last \in Nat /\ L - 1 < last * depth + depth
    <3> HIDE DEF L
    <3>1. QED
      BY <1>1
  <2> HIDE DEF L, last
  <2>2. i * depth < (last + 1) * depth
    BY <1>1, <1>2, <2>1
  <2> HIDE DEF i
  <2>3. i < last + 1
    BY <1>2, <2>1, <2>2
  <2>4. QED
    BY <1>2, <2>1, <2>3
<1> DEFINE k == SubSeq(records, from + 1, to)
<1>4. k \in Chunks(records, depth)
  <2>1. k = SubSeq(records, i * depth + 1, Min({L, (i + 1) * depth}))
    BY <1>2
  <2> HIDE DEF k, i
  <2>2. QED
    BY <1>1, <1>3, <2>1 DEF Chunks
<1>5. to \in {L, from + depth} /\ to <= L
  <2> HIDE DEF from, L
  <2>1. QED
    BY <1>1, <1>2, MinOfTwo
<1> HIDE DEF from, to
<1>6. /\ from + 1 \in 1..L /\ to \in (from + 1)..L /\ n - from \in 1..(to - from)
      /\ from + 1 <= to /\ to - (from + 1) + 1 = to - from
      /\ from + 1 + (n - from) - 1 = n
  <2> HIDE DEF L, i
  <2>1. QED
    BY <1>1, <1>2, <1>5
<1>7. \A m \in (from + 1)..to : m \in 1..L /\ records[m] \in S
  BY <1>6
<1>8. /\ Len(k) = to - (from + 1) + 1
      /\ \A m \in 1..(to - (from + 1) + 1) : k[m] = records[from + 1 + m - 1]
  BY <1>6, <1>7, SubSeqProperties
<1> HIDE DEF k, L
<1>9. Len(k) = to - from /\ k[n - from] = records[n]
  BY <1>6, <1>8
<1>10. QED
  BY <1>4, <1>6, <1>9

LEMMA ValidShapeIs ==
    ASSUME NEW D, NEW c
    PROVE  \A p : p \in ValidShape(D, c) <=> p \in Area[c] /\ \E d \in D : p \in d.shape
<1> DEFINE T == {d.shape : d \in D}
<1>1. ValidShape(D, c) = (UNION T) \cap Area[c]
  BY DEF ValidShape
<1>2. \A x : x \in T <=> \E d \in D : x = d.shape
  OBVIOUS
<1> HIDE DEF T
<1>3. \A p : p \in UNION T <=> \E x \in T : p \in x
  OBVIOUS
<1>4. QED
  BY <1>1, <1>2, <1>3

(* The records of a cell: their types, and where they can be read. *)
LEMMA RecordsAre ==
    ASSUME NEW D, NEW c \in Cell
    PROVE  /\ Len(Records(D, c)) \in Nat
           /\ \A n \in 1..Len(Records(D, c)) :
                /\ Records(D, c)[n] \in [rec : Record, from : SUBSET {d.uri : d \in D}, shape : SUBSET Area[c]]
           /\ \A d \in D : \A p \in d.shape \cap Area[c] :
                d.rec \in Record =>
                    \E n \in 1..Len(Records(D, c)) : Records(D, c)[n].rec = d.rec /\ p \in Records(D, c)[n].shape
<1> DEFINE of(r) == {d \in D : d.rec = r}
           inCell == {r \in Record : ValidShape(of(r), c) # {}}
           order(r) == [rec |-> r, from |-> {d.uri : d \in of(r)}, shape |-> ValidShape(of(r), c)]
           R == [n \in 1..Cardinality(inCell) |-> order(Nth(inCell, n))]
<1>1. inCell \in SUBSET Int /\ inCell \in SUBSET Record /\ IsFiniteSet(inCell)
  BY FS_Subset, OrdersAssumption
<1>2. Records(D, c) = R
  BY DEF Records
<1>3. /\ \A n \in 1..Cardinality(inCell) : Nth(inCell, n) \in inCell
      /\ \A r \in inCell : \E n \in 1..Cardinality(inCell) : Nth(inCell, n) = r
      /\ Cardinality(inCell) \in Nat
  <2> HIDE DEF inCell
  <2>1. QED
    BY <1>1, NthOf, FS_CardinalityType
<1>4. ASSUME NEW r \in Record
      PROVE  order(r) \in [rec : Record, from : SUBSET {d.uri : d \in D}, shape : SUBSET Area[c]]
  <2> DEFINE F == {d.uri : d \in of(r)}
             V == ValidShape(of(r), c)
  <2>1. F \in SUBSET {d.uri : d \in D}
    OBVIOUS
  <2>2. V \in SUBSET Area[c]
    <3> HIDE DEF of
    <3>1. QED
      BY ValidShapeIs
  <2>3. order(r) = [rec |-> r, from |-> F, shape |-> V]
    OBVIOUS
  <2> HIDE DEF F, V, order
  <2>4. QED
    BY <2>1, <2>2, <2>3
<1>5. ASSUME NEW d \in D, NEW p \in d.shape \cap Area[c], d.rec \in Record
      PROVE  d.rec \in inCell /\ p \in order(d.rec).shape /\ order(d.rec).rec = d.rec
  <2> DEFINE V == ValidShape(of(d.rec), c)
  <2>1. p \in V
    <3>1. d \in of(d.rec)
      OBVIOUS
    <3> HIDE DEF of
    <3>2. QED
      BY <3>1, ValidShapeIs
  <2>2. order(d.rec).shape = V /\ order(d.rec).rec = d.rec
    OBVIOUS
  <2> HIDE DEF order
  <2>3. QED
    BY <1>5, <2>1, <2>2
<1> DEFINE key(n) == Nth(inCell, n)
           made(n) == order(key(n))
<1> HIDE DEF inCell, order
<1>6. /\ \A n \in 1..Cardinality(inCell) : key(n) \in inCell
      /\ \A r \in inCell : \E n \in 1..Cardinality(inCell) : key(n) = r
  BY <1>3
<1>7. R = [n \in 1..Cardinality(inCell) |-> made(n)] /\ \A n : made(n) = order(key(n))
  OBVIOUS
<1> HIDE DEF key, R, made
<1>8. Len(R) = Cardinality(inCell) /\ \A n \in 1..Cardinality(inCell) : R[n] = order(key(n))
  BY <1>3, <1>7
<1>9. \A n \in 1..Len(R) : R[n] \in [rec : Record, from : SUBSET {d.uri : d \in D}, shape : SUBSET Area[c]]
  <2> SUFFICES ASSUME NEW n \in 1..Cardinality(inCell)
               PROVE  R[n] \in [rec : Record, from : SUBSET {d.uri : d \in D}, shape : SUBSET Area[c]]
    BY <1>8
  <2>1. key(n) \in inCell /\ key(n) \in Record /\ R[n] = order(key(n))
    BY <1>1, <1>6, <1>8
  <2>2. QED
    BY <1>4, <2>1
<1>10. ASSUME NEW d \in D, NEW p \in d.shape \cap Area[c], d.rec \in Record
      PROVE  \E n \in 1..Len(R) : R[n].rec = d.rec /\ p \in R[n].shape
  <2>1. d.rec \in inCell /\ p \in order(d.rec).shape /\ order(d.rec).rec = d.rec
    BY <1>5, <1>10
  <2>2. PICK n \in 1..Cardinality(inCell) : key(n) = d.rec
    BY <1>6, <2>1
  <2>3. QED
    BY <1>6, <1>8, <2>1, <2>2
<1>11. QED
  BY <1>2, <1>3, <1>8, <1>9, <1>10

-----------------------------------------------------------------------------
(* The types, the names of the containers, and the locks *)

(* The external containers that are indexed. *)
Given == Cardinality(External) - Cardinality(toIndex)

UserTypes ==
    /\ toIndex \subseteq External /\ format \in Format /\ maxRecords \in Depths
    /\ nextUri \in Nat /\ nextUri >= Cardinality(External)

(* A consolidated dataset is in its cell. *)
DatasetTypes ==
    \A d \in datasets :
        /\ d.rec \in Record /\ d.cell \in Cell \cup {NoCell} /\ d.zone \in Range(Zone) \cup {"user"}
        /\ d.fmt \in Format \cup {"user"} /\ d.shape \in SUBSET Point
        /\ d.cell = NoCell => d.uri \in 0..(Given - 1)
        /\ d.cell # NoCell => /\ d.uri \in Cardinality(External)..(nextUri - 1)
                              /\ d.shape \subseteq Area[d.cell] /\ d.zone = Zone[d.cell]

(* A container has one dataset. *)
OwnNames == \A d, e \in datasets : d.uri = e.uri => d = e

OrderTypes ==
    \A j \in Job : \A o \in job[j].orders :
        /\ o.uri \in Cardinality(External)..(nextUri - 1) /\ o.cell \in Cell
        /\ o.records \in Seq(OrderRecord)
        /\ \A n \in 1..Len(o.records) : o.records[n].shape \subseteq Area[o.cell]

(* A container to build has a name of its own. *)
NewNames ==
    /\ \A j \in Job : \A o \in job[j].orders : \A d \in datasets : d.uri # o.uri
    /\ \A i, j \in Job : \A o \in job[i].orders, p \in job[j].orders : o.uri = p.uri => i = j /\ o = p

JobTypes == \A j \in Job : job[j].state \in JobState /\ job[j].fmt \in Format /\ job[j].listed \in SUBSET Nat

Consolidating == {"CONSOLIDATIONINPROGRESS", "CONSOLIDATIONFAILED", "CONSOLIDATIONINDEXED"}

(* The lock of a dataset says where the job that has locked it is. *)
HeldBy(d, j, state) ==
    \/ /\ d.lock = [job |-> j, flag |-> "INIT"] /\ d.status = "ACTIVE"
       /\ state \in {"CREATED", "INITIALISATIONFAILED"}
    \/ /\ d.lock = [job |-> j, flag |-> "NEW"] /\ d.status = "INACTIVE"
       /\ state \in Consolidating
    \/ /\ d.lock = [job |-> j, flag |-> "TODELETE"] /\ d.status = "ACTIVE"
       /\ state \in Consolidating
    \/ /\ d.lock = [job |-> j, flag |-> "TODELETE"] /\ d.status = "TODELETE"
       /\ state = "CONSOLIDATIONEFFECTIVE"

Unlocked(d) == d.lock = Free /\ d.status = "ACTIVE"

LocksInv == \A d \in datasets : Unlocked(d) \/ \E j \in Job : HeldBy(d, j, job[j].state)

CatalogueInv ==
    UserTypes /\ DatasetTypes /\ OwnNames /\ OrderTypes /\ NewNames /\ JobTypes /\ LocksInv

SameData(d, e) ==
    e.uri = d.uri /\ e.rec = d.rec /\ e.cell = d.cell /\ e.zone = d.zone /\ e.fmt = d.fmt /\ e.shape = d.shape

(* A step that only changes the statuses and locks of the datasets it keeps. *)
Renews(kept, change) ==
    /\ kept \in SUBSET datasets
    /\ datasets' = {change[d] : d \in kept}
    /\ \A d \in kept : SameData(d, change[d])

LEMMA RenewedData ==
    ASSUME DatasetTypes, OwnNames, UserTypes, nextUri' \in Nat, nextUri' >= nextUri,
           toIndex' = toIndex, NEW kept, NEW change, Renews(kept, change)
    PROVE  /\ DatasetTypes' /\ OwnNames'
           /\ \A e \in datasets' : \E d \in datasets : SameData(d, e)
<1>1. \A e \in datasets' : \E d \in kept : e = change[d] /\ d \in datasets /\ SameData(d, e)
  BY DEF Renews
<1>2. DatasetTypes'
  <2>1. SUFFICES ASSUME NEW e \in datasets'
                 PROVE  /\ e.rec \in Record /\ e.cell \in Cell \cup {NoCell} /\ e.zone \in Range(Zone) \cup {"user"}
                        /\ e.fmt \in Format \cup {"user"} /\ e.shape \in SUBSET Point
                        /\ e.cell = NoCell => e.uri \in 0..(Given - 1)
                        /\ e.cell # NoCell => /\ e.uri \in Cardinality(External)..(nextUri' - 1)
                                              /\ e.shape \subseteq Area[e.cell] /\ e.zone = Zone[e.cell]
    BY DEF DatasetTypes, Given
  <2>2. PICK d \in datasets : SameData(d, e)
    BY <1>1
  <2>3. Cardinality(External)..(nextUri - 1) \subseteq Cardinality(External)..(nextUri' - 1)
    <3>1. Cardinality(External) \in Nat /\ nextUri \in Nat
      BY OrdersAssumption, FS_CardinalityType DEF UserTypes
    <3>2. QED
      BY <3>1
  <2>4. QED
    BY <2>2, <2>3 DEF DatasetTypes, SameData
<1>3. OwnNames'
  BY <1>1 DEF OwnNames, SameData
<1>4. QED
  BY <1>1, <1>2, <1>3

(* The orders that remain keep their names, if no new dataset takes them. *)
LEMMA OrdersLeft ==
    ASSUME OrderTypes, NewNames, UserTypes, nextUri' \in Nat, nextUri' >= nextUri,
           \A j \in Job : job'[j].orders \subseteq job[j].orders,
           \A e \in datasets' : \/ \E d \in datasets : d.uri = e.uri
                                \/ \A j \in Job : \A o \in job'[j].orders : o.uri # e.uri
    PROVE  OrderTypes' /\ NewNames'
<1>1. Cardinality(External)..(nextUri - 1) \subseteq Cardinality(External)..(nextUri' - 1)
  <2>1. Cardinality(External) \in Nat /\ nextUri \in Nat
    BY OrdersAssumption, FS_CardinalityType DEF UserTypes
  <2>2. QED
    BY <2>1
<1>2. OrderTypes'
  BY <1>1 DEF OrderTypes
<1>3. NewNames'
  BY DEF NewNames
<1>4. QED
  BY <1>2, <1>3

(* What a step does to the jobs. *)
Row(s, f, L, O) == [state |-> s, fmt |-> f, listed |-> L, orders |-> O]

Becomes(i, s, f, L, O) == \A j \in Job : job'[j] = IF j = i THEN Row(s, f, L, O) ELSE job[j]

LEMMA StateField ==
    ASSUME JobRows, NEW i \in Job, NEW s, job' = [job EXCEPT ![i].state = s]
    PROVE  Becomes(i, s, job[i].fmt, job[i].listed, job[i].orders)
<1>1. DOMAIN job = Job /\ job[i] = [state |-> job[i].state, fmt |-> job[i].fmt, listed |-> job[i].listed,
                                    orders |-> job[i].orders]
  BY DEF JobRows
<1>2. QED
  BY <1>1 DEF Becomes, Row

LEMMA OrdersField ==
    ASSUME JobRows, NEW i \in Job, NEW O, job' = [job EXCEPT ![i].orders = O]
    PROVE  Becomes(i, job[i].state, job[i].fmt, job[i].listed, O)
<1>1. DOMAIN job = Job /\ job[i] = [state |-> job[i].state, fmt |-> job[i].fmt, listed |-> job[i].listed,
                                    orders |-> job[i].orders]
  BY DEF JobRows
<1>2. QED
  BY <1>1 DEF Becomes, Row

LEMMA ListedField ==
    ASSUME JobRows, NEW i \in Job, NEW L, NEW s, job' = [job EXCEPT ![i].listed = L, ![i].state = s]
    PROVE  Becomes(i, s, job[i].fmt, L, job[i].orders)
<1> DEFINE first == [job[i] EXCEPT !.listed = L]
           row == [first EXCEPT !.state = s]
<1>1. DOMAIN job = Job /\ job[i] = [state |-> job[i].state, fmt |-> job[i].fmt, listed |-> job[i].listed,
                                    orders |-> job[i].orders]
  BY DEF JobRows
<1>2. job' = [job EXCEPT ![i] = row]
  BY <1>1
<1>3. first = [state |-> job[i].state, fmt |-> job[i].fmt, listed |-> L, orders |-> job[i].orders]
  BY <1>1
<1> HIDE DEF first
<1>4. row = Row(s, job[i].fmt, L, job[i].orders)
  BY <1>3 DEF Row
<1> HIDE DEF row
<1>5. QED
  BY <1>1, <1>2, <1>4 DEF Becomes

LEMMA EndedFields ==
    ASSUME JobRows, NEW i \in Job, NEW O, NEW s, job' = [job EXCEPT ![i].state = s, ![i].orders = O]
    PROVE  Becomes(i, s, job[i].fmt, job[i].listed, O)
<1> DEFINE first == [job[i] EXCEPT !.state = s]
           row == [first EXCEPT !.orders = O]
<1>1. DOMAIN job = Job /\ job[i] = [state |-> job[i].state, fmt |-> job[i].fmt, listed |-> job[i].listed,
                                    orders |-> job[i].orders]
  BY DEF JobRows
<1>2. job' = [job EXCEPT ![i] = row]
  BY <1>1
<1>3. first = [state |-> s, fmt |-> job[i].fmt, listed |-> job[i].listed, orders |-> job[i].orders]
  BY <1>1
<1> HIDE DEF first
<1>4. row = Row(s, job[i].fmt, job[i].listed, O)
  BY <1>3 DEF Row
<1> HIDE DEF row
<1>5. QED
  BY <1>1, <1>2, <1>4 DEF Becomes

LEMMA CreatedFields ==
    ASSUME JobRows, NEW i \in Job, NEW f, NEW s, job' = [job EXCEPT ![i].state = s, ![i].fmt = f]
    PROVE  Becomes(i, s, f, job[i].listed, job[i].orders)
<1> DEFINE first == [job[i] EXCEPT !.state = s]
           row == [first EXCEPT !.fmt = f]
<1>1. DOMAIN job = Job /\ job[i] = [state |-> job[i].state, fmt |-> job[i].fmt, listed |-> job[i].listed,
                                    orders |-> job[i].orders]
  BY DEF JobRows
<1>2. job' = [job EXCEPT ![i] = row]
  BY <1>1
<1>3. first = [state |-> s, fmt |-> job[i].fmt, listed |-> job[i].listed, orders |-> job[i].orders]
  BY <1>1
<1> HIDE DEF first
<1>4. row = Row(s, f, job[i].listed, job[i].orders)
  BY <1>3 DEF Row
<1> HIDE DEF row
<1>5. QED
  BY <1>1, <1>2, <1>4 DEF Becomes

LEMMA CatalogueInit == Init => CatalogueInv
<1> SUFFICES ASSUME Init PROVE CatalogueInv
  OBVIOUS
<1>1. Cardinality(External) \in Nat
  BY OrdersAssumption, FS_CardinalityType
<1>2. UserTypes
  BY <1>1 DEF Init, UserTypes
<1>3. datasets = {} /\ \A j \in Job : job[j].orders = {} /\ job[j].state = "NONE" /\ job[j].listed = {} /\ job[j].fmt = format
  BY DEF Init
<1>4. QED
  BY <1>2, <1>3 DEF CatalogueInv, UserTypes, DatasetTypes, OwnNames, OrderTypes, NewNames, JobTypes, JobState, LocksInv

(* A user indexes a container: its name was not given yet. *)
LEMMA ExternalNames ==
    ASSUME OrdersInv, CatalogueInv, NEW e \in External, indexExternal(e)
    PROVE  CatalogueInv'
<1> DEFINE row == [uri |-> Given, rec |-> e.rec, cell |-> NoCell, zone |-> "user", fmt |-> "user",
                   shape |-> e.shape, status |-> "ACTIVE", lock |-> Free]
<1>1. /\ e \in toIndex /\ toIndex' = toIndex \ {e} /\ datasets' = datasets \cup {row}
      /\ format' = format /\ maxRecords' = maxRecords /\ nextUri' = nextUri /\ job' = job
  BY DEF indexExternal, Given
<1>2. UserTypes /\ DatasetTypes /\ OwnNames /\ OrderTypes /\ NewNames /\ JobTypes /\ LocksInv
  BY DEF CatalogueInv
<1>3. /\ Given \in Nat /\ Given < Cardinality(External) /\ Given' = Given + 1
      /\ Cardinality(External) \in Nat
  <2>1. IsFiniteSet(External) /\ toIndex \subseteq External
    BY <1>2, OrdersAssumption DEF UserTypes
  <2>2. IsFiniteSet(toIndex) /\ Cardinality(toIndex) <= Cardinality(External)
    BY <2>1, FS_Subset
  <2>3. Cardinality(toIndex \ {e}) = Cardinality(toIndex) - 1
    BY <1>1, <2>2, FS_RemoveElement
  <2>4. Cardinality(toIndex) \in Nat /\ Cardinality(External) \in Nat /\ Cardinality(toIndex) # 0
    BY <1>1, <2>1, <2>2, FS_CardinalityType, FS_EmptySet
  <2>5. QED
    BY <1>1, <2>2, <2>3, <2>4 DEF Given
<1>4. /\ row.uri = Given /\ row.rec = e.rec /\ row.cell = NoCell /\ row.zone = "user" /\ row.fmt = "user"
      /\ row.shape = e.shape /\ row.status = "ACTIVE" /\ row.lock = Free
  OBVIOUS
<1> HIDE DEF row
<1>5. \A d \in datasets : d.uri # Given
  <2>1. ASSUME NEW d \in datasets PROVE d.uri \in Nat /\ d.uri # Given
    <3>1. d.uri \in 0..(Given - 1) \/ d.uri \in Cardinality(External)..(nextUri - 1)
      BY <1>2 DEF DatasetTypes
    <3>2. nextUri \in Nat
      BY <1>2 DEF UserTypes
    <3>3. QED
      BY <1>3, <3>1, <3>2
  <2>2. QED
    BY <2>1
<1>6. DatasetTypes'
  <2>1. ASSUME NEW d \in datasets
        PROVE  d.cell = NoCell => d.uri \in 0..Given
    BY <1>2, <1>3 DEF DatasetTypes
  <2>2. e.rec \in Record /\ e.shape \in SUBSET Point /\ Given \in 0..Given
    BY <1>3, OrdersAssumption
  <2>3. Given' - 1 = Given
    BY <1>3
  <2>4. ASSUME NEW d \in datasets'
        PROVE  /\ d.rec \in Record /\ d.cell \in Cell \cup {NoCell} /\ d.zone \in Range(Zone) \cup {"user"}
               /\ d.fmt \in Format \cup {"user"} /\ d.shape \in SUBSET Point
               /\ d.cell = NoCell => d.uri \in 0..Given
               /\ d.cell # NoCell => /\ d.uri \in Cardinality(External)..(nextUri - 1)
                                     /\ d.shape \subseteq Area[d.cell] /\ d.zone = Zone[d.cell]
    <3>1. CASE d = row
      BY <1>4, <2>2, <3>1
    <3>2. CASE d \in datasets
      BY <1>2, <2>1, <3>2 DEF DatasetTypes
    <3>3. QED
      BY <1>1, <3>1, <3>2
  <2>5. QED
    BY <1>1, <2>3, <2>4 DEF DatasetTypes
<1>7. OwnNames'
  BY <1>1, <1>2, <1>4, <1>5 DEF OwnNames
<1>8. OrderTypes' /\ NewNames'
  <2>1. ASSUME NEW j \in Job, NEW o \in job[j].orders PROVE o.uri # Given
    BY <1>2, <1>3 DEF OrderTypes, UserTypes
  <2>2. \A d \in datasets' : \/ \E f \in datasets : f.uri = d.uri
                             \/ \A j \in Job : \A o \in job'[j].orders : o.uri # d.uri
    BY <1>1, <1>4, <2>1
  <2>3. nextUri' \in Nat /\ nextUri' >= nextUri
    BY <1>1, <1>2 DEF UserTypes
  <2>4. \A j \in Job : job'[j].orders \subseteq job[j].orders
    BY <1>1
  <2>5. QED
    BY <1>2, <2>2, <2>3, <2>4, OrdersLeft
<1>9. UserTypes' /\ JobTypes'
  BY <1>1, <1>2 DEF UserTypes, JobTypes
<1>10. LocksInv'
  BY <1>1, <1>2, <1>4 DEF LocksInv, Unlocked
<1>11. QED
  BY <1>6, <1>7, <1>8, <1>9, <1>10 DEF CatalogueInv

LEMMA ConfigNames ==
    ASSUME CatalogueInv, NEW f \in Format, configConsolidation(f)
    PROVE  CatalogueInv'
  BY DEF configConsolidation, CatalogueInv, UserTypes, DatasetTypes, OwnNames, OrderTypes, NewNames,
         JobTypes, LocksInv, Given

(* The lock of a dataset, seen from a job. *)
LEMMA LockIs ==
    ASSUME LocksInv, NEW i \in Job, NEW d \in datasets
    PROVE  \/ Unlocked(d)
           \/ d.lock.job # i /\ d.lock.job \in Job
           \/ d.lock.job = i /\ HeldBy(d, i, job[i].state)
<1>1. CASE Unlocked(d)
  BY <1>1
<1>2. ASSUME NEW j \in Job, HeldBy(d, j, job[j].state)
      PROVE  d.lock.job = j
  BY <1>2 DEF HeldBy
<1>3. QED
  BY <1>1, <1>2 DEF LocksInv

LEMMA LocksAfter ==
    ASSUME LocksInv, NEW i \in Job, NEW s, job'[i].state = s,
           \A j \in Job : j # i => job'[j] = job[j], NEW kept, NEW change, Renews(kept, change),
           \A d \in kept : \/ Unlocked(change[d])
                           \/ HeldBy(change[d], i, s)
                           \/ change[d] = d /\ d.lock.job # i
    PROVE  LocksInv'
<1>1. SUFFICES ASSUME NEW e \in datasets'
               PROVE  Unlocked(e) \/ \E j \in Job : HeldBy(e, j, job'[j].state)
  BY DEF LocksInv
<1>2. PICK d \in kept : e = change[d] /\ d \in datasets
  BY DEF Renews
<1>3. CASE change[d] = d /\ d.lock.job # i
  <2>1. Unlocked(d) \/ \E j \in Job : HeldBy(d, j, job[j].state)
    BY <1>2 DEF LocksInv
  <2>2. \A j \in Job : HeldBy(d, j, job[j].state) => d.lock.job = j
    BY DEF HeldBy
  <2>3. QED
    BY <1>2, <1>3, <2>1, <2>2
<1>4. QED
  BY <1>2, <1>3

(* A job takes a step, that changes its own locks only and takes no name.    *)
LEMMA RenewalStep ==
    ASSUME CatalogueInv, UNCHANGED <<toIndex, format, maxRecords, nextUri>>, NEW i \in Job,
           NEW s \in JobState, NEW f \in Format, NEW L \in SUBSET Nat, NEW O \in SUBSET job[i].orders,
           Becomes(i, s, f, L, O), NEW kept, NEW change, Renews(kept, change),
           \A d \in kept : \/ Unlocked(change[d])
                           \/ HeldBy(change[d], i, s)
                           \/ change[d] = d /\ d.lock.job # i
    PROVE  CatalogueInv'
<1>1. UserTypes /\ DatasetTypes /\ OwnNames /\ OrderTypes /\ NewNames /\ JobTypes /\ LocksInv
  BY DEF CatalogueInv
<1>2. UserTypes' /\ nextUri' \in Nat /\ nextUri' >= nextUri
  BY <1>1 DEF UserTypes
<1>3. /\ DatasetTypes' /\ OwnNames'
      /\ \A e \in datasets' : \E d \in datasets : SameData(d, e)
  BY <1>1, <1>2, RenewedData
<1>4. /\ \A j \in Job : j # i => job'[j] = job[j]
      /\ job'[i].state = s /\ job'[i].fmt = f /\ job'[i].listed = L /\ job'[i].orders = O
  BY DEF Becomes, Row
<1>5. OrderTypes' /\ NewNames'
  <2>1. \A j \in Job : job'[j].orders \subseteq job[j].orders
    BY <1>4
  <2>2. \A e \in datasets' : \E d \in datasets : d.uri = e.uri
    BY <1>3 DEF SameData
  <2>3. QED
    BY <1>1, <1>2, <2>1, <2>2, OrdersLeft
<1>6. JobTypes'
  BY <1>1, <1>4 DEF JobTypes
<1>7. LocksInv'
  BY <1>1, <1>4, LocksAfter
<1>8. QED
  BY <1>2, <1>3, <1>5, <1>6, <1>7 DEF CatalogueInv

(* A step that leaves the datasets, the job being where its locks allow it.  *)
LEMMA JobMoves ==
    ASSUME CatalogueInv, UNCHANGED <<datasets, toIndex, format, maxRecords, nextUri>>, NEW i \in Job,
           NEW s \in JobState, NEW f \in Format, NEW L \in SUBSET Nat, NEW O \in SUBSET job[i].orders,
           Becomes(i, s, f, L, O),
           \A d \in datasets : HeldBy(d, i, job[i].state) => HeldBy(d, i, s)
    PROVE  CatalogueInv'
<1> DEFINE change == [d \in datasets |-> d]
<1>1. Renews(datasets, change)
  BY DEF Renews, SameData
<1>2. \A d \in datasets : \/ Unlocked(change[d])
                          \/ HeldBy(change[d], i, s)
                          \/ change[d] = d /\ d.lock.job # i
  BY LockIs DEF CatalogueInv
<1> HIDE DEF change
<1>3. QED
  BY <1>1, <1>2, RenewalStep

LEMMA NamesAreNaturals ==
    ASSUME CatalogueInv, NEW d \in datasets
    PROVE  d.uri \in Nat
<1>1. Cardinality(External) \in Nat /\ nextUri \in Nat
  BY OrdersAssumption, FS_CardinalityType DEF CatalogueInv, UserTypes
<1>2. Given \in Int
  <2>1. IsFiniteSet(toIndex)
    BY OrdersAssumption, FS_Subset DEF CatalogueInv, UserTypes
  <2>2. Cardinality(toIndex) \in Nat
    BY <2>1, FS_CardinalityType
  <2>3. QED
    BY <1>1, <2>2 DEF Given
<1>3. d.uri \in 0..(Given - 1) \/ d.uri \in Cardinality(External)..(nextUri - 1)
  BY DEF CatalogueInv, DatasetTypes
<1>4. QED
  BY <1>1, <1>2, <1>3

LEMMA ListNames ==
    ASSUME OrdersInv, CatalogueInv, NEW i \in Job, NEW recs \in SUBSET Record, consolidate(i, recs)
    PROVE  CatalogueInv'
<1> DEFINE listed == {d.uri : d \in {e \in datasets : e.rec \in recs /\ e.status = "ACTIVE"}}
<1>1. /\ job' = [job EXCEPT ![i].listed = listed, ![i].state = "NEW"] /\ job[i].state = "NONE"
      /\ UNCHANGED <<datasets, toIndex, format, maxRecords, nextUri>>
  BY DEF consolidate
<1>2. listed \in SUBSET Nat
  <2>1. ASSUME NEW d \in datasets PROVE d.uri \in Nat
    BY NamesAreNaturals
  <2>2. QED
    BY <2>1
<1> HIDE DEF listed
<1>3. Becomes(i, "NEW", job[i].fmt, listed, job[i].orders)
  <2>1. JobRows
    BY DEF OrdersInv, Rows, JobRows
  <2>2. QED
    BY <1>1, <2>1, ListedField
<1>4. job[i].fmt \in Format /\ "NEW" \in JobState
  BY DEF CatalogueInv, JobTypes, JobState
<1>5. \A d \in datasets : ~HeldBy(d, i, job[i].state)
  BY <1>1 DEF HeldBy, Consolidating
<1>6. QED
  BY <1>1, <1>2, <1>3, <1>4, <1>5, JobMoves

LEMMA CreationNames ==
    ASSUME OrdersInv, CatalogueInv, NEW i \in Job, csldInit(i)
    PROVE  CatalogueInv'
<1> DEFINE listed == {d \in datasets : d.uri \in job[i].listed}
           lock == [job |-> i, flag |-> "INIT"]
           change == [d \in datasets |-> IF d \in listed THEN [d EXCEPT !.lock = lock] ELSE d]
<1>1. job[i].state = "NEW" /\ UNCHANGED <<toIndex, format, maxRecords, nextUri>>
  BY DEF csldInit
<1>2. JobRows
  BY DEF OrdersInv, Rows, JobRows
<1>3. /\ job[i].fmt \in Format /\ format \in Format /\ job[i].listed \in SUBSET Nat
      /\ "CREATED" \in JobState /\ "FAILED" \in JobState
  BY DEF CatalogueInv, JobTypes, JobState, UserTypes
<1>4. \A d \in datasets : Unlocked(d) \/ d.lock.job # i
  BY <1>1, LockIs DEF CatalogueInv, HeldBy, Consolidating
<1>5. CASE job' = [job EXCEPT ![i].state = "FAILED"] /\ datasets' = datasets
  <2>1. Becomes(i, "FAILED", job[i].fmt, job[i].listed, job[i].orders)
    BY <1>2, <1>5, StateField
  <2>2. \A d \in datasets : ~HeldBy(d, i, job[i].state)
    BY <1>1 DEF HeldBy, Consolidating
  <2>3. QED
    BY <1>1, <1>3, <1>5, <2>1, <2>2, JobMoves
<1>6. CASE /\ datasets' = (datasets \ listed) \cup {[d EXCEPT !.lock = lock] : d \in listed}
           /\ job' = [job EXCEPT ![i].state = "CREATED", ![i].fmt = format]
           /\ \A d \in listed : d.lock = Free
  <2>1. Becomes(i, "CREATED", format, job[i].listed, job[i].orders)
    BY <1>2, <1>6, CreatedFields
  <2>2. \A d \in datasets : d \notin listed => change[d] = d
    OBVIOUS
  <2>3. ASSUME NEW d \in listed
        PROVE  change[d] = [uri |-> d.uri, rec |-> d.rec, cell |-> d.cell, zone |-> d.zone, fmt |-> d.fmt,
                            shape |-> d.shape, status |-> "ACTIVE", lock |-> lock]
    <3>1. d = [uri |-> d.uri, rec |-> d.rec, cell |-> d.cell, zone |-> d.zone, fmt |-> d.fmt,
               shape |-> d.shape, status |-> d.status, lock |-> d.lock]
      BY DEF OrdersInv, Rows
    <3>2. d.status = "ACTIVE"
      <4>1. Unlocked(d) \/ \E j \in Job : HeldBy(d, j, job[j].state)
        BY DEF CatalogueInv, LocksInv
      <4>2. \A j \in Job : ~HeldBy(d, j, job[j].state)
        BY <1>6, OrdersAssumption DEF HeldBy, Free
      <4>3. QED
        BY <4>1, <4>2 DEF Unlocked
    <3>3. QED
      BY <3>1, <3>2
  <2>4. datasets' = {change[d] : d \in datasets}
    BY <1>6
  <2> HIDE DEF change
  <2>5. ASSUME NEW d \in datasets
        PROVE  change[d] = d \/ (SameData(d, change[d]) /\ HeldBy(change[d], i, "CREATED"))
    <3>1. CASE d \in listed
      <4>1. change[d] = [uri |-> d.uri, rec |-> d.rec, cell |-> d.cell, zone |-> d.zone, fmt |-> d.fmt,
                         shape |-> d.shape, status |-> "ACTIVE", lock |-> [job |-> i, flag |-> "INIT"]]
        BY <2>3, <3>1
      <4>2. PICK r : r = change[d]
        OBVIOUS
      <4>3. QED
        BY <4>1, <4>2 DEF SameData, HeldBy
    <3>2. QED
      BY <2>2, <3>1
  <2>6. Renews(datasets, change)
    BY <2>4, <2>5 DEF Renews, SameData
  <2>7. \A d \in datasets : \/ Unlocked(change[d])
                            \/ HeldBy(change[d], i, "CREATED")
                            \/ change[d] = d /\ d.lock.job # i
    BY <1>4, <2>5
  <2>8. QED
    BY <1>1, <1>3, <2>1, <2>6, <2>7, RenewalStep
<1>7. QED
  BY <1>5, <1>6 DEF csldInit, Lockable

LEMMA IndexedNames ==
    ASSUME OrdersInv, CatalogueInv, NEW i \in Job, indexed(i)
    PROVE  CatalogueInv'
<1>1. /\ job[i].state = "CONSOLIDATIONINPROGRESS"
      /\ job' = [job EXCEPT ![i].state = "CONSOLIDATIONINDEXED"]
      /\ UNCHANGED <<datasets, toIndex, format, maxRecords, nextUri>>
  BY DEF indexed
<1>2. Becomes(i, "CONSOLIDATIONINDEXED", job[i].fmt, job[i].listed, job[i].orders)
  BY <1>1, StateField DEF OrdersInv, Rows, JobRows
<1>3. job[i].fmt \in Format /\ job[i].listed \in SUBSET Nat /\ "CONSOLIDATIONINDEXED" \in JobState
  BY DEF CatalogueInv, JobTypes, JobState
<1>4. \A d \in datasets : HeldBy(d, i, job[i].state) => HeldBy(d, i, "CONSOLIDATIONINDEXED")
  BY <1>1 DEF HeldBy, Consolidating
<1>5. QED
  BY <1>1, <1>2, <1>3, <1>4, JobMoves

(* What the swap does to a dataset. *)
Swapped(i, d) ==
    IF d.lock = [job |-> i, flag |-> "NEW"] THEN [d EXCEPT !.status = "ACTIVE", !.lock = Free]
    ELSE IF d.lock.job = i /\ d.status = "ACTIVE" THEN [d EXCEPT !.status = "TODELETE"]
    ELSE d

LEMMA SwappedIs ==
    ASSUME OrdersInv, CatalogueInv, NEW i \in Job, job[i].state = "CONSOLIDATIONINDEXED", NEW d \in datasets
    PROVE  /\ SameData(d, Swapped(i, d))
           /\ \/ d.lock.job # i /\ Swapped(i, d) = d
              \/ d.lock = [job |-> i, flag |-> "NEW"] /\ Unlocked(Swapped(i, d))
              \/ /\ d.lock = [job |-> i, flag |-> "TODELETE"] /\ d.status = "ACTIVE"
                 /\ HeldBy(Swapped(i, d), i, "CONSOLIDATIONEFFECTIVE")
<1>1. d = [uri |-> d.uri, rec |-> d.rec, cell |-> d.cell, zone |-> d.zone, fmt |-> d.fmt,
           shape |-> d.shape, status |-> d.status, lock |-> d.lock]
  BY DEF OrdersInv, Rows
<1>2. \/ Unlocked(d)
      \/ d.lock.job # i
      \/ d.lock = [job |-> i, flag |-> "NEW"]
      \/ d.lock = [job |-> i, flag |-> "TODELETE"] /\ d.status = "ACTIVE"
  BY LockIs DEF CatalogueInv, HeldBy, Consolidating
<1>3. CASE d.lock.job # i
  BY <1>3 DEF Swapped, SameData
<1>4. CASE Unlocked(d)
  <2>1. d.lock.job # i
    BY <1>4, OrdersAssumption DEF Unlocked, Free
  <2>2. QED
    BY <1>3, <2>1
<1>5. CASE d.lock = [job |-> i, flag |-> "NEW"]
  <2>1. Swapped(i, d) = [uri |-> d.uri, rec |-> d.rec, cell |-> d.cell, zone |-> d.zone, fmt |-> d.fmt,
                         shape |-> d.shape, status |-> "ACTIVE", lock |-> Free]
    BY <1>1, <1>5 DEF Swapped
  <2>2. PICK r : r = Swapped(i, d)
    OBVIOUS
  <2>3. QED
    BY <1>5, <2>1, <2>2 DEF SameData, Unlocked
<1>6. CASE d.lock = [job |-> i, flag |-> "TODELETE"] /\ d.status = "ACTIVE"
  <2>1. Swapped(i, d) = [uri |-> d.uri, rec |-> d.rec, cell |-> d.cell, zone |-> d.zone, fmt |-> d.fmt,
                         shape |-> d.shape, status |-> "TODELETE", lock |-> [job |-> i, flag |-> "TODELETE"]]
    BY <1>1, <1>6 DEF Swapped
  <2>2. PICK r : r = Swapped(i, d)
    OBVIOUS
  <2>3. QED
    BY <1>6, <2>1, <2>2 DEF SameData, HeldBy
<1>7. QED
  BY <1>2, <1>3, <1>4, <1>5, <1>6

LEMMA SwapNames ==
    ASSUME OrdersInv, CatalogueInv, NEW i \in Job, csldSwapDatasets(i)
    PROVE  CatalogueInv'
<1> DEFINE change == [d \in datasets |-> Swapped(i, d)]
<1>1. /\ job[i].state = "CONSOLIDATIONINDEXED"
      /\ job' = [job EXCEPT ![i].state = "CONSOLIDATIONEFFECTIVE"]
      /\ UNCHANGED <<toIndex, format, maxRecords, nextUri>>
      /\ datasets' = {change[d] : d \in datasets}
  BY DEF csldSwapDatasets, Swapped
<1>2. Becomes(i, "CONSOLIDATIONEFFECTIVE", job[i].fmt, job[i].listed, job[i].orders)
  BY <1>1, StateField DEF OrdersInv, Rows, JobRows
<1>3. job[i].fmt \in Format /\ job[i].listed \in SUBSET Nat /\ "CONSOLIDATIONEFFECTIVE" \in JobState
  BY DEF CatalogueInv, JobTypes, JobState
<1>4. \A d \in datasets : change[d] = Swapped(i, d)
  OBVIOUS
<1> HIDE DEF change
<1>5. Renews(datasets, change)
  BY <1>1, <1>4, SwappedIs DEF Renews
<1>6. \A d \in datasets : \/ Unlocked(change[d])
                          \/ HeldBy(change[d], i, "CONSOLIDATIONEFFECTIVE")
                          \/ change[d] = d /\ d.lock.job # i
  BY <1>1, <1>4, SwappedIs
<1>7. QED
  BY <1>1, <1>2, <1>3, <1>5, <1>6, RenewalStep

LEMMA DeleteNames ==
    ASSUME OrdersInv, CatalogueInv, NEW i \in Job, deleteReplaced(i)
    PROVE  CatalogueInv'
<1> DEFINE kept == datasets \ LockedBy(i, "TODELETE")
           change == [d \in kept |-> d]
<1>1. /\ job[i].state = "CONSOLIDATIONEFFECTIVE"
      /\ job' = [job EXCEPT ![i].state = "DONE"]
      /\ UNCHANGED <<toIndex, format, maxRecords, nextUri>>
      /\ datasets' = kept
  BY DEF deleteReplaced
<1>2. Becomes(i, "DONE", job[i].fmt, job[i].listed, job[i].orders)
  BY <1>1, StateField DEF OrdersInv, Rows, JobRows
<1>3. job[i].fmt \in Format /\ job[i].listed \in SUBSET Nat /\ "DONE" \in JobState
  BY DEF CatalogueInv, JobTypes, JobState
<1>4. Renews(kept, change)
  BY <1>1 DEF Renews, SameData
<1>5. \A d \in kept : \/ Unlocked(change[d])
                      \/ change[d] = d /\ d.lock.job # i
  <2>1. \A d \in kept : ~HeldBy(d, i, "CONSOLIDATIONEFFECTIVE")
    BY DEF HeldBy, LockedBy, Consolidating
  <2>2. QED
    BY <1>1, <2>1, LockIs DEF CatalogueInv
<1> HIDE DEF kept, change
<1>6. QED
  BY <1>1, <1>2, <1>3, <1>4, <1>5, RenewalStep

(* What a rollback does to a dataset that it keeps. *)
Freed(i, d) == IF d.lock.job = i THEN [d EXCEPT !.lock = Free] ELSE d

LEMMA FreedIs ==
    ASSUME OrdersInv, CatalogueInv, NEW i \in Job, job[i].state # "CONSOLIDATIONEFFECTIVE",
           NEW d \in datasets \ LockedBy(i, "NEW")
    PROVE  /\ SameData(d, Freed(i, d)) /\ Freed(i, d).status = d.status
           /\ Unlocked(Freed(i, d)) \/ (d.lock.job # i /\ Freed(i, d) = d)
<1>1. d = [uri |-> d.uri, rec |-> d.rec, cell |-> d.cell, zone |-> d.zone, fmt |-> d.fmt,
           shape |-> d.shape, status |-> d.status, lock |-> d.lock]
  BY DEF OrdersInv, Rows
<1>2. CASE d.lock.job # i
  BY <1>2 DEF Freed, SameData
<1>3. CASE d.lock.job = i
  <2>1. d.status = "ACTIVE"
    BY <1>3, LockIs DEF CatalogueInv, HeldBy, LockedBy, Unlocked
  <2>2. Freed(i, d) = [uri |-> d.uri, rec |-> d.rec, cell |-> d.cell, zone |-> d.zone, fmt |-> d.fmt,
                       shape |-> d.shape, status |-> d.status, lock |-> Free]
    BY <1>1, <1>3 DEF Freed
  <2>3. PICK r : r = Freed(i, d)
    OBVIOUS
  <2>4. QED
    BY <2>1, <2>2, <2>3 DEF SameData, Unlocked
<1>4. QED
  BY <1>2, <1>3

LEMMA RollbackNames ==
    ASSUME OrdersInv, CatalogueInv, NEW i \in Job, csldRollback(i)
    PROVE  CatalogueInv'
<1> DEFINE kept == datasets \ LockedBy(i, "NEW")
           change == [d \in kept |-> Freed(i, d)]
<1>1. /\ job[i].state # "CONSOLIDATIONEFFECTIVE"
      /\ job' = [job EXCEPT ![i].state = "FAILED", ![i].orders = {}]
      /\ UNCHANGED <<toIndex, format, maxRecords, nextUri>>
      /\ datasets' = {change[d] : d \in kept}
  BY DEF csldRollback, Freed
<1>2. Becomes(i, "FAILED", job[i].fmt, job[i].listed, {})
  <2>1. JobRows
    BY DEF OrdersInv, Rows, JobRows
  <2>2. QED
    BY <1>1, <2>1, EndedFields
<1>3. job[i].fmt \in Format /\ job[i].listed \in SUBSET Nat /\ "FAILED" \in JobState
  BY DEF CatalogueInv, JobTypes, JobState
<1>4. kept \in SUBSET datasets /\ \A d \in kept : change[d] = Freed(i, d)
  OBVIOUS
<1>5. \A d \in kept : /\ SameData(d, Freed(i, d))
                      /\ Unlocked(Freed(i, d)) \/ (d.lock.job # i /\ Freed(i, d) = d)
  BY <1>1, FreedIs
<1> HIDE DEF change, kept
<1>6. Renews(kept, change)
  BY <1>1, <1>4, <1>5 DEF Renews
<1>7. \A d \in kept : \/ Unlocked(change[d])
                      \/ change[d] = d /\ d.lock.job # i
  BY <1>4, <1>5
<1>8. QED
  BY <1>1, <1>2, <1>3, <1>6, <1>7, RenewalStep

(* The dataset of a container that is indexed. *)
Built(i, o) ==
    [uri |-> o.uri, rec |-> o.records[1].rec, cell |-> o.cell, zone |-> Zone[o.cell], fmt |-> job[i].fmt,
     shape |-> o.records[1].shape, status |-> "INACTIVE", lock |-> [job |-> i, flag |-> "NEW"]]

(* A container of several records is refused, otherwise it has one dataset.  *)
LEMMA IndexOutcome ==
    ASSUME OrdersInv, CatalogueInv, NEW i \in Job, NEW o \in job[i].orders, csldIndex(i, o)
    PROVE  \/ /\ Becomes(i, "CONSOLIDATIONFAILED", job[i].fmt, job[i].listed, job[i].orders)
              /\ datasets' = datasets
           \/ /\ Becomes(i, job[i].state, job[i].fmt, job[i].listed, job[i].orders \ {o})
              /\ datasets' = datasets \cup {Built(i, o)} /\ Len(o.records) = 1
<1> DEFINE left == job[i].orders \ {o}
           row(n) == [uri |-> o.uri, rec |-> o.records[n].rec, cell |-> o.cell, zone |-> Zone[o.cell], fmt |-> job[i].fmt,
                      shape |-> o.records[n].shape, status |-> "INACTIVE", lock |-> [job |-> i, flag |-> "NEW"]]
<1>1. JobRows
  BY DEF OrdersInv, Rows, JobRows
<1>2. CASE ~Accepted(o.records)
  <2>1. job' = [job EXCEPT ![i].state = "CONSOLIDATIONFAILED"] /\ datasets' = datasets
    BY <1>2 DEF csldIndex
  <2>2. QED
    BY <1>1, <2>1, StateField
<1>3. CASE Accepted(o.records)
  <2>1. /\ job' = [job EXCEPT ![i].orders = left]
        /\ datasets' = datasets \cup {row(n) : n \in 1..Len(o.records)}
    BY <1>3 DEF csldIndex
  <2>2. Len(o.records) = 1
    <3>1. Len(o.records) \in 1..maxRecords /\ maxRecords \in Nat
      BY DEF OrdersInv, OrdersFit, Rows
    <3>2. PICK l : l = Len(o.records)
      OBVIOUS
    <3>3. l \in 1..maxRecords /\ l <= 1
      BY <1>3, <3>1, <3>2 DEF Accepted
    <3>4. l = 1
      BY <3>1, <3>3
    <3>5. QED
      BY <3>2, <3>4
  <2>3. Becomes(i, job[i].state, job[i].fmt, job[i].listed, left)
    <3> HIDE DEF left
    <3>1. QED
      BY <1>1, <2>1, OrdersField
  <2>4. {row(n) : n \in 1..Len(o.records)} = {Built(i, o)}
    <3>1. 1..Len(o.records) = {1}
      BY <2>2
    <3>2. row(1) = Built(i, o)
      BY DEF Built
    <3> HIDE DEF row
    <3>3. QED
      BY <3>1, <3>2
  <2>5. QED
    BY <2>1, <2>2, <2>3, <2>4
<1>4. QED
  BY <1>2, <1>3

LEMMA IndexNames ==
    ASSUME OrdersInv, CatalogueInv, NEW i \in Job, NEW o \in job[i].orders, csldIndex(i, o)
    PROVE  CatalogueInv'
<1>1. job[i].state = "CONSOLIDATIONINPROGRESS" /\ UNCHANGED <<toIndex, format, maxRecords, nextUri>>
  BY DEF csldIndex
<1>2. UserTypes /\ DatasetTypes /\ OwnNames /\ OrderTypes /\ NewNames /\ JobTypes /\ LocksInv
  BY DEF CatalogueInv
<1>3. job[i].fmt \in Format /\ job[i].listed \in SUBSET Nat /\ "CONSOLIDATIONFAILED" \in JobState
  BY <1>2 DEF JobTypes, JobState
<1>4. CASE /\ Becomes(i, "CONSOLIDATIONFAILED", job[i].fmt, job[i].listed, job[i].orders)
           /\ datasets' = datasets
  <2>1. \A d \in datasets : HeldBy(d, i, job[i].state) => HeldBy(d, i, "CONSOLIDATIONFAILED")
    BY <1>1 DEF HeldBy, Consolidating
  <2>2. QED
    BY <1>1, <1>3, <1>4, <2>1, JobMoves
<1>5. CASE /\ Becomes(i, job[i].state, job[i].fmt, job[i].listed, job[i].orders \ {o})
           /\ datasets' = datasets \cup {Built(i, o)} /\ Len(o.records) = 1
  <2> DEFINE new == Built(i, o)
  <2>1. /\ new.uri = o.uri /\ new.rec = o.records[1].rec /\ new.cell = o.cell /\ new.zone = Zone[o.cell]
        /\ new.fmt = job[i].fmt /\ new.shape = o.records[1].shape /\ new.status = "INACTIVE"
        /\ new.lock = [job |-> i, flag |-> "NEW"]
    BY DEF Built
  <2>2. datasets' = datasets \cup {new} /\ Len(o.records) = 1
    BY <1>5
  <2> HIDE DEF new
  <2>3. /\ o.uri \in Cardinality(External)..(nextUri - 1) /\ o.cell \in Cell /\ o.cell # NoCell
        /\ o.records[1] \in OrderRecord /\ o.records[1].shape \subseteq Area[o.cell]
    <3>1. /\ o.uri \in Cardinality(External)..(nextUri - 1) /\ o.cell \in Cell
          /\ o.records \in Seq(OrderRecord)
          /\ \A n \in 1..Len(o.records) : o.records[n].shape \subseteq Area[o.cell]
      BY <1>2 DEF OrderTypes
    <3>2. o.records[1] \in OrderRecord /\ 1 \in 1..Len(o.records)
      BY <2>2, <3>1
    <3>3. QED
      BY <3>1, <3>2, OrdersAssumption
  <2>4. /\ \A j \in Job : j # i => job'[j] = job[j]
        /\ job'[i].state = job[i].state /\ job'[i].fmt = job[i].fmt /\ job'[i].listed = job[i].listed
        /\ job'[i].orders = job[i].orders \ {o}
    BY <1>5 DEF Becomes, Row
  <2>5. DatasetTypes'
    <3>1. o.records[1].rec \in Record /\ o.records[1].shape \in SUBSET Point /\ Zone[o.cell] \in Range(Zone)
      BY <2>3, OrdersAssumption DEF OrderRecord, Range
    <3>2. QED
      BY <1>1, <1>2, <1>3, <2>1, <2>2, <2>3, <3>1 DEF DatasetTypes, Given
  <2>6. OwnNames'
    BY <1>2, <2>1, <2>2 DEF OwnNames, NewNames
  <2>7. OrderTypes' /\ NewNames'
    <3>1. nextUri' \in Nat /\ nextUri' >= nextUri
      BY <1>1, <1>2 DEF UserTypes
    <3>2. \A j \in Job : job'[j].orders \subseteq job[j].orders
      BY <2>4
    <3>3. \A j \in Job : \A q \in job'[j].orders : q.uri # o.uri
      BY <1>2, <2>4 DEF NewNames
    <3>4. \A e \in datasets' : \/ \E d \in datasets : d.uri = e.uri
                               \/ \A j \in Job : \A q \in job'[j].orders : q.uri # e.uri
      BY <2>1, <2>2, <3>3
    <3>5. QED
      BY <1>2, <3>1, <3>2, <3>4, OrdersLeft
  <2>8. UserTypes' /\ JobTypes'
    BY <1>1, <1>2, <2>4 DEF UserTypes, JobTypes
  <2>9. LocksInv'
    <3>1. HeldBy(new, i, job[i].state)
      BY <1>1, <2>1 DEF HeldBy, Consolidating
    <3>2. \A j \in Job : job'[j].state = job[j].state
      BY <2>4
    <3>3. QED
      BY <1>2, <2>2, <3>1, <3>2 DEF LocksInv
  <2>10. QED
    BY <2>5, <2>6, <2>7, <2>8, <2>9 DEF CatalogueInv
<1>6. QED
  BY <1>4, <1>5, IndexOutcome

(* The chunks of a finite sequence are finitely many sequences of the same.  *)
LEMMA ChunksAre ==
    ASSUME NEW S, NEW records \in Seq(S), NEW depth \in Nat \ {0}
    PROVE  /\ IsFiniteSet(Chunks(records, depth))
           /\ \A k \in Chunks(records, depth) : k \in Seq(S)
<1> DEFINE L == Len(records)
           last == (L - 1) \div depth
           cut == [i \in 0..last |-> SubSeq(records, i * depth + 1, Min({L, (i + 1) * depth}))]
<1>1. ASSUME NEW k \in Chunks(records, depth) PROVE k \in Seq(S)
  <2>1. Len(k) \in 1..depth /\ \A n \in 1..Len(k) : \E m \in 1..L : k[n] = records[m]
    BY ChunksOf
  <2>2. \E a, b \in Int : k = SubSeq(records, a, b) /\ \A n \in a..b : n \in 1..L
    <3>1. L \in Nat /\ L # 0 /\ records # <<>>
      BY DEF Chunks
    <3>2. PICK i \in 0..last : k = SubSeq(records, i * depth + 1, Min({L, (i + 1) * depth}))
      BY <3>1 DEF Chunks
    <3>3. i \in Nat /\ i * depth \in Nat /\ (i + 1) * depth \in Nat
      <4>1. i \in Nat
        BY <3>1
      <4> HIDE DEF last
      <4>2. i * depth \in Nat /\ (i + 1) * depth \in Nat
        BY <4>1
      <4>3. QED
        BY <4>1, <4>2
    <3> DEFINE from == i * depth + 1
               to == Min({L, (i + 1) * depth})
    <3>4. to \in {L, (i + 1) * depth} /\ to <= L
      <4> HIDE DEF L
      <4>1. QED
        BY <3>1, <3>3, MinOfTwo
    <3>5. from \in Nat /\ from >= 1 /\ to \in Nat
      <4> HIDE DEF L, last, to
      <4>1. QED
        BY <3>1, <3>3, <3>4
    <3>6. k = SubSeq(records, from, to)
      BY <3>2
    <3> HIDE DEF from, to
    <3>7. \A n \in from..to : n \in 1..L
      <4> HIDE DEF L
      <4>1. QED
        BY <3>1, <3>4, <3>5
    <3>8. from \in Int /\ to \in Int
      BY <3>5
    <3> HIDE DEF L
    <3>9. QED
      BY <3>6, <3>7, <3>8
  <2>3. PICK a \in Int, b \in Int : k = SubSeq(records, a, b) /\ \A n \in a..b : n \in 1..L
    BY <2>2
  <2>4. \A n \in a..b : records[n] \in S
    BY <2>3
  <2>5. QED
    BY <2>3, <2>4, SubSeqProperties
<1>2. CASE records = <<>>
  <2>1. Chunks(records, depth) = {}
    BY <1>2 DEF Chunks
  <2>2. QED
    BY <1>1, <2>1, FS_EmptySet
<1>3. CASE records # <<>>
  <2>1. Chunks(records, depth) = {cut[i] : i \in 0..last}
    BY <1>3 DEF Chunks
  <2>2. L \in Nat /\ L # 0
    BY <1>3
  <2>3. last \in Int
    <3> HIDE DEF L
    <3>1. QED
      BY <2>2
  <2>4. IsFiniteSet(0..last)
    <3> HIDE DEF last
    <3>1. QED
      BY <2>3, FS_Interval
  <2>5. cut = [i \in 0..last |-> cut[i]]
    OBVIOUS
  <2> HIDE DEF cut, last
  <2>6. IsFiniteSet({cut[i] : i \in 0..last})
    BY <2>4, <2>5, FiniteImage
  <2>7. QED
    BY <1>1, <2>1, <2>6
<1>4. QED
  BY <1>2, <1>3

(* New names can be given to a finite set of orders, one to each. *)
LEMMA NamesAre ==
    ASSUME nextUri \in Nat, NEW orders, IsFiniteSet(orders)
    PROVE  /\ \A o \in orders : Names(orders)[o] \in nextUri..(nextUri + Cardinality(orders) - 1)
           /\ \A o, p \in orders : Names(orders)[o] = Names(orders)[p] => o = p
<1> DEFINE n == Cardinality(orders)
           T == nextUri..(nextUri + n - 1)
<1>1. n \in Nat /\ ExistsBijection(1..n, orders)
  BY FS_CardinalityType
<1>2. ExistsBijection(orders, 1..n)
  <2> HIDE DEF n
  <2>1. QED
    BY <1>1, Fun_ExistsBijSymmetric
<1>3. PICK g : g \in Bijection(orders, 1..n)
  BY <1>2 DEF ExistsBijection
<1>4. g \in [orders -> 1..n] /\ \A a, b \in orders : g[a] = g[b] => a = b
  <2> HIDE DEF n
  <2>1. QED
    BY <1>3, Fun_BijectionProperties
<1> DEFINE f == [o \in orders |-> nextUri + g[o] - 1]
<1>5. \A o \in orders : g[o] \in 1..n /\ f[o] = nextUri + g[o] - 1
  BY <1>4
<1>6. f \in [orders -> T]
  <2>1. \A o \in orders : f[o] \in T
    <3> HIDE DEF n, f
    <3>1. QED
      BY <1>1, <1>5
  <2>2. QED
    BY <2>1
<1>7. IsInjective(f)
  <2>1. DOMAIN f = orders
    OBVIOUS
  <2> HIDE DEF f, n
  <2>2. \A a, b \in orders : f[a] = f[b] => a = b
    <3>1. ASSUME NEW a \in orders, NEW b \in orders, f[a] = f[b] PROVE g[a] = g[b]
      BY <1>1, <1>5, <3>1
    <3>2. QED
      BY <1>4, <3>1
  <2>3. QED
    BY <2>1, <2>2 DEF IsInjective
<1> HIDE DEF f
<1>8. Names(orders) \in [orders -> T] /\ IsInjective(Names(orders))
  <2>1. Names(orders) = CHOOSE h \in [orders -> T] : IsInjective(h)
    BY DEF Names
  <2> HIDE DEF T
  <2>2. QED
    BY <1>6, <1>7, <2>1
<1>9. QED
  BY <1>8 DEF IsInjective

(* What csldPrepareOrders plans for a cell. *)
LEMMA PlanIs ==
    ASSUME OrdersInv, CatalogueInv, NEW i \in Job, NEW sorted, NEW c \in Cell,
           sorted[c] \in Sortings(Candidates(i, c))
    PROVE  /\ PlanOf(i, sorted)[c] \in Seq(OrderRecord)
           /\ \A n \in 1..Len(PlanOf(i, sorted)[c]) : PlanOf(i, sorted)[c][n].shape \subseteq Area[c]
<1> DEFINE needs == {d.uri : d \in {e \in Candidates(i, c) : NeedsAlone(e, c, job[i].fmt)}}
           D == ExcludeFullContainers(sorted[c], needs, maxRecords)
           R == Records(D, c)
           T == [rec : Record, from : SUBSET {d.uri : d \in D}, shape : SUBSET Area[c]]
<1>1. PlanOf(i, sorted)[c] = R
  BY DEF PlanOf
<1>2. D \subseteq datasets
  <2>1. Candidates(i, c) \subseteq datasets
    BY CandidatesHeld
  <2>2. IsFiniteSet(Candidates(i, c))
    BY <2>1, FS_Subset DEF OrdersInv, Rows
  <2> HIDE DEF needs
  <2>3. D \subseteq Candidates(i, c)
    BY <2>2, KeptWereCandidates
  <2>4. QED
    BY <2>1, <2>3
<1> HIDE DEF D
<1>3. Len(R) \in Nat /\ \A n \in 1..Len(R) : R[n] \in T
  BY RecordsAre
<1>4. R \in Seq({R[n] : n \in 1..Len(R)})
  BY RecordsOf
<1>5. {d.uri : d \in D} \subseteq Nat
  BY <1>2, NamesAreNaturals
<1>6. Area[c] \subseteq Point
  BY OrdersAssumption
<1> HIDE DEF R
<1>7. \A n \in 1..Len(R) : R[n] \in OrderRecord /\ R[n].shape \subseteq Area[c]
  <2> DEFINE F == {d.uri : d \in D}
  <2>1. ASSUME NEW n \in 1..Len(R) PROVE R[n] \in OrderRecord /\ R[n].shape \subseteq Area[c]
    <3>1. R[n] \in [rec : Record, from : SUBSET F, shape : SUBSET Area[c]]
      BY <1>3
    <3>2. F \subseteq Nat
      BY <1>5
    <3> HIDE DEF F
    <3>3. QED
      BY <1>6, <3>1, <3>2 DEF OrderRecord
  <2>2. QED
    BY <2>1
<1>8. R \in Seq(OrderRecord)
  <2>1. R \in [1..Len(R) -> OrderRecord]
    BY <1>4, <1>7
  <2>2. QED
    BY <1>3, <2>1
<1>9. QED
  BY <1>1, <1>7, <1>8

LEMMA PlannedIs ==
    ASSUME OrdersInv, CatalogueInv, NEW i \in Job, NEW sorted,
           \A c \in Cell : sorted[c] \in Sortings(Candidates(i, c))
    PROVE  /\ IsFiniteSet(ChunksOfPlan(PlanOf(i, sorted)))
           /\ \A o \in ChunksOfPlan(PlanOf(i, sorted)) :
                /\ o[1] \in Cell /\ o[2] \in Seq(OrderRecord)
                /\ \A n \in 1..Len(o[2]) : o[2][n].shape \subseteq Area[o[1]]
                /\ o = <<o[1], o[2]>>
<1> DEFINE plan == PlanOf(i, sorted)
           of == [c \in Cell |-> {<<c, k>> : k \in Chunks(plan[c], maxRecords)}]
<1>1. ASSUME NEW c \in Cell
      PROVE  /\ plan[c] \in Seq(OrderRecord)
             /\ \A n \in 1..Len(plan[c]) : plan[c][n].shape \subseteq Area[c]
  BY PlanIs
<1>2. maxRecords \in Nat \ {0}
  BY DEF OrdersInv, Rows
<1> HIDE DEF plan
<1>3. ASSUME NEW c \in Cell
      PROVE  /\ IsFiniteSet(Chunks(plan[c], maxRecords))
             /\ \A k \in Chunks(plan[c], maxRecords) :
                    k \in Seq(OrderRecord) /\ \A n \in 1..Len(k) : k[n].shape \subseteq Area[c]
  <2>1. /\ IsFiniteSet(Chunks(plan[c], maxRecords))
        /\ \A k \in Chunks(plan[c], maxRecords) : k \in Seq(OrderRecord)
    BY <1>1, <1>2, ChunksAre
  <2>2. \A k \in Chunks(plan[c], maxRecords) :
            \A n \in 1..Len(k) : \E m \in 1..Len(plan[c]) : k[n] = plan[c][m]
    BY <1>1, <1>2, ChunksOf
  <2>3. QED
    BY <1>1, <2>1, <2>2
<1>4. ASSUME NEW c \in Cell
      PROVE  IsFiniteSet(of[c])
  <2> DEFINE K == Chunks(plan[c], maxRecords)
             pair == [k \in K |-> <<c, k>>]
  <2>1. IsFiniteSet(K) /\ pair = [k \in K |-> pair[k]]
    BY <1>3
  <2>2. of[c] = {pair[k] : k \in K}
    OBVIOUS
  <2> HIDE DEF K, pair, of
  <2>3. QED
    BY <2>1, <2>2, FiniteImage
<1>5. IsFiniteSet({of[c] : c \in Cell})
  <2>1. of = [c \in Cell |-> of[c]] /\ IsFiniteSet(Cell)
    BY OrdersAssumption
  <2> HIDE DEF of
  <2>2. QED
    BY <2>1, FiniteImage
<1>6. ChunksOfPlan(plan) = UNION {of[c] : c \in Cell}
  BY DEF ChunksOfPlan
<1>7. IsFiniteSet(UNION {of[c] : c \in Cell})
  <2> DEFINE all == {of[c] : c \in Cell}
  <2>1. IsFiniteSet(all) /\ \A T \in all : IsFiniteSet(T)
    BY <1>4, <1>5
  <2> HIDE DEF all
  <2>2. IsFiniteSet(UNION all)
    BY <2>1, FS_UNION
  <2>3. QED
    BY <2>2 DEF all
<1>8. ASSUME NEW o \in ChunksOfPlan(plan)
      PROVE  \E c \in Cell : \E k \in Chunks(plan[c], maxRecords) : o = <<c, k>>
  BY <1>8 DEF ChunksOfPlan
<1>9. ASSUME NEW o \in ChunksOfPlan(plan)
      PROVE  /\ o[1] \in Cell /\ o[2] \in Seq(OrderRecord)
             /\ \A n \in 1..Len(o[2]) : o[2][n].shape \subseteq Area[o[1]]
             /\ o = <<o[1], o[2]>>
  <2>1. PICK c \in Cell : \E k \in Chunks(plan[c], maxRecords) : o = <<c, k>>
    BY <1>8
  <2>2. PICK k \in Chunks(plan[c], maxRecords) : o = <<c, k>>
    BY <2>1
  <2>3. o[1] = c /\ o[2] = k
    BY <2>2
  <2>4. QED
    BY <1>3, <2>2, <2>3
<1>10. QED
  BY <1>6, <1>7, <1>9 DEF plan

(* What the exchange of the locks does to a dataset. *)
Exchanged(i, uris, d) ==
    [d EXCEPT !.lock = IF d.uri \in uris THEN [job |-> i, flag |-> "TODELETE"]
                       ELSE IF d.lock = [job |-> i, flag |-> "INIT"] THEN Free ELSE @]

LEMMA ExchangedIs ==
    ASSUME OrdersInv, CatalogueInv, NEW i \in Job, job[i].state = "CREATED", NEW uris, Exchanges(i, uris),
           NEW d \in datasets
    PROVE  /\ SameData(d, Exchanged(i, uris, d))
           /\ \/ /\ d.uri \in uris
                 /\ Exchanged(i, uris, d).lock = [job |-> i, flag |-> "TODELETE"]
                 /\ HeldBy(Exchanged(i, uris, d), i, "CONSOLIDATIONINPROGRESS")
              \/ /\ d.uri \notin uris /\ Exchanged(i, uris, d).lock = Free
                 /\ Unlocked(Exchanged(i, uris, d)) /\ d.lock.job = i
              \/ d.uri \notin uris /\ Exchanged(i, uris, d) = d /\ d.lock.job # i
<1>1. d = [uri |-> d.uri, rec |-> d.rec, cell |-> d.cell, zone |-> d.zone, fmt |-> d.fmt,
           shape |-> d.shape, status |-> d.status, lock |-> d.lock]
  BY DEF OrdersInv, Rows
<1>2. \/ Unlocked(d)
      \/ d.lock.job # i /\ d.lock.job \in Job
      \/ d.lock = [job |-> i, flag |-> "INIT"] /\ d.status = "ACTIVE"
  BY LockIs DEF CatalogueInv, HeldBy, Consolidating
<1>3. CASE d.uri \in uris
  <2>1. d.lock.job \in {i, "nobody"}
    BY <1>3 DEF Exchanges
  <2>2. d.status = "ACTIVE"
    BY <1>2, <2>1, OrdersAssumption DEF Unlocked
  <2>3. Exchanged(i, uris, d) = [uri |-> d.uri, rec |-> d.rec, cell |-> d.cell, zone |-> d.zone, fmt |-> d.fmt,
                                 shape |-> d.shape, status |-> "ACTIVE", lock |-> [job |-> i, flag |-> "TODELETE"]]
    BY <1>1, <1>3, <2>2 DEF Exchanged
  <2>4. PICK r : r = Exchanged(i, uris, d)
    OBVIOUS
  <2>5. QED
    BY <1>3, <2>3, <2>4 DEF SameData, HeldBy, Consolidating
<1>4. CASE d.uri \notin uris /\ d.lock = [job |-> i, flag |-> "INIT"] /\ d.status = "ACTIVE"
  <2>1. Exchanged(i, uris, d) = [uri |-> d.uri, rec |-> d.rec, cell |-> d.cell, zone |-> d.zone, fmt |-> d.fmt,
                                 shape |-> d.shape, status |-> "ACTIVE", lock |-> Free]
    BY <1>1, <1>4 DEF Exchanged
  <2>2. PICK r : r = Exchanged(i, uris, d)
    OBVIOUS
  <2>3. QED
    BY <1>4, <2>1, <2>2 DEF SameData, Unlocked
<1>5. CASE d.uri \notin uris /\ d.lock.job # i
  <2>1. Exchanged(i, uris, d) = d
    BY <1>1, <1>5 DEF Exchanged
  <2>2. QED
    BY <1>5, <2>1 DEF SameData
<1>6. Unlocked(d) => d.lock.job # i
  BY OrdersAssumption DEF Unlocked, Free
<1>7. QED
  BY <1>2, <1>3, <1>4, <1>5, <1>6

LEMMA ExchangeRenews ==
    ASSUME OrdersInv, CatalogueInv, NEW i \in Job, job[i].state = "CREATED", NEW uris, Exchanges(i, uris)
    PROVE  Renews(datasets, [d \in datasets |-> Exchanged(i, uris, d)])
<1> DEFINE change == [d \in datasets |-> Exchanged(i, uris, d)]
<1>1. datasets' = {Exchanged(i, uris, d) : d \in datasets}
  BY DEF Exchanges, Exchanged
<1>2. \A d \in datasets : change[d] = Exchanged(i, uris, d)
  OBVIOUS
<1>3. \A d \in datasets : SameData(d, Exchanged(i, uris, d))
  BY ExchangedIs
<1> HIDE DEF change
<1>4. Renews(datasets, change)
  BY <1>1, <1>2, <1>3 DEF Renews
<1>5. QED
  BY <1>4 DEF change

(* The orders that are made have new names. *)
LEMMA MadeOrders ==
    ASSUME OrdersInv, CatalogueInv, NEW i \in Job, NEW orders, IsFiniteSet(orders),
           \A o \in orders :
                /\ o[1] \in Cell /\ o[2] \in Seq(OrderRecord)
                /\ \A n \in 1..Len(o[2]) : o[2][n].shape \subseteq Area[o[1]]
                /\ o = <<o[1], o[2]>>,
           NEW O, O = OrdersMade(Names(orders), orders),
           nextUri' = nextUri + Cardinality(orders),
           job'[i].orders = O, \A j \in Job : j # i => job'[j] = job[j],
           \A e \in datasets' : \E d \in datasets : d.uri = e.uri
    PROVE  OrderTypes' /\ NewNames' /\ nextUri' \in Nat /\ nextUri' >= nextUri
<1> DEFINE n == Cardinality(orders)
           E == Cardinality(External)
           name == Names(orders)
<1>1. UserTypes /\ DatasetTypes /\ OrderTypes /\ NewNames
  BY DEF CatalogueInv
<1>2. n \in Nat /\ E \in Nat /\ nextUri \in Nat /\ nextUri >= E /\ nextUri' = nextUri + n
  BY <1>1, OrdersAssumption, FS_CardinalityType DEF UserTypes
<1>3. /\ \A o \in orders : name[o] \in nextUri..(nextUri + n - 1)
      /\ \A o, p \in orders : name[o] = name[p] => o = p
  BY <1>2, NamesAre
<1> HIDE DEF n, E, name
<1>4. ASSUME NEW u \in E..(nextUri - 1) PROVE u \in E..(nextUri' - 1)
  BY <1>2
<1>5. ASSUME NEW u \in nextUri..(nextUri + n - 1) PROVE u \in E..(nextUri' - 1) /\ u \in Nat /\ u >= nextUri
  BY <1>2
<1>6. ASSUME NEW o \in O
      PROVE  \E p \in orders : o.uri = name[p] /\ o.cell = p[1] /\ o.records = p[2]
                               /\ o = [uri |-> name[p], cell |-> p[1], records |-> p[2]]
  BY <1>6 DEF OrdersMade, name
<1>7. ASSUME NEW o \in O
      PROVE  /\ o.uri \in E..(nextUri' - 1) /\ o.uri \in Nat /\ o.uri >= nextUri /\ o.cell \in Cell
             /\ o.records \in Seq(OrderRecord)
             /\ \A m \in 1..Len(o.records) : o.records[m].shape \subseteq Area[o.cell]
  <2>1. PICK p \in orders : o.uri = name[p] /\ o.cell = p[1] /\ o.records = p[2]
    BY <1>6
  <2>2. QED
    BY <1>3, <1>5, <2>1
<1>8. \A o, p \in O : o.uri = p.uri => o = p
  BY <1>3, <1>6
<1>9. ASSUME NEW j \in Job, NEW o \in job[j].orders
      PROVE  o.uri \in E..(nextUri - 1) /\ o.uri < nextUri
  <2>1. o.uri \in E..(nextUri - 1)
    BY <1>1 DEF OrderTypes, E
  <2>2. QED
    BY <1>2, <2>1
<1>10. ASSUME NEW d \in datasets PROVE d.uri \in Nat /\ d.uri < nextUri
  <2>1. d.uri \in Nat
    BY NamesAreNaturals
  <2>2. d.uri \in 0..(Given - 1) \/ d.uri \in E..(nextUri - 1)
    BY <1>1 DEF DatasetTypes, E
  <2>3. Given \in Int /\ Given <= E
    <3>1. IsFiniteSet(toIndex)
      BY <1>1, OrdersAssumption, FS_Subset DEF UserTypes
    <3>2. Cardinality(toIndex) \in Nat
      BY <3>1, FS_CardinalityType
    <3>3. Given = E - Cardinality(toIndex)
      BY DEF Given, E
    <3>4. QED
      BY <1>2, <3>2, <3>3
  <2>4. QED
    BY <1>2, <2>1, <2>2, <2>3
<1>11. OrderTypes'
  <2>1. ASSUME NEW j \in Job, NEW o \in job'[j].orders
        PROVE  /\ o.uri \in E..(nextUri' - 1) /\ o.cell \in Cell
               /\ o.records \in Seq(OrderRecord)
               /\ \A m \in 1..Len(o.records) : o.records[m].shape \subseteq Area[o.cell]
    <3>1. CASE j = i
      BY <1>7, <2>1, <3>1
    <3>2. CASE j # i
      <4>1. o \in job[j].orders
        BY <2>1, <3>2
      <4>2. QED
        BY <1>1, <1>4, <1>9, <4>1 DEF OrderTypes
    <3>3. QED
      BY <3>1, <3>2
  <2>2. QED
    BY <2>1 DEF OrderTypes, E
<1>12. NewNames'
  <2>1. ASSUME NEW j \in Job, NEW o \in job'[j].orders
        PROVE  \/ j = i /\ o \in O /\ o.uri \in Nat /\ o.uri >= nextUri
               \/ j # i /\ o \in job[j].orders /\ o.uri < nextUri
    BY <1>7, <1>9, <2>1
  <2>2. ASSUME NEW j \in Job, NEW o \in job'[j].orders, NEW e \in datasets'
        PROVE  e.uri # o.uri
    <3>1. PICK d \in datasets : d.uri = e.uri
      OBVIOUS
    <3>2. CASE j = i /\ o \in O /\ o.uri \in Nat /\ o.uri >= nextUri
      <4>1. d.uri \in Nat /\ d.uri < nextUri
        BY <1>10
      <4>2. QED
        BY <1>2, <3>1, <3>2, <4>1
    <3>3. CASE j # i /\ o \in job[j].orders
      BY <1>1, <3>1, <3>3 DEF NewNames
    <3>4. QED
      BY <2>1, <3>2, <3>3
  <2>3. ASSUME NEW j \in Job, NEW k \in Job, NEW o \in job'[j].orders, NEW q \in job'[k].orders, o.uri = q.uri
        PROVE  j = k /\ o = q
    <3>1. CASE j = i /\ k = i
      BY <1>8, <2>1, <2>3, <3>1
    <3>2. CASE j # i /\ k # i
      <4>1. o \in job[j].orders /\ q \in job[k].orders
        BY <2>1, <3>2
      <4>2. QED
        BY <1>1, <2>3, <4>1 DEF NewNames
    <3>3. CASE (j = i /\ k # i) \/ (j # i /\ k = i)
      <4>1. PICK u : u = o.uri /\ u = q.uri
        BY <2>3
      <4>2. u \in Nat /\ u >= nextUri /\ u < nextUri
        BY <2>1, <3>3, <4>1
      <4>3. QED
        BY <1>2, <4>2
    <3>4. QED
      BY <3>1, <3>2, <3>3
  <2>4. QED
    BY <2>2, <2>3 DEF NewNames
<1>13. nextUri' \in Nat /\ nextUri' >= nextUri
  BY <1>2
<1>14. QED
  BY <1>11, <1>12, <1>13

LEMMA PrepareNames ==
    ASSUME OrdersInv, CatalogueInv, NEW i \in Job, csldPrepareOrders(i)
    PROVE  CatalogueInv'
<1>1. job[i].state = "CREATED" /\ UNCHANGED <<toIndex, format, maxRecords>>
  BY DEF csldPrepareOrders
<1>2. JobRows
  BY DEF OrdersInv, Rows, JobRows
<1>3. /\ job[i].fmt \in Format /\ job[i].listed \in SUBSET Nat
      /\ "INITIALISATIONFAILED" \in JobState /\ "CONSOLIDATIONINPROGRESS" \in JobState
  BY DEF CatalogueInv, JobTypes, JobState
<1>4. CASE /\ job' = [job EXCEPT ![i].state = "INITIALISATIONFAILED"]
           /\ datasets' = datasets /\ nextUri' = nextUri
  <2>1. Becomes(i, "INITIALISATIONFAILED", job[i].fmt, job[i].listed, job[i].orders)
    BY <1>2, <1>4, StateField
  <2>2. \A d \in datasets : HeldBy(d, i, job[i].state) => HeldBy(d, i, "INITIALISATIONFAILED")
    BY <1>1 DEF HeldBy, Consolidating
  <2>3. QED
    BY <1>1, <1>3, <1>4, <2>1, <2>2, JobMoves
<1>5. ASSUME NEW sorted, \A c \in Cell : sorted[c] \in Sortings(Candidates(i, c)),
             Prepared(i, PlanOf(i, sorted))
      PROVE  CatalogueInv'
  <2> DEFINE plan == PlanOf(i, sorted)
             uris == Replaced(i, plan)
             orders == ChunksOfPlan(plan)
             O == OrdersMade(Names(orders), orders)
             change == [d \in datasets |-> Exchanged(i, uris, d)]
  <2>1. /\ IsFiniteSet(orders)
        /\ \A o \in orders :
                /\ o[1] \in Cell /\ o[2] \in Seq(OrderRecord)
                /\ \A n \in 1..Len(o[2]) : o[2][n].shape \subseteq Area[o[1]]
                /\ o = <<o[1], o[2]>>
    BY <1>5, PlannedIs
  <2>2. /\ Exchanges(i, uris) /\ nextUri' = nextUri + Cardinality(orders)
        /\ job' = [job EXCEPT ![i].state = "CONSOLIDATIONINPROGRESS", ![i].orders = O]
    BY <1>5 DEF Prepared
  <2>3. O = OrdersMade(Names(orders), orders)
    OBVIOUS
  <2> HIDE DEF plan, uris, orders, O
  <2>4. Becomes(i, "CONSOLIDATIONINPROGRESS", job[i].fmt, job[i].listed, O)
    BY <1>2, <2>2, EndedFields
  <2>5. /\ \A j \in Job : j # i => job'[j] = job[j]
        /\ job'[i].state = "CONSOLIDATIONINPROGRESS" /\ job'[i].fmt = job[i].fmt /\ job'[i].listed = job[i].listed
        /\ job'[i].orders = O
    BY <2>4 DEF Becomes, Row
  <2>6. Renews(datasets, change)
    BY <1>1, <2>2, ExchangeRenews
  <2>7. \A d \in datasets : \/ Unlocked(change[d])
                            \/ HeldBy(change[d], i, "CONSOLIDATIONINPROGRESS")
                            \/ change[d] = d /\ d.lock.job # i
    <3>1. \A d \in datasets : change[d] = Exchanged(i, uris, d)
      OBVIOUS
    <3> HIDE DEF change
    <3>2. \A d \in datasets : \/ Unlocked(Exchanged(i, uris, d))
                              \/ HeldBy(Exchanged(i, uris, d), i, "CONSOLIDATIONINPROGRESS")
                              \/ Exchanged(i, uris, d) = d /\ d.lock.job # i
      BY <1>1, <2>2, ExchangedIs
    <3>3. QED
      BY <3>1, <3>2
  <2> HIDE DEF change
  <2>8. \A e \in datasets' : \E d \in datasets : d.uri = e.uri
    BY <2>6 DEF Renews, SameData
  <2>9. OrderTypes' /\ NewNames' /\ nextUri' \in Nat /\ nextUri' >= nextUri
    BY <2>1, <2>2, <2>3, <2>5, <2>8, MadeOrders
  <2>10. UserTypes /\ DatasetTypes /\ OwnNames /\ JobTypes /\ LocksInv
    BY DEF CatalogueInv
  <2>11. DatasetTypes' /\ OwnNames'
    BY <1>1, <2>6, <2>9, <2>10, RenewedData
  <2>12. LocksInv'
    BY <2>5, <2>6, <2>7, <2>10, LocksAfter
  <2>13. JobTypes'
    BY <1>3, <2>5, <2>10 DEF JobTypes
  <2>14. UserTypes'
    <3>1. Cardinality(External) \in Nat
      BY OrdersAssumption, FS_CardinalityType
    <3>2. QED
      BY <1>1, <2>9, <2>10, <3>1 DEF UserTypes
  <2>15. QED
    BY <2>9, <2>11, <2>12, <2>13, <2>14 DEF CatalogueInv
<1>6. QED
  BY <1>4, <1>5, PrepareOutcome

LEMMA CatalogueStep == OrdersInv /\ CatalogueInv /\ [Next]_vars => CatalogueInv'
<1> SUFFICES ASSUME OrdersInv, CatalogueInv, [Next]_vars PROVE CatalogueInv'
  OBVIOUS
<1>1. CASE UNCHANGED vars
  BY <1>1 DEF vars, CatalogueInv, UserTypes, DatasetTypes, OwnNames, OrderTypes, NewNames, JobTypes, LocksInv, Given
<1>2. CASE Next
  BY <1>2, ExternalNames, ConfigNames, ListNames, CreationNames, PrepareNames, IndexNames, IndexedNames,
     SwapNames, DeleteNames, RollbackNames DEF Next
<1>3. QED
  BY <1>1, <1>2

LEMMA TypesHold == OrdersInv /\ CatalogueInv => TypeOK
<1> SUFFICES ASSUME OrdersInv, CatalogueInv PROVE TypeOK
  OBVIOUS
<1>1. ASSUME NEW d \in datasets PROVE d \in Dataset
  <2>1. d = [uri |-> d.uri, rec |-> d.rec, cell |-> d.cell, zone |-> d.zone, fmt |-> d.fmt,
             shape |-> d.shape, status |-> d.status, lock |-> d.lock]
    BY DEF OrdersInv, Rows
  <2>2. /\ d.rec \in Record /\ d.cell \in Cell \cup {NoCell} /\ d.zone \in Range(Zone) \cup {"user"}
        /\ d.fmt \in Format \cup {"user"} /\ d.shape \in SUBSET Point
    BY DEF CatalogueInv, DatasetTypes
  <2>3. d.uri \in Nat
    BY NamesAreNaturals
  <2>4. /\ d.status \in {"ACTIVE", "INACTIVE", "TODELETE"}
        /\ d.lock \in [job : Job, flag : {"INIT", "NEW", "TODELETE"}] \cup {Free}
    <3>1. Unlocked(d) \/ \E j \in Job : HeldBy(d, j, job[j].state)
      BY DEF CatalogueInv, LocksInv
    <3>2. CASE Unlocked(d)
      BY <3>2 DEF Unlocked
    <3>3. ASSUME NEW j \in Job, HeldBy(d, j, job[j].state)
          PROVE  /\ d.status \in {"ACTIVE", "INACTIVE", "TODELETE"}
                 /\ d.lock \in [job : Job, flag : {"INIT", "NEW", "TODELETE"}]
      <4>1. PICK flag \in {"INIT", "NEW", "TODELETE"} : d.lock = [job |-> j, flag |-> flag]
        BY <3>3 DEF HeldBy
      <4>2. d.status \in {"ACTIVE", "INACTIVE", "TODELETE"}
        BY <3>3 DEF HeldBy
      <4>3. QED
        BY <4>1, <4>2
    <3>4. QED
      BY <3>1, <3>2, <3>3
  <2>5. PICK u, r, c, z, f, p, s, l :
            /\ u = d.uri /\ r = d.rec /\ c = d.cell /\ z = d.zone /\ f = d.fmt /\ p = d.shape
            /\ s = d.status /\ l = d.lock
    OBVIOUS
  <2>6. d = [uri |-> u, rec |-> r, cell |-> c, zone |-> z, fmt |-> f, shape |-> p, status |-> s, lock |-> l]
    BY <2>1, <2>5
  <2>7. QED
    BY <2>2, <2>3, <2>4, <2>5, <2>6 DEF Dataset
<1>2. ASSUME NEW j \in Job, NEW o \in job[j].orders
      PROVE  o.uri \in 0..(nextUri - 1) /\ o.cell \in Cell /\ o.records \in Seq(OrderRecord)
  <2>1. o.uri \in Cardinality(External)..(nextUri - 1) /\ o.cell \in Cell /\ o.records \in Seq(OrderRecord)
    BY DEF CatalogueInv, OrderTypes
  <2>2. Cardinality(External) \in Nat /\ nextUri \in Nat
    BY OrdersAssumption, FS_CardinalityType DEF CatalogueInv, UserTypes
  <2>3. QED
    BY <2>1, <2>2
<1>3. \A j \in Job : job[j].state \in JobState /\ job[j].fmt \in Format /\ job[j].listed \subseteq Nat
  BY DEF CatalogueInv, JobTypes
<1>4. toIndex \subseteq External /\ format \in Format /\ maxRecords \in Depths /\ nextUri \in Nat
  BY DEF CatalogueInv, UserTypes
<1>5. OrdersFit /\ datasets \subseteq Dataset
  BY <1>1 DEF OrdersInv
<1>6. QED
  BY <1>2, <1>3, <1>4, <1>5 DEF TypeOK

(* The types, with names that the catalogue never gives twice, and locks     *)
(* that tell where the job that holds them is: a container that is indexed   *)
(* has a new name, whatever the jobs that were rolled back before.           *)
THEOREM OrderTypesHold == Spec => []TypeOK
<1>1. Spec => [](OrdersInv /\ CatalogueInv)
  BY OrdersInit, OrdersStep, CatalogueInit, CatalogueStep, PTL DEF Spec
<1>2. QED
  BY <1>1, TypesHold, PTL

-----------------------------------------------------------------------------
(* What a job replaces is copied, when the cells are those of one reference  *)
(* system and share no point.  Without it they are not (OverlapLoss.cfg).    *)
Paving == \A c, d \in Cell : c # d => Zone[c] = Zone[d] /\ Area[c] \cap Area[d] = {}

(* Containers having one dataset each, the candidates are those that were    *)
(* found: none is added to complete a container.                             *)
LEMMA CandidatesAre ==
    ASSUME OwnNames, NEW i \in Job, NEW c \in Cell, NEW d \in Candidates(i, c)
    PROVE  d \in datasets /\ Covers(c, d)
<1> DEFINE found == {e \in LockedBy(i, "INIT") : e.status = "ACTIVE" /\ Covers(c, e)}
           complete == {e \in datasets : \E f \in found : ~NeedsAlone(f, c, job[i].fmt) /\ e.uri = f.uri}
<1>1. d \in found \/ d \in complete
  BY DEF Candidates
<1>2. \A f \in found : f \in datasets /\ Covers(c, f)
  BY DEF LockedBy
<1>3. d \in complete => d \in found
  <2>1. ASSUME d \in complete PROVE d \in datasets /\ \E f \in found : d.uri = f.uri
    BY <2>1
  <2> HIDE DEF found, complete
  <2>2. QED
    BY <1>2, <2>1 DEF OwnNames
<1> HIDE DEF found, complete
<1>4. QED
  BY <1>1, <1>2, <1>3

(* What is kept of the candidates of a cell. *)
KeptIn(i, sorted, c) ==
    ExcludeFullContainers(sorted[c],
        {d.uri : d \in {e \in Candidates(i, c) : NeedsAlone(e, c, job[i].fmt)}}, maxRecords)

LEMMA KeptIsPlanned ==
    ASSUME OrdersInv, CatalogueInv, NEW i \in Job, NEW sorted, NEW c \in Cell,
           sorted[c] \in Sortings(Candidates(i, c)), NEW d \in KeptIn(i, sorted, c), NEW p \in d.shape \cap Area[c]
    PROVE  \E n \in 1..Len(PlanOf(i, sorted)[c]) :
                PlanOf(i, sorted)[c][n].rec = d.rec /\ p \in PlanOf(i, sorted)[c][n].shape
<1> DEFINE needs == {e.uri : e \in {f \in Candidates(i, c) : NeedsAlone(f, c, job[i].fmt)}}
<1>1. PlanOf(i, sorted)[c] = Records(KeptIn(i, sorted, c), c)
  BY DEF PlanOf, KeptIn
<1>2. d \in datasets
  <2>1. Candidates(i, c) \subseteq datasets
    BY CandidatesHeld
  <2>2. IsFiniteSet(Candidates(i, c))
    BY <2>1, FS_Subset DEF OrdersInv, Rows
  <2>3. d \in ExcludeFullContainers(sorted[c], needs, maxRecords)
    BY DEF KeptIn
  <2> HIDE DEF needs
  <2>4. ExcludeFullContainers(sorted[c], needs, maxRecords) \subseteq Candidates(i, c)
    BY <2>2, KeptWereCandidates
  <2>5. QED
    BY <2>1, <2>3, <2>4
<1>3. d.rec \in Record
  BY <1>2 DEF CatalogueInv, DatasetTypes
<1>4. QED
  BY <1>1, <1>3, RecordsAre

LEMMA ReplacedWasKept ==
    ASSUME OrdersInv, CatalogueInv, NEW i \in Job, NEW sorted,
           \A c \in Cell : sorted[c] \in Sortings(Candidates(i, c)),
           NEW d \in datasets, d.uri \in Replaced(i, PlanOf(i, sorted))
    PROVE  \E c \in Cell : d \in KeptIn(i, sorted, c) /\ d \in Candidates(i, c)
<1> DEFINE plan == PlanOf(i, sorted)
<1>1. PICK c \in Cell : d.uri \in Sources(plan[c])
  BY DEF Replaced
<1>2. PICK n \in 1..Len(plan[c]) : d.uri \in plan[c][n].from
  BY <1>1 DEF Sources
<1>3. plan[c] = Records(KeptIn(i, sorted, c), c)
  BY DEF PlanOf, KeptIn
<1> HIDE DEF plan
<1>4. plan[c][n].from \subseteq {e.uri : e \in KeptIn(i, sorted, c)}
  BY <1>3, RecordsOf
<1>5. PICK e \in KeptIn(i, sorted, c) : e.uri = d.uri
  BY <1>2, <1>4
<1>6. e \in Candidates(i, c)
  <2> DEFINE needs == {f.uri : f \in {g \in Candidates(i, c) : NeedsAlone(g, c, job[i].fmt)}}
  <2>1. Candidates(i, c) \subseteq datasets
    BY CandidatesHeld
  <2>2. IsFiniteSet(Candidates(i, c))
    BY <2>1, FS_Subset DEF OrdersInv, Rows
  <2>3. e \in ExcludeFullContainers(sorted[c], needs, maxRecords)
    BY DEF KeptIn
  <2> HIDE DEF needs
  <2>4. ExcludeFullContainers(sorted[c], needs, maxRecords) \subseteq Candidates(i, c)
    BY <2>2, KeptWereCandidates
  <2>5. QED
    BY <2>3, <2>4
<1>7. e = d
  BY <1>5, <1>6, CandidatesHeld DEF CatalogueInv, OwnNames
<1>8. QED
  BY <1>5, <1>6, <1>7

(* A dataset that a user indexed is merged in every cell it shares a point   *)
(* with; a consolidated one in its own cell only.                            *)
LEMMA PlanCopies ==
    ASSUME Paving, OrdersInv, CatalogueInv, NEW i \in Job, NEW sorted,
           \A c \in Cell : sorted[c] \in Sortings(Candidates(i, c)),
           NEW d \in datasets, d.uri \in Replaced(i, PlanOf(i, sorted)), NEW p \in d.shape
    PROVE  \E c \in Cell : \E n \in 1..Len(PlanOf(i, sorted)[c]) :
                PlanOf(i, sorted)[c][n].rec = d.rec /\ p \in PlanOf(i, sorted)[c][n].shape
<1>1. PICK c0 \in Cell : d \in KeptIn(i, sorted, c0) /\ d \in Candidates(i, c0)
  BY ReplacedWasKept
<1>2. Covers(c0, d)
  BY <1>1, CandidatesAre DEF CatalogueInv
<1>3. /\ d.shape \in SUBSET Point /\ d.cell \in Cell \cup {NoCell}
      /\ d.cell # NoCell => d.shape \subseteq Area[d.cell] /\ d.zone = Zone[d.cell]
  BY DEF CatalogueInv, DatasetTypes
<1>4. CASE d.cell # NoCell
  <2>1. d.cell \in Cell /\ d.shape \subseteq Area[d.cell] /\ d.zone = Zone[d.cell]
    BY <1>3, <1>4
  <2>2. c0 = d.cell
    BY <1>2, <2>1 DEF Covers, Paving
  <2>3. p \in d.shape \cap Area[c0]
    BY <2>1, <2>2
  <2>4. QED
    BY <1>1, <2>3, KeptIsPlanned
<1>5. CASE d.cell = NoCell
  <2>1. PICK c \in Cell : p \in Area[c]
    BY <1>3, OrdersAssumption
  <2>2. NeedsAlone(d, c, job[i].fmt) /\ Area[c] \in SUBSET Point
    BY <1>5, OrdersAssumption DEF NeedsAlone
  <2>3. Covers(c, d)
    <3>1. p \in Box(d.shape) /\ p \in Box(Area[c])
      BY <1>3, <2>1, <2>2, BoxHas
    <3>2. QED
      BY <2>1, <3>1 DEF Covers
  <2>4. d \in LockedBy(i, "INIT") /\ d.status = "ACTIVE"
    <3>1. PICK f \in LockedBy(i, "INIT") \cap Active : f.uri = d.uri
      BY <1>1, CandidatesHeld
    <3>2. f = d
      BY <3>1 DEF CatalogueInv, OwnNames, LockedBy
    <3>3. QED
      BY <3>1, <3>2 DEF Active
  <2> DEFINE needs == {e.uri : e \in {f \in Candidates(i, c) : NeedsAlone(f, c, job[i].fmt)}}
  <2>5. d \in Candidates(i, c)
    BY <2>2, <2>3, <2>4 DEF Candidates
  <2>6. d.uri \in needs
    BY <2>2, <2>5
  <2>7. IsFiniteSet(Candidates(i, c)) /\ maxRecords \in Nat \ {0}
    <3>1. Candidates(i, c) \subseteq datasets
      BY CandidatesHeld
    <3>2. QED
      BY <3>1, FS_Subset DEF OrdersInv, Rows
  <2>8. KeptIn(i, sorted, c) = ExcludeFullContainers(sorted[c], needs, maxRecords)
    BY DEF KeptIn
  <2> HIDE DEF needs
  <2>9. d \in KeptIn(i, sorted, c)
    BY <2>5, <2>6, <2>7, <2>8, NeedyCandidatesKept
  <2>10. QED
    BY <2>1, <2>9, KeptIsPlanned
<1>6. QED
  BY <1>4, <1>5

LEMMA OrdersCopy ==
    ASSUME Paving, OrdersInv, CatalogueInv, NEW i \in Job, NEW sorted,
           \A c \in Cell : sorted[c] \in Sortings(Candidates(i, c)),
           NEW d \in datasets, d.uri \in Replaced(i, PlanOf(i, sorted)), NEW p \in d.shape, NEW name
    PROVE  \E o \in OrdersMade(name, ChunksOfPlan(PlanOf(i, sorted))) :
              \E n \in 1..Len(o.records) : o.records[n].rec = d.rec /\ p \in o.records[n].shape
<1> DEFINE plan == PlanOf(i, sorted)
<1>1. PICK c \in Cell : \E n \in 1..Len(plan[c]) : plan[c][n].rec = d.rec /\ p \in plan[c][n].shape
  BY PlanCopies
<1>2. PICK n \in 1..Len(plan[c]) : plan[c][n].rec = d.rec /\ p \in plan[c][n].shape
  BY <1>1
<1>3. plan[c] \in Seq(OrderRecord) /\ maxRecords \in Nat \ {0}
  BY PlanIs DEF OrdersInv, Rows
<1> HIDE DEF plan
<1>4. PICK k \in Chunks(plan[c], maxRecords) : \E m \in 1..Len(k) : k[m] = plan[c][n]
  BY <1>3, ChunkHas
<1>5. PICK m \in 1..Len(k) : k[m] = plan[c][n]
  BY <1>4
<1> DEFINE q == <<c, k>>
<1>6. q \in ChunksOfPlan(plan) /\ q[2] = k
  <2> DEFINE T(b) == {<<b, l>> : l \in Chunks(plan[b], maxRecords)}
             all == {T(b) : b \in Cell}
  <2>1. q \in T(c) /\ q[2] = k
    OBVIOUS
  <2> HIDE DEF T
  <2>2. T(c) \in all
    OBVIOUS
  <2>3. ChunksOfPlan(plan) = UNION all
    BY DEF ChunksOfPlan, T
  <2> HIDE DEF all
  <2>4. QED
    BY <2>1, <2>2, <2>3
<1> HIDE DEF q
<1>7. PICK o \in OrdersMade(name, ChunksOfPlan(plan)) : o.records = k
  <2> DEFINE order(b) == [uri |-> name[b], cell |-> b[1], records |-> b[2]]
  <2>1. OrdersMade(name, ChunksOfPlan(plan)) = {order(b) : b \in ChunksOfPlan(plan)}
    BY DEF OrdersMade
  <2>2. order(q).records = k
    BY <1>6
  <2> HIDE DEF order
  <2>3. order(q) \in OrdersMade(name, ChunksOfPlan(plan))
    BY <1>6, <2>1
  <2>4. QED
    BY <2>2, <2>3
<1>8. o.records[m].rec = d.rec /\ p \in o.records[m].shape /\ m \in 1..Len(o.records)
  BY <1>2, <1>5, <1>7
<1>9. QED
  BY <1>8 DEF plan

CopiedAt(j, r, p) ==
    \/ \E e \in datasets : e.lock = [job |-> j, flag |-> "NEW"] /\ e.rec = r /\ p \in e.shape
    \/ \E o \in job[j].orders : \E n \in 1..Len(o.records) : o.records[n].rec = r /\ p \in o.records[n].shape

JobCopied(j) ==
    job[j].state \in {"CONSOLIDATIONINPROGRESS", "CONSOLIDATIONINDEXED"} =>
        \A d \in datasets : d.lock = [job |-> j, flag |-> "TODELETE"] =>
            \A p \in d.shape : CopiedAt(j, d.rec, p)

(* DeletedIsCopied, point by point. *)
CopiesInv == \A j \in Job : JobCopied(j)

LEMMA CopiedIs ==
    ASSUME NEW j \in Job, NEW r
    PROVE  \A p : p \in Copied(j, r) <=> CopiedAt(j, r, p)
<1> DEFINE built == {d.shape : d \in {e \in LockedBy(j, "NEW") : e.rec = r}}
           shapes(o) == {o.records[n].shape : n \in {m \in 1..Len(o.records) : o.records[m].rec = r}}
           all == {shapes(o) : o \in job[j].orders}
<1>1. Copied(j, r) = UNION (built \cup UNION all)
  BY DEF Copied
<1>2. \A x : x \in built <=> \E e \in datasets : e.lock = [job |-> j, flag |-> "NEW"] /\ e.rec = r /\ x = e.shape
  BY DEF LockedBy
<1>3. \A x, o : x \in shapes(o) <=> \E n \in 1..Len(o.records) : o.records[n].rec = r /\ x = o.records[n].shape
  OBVIOUS
<1>4. \A x : x \in UNION all <=> \E o \in job[j].orders : x \in shapes(o)
  <2> HIDE DEF shapes
  <2>1. QED
    OBVIOUS
<1> HIDE DEF built, shapes, all
<1>5. \A p : p \in Copied(j, r) <=> \E x : p \in x /\ (x \in built \/ x \in UNION all)
  BY <1>1
<1>6. \A p : (\E x \in built : p \in x) <=>
             \E e \in datasets : e.lock = [job |-> j, flag |-> "NEW"] /\ e.rec = r /\ p \in e.shape
  BY <1>2
<1>7. \A p : (\E x \in UNION all : p \in x) <=>
             \E o \in job[j].orders : \E n \in 1..Len(o.records) : o.records[n].rec = r /\ p \in o.records[n].shape
  <2>1. ASSUME NEW x \in UNION all, NEW p \in x
        PROVE  \E o \in job[j].orders : \E n \in 1..Len(o.records) : o.records[n].rec = r /\ p \in o.records[n].shape
    <3>1. PICK o \in job[j].orders : x \in shapes(o)
      BY <1>4
    <3>2. PICK n \in 1..Len(o.records) : o.records[n].rec = r /\ x = o.records[n].shape
      BY <1>3, <3>1
    <3>3. QED
      BY <3>2
  <2>2. ASSUME NEW o \in job[j].orders, NEW n \in 1..Len(o.records), NEW p,
               o.records[n].rec = r /\ p \in o.records[n].shape
        PROVE  \E x \in UNION all : p \in x
    <3>1. o.records[n].shape \in shapes(o)
      BY <1>3, <2>2
    <3>2. o.records[n].shape \in UNION all
      BY <1>4, <3>1
    <3>3. QED
      BY <2>2, <3>2
  <2>3. QED
    BY <2>1, <2>2
<1>8. QED
  BY <1>5, <1>6, <1>7 DEF CopiedAt

LEMMA CopiesMean == CopiesInv => DeletedIsCopied
<1> SUFFICES ASSUME CopiesInv, NEW j \in Job, NEW d \in LockedBy(j, "TODELETE"),
                    job[j].state \in {"CONSOLIDATIONINPROGRESS", "CONSOLIDATIONINDEXED"}, NEW p \in d.shape
             PROVE  p \in Copied(j, d.rec)
  BY DEF DeletedIsCopied
<1>1. CopiedAt(j, d.rec, p)
  BY DEF CopiesInv, JobCopied, LockedBy
<1>2. QED
  BY <1>1, CopiedIs

(* A step of a job touches its own locks, and takes free datasets. *)
TouchesOnly(i) ==
    /\ \A e \in datasets' : e \in datasets \/ e.lock.job \in {i, "nobody"}
    /\ \A d \in datasets : d \in datasets' \/ d.lock.job \in {i, "nobody"}

LEMMA OthersCopied ==
    ASSUME CopiesInv, NEW i, \A j \in Job : j # i => job'[j] = job[j], TouchesOnly(i)
    PROVE  \A j \in Job : j # i => JobCopied(j)'
<1> SUFFICES ASSUME NEW j \in Job, j # i,
                    job'[j].state \in {"CONSOLIDATIONINPROGRESS", "CONSOLIDATIONINDEXED"},
                    NEW d \in datasets', d.lock = [job |-> j, flag |-> "TODELETE"], NEW p \in d.shape
             PROVE  CopiedAt(j, d.rec, p)'
  BY DEF JobCopied
<1>1. j # "nobody" /\ job'[j] = job[j]
  BY OrdersAssumption
<1>2. d \in datasets
  BY <1>1 DEF TouchesOnly
<1>3. CopiedAt(j, d.rec, p)
  BY <1>1, <1>2 DEF CopiesInv, JobCopied
<1>4. \A e \in datasets : e.lock = [job |-> j, flag |-> "NEW"] => e \in datasets'
  BY <1>1 DEF TouchesOnly
<1>5. QED
  BY <1>1, <1>3, <1>4 DEF CopiedAt

(* A step of a job that leaves it out of the states where it copies. *)
LEMMA NotCopying ==
    ASSUME CopiesInv, NEW i \in Job, NEW s, NEW f, NEW L, NEW O, Becomes(i, s, f, L, O), TouchesOnly(i),
           s \notin {"CONSOLIDATIONINPROGRESS", "CONSOLIDATIONINDEXED"}
    PROVE  CopiesInv'
<1>1. \A j \in Job : j # i => job'[j] = job[j]
  BY DEF Becomes
<1>2. job'[i].state = s
  BY DEF Becomes, Row
<1>3. JobCopied(i)'
  BY <1>2 DEF JobCopied
<1>4. \A j \in Job : j # i => JobCopied(j)'
  BY <1>1, OthersCopied
<1>5. QED
  BY <1>3, <1>4 DEF CopiesInv

(* What can be read remains. *)
StillServed ==
    \A d \in datasets : d.status = "ACTIVE" =>
        \E e \in datasets' : e.status = "ACTIVE" /\ e.rec = d.rec /\ e.shape = d.shape

LEMMA UserCopies ==
    ASSUME OrdersInv, CatalogueInv, CopiesInv,
           (\E e \in External : indexExternal(e)) \/ (\E f \in Format : configConsolidation(f))
    PROVE  CopiesInv' /\ StillServed
<1>1. job' = job /\ datasets \subseteq datasets'
  BY DEF indexExternal, configConsolidation
<1>2. TouchesOnly("nobody")
  <2>1. \A e \in datasets' : e \in datasets \/ e.lock = Free
    BY DEF indexExternal, configConsolidation
  <2>2. QED
    BY <1>1, <2>1 DEF TouchesOnly, Free
<1>3. CopiesInv'
  <2>1. \A j \in Job : j # "nobody"
    BY OrdersAssumption
  <2>2. \A j \in Job : j # "nobody" => JobCopied(j)'
    BY <1>1, <1>2, OthersCopied
  <2>3. QED
    BY <2>1, <2>2 DEF CopiesInv
<1>4. StillServed
  BY <1>1 DEF StillServed
<1>5. QED
  BY <1>3, <1>4

LEMMA ListCopies ==
    ASSUME OrdersInv, CatalogueInv, CopiesInv, NEW i \in Job, NEW recs \in SUBSET Record, consolidate(i, recs)
    PROVE  CopiesInv' /\ StillServed
<1> DEFINE listed == {d.uri : d \in {e \in datasets : e.rec \in recs /\ e.status = "ACTIVE"}}
<1>1. job' = [job EXCEPT ![i].listed = listed, ![i].state = "NEW"] /\ datasets' = datasets
  BY DEF consolidate
<1> HIDE DEF listed
<1>2. Becomes(i, "NEW", job[i].fmt, listed, job[i].orders)
  <2>1. JobRows
    BY DEF OrdersInv, Rows, JobRows
  <2>2. QED
    BY <1>1, <2>1, ListedField
<1>3. TouchesOnly(i) /\ StillServed
  BY <1>1 DEF TouchesOnly, StillServed
<1>4. QED
  BY <1>2, <1>3, NotCopying

LEMMA CreationCopies ==
    ASSUME OrdersInv, CatalogueInv, CopiesInv, NEW i \in Job, csldInit(i)
    PROVE  CopiesInv' /\ StillServed
<1> DEFINE listed == {d \in datasets : d.uri \in job[i].listed}
           lock == [job |-> i, flag |-> "INIT"]
           lockd(d) == [d EXCEPT !.lock = lock]
<1>1. JobRows
  BY DEF OrdersInv, Rows, JobRows
<1>2. CASE job' = [job EXCEPT ![i].state = "FAILED"] /\ datasets' = datasets
  <2>1. Becomes(i, "FAILED", job[i].fmt, job[i].listed, job[i].orders)
    BY <1>1, <1>2, StateField
  <2>2. TouchesOnly(i) /\ StillServed
    BY <1>2 DEF TouchesOnly, StillServed
  <2>3. QED
    BY <2>1, <2>2, NotCopying
<1>3. CASE /\ datasets' = (datasets \ listed) \cup {lockd(d) : d \in listed}
           /\ job' = [job EXCEPT ![i].state = "CREATED", ![i].fmt = format]
           /\ \A d \in listed : d.lock = Free
  <2>1. Becomes(i, "CREATED", format, job[i].listed, job[i].orders)
    BY <1>1, <1>3, CreatedFields
  <2>2. ASSUME NEW d \in listed
        PROVE  /\ lockd(d).lock.job = i /\ lockd(d).status = d.status
               /\ lockd(d).rec = d.rec /\ lockd(d).shape = d.shape
    <3>1. d = [uri |-> d.uri, rec |-> d.rec, cell |-> d.cell, zone |-> d.zone, fmt |-> d.fmt,
               shape |-> d.shape, status |-> d.status, lock |-> d.lock]
      BY DEF OrdersInv, Rows
    <3>2. lockd(d) = [uri |-> d.uri, rec |-> d.rec, cell |-> d.cell, zone |-> d.zone, fmt |-> d.fmt,
                      shape |-> d.shape, status |-> d.status, lock |-> [job |-> i, flag |-> "INIT"]]
      BY <3>1
    <3> HIDE DEF lockd
    <3>3. QED
      BY <3>2
  <2>3. \A d \in listed : d.lock.job = "nobody"
    BY <1>3 DEF Free
  <2> HIDE DEF lockd, listed
  <2>4. TouchesOnly(i)
    BY <1>3, <2>2, <2>3 DEF TouchesOnly
  <2>5. StillServed
    BY <1>3, <2>2 DEF StillServed
  <2>6. QED
    BY <2>1, <2>4, <2>5, NotCopying
<1>4. QED
  BY <1>2, <1>3 DEF csldInit, Lockable

LEMMA PrepareCopies ==
    ASSUME Paving, OrdersInv, CatalogueInv, CopiesInv, NEW i \in Job, csldPrepareOrders(i)
    PROVE  CopiesInv' /\ StillServed
<1>1. job[i].state = "CREATED" /\ JobRows
  BY DEF csldPrepareOrders, OrdersInv, Rows, JobRows
<1>2. CASE /\ job' = [job EXCEPT ![i].state = "INITIALISATIONFAILED"]
           /\ datasets' = datasets /\ nextUri' = nextUri
  <2>1. Becomes(i, "INITIALISATIONFAILED", job[i].fmt, job[i].listed, job[i].orders)
    BY <1>1, <1>2, StateField
  <2>2. TouchesOnly(i) /\ StillServed
    BY <1>2 DEF TouchesOnly, StillServed
  <2>3. QED
    BY <2>1, <2>2, NotCopying
<1>3. ASSUME NEW sorted, \A c \in Cell : sorted[c] \in Sortings(Candidates(i, c)),
             Prepared(i, PlanOf(i, sorted))
      PROVE  CopiesInv' /\ StillServed
  <2> DEFINE plan == PlanOf(i, sorted)
             uris == Replaced(i, plan)
             name == Names(ChunksOfPlan(plan))
             O == OrdersMade(name, ChunksOfPlan(plan))
             new(d) == Exchanged(i, uris, d)
  <2>1. Exchanges(i, uris) /\ job' = [job EXCEPT ![i].state = "CONSOLIDATIONINPROGRESS", ![i].orders = O]
    BY <1>3 DEF Prepared
  <2>2. ASSUME NEW d \in datasets, d.uri \in uris, NEW p \in d.shape
        PROVE  \E o \in O : \E n \in 1..Len(o.records) : o.records[n].rec = d.rec /\ p \in o.records[n].shape
    <3> HIDE DEF name
    <3>1. QED
      BY <1>3, <2>2, OrdersCopy
  <2> HIDE DEF plan, name, O, uris
  <2>3. Becomes(i, "CONSOLIDATIONINPROGRESS", job[i].fmt, job[i].listed, O)
    BY <1>1, <2>1, EndedFields
  <2>4. /\ \A j \in Job : j # i => job'[j] = job[j]
        /\ job'[i].orders = O
    BY <2>3 DEF Becomes, Row
  <2>5. datasets' = {new(d) : d \in datasets}
    BY <2>1 DEF Exchanges, Exchanged
  <2>6. ASSUME NEW d \in datasets
        PROVE  /\ SameData(d, new(d))
               /\ \/ d.uri \in uris /\ new(d).lock = [job |-> i, flag |-> "TODELETE"]
                     /\ HeldBy(new(d), i, "CONSOLIDATIONINPROGRESS")
                  \/ d.uri \notin uris /\ new(d).lock = Free /\ Unlocked(new(d)) /\ d.lock.job = i
                  \/ d.uri \notin uris /\ new(d) = d /\ d.lock.job # i
               /\ d.uri \in uris => d.lock.job \in {i, "nobody"}
    <3>1. d.uri \in uris => d.lock.job \in {i, "nobody"}
      BY <2>1 DEF Exchanges
    <3>2. QED
      BY <1>1, <2>1, <3>1, ExchangedIs
  <2> HIDE DEF new
  <2>7. TouchesOnly(i)
    <3>1. \A d \in datasets : new(d) = d \/ new(d).lock.job \in {i, "nobody"}
      BY <2>6 DEF Free
    <3>2. \A d \in datasets : new(d) = d \/ d.lock.job \in {i, "nobody"}
      BY <2>6
    <3>3. QED
      BY <2>5, <3>1, <3>2 DEF TouchesOnly
  <2>8. StillServed
    <3>1. \A d \in datasets : d.status = "ACTIVE" => new(d).status = "ACTIVE"
      BY <2>6 DEF HeldBy, Unlocked
    <3>2. \A d \in datasets : new(d) \in datasets' /\ SameData(d, new(d))
      BY <2>5, <2>6
    <3>3. QED
      BY <3>1, <3>2 DEF StillServed, SameData
  <2>9. JobCopied(i)'
    <3> SUFFICES ASSUME NEW e \in datasets', e.lock = [job |-> i, flag |-> "TODELETE"], NEW p \in e.shape
                 PROVE  CopiedAt(i, e.rec, p)'
      BY DEF JobCopied
    <3>1. PICK d \in datasets : e = new(d)
      BY <2>5
    <3>2. d.uri \in uris /\ e.rec = d.rec /\ p \in d.shape
      BY <2>6, <3>1, OrdersAssumption DEF SameData, Free
    <3>3. \E o \in O : \E n \in 1..Len(o.records) : o.records[n].rec = e.rec /\ p \in o.records[n].shape
      BY <2>2, <3>2
    <3>4. QED
      BY <2>4, <3>3 DEF CopiedAt
  <2>10. \A j \in Job : j # i => JobCopied(j)'
    BY <2>4, <2>7, OthersCopied
  <2>11. QED
    BY <2>8, <2>9, <2>10 DEF CopiesInv
<1>4. QED
  BY <1>2, <1>3, PrepareOutcome

LEMMA IndexCopies ==
    ASSUME OrdersInv, CatalogueInv, CopiesInv, NEW i \in Job, NEW o \in job[i].orders, csldIndex(i, o)
    PROVE  CopiesInv' /\ StillServed
<1>1. CASE /\ Becomes(i, "CONSOLIDATIONFAILED", job[i].fmt, job[i].listed, job[i].orders)
           /\ datasets' = datasets
  <2>1. TouchesOnly(i) /\ StillServed
    BY <1>1 DEF TouchesOnly, StillServed
  <2>2. QED
    BY <1>1, <2>1, NotCopying
<1>2. CASE /\ Becomes(i, job[i].state, job[i].fmt, job[i].listed, job[i].orders \ {o})
           /\ datasets' = datasets \cup {Built(i, o)} /\ Len(o.records) = 1
  <2> DEFINE new == Built(i, o)
  <2>1. /\ new.rec = o.records[1].rec /\ new.shape = o.records[1].shape
        /\ new.lock = [job |-> i, flag |-> "NEW"]
    BY DEF Built
  <2>2. datasets' = datasets \cup {new}
    BY <1>2
  <2> HIDE DEF new
  <2>3. /\ \A j \in Job : j # i => job'[j] = job[j]
        /\ job'[i].state = job[i].state /\ job'[i].orders = job[i].orders \ {o}
    BY <1>2 DEF Becomes, Row
  <2>4. TouchesOnly(i) /\ StillServed
    BY <2>1, <2>2 DEF TouchesOnly, StillServed
  <2>5. JobCopied(i)'
    <3> SUFFICES ASSUME job[i].state \in {"CONSOLIDATIONINPROGRESS", "CONSOLIDATIONINDEXED"},
                        NEW d \in datasets', d.lock = [job |-> i, flag |-> "TODELETE"], NEW p \in d.shape
                 PROVE  CopiedAt(i, d.rec, p)'
      BY <2>3 DEF JobCopied
    <3>1. d \in datasets
      BY <2>1, <2>2
    <3>2. CopiedAt(i, d.rec, p)
      BY <3>1 DEF CopiesInv, JobCopied
    <3>3. CASE \E e \in datasets : e.lock = [job |-> i, flag |-> "NEW"] /\ e.rec = d.rec /\ p \in e.shape
      BY <2>2, <3>3 DEF CopiedAt
    <3>4. ASSUME NEW q \in job[i].orders, NEW n \in 1..Len(q.records),
                 q.records[n].rec = d.rec /\ p \in q.records[n].shape
          PROVE  CopiedAt(i, d.rec, p)'
      <4>1. CASE q = o
        <5>1. n = 1
          <6>1. Len(q.records) = 1
            BY <1>2, <4>1
          <6>2. QED
            BY <6>1
        <5>2. new \in datasets' /\ new.rec = d.rec /\ p \in new.shape
          BY <2>1, <2>2, <3>4, <4>1, <5>1
        <5>3. QED
          BY <2>1, <5>2 DEF CopiedAt
      <4>2. CASE q # o
        BY <2>3, <3>4, <4>2 DEF CopiedAt
      <4>3. QED
        BY <4>1, <4>2
    <3>5. QED
      BY <3>2, <3>3, <3>4 DEF CopiedAt
  <2>6. \A j \in Job : j # i => JobCopied(j)'
    BY <2>3, <2>4, OthersCopied
  <2>7. QED
    BY <2>4, <2>5, <2>6 DEF CopiesInv
<1>3. QED
  BY <1>1, <1>2, IndexOutcome

LEMMA IndexedCopies ==
    ASSUME OrdersInv, CatalogueInv, CopiesInv, NEW i \in Job, indexed(i)
    PROVE  CopiesInv' /\ StillServed
<1>1. /\ job[i].state = "CONSOLIDATIONINPROGRESS" /\ datasets' = datasets
      /\ job' = [job EXCEPT ![i].state = "CONSOLIDATIONINDEXED"]
  BY DEF indexed
<1>2. Becomes(i, "CONSOLIDATIONINDEXED", job[i].fmt, job[i].listed, job[i].orders)
  BY <1>1, StateField DEF OrdersInv, Rows, JobRows
<1>3. \A j \in Job : job'[j].orders = job[j].orders /\ (j # i => job'[j] = job[j])
  BY <1>2 DEF Becomes, Row
<1>4. TouchesOnly(i) /\ StillServed
  BY <1>1 DEF TouchesOnly, StillServed
<1>5. JobCopied(i)'
  BY <1>1, <1>3 DEF CopiesInv, JobCopied, CopiedAt
<1>6. \A j \in Job : j # i => JobCopied(j)'
  BY <1>3, <1>4, OthersCopied
<1>7. QED
  BY <1>4, <1>5, <1>6 DEF CopiesInv

(* What a point of a record can be read from. *)
ServedAt(r, p) == \E d \in datasets : d.status = "ACTIVE" /\ d.rec = r /\ p \in d.shape

LEMMA ServedIs == \A r, p : p \in Served(r) <=> ServedAt(r, p)
<1> SUFFICES ASSUME NEW r PROVE \A p : p \in Served(r) <=> ServedAt(r, p)
  OBVIOUS
<1> DEFINE shapes == {d.shape : d \in {e \in Active : e.rec = r}}
<1>1. \A x : x \in shapes <=> \E d \in datasets : d.status = "ACTIVE" /\ d.rec = r /\ x = d.shape
  BY DEF Active
<1>2. Served(r) = UNION shapes
  BY DEF Served
<1> HIDE DEF shapes
<1>3. \A p : p \in Served(r) <=> \E x \in shapes : p \in x
  BY <1>2
<1>4. QED
  BY <1>1, <1>3 DEF ServedAt

(* What can be read remains, point by point. *)
PointsServed == \A d \in datasets : d.status = "ACTIVE" => \A p \in d.shape : ServedAt(d.rec, p)'

LEMMA StillPoints == StillServed => PointsServed
BY DEF StillServed, PointsServed, ServedAt

LEMMA SwapCopies ==
    ASSUME OrdersInv, CatalogueInv, CopiesInv, NEW i \in Job, csldSwapDatasets(i)
    PROVE  CopiesInv' /\ PointsServed
<1> DEFINE new(d) == Swapped(i, d)
<1>1. /\ job[i].state = "CONSOLIDATIONINDEXED" /\ JobRows
      /\ job' = [job EXCEPT ![i].state = "CONSOLIDATIONEFFECTIVE"]
      /\ datasets' = {new(d) : d \in datasets}
  BY DEF csldSwapDatasets, Swapped, OrdersInv, Rows, JobRows
<1>2. Becomes(i, "CONSOLIDATIONEFFECTIVE", job[i].fmt, job[i].listed, job[i].orders)
  BY <1>1, StateField
<1>3. ASSUME NEW d \in datasets
      PROVE  /\ SameData(d, new(d))
             /\ \/ d.lock.job # i /\ new(d) = d
                \/ d.lock = [job |-> i, flag |-> "NEW"] /\ Unlocked(new(d))
                \/ /\ d.lock = [job |-> i, flag |-> "TODELETE"] /\ d.status = "ACTIVE"
                   /\ HeldBy(new(d), i, "CONSOLIDATIONEFFECTIVE")
  BY <1>1, SwappedIs
<1> HIDE DEF new
<1>4. TouchesOnly(i)
  <2>1. \A d \in datasets : new(d) = d \/ (d.lock.job = i /\ new(d).lock.job \in {i, "nobody"})
    BY <1>3 DEF HeldBy, Unlocked, Free
  <2>2. QED
    BY <1>1, <2>1 DEF TouchesOnly
<1>5. CopiesInv'
  BY <1>2, <1>4, NotCopying
<1>6. PointsServed
  <2> SUFFICES ASSUME NEW d \in datasets, d.status = "ACTIVE", NEW p \in d.shape
               PROVE  ServedAt(d.rec, p)'
    BY DEF PointsServed
  <2>1. CASE d.lock # [job |-> i, flag |-> "TODELETE"]
    <3>1. new(d).status = "ACTIVE" /\ new(d).rec = d.rec /\ p \in new(d).shape /\ new(d) \in datasets'
      BY <1>1, <1>3, <2>1 DEF SameData, Unlocked
    <3>2. QED
      BY <3>1 DEF ServedAt
  <2>2. CASE d.lock = [job |-> i, flag |-> "TODELETE"]
    <3>1. CopiedAt(i, d.rec, p)
      BY <1>1, <2>2 DEF CopiesInv, JobCopied
    <3>2. job[i].orders = {}
      BY <1>1 DEF OrdersInv, OrdersWhen
    <3>3. PICK e \in datasets : e.lock = [job |-> i, flag |-> "NEW"] /\ e.rec = d.rec /\ p \in e.shape
      BY <3>1, <3>2 DEF CopiedAt
    <3>4. new(e).status = "ACTIVE" /\ new(e).rec = d.rec /\ p \in new(e).shape /\ new(e) \in datasets'
      <4>1. new(e) \in datasets' /\ SameData(e, new(e))
        BY <1>1, <1>3
      <4>2. Unlocked(new(e))
        BY <1>3, <3>3
      <4>3. QED
        BY <3>3, <4>1, <4>2 DEF SameData, Unlocked
    <3>5. QED
      BY <3>4 DEF ServedAt
  <2>3. QED
    BY <2>1, <2>2
<1>7. QED
  BY <1>5, <1>6

LEMMA DeleteCopies ==
    ASSUME OrdersInv, CatalogueInv, CopiesInv, NEW i \in Job, deleteReplaced(i)
    PROVE  CopiesInv' /\ StillServed
<1>1. /\ job[i].state = "CONSOLIDATIONEFFECTIVE" /\ JobRows
      /\ job' = [job EXCEPT ![i].state = "DONE"]
      /\ \A d : d \in datasets' <=> d \in datasets /\ d.lock # [job |-> i, flag |-> "TODELETE"]
  BY DEF deleteReplaced, LockedBy, OrdersInv, Rows, JobRows
<1>2. Becomes(i, "DONE", job[i].fmt, job[i].listed, job[i].orders)
  BY <1>1, StateField
<1>3. TouchesOnly(i)
  BY <1>1 DEF TouchesOnly
<1>4. ASSUME NEW d \in datasets, d.status = "ACTIVE", d.lock = [job |-> i, flag |-> "TODELETE"]
      PROVE  FALSE
  <2>1. d.lock.job = i /\ d.lock.flag = "TODELETE" /\ i # "nobody"
    BY <1>4, OrdersAssumption
  <2>2. ~Unlocked(d)
    BY <2>1 DEF Unlocked, Free
  <2>3. PICK j \in Job : HeldBy(d, j, job[j].state)
    BY <2>2 DEF CatalogueInv, LocksInv
  <2>4. j = i
    BY <2>1, <2>3 DEF HeldBy
  <2>5. QED
    BY <1>1, <1>4, <2>1, <2>3, <2>4 DEF HeldBy, Consolidating
<1>5. StillServed
  BY <1>1, <1>4 DEF StillServed
<1>6. QED
  BY <1>2, <1>3, <1>5, NotCopying

LEMMA RollbackCopies ==
    ASSUME OrdersInv, CatalogueInv, CopiesInv, NEW i \in Job, csldRollback(i)
    PROVE  CopiesInv' /\ StillServed
<1> DEFINE kept == datasets \ LockedBy(i, "NEW")
           new(d) == Freed(i, d)
<1>1. /\ job[i].state # "CONSOLIDATIONEFFECTIVE" /\ JobRows
      /\ job' = [job EXCEPT ![i].state = "FAILED", ![i].orders = {}]
      /\ datasets' = {new(d) : d \in kept}
  BY DEF csldRollback, Freed, OrdersInv, Rows, JobRows
<1>2. Becomes(i, "FAILED", job[i].fmt, job[i].listed, {})
  BY <1>1, EndedFields
<1>3. ASSUME NEW d \in kept
      PROVE  /\ SameData(d, new(d)) /\ new(d).status = d.status
             /\ new(d) = d \/ Unlocked(new(d))
  BY <1>1, FreedIs
<1>4. \A d \in datasets : d \in kept <=> d.lock # [job |-> i, flag |-> "NEW"]
  BY DEF LockedBy
<1>5. \A d \in kept : d.lock.job # i => new(d) = d
  BY DEF Freed
<1>6. kept \subseteq datasets
  OBVIOUS
<1> HIDE DEF kept, new
<1>7. TouchesOnly(i)
  <2>1. \A d \in kept : new(d) = d \/ new(d).lock.job = "nobody"
    BY <1>3 DEF Unlocked, Free
  <2>2. \A d \in datasets : d.lock.job # i => d \in datasets'
    BY <1>1, <1>4, <1>5
  <2>3. QED
    BY <1>1, <1>6, <2>1, <2>2 DEF TouchesOnly
<1>8. ASSUME NEW d \in datasets, d.status = "ACTIVE" PROVE d \in kept
  <2> SUFFICES ASSUME d.lock = [job |-> i, flag |-> "NEW"] PROVE FALSE
    BY <1>4
  <2>1. d.lock.job = i /\ d.lock.flag = "NEW" /\ i # "nobody"
    BY OrdersAssumption
  <2>2. ~Unlocked(d)
    BY <2>1 DEF Unlocked, Free
  <2>3. PICK j \in Job : HeldBy(d, j, job[j].state)
    BY <2>2 DEF CatalogueInv, LocksInv
  <2>4. QED
    BY <1>8, <2>1, <2>3 DEF HeldBy
<1>9. StillServed
  BY <1>1, <1>3, <1>8 DEF StillServed, SameData
<1>10. QED
  BY <1>2, <1>7, <1>9, NotCopying

LEMMA CopiesInit == Init => CopiesInv
BY DEF Init, CopiesInv, JobCopied

LEMMA CopiesStep ==
    ASSUME Paving, OrdersInv, CatalogueInv, CopiesInv, [Next]_vars
    PROVE  CopiesInv' /\ PointsServed
<1>1. CASE UNCHANGED vars
  <2>1. datasets' = datasets /\ job' = job
    BY <1>1 DEF vars
  <2>2. StillServed
    BY <2>1 DEF StillServed
  <2>3. CopiesInv'
    BY <2>1 DEF CopiesInv, JobCopied, CopiedAt
  <2>4. QED
    BY <2>2, <2>3, StillPoints
<1>2. CASE (\E e \in External : indexExternal(e)) \/ (\E f \in Format : configConsolidation(f))
  BY <1>2, UserCopies, StillPoints
<1>3. ASSUME NEW i \in Job,
             \/ \E recs \in SUBSET Record : consolidate(i, recs)
             \/ csldInit(i) \/ csldPrepareOrders(i)
             \/ \E o \in job[i].orders : csldIndex(i, o)
             \/ indexed(i) \/ deleteReplaced(i) \/ csldRollback(i)
      PROVE  CopiesInv' /\ PointsServed
  BY <1>3, ListCopies, CreationCopies, PrepareCopies, IndexCopies, IndexedCopies, DeleteCopies, RollbackCopies,
     StillPoints
<1>4. ASSUME NEW i \in Job, csldSwapDatasets(i) PROVE CopiesInv' /\ PointsServed
  BY <1>4, SwapCopies
<1>5. QED
  BY <1>1, <1>2, <1>3, <1>4 DEF Next

LEMMA ReadsRemain == PointsServed => \A r \in Record : Served(r) \subseteq Served(r)'
<1>1. (\A r, p : p \in Served(r) <=> ServedAt(r, p))'
  BY ServedIs, PTL
<1>2. ASSUME PointsServed, NEW r \in Record, NEW p \in Served(r) PROVE p \in Served(r)'
  <2>1. ServedAt(r, p)
    BY ServedIs
  <2>2. ServedAt(r, p)'
    BY <1>2, <2>1 DEF ServedAt, PointsServed
  <2>3. QED
    BY <1>1, <2>2
<1>3. QED
  BY <1>2

(* The locks taken by csldPrepareOrders are those of its orders: whatever    *)
(* was sorted, excluded or skipped, each point of what a job will delete is  *)
(* in a container it has indexed or must still build.  A container excluded  *)
(* from its cell is in no other cell, which is why the cells must not        *)
(* overlap.                                                                  *)
THEOREM ReplacedIsCopied == ASSUME Paving PROVE Spec => []DeletedIsCopied
<1>1. CopiesInv /\ OrdersInv /\ CatalogueInv /\ [Next]_vars => CopiesInv'
  BY CopiesStep
<1>2. Spec => []CopiesInv
  BY <1>1, OrdersInit, OrdersStep, CatalogueInit, CatalogueStep, CopiesInit, PTL DEF Spec
<1>3. QED
  BY <1>2, CopiesMean, PTL

(* No step, of whichever of the jobs that overlap, of a job that is given up *)
(* or of one that ends, makes unreadable a point of a record that was        *)
(* readable: the swap hides what its copies replace, in one transaction.     *)
THEOREM NothingBecomesUnread == ASSUME Paving PROVE Spec => NothingUnread
<1>1. CopiesInv /\ OrdersInv /\ CatalogueInv /\ [Next]_vars => CopiesInv'
  BY CopiesStep
<1>2. CopiesInv /\ OrdersInv /\ CatalogueInv /\ [Next]_vars => [\A r \in Record : Served(r) \subseteq Served(r)']_vars
  BY CopiesStep, ReadsRemain
<1>3. QED
  BY <1>1, <1>2, OrdersInit, OrdersStep, CatalogueInit, CatalogueStep, CopiesInit, PTL DEF Spec, NothingUnread

=============================================================================
