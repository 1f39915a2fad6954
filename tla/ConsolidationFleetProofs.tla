---------------------- MODULE ConsolidationFleetProofs ----------------------
(* What TLAPS proves of the fleet of workers: no order disappears, an order  *)
(* is executed by one pod at a time, there are never more workers than the   *)
(* maximum, and those that worked the longest are spared, for any number of  *)
(* orders and pods and any configuration.                                    *)
EXTENDS ConsolidationFleet, FiniteSetTheorems, WellFoundedInduction, TLAPS

(* Who holds which order. *)
WorkInv ==
    /\ held \in [Pod -> Order \cup {None}]
    /\ phase \in [Pod -> Phase]
    /\ queue \subseteq Order
    /\ waiting \subseteq Order
    /\ failed \in [Order -> Nat]
    /\ OneHolder

LEMMA InitWork == Init => WorkInv
  BY FleetAssumption DEF Init, WorkInv, OneHolder, Phase, Table, Backlog, GivenUp

(* Where the rows of the table are. *)
LEMMA Rows ==
    /\ \A o : o \in Table <=> o \in queue \/ o \in waiting \/ \E p \in Pod : held[p] = o /\ o # None
    /\ \A o : o \in Table' <=> o \in queue' \/ o \in waiting' \/ \E p \in Pod : held'[p] = o /\ o # None
  BY DEF Table, Backlog

(* A pod that ends gives its order back. *)
LEMMA EndsWork ==
    ASSUME WorkInv, NEW p \in Pod, NEW ph \in {"over", "absent"}, Ends(p, ph), UNCHANGED ledger
    PROVE  WorkInv'
<1>1. /\ held' \in [Pod -> Order \cup {None}]
      /\ held'[p] = None
      /\ \A q \in Pod \ {p} : held'[q] = held[q] /\ phase'[q] = phase[q]
      /\ phase' \in [Pod -> Phase]
  BY DEF WorkInv, Ends, Phase
<1>2. queue' = queue \cup ({held[p]} \ {None})
  BY DEF Ends, Requeued
<1>3. queue' \subseteq Order
  BY <1>2 DEF WorkInv
<1>4. OneHolder'
  <2>1. ASSUME NEW q \in Pod, held'[q] # None
        PROVE  phase'[q] \in {"running", "ready"} /\ held'[q] \notin queue' \cup waiting'
    BY <1>1, <1>2, <2>1 DEF WorkInv, OneHolder, ledger
  <2>2. ASSUME NEW q \in Pod, NEW r \in Pod, q # r, held'[q] # None
        PROVE  held'[q] # held'[r]
    BY <1>1, <2>2 DEF WorkInv, OneHolder
  <2>3. queue' \cap waiting' = {}
    BY <1>2 DEF WorkInv, OneHolder, ledger
  <2>4. Table' \subseteq Table
    BY <1>1, <1>2, Rows DEF ledger
  <2>5. GivenUp' = GivenUp /\ unpublished' = unpublished
    BY DEF GivenUp, ledger
  <2>6. QED
    BY <2>1, <2>2, <2>3, <2>4, <2>5 DEF WorkInv, OneHolder
<1>5. QED
  BY <1>1, <1>3, <1>4 DEF WorkInv, ledger

(* The phase of a pod that works on nothing, or that goes on working. *)
LEMMA PhaseWork ==
    ASSUME WorkInv, UNCHANGED <<queue, held, ledger>>, NEW p \in Pod, NEW ph \in Phase,
           phase' = [phase EXCEPT ![p] = ph], held[p] = None \/ ph \in {"running", "ready"}
    PROVE  WorkInv'
  BY DEF WorkInv, OneHolder, ledger, Table, Backlog, GivenUp

(* The order that p held leaves its hands, and the table unless it waits.    *)
LEMMA LeavesWork ==
    ASSUME WorkInv, NEW p \in Pod, held[p] # None,
           held' = [held EXCEPT ![p] = None], queue' = queue, phase' = phase,
           waiting' \in SUBSET Order, failed' \in [Order -> Nat],
           waiting' = waiting \/ waiting' = waiting \cup {held[p]},
           (GivenUp' \cup unpublished') \subseteq GivenUp \cup unpublished \cup ({held[p]} \ waiting')
    PROVE  WorkInv'
<1>1. /\ held' \in [Pod -> Order \cup {None}] /\ held'[p] = None
      /\ \A q \in Pod \ {p} : held'[q] = held[q] /\ held[q] # held[p]
  BY DEF WorkInv, OneHolder
<1>2. held[p] \notin queue \cup waiting
  BY DEF WorkInv, OneHolder
<1>3. ASSUME NEW q \in Pod, held'[q] # None
      PROVE  phase'[q] \in {"running", "ready"} /\ held'[q] \notin queue' \cup waiting'
  BY <1>1, <1>3 DEF WorkInv, OneHolder
<1>4. ASSUME NEW q \in Pod, NEW r \in Pod, q # r, held'[q] # None
      PROVE  held'[q] # held'[r]
  BY <1>1, <1>4 DEF WorkInv, OneHolder
<1>5. queue' \cap waiting' = {}
  BY <1>2 DEF WorkInv, OneHolder
<1>6. Table' \subseteq Table /\ (held[p] \in Table' => held[p] \in waiting')
  BY <1>1, <1>2, Rows
<1>7. Table' \cap (GivenUp' \cup unpublished') = {}
  BY <1>6 DEF WorkInv, OneHolder
<1>8. QED
  BY <1>1, <1>3, <1>4, <1>5, <1>7 DEF WorkInv, OneHolder

LEMMA WorkerWork ==
    ASSUME WorkInv, NEW p \in Pod, Worker(p) \/ temporaryError(p) \/ fatalError(p)
    PROVE  WorkInv'
<1>1. ASSUME NEW o \in Order, pull(p, o)
      PROVE  WorkInv'
  <2>1. /\ held' = [held EXCEPT ![p] = o] /\ queue' = queue \ {o} /\ o \in queue /\ held[p] = None
        /\ phase[p] \in {"running", "ready"} /\ UNCHANGED <<waiting, failed, unpublished, phase>>
    BY <1>1 DEF pull
  <2>2. o # None /\ o \notin waiting /\ \A q \in Pod : held[q] # o
    BY <2>1, FleetAssumption DEF WorkInv, OneHolder
  <2>3. held' \in [Pod -> Order \cup {None}] /\ held'[p] = o /\ \A q \in Pod \ {p} : held'[q] = held[q]
    BY <2>1 DEF WorkInv
  <2>4. Table' \subseteq Table /\ GivenUp' = GivenUp
    <3>1. Table' \subseteq Table
      BY <2>1, <2>2, <2>3, Rows
    <3>2. QED
      BY <2>1, <3>1 DEF GivenUp
  <2>5. OneHolder'
    BY <2>1, <2>2, <2>3, <2>4 DEF WorkInv, OneHolder
  <2>6. QED
    BY <2>1, <2>3, <2>5 DEF WorkInv
<1>2. CASE notify(p)
  BY <1>2 DEF notify, WorkInv, OneHolder, Table, Backlog, GivenUp
<1>3. CASE commit(p) /\ held[p] # None
  <2>1. GivenUp' = GivenUp /\ unpublished' = unpublished
    BY <1>3 DEF commit, GivenUp
  <2>2. QED
    BY <1>3, <2>1, LeavesWork DEF commit, WorkInv
<1>4. CASE commit(p) /\ held[p] = None
  <2>1. held' = held
    BY <1>4 DEF commit, WorkInv
  <2>2. QED
    BY <1>4, <2>1 DEF commit, WorkInv, OneHolder, Table, Backlog, GivenUp
<1>5. CASE temporaryError(p)
  <2>1. /\ held[p] \in Order /\ held' = [held EXCEPT ![p] = None] /\ queue' = queue /\ phase' = phase
        /\ failed' = [failed EXCEPT ![held[p]] = @ + 1] /\ unpublished' = unpublished
        /\ waiting' = EnqueuedAgain(held[p]) /\ held[p] # None
    BY <1>5 DEF temporaryError, WorkInv
  <2>2. failed' \in [Order -> Nat] /\ failed[held[p]] \in Nat
    BY <2>1 DEF WorkInv
  <2>3. GivenUp' \subseteq GivenUp \cup ({held[p]} \ waiting')
    BY <2>1, <2>2, FleetAssumption DEF GivenUp, EnqueuedAgain, WorkInv, OneHolder
  <2>4. waiting' = waiting \/ waiting' = waiting \cup {held[p]}
    BY <2>1 DEF EnqueuedAgain
  <2>5. QED
    BY <2>1, <2>2, <2>3, <2>4, LeavesWork DEF WorkInv
<1>6. CASE fatalError(p)
  <2>1. /\ held[p] # None /\ held' = [held EXCEPT ![p] = None] /\ queue' = queue /\ phase' = phase
        /\ failed' = failed /\ waiting' = waiting /\ unpublished' = unpublished \cup {held[p]}
    BY <1>6 DEF fatalError
  <2>2. GivenUp' = GivenUp /\ held[p] \notin waiting'
    BY <2>1 DEF GivenUp, WorkInv, OneHolder
  <2>3. QED
    BY <2>1, <2>2, LeavesWork DEF WorkInv
<1>7. QED
  BY <1>1, <1>2, <1>3, <1>4, <1>5, <1>6 DEF Worker

(* The row of an order that waited can be pulled. *)
LEMMA DueWork ==
    ASSUME WorkInv, NEW o \in Order, isDue(o)
    PROVE  WorkInv'
<1>1. /\ o \in waiting /\ waiting' = waiting \ {o} /\ queue' = queue \cup {o}
      /\ UNCHANGED <<held, failed, unpublished, phase>>
  BY DEF isDue
<1>2. Table' \subseteq Table /\ GivenUp' = GivenUp
  <2>1. Table' \subseteq Table
    BY <1>1, Rows
  <2>2. QED
    BY <1>1, <2>1 DEF GivenUp
<1>3. QED
  BY <1>1, <1>2 DEF WorkInv, OneHolder

(* The autoscaler touches the work of a pod only by ending it. *)
LEMMA WorkStep ==
    ASSUME WorkInv, [Next]_vars
    PROVE  WorkInv'
<1>1. CASE UNCHANGED <<work, phase>>
  BY <1>1 DEF WorkInv, OneHolder, work, ledger, Table, Backlog, GivenUp
<1>2. ASSUME NEW o \in Order, publish(o)
      PROVE  WorkInv'
  <2>1. o \notin Known /\ queue' = queue \cup {o} /\ UNCHANGED <<held, waiting, failed, unpublished, phase>>
    BY <1>2 DEF publish
  <2>2. o \notin Table /\ o \notin GivenUp \cup unpublished
    BY <2>1 DEF Known
  <2>3. o \notin waiting /\ \A p \in Pod : held[p] # o
    BY <2>2, Rows, FleetAssumption
  <2>4. Table' \subseteq Table \cup {o} /\ GivenUp' = GivenUp
    <3>1. Table' \subseteq Table \cup {o}
      BY <2>1, Rows
    <3>2. QED
      BY <2>1, <3>1 DEF GivenUp
  <2>5. QED
    BY <2>1, <2>2, <2>3, <2>4 DEF WorkInv, OneHolder
<1>3. ASSUME NEW p \in Pod, Cluster(p)
      PROVE  WorkInv'
  BY <1>3, PhaseWork DEF Cluster, podStarts, podIsReady, work, Phase
<1>4. ASSUME NEW p \in Pod, podFails(p)
      PROVE  WorkInv'
  BY <1>4, EndsWork DEF podFails
<1>5. ASSUME NEW p \in Pod, deleteInactive(p)
      PROVE  WorkInv'
  BY <1>5, EndsWork DEF deleteInactive
<1>6. ASSUME NEW p \in Pod, createPod(p)
      PROVE  WorkInv'
  <2>1. held[p] = None
    BY <1>6 DEF createPod, WorkInv, OneHolder
  <2>2. QED
    BY <1>6, <2>1, PhaseWork DEF createPod, work, Phase
<1>7. CASE deletePod
  <2>1. Head(scaler.doomed) \in Pod
    BY <1>7 DEF deletePod, Exists
  <2>2. QED
    BY <1>7, <2>1, EndsWork DEF deletePod
<1>8. CASE readBacklog \/ readSize \/ decide \/ resize \/ listPods \/ endOfTick
  BY <1>1, <1>8 DEF readBacklog, readSize, decide, resize, listPods, endOfTick
<1>9. ASSUME NEW silent \in SUBSET Pod, poll(silent)
      PROVE  WorkInv'
  BY <1>1, <1>9 DEF poll
<1>10. QED
  BY <1>1, <1>2, <1>3, <1>4, <1>5, <1>6, <1>7, <1>8, <1>9, WorkerWork, DueWork
  DEF Next, Autoscaler, Fault, vars, work

-----------------------------------------------------------------------------
(* The size that a tick aims at *)

LEMMA Sizes ==
    ASSUME NEW backlog \in Nat, NEW size \in 0..MaxInstances
    PROVE  NeededSize(backlog, size) \in Int /\ NeededSize(backlog, size) <= MaxInstances
<1> USE FleetAssumption
<1>1. \A r \in Nat \ {0} : CeilDiv(backlog, r) \in Int
  BY DEF CeilDiv
<1>2. Wanted(backlog, size) \in Int
  BY <1>1 DEF Wanted
<1>3. Capped(backlog, size) \in Int /\ Capped(backlog, size) <= MaxInstances
  BY <1>2 DEF Capped
<1>4. QED
  BY <1>3 DEF NeededSize

(* The pods that count as active are finitely many; fewer pods are active    *)
(* when none is created, at most one more when one is.                       *)
Actives == Cardinality(listActivePods)

LEMMA ActivesAreFinite == IsFiniteSet(listActivePods) /\ Actives \in Nat
<1>1. IsFiniteSet(Pod)
  BY FleetAssumption, FS_Interval DEF Pod
<1>2. IsFiniteSet(listActivePods)
  BY <1>1, FS_Subset DEF listActivePods
<1>3. QED
  BY <1>2, FS_CardinalityType DEF Actives

LEMMA FewerActives ==
    ASSUME listActivePods' \subseteq listActivePods
    PROVE  Actives' <= Actives /\ Actives' \in Nat
  BY ActivesAreFinite, FS_Subset, FS_CardinalityType DEF Actives

LEMMA OneMoreActive ==
    ASSUME NEW p \in Pod, listActivePods' = listActivePods \cup {p}
    PROVE  Actives' <= Actives + 1 /\ Actives' \in Nat
<1>1. Cardinality(listActivePods \cup {p}) \in {Actives, Actives + 1}
  BY ActivesAreFinite, FS_AddElement DEF Actives
<1>2. QED
  BY <1>1, ActivesAreFinite DEF Actives

-----------------------------------------------------------------------------
(* What a tick knows is stale by the time it acts, but only on the safe      *)
(* side: nobody else creates pods.                                           *)
TickInv ==
    /\ phase \in [Pod -> Phase]
    /\ DOMAIN scaler = {"pc", "backlog", "size", "target", "listed", "cost", "inactive", "doomed", "create"}
    /\ scaler.backlog \in Nat \cup {NotRead}
    /\ scaler.size \in 0..MaxInstances \cup {NotRead}
    /\ scaler.target \in Int
    /\ scaler.target <= MaxInstances
    /\ scaler.create \in Nat
    /\ scaler.pc # "applying" => scaler.create = 0
    /\ Actives + scaler.create <= MaxInstances

LEMMA IdleFields ==
    /\ DOMAIN Idle = {"pc", "backlog", "size", "target", "listed", "cost", "inactive", "doomed", "create"}
    /\ Idle.pc = "idle" /\ Idle.backlog = NotRead /\ Idle.size = NotRead
    /\ Idle.target = 0 /\ Idle.create = 0
  BY DEF Idle

LEMMA InitTick == Init => TickInv
<1> SUFFICES ASSUME Init
             PROVE  TickInv
  OBVIOUS
<1>1. listActivePods = {}
  BY DEF Init, listActivePods, isPodActive
<1>2. Actives = 0
  BY <1>1, FS_EmptySet DEF Actives
<1>3. phase \in [Pod -> Phase]
  BY DEF Init, Phase
<1>4. scaler = Idle
  BY DEF Init
<1>5. QED
  BY <1>2, <1>3, <1>4, IdleFields, FleetAssumption DEF TickInv

(* A step of the cluster or of the workers creates no pod. *)
LEMMA SameTick ==
    ASSUME TickInv, scaler' = scaler, phase' \in [Pod -> Phase], listActivePods' \subseteq listActivePods
    PROVE  TickInv'
<1>1. Actives' <= Actives /\ Actives' \in Nat
  BY FewerActives
<1>2. QED
  BY <1>1, ActivesAreFinite, FleetAssumption DEF TickInv

LEMMA EndsTick ==
    ASSUME TickInv, NEW p \in Pod, NEW ph \in {"over", "absent"}, Ends(p, ph)
    PROVE  phase' \in [Pod -> Phase] /\ listActivePods' \subseteq listActivePods
  BY DEF TickInv, Ends, listActivePods, isPodActive, Phase

(* The rows of the backlog can be counted. *)
LEMMA BacklogIsFinite ==
    ASSUME WorkInv
    PROVE  Cardinality(Backlog) \in Nat
<1>1. Backlog \subseteq Order
  BY DEF WorkInv, Backlog
<1>2. QED
  BY <1>1, FleetAssumption, FS_Subset, FS_CardinalityType

(* The steps of the autoscaler that only change what it knows. *)
LEMMA ThinkTick ==
    ASSUME TickInv, WorkInv, readBacklog \/ readSize \/ decide \/ resize \/ listPods \/ endOfTick
    PROVE  TickInv'
<1> USE FleetAssumption, ActivesAreFinite
<1>1. ASSUME UNCHANGED phase
      PROVE  Actives' = Actives /\ phase' \in [Pod -> Phase]
  BY <1>1 DEF TickInv, Actives, listActivePods
<1>2. CASE readBacklog
  BY <1>1, <1>2, BacklogIsFinite DEF readBacklog, TickInv
<1>3. CASE readSize
  BY <1>1, <1>3 DEF readSize, TickInv, Actives
<1>4. CASE decide
  <2>1. scaler.backlog \in Nat /\ scaler.size \in 0..MaxInstances
    BY <1>4 DEF decide, TickInv, NotRead
  <2>2. NeededSize(scaler.backlog, scaler.size) \in Int /\ NeededSize(scaler.backlog, scaler.size) <= MaxInstances
    BY <2>1, Sizes
  <2>3. CASE scaler' = Idle
    <3>1. Actives' = Actives /\ phase' \in [Pod -> Phase]
      BY <1>1, <1>4 DEF decide
    <3>2. scaler.create \in Nat
      BY DEF TickInv
    <3>3. QED
      BY <2>3, <3>1, <3>2, IdleFields DEF TickInv
  <2>4. CASE scaler' # Idle
    BY <1>1, <1>4, <2>2, <2>4 DEF decide, TickInv
  <2>5. QED
    BY <2>3, <2>4
<1>5. CASE resize
  <2> DEFINE missing == scaler.target - Actives
  <2>1. /\ scaler'.pc = "applying" /\ scaler'.create \in {0, missing} /\ scaler'.create \in Nat
        /\ scaler'.backlog = scaler.backlog /\ scaler'.size = scaler.size /\ scaler'.target = scaler.target
    BY <1>5 DEF resize, TickInv, Actives
  <2>2. scaler' = [pc |-> scaler'.pc, backlog |-> scaler'.backlog, size |-> scaler'.size, target |-> scaler'.target,
               listed |-> scaler'.listed, cost |-> scaler'.cost, inactive |-> scaler'.inactive,
               doomed |-> scaler'.doomed, create |-> scaler'.create]
    BY <1>5 DEF resize, TickInv
  <2>3. Actives' = Actives /\ phase' \in [Pod -> Phase]
    BY <1>1, <1>5 DEF resize
  <2>4. Actives' + scaler'.create <= MaxInstances
    BY <2>1, <2>3 DEF TickInv
  <2>5. QED
    BY <2>1, <2>2, <2>3, <2>4 DEF TickInv
<1>6. CASE listPods
  BY <1>1, <1>6 DEF listPods, TickInv, Idle, NotRead
<1>7. CASE endOfTick
  BY <1>1, <1>7 DEF endOfTick, TickInv, Idle, NotRead
<1>8. QED
  BY <1>2, <1>3, <1>4, <1>5, <1>6, <1>7

LEMMA PollTick ==
    ASSUME TickInv, NEW silent \in SUBSET Pod, poll(silent)
    PROVE  TickInv'
<1> USE FleetAssumption, ActivesAreFinite
<1>1. Actives' = Actives /\ phase' \in [Pod -> Phase]
  BY DEF poll, TickInv, Actives, listActivePods
<1>2. CASE scaler' = Idle
  <2>1. scaler.create \in Nat
    BY DEF TickInv
  <2>2. QED
    BY <1>1, <1>2, <2>1, IdleFields DEF TickInv
<1>3. ASSUME NEW cost, NEW doomed, scaler' = [scaler EXCEPT !.pc = "applying", !.cost = cost, !.doomed = doomed]
      PROVE  TickInv'
  BY <1>1, <1>3 DEF TickInv, poll
<1>4. ASSUME NEW doomed, scaler' = [scaler EXCEPT !.pc = "applying", !.doomed = doomed]
      PROVE  TickInv'
  BY <1>1, <1>4 DEF TickInv, poll
<1>5. QED
  BY <1>2, <1>3, <1>4 DEF poll

LEMMA TickStep ==
    ASSUME TickInv, WorkInv, [Next]_vars
    PROVE  TickInv'
<1>1. CASE UNCHANGED <<scaler, phase>>
  <2>1. listActivePods' = listActivePods
    BY <1>1 DEF listActivePods
  <2>2. QED
    BY <1>1, <2>1, SameTick DEF TickInv
<1>2. ASSUME NEW p \in Pod, Worker(p) \/ temporaryError(p) \/ fatalError(p)
      PROVE  TickInv'
  BY <1>1, <1>2 DEF Worker, pull, notify, commit, temporaryError, fatalError
<1>3. ASSUME NEW p \in Pod, Cluster(p)
      PROVE  TickInv'
  <2>1. phase' \in [Pod -> Phase] /\ listActivePods' \subseteq listActivePods /\ scaler' = scaler
    BY <1>3 DEF TickInv, Cluster, podStarts, podIsReady, listActivePods, isPodActive, Phase
  <2>2. QED
    BY <2>1, SameTick
<1>4. ASSUME NEW p \in Pod, podFails(p)
      PROVE  TickInv'
  BY <1>4, EndsTick, SameTick DEF podFails
<1>5. ASSUME NEW p \in Pod, deleteInactive(p)
      PROVE  TickInv'
  <2>1. phase' \in [Pod -> Phase] /\ Actives' <= Actives /\ Actives' \in Nat
    BY <1>5, EndsTick, FewerActives DEF deleteInactive
  <2>2. QED
    BY <1>5, <2>1, ActivesAreFinite, FleetAssumption DEF deleteInactive, TickInv
<1>6. CASE deletePod
  <2>1. Head(scaler.doomed) \in Pod
    BY <1>6 DEF deletePod, Exists
  <2>2. phase' \in [Pod -> Phase] /\ Actives' <= Actives /\ Actives' \in Nat
    BY <1>6, <2>1, EndsTick, FewerActives DEF deletePod
  <2>3. QED
    BY <1>6, <2>2, ActivesAreFinite, FleetAssumption DEF deletePod, TickInv
<1>7. ASSUME NEW p \in Pod, createPod(p)
      PROVE  TickInv'
  <2>1. listActivePods' = listActivePods \cup {p} /\ phase' \in [Pod -> Phase]
    BY <1>7 DEF createPod, TickInv, listActivePods, isPodActive, Phase
  <2>2. Actives' <= Actives + 1 /\ Actives' \in Nat
    BY <2>1, OneMoreActive
  <2>3. QED
    BY <1>7, <2>1, <2>2, ActivesAreFinite, FleetAssumption DEF createPod, TickInv
<1>8. ASSUME NEW o \in Order, publish(o) \/ isDue(o)
      PROVE  TickInv'
  BY <1>1, <1>8 DEF publish, isDue
<1>9. QED
  BY <1>1, <1>2, <1>3, <1>4, <1>5, <1>6, <1>7, <1>8, ThinkTick, PollTick
  DEF Next, Autoscaler, Fault, vars

-----------------------------------------------------------------------------
(* A pod that works holds its order alone and alive (pgq's locked rows).     *)
THEOREM OrdersAreHeldOnce == Spec => []OneHolder
<1>1. WorkInv => OneHolder
  BY DEF WorkInv
<1>2. QED
  BY InitWork, WorkStep, <1>1, PTL DEF Spec

(* The readings of the autoscaler are stale when it acts, and it never makes *)
(* the fleet exceed the maximum (Autoscale, Resize).                         *)
THEOREM FleetIsBounded == Spec => []BoundedFleet
<1>1. TickInv => BoundedFleet
  BY ActivesAreFinite, FleetAssumption DEF TickInv, BoundedFleet, Actives
<1>2. QED
  BY InitWork, WorkStep, InitTick, TickStep, <1>1, PTL DEF Spec

(* Whichever pods the autoscaler deletes or the cluster loses, the orders    *)
(* they were executing are in the table again.                               *)
LEMMA OrdersStay ==
    ASSUME WorkInv, [Next]_vars
    PROVE  Known \subseteq Known'
<1>1. CASE UNCHANGED work
  BY <1>1 DEF work, ledger, Known, Table, Backlog, GivenUp
<1>2. ASSUME NEW p \in Pod, NEW ph \in {"over", "absent"}, Ends(p, ph), UNCHANGED ledger
      PROVE  Known \subseteq Known'
  <2>1. Table \subseteq Table'
    BY <1>2, Rows DEF Ends, Requeued, ledger, WorkInv
  <2>2. QED
    BY <1>2, <2>1 DEF ledger, Known, GivenUp
<1>3. ASSUME NEW p \in Pod, Worker(p) \/ temporaryError(p) \/ fatalError(p)
      PROVE  Known \subseteq Known'
  <2>1. /\ \A q \in Pod \ {p} : held'[q] = held[q]
        /\ answered \subseteq answered' /\ unpublished \subseteq unpublished' /\ waiting \subseteq waiting'
    BY <1>3 DEF Worker, pull, notify, commit, temporaryError, fatalError, EnqueuedAgain, WorkInv
  <2>2. queue \subseteq queue' \cup ({held'[p]} \ {None})
    BY <1>3, FleetAssumption DEF Worker, pull, notify, commit, temporaryError, fatalError, WorkInv
  <2>3. GivenUp \subseteq GivenUp'
    <3>1. CASE temporaryError(p)
      <4>1. \A o \in Order : failed[o] <= failed'[o] /\ failed[o] \in Nat /\ failed'[o] \in Nat
        BY <3>1 DEF temporaryError, WorkInv
      <4>2. QED
        BY <4>1, FleetAssumption DEF GivenUp
    <3>2. CASE Worker(p) \/ fatalError(p)
      BY <3>2 DEF Worker, pull, notify, commit, fatalError, GivenUp
    <3>3. QED
      BY <1>3, <3>1, <3>2
  <2>4. held[p] # None => held[p] \in {held'[p]} \cup answered' \cup unpublished' \cup waiting' \cup GivenUp'
    <3>1. CASE temporaryError(p) /\ failed[held[p]] < Retries
      BY <3>1 DEF temporaryError, EnqueuedAgain
    <3>2. CASE temporaryError(p) /\ ~(failed[held[p]] < Retries)
      BY <3>2, FleetAssumption DEF temporaryError, GivenUp, WorkInv
    <3>3. CASE Worker(p) \/ fatalError(p)
      BY <3>3 DEF Worker, pull, notify, commit, fatalError, WorkInv
    <3>4. QED
      BY <1>3, <3>1, <3>2, <3>3
  <2>5. Table \subseteq Known'
    <3>1. ASSUME NEW o, o \in queue
          PROVE  o \in Known'
      BY <2>2, <3>1, Rows DEF Known
    <3>2. ASSUME NEW o, o \in waiting
          PROVE  o \in Known'
      BY <2>1, <3>2, Rows DEF Known
    <3>3. ASSUME NEW q \in Pod, held[q] # None
          PROVE  held[q] \in Known'
      BY <2>1, <2>4, <3>3, Rows DEF Known
    <3>4. QED
      BY <3>1, <3>2, <3>3, Rows
  <2>6. QED
    BY <2>1, <2>3, <2>5 DEF Known
<1>4. ASSUME NEW o \in Order, publish(o) \/ isDue(o)
      PROVE  Known \subseteq Known'
  <2>1. Table \subseteq Table'
    BY <1>4, Rows DEF publish, isDue
  <2>2. QED
    BY <1>4, <2>1 DEF publish, isDue, Known, GivenUp
<1>5. CASE deletePod
  BY <1>2, <1>5 DEF deletePod, Exists
<1>6. ASSUME NEW p \in Pod, podFails(p) \/ deleteInactive(p)
      PROVE  Known \subseteq Known'
  BY <1>2, <1>6 DEF podFails, deleteInactive
<1>7. ASSUME NEW p \in Pod, Cluster(p) \/ createPod(p)
      PROVE  Known \subseteq Known'
  BY <1>1, <1>7 DEF Cluster, podStarts, podIsReady, createPod
<1>8. CASE readBacklog \/ readSize \/ decide \/ resize \/ listPods \/ endOfTick
  BY <1>1, <1>8 DEF readBacklog, readSize, decide, resize, listPods, endOfTick
<1>9. ASSUME NEW silent \in SUBSET Pod, poll(silent)
      PROVE  Known \subseteq Known'
  BY <1>1, <1>9 DEF poll
<1>10. QED
  BY <1>1, <1>3, <1>4, <1>5, <1>6, <1>7, <1>8, <1>9 DEF Next, Autoscaler, Fault, vars, work

(* No order disappears (PerformNextJob): it is in the table until its result *)
(* is published, could not be, or one attempt more than the retries failed.  *)
THEOREM OrdersRemain == Spec => OrdersAreKept
<1>1. WorkInv /\ [Next]_vars => [Known \subseteq Known']_vars
  BY OrdersStay
<1>2. QED
  BY InitWork, WorkStep, <1>1, PTL DEF Spec, OrdersAreKept

-----------------------------------------------------------------------------
(* Naturals: a set of them has a least element. *)
LEMMA LeastNatural ==
    ASSUME NEW T \in SUBSET Nat, T # {}
    PROVE  \E n \in T : \A m \in T : n <= m
<1> DEFINE less == {p \in Nat \X Nat : p[1] < p[2]}
<1>1. IsWellFoundedOn(less, Nat)
  BY NatLessThanWellFounded DEF OpToRel
<1>2. \A m \in Nat, n \in Nat : m < n => <<m, n>> \in less
  OBVIOUS
<1> HIDE DEF less
<1>3. PICK n \in T : \A m \in T : ~(<<m, n>> \in less)
  BY <1>1, WFMin
<1>4. \A m \in T : ~(m < n)
  BY <1>2, <1>3
<1>5. \A m \in T : n <= m
  BY <1>4
<1>6. QED
  BY <1>5

LEMMA PodsAreFinite == IsFiniteSet(Pod) /\ \A S \in SUBSET Pod : IsFiniteSet(S) /\ Cardinality(S) \in Nat
<1>1. IsFiniteSet(Pod)
  BY FleetAssumption, FS_Interval DEF Pod
<1>2. QED
  BY <1>1, FS_Subset, FS_CardinalityType

-----------------------------------------------------------------------------
(* The pods, in the order of the cluster *)

(* Two pods do not have the same rank. *)
LEMMA RanksDiffer ==
    ASSUME NEW S \in SUBSET Pod, NEW p \in S, NEW q \in S, p < q
    PROVE  Rank(S, p) < Rank(S, q)
<1> DEFINE A == {r \in S : r <= p}
           B == {r \in S : r <= q}
<1>1. A \in SUBSET (B \ {q}) /\ q \in B /\ A \in SUBSET Pod /\ B \in SUBSET Pod
  <2>1. p \in Nat /\ q \in Nat /\ \A r \in S : r \in Nat
    BY FleetAssumption DEF Pod
  <2>2. ASSUME NEW r \in S, r <= p
        PROVE  r <= q /\ r # q
    BY <2>1, <2>2
  <2>3. A \subseteq B \ {q}
    BY <2>2
  <2>4. q \in B
    BY <2>1
  <2>5. QED
    BY <2>3, <2>4
<1>2. Rank(S, p) = Cardinality(A) /\ Rank(S, q) = Cardinality(B)
  BY DEF Rank
<1> HIDE DEF A, B
<1>3. IsFiniteSet(B) /\ Cardinality(A) \in Nat /\ Cardinality(B) \in Nat
  BY <1>1, PodsAreFinite
<1>4. IsFiniteSet(B \ {q}) /\ Cardinality(B \ {q}) = Cardinality(B) - 1
  BY <1>1, <1>3, FS_RemoveElement
<1>5. Cardinality(A) <= Cardinality(B) - 1
  BY <1>1, <1>4, FS_Subset
<1>6. QED
  BY <1>2, <1>3, <1>5

(* The list of a set of pods has each of them. *)
LEMMA ListOf ==
    ASSUME NEW S \in SUBSET Pod
    PROVE  /\ Listed(S) \in Seq(S) /\ Len(Listed(S)) = Cardinality(S)
           /\ \A p \in S : \E n \in 1..Cardinality(S) : Listed(S)[n] = p
<1> DEFINE k == Cardinality(S)
           rank == [p \in S |-> Rank(S, p)]
<1>1. IsFiniteSet(S) /\ k \in Nat
  BY PodsAreFinite
<1>2. ASSUME NEW p \in S
      PROVE  rank[p] \in 1..k
  <2> DEFINE A == {r \in S : r <= p}
  <2>1. A \in SUBSET S /\ p \in A /\ rank[p] = Cardinality(A)
    BY FleetAssumption DEF Rank, Pod
  <2> HIDE DEF A, rank, k
  <2>2. IsFiniteSet(A) /\ Cardinality(A) <= k
    BY <1>1, <2>1, FS_Subset DEF k
  <2>3. Cardinality(A) \in Nat /\ Cardinality(A) # 0
    BY <2>1, <2>2, FS_CardinalityType, FS_EmptySet
  <2>4. QED
    BY <1>1, <2>1, <2>2, <2>3
<1>3. \A p, q \in S : rank[p] = rank[q] => p = q
  <2>1. ASSUME NEW p \in S, NEW q \in S, rank[p] = rank[q], p # q
        PROVE  FALSE
    <3>1. Rank(S, p) = Rank(S, q) /\ Rank(S, p) \in Nat
      BY <1>2, <2>1
    <3>2. p \in Nat /\ q \in Nat
      BY FleetAssumption DEF Pod
    <3>3. p < q \/ q < p
      BY <2>1, <3>2
    <3>4. QED
      BY <3>1, <3>3, RanksDiffer
  <2>2. QED
    BY <2>1
<1>4. rank \in [S -> 1..k]
  BY <1>2
<1>5. IsFiniteSet(1..k) /\ Cardinality(1..k) = k
  BY <1>1, FS_Interval
<1> HIDE DEF rank
<1>6. rank \in Injection(S, 1..k)
  BY <1>3, <1>4 DEF Injection, IsInjective
<1>7. rank \in Surjection(S, 1..k)
  <2> HIDE DEF k
  <2>1. Cardinality(S) = Cardinality(1..k)
    BY <1>5 DEF k
  <2>2. QED
    BY <1>5, <1>6, <2>1, FS_Injection
<1>8. \A n \in 1..k : \E p \in S : rank[p] = n
  BY <1>7 DEF Surjection
<1>9. \A p \in S : rank[p] = Rank(S, p)
  BY DEF rank
<1>10. ASSUME NEW n \in 1..k
       PROVE  Listed(S)[n] \in S /\ rank[Listed(S)[n]] = n
  <2>1. Listed(S)[n] = CHOOSE p \in S : Rank(S, p) = n
    BY DEF Listed
  <2>2. \E p \in S : Rank(S, p) = n
    BY <1>8, <1>9
  <2>3. Listed(S)[n] \in S /\ Rank(S, Listed(S)[n]) = n
    BY <2>1, <2>2
  <2>4. QED
    BY <1>9, <2>3
<1>11. Listed(S) \in [1..k -> S]
  <2>1. Listed(S) = [n \in 1..k |-> Listed(S)[n]]
    BY DEF Listed
  <2>2. QED
    BY <1>10, <2>1
<1>12. ASSUME NEW p \in S
       PROVE  \E n \in 1..k : Listed(S)[n] = p
  <2>1. rank[p] \in 1..k
    BY <1>2
  <2>2. Listed(S)[rank[p]] \in S /\ rank[Listed(S)[rank[p]]] = rank[p]
    BY <1>10, <2>1
  <2>3. QED
    BY <1>3, <2>1, <2>2
<1>13. Listed(S) \in Seq(S) /\ Len(Listed(S)) = k
  <2> HIDE DEF k
  <2>1. QED
    BY <1>1, <1>11
<1>14. QED
  BY <1>12, <1>13

-----------------------------------------------------------------------------
(* How long the pods have worked *)

(* Two pods that work have not worked for the same time. *)
LEMMA CostsDiffer ==
    ASSUME since \in Seq(Pod), NEW p \in Pod, NEW q \in Pod
    PROVE  /\ Cost(p) \in Nat
           /\ Cost(p) = Cost(q) /\ Cost(p) # 0 => p = q
<1> DEFINE n == Len(since)
           After(r) == {i \in 1..n : \E m \in 1..i : since[m] = r}
<1>1. n \in Nat /\ IsFiniteSet(1..n)
  BY FS_Interval
<1>2. ASSUME NEW r \in Pod
      PROVE  /\ IsFiniteSet(After(r)) /\ Cost(r) = Cardinality(After(r)) /\ Cost(r) \in Nat
             /\ After(r) \in SUBSET (1..n)
             /\ \A i \in After(r), j \in 1..n : i <= j => j \in After(r)
  <2>1. After(r) \in SUBSET (1..n) /\ Cost(r) = Cardinality(After(r))
    BY DEF Cost
  <2>2. ASSUME NEW i \in After(r), NEW j \in 1..n, i <= j
        PROVE  j \in After(r)
    <3>1. PICK m \in 1..i : since[m] = r
      OBVIOUS
    <3>2. m \in 1..j
      BY <1>1, <2>2
    <3>3. QED
      BY <3>1, <3>2
  <2> HIDE DEF After, n
  <2>3. IsFiniteSet(After(r)) /\ Cardinality(After(r)) \in Nat
    BY <1>1, <2>1, FS_Subset, FS_CardinalityType
  <2>4. QED
    BY <2>1, <2>2, <2>3
<1>3. ASSUME NEW r \in Pod, After(r) # {}
      PROVE  \E i \in After(r) : since[i] = r /\ \A j \in After(r) : i <= j
  <2>1. After(r) \in SUBSET Nat
    BY <1>1
  <2>2. PICK i \in After(r) : \A j \in After(r) : i <= j
    BY <1>3, <2>1, LeastNatural
  <2>3. PICK m \in 1..i : since[m] = r
    OBVIOUS
  <2>4. m \in 1..n /\ m <= i /\ m \in After(r)
    BY <1>1, <2>3
  <2>5. m = i
    BY <2>1, <2>2, <2>4
  <2>6. QED
    BY <2>2, <2>3, <2>5
<1> HIDE DEF n, After
<1>4. After(p) \subseteq After(q) \/ After(q) \subseteq After(p)
  <2>1. ASSUME NEW i \in After(p), i \notin After(q), NEW j \in After(q), j \notin After(p)
        PROVE  FALSE
    <3>1. i \in 1..n /\ j \in 1..n
      BY <1>2, <2>1
    <3>2. i <= j \/ j <= i
      BY <1>1, <3>1
    <3>3. QED
      BY <1>2, <2>1, <3>1, <3>2
  <2>2. QED
    BY <2>1
<1>5. ASSUME Cost(p) = Cost(q), Cost(p) # 0
      PROVE  p = q
  <2>1. Cardinality(After(p)) = Cardinality(After(q)) /\ IsFiniteSet(After(p)) /\ IsFiniteSet(After(q))
    BY <1>2, <1>5
  <2>2. After(p) = After(q)
    <3>1. CASE After(p) \subseteq After(q)
      <4>1. After(p) \in SUBSET After(q)
        BY <3>1
      <4>2. QED
        BY <2>1, <4>1, FS_Subset
    <3>2. CASE After(q) \subseteq After(p)
      <4>1. After(q) \in SUBSET After(p)
        BY <3>2
      <4>2. QED
        BY <2>1, <4>1, FS_Subset
    <3>3. QED
      BY <1>4, <3>1, <3>2
  <2>3. After(p) # {}
    BY <1>2, <1>5, FS_EmptySet
  <2>4. PICK i \in After(p) : since[i] = p /\ \A k \in After(p) : i <= k
    BY <1>3, <2>3
  <2>5. PICK j \in After(q) : since[j] = q /\ \A k \in After(q) : j <= k
    BY <1>3, <2>2, <2>3
  <2>6. i \in Nat /\ j \in Nat /\ i <= j /\ j <= i
    <3>1. i \in 1..n /\ j \in 1..n /\ i <= j /\ j <= i
      BY <1>2, <2>2, <2>4, <2>5
    <3>2. QED
      BY <1>1, <3>1
  <2>7. i = j
    BY <2>6
  <2>8. QED
    BY <2>4, <2>5, <2>7
<1>6. QED
  BY <1>2, <1>5

Cheaper(cost, p) == {q \in Pod : cost[q] # NotRead /\ cost[q] < cost[p]}

(* When no two pods have worked for the same time, those that are chosen     *)
(* among the candidates have worked less than the others.                    *)
LEMMA ChosenAreCheapest ==
    ASSUME NEW cost \in [Pod -> Nat \cup {NotRead}], NEW n \in Nat,
           \A p, q \in Pod : cost[p] \in Nat /\ cost[p] # 0 /\ cost[p] = cost[q] => p = q,
           NEW chosen \in SUBSET Cutoff(cost, n),
           Cardinality(chosen) = Minimum(n, Cardinality(Cutoff(cost, n))),
           NEW p \in chosen, NEW q \in Pod \ chosen, cost[q] # NotRead
    PROVE  cost[p] # NotRead /\ cost[p] <= cost[q]
<1> DEFINE C == Cutoff(cost, n)
           Count(r) == Cardinality(Cheaper(cost, r))
<1>1. \A r \in Pod : r \in C <=> cost[r] # NotRead /\ Count(r) < n
  BY DEF Cutoff, Cheaper
<1>2. C \in SUBSET Pod /\ chosen \in SUBSET C /\ Cardinality(chosen) = Minimum(n, Cardinality(C))
  BY DEF Cutoff
<1>3. \A r \in Pod : Cheaper(cost, r) \in SUBSET Pod
  BY DEF Cheaper
<1>4. \A r \in Pod : IsFiniteSet(Cheaper(cost, r)) /\ Count(r) \in Nat
  BY <1>3, PodsAreFinite
<1>5. IsFiniteSet(C) /\ Cardinality(C) \in Nat
  BY <1>2, PodsAreFinite
<1>6. \A r \in Pod : cost[r] # NotRead => cost[r] \in Nat
  BY DEF NotRead
<1> HIDE DEF C
<1>7. ASSUME NEW r \in Pod, NEW s \in Pod, cost[r] # NotRead, cost[s] # NotRead, cost[r] < cost[s]
      PROVE  Count(r) < Count(s)
  <2>1. Cheaper(cost, r) \in SUBSET Cheaper(cost, s) /\ r \in Cheaper(cost, s) /\ r \notin Cheaper(cost, r)
    BY <1>6, <1>7 DEF Cheaper
  <2>2. Count(r) <= Count(s) /\ (Count(s) = Count(r) => Cheaper(cost, s) = Cheaper(cost, r))
    BY <1>4, <2>1, FS_Subset
  <2>3. QED
    BY <1>4, <2>1, <2>2
<1>8. p \in Pod /\ cost[p] \in Nat /\ cost[q] \in Nat /\ cost[p] # NotRead
  BY <1>1, <1>2, <1>6
<1>9. SUFFICES ASSUME cost[q] < cost[p] PROVE FALSE
  BY <1>8
<1>10. PICK m \in C : \A r \in C : cost[r] <= cost[m]
  <2> DEFINE T == {n - Count(r) : r \in C}
  <2>1. T \in SUBSET Nat /\ T # {}
    <3>1. \A r \in C : n - Count(r) \in Nat
      <4>1. ASSUME NEW r \in C
            PROVE  n - Count(r) \in Nat
        <5>1. Count(r) \in Nat /\ Count(r) < n
          BY <1>1, <1>2, <1>4
        <5> HIDE DEF Count
        <5>2. QED
          BY <5>1
      <4>2. QED
        BY <4>1
    <3>2. QED
      BY <1>2, <3>1
  <2>2. PICK least \in T : \A k \in T : least <= k
    <3> HIDE DEF T
    <3>1. QED
      BY <2>1, LeastNatural
  <2>3. PICK m \in C : least = n - Count(m)
    BY <2>2
  <2>4. ASSUME NEW r \in C
        PROVE  cost[r] <= cost[m]
    <3>1. n - Count(m) <= n - Count(r)
      BY <2>2, <2>3
    <3>2. Count(m) \in Nat /\ Count(r) \in Nat /\ r \in Pod /\ m \in Pod
      BY <1>2, <1>4
    <3> HIDE DEF Count
    <3>3. Count(r) <= Count(m)
      BY <3>1, <3>2
    <3>4. ~(Count(m) < Count(r))
      BY <3>2, <3>3
    <3>5. cost[r] # NotRead /\ cost[m] # NotRead /\ cost[r] \in Nat /\ cost[m] \in Nat
      BY <1>1, <1>6, <3>2
    <3>6. ~(cost[m] < cost[r])
      BY <1>7, <3>2, <3>4, <3>5
    <3>7. QED
      BY <3>5, <3>6
  <2>5. QED
    BY <2>4
<1>11. m \in Pod /\ cost[m] \in Nat /\ cost[m] # 0 /\ cost[m] # NotRead /\ Count(m) < n /\ Count(m) \in Nat
  <2>1. m \in Pod /\ cost[m] # NotRead /\ Count(m) < n
    BY <1>1, <1>2, <1>10
  <2>2. cost[m] \in Nat /\ cost[p] <= cost[m]
    BY <1>2, <1>6, <1>10, <2>1
  <2>3. cost[m] # 0
    BY <1>8, <1>9, <2>2
  <2>4. QED
    BY <1>4, <2>1, <2>2, <2>3
<1>12. C \in SUBSET (Cheaper(cost, m) \cup {m})
  <2>1. ASSUME NEW r \in C, r # m
        PROVE  r \in Cheaper(cost, m)
    <3>1. r \in Pod /\ cost[r] # NotRead /\ cost[r] \in Nat /\ cost[r] <= cost[m]
      BY <1>1, <1>2, <1>6, <1>10
    <3>2. cost[r] # cost[m]
      BY <1>11, <2>1, <3>1
    <3>3. cost[r] < cost[m]
      BY <1>11, <3>1, <3>2
    <3>4. QED
      BY <3>1, <3>3 DEF Cheaper
  <2>2. QED
    BY <2>1
<1>13. Cardinality(C) <= n
  <2>1. IsFiniteSet(Cheaper(cost, m) \cup {m}) /\ Cardinality(Cheaper(cost, m) \cup {m}) <= Count(m) + 1
    <3>1. m \notin Cheaper(cost, m)
      BY <1>11 DEF Cheaper
    <3>2. IsFiniteSet(Cheaper(cost, m))
      BY <1>4, <1>11
    <3>3. /\ IsFiniteSet(Cheaper(cost, m) \cup {m})
          /\ Cardinality(Cheaper(cost, m) \cup {m}) = Count(m) + 1
      BY <3>1, <3>2, FS_AddElement
    <3>4. QED
      BY <1>11, <3>3
  <2>2. Cardinality(C) <= Cardinality(Cheaper(cost, m) \cup {m}) /\ Cardinality(Cheaper(cost, m) \cup {m}) \in Nat
    BY <1>12, <2>1, FS_Subset, FS_CardinalityType
  <2> HIDE DEF Count
  <2>3. QED
    BY <1>5, <1>11, <2>1, <2>2
<1>14. Cardinality(chosen) = Cardinality(C)
  BY <1>2, <1>5, <1>13 DEF Minimum
<1>15. chosen = C
  BY <1>2, <1>5, <1>14, FS_Subset
<1>16. q \in C
  <2>1. Count(q) < Count(p) /\ Count(p) < n /\ Count(p) \in Nat /\ Count(q) \in Nat
    BY <1>1, <1>2, <1>4, <1>7, <1>8, <1>9
  <2>2. Count(q) < n
    <3> HIDE DEF Count
    <3>1. QED
      BY <2>1
  <2>3. QED
    BY <1>1, <2>2
<1>17. QED
  BY <1>15, <1>16

-----------------------------------------------------------------------------
(* Which pods a tick spares *)

AllReady == \A p \in Pod : scaler.listed[p] \in {"ready", "absent"}
Polled == \E p \in Pod : scaler.cost[p] # NotRead

Spared ==
    \A p \in ToSet(scaler.doomed), q \in {r \in Pod : Exists(r)} \ ToSet(scaler.doomed) :
        scaler.cost[p] # NotRead /\ scaler.cost[q] # NotRead => scaler.cost[p] <= scaler.cost[q]

(* The costs are those of one poll, and nothing is created after a poll: a   *)
(* pod that is deleted stays absent until the end of the tick.               *)
SpareInv ==
    /\ since \in Seq(Pod)
    /\ scaler.pc # "applying" => ~Polled
    /\ scaler.pc = "applying" /\ AllReady /\ Polled =>
          scaler.create = 0 /\ scaler.doomed \in Seq(Pod) /\ Spared

LEMMA InitSpare == Init => SpareInv
  BY DEF Init, SpareInv, Polled, Idle

(* A pod that does not work any more leaves the list of those that do. *)
LEMMA WithoutOne ==
    ASSUME since \in Seq(Pod), NEW p \in Pod
    PROVE  Without(p) \in Seq(Pod)
<1>1. CASE p \notin ToSet(since)
  BY <1>1 DEF Without
<1>2. CASE p \in ToSet(since)
  <2>1. PICK n \in DOMAIN since : since[n] = p
    BY <1>2 DEF ToSet
  <2> DEFINE k == CHOOSE m \in DOMAIN since : since[m] = p
  <2>2. k \in 1..Len(since) /\ Len(since) \in Nat
    BY <2>1
  <2>3. Without(p) = SubSeq(since, 1, k - 1) \o SubSeq(since, k + 1, Len(since))
    BY <1>2 DEF Without, RemoveAt
  <2> HIDE DEF k
  <2>4. SubSeq(since, 1, k - 1) \in Seq(Pod) /\ SubSeq(since, k + 1, Len(since)) \in Seq(Pod)
    <3>1. \A i \in 1..(k - 1) : since[i] \in Pod
      BY <2>2
    <3>2. \A i \in (k + 1)..Len(since) : since[i] \in Pod
      BY <2>2
    <3>3. QED
      BY <2>2, <3>1, <3>2
  <2>5. QED
    BY <2>3, <2>4
<1>3. QED
  BY <1>1, <1>2

(* The pods that work change; what the tick decided does not, but for the    *)
(* pods that it has deleted.                                                 *)
LEMMA SameSpare ==
    ASSUME SpareInv, since' \in Seq(Pod), \A p \in Pod : Exists(p)' => Exists(p),
           scaler'.pc = scaler.pc, scaler'.listed = scaler.listed, scaler'.cost = scaler.cost,
           scaler'.create = scaler.create, scaler.doomed \in Seq(Pod) => scaler'.doomed \in Seq(Pod),
           ToSet(scaler'.doomed) \subseteq ToSet(scaler.doomed),
           \A p \in Pod : p \in ToSet(scaler.doomed) \ ToSet(scaler'.doomed) => ~Exists(p)'
    PROVE  SpareInv'
<1>1. (AllReady <=> AllReady') /\ (Polled <=> Polled')
  BY DEF AllReady, Polled
<1>2. Spared => Spared'
  <2>1. ASSUME Spared, NEW p \in ToSet(scaler'.doomed),
               NEW q \in {r \in Pod : Exists(r)'} \ ToSet(scaler'.doomed)
        PROVE  scaler'.cost[p] # NotRead /\ scaler'.cost[q] # NotRead => scaler'.cost[p] <= scaler'.cost[q]
    <3>1. p \in ToSet(scaler.doomed) /\ q \in {r \in Pod : Exists(r)} \ ToSet(scaler.doomed)
      BY <2>1
    <3>2. QED
      BY <2>1, <3>1 DEF Spared
  <2>2. QED
    BY <2>1 DEF Spared
<1>3. QED
  BY <1>1, <1>2 DEF SpareInv

LEMMA NotPolled ==
    ASSUME since' \in Seq(Pod), \A p \in Pod : scaler'.cost[p] = NotRead
    PROVE  SpareInv'
  BY DEF SpareInv, Polled

(* The poll, when all the pods are ready: those it condemns are the chosen   *)
(* ones.                                                                     *)
LEMMA PollSpares ==
    ASSUME SpareInv, TickInv, NEW silent \in SUBSET Pod, poll(silent)
    PROVE  SpareInv'
<1> DEFINE existing == {p \in Pod : scaler.listed[p] # "absent"}
           readyPods == {p \in Pod : scaler.listed[p] = "ready"}
           unreadyPods == {p \in Pod : scaler.listed[p] \notin {"absent", "ready"}}
           all == Listed(existing)
           ready == Listed(readyPods)
           unready == Listed(unreadyPods)
           needed == Len(all) - scaler.target
           rest == needed - Len(unready)
           cost == [p \in Pod |-> IF scaler.listed[p] = "ready" /\ phase[p] = "ready" /\ p \notin silent
                                  THEN Cost(p) ELSE NotRead]
           taken(p) == all[CHOOSE n \in 1..Len(ready) : ready[n] = p]
<1>1. /\ scaler.pc = "polling" /\ UNCHANGED <<since, phase>>
      /\ \/ scaler' = [scaler EXCEPT !.pc = "applying", !.doomed = SubSeq(unready, 1, needed)]
         \/ scaler' = Idle
         \/ /\ rest > 0
            /\ \E chosen \in SUBSET Cutoff(cost, rest) :
                /\ chosen # {}
                /\ Cardinality(chosen) = Minimum(rest, Cardinality(Cutoff(cost, rest)))
                /\ \E q \in SetToSeqs(chosen) :
                    scaler' = [scaler EXCEPT !.pc = "applying", !.cost = cost,
                                             !.doomed = unready \o [n \in 1..Len(q) |-> taken(q[n])]]
  BY DEF poll, work
<1>2. /\ since \in Seq(Pod) /\ ~Polled /\ scaler.create = 0 /\ scaler.target \in Int
      /\ DOMAIN scaler = {"pc", "backlog", "size", "target", "listed", "cost", "inactive", "doomed", "create"}
  BY <1>1 DEF SpareInv, TickInv
<1>3. existing \in SUBSET Pod /\ readyPods \in SUBSET Pod /\ unreadyPods \in SUBSET Pod
  OBVIOUS
<1>4. cost \in [Pod -> Nat \cup {NotRead}]
  <2>1. \A p \in Pod : Cost(p) \in Nat
    BY <1>2, CostsDiffer
  <2>2. QED
    BY <2>1
<1>5. \A p \in Pod : cost[p] = NotRead \/ (scaler.listed[p] = "ready" /\ cost[p] = Cost(p))
  OBVIOUS
<1>6. CASE scaler' = [scaler EXCEPT !.pc = "applying", !.doomed = SubSeq(unready, 1, needed)]
  <2>1. scaler'.cost = scaler.cost
    BY <1>2, <1>6
  <2>2. QED
    BY <1>1, <1>2, <2>1, NotPolled DEF Polled
<1>7. CASE scaler' = Idle
  BY <1>1, <1>2, <1>7, NotPolled DEF Idle
<1> HIDE DEF existing, readyPods, unreadyPods
<1>8. ASSUME rest > 0,
             NEW chosen \in SUBSET Cutoff(cost, rest),
             Cardinality(chosen) = Minimum(rest, Cardinality(Cutoff(cost, rest))),
             NEW q \in SetToSeqs(chosen),
             scaler' = [scaler EXCEPT !.pc = "applying", !.cost = cost,
                                      !.doomed = unready \o [n \in 1..Len(q) |-> taken(q[n])]]
      PROVE  SpareInv'
  <2> DEFINE picked == [n \in 1..Len(q) |-> taken(q[n])]
             doomed == unready \o picked
  <2>1. /\ scaler'.pc = "applying" /\ scaler'.cost = cost /\ scaler'.doomed = doomed
        /\ scaler'.listed = scaler.listed /\ scaler'.create = 0
    <3> HIDE DEF doomed, cost
    <3>1. scaler' = [scaler EXCEPT !.pc = "applying", !.cost = cost, !.doomed = doomed]
      BY <1>8 DEF doomed
    <3>2. QED
      BY <1>2, <3>1
  <2>2. SUFFICES ASSUME AllReady
                 PROVE  doomed \in Seq(Pod) /\ ToSet(doomed) = chosen
    <3>1. ASSUME AllReady'
          PROVE  AllReady
      BY <2>1, <3>1 DEF AllReady
    <3>2. rest \in Nat
      <4>1. Len(all) \in Nat /\ Len(unready) \in Nat
        BY <1>3, ListOf, PodsAreFinite
      <4> HIDE DEF all, unready
      <4>2. QED
        BY <1>2, <1>8, <4>1
    <3>3. \A p, r \in Pod : cost[p] \in Nat /\ cost[p] # 0 /\ cost[p] = cost[r] => p = r
      <4>1. ASSUME NEW p \in Pod, NEW r \in Pod, cost[p] \in Nat, cost[p] # 0, cost[p] = cost[r]
            PROVE  p = r
        <5>1. cost[p] = Cost(p) /\ cost[r] = Cost(r)
          BY <1>5, <4>1 DEF NotRead
        <5> HIDE DEF cost
        <5>2. QED
          BY <1>2, <4>1, <5>1, CostsDiffer
      <4>2. QED
        BY <4>1
    <3> HIDE DEF cost, rest, doomed
    <3>4. \A p \in chosen, r \in Pod \ chosen : cost[r] # NotRead => cost[p] # NotRead /\ cost[p] <= cost[r]
      BY <1>4, <1>8, <3>2, <3>3, ChosenAreCheapest
    <3>5. ASSUME AllReady'
          PROVE  doomed \in Seq(Pod) /\ Spared'
      <4>1. doomed \in Seq(Pod) /\ ToSet(doomed) = chosen
        BY <2>2, <3>1, <3>5
      <4>2. QED
        BY <2>1, <3>4, <4>1 DEF Spared
    <3>6. QED
      BY <1>1, <1>2, <2>1, <3>5 DEF SpareInv
  <2>3. existing = readyPods /\ unreadyPods = {} /\ all = ready
    BY <2>2 DEF AllReady, existing, readyPods, unreadyPods
  <2>4. unready = <<>>
    <3>1. unready \in Seq({}) /\ Len(unready) = 0
      BY <2>3, ListOf, FS_EmptySet
    <3> HIDE DEF unready
    <3>2. QED
      BY <3>1
  <2>5. chosen \in SUBSET readyPods
    BY <1>5 DEF Cutoff, readyPods
  <2>6. IsFiniteSet(chosen) /\ Cardinality(chosen) \in Nat /\ chosen \in SUBSET Pod
    BY <1>3, <2>5, PodsAreFinite
  <2>7. q \in [1..Cardinality(chosen) -> chosen] /\ \A i, j \in 1..Cardinality(chosen) : i # j => q[i] # q[j]
    BY DEF SetToSeqs
  <2>8. q \in Seq(chosen) /\ Len(q) = Cardinality(chosen)
    BY <2>6, <2>7
  <2>9. \A p \in chosen : \E n \in 1..Len(q) : q[n] = p
    <3>1. q \in Injection(1..Len(q), chosen)
      BY <2>7, <2>8 DEF Injection, IsInjective
    <3>2. Cardinality(1..Len(q)) = Cardinality(chosen)
      BY <2>6, <2>8, FS_Interval
    <3>3. q \in Surjection(1..Len(q), chosen)
      BY <2>6, <3>1, <3>2, FS_Injection
    <3>4. QED
      BY <3>3 DEF Surjection
  <2>10. ASSUME NEW p \in chosen
         PROVE  taken(p) = p
    <3>1. p \in readyPods
      BY <2>5
    <3>2. \E n \in 1..Len(ready) : ready[n] = p
      BY <1>3, <3>1, ListOf
    <3> HIDE DEF all, ready
    <3>3. QED
      BY <2>3, <3>2
  <2>11. picked = q
    <3>1. \A n \in 1..Len(q) : picked[n] = q[n]
      <4>1. \A n \in 1..Len(q) : q[n] \in chosen
        BY <2>8
      <4>2. \A p \in chosen : taken(p) = p
        BY <2>10
      <4>3. \A n \in 1..Len(q) : picked[n] = taken(q[n])
        OBVIOUS
      <4> HIDE DEF taken, picked
      <4>4. QED
        BY <4>1, <4>2, <4>3
    <3>2. DOMAIN picked = 1..Len(q) /\ DOMAIN q = 1..Len(q) /\ q = [n \in 1..Len(q) |-> q[n]]
      BY <2>7, <2>8
    <3>3. picked = [n \in 1..Len(q) |-> picked[n]]
      OBVIOUS
    <3> HIDE DEF picked
    <3>4. QED
      BY <3>1, <3>2, <3>3
  <2>12. doomed = q
    <3> HIDE DEF unready, picked
    <3>1. <<>> \o q = q
      BY <2>8
    <3>2. QED
      BY <2>4, <2>11, <3>1
  <2>13. q \in Seq(Pod) /\ ToSet(q) = chosen
    <3>1. q \in Seq(Pod)
      BY <2>6, <2>8
    <3>2. ToSet(q) = {q[n] : n \in 1..Len(q)}
      BY <2>8 DEF ToSet
    <3>3. \A n \in 1..Len(q) : q[n] \in chosen
      BY <2>8
    <3>4. QED
      BY <2>9, <3>1, <3>2, <3>3
  <2>14. QED
    BY <2>12, <2>13
<1>9. QED
  BY <1>1, <1>6, <1>7, <1>8

(* Within the tick, until the poll, no cost is known. *)
LEMMA ThinkSpare ==
    ASSUME SpareInv, TickInv, readBacklog \/ readSize \/ decide \/ resize \/ listPods \/ endOfTick
    PROVE  SpareInv'
<1>1. since' = since /\ since \in Seq(Pod)
  BY DEF SpareInv, readBacklog, readSize, decide, resize, listPods, endOfTick, work
<1>2. \A p \in Pod : Idle.cost[p] = NotRead
  BY DEF Idle
<1>3. CASE endOfTick
  BY <1>1, <1>2, <1>3, NotPolled DEF endOfTick
<1>4. CASE readBacklog \/ readSize \/ decide \/ resize \/ listPods
  <2>1. \A p \in Pod : scaler.cost[p] = NotRead
    BY <1>4 DEF SpareInv, Polled, readBacklog, readSize, decide, resize, listPods
  <2>2. scaler'.cost = scaler.cost \/ scaler' = Idle
    <3>1. CASE readBacklog \/ readSize
      BY <3>1 DEF readBacklog, readSize, TickInv
    <3>2. CASE decide
      BY <3>2 DEF decide, TickInv
    <3>3. CASE resize
      BY <3>3 DEF resize, TickInv
    <3>4. CASE listPods
      BY <3>4 DEF listPods, TickInv
    <3>5. QED
      BY <1>4, <3>1, <3>2, <3>3, <3>4
  <2>3. QED
    BY <1>1, <1>2, <2>1, <2>2, NotPolled
<1>5. QED
  BY <1>3, <1>4

(* The pods condemned are deleted one by one, the first one first. *)
LEMMA DeletePodSpares ==
    ASSUME SpareInv, TickInv, WorkInv, deletePod
    PROVE  SpareInv'
<1>1. PICK p \in Pod : p = Head(scaler.doomed)
  BY DEF deletePod, Exists
<1>2. /\ scaler.doomed # <<>> /\ Ends(p, "absent")
      /\ scaler' = [scaler EXCEPT !.doomed = Tail(@)] /\ scaler.pc = "applying"
  BY <1>1 DEF deletePod, Exists
<1>3. since' \in Seq(Pod) /\ ~Exists(p)' /\ \A q \in Pod : Exists(q)' => Exists(q)
  <2>1. since' \in Seq(Pod)
    BY <1>2, WithoutOne DEF SpareInv, Ends
  <2>2. phase \in [Pod -> Phase] /\ phase' = [phase EXCEPT ![p] = "absent"]
    BY <1>2 DEF WorkInv, Ends
  <2>3. QED
    BY <1>2, <2>1, <2>2 DEF Exists
<1>4. /\ scaler'.pc = scaler.pc /\ scaler'.listed = scaler.listed /\ scaler'.cost = scaler.cost
      /\ scaler'.create = scaler.create /\ scaler'.doomed = Tail(scaler.doomed)
  BY <1>2 DEF TickInv
<1>5. CASE AllReady /\ Polled
  <2>1. scaler.doomed \in Seq(Pod)
    BY <1>2, <1>5 DEF SpareInv
  <2>2. ToSet(Tail(scaler.doomed)) \subseteq ToSet(scaler.doomed) /\ Tail(scaler.doomed) \in Seq(Pod)
    BY <1>2, <2>1 DEF ToSet
  <2>3. ToSet(scaler.doomed) \subseteq {p} \cup ToSet(Tail(scaler.doomed))
    <3>1. ASSUME NEW n \in 1..Len(scaler.doomed), scaler.doomed[n] # p
          PROVE  scaler.doomed[n] \in ToSet(Tail(scaler.doomed))
      <4>1. n - 1 \in 1..Len(Tail(scaler.doomed)) /\ Tail(scaler.doomed)[n - 1] = scaler.doomed[n]
        BY <1>1, <1>2, <2>1, <3>1
      <4>2. DOMAIN Tail(scaler.doomed) = 1..Len(Tail(scaler.doomed))
        BY <2>2
      <4>3. QED
        BY <4>1, <4>2 DEF ToSet
    <3>2. QED
      BY <2>1, <3>1 DEF ToSet
  <2>4. \A q \in Pod : q \in ToSet(scaler.doomed) \ ToSet(scaler'.doomed) => ~Exists(q)'
    <3>1. ASSUME NEW q \in Pod, q \in ToSet(scaler.doomed) \ ToSet(scaler'.doomed)
          PROVE  q = p
      BY <1>4, <2>3, <3>1
    <3>2. QED
      BY <1>3, <3>1
  <2>5. QED
    BY <1>3, <1>4, <2>2, <2>4, SameSpare
<1>6. CASE ~(AllReady /\ Polled)
  <2>1. ~(AllReady' /\ Polled')
    BY <1>4, <1>6 DEF AllReady, Polled
  <2>2. QED
    BY <1>2, <1>3, <1>4, <2>1 DEF SpareInv
<1>7. QED
  BY <1>5, <1>6

LEMMA SpareStep ==
    ASSUME SpareInv, TickInv, WorkInv, [Next]_vars
    PROVE  SpareInv'
<1>1. since \in Seq(Pod)
  BY DEF SpareInv
<1>2. ASSUME scaler' = scaler, since' \in Seq(Pod), \A p \in Pod : Exists(p)' => Exists(p)
      PROVE  SpareInv'
  BY <1>2, SameSpare
<1>3. ASSUME NEW p \in Pod, NEW ph \in {"over", "absent"}, Ends(p, ph), Exists(p) \/ ph = "absent"
      PROVE  since' \in Seq(Pod) /\ \A q \in Pod : Exists(q)' => Exists(q)
  <2>1. phase \in [Pod -> Phase] /\ phase' = [phase EXCEPT ![p] = ph] /\ since' = Without(p)
    BY <1>3 DEF Ends, WorkInv
  <2>2. QED
    BY <1>1, <1>3, <2>1, WithoutOne DEF Exists
<1>4. CASE UNCHANGED <<scaler, since, phase>>
  BY <1>1, <1>2, <1>4 DEF Exists
<1>5. ASSUME NEW p \in Pod, Worker(p) \/ temporaryError(p) \/ fatalError(p)
      PROVE  SpareInv'
  <2>1. scaler' = scaler /\ phase' = phase
    BY <1>5 DEF Worker, pull, notify, commit, temporaryError, fatalError
  <2>2. since' = since \/ since' = Append(since, p) \/ since' = Without(p)
    BY <1>5 DEF Worker, pull, notify, commit, temporaryError, fatalError
  <2>3. Append(since, p) \in Seq(Pod) /\ Without(p) \in Seq(Pod)
    BY <1>1, WithoutOne
  <2>4. since' \in Seq(Pod)
    BY <1>1, <2>2, <2>3
  <2>5. QED
    BY <1>2, <2>1, <2>4 DEF Exists
<1>6. ASSUME NEW p \in Pod, Cluster(p)
      PROVE  SpareInv'
  <2>1. /\ scaler' = scaler /\ since' = since /\ phase[p] # "absent"
        /\ \E ph \in Phase : phase' = [phase EXCEPT ![p] = ph]
    BY <1>6 DEF Cluster, podStarts, podIsReady, work, Phase
  <2>2. \A q \in Pod : Exists(q)' => Exists(q)
    BY <2>1 DEF WorkInv, Exists
  <2>3. QED
    BY <1>1, <1>2, <2>1, <2>2
<1>7. ASSUME NEW p \in Pod, podFails(p)
      PROVE  SpareInv'
  <2>1. scaler' = scaler /\ Exists(p) /\ \E ph \in {"over", "absent"} : Ends(p, ph)
    BY <1>7 DEF podFails, Exists
  <2>2. QED
    BY <1>2, <1>3, <2>1
<1>8. ASSUME NEW p \in Pod, deleteInactive(p)
      PROVE  SpareInv'
  <2>1. scaler' = [scaler EXCEPT !.inactive = @ \ {p}] /\ Ends(p, "absent")
    BY <1>8 DEF deleteInactive
  <2>2. /\ scaler'.pc = scaler.pc /\ scaler'.listed = scaler.listed /\ scaler'.cost = scaler.cost
        /\ scaler'.create = scaler.create /\ scaler'.doomed = scaler.doomed
    BY <2>1 DEF TickInv
  <2>3. since' \in Seq(Pod) /\ \A q \in Pod : Exists(q)' => Exists(q)
    BY <1>3, <2>1
  <2>4. QED
    BY <2>2, <2>3, SameSpare
<1>9. ASSUME NEW p \in Pod, createPod(p)
      PROVE  SpareInv'
  <2>1. scaler.pc = "applying" /\ scaler.create > 0 /\ since' = since /\ scaler' = [scaler EXCEPT !.create = @ - 1]
    BY <1>9 DEF createPod, work
  <2>2. ~(AllReady /\ Polled)
    BY <2>1 DEF SpareInv
  <2>3. scaler'.pc = "applying" /\ scaler'.listed = scaler.listed /\ scaler'.cost = scaler.cost
    BY <2>1 DEF TickInv
  <2>4. ~(AllReady' /\ Polled')
    BY <2>2, <2>3 DEF AllReady, Polled
  <2>5. QED
    BY <1>1, <2>1, <2>3, <2>4 DEF SpareInv
<1>10. ASSUME NEW o \in Order, publish(o) \/ isDue(o)
       PROVE  SpareInv'
  BY <1>4, <1>10 DEF publish, isDue
<1>11. ASSUME NEW silent \in SUBSET Pod, poll(silent)
       PROVE  SpareInv'
  BY <1>11, PollSpares
<1>12. CASE UNCHANGED vars
  BY <1>4, <1>12 DEF vars, work
<1>13. CASE Autoscaler
  <2>1. poll({}) => SpareInv'
    BY <1>11
  <2>2. readBacklog \/ readSize \/ decide \/ resize \/ listPods \/ endOfTick => SpareInv'
    BY ThinkSpare
  <2>3. deletePod => SpareInv'
    BY DeletePodSpares
  <2>4. QED
    BY <1>8, <1>9, <1>13, <2>1, <2>2, <2>3 DEF Autoscaler
<1>14. CASE Fault
  BY <1>5, <1>7, <1>11, <1>14 DEF Fault
<1>15. QED
  BY <1>5, <1>6, <1>10, <1>12, <1>13, <1>14 DEF Next

(* Of the pods that answered the poll, ScaleDown deletes those that worked   *)
(* the least on their order, when all the pods are ready.                    *)
THEOREM LongestWorkersAreSpared == Spec => []LongestWorkIsSpared
<1>1. SpareInv => LongestWorkIsSpared
  <2>1. ASSUME SpareInv, scaler.pc = "applying", AllReady, Polled
        PROVE  Spared
    BY <2>1 DEF SpareInv
  <2>2. ASSUME ~Polled, SpareInv, NEW q \in {r \in Pod : Exists(r)}
        PROVE  scaler.cost[q] = NotRead
    BY <2>2 DEF Polled
  <2>3. QED
    BY <2>1, <2>2 DEF LongestWorkIsSpared, AllReady, Spared
<1>2. QED
  BY InitWork, WorkStep, InitTick, TickStep, InitSpare, SpareStep, <1>1, PTL DEF Spec

=============================================================================
