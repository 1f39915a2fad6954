-------------------------- MODULE ConsolidationFleet ------------------------
(* The consolidation workers and the autoscaler that creates and deletes     *)
(* them: the queue of orders (interface/messaging/pgqueue, and how it uses   *)
(* the pgq library), the pods that pull from it (cmd/consolidater), and the  *)
(* control loop that follows the backlog (interface/autoscaler/qbas and      *)
(* k8s).  A pod is a number; the cluster lists the pods in that order.       *)
EXTENDS Integers, Sequences, FiniteSets, SequencesExt

CONSTANTS
    Order,                      \* the consolidation orders
    NbPods,                     \* how many names of pods there are
    Ratio, MinRatio,            \* orders per worker: above, and below which the fleet changes
    MinInstances, MaxInstances, \* the limits of the fleet
    MaxStep,                    \* the most it changes at once
    Retries,                    \* how many times an order that failed is tried again (RetryWaits)
    MaxFaults                   \* how many pods fail, polls fail, or orders fail

None == "none"

ASSUME FleetAssumption ==
    /\ NbPods \in Nat /\ Ratio \in Nat \ {0} /\ MinRatio \in 0..Ratio
    /\ MinInstances \in Nat /\ MaxInstances \in Nat \ {0} /\ MinInstances <= MaxInstances
    /\ MaxStep \in Nat \ {0}
    /\ Retries \in Nat /\ MaxFaults \in Nat
    /\ IsFiniteSet(Order) /\ None \notin Order

Pod == 1..NbPods

VARIABLES
    queue,       \* the orders in the table that no transaction holds and that can be pulled
    held,        \* the order whose row is locked by the transaction of a pod
    since,       \* the pods that work, the first to have started first
    waiting,     \* the orders in the table that failed and whose time has not come
    failed,      \* how many attempts of each order failed (its row has Retries minus this many waits)
    answered,    \* history: the orders whose result was published
    unpublished, \* history: the orders deleted although their result was not published
    phase,       \* the phase of each pod, "absent" when it does not exist
    scaler,      \* the autoscaler
    faults       \* how many faults happened

ledger == <<waiting, failed, answered, unpublished>>
work == <<queue, held, since, ledger>>
vars == <<work, phase, scaler, faults>>

NotRead == -1

Phase == {"absent", "pending", "running", "ready", "over"}

(* The state of the autoscaler between two ticks. *)
Idle == [pc |-> "idle", backlog |-> NotRead, size |-> NotRead, target |-> 0,
         listed |-> [p \in Pod |-> "absent"], cost |-> [p \in Pod |-> NotRead],
         inactive |-> {}, doomed |-> <<>>, create |-> 0]

TypeOK ==
    /\ queue \subseteq Order
    /\ held \in [Pod -> Order \cup {None}]
    /\ since \in Seq(Pod) /\ ToSet(since) = {p \in Pod : held[p] # None}
    /\ waiting \subseteq Order
    /\ failed \in [Order -> 0..Retries + 1]
    /\ answered \subseteq Order
    /\ unpublished \subseteq Order
    /\ phase \in [Pod -> Phase]
    /\ scaler.pc \in {"idle", "resizing", "listing", "polling", "applying"}
    /\ scaler.backlog \in Nat \cup {NotRead}
    /\ scaler.size \in Nat \cup {NotRead}
    /\ scaler.target \in Nat
    /\ scaler.listed \in [Pod -> Phase]
    /\ scaler.cost \in [Pod -> Nat \cup {NotRead}]
    /\ scaler.inactive \subseteq Pod
    /\ scaler.doomed \in Seq(Pod)
    /\ scaler.create \in Nat
    /\ faults \in 0..MaxFaults

Init ==
    /\ queue = {}
    /\ held = [p \in Pod |-> None]
    /\ since = <<>>
    /\ waiting = {}
    /\ failed = [o \in Order |-> 0]
    /\ answered = {}
    /\ unpublished = {}
    /\ phase = [p \in Pod |-> "absent"]
    /\ scaler = Idle
    /\ faults = 0

(* The rows that count: one that is locked by a transaction does, one that   *)
(* waits does not.                                                           *)
Backlog == queue \cup {held[p] : p \in {q \in Pod : held[q] # None}}
Table == Backlog \cup waiting

(* The last attempt failed too. *)
GivenUp == {o \in Order : failed[o] > Retries}

Known == Table \cup answered \cup unpublished \cup GivenUp

-----------------------------------------------------------------------------
(* The server and the workers *)

(* csldSendOrders *)
publish(o) ==
    /\ o \notin Known
    /\ queue' = queue \cup {o}
    /\ UNCHANGED <<held, since, answered, waiting, failed, unpublished, phase, scaler, faults>>

(* Pull: PerformNextJob locks a row in a transaction that lasts as long as   *)
(* the order.                                                                *)
pull(p, o) ==
    /\ phase[p] \in {"running", "ready"}
    /\ held[p] = None
    /\ o \in queue
    /\ queue' = queue \ {o}
    /\ held' = [held EXCEPT ![p] = o]
    /\ since' = Append(since, p)
    /\ UNCHANGED <<answered, waiting, failed, unpublished, phase, scaler, faults>>

Without(p) == IF p \in ToSet(since) THEN RemoveAt(since, CHOOSE n \in DOMAIN since : since[n] = p) ELSE since

(* The order is executed and its result is published... *)
notify(p) ==
    /\ held[p] # None
    /\ held[p] \notin answered
    /\ answered' = answered \cup {held[p]}
    /\ UNCHANGED <<queue, held, since, waiting, failed, unpublished, phase, scaler, faults>>

(* ...then the row is deleted by the commit of the transaction. *)
commit(p) ==
    /\ held[p] \in answered
    /\ held' = [held EXCEPT ![p] = None]
    /\ since' = Without(p)
    /\ UNCHANGED <<queue, answered, waiting, failed, unpublished, phase, scaler, faults>>

(* Mutant: the row of an order that failed is not enqueued again. *)
MutEnqueuedNever(o) == waiting

(* An order is enqueued again with one wait fewer, as long as one is left.   *)
EnqueuedAgain(o) == IF failed[o] < Retries THEN waiting \cup {o} ELSE waiting

(* The handler returns a temporary error, panics, or the result cannot be    *)
(* published for now: the transaction that deletes the row of the order      *)
(* enqueues it again, to be run later.  TryCount is always -1: too many      *)
(* tries are never answered, and the last failure leaves no row.             *)
temporaryError(p) ==
    /\ faults < MaxFaults
    /\ faults' = faults + 1
    /\ held[p] # None
    /\ waiting' = EnqueuedAgain(held[p])
    /\ failed' = [failed EXCEPT ![held[p]] = @ + 1]
    /\ held' = [held EXCEPT ![p] = None]
    /\ since' = Without(p)
    /\ UNCHANGED <<queue, answered, unpublished, phase, scaler>>

(* The result cannot be published at all: the order is acknowledged. *)
fatalError(p) ==
    /\ faults < MaxFaults
    /\ faults' = faults + 1
    /\ held[p] # None
    /\ unpublished' = unpublished \cup {held[p]}
    /\ held' = [held EXCEPT ![p] = None]
    /\ since' = Without(p)
    /\ UNCHANGED <<queue, waiting, failed, answered, phase, scaler>>

(* The time of a row comes. *)
isDue(o) ==
    /\ o \in waiting
    /\ waiting' = waiting \ {o}
    /\ queue' = queue \cup {o}
    /\ UNCHANGED <<held, since, failed, answered, unpublished, phase, scaler, faults>>

(* The connection of a pod that ends is closed: its transaction is rolled    *)
(* back and the row can be pulled again.                                     *)
Requeued(p) == queue \cup ({held[p]} \ {None})

(* Mutant: the transaction of a pod outlives it. *)
MutEndsKeepsOrder(p, ph) ==
    /\ phase' = [phase EXCEPT ![p] = ph]
    /\ queue' = Requeued(p)
    /\ UNCHANGED <<held, since>>

Ends(p, ph) ==
    /\ phase' = [phase EXCEPT ![p] = ph]
    /\ queue' = Requeued(p)
    /\ held' = [held EXCEPT ![p] = None]
    /\ since' = Without(p)

-----------------------------------------------------------------------------
(* The cluster *)

podStarts(p) ==
    /\ phase[p] = "pending"
    /\ phase' = [phase EXCEPT ![p] = "running"]
    /\ UNCHANGED <<work, scaler, faults>>

podIsReady(p) ==
    /\ phase[p] = "running"
    /\ phase' = [phase EXCEPT ![p] = "ready"]
    /\ UNCHANGED <<work, scaler, faults>>

(* The pod fails, or its node is lost. *)
podFails(p) ==
    /\ faults < MaxFaults
    /\ faults' = faults + 1
    /\ phase[p] \in {"pending", "running", "ready"}
    /\ \E ph \in {"over", "absent"} : Ends(p, ph)
    /\ UNCHANGED <<ledger, scaler>>

Exists(p) == p \in Pod /\ phase[p] # "absent"

(* Mutant: a pod counts once it is running. *)
MutIsPodActiveRunning(ph) == ph \in {"running", "ready"}

isPodActive(ph) == ph \in {"pending", "running", "ready"}

listActivePods == {p \in Pod : isPodActive(phase[p])}

-----------------------------------------------------------------------------
(* Autoscale: the size of the fleet *)

CeilDiv(a, b) == (a + b - 1) \div b

Minimum(a, b) == IF a < b THEN a ELSE b

(* The size that the backlog calls for. *)
Wanted(backlog, size) ==
    IF backlog = 0 THEN 0
    ELSE IF size = 0 \/ backlog > Ratio * size THEN CeilDiv(backlog, Ratio)
    ELSE IF size > 1 /\ MinRatio > 0 /\ backlog < MinRatio * size THEN CeilDiv(backlog, MinRatio)
    ELSE IF backlog < size THEN backlog
    ELSE size

(* Not above the maximum, unless the fleet is already. *)
Capped(backlog, size) ==
    IF Wanted(backlog, size) <= MaxInstances THEN Wanted(backlog, size)
    ELSE IF size > MaxInstances THEN Minimum(size, backlog)
    ELSE MaxInstances

(* Mutant: the fleet is not emptied for a minimum of zero. *)
MutNeededSizeKeepsOne(backlog, size) ==
    IF Capped(backlog, size) < 1 THEN 1
    ELSE IF Capped(backlog, size) - size > MaxStep THEN size + MaxStep
    ELSE Capped(backlog, size)

(* Not below the minimum, and by steps, except to empty the fleet. *)
NeededSize(backlog, size) ==
    IF Capped(backlog, size) < MinInstances THEN MinInstances
    ELSE IF Capped(backlog, size) - size > MaxStep THEN size + MaxStep
    ELSE IF size - Capped(backlog, size) > MaxStep /\ backlog > 0 THEN size - MaxStep
    ELSE Capped(backlog, size)

-----------------------------------------------------------------------------
(* The ticks of the autoscaler *)

(* Two goroutines read the backlog and the size, in any order. *)
readBacklog ==
    /\ scaler.pc = "idle"
    /\ scaler.backlog = NotRead
    /\ scaler' = [scaler EXCEPT !.backlog = Cardinality(Backlog)]
    /\ UNCHANGED <<work, phase, faults>>

readSize ==
    /\ scaler.pc = "idle"
    /\ scaler.size = NotRead
    /\ scaler' = [scaler EXCEPT !.size = Cardinality(listActivePods)]
    /\ UNCHANGED <<work, phase, faults>>

(* The fleet grows, or is emptied, with Resize; it shrinks with ScaleDown. *)
decide ==
    /\ scaler.pc = "idle"
    /\ scaler.backlog # NotRead
    /\ scaler.size # NotRead
    /\ LET target == NeededSize(scaler.backlog, scaler.size) IN
        scaler' = IF target = scaler.size THEN Idle
                  ELSE [scaler EXCEPT !.target = target,
                                      !.pc = IF target > scaler.size \/ scaler.backlog = 0 THEN "resizing" ELSE "listing"]
    /\ UNCHANGED <<work, phase, faults>>

(* The pods of S, in the order of the cluster. *)
Rank(S, p) == Cardinality({q \in S : q <= p})
Listed(S) == [n \in 1..Cardinality(S) |-> CHOOSE p \in S : Rank(S, p) = n]

(* Resize lists the pods.  To empty the fleet it deletes them all; otherwise *)
(* it deletes the pods that are over, then creates those that are missing,   *)
(* unless one is pending, or deletes the last ones.                          *)
resize ==
    /\ scaler.pc = "resizing"
    /\ LET active == Listed(listActivePods)
           over == {p \in Pod : phase[p] = "over"}
           missing == scaler.target - Cardinality(listActivePods)
           pending == \E p \in listActivePods : phase[p] = "pending"
       IN scaler' = IF scaler.target = 0
                    THEN [scaler EXCEPT !.pc = "applying", !.doomed = Listed({p \in Pod : Exists(p)})]
                    ELSE [scaler EXCEPT !.pc = "applying", !.inactive = over,
                                        !.create = IF missing > 0 /\ ~pending THEN missing ELSE 0,
                                        !.doomed = IF missing < 0 THEN SubSeq(active, scaler.target + 1, Len(active)) ELSE <<>>]
    /\ UNCHANGED <<work, phase, faults>>

(* ScaleDown lists the pods, the ones that are over included. *)
listPods ==
    /\ scaler.pc = "listing"
    /\ scaler' = IF Cardinality({p \in Pod : Exists(p)}) <= scaler.target THEN Idle
                 ELSE [scaler EXCEPT !.pc = "polling", !.listed = phase]
    /\ UNCHANGED <<work, phase, faults>>

(* /termination_cost: how long the pod has worked on its order. *)
Cost(p) == Cardinality({n \in 1..Len(since) : \E m \in 1..n : since[m] = p})

(* Mutant: the busiest pods are the first candidates. *)
MutCutoffHighest(cost, n) == {p \in Pod : cost[p] # NotRead}

(* The pods whose cost is at most that of the n-th cheapest. *)
Cutoff(cost, n) ==
    {p \in Pod : cost[p] # NotRead /\ Cardinality({q \in Pod : cost[q] # NotRead /\ cost[q] < cost[p]}) < n}

(* orderedPodsCandidateForDeletion: the pods that are not ready first, then  *)
(* the cheapest of those that answered the poll, in an order that depends on *)
(* the nodes they run on.  A candidate is the rank of a ready pod among the  *)
(* ready ones, used as a rank among all the pods.  With no answer at all the *)
(* autoscaler panics, and starts again.                                      *)
poll(silent) ==
    /\ scaler.pc = "polling"
    /\ LET all == Listed({p \in Pod : scaler.listed[p] # "absent"})
           ready == Listed({p \in Pod : scaler.listed[p] = "ready"})
           unready == Listed({p \in Pod : scaler.listed[p] \notin {"absent", "ready"}})
           needed == Len(all) - scaler.target
           rest == needed - Len(unready)
           cost == [p \in Pod |-> IF scaler.listed[p] = "ready" /\ phase[p] = "ready" /\ p \notin silent
                                  THEN Cost(p) ELSE NotRead]
           taken(p) == all[CHOOSE n \in 1..Len(ready) : ready[n] = p]
       IN \/ /\ rest <= 0
             /\ scaler' = [scaler EXCEPT !.pc = "applying", !.doomed = SubSeq(unready, 1, needed)]
          \/ /\ rest > 0
             /\ Cutoff(cost, rest) = {}
             /\ scaler' = Idle
          \/ /\ rest > 0
             /\ \E chosen \in SUBSET Cutoff(cost, rest) :
                 /\ chosen # {}
                 /\ Cardinality(chosen) = Minimum(rest, Cardinality(Cutoff(cost, rest)))
                 /\ \E q \in SetToSeqs(chosen) :
                     scaler' = [scaler EXCEPT !.pc = "applying", !.cost = cost,
                                              !.doomed = unready \o [n \in 1..Len(q) |-> taken(q[n])]]
    /\ faults + Cardinality(silent) <= MaxFaults
    /\ faults' = faults + Cardinality(silent)
    /\ UNCHANGED <<work, phase>>

(* The pods that are over are deleted, or not, before anything else. *)
deleteInactive(p) ==
    /\ scaler.pc = "applying"
    /\ p \in scaler.inactive
    /\ scaler' = [scaler EXCEPT !.inactive = @ \ {p}]
    /\ Ends(p, "absent")
    /\ UNCHANGED <<ledger, faults>>

createPod(p) ==
    /\ scaler.pc = "applying"
    /\ scaler.inactive = {}
    /\ scaler.create > 0
    /\ phase[p] = "absent"
    /\ scaler' = [scaler EXCEPT !.create = @ - 1]
    /\ phase' = [phase EXCEPT ![p] = "pending"]
    /\ UNCHANGED <<work, faults>>

deletePod ==
    /\ scaler.pc = "applying"
    /\ scaler.inactive = {}
    /\ scaler.doomed # <<>>
    /\ Exists(Head(scaler.doomed))
    /\ scaler' = [scaler EXCEPT !.doomed = Tail(@)]
    /\ Ends(Head(scaler.doomed), "absent")
    /\ UNCHANGED <<ledger, faults>>

(* The tick ends, at the latest with the first deletion that fails. *)
endOfTick ==
    /\ scaler.pc = "applying"
    /\ scaler.inactive = {}
    /\ scaler.create = 0
    /\ scaler.doomed # <<>> => ~Exists(Head(scaler.doomed))
    /\ scaler' = Idle
    /\ UNCHANGED <<work, phase, faults>>

-----------------------------------------------------------------------------
Worker(p) == (\E o \in Order : pull(p, o)) \/ notify(p) \/ commit(p)

Cluster(p) == podStarts(p) \/ podIsReady(p)

Autoscaler ==
    \/ readBacklog \/ readSize \/ decide \/ resize \/ listPods \/ poll({})
    \/ \E p \in Pod : deleteInactive(p) \/ createPod(p)
    \/ deletePod \/ endOfTick

Fault ==
    \/ \E p \in Pod : podFails(p) \/ temporaryError(p) \/ fatalError(p)
    \/ \E silent \in SUBSET Pod : silent # {} /\ poll(silent)

Next ==
    \/ \E o \in Order : publish(o) \/ isDue(o)
    \/ \E p \in Pod : Worker(p) \/ Cluster(p)
    \/ Autoscaler
    \/ Fault

Spec == Init /\ [][Next]_vars

(* Every worker goes on, every pod that is pending ends up running, the      *)
(* autoscaler ticks forever, and time passes.                                *)
Fairness ==
    /\ \A o \in Order : WF_vars(isDue(o))
    /\ \A p \in Pod : WF_vars(Worker(p)) /\ WF_vars(Cluster(p))
    /\ WF_vars(Autoscaler)

FairSpec == Spec /\ Fairness

-----------------------------------------------------------------------------
(* However the readings of a tick, the deaths and the starts of pods         *)
(* interleave, there are never more workers than the configured maximum.     *)
BoundedFleet == Cardinality(listActivePods) <= MaxInstances

(* An order is executed by one pod at a time, that is alive, and has one row *)
(* at most: the row that a pod has locked can neither be pulled by another   *)
(* pod nor wait to be, the pods that die give their rows back, and the row   *)
(* of an order that was given up or acknowledged never comes back            *)
(* (PerformNextJob deletes and enqueues in one transaction).                 *)
OneHolder ==
    /\ \A p \in Pod : held[p] # None => phase[p] \in {"running", "ready"} /\ held[p] \notin queue \cup waiting
    /\ \A p, q \in Pod : p # q /\ held[p] # None => held[p] # held[q]
    /\ queue \cap waiting = {}
    /\ Table \cap (GivenUp \cup unpublished) = {}

(* No order disappears, whatever pods are deleted and whatever attempts      *)
(* fail: one that was published is in the table until its result is          *)
(* published, could not be, or all its attempts failed (PerformNextJob).     *)
OrdersAreKept == [][Known \subseteq Known']_vars

(* When all the pods are ready, those that ScaleDown deletes did not work    *)
(* longer than one that it spares (replication-controller.go:369).           *)
LongestWorkIsSpared ==
    scaler.pc = "applying" /\ (\A p \in Pod : scaler.listed[p] \in {"ready", "absent"}) =>
        \A p \in ToSet(scaler.doomed), q \in {r \in Pod : Exists(r)} \ ToSet(scaler.doomed) :
            scaler.cost[p] # NotRead /\ scaler.cost[q] # NotRead => scaler.cost[p] <= scaler.cost[q]

(* The orders that wait for another attempt are not in the backlog that      *)
(* the fleet follows; still, all the orders published end up answered,       *)
(* acknowledged or given up, and then no worker is left beyond the minimum.  *)
WorkEnds == <>[](Table = {} /\ Cardinality(listActivePods) = MinInstances)

=============================================================================
