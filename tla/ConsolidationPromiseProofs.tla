---------------------- MODULE ConsolidationPromiseProofs ----------------------
(* What the job promises to its neighbours: ConsolidationJob implements      *)
(* CatalogueSwap, so that every step of the job is, for the readers of the   *)
(* catalogue, a step of the promised replacement or nothing; and the storage *)
(* has the containers of the catalogue, whatever is cancelled, rolled back,  *)
(* retried or delivered late.  For any tasks, sources, handlers, commands    *)
(* and faults.  Without faults nor retries, a consolidation that failed      *)
(* leaves no container behind.                                               *)
EXTENDS ConsolidationJobProofs

(* The states of a job whose orders are not prepared. *)
Early == {Absent, "NEW", "CREATED", "INITIALISATIONFAILED"}

(* The locks of the submission are replaced by those of the preparation. *)
InitLocks ==
    Heard("OrdersPrepared") \/ job.state \notin Early =>
        Aborted \/ \A s \in Source : lock[s] # "INIT"

(* On top of CatalogueInv: only the planned sources are locked to be deleted *)
(* or are out of the catalogue, and the products enter it all at once.       *)
PromiseInv ==
    /\ job.state = Absent => ~Heard("OrdersPrepared")
    /\ InitLocks
    /\ \A s \in Source : lock[s] = "TODELETE" => s \in Planned
    /\ \A s \in Source : status[s] # "ACTIVE" => s \in Planned /\ ~collapse
    /\ (\E t \in Task : output[t] = "ACTIVE") => Swapped

LEMMA PromiseInit == Init => PromiseInv
<1> SUFFICES ASSUME Init PROVE PromiseInv
  OBVIOUS
<1>1. ~Heard("OrdersPrepared")
  BY DEF Init, Heard, Idle, JobEvent, ConsolidationEvent, Absent
<1>2. QED
  BY <1>1 DEF Init, PromiseInv, InitLocks, Early, Absent

(* What the transitions require, from the preparation to the end (job.go,    *)
(* triggerConsolidation).                                                    *)
LEMMA EarlyEdges ==
    ASSUME NEW from, NEW e, NEW to, <<from, e, to>> \in ConsolidationEdges
    PROVE  /\ from \in Early /\ to \notin Early => e = "OrdersPrepared" \/ to \in Over
           /\ from \in Effective => to \in Effective
           /\ from # "FAILED"
  BY DEF ConsolidationEdges, SharedEdges, Edges, AnyRetry, AnyCancel, Over, Early, Effective,
         Absent

(* The orders are prepared by a fresh handler, in a job that exists, and     *)
(* the locks of the submission are replaced at the same time                 *)
(* (csldPrepareOrders, csldConsolidationRetry).                              *)
LEMMA OrdersHeard ==
    ASSUME CatalogueInv, [Next]_vars, Heard("OrdersPrepared")', ~Heard("OrdersPrepared")
    PROVE  /\ job.state # Absent
           /\ job.state \notin Early \/ \A s \in Source : lock'[s] # "INIT"
<1>1. PICK h \in Handler : \/ csldPrepareOrders(h)
                           \/ csldConsolidationRetry(h)
                           \/ csldConsolidationForceRetry(h)
  BY Emitted DEF CatalogueInv, Telling
<1>2. handler[h].fresh /\ FreshInv
  BY <1>1 DEF csldPrepareOrders, csldConsolidationRetry, csldConsolidationForceRetry, FreshAt,
     CatalogueInv
<1>3. job.state # Absent
  BY <1>2, FreshStates
<1>4. CASE csldPrepareOrders(h)
  BY <1>3, <1>4 DEF csldPrepareOrders, Absent
<1>5. CASE csldConsolidationRetry(h)
  BY <1>2, <1>3, <1>5, FreshStates DEF csldConsolidationRetry, FreshAt, Early, Absent
<1>6. CASE csldConsolidationForceRetry(h)
  BY <1>2, <1>3, <1>6, FreshStates DEF csldConsolidationForceRetry, FreshAt, Early, Absent
<1>7. QED
  BY <1>1, <1>3, <1>4, <1>5, <1>6

(* Before the swap the locks are those of the plan. *)
LEMMA SwapLocks ==
    ASSUME CatalogueInv, PromiseInv, job.state = "CONSOLIDATIONINDEXED",
           NEW s \in Source, lock[s] \in {"INIT", "TODELETE"}
    PROVE  s \in Planned
<1>1. job.state \notin Early /\ ~Aborted
  BY DEF Early, Aborted, Over, Absent
<1>2. QED
  BY <1>1 DEF PromiseInv, InitLocks

(* The invariant is inductive. *)
LEMMA PromiseStep ==
    ASSUME CatalogueInv, PromiseInv, [Next]_vars
    PROVE  PromiseInv'
<1>1. plan' = plan /\ collapse' = collapse /\ Effect /\ plan \subseteq Task
  BY Effects DEF CatalogueInv, Typed, TypeOK
<1>2. (Aborted => Aborted') /\ (job'.state = Absent => job.state = Absent)
  BY States DEF CatalogueInv
<1>3. Planned' = Planned
  BY <1>1 DEF Planned
<1>4. (job.state = Absent => ~Heard("OrdersPrepared"))'
  BY <1>2, OrdersHeard DEF PromiseInv
<1>5. ASSUME NEW s \in Source, lock'[s] = "INIT", ~Starts PROVE lock[s] = "INIT"
  BY <1>1, <1>5 DEF Effect, Quiet, Prepares, Updates, Cancels, Indexes, Swaps, Deletes, RollsBack,
     EndsRollback, Absent
<1>6. InitLocks'
  <2> SUFFICES ASSUME NEW s \in Source, lock'[s] = "INIT", ~Aborted',
                      Heard("OrdersPrepared")' \/ job'.state \notin Early
               PROVE  FALSE
    BY DEF InitLocks
  <2>1. ~Aborted
    BY <1>2
  <2>2. ~Starts
    BY <1>4, OrdersHeard DEF Starts, PromiseInv, Early
  <2>3. lock[s] = "INIT"
    BY <1>5, <2>2
  <2>4. ~Heard("OrdersPrepared") /\ job.state \in Early
    BY <2>1, <2>3 DEF PromiseInv, InitLocks
  <2>5. ~Heard("OrdersPrepared")'
    BY <2>4, OrdersHeard
  <2>6. job'.state \notin Early /\ job'.state # job.state
    BY <2>4, <2>5
  <2>7. ~csldInit
    BY <2>6 DEF csldInit, Early, CatalogueInv, Typed, TypeOK
  <2>8. job'.state # "ABORTED"
    BY DEF Aborted, Over
  <2>9. PICK e \in JobEvent :
           jobEvents[e] > 0 /\ <<job.state, e, job'.state>> \in ConsolidationEdges
    BY <2>6, <2>7, <2>8, Moved DEF CatalogueInv
  <2>10. QED
    BY <2>4, <2>6, <2>9, EarlyEdges DEF Heard, Aborted
<1>7. \A s \in Source : lock'[s] = "TODELETE" => s \in Planned
  BY <1>1 DEF PromiseInv, Effect, Quiet, Starts, Prepares, Updates, Cancels, Indexes, Swaps,
     Deletes, RollsBack, EndsRollback, Absent
<1>8. \A s \in Source : status'[s] # "ACTIVE" => s \in Planned /\ ~collapse
  <2>1. CASE Swaps
    BY <2>1, SwapLocks DEF Swaps, PromiseInv
  <2>2. CASE ~Swaps
    BY <1>1, <2>2 DEF PromiseInv, Effect, Quiet, Starts, Prepares, Updates, Cancels, Indexes,
       Deletes, RollsBack, EndsRollback
  <2>3. QED
    BY <2>1, <2>2
<1>9. ASSUME NEW t \in Task, output'[t] = "ACTIVE" PROVE Swapped'
  <2>1. CASE Swaps
    <3>1. Indexed
      BY <2>1 DEF Swaps, CatalogueInv, IndexedHeard, Aborted, Over
    <3>2. QED
      BY <1>1, <2>1, <3>1 DEF Swaps, Indexed, Swapped, CatalogueInv, Typed, TypeOK
  <2>2. CASE ~Swaps
    <3>1. output \in [Task -> {Absent, "INACTIVE", "ACTIVE"}]
      BY DEF CatalogueInv, Typed, TypeOK
    <3>2. output[t] = "ACTIVE"
      BY <1>1, <1>9, <2>2, <3>1 DEF Effect, Quiet, Starts, Prepares, Updates, Cancels, Indexes,
         Deletes, RollsBack, EndsRollback, Absent
    <3>3. QED
      BY <1>1, <3>2, SwappedForGood DEF PromiseInv, Swapped
  <2>3. QED
    BY <2>1, <2>2
<1>10. QED
  BY <1>1, <1>3, <1>4, <1>6, <1>7, <1>8, <1>9 DEF PromiseInv

-----------------------------------------------------------------------------
(* The readers *)

Sources == {s \in Source : status[s] = "ACTIVE"}
Products == {t \in Task : output[t] = "ACTIVE"}

(* Only the swap changes what can be read. *)
LEMMA ReadersSee ==
    ASSUME CatalogueInv, [Next]_vars, ~Swaps
    PROVE  Sources' = Sources /\ Products' = Products
<1>1. Effect /\ output \in [Task -> {Absent, "INACTIVE", "ACTIVE"}]
  BY Effects DEF CatalogueInv, Typed, TypeOK
<1>2. status' = status
  BY <1>1 DEF Effect, Quiet, Starts, Prepares, Updates, Cancels, Indexes, Deletes, RollsBack,
     EndsRollback
<1>3. \A t \in Task : output'[t] = "ACTIVE" <=> output[t] = "ACTIVE"
  <2>1. CASE Indexes
    BY <1>1, <2>1 DEF Indexes, CatalogueInv, IndexedOnce, Absent
  <2>2. CASE RollsBack
    BY <1>1, <2>2 DEF RollsBack, Absent
  <2>3. QED
    BY <1>1, <2>1, <2>2 DEF Effect, Quiet, Starts, Prepares, Updates, Cancels, Deletes, EndsRollback
<1>4. QED
  BY <1>2, <1>3 DEF Sources, Products

(* The products that can be read are none or all. *)
LEMMA AllProducts ==
    ASSUME CatalogueInv, PromiseInv
    PROVE  /\ Products = {} \/ Swapped
           /\ Swapped => Products = plan
<1>1. plan \subseteq Task /\ \A t \in Task : output[t] = "ACTIVE" => t \in plan
  BY DEF CatalogueInv, Typed, TypeOK, PlanInv, Started, Absent
<1>2. QED
  BY <1>1 DEF Products, Swapped, PromiseInv

(* The swap is the promised replacement, or changes nothing when it is run   *)
(* again (csldSwapDatasets).                                                 *)
LEMMA SwapStep ==
    ASSUME CatalogueInv, PromiseInv, [Next]_vars, Swaps
    PROVE  /\ Products' = plan
           /\ Products = {} =>
                  Sources' = IF collapse THEN Source ELSE Source \ Planned
           /\ Products # {} => Products = plan /\ Sources' = Sources
<1>1. /\ plan' = plan /\ collapse' = collapse /\ plan \subseteq Task
      /\ \A t \in Task : Inputs[t] \subseteq Source
      /\ status \in [Source -> {"ACTIVE", "TODELETE"}]
      /\ output \in [Task -> {Absent, "INACTIVE", "ACTIVE"}]
  BY Effects, InputsAssumption DEF CatalogueInv, Typed, TypeOK
<1>2. job.state = "CONSOLIDATIONINDEXED" /\ \A t \in plan : output[t] # Absent
  BY DEF Swaps, CatalogueInv, IndexedHeard, Indexed, Aborted, Over
<1>3. \A t \in plan : output'[t] = "ACTIVE"
  BY <1>1, <1>2 DEF Swaps
<1>4. Products' = plan
  <2>1. CatalogueInv'
    BY CatalogueStep
  <2>2. \A t \in Task : output'[t] = "ACTIVE" => t \in plan
    BY <1>1, <2>1 DEF CatalogueInv, PlanInv, Started, Absent
  <2>3. QED
    BY <1>1, <1>3, <2>2 DEF Products
<1>5. \A s \in Source : lock[s] \in {"INIT", "TODELETE"} => s \in Planned
  BY <1>2, SwapLocks
<1>6. \A s \in Source : status[s] # "ACTIVE" => s \in Planned /\ ~collapse
  BY DEF PromiseInv
<1>7. CASE Products = {}
  <2>1. CASE collapse
    BY <1>4, <1>6, <1>7, <2>1 DEF Swaps, Sources
  <2>2. CASE ~collapse
    <3>1. ASSUME NEW t \in plan, NEW s \in Inputs[t] PROVE lock[s] = "TODELETE"
      <4>1. output[t] = "INACTIVE"
        BY <1>1, <1>2, <1>7 DEF Products
      <4>2. QED
        BY <1>1, <3>1, <4>1 DEF CatalogueInv, InputsStayLocked
    <3>2. \A s \in Source : status'[s] = "ACTIVE" <=> s \notin Planned
      BY <1>1, <1>5, <1>6, <2>2, <3>1 DEF Swaps, Planned
    <3>3. QED
      BY <1>4, <1>7, <2>2, <3>2 DEF Sources
  <2>3. QED
    BY <2>1, <2>2
<1>8. CASE Products # {}
  <2>1. Swapped /\ Products = plan
    BY <1>8, AllProducts
  <2>2. ASSUME ~collapse, NEW s \in Planned PROVE status[s] # "ACTIVE"
    BY <2>1, <2>2 DEF Planned, CatalogueInv, ServedOnce, Swapped
  <2>3. \A s \in Source : status'[s] = "ACTIVE" <=> status[s] = "ACTIVE"
    BY <1>1, <1>5, <2>2 DEF Swaps
  <2>4. Sources' = Sources
    BY <2>3 DEF Sources
  <2>5. QED
    BY <1>4, <1>8, <2>1, <2>4
<1>9. QED
  BY <1>7, <1>8

(* The outcome: it is settled once, in time, and for good (the automaton).   *)
LEMMA OutcomeStep ==
    ASSUME CatalogueInv, PromiseInv, [Next]_vars
    PROVE  \/ Outcome' = Outcome
           \/ /\ Outcome = "running" /\ Sources' = Sources /\ Products' = Products
              /\ \/ Outcome' = "done" /\ Products = plan
                 \/ Outcome' = "failed" /\ Products = {}
<1>1. CatalogueInv' /\ plan' = plan
  BY CatalogueStep, Effects DEF CatalogueInv
<1>2. Outcome \in {"done", "failed", "running"}
  BY DEF Outcome
<1>3. Outcome' = "done" => Products' = plan
  <2>1. Outcome' = "done" => Swapped'
    BY <1>1 DEF Outcome, Effective, CatalogueInv, SwappedHeard
  <2>2. Swapped' => Products' = plan'
    <3>1. plan' \subseteq Task /\ \A t \in Task : output'[t] = "ACTIVE" => t \in plan'
      BY <1>1 DEF CatalogueInv, Typed, TypeOK, PlanInv, Started, Absent
    <3>2. QED
      BY <3>1 DEF Products, Swapped
  <2>3. QED
    BY <1>1, <2>1, <2>2
<1>4. Outcome' = "failed" => Products' = {}
  BY DEF Outcome, Products
<1>5. Outcome' \in {"done", "failed", "running"}
  BY DEF Outcome
<1>6. CASE job'.state = job.state
  <2>1. CASE job.state = "FAILED"
    <3>1. ~Swaps
      BY <2>1 DEF Swaps
    <3>2. \A t \in Task : output'[t] = "ACTIVE" <=> output[t] = "ACTIVE"
      BY <3>1, ReadersSee DEF Products
    <3>3. QED
      BY <1>6, <3>2 DEF Outcome
  <2>2. CASE job.state # "FAILED"
    BY <1>6, <2>2 DEF Outcome
  <2>3. QED
    BY <2>1, <2>2
<1>7. CASE csldInit
  BY <1>7 DEF csldInit, Outcome, Absent, CatalogueInv, Typed, TypeOK
<1>8. CASE job'.state # job.state /\ ~csldInit
  <2>1. /\ Quiet
        /\ \/ \E e \in JobEvent : <<job.state, e, job'.state>> \in ConsolidationEdges
           \/ job.state \in ConsolidationPause
    BY <1>8, Moved DEF CatalogueInv
  <2>2. Sources' = Sources /\ Products' = Products
    BY <2>1 DEF Quiet, Sources, Products
  <2>3. Outcome # "failed"
    BY <2>1, EarlyEdges DEF Outcome, ConsolidationPause
  <2>4. Outcome = "done" => Outcome' = "done"
    <3>1. job.state \in Effective => job'.state \in Effective
      BY <2>1, EarlyEdges DEF Effective, ConsolidationPause
    <3>2. QED
      BY <3>1 DEF Outcome, Effective
  <2>5. QED
    BY <1>2, <1>3, <1>4, <1>5, <2>2, <2>3, <2>4
<1>9. QED
  BY <1>6, <1>7, <1>8

(* The job implements the promised replacement: whatever is interleaved,     *)
(* fails, is delivered twice or forced by the user, the datasets are         *)
(* replaced all at once, once and for good, before any success and never     *)
(* after a failure (csldSwapDatasets, csldRollback, triggerConsolidation).   *)
THEOREM PromiseKept == Spec => KeepsPromise
<1>1. Init => Swap!Init
  BY DEF Init, Swap!Init, Outcome, Absent
<1>2. CatalogueInv /\ PromiseInv /\ [Next]_vars => [Swap!Next]_(Swap!swapVars)
  <2> SUFFICES ASSUME CatalogueInv, PromiseInv, [Next]_vars
               PROVE  [Swap!Next]_(Swap!swapVars)
    OBVIOUS
  <2>1. plan' = plan /\ collapse' = collapse
    BY Effects DEF CatalogueInv
  <2>2. CASE Outcome' # Outcome
    <3>1. /\ Outcome = "running" /\ Sources' = Sources /\ Products' = Products
          /\ \/ Outcome' = "done" /\ Products = plan
             \/ Outcome' = "failed" /\ Products = {}
      BY <2>2, OutcomeStep
    <3>2. Swap!Succeed \/ Swap!Fail
      BY <2>1, <3>1 DEF Swap!Succeed, Swap!Fail, Sources, Products
    <3>3. QED
      BY <3>2 DEF Swap!Next
  <2>3. CASE Outcome' = Outcome /\ Swaps /\ Products = {}
    <3>1. Products' = plan /\ Sources' = IF collapse THEN Source ELSE Source \ Planned
      BY <2>3, SwapStep
    <3>2. Outcome = "running"
      BY <2>3 DEF Swaps, Outcome
    <3>3. Swap!Swap
      BY <2>1, <2>3, <3>1, <3>2 DEF Swap!Swap, Sources, Products, Planned
    <3>4. QED
      BY <3>3 DEF Swap!Next
  <2>4. CASE Outcome' = Outcome /\ (~Swaps \/ Products # {})
    <3>1. Sources' = Sources /\ Products' = Products
      BY <2>4, ReadersSee, SwapStep
    <3>2. QED
      BY <2>1, <2>4, <3>1 DEF Swap!swapVars, Sources, Products
  <2>5. QED
    BY <2>2, <2>3, <2>4
<1>3. Spec => []PromiseInv
  <2>1. CatalogueInv /\ PromiseInv /\ [Next]_vars => PromiseInv'
    BY PromiseStep
  <2>2. QED
    BY <2>1, PromiseInit, CatalogueCorrect, PTL DEF Spec
<1>4. QED
  BY <1>1, <1>2, <1>3, CatalogueCorrect, PTL DEF Spec, KeepsPromise, Swap!Spec

-----------------------------------------------------------------------------
(* The storage. *)

Built(t) ==
    \/ task[t] = "DONE"
    \/ taskEvents[<<t, "TaskSuccessful">>] > 0
    \/ orders[<<t, "uploaded">>] > 0

(* What was built is in the storage, until the job is cancelled for good. *)
BuiltHasFile == \A t \in Task : Built(t) => t \in file \/ job.state \in Cancelling

(* A cancellation file names a task that is not indexed. *)
CancelFileInv ==
    /\ cancelFile # {} => job.state \in Cancelling
    /\ \A t \in Task : t \in cancelFile => output[t] = Absent

(* The steps that write cancellation files or delete pending containers run  *)
(* in a job that is cancelled for good, even on a stale copy of it.          *)
CancelStepInv ==
    \A h \in Handler :
        /\ handler[h].pc \in {"csldCancel", "saveCancellation"} => job.state \in Cancelling
        /\ handler[h].pc = "deletePendingContainers" => Aborted

FileInv == IndexedHasFile /\ BuiltHasFile /\ CancelFileInv /\ CancelStepInv

(* The states in which a step is entered (csldOnEnterNewState). *)
LEMMA EntryStates ==
    ASSUME NEW s
    PROVE  /\ StepOf(s) = "csldCancel" => s \in Cancelling
           /\ StepOf(s) \notin {"saveCancellation", "deletePendingContainers"}
  BY DEF StepOf, Cancelling

(* A handler enters these steps in a cancelled job, that stays cancelled.    *)
LEMMA CancelStepStep ==
    ASSUME CatalogueInv, CancelStepInv, [Next]_vars
    PROVE  CancelStepInv'
<1> SUFFICES ASSUME NEW h \in Handler
             PROVE  /\ handler'[h].pc \in {"csldCancel", "saveCancellation"} =>
                            job'.state \in Cancelling
                    /\ handler'[h].pc = "deletePendingContainers" => Aborted'
  BY DEF CancelStepInv
<1>1. Aborted => Aborted'
  BY States DEF CatalogueInv
<1>2. job.state \in Cancelling => job'.state \in Cancelling
  BY States DEF CatalogueInv
<1>3. CASE Stays(h)
  BY <1>1, <1>2, <1>3 DEF Stays, CancelStepInv
<1>4. CASE MovesOn(h)
  BY <1>2, <1>4, EntryStates DEF MovesOn, CancelStepInv, At, Aborted, Over, Cancelling
<1>5. QED
  BY <1>3, <1>4, HandlerMoves DEF Stops, CatalogueInv

(* The queue of orders, one message moved. *)
LEMMA OrdersMove ==
    ASSUME TypeOK, NEW t \in Task, NEW from \in Progress, NEW x \in Task,
           orders'[<<x, "uploaded">>] > 0
    PROVE  /\ Finish(t, from) => orders[<<x, "uploaded">>] > 0
           /\ \A to \in Progress : Advance(t, from, to) =>
                  orders[<<x, "uploaded">>] > 0 \/ (x = t /\ to = "uploaded")
<1>1. orders \in [Task \X Progress -> Nat] /\ <<x, "uploaded">> \in Task \X Progress
      /\ <<t, from>> \in Task \X Progress
  BY DEF TypeOK, Progress
<1>2. Finish(t, from) => orders[<<x, "uploaded">>] > 0
  BY <1>1 DEF Finish
<1>3. ASSUME NEW to \in Progress, Advance(t, from, to), ~(x = t /\ to = "uploaded")
      PROVE  orders[<<x, "uploaded">>] > 0
  <2>1. <<t, to>> \in Task \X Progress /\ <<t, to>> # <<x, "uploaded">>
    BY <1>3
  <2>2. orders' = [orders EXCEPT ![<<t, from>>] = @ - 1, ![<<t, to>>] = @ + 1]
    BY <1>3 DEF Advance
  <2>3. orders'[<<x, "uploaded">>] \in {orders[<<x, "uploaded">>], orders[<<x, "uploaded">>] - 1}
    BY <1>1, <2>1, <2>2
  <2>4. QED
    BY <1>1, <2>3
<1>4. QED
  BY <1>2, <1>3

(* A container leaves the storage in a cancelled job, and the catalogue with *)
(* it (Consolidate, csldRollback, csldSubFncDeletePendingRemoteContainers).  *)
LEMMA FileStep ==
    ASSUME CatalogueInv, FileInv, [Next]_vars, NEW t \in Task, t \in file, t \notin file'
    PROVE  job.state \in Cancelling /\ output'[t] = Absent
<1>1. ASSUME NEW x \in Task, WorkerStep(x) \/ workerCrashes(x)
      PROVE  job.state \in Cancelling /\ output'[t] = Absent
  <2>1. t \in cancelFile /\ output' = output
    BY <1>1 DEF WorkerStep, workerCrashes, workerChecks, workerCancelled, workerUploads, workerReports,
       workerFails, database, storage
  <2>2. QED
    BY <2>1 DEF FileInv, CancelFileInv
<1>2. ASSUME NEW h \in Handler, csldRollback(h)
      PROVE  job.state \in Cancelling /\ output'[t] = Absent
  <2>1. job.state = "ABORTED"
    BY <1>2, FreshStates DEF csldRollback, FreshAt, CatalogueInv
  <2>2. output[t] = "INACTIVE"
    BY <1>2 DEF csldRollback
  <2>3. QED
    BY <1>2, <2>1, <2>2 DEF csldRollback, Cancelling, Over
<1>3. ASSUME NEW h \in Handler, NEW x \in Task, deletePendingContainer(h, x)
      PROVE  job.state \in Cancelling /\ output'[t] = Absent
  <2>1. t = x /\ output[t] = Absent /\ output' = output
    BY <1>3 DEF deletePendingContainer, Unindexed
  <2>2. Aborted
    BY <1>3 DEF deletePendingContainer, At, FileInv, CancelStepInv
  <2>3. QED
    BY <2>1, <2>2 DEF Aborted, Cancelling
<1>4. ASSUME NEW h \in Handler, HandlerStep(h) \/ Crash(h), ~csldRollback(h),
             \A x \in Task : ~deletePendingContainer(h, x)
      PROVE  FALSE
  BY <1>4 DEF HandlerStep, Crash, Receive, StepFails, publishJobCreated, csldPrepareOrders,
     csldSendOrders, indexTask, indexDone, csldSwapDatasets, csldDeleteDatasets, nothingToCancel,
     csldCancel, saveCancellation, csldConsolidationRetry, csldConsolidationForceRetry,
     rollbackDone, storage
<1>5. ASSUME \/ csldInit \/ UNCHANGED vars
             \/ \E c \in Commands : Command(c)
             \/ \E e \in JobEvent : duplicateJobEvent(e)
             \/ \E x \in Task, st \in TaskStatus : handleTaskEvt(x, st) \/ duplicateTaskEvent(x, st)
      PROVE  FALSE
  BY <1>5 DEF csldInit, Command, duplicateJobEvent, duplicateTaskEvent, handleTaskEvt, storage, vars
<1>6. QED
  BY <1>1, <1>2, <1>3, <1>4, <1>5 DEF Next

(* A container enters the catalogue in one way, and only when nothing is     *)
(* cancelled (csldIndex).                                                    *)
LEMMA OutputStep ==
    ASSUME CatalogueInv, [Next]_vars, NEW t \in Task, output[t] = Absent, output'[t] # Absent
    PROVE  task[t] = "DONE" /\ job.state \notin Cancelling
<1>1. Effect
  BY Effects DEF CatalogueInv
<1>2. output \in [Task -> {Absent, "INACTIVE", "ACTIVE"}]
  BY DEF CatalogueInv, Typed, TypeOK
<1>3. Indexes
  BY <1>1, <1>2 DEF Effect, Quiet, Starts, Prepares, Updates, Cancels, Swaps, Deletes, RollsBack,
     EndsRollback, Absent
<1>4. QED
  BY <1>2, <1>3 DEF Indexes, Cancelling, Over

(* What is built: an upload, then its report, then the task that is done     *)
(* (Consolidate, handleTaskEvt).                                             *)
LEMMA BuiltStep ==
    ASSUME CatalogueInv, [Next]_vars, NEW t \in Task, Built(t)'
    PROVE  Built(t) \/ t \in file'
<1>0. /\ orders \in [Task \X Progress -> Nat]
      /\ taskEvents \in [Task \X TaskStatus -> Nat]
      /\ task \in [Task -> TaskState \cup {Absent}]
      /\ TypeOK
      /\ \A x \in Task : /\ <<x, "uploaded">> \in Task \X Progress
                         /\ <<x, "TaskSuccessful">> \in Task \X TaskStatus
  BY DEF CatalogueInv, Typed, TypeOK, Progress, TaskStatus
<1>s. \A T, s : SetTasks(T, s) => task' = [x \in Task |-> IF x \in T THEN s ELSE task[x]]
  BY DEF SetTasks
<1>1. ASSUME NEW x \in Task, WorkerStep(x) \/ workerCrashes(x)
      PROVE  Built(t) \/ t \in file'
  <2>1. task' = task
    BY <1>1 DEF WorkerStep, workerCrashes, workerChecks, workerCancelled, workerUploads, workerReports,
       workerFails, database
  <2>2. CASE taskEvents'[<<t, "TaskSuccessful">>] > 0
    <3>1. CASE taskEvents' = taskEvents
      BY <2>2, <3>1 DEF Built
    <3>2. CASE Report(x, "TaskSuccessful") /\ Finish(x, "uploaded")
      BY <1>0, <2>2, <3>2 DEF Built, Report, Finish
    <3>3. CASE Report(x, "TaskFailed")
      BY <1>0, <2>2, <3>3 DEF Built, Report, TaskStatus
    <3>4. QED
      BY <1>1, <3>1, <3>2, <3>3 DEF WorkerStep, workerCrashes, workerChecks, workerCancelled,
         workerUploads, workerReports, workerFails
  <2>3. CASE orders'[<<t, "uploaded">>] > 0
    <3>1. CASE workerUploads(x)
      BY <1>0, <2>3, <3>1, OrdersMove DEF workerUploads, Built, Progress
    <3>2. CASE \E from \in Progress : \/ Finish(x, from)
                                      \/ \E to \in {"queued", "checked"} : Advance(x, from, to)
      BY <1>0, <2>3, <3>2, OrdersMove DEF Built, Progress
    <3>3. QED
      BY <1>1, <3>1, <3>2 DEF WorkerStep, workerCrashes, workerChecks, workerCancelled,
         workerReports, workerFails, Progress
  <2>4. QED
    BY <2>1, <2>2, <2>3 DEF Built
<1>2. ASSUME NEW x \in Task, NEW st \in TaskStatus, handleTaskEvt(x, st)
      PROVE  Built(t)
  <2>1. orders' = orders /\ taskEvents[<<x, st>>] > 0
    BY <1>2 DEF handleTaskEvt
  <2>2. taskEvents'[<<t, "TaskSuccessful">>] > 0 => taskEvents[<<t, "TaskSuccessful">>] > 0
    BY <1>0, <1>2 DEF handleTaskEvt
  <2>3. task' = task \/ SetTasks(IF Ignored(x, st) THEN {} ELSE {x}, StateOf(st))
    BY <1>2 DEF handleTaskEvt
  <2>4. task'[t] = "DONE" /\ task[t] # "DONE" => x = t /\ st = "TaskSuccessful"
    BY <1>s, <2>3 DEF StateOf
  <2>5. QED
    BY <2>1, <2>2, <2>4 DEF Built
<1>3. ASSUME NEW x \in Task, NEW st \in TaskStatus, duplicateTaskEvent(x, st)
      PROVE  Built(t)
  BY <1>0, <1>3 DEF duplicateTaskEvent, Report, Built, database
<1>4. ASSUME NEW h \in Handler, csldSendOrders(h)
      PROVE  Built(t)
  <2>1. taskEvents' = taskEvents /\ SetTasks(Tasks({"NEW"}), "PENDING")
    BY <1>4 DEF csldSendOrders
  <2>2. task'[t] = "DONE" => task[t] = "DONE"
    BY <1>s, <2>1
  <2>3. orders'[<<t, "uploaded">>] = orders[<<t, "uploaded">>]
    <3>1. CASE orders' = orders
      BY <3>1
    <3>2. ASSUME NEW sent, orders' = [m \in Task \X Progress |->
                            IF m[1] \in sent /\ m[2] = "queued" THEN orders[m] + 1 ELSE orders[m]]
          PROVE  orders'[<<t, "uploaded">>] = orders[<<t, "uploaded">>]
      BY <1>0, <3>2
    <3>3. QED
      BY <1>4, <3>1, <3>2 DEF csldSendOrders
  <2>4. QED
    BY <2>1, <2>2, <2>3 DEF Built
<1>5. ASSUME NEW h \in Handler, HandlerStep(h) \/ Crash(h), ~csldSendOrders(h)
      PROVE  Built(t)
  <2>1. UNCHANGED <<taskEvents, orders>>
    BY <1>5 DEF HandlerStep, Crash, Receive, StepFails, publishJobCreated, csldPrepareOrders,
       indexTask, indexDone, csldSwapDatasets, csldDeleteDatasets, nothingToCancel, csldCancel,
       saveCancellation, csldConsolidationRetry, csldConsolidationForceRetry, csldRollback,
       deletePendingContainer, rollbackDone, queues
  <2>2. \/ task' = task
        \/ \E T, s : s \in {"NEW", "CANCELLED", Absent} /\ SetTasks(T, s)
    BY <1>5 DEF HandlerStep, Crash, Receive, StepFails, publishJobCreated, csldPrepareOrders,
       indexTask, indexDone, csldSwapDatasets, csldDeleteDatasets, nothingToCancel, csldCancel,
       saveCancellation, csldConsolidationRetry, csldConsolidationForceRetry, csldRollback,
       deletePendingContainer, rollbackDone, database
  <2>3. task'[t] = "DONE" => task[t] = "DONE"
    BY <1>s, <2>2 DEF Absent
  <2>4. QED
    BY <2>1, <2>3 DEF Built
<1>6. ASSUME \/ csldInit \/ UNCHANGED vars
             \/ \E c \in Commands : Command(c)
             \/ \E e \in JobEvent : duplicateJobEvent(e)
      PROVE  Built(t)
  BY <1>6 DEF csldInit, Command, duplicateJobEvent, vars, database, queues, Built
<1>7. QED
  BY <1>1, <1>2, <1>3, <1>4, <1>5, <1>6 DEF Next

(* The cancellation files are written by csldCancel alone. *)
LEMMA CancelFilesAre ==
    ASSUME [Next]_vars
    PROVE  cancelFile' = cancelFile \/ \E h \in Handler : csldCancel(h)
<1>1. ASSUME NEW h \in Handler, HandlerStep(h) \/ Crash(h), ~csldCancel(h)
      PROVE  cancelFile' = cancelFile
  BY <1>1 DEF HandlerStep, Crash, Receive, StepFails, publishJobCreated, csldPrepareOrders,
     csldSendOrders, indexTask, indexDone, csldSwapDatasets, csldDeleteDatasets, nothingToCancel,
     saveCancellation, csldConsolidationRetry, csldConsolidationForceRetry, csldRollback,
     deletePendingContainer, rollbackDone, storage
<1>2. ASSUME NEW t \in Task, WorkerStep(t) \/ workerCrashes(t)
      PROVE  cancelFile' = cancelFile
  BY <1>2 DEF WorkerStep, workerCrashes, workerChecks, workerCancelled, workerUploads, workerReports,
     workerFails, storage
<1>3. ASSUME \/ csldInit \/ UNCHANGED vars
             \/ \E c \in Commands : Command(c)
             \/ \E e \in JobEvent : duplicateJobEvent(e)
             \/ \E x \in Task, st \in TaskStatus : handleTaskEvt(x, st) \/ duplicateTaskEvent(x, st)
      PROVE  cancelFile' = cancelFile
  BY <1>3 DEF csldInit, Command, duplicateJobEvent, duplicateTaskEvent, handleTaskEvt, storage, vars
<1>4. QED
  BY <1>1, <1>2, <1>3 DEF Next

(* They name tasks that are not indexed, in a job that is cancelled for good. *)
LEMMA CancelFileStep ==
    ASSUME CatalogueInv, FileInv, [Next]_vars
    PROVE  CancelFileInv'
<1>1. job.state \in Cancelling => job'.state \in Cancelling
  BY States DEF CatalogueInv
<1>2. CASE cancelFile' = cancelFile
  BY <1>1, <1>2, OutputStep DEF FileInv, CancelFileInv
<1>3. ASSUME NEW h \in Handler, csldCancel(h)
      PROVE  CancelFileInv'
  <2>1. job.state \in Cancelling /\ output' = output
    BY <1>3 DEF csldCancel, At, FileInv, CancelStepInv, database
  <2>2. \A t \in Task : t \in cancelFile' => t \in cancelFile \/ task[t] = "PENDING"
    BY <1>3 DEF csldCancel, Tasks
  <2>3. QED
    BY <1>1, <2>1, <2>2 DEF FileInv, CancelFileInv, CatalogueInv, IndexedOnce, Absent
<1>4. cancelFile' = cancelFile \/ \E h \in Handler : csldCancel(h)
  BY CancelFilesAre
<1>5. QED
  BY <1>2, <1>3, <1>4

(* The invariant on the storage is inductive, on top of that on the          *)
(* catalogue.                                                                *)
LEMMA FileInvStep ==
    ASSUME CatalogueInv, FileInv, [Next]_vars
    PROVE  FileInv'
<1>1. job.state \in Cancelling => job'.state \in Cancelling
  BY States DEF CatalogueInv
<1>2. BuiltHasFile'
  BY <1>1, FileStep, BuiltStep DEF FileInv, BuiltHasFile
<1>3. IndexedHasFile'
  <2> SUFFICES ASSUME NEW t \in Task, output'[t] # Absent
               PROVE  t \in file'
    BY DEF IndexedHasFile
  <2>1. CASE output[t] # Absent
    BY <2>1, FileStep DEF FileInv, IndexedHasFile
  <2>2. CASE output[t] = Absent
    BY <2>2, OutputStep, FileStep DEF FileInv, BuiltHasFile, Built
  <2>3. QED
    BY <2>1, <2>2
<1>4. QED
  BY <1>2, <1>3, CancelFileStep, CancelStepStep DEF FileInv

(* Nothing is built nor cancelled before the job is submitted. *)
LEMMA FileInvInit ==
    ASSUME Init
    PROVE  FileInv
<1>1. IndexedHasFile /\ CancelFileInv
  BY DEF Init, IndexedHasFile, CancelFileInv
<1>2. \A t \in Task : ~Built(t)
  <2>1. \A t \in Task : /\ <<t, "uploaded">> \in Task \X Progress
                        /\ <<t, "TaskSuccessful">> \in Task \X TaskStatus
    BY DEF Progress, TaskStatus
  <2>2. \A t \in Task : task[t] # "DONE"
    BY DEF Init, Absent
  <2>3. \A t \in Task : taskEvents[<<t, "TaskSuccessful">>] = 0 /\ orders[<<t, "uploaded">>] = 0
    BY <2>1 DEF Init
  <2>4. ~(0 > 0)
    OBVIOUS
  <2>5. QED
    BY <2>2, <2>3, <2>4, Zenon DEF Built
<1>3. CancelStepInv
  BY DEF Init, Idle, CancelStepInv
<1>4. QED
  BY <1>1, <1>2, <1>3 DEF FileInv, BuiltHasFile

(* The containers of the catalogue are in the storage, in spite of cancelled *)
(* workers, rollbacks and handlers that work on a stale job (csldIndex,      *)
(* csldSubFncDeletePendingRemoteContainers, Consolidate).                    *)
THEOREM IndexedContainersExist == Spec => []IndexedHasFile
<1>1. Init => FileInv
  BY FileInvInit
<1>2. CatalogueInv /\ FileInv /\ [Next]_vars => FileInv'
  BY FileInvStep
<1>3. FileInv => IndexedHasFile
  BY DEF FileInv
<1>4. QED
  BY CatalogueCorrect, <1>1, <1>2, <1>3, PTL DEF Spec

-----------------------------------------------------------------------------
(* Without faults nor retries.  A consolidation that failed leaves no file,   *)
(* and its PENDING tasks are in flight: both are false when servers stop     *)
(* between a save and a publication, or when a task is ordered again.        *)

(* Nothing crashes, fails, or is delivered twice, and the user never retries: *)
(* the user may cancel, with force or not, and let a paused job go on.       *)
Calm == MaxFaults = 0 /\ Commands \cap AnyRetry = {}

Queued(e) == jobEvents[e] > 0

(* The messages about a task: its orders, its events, and those of them that *)
(* say that its container is not in the storage.                             *)
OrdersOf(t) == orders[<<t, "queued">>] + orders[<<t, "checked">>] + orders[<<t, "uploaded">>]
EventsOf(t) == taskEvents[<<t, "TaskSuccessful">>] + taskEvents[<<t, "TaskFailed">>]
Unbuilt(t) == orders[<<t, "queued">>] + orders[<<t, "checked">>] + taskEvents[<<t, "TaskFailed">>]
Load(t) == OrdersOf(t) + EventsOf(t)

UnretriedInv ==
    /\ job.state \notin {"CONSOLIDATIONRETRYING", "CONSOLIDATIONFORCERETRYING", "ROLLBACKFAILED"}
    /\ ~Queued("Retried") /\ ~Queued("RetryForced")

(* Before the orders are sent, there is nothing to lose. *)
EarlyInv ==
    job.state \in Early =>
        /\ file = {}
        /\ \A t \in Task : Load(t) = 0 /\ task[t] \in {Absent, "NEW"}
        /\ ~Queued("ConsolidationFailed") /\ ~Queued("SendOrdersFailed")
        /\ \A h \in Handler : ~At(h, "csldSendOrders")

(* A task has one message at most: its order, then its event.                *)
LoadInv ==
    \A t \in Task :
        /\ Load(t) <= 1
        /\ task[t] = "NEW" => Load(t) = 0 /\ t \notin file
        /\ Load(t) > 0 => task[t] = "PENDING" \/ (Aborted /\ task[t] \in {"CANCELLED", Absent})
        /\ job.state = "CONSOLIDATIONINPROGRESS" /\ task[t] = "PENDING" => Load(t) = 1

(* Every file is accounted for: by a dataset, a task or an order.            *)
TrackedInv ==
    \A t \in Task :
        /\ Unbuilt(t) > 0 => t \notin file
        /\ t \in file => \/ output[t] # Absent
                         \/ task[t] \in {"DONE", "PENDING"}
                         \/ orders[<<t, "uploaded">>] > 0

(* Once the job is aborted, or about to be, a worker that is still busy has  *)
(* a cancellation file to find.                                              *)
Covered == \A t \in Task : OrdersOf(t) > 0 => t \in cancelFile

CancelSettled ==
    \/ Aborted
    \/ Queued("CancellationDone")
    \/ \E h \in Handler : handler[h].pc \in {"nothingToCancel", "saveCancellation"}

CoveredInv == CancelSettled => job.state \in Cancelling /\ Covered

(* A consolidation does not fail before all its tasks have ended. *)
FailedInv ==
    /\ job.state = "CONSOLIDATIONFAILED" => Tasks({"PENDING"}) = {}
    /\ job.state = "CONSOLIDATIONINPROGRESS" =>
          ~Queued("SendOrdersFailed") /\ (Queued("ConsolidationFailed") => Tasks(ActiveTask) = {})

(* An idle handler holds no message. *)
IdleInv == \A h \in Handler : handler[h].pc = "idle" => handler[h] = Idle

RollingBack == {"csldRollback", "deletePendingContainers"}

Works(h) ==
    \/ job.state = "CONSOLIDATIONINPROGRESS" /\ At(h, "csldSendOrders")
    \/ job.state # "FAILED" /\ handler[h].pc \in RollingBack

(* The orders are sent, and the rollback is done, by one handler alone that  *)
(* nobody overtakes.                                                         *)
SoloInv ==
    /\ \A h \in Handler : Works(h) =>
         /\ handler[h].fresh /\ ~job.waiting
         /\ \A g \in Handler : Works(g) => g = h
    /\ job.state = "CONSOLIDATIONINPROGRESS" /\ (job.waiting \/ \E h \in Handler : Works(h)) =>
         \A t \in Task : Load(t) = 0

RollbackInv ==
    /\ Queued("RollbackFailed") => job.state = "FAILED"
    /\ \A h \in Handler : handler[h].pc \in RollingBack => job.state \in {"ABORTED", "FAILED"}
    /\ job.state = "FAILED" => RolledBack

CalmInv ==
    /\ UnretriedInv /\ EarlyInv /\ LoadInv /\ TrackedInv /\ CoveredInv /\ FailedInv
    /\ IdleInv /\ SoloInv /\ RollbackInv

-----------------------------------------------------------------------------
(* What a step does, when nothing fails *)

(* Without faults, what is to be published is published (publishEvent).      *)
LEMMA NoFaults ==
    ASSUME TypeOK, Calm
    PROVE  ~Fault /\ \A h, e : Emit(h, e) => Put(e)
  BY DEF TypeOK, Calm, Fault, Emit

(* The counters of messages are natural numbers. *)
LEMMA LoadTypes ==
    ASSUME TypeOK, NEW t \in Task
    PROVE  /\ \A p \in Progress : <<t, p>> \in Task \X Progress /\ orders[<<t, p>>] \in Nat
           /\ \A st \in TaskStatus : <<t, st>> \in Task \X TaskStatus /\ taskEvents[<<t, st>>] \in Nat
           /\ OrdersOf(t) \in Nat /\ EventsOf(t) \in Nat /\ Unbuilt(t) \in Nat /\ Load(t) \in Nat
<1>1. /\ \A p \in Progress : <<t, p>> \in Task \X Progress /\ orders[<<t, p>>] \in Nat
      /\ \A st \in TaskStatus : <<t, st>> \in Task \X TaskStatus /\ taskEvents[<<t, st>>] \in Nat
  BY DEF TypeOK
<1>2. QED
  BY <1>1 DEF OrdersOf, EventsOf, Unbuilt, Load, Progress, TaskStatus

(* An order that moves on, or that is over, and an event that is published.  *)
LEMMA OneMessage ==
    ASSUME TypeOK, NEW t \in Task, NEW x \in Task, NEW p \in Progress, NEW st \in TaskStatus
    PROVE  /\ \A from, to \in Progress : Advance(x, from, to) /\ from # to =>
                 /\ orders[<<x, from>>] > 0
                 /\ orders'[<<t, p>>] = IF t = x /\ p = from THEN orders[<<t, p>>] - 1
                                        ELSE IF t = x /\ p = to THEN orders[<<t, p>>] + 1
                                        ELSE orders[<<t, p>>]
           /\ \A from \in Progress : Finish(x, from) =>
                 /\ orders[<<x, from>>] > 0
                 /\ orders'[<<t, p>>] = IF t = x /\ p = from THEN orders[<<t, p>>] - 1
                                        ELSE orders[<<t, p>>]
           /\ \A s \in TaskStatus : Report(x, s) =>
                 taskEvents'[<<t, st>>] = IF t = x /\ st = s THEN taskEvents[<<t, st>>] + 1
                                          ELSE taskEvents[<<t, st>>]
<1>1. /\ orders \in [Task \X Progress -> Nat] /\ taskEvents \in [Task \X TaskStatus -> Nat]
      /\ <<t, p>> \in Task \X Progress /\ <<t, st>> \in Task \X TaskStatus
      /\ \A q \in Progress : /\ <<x, q>> \in Task \X Progress
                             /\ <<x, q>> = <<t, p>> <=> x = t /\ q = p
      /\ \A s \in TaskStatus : /\ <<x, s>> \in Task \X TaskStatus
                               /\ <<x, s>> = <<t, st>> <=> x = t /\ s = st
  BY DEF TypeOK
<1>2. ASSUME NEW from \in Progress, NEW to \in Progress, Advance(x, from, to), from # to
      PROVE  /\ orders[<<x, from>>] > 0
             /\ orders'[<<t, p>>] = IF t = x /\ p = from THEN orders[<<t, p>>] - 1
                                    ELSE IF t = x /\ p = to THEN orders[<<t, p>>] + 1
                                    ELSE orders[<<t, p>>]
  BY <1>1, <1>2 DEF Advance
<1>3. ASSUME NEW from \in Progress, Finish(x, from)
      PROVE  /\ orders[<<x, from>>] > 0
             /\ orders'[<<t, p>>] = IF t = x /\ p = from THEN orders[<<t, p>>] - 1
                                    ELSE orders[<<t, p>>]
  BY <1>1, <1>3 DEF Finish
<1>4. ASSUME NEW s \in TaskStatus, Report(x, s)
      PROVE  taskEvents'[<<t, st>>] = IF t = x /\ st = s THEN taskEvents[<<t, st>>] + 1
                                      ELSE taskEvents[<<t, st>>]
  BY <1>1, <1>4 DEF Report
<1>5. QED
  BY <1>2, <1>3, <1>4

(* The messages about a task are not touched. *)
Unmoved(t) ==
    /\ \A p \in Progress : orders'[<<t, p>>] = orders[<<t, p>>]
    /\ \A st \in TaskStatus : taskEvents'[<<t, st>>] = taskEvents[<<t, st>>]

(* The messages counted about a task then are the same.                      *)
LEMMA UnmovedLoad ==
    ASSUME NEW t, Unmoved(t)
    PROVE  /\ Load(t)' = Load(t) /\ OrdersOf(t)' = OrdersOf(t) /\ Unbuilt(t)' = Unbuilt(t)
           /\ orders'[<<t, "uploaded">>] = orders[<<t, "uploaded">>]
  BY DEF Unmoved, Load, OrdersOf, EventsOf, Unbuilt, Progress, TaskStatus

(* A worker takes its task, and no other, from its order to its report       *)
(* (cmd/consolidater, Consolidate).                                          *)
Worked(t) ==
    /\ Load(t)' <= Load(t)
    /\ Load(t)' = Load(t) \/ t \in cancelFile
    /\ OrdersOf(t) > 0
    /\ Unbuilt(t)' > 0 /\ t \in file' => t \in file /\ Unbuilt(t) > 0
    /\ t \in file' => \/ t \in file /\ orders[<<t, "uploaded">>] = 0
                      \/ orders'[<<t, "uploaded">>] > 0
                      \/ t \in file /\ t \notin cancelFile
    /\ UNCHANGED <<job, task, output, handler, jobEvents, cancelFile>>

(* The steps of the worker of x (cmd/consolidater, Consolidate).             *)
LEMMA WorkerMoves ==
    ASSUME TypeOK, LoadInv, NEW x \in Task, WorkerStep(x)
    PROVE  /\ Worked(x)
           /\ \A t \in Task \ {x} : Unmoved(t) /\ (t \in file' <=> t \in file)
           /\ UNCHANGED <<job, task, output, handler, jobEvents, cancelFile>>
<1>1. \A p \in Progress : orders[<<x, p>>] \in Nat
  BY LoadTypes
<1>2. \A st \in TaskStatus : taskEvents[<<x, st>>] \in Nat
  BY LoadTypes
<1>3. Load(x) <= 1
  BY DEF LoadInv
<1>4. UNCHANGED <<job, task, output, handler, jobEvents, cancelFile>>
  BY DEF WorkerStep, workerChecks, workerCancelled, workerUploads, workerReports, workerFails,
     database, storage
<1>n. {"queued", "checked", "uploaded"} = Progress /\ {"TaskSuccessful", "TaskFailed"} = TaskStatus
  BY DEF Progress, TaskStatus
<1>d. \A t \in Task, p \in Progress, st \in TaskStatus :
         /\ \A from, to \in Progress : Advance(x, from, to) /\ from # to =>
                 /\ orders[<<x, from>>] > 0
                 /\ orders'[<<t, p>>] = IF t = x /\ p = from THEN orders[<<t, p>>] - 1
                                        ELSE IF t = x /\ p = to THEN orders[<<t, p>>] + 1
                                        ELSE orders[<<t, p>>]
         /\ \A from \in Progress : Finish(x, from) =>
                 /\ orders[<<x, from>>] > 0
                 /\ orders'[<<t, p>>] = IF t = x /\ p = from THEN orders[<<t, p>>] - 1
                                        ELSE orders[<<t, p>>]
         /\ \A s \in TaskStatus : Report(x, s) =>
                 taskEvents'[<<t, st>>] = IF t = x /\ st = s THEN taskEvents[<<t, st>>] + 1
                                          ELSE taskEvents[<<t, st>>]
  BY OneMessage
<1> USE DEF Load, OrdersOf, EventsOf, Unbuilt
<1>5. CASE workerChecks(x)
  <2>1. Advance(x, "queued", "checked") /\ taskEvents' = taskEvents /\ file' = file
    BY <1>5 DEF workerChecks, storage
  <2>2. \A t \in Task \ {x} : Unmoved(t) /\ (t \in file' <=> t \in file)
    BY <1>d, <1>n, <2>1 DEF Unmoved
  <2>3. Worked(x)
    BY <1>1, <1>2, <1>3, <1>4, <1>d, <1>n, <2>1 DEF Worked
  <2>4. QED
    BY <1>4, <2>2, <2>3
<1>6. CASE workerCancelled(x)
  <2>1. /\ Finish(x, "queued") /\ taskEvents' = taskEvents /\ file' \in {file, file \ {x}}
        /\ x \in cancelFile
    BY <1>6 DEF workerCancelled
  <2>2. \A t \in Task \ {x} : Unmoved(t) /\ (t \in file' <=> t \in file)
    BY <1>d, <1>n, <2>1 DEF Unmoved
  <2>3. Worked(x)
    BY <1>1, <1>2, <1>3, <1>4, <1>d, <1>n, <2>1 DEF Worked
  <2>4. QED
    BY <1>4, <2>2, <2>3
<1>7. CASE workerUploads(x)
  <2>1. Advance(x, "checked", "uploaded") /\ taskEvents' = taskEvents /\ file' = file \cup {x}
    BY <1>7 DEF workerUploads
  <2>2. \A t \in Task \ {x} : Unmoved(t) /\ (t \in file' <=> t \in file)
    BY <1>d, <1>n, <2>1 DEF Unmoved
  <2>3. Worked(x)
    BY <1>1, <1>2, <1>3, <1>4, <1>d, <1>n, <2>1 DEF Worked
  <2>4. QED
    BY <1>4, <2>2, <2>3
<1>8. CASE workerReports(x)
  <2>1. /\ Finish(x, "uploaded")
        /\ \/ x \in cancelFile /\ file' = file \ {x}
           \/ x \notin cancelFile /\ file' = file /\ Report(x, "TaskSuccessful")
        /\ Report(x, "TaskSuccessful") \/ taskEvents' = taskEvents
    BY <1>8 DEF workerReports
  <2>2. \A t \in Task \ {x} : Unmoved(t) /\ (t \in file' <=> t \in file)
    <3>1. CASE Report(x, "TaskSuccessful")
      BY <1>d, <1>n, <2>1, <3>1 DEF Unmoved
    <3>2. CASE taskEvents' = taskEvents
      BY <1>d, <1>n, <2>1, <3>2 DEF Unmoved
    <3>3. QED
      BY <2>1, <3>1, <3>2
  <2>3. Worked(x)
    <3>1. CASE Report(x, "TaskSuccessful")
      BY <1>1, <1>2, <1>3, <1>4, <1>d, <1>n, <2>1, <3>1 DEF Worked
    <3>2. CASE taskEvents' = taskEvents
      BY <1>1, <1>2, <1>3, <1>4, <1>d, <1>n, <2>1, <3>2 DEF Worked
    <3>3. QED
      BY <2>1, <3>1, <3>2
  <2>4. QED
    BY <1>4, <2>2, <2>3
<1>9. CASE workerFails(x)
  <2>1. /\ Finish(x, "queued") \/ Finish(x, "checked")
        /\ Report(x, "TaskFailed")
        /\ file' \in {file, file \ {x}}
    BY <1>9 DEF workerFails
  <2>2. \A t \in Task \ {x} : Unmoved(t) /\ (t \in file' <=> t \in file)
    BY <1>d, <1>n, <2>1 DEF Unmoved
  <2>3. Worked(x)
    BY <1>1, <1>2, <1>3, <1>4, <1>d, <1>n, <2>1 DEF Worked
  <2>4. QED
    BY <1>4, <2>2, <2>3
<1>10. QED
  BY <1>5, <1>6, <1>7, <1>8, <1>9 DEF WorkerStep

(* The orders of the NEW tasks are sent (csldSendOrders).                    *)
LEMMA SendsOrders ==
    ASSUME TypeOK, Calm, NEW h \in Handler, csldSendOrders(h), NEW t \in Task
    PROVE  IF task[t] = "NEW"
           THEN /\ Load(t)' = Load(t) + 1 /\ Unbuilt(t)' = Unbuilt(t) + 1
                /\ orders'[<<t, "uploaded">>] = orders[<<t, "uploaded">>]
           ELSE Unmoved(t)
<1>1. /\ orders \in [Task \X Progress -> Nat] /\ taskEvents' = taskEvents
      /\ \A p \in Progress : <<t, p>> \in Task \X Progress
  BY DEF TypeOK, csldSendOrders
<1>2. CASE AllTasksDone
  <2>1. orders' = orders
    BY <1>2 DEF csldSendOrders
  <2>2. task[t] # "NEW"
    BY <1>2 DEF AllTasksDone, Tasks, TaskState
  <2>3. QED
    BY <1>1, <2>1, <2>2 DEF Unmoved
<1>3. CASE ~AllTasksDone
  <2>1. orders' = [m \in Task \X Progress |->
                      IF m[1] \in OrdersToSend /\ m[2] = "queued" THEN orders[m] + 1 ELSE orders[m]]
    BY <1>3, NoFaults DEF csldSendOrders
  <2>2. \A p \in Progress :
            orders'[<<t, p>>] = IF task[t] = "NEW" /\ p = "queued" THEN orders[<<t, p>>] + 1
                                ELSE orders[<<t, p>>]
    BY <1>1, <2>1 DEF OrdersToSend, Tasks
  <2>3. CASE task[t] # "NEW"
    BY <1>1, <2>2, <2>3 DEF Unmoved
  <2>4. CASE task[t] = "NEW"
    <3>1. /\ orders'[<<t, "queued">>] = orders[<<t, "queued">>] + 1
          /\ orders'[<<t, "checked">>] = orders[<<t, "checked">>]
          /\ orders'[<<t, "uploaded">>] = orders[<<t, "uploaded">>]
      BY <2>2, <2>4 DEF Progress
    <3>2. QED
      BY <1>1, <2>4, <3>1, LoadTypes DEF Load, OrdersOf, EventsOf, Unbuilt, Progress, TaskStatus
  <2>5. QED
    BY <2>3, <2>4
<1>4. QED
  BY <1>2, <1>3

(* An event is consumed (handleTaskEvt). *)
Consumed(t) ==
    /\ Load(t) > 0 /\ Load(t)' = Load(t) - 1
    /\ OrdersOf(t)' = OrdersOf(t) /\ Unbuilt(t)' \in {Unbuilt(t), Unbuilt(t) - 1}
    /\ orders'[<<t, "uploaded">>] = orders[<<t, "uploaded">>]

(* The event of a task is taken from the queue once (handleTaskEvt).         *)
LEMMA ConsumesEvent ==
    ASSUME TypeOK, Calm, NEW x \in Task, NEW st \in TaskStatus, handleTaskEvt(x, st), NEW t \in Task
    PROVE  /\ t = x => Consumed(t) /\ (st = "TaskFailed" => Unbuilt(t) > 0)
           /\ t # x => Unmoved(t)
<1>1. /\ taskEvents \in [Task \X TaskStatus -> Nat] /\ orders' = orders
      /\ taskEvents[<<x, st>>] > 0
      /\ \A s \in TaskStatus : <<t, s>> \in Task \X TaskStatus /\ (<<x, st>> = <<t, s>> <=> x = t /\ st = s)
      /\ <<x, st>> \in Task \X TaskStatus
  BY DEF TypeOK, handleTaskEvt
<1>2. taskEvents' = [taskEvents EXCEPT ![<<x, st>>] = @ - 1]
  BY NoFaults DEF handleTaskEvt
<1>3. \A s \in TaskStatus :
          taskEvents'[<<t, s>>] = IF t = x /\ st = s THEN taskEvents[<<t, s>>] - 1
                                  ELSE taskEvents[<<t, s>>]
  BY <1>1, <1>2
<1>4. CASE t # x
  BY <1>1, <1>3, <1>4 DEF Unmoved
<1>5. CASE t = x
  <2>1. /\ taskEvents[<<t, "TaskSuccessful">>] \in Nat /\ taskEvents[<<t, "TaskFailed">>] \in Nat
        /\ orders[<<t, "queued">>] \in Nat /\ orders[<<t, "checked">>] \in Nat
        /\ orders[<<t, "uploaded">>] \in Nat
    BY LoadTypes DEF Progress, TaskStatus
  <2>2. CASE st = "TaskSuccessful"
    BY <1>1, <1>3, <1>5, <2>1, <2>2
       DEF Consumed, Load, OrdersOf, EventsOf, Unbuilt, TaskStatus
  <2>3. CASE st = "TaskFailed"
    BY <1>1, <1>3, <1>5, <2>1, <2>3
       DEF Consumed, Load, OrdersOf, EventsOf, Unbuilt, TaskStatus
  <2>4. QED
    BY <1>5, <2>2, <2>3 DEF TaskStatus
<1>6. QED
  BY <1>4, <1>5

(* Whatever the step, the messages and the file of a task do not change, or  *)
(* its order is sent, or its event is consumed, or its worker goes on.       *)
LEMMA LoadStep ==
    ASSUME TypeOK, Calm, LoadInv, [Next]_vars, NEW t \in Task
    PROVE  \/ Unmoved(t) /\ (t \in file' => t \in file)
           \/ /\ \E h \in Handler : csldSendOrders(h)
              /\ task[t] = "NEW" /\ file' = file
              /\ Load(t)' = Load(t) + 1 /\ Unbuilt(t)' = Unbuilt(t) + 1
              /\ orders'[<<t, "uploaded">>] = orders[<<t, "uploaded">>]
           \/ (\E st \in TaskStatus : handleTaskEvt(t, st)) /\ Consumed(t) /\ file' = file
           \/ WorkerStep(t) /\ Worked(t)
<1>1. ASSUME UNCHANGED <<orders, taskEvents>>
      PROVE  Unmoved(t)
  BY <1>1 DEF Unmoved
<1>2. ASSUME NEW x \in Task, WorkerStep(x)
      PROVE  (WorkerStep(t) /\ Worked(t)) \/ (Unmoved(t) /\ (t \in file' => t \in file))
  BY <1>2, WorkerMoves
<1>3. ASSUME NEW x \in Task, NEW st \in TaskStatus, handleTaskEvt(x, st)
      PROVE  /\ \/ handleTaskEvt(t, st) /\ Consumed(t)
                \/ Unmoved(t)
             /\ file' = file
  BY <1>3, ConsumesEvent DEF handleTaskEvt, storage
<1>4. ASSUME NEW h \in Handler, csldSendOrders(h)
      PROVE  /\ \/ /\ task[t] = "NEW"
                   /\ Load(t)' = Load(t) + 1 /\ Unbuilt(t)' = Unbuilt(t) + 1
                   /\ orders'[<<t, "uploaded">>] = orders[<<t, "uploaded">>]
                \/ Unmoved(t)
             /\ file' = file
  BY <1>4, SendsOrders DEF csldSendOrders, storage
<1>5. ASSUME NEW h \in Handler, HandlerStep(h), ~csldSendOrders(h)
      PROVE  UNCHANGED <<orders, taskEvents>> /\ (t \in file' => t \in file)
  BY <1>5 DEF HandlerStep, Receive, StepFails, publishJobCreated, csldPrepareOrders,
     indexTask, indexDone, csldSwapDatasets, csldDeleteDatasets, nothingToCancel, csldCancel,
     saveCancellation, csldConsolidationRetry, csldConsolidationForceRetry, csldRollback,
     deletePendingContainer, rollbackDone, queues, storage
<1>6. ASSUME \/ csldInit \/ UNCHANGED vars
             \/ \E c \in Commands : Command(c)
      PROVE  UNCHANGED <<orders, taskEvents, file>>
  BY <1>6 DEF csldInit, Command, vars, queues, storage
<1>7. /\ \A h \in Handler : ~Crash(h)
      /\ \A x \in Task : ~workerCrashes(x)
      /\ \A e \in JobEvent : ~duplicateJobEvent(e)
      /\ \A x \in Task, st \in TaskStatus : ~duplicateTaskEvent(x, st)
  BY NoFaults DEF Crash, Stop, workerCrashes, duplicateJobEvent, duplicateTaskEvent
<1>8. QED
  BY <1>1, <1>2, <1>3, <1>4, <1>5, <1>6, <1>7 DEF Next

(* How the row of a task changes.                                            *)
LEMMA TaskStep ==
    ASSUME CatalogueInv, Calm, UnretriedInv, [Next]_vars, NEW t \in Task, task'[t] # task[t]
    PROVE  \/ /\ task'[t] = "NEW" /\ job.state = "CREATED" /\ job'.state = "CREATED"
              /\ UNCHANGED <<orders, taskEvents, file>>
           \/ /\ task[t] = "NEW" /\ task'[t] = "PENDING" /\ job.state = "CONSOLIDATIONINPROGRESS"
              /\ \E h \in Handler : csldSendOrders(h)
           \/ \E st \in TaskStatus : handleTaskEvt(t, st) /\ task'[t] = StateOf(st)
           \/ /\ job.state = "CONSOLIDATIONDONE" /\ task[t] = "DONE"
              /\ task'[t] = Absent /\ output'[t] # Absent
           \/ Aborted /\ task[t] # "NEW" /\ task'[t] = "CANCELLED" /\ t \notin file'
           \/ Aborted /\ task'[t] = Absent /\ t \notin Unindexed /\ output' = output
<1>1. /\ FreshInv /\ task \in [Task -> TaskState \cup {Absent}]
      /\ output \in [Task -> {Absent, "INACTIVE", "ACTIVE"}]
      /\ \A T, s : SetTasks(T, s) => task' = [x \in Task |-> IF x \in T THEN s ELSE task[x]]
      /\ job \in [state : ConsolidationState \cup {Absent}, waiting : BOOLEAN,
                  active : Nat, failed : Nat]
  BY DEF CatalogueInv, Typed, TypeOK, SetTasks
<1>2. ASSUME NEW h \in Handler, csldPrepareOrders(h)
      PROVE  /\ task'[t] = "NEW" /\ job.state = "CREATED" /\ job'.state = "CREATED"
             /\ UNCHANGED <<orders, taskEvents, file>>
  <2>1. job.state = "CREATED" /\ SetTasks(plan, "NEW") /\ UNCHANGED <<orders, taskEvents, file>>
    BY <1>1, <1>2, FreshStates DEF csldPrepareOrders, FreshAt, storage
  <2>2. job'.state = job.state
    BY <1>1, <2>1 DEF SetTasks, Recount
  <2>3. QED
    BY <1>1, <2>1, <2>2
<1>3. ASSUME NEW h \in Handler, csldSendOrders(h)
      PROVE  task[t] = "NEW" /\ task'[t] = "PENDING" /\ job.state = "CONSOLIDATIONINPROGRESS"
  <2>1. job.state = "CONSOLIDATIONINPROGRESS" /\ SetTasks(Tasks({"NEW"}), "PENDING")
    BY <1>1, <1>3, FreshStates DEF csldSendOrders, FreshAt
  <2>2. QED
    BY <1>1, <2>1 DEF Tasks
<1>4. ASSUME NEW x \in Task, NEW st \in TaskStatus, handleTaskEvt(x, st)
      PROVE  handleTaskEvt(t, st) /\ task'[t] = StateOf(st)
  <2>1. SetTasks(IF Ignored(x, st) THEN {} ELSE {x}, StateOf(st))
    BY <1>4 DEF handleTaskEvt
  <2>2. t = x /\ task'[t] = StateOf(st)
    BY <1>1, <2>1
  <2>3. QED
    BY <1>4, <2>2
<1>5. ASSUME NEW h \in Handler, NEW x \in Task, indexTask(h, x)
      PROVE  /\ job.state = "CONSOLIDATIONDONE" /\ task[t] = "DONE"
             /\ task'[t] = Absent /\ output'[t] # Absent
  <2>1. /\ job.state = "CONSOLIDATIONDONE" /\ task[x] = "DONE"
        /\ SetTasks({x}, Absent) /\ output' = [output EXCEPT ![x] = "INACTIVE"]
    BY <1>1, <1>5, FreshStates DEF indexTask, FreshAt
  <2>2. t = x /\ task'[t] = Absent
    BY <1>1, <2>1
  <2>3. QED
    BY <1>1, <2>1, <2>2 DEF Absent
<1>6. ASSUME NEW h \in Handler, NEW x \in Task, deletePendingContainer(h, x)
      PROVE  Aborted /\ task[t] # "NEW" /\ task'[t] = "CANCELLED" /\ t \notin file'
  <2>1. /\ SetTasks({x}, "CANCELLED") /\ handler[h].fresh /\ At(h, "deletePendingContainers")
        /\ x \in Unindexed /\ file' = file \ {x}
    BY <1>6 DEF deletePendingContainer
  <2>2. job.state = "ABORTED"
    BY <1>1, <2>1, FreshStates
  <2>3. t = x /\ task'[t] = "CANCELLED"
    BY <1>1, <2>1
  <2>4. QED
    BY <2>1, <2>2, <2>3 DEF Aborted, Over, Unindexed, Tasks
<1>7. ASSUME NEW h \in Handler, rollbackDone(h)
      PROVE  Aborted /\ task'[t] = Absent /\ t \notin Unindexed /\ output' = output
  <2>1. SetTasks(Task, Absent) /\ Unindexed = {} /\ output' = output /\ job.state = "ABORTED"
    BY <1>1, <1>7, FreshStates DEF rollbackDone, FreshAt
  <2>2. QED
    BY <1>1, <2>1 DEF Aborted, Over
<1>8. ASSUME NEW h \in Handler, csldConsolidationRetry(h) \/ csldConsolidationForceRetry(h)
      PROVE  FALSE
  BY <1>1, <1>8, FreshStates DEF csldConsolidationRetry, csldConsolidationForceRetry, FreshAt,
     UnretriedInv
<1>9. ASSUME NEW h \in Handler,
             \/ \E e \in JobEvent : Receive(h, e)
             \/ StepFails(h) \/ publishJobCreated(h) \/ indexDone(h) \/ csldSwapDatasets(h)
             \/ csldDeleteDatasets(h) \/ nothingToCancel(h) \/ csldCancel(h) \/ saveCancellation(h)
             \/ csldRollback(h) \/ Crash(h)
      PROVE  FALSE
  BY <1>9 DEF Receive, StepFails, publishJobCreated, indexDone, csldSwapDatasets,
     csldDeleteDatasets, nothingToCancel, csldCancel, saveCancellation, csldRollback, Crash, database
<1>10. ASSUME \/ csldInit \/ UNCHANGED vars
              \/ \E c \in Commands : Command(c)
              \/ \E e \in JobEvent : duplicateJobEvent(e)
              \/ \E x \in Task : WorkerStep(x) \/ workerCrashes(x)
              \/ \E x \in Task, st \in TaskStatus : duplicateTaskEvent(x, st)
       PROVE  FALSE
  BY <1>10 DEF csldInit, Command, duplicateJobEvent, duplicateTaskEvent, WorkerStep, workerCrashes,
     workerChecks, workerCancelled, workerUploads, workerReports, workerFails, database, vars
<1>11. QED
  BY <1>2, <1>3, <1>4, <1>5, <1>6, <1>7, <1>8, <1>9, <1>10 DEF Next, HandlerStep

(* What the transitions require, as long as nobody retries (job.go,          *)
(* triggerConsolidation).                                                    *)
LEMMA CalmEdges ==
    ASSUME NEW from, NEW e, NEW to, <<from, e, to>> \in ConsolidationEdges,
           e \notin AnyRetry,
           from \notin {"CONSOLIDATIONRETRYING", "CONSOLIDATIONFORCERETRYING", "ROLLBACKFAILED"}
    PROVE  /\ from # to
           /\ to \in Early => from \in Early
           /\ to = "CONSOLIDATIONINPROGRESS" => from = "CREATED"
           /\ to \notin {"CONSOLIDATIONRETRYING", "CONSOLIDATIONFORCERETRYING"}
           /\ to = "ROLLBACKFAILED" => from = "ABORTED" /\ e = "RollbackFailed"
           /\ to = "FAILED" => from = "ABORTED" /\ e = "RollbackDone"
           /\ from = "ABORTED" => to \in {"ROLLBACKFAILED", "FAILED"}
           /\ to = "CONSOLIDATIONFAILED" =>
                 \/ from \in {"CONSOLIDATIONDONE", "CONSOLIDATIONINDEXED"}
                 \/ /\ from = "CONSOLIDATIONINPROGRESS"
                    /\ e \in {"ConsolidationFailed", "SendOrdersFailed"}
           /\ to = "ABORTED" =>
                 \/ from \in Early \cup {"CONSOLIDATIONDONE", "CONSOLIDATIONINDEXED",
                                         "CONSOLIDATIONFAILED"}
                 \/ from = "CONSOLIDATIONCANCELLING" /\ e = "CancellationDone"
  BY DEF ConsolidationEdges, SharedEdges, Edges, AnyRetry, AnyCancel, Early, Absent

(* The steps, by the state they are entered in. *)
LEMMA EntrySteps ==
    ASSUME NEW s
    PROVE  /\ StepOf(s) = "csldSendOrders" => s = "CONSOLIDATIONINPROGRESS"
           /\ StepOf(s) = "csldRollback" => s = "ABORTED"
           /\ StepOf(s) \notin {"nothingToCancel", "saveCancellation", "deletePendingContainers"}
           /\ StepOf("CONSOLIDATIONINPROGRESS") = "csldSendOrders"
           /\ StepOf("ABORTED") = "csldRollback"
  BY DEF StepOf

(* An event is received: the job goes on after a pause, or changes state; it *)
(* is the handler that received it, if any, that runs the step.              *)
Enters(h, e) ==
    /\ handler[h].pc = "idle"
    /\ job'.active = job.active
    /\ \A g \in Handler \ {h} : handler'[g] = Stale[g]
    /\ \/ handler'[h] = Idle
       \/ /\ handler'[h].pc = Entered(job'.state) /\ handler'[h].pc # "idle"
          /\ handler'[h].fresh /\ ~job'.waiting
    /\ \/ job'.state = job.state /\ job.waiting
       \/ job'.state # job.state /\ <<job.state, e, job'.state>> \in ConsolidationEdges
       \/ job.state \in ConsolidationPause /\ job'.state = "ABORTED"

(* A handler receives an event it can handle, or acknowledges it             *)
(* (handleJobEvt).                                                           *)
LEMMA Receives ==
    ASSUME Typed, UnretriedInv, NEW h \in Handler, NEW e \in JobEvent, Receive(h, e)
    PROVE  /\ Queued(e) /\ e \notin AnyRetry
           /\ \A x \in JobEvent : Queued(x)' => Queued(x)
           /\ UNCHANGED <<plan, task, output, storage, taskEvents, orders>>
           /\ UNCHANGED <<job, handler>> \/ Enters(h, e)
<1>1. /\ handler \in HandlerType /\ jobEvents \in [JobEvent -> Nat]
      /\ job \in [state : ConsolidationState \cup {Absent}, waiting : BOOLEAN,
                  active : Nat, failed : Nat]
      /\ Stale \in HandlerType /\ \A g \in Handler : Stale[g].pc = handler[g].pc
      /\ Idle.pc = "idle"
  BY StaleTypes DEF Typed, TypeOK, HandlerType, Idle, Stale
<1>2. /\ handler[h] = Idle /\ jobEvents[e] > 0 /\ jobEvents' = [jobEvents EXCEPT ![e] = @ - 1]
      /\ UNCHANGED <<plan, task, output, storage, taskEvents, orders>>
  BY DEF Receive, Handle
<1>3. Queued(e) /\ e \notin AnyRetry
  BY <1>2 DEF Queued, UnretriedInv, AnyRetry
<1>4. \A x \in JobEvent : Queued(x)' => Queued(x)
  BY <1>1, <1>2 DEF Queued
<1> DEFINE entry(n) == IF n.waiting \/ n.step = "idle" THEN Idle
                       ELSE [pc |-> n.step, fresh |-> TRUE, msg |-> e]
<1>5. ASSUME NEW n \in Reached(e),
             job' = [job EXCEPT !.state = n.state, !.waiting = n.waiting],
             handler' = [Stale EXCEPT ![h] = entry(n)]
      PROVE  Enters(h, e)
  <2>1. PICK j \in Triggered(e) :
             n = [state |-> j.state, waiting |-> j.waiting, step |-> Entered(j.state)]
    BY DEF Reached
  <2>2. n.state = j.state /\ n.waiting = j.waiting /\ n.step = Entered(j.state)
    BY <2>1
  <2>3. job'.state = j.state /\ job'.waiting = j.waiting /\ job'.active = job.active
    BY <1>1, <1>5, <2>2
  <2>4. handler'[h] = entry(n) /\ \A g \in Handler \ {h} : handler'[g] = Stale[g]
    BY <1>1, <1>5 DEF HandlerType
  <2>5. \/ entry(n) = Idle
        \/ entry(n).pc = n.step /\ entry(n).fresh /\ ~n.waiting /\ n.step # "idle"
    OBVIOUS
  <2>6. Entered(job'.state) = Entered(j.state)
    BY <2>3
  <2>7. \/ job'.state = job.state /\ job.waiting
        \/ <<job.state, e, job'.state>> \in ConsolidationEdges
        \/ job.state \in ConsolidationPause /\ job'.state = "ABORTED"
    <3>1. CASE e = "Continue"
      <4>1. job.waiting /\ j = [state |-> job.state, waiting |-> FALSE]
        BY <3>1 DEF Triggered, Trigger
      <4>2. QED
        BY <2>3, <4>1
    <3>2. CASE e # "Continue"
      <4>1. e # "RetryForced"
        BY <1>3 DEF AnyRetry
      <4>2. PICK s \in JobState : /\ j = Entering(Level, s)
                                  /\ \/ <<job.state, e, s>> \in ConsolidationEdges
                                     \/ s = "ABORTED" /\ job.state \in ConsolidationPause
        BY <3>2, <4>1, Zenon DEF Triggered, Trigger
      <4>3. j.state = s
        BY <4>2 DEF Entering
      <4>4. QED
        BY <2>3, <4>2, <4>3
    <3>3. QED
      BY <3>1, <3>2
  <2>8. <<job.state, e, job'.state>> \in ConsolidationEdges => job'.state # job.state
    BY <1>3, CalmEdges DEF UnretriedInv
  <2> HIDE DEF entry
  <2>9. QED
    BY <1>1, <1>2, <2>2, <2>3, <2>4, <2>5, <2>6, <2>7, <2>8 DEF Enters
<1>6. \/ UNCHANGED <<job, handler>>
      \/ \E n \in Reached(e) : /\ job' = [job EXCEPT !.state = n.state, !.waiting = n.waiting]
                               /\ handler' = [Stale EXCEPT ![h] = entry(n)]
  BY DEF Receive, Handle
<1> HIDE DEF entry
<1>7. QED
  BY <1>2, <1>3, <1>4, <1>5, <1>6

(* The copies of a job that another handler saved. *)
LEMMA StaleCopies ==
    ASSUME TypeOK, NEW h \in Handler
    PROVE  /\ Stale[h].pc = handler[h].pc /\ ~Stale[h].fresh
           /\ handler[h] = Idle => Stale[h] = Idle
<1>1. handler \in HandlerType /\ Stale[h] = [handler[h] EXCEPT !.fresh = FALSE]
  BY DEF TypeOK, HandlerType, Stale
<1>2. Stale[h].pc = handler[h].pc /\ ~Stale[h].fresh
  BY <1>1 DEF HandlerType
<1>3. ASSUME handler[h] = Idle PROVE Stale[h] = Idle
  <2>1. Stale[h].pc = "idle" /\ Stale[h].fresh = FALSE /\ Stale[h].msg = Absent
    BY <1>1, <1>3 DEF Idle, HandlerType
  <2>2. Stale[h] \in [pc : Step \cup {"idle"}, fresh : BOOLEAN, msg : JobEvent \cup {Absent}]
    BY StaleTypes DEF HandlerType
  <2>3. Stale[h] = [pc |-> Stale[h].pc, fresh |-> Stale[h].fresh, msg |-> Stale[h].msg]
    BY <2>2
  <2>4. QED
    BY <2>1, <2>3, Zenon DEF Idle
<1>4. QED
  BY <1>2, <1>3

(* A step that saves the job, or that stops without saving it.               *)
Saves(h) ==
    /\ handler[h].fresh
    /\ \A g \in Handler \ {h} : handler'[g] = Stale[g]
    /\ \/ handler'[h] = Idle
       \/ handler'[h].fresh /\ handler'[h].pc = handler[h].pc
       \/ handler'[h].fresh /\ At(h, "csldRollback") /\ handler'[h].pc = "deletePendingContainers"

Leaves(h) ==
    /\ \A g \in Handler \ {h} : handler'[g] = handler[g]
    /\ \/ handler'[h] = Idle
       \/ csldCancel(h) /\ handler'[h].pc = "saveCancellation"

(* Every step of a handler but the first saves the job or leaves it as it is, *)
(* and never changes its state (csldOnEnterNewState and the steps it runs).  *)
LEMMA HandlerWays ==
    ASSUME Typed, Calm, NEW h \in Handler, HandlerStep(h), \A e \in JobEvent : ~Receive(h, e)
    PROVE  /\ job'.state = job.state /\ job'.waiting = job.waiting
           /\ Saves(h) \/ Leaves(h)
<1>1. /\ handler \in HandlerType
      /\ job \in [state : ConsolidationState \cup {Absent}, waiting : BOOLEAN,
                  active : Nat, failed : Nat]
      /\ Stale \in HandlerType /\ \A g \in Handler : Stale[g].pc = handler[g].pc
      /\ Idle.pc = "idle"
  BY StaleTypes DEF Typed, TypeOK, HandlerType, Idle, Stale
<1>2. handler' = [Stale EXCEPT ![h] = Idle] /\ handler[h].fresh => Saves(h)
  BY <1>1 DEF HandlerType, Saves
<1>3. handler' = [handler EXCEPT ![h] = Idle] => Leaves(h)
  BY <1>1 DEF HandlerType, Leaves
<1>4. ASSUME NEW pc, Goto(h, pc), handler[h].fresh,
             At(h, pc) \/ (At(h, "csldRollback") /\ pc = "deletePendingContainers")
      PROVE  Saves(h)
  <2>1. [handler[h] EXCEPT !.pc = pc].pc = pc
        /\ [handler[h] EXCEPT !.pc = pc].fresh = handler[h].fresh
    BY <1>1 DEF HandlerType
  <2>2. QED
    BY <1>1, <1>4, <2>1 DEF HandlerType, Goto, Saves, At
<1>5. \A T, s : SetTasks(T, s) => job'.state = job.state /\ job'.waiting = job.waiting
  BY <1>1 DEF SetTasks, Recount
<1>6. CASE \/ StepFails(h) \/ publishJobCreated(h) \/ indexDone(h) \/ nothingToCancel(h)
  BY <1>3, <1>6 DEF StepFails, Fails, publishJobCreated, indexDone, nothingToCancel, JustEmit, database
<1>7. CASE \/ csldPrepareOrders(h) \/ csldSendOrders(h) \/ csldSwapDatasets(h) \/ saveCancellation(h)
           \/ csldConsolidationRetry(h) \/ csldConsolidationForceRetry(h) \/ rollbackDone(h)
  BY <1>2, <1>5, <1>7 DEF csldPrepareOrders, csldSendOrders, csldSwapDatasets, saveCancellation,
     csldConsolidationRetry, csldConsolidationForceRetry, rollbackDone, FreshAt, SaveAndEmit, database
<1>8. CASE csldDeleteDatasets(h)
  BY <1>2, <1>3, <1>8 DEF csldDeleteDatasets, FreshAt, JustEmit
<1>9. CASE \E t \in Task : indexTask(h, t)
  BY <1>4, <1>5, <1>9 DEF indexTask, FreshAt
<1>10. CASE csldRollback(h)
  BY <1>4, <1>10 DEF csldRollback, FreshAt
<1>11. CASE csldCancel(h)
  <2>1. handler'[h].pc = "saveCancellation" /\ \A g \in Handler \ {h} : handler'[g] = handler[g]
    BY <1>1, <1>11 DEF csldCancel, HandlerType
  <2>2. QED
    BY <1>11, <2>1 DEF csldCancel, database, Leaves
<1>12. ASSUME NEW t \in Task, deletePendingContainer(h, t)
       PROVE  /\ job'.state = job.state /\ job'.waiting = job.waiting
              /\ Saves(h) \/ Leaves(h)
  BY <1>3, <1>4, <1>5, <1>12 DEF deletePendingContainer, JustEmit
<1>13. QED
  BY <1>6, <1>7, <1>8, <1>9, <1>10, <1>11, <1>12 DEF HandlerStep

(* The steps of the others touch neither the job nor its handlers, but for   *)
(* those of the task events (handleTaskEvt).                                 *)
LEMMA OtherWays ==
    ASSUME Calm, Typed, [Next]_vars, \A h \in Handler : ~HandlerStep(h),
           \A t \in Task, st \in TaskStatus : ~handleTaskEvt(t, st)
    PROVE  /\ handler' = handler
           /\ job' = job \/ (csldInit /\ job.state = Absent /\ job'.state = "NEW")
<1>1. \A h \in Handler : ~Crash(h)
  BY NoFaults DEF Crash, Stop, Typed
<1>2. CASE csldInit
  BY <1>2 DEF csldInit, Typed, TypeOK
<1>3. CASE ~csldInit
  BY <1>1, <1>3 DEF Next, Command, duplicateJobEvent, duplicateTaskEvent, WorkerStep, workerCrashes,
     workerChecks, workerCancelled, workerUploads, workerReports, workerFails, database, vars
<1>4. QED
  BY <1>2, <1>3

(* A task that no message is about, in a job that runs.                      *)
LEMMA Unloaded ==
    ASSUME TypeOK, LoadInv, ~Aborted, NEW t \in Task, task[t] # "PENDING"
    PROVE  Load(t) = 0 /\ OrdersOf(t) = 0
<1>1. Load(t) = 0
  BY LoadTypes DEF LoadInv
<1>2. QED
  BY <1>1, LoadTypes DEF Load

(* The event of a task is of no use, or it ends the task and perhaps the     *)
(* consolidation (handleTaskEvt).                                            *)
Ends(t, st) ==
    /\ job.state \in {"CONSOLIDATIONINPROGRESS", "CONSOLIDATIONCANCELLING"}
    /\ task[t] = "PENDING" /\ task'[t] = StateOf(st)
    /\ \A x \in Task \ {t} : task'[x] = task[x]
    /\ job'.state = job.state /\ job'.waiting = job.waiting
    /\ job'.active \in Nat /\ CountersMatch'
    /\ handler' = Stale
    /\ \/ Put(Conclusion(job')) /\ Conclusion(job') # Absent
       \/ UNCHANGED jobEvents

(* No event comes twice, and an event that comes late changes nothing.       *)
LEMMA TakesEvent ==
    ASSUME Typed, LoadInv, Calm, NEW t \in Task, NEW st \in TaskStatus, handleTaskEvt(t, st)
    PROVE  \/ Ends(t, st)
           \/ /\ UNCHANGED <<job, task, handler, jobEvents>>
              /\ ~(job.state = "CONSOLIDATIONINPROGRESS" /\ task[t] = "PENDING")
<1>1. task[t] = "PENDING" \/ (Aborted /\ task[t] \in {"CANCELLED", Absent})
  BY ConsumesEvent DEF LoadInv, Consumed, Typed
<1>2. CASE task[t] = Absent \/ job.state = "FAILED" \/ ~Accepted(t, st)
  BY <1>2 DEF handleTaskEvt, Accepted, Absent
<1>3. CASE ~(task[t] = Absent \/ job.state = "FAILED" \/ ~Accepted(t, st))
  <2>1. task[t] # StateOf(st)
    BY <1>1, <1>3 DEF StateOf, Absent
  <2>2. job.state \in {"CONSOLIDATIONINPROGRESS", "CONSOLIDATIONCANCELLING"}
    BY <1>3, <2>1 DEF Accepted
  <2>3. task[t] = "PENDING"
    BY <1>1, <2>2 DEF Aborted, Over
  <2>4. SetTasks({t}, StateOf(st)) /\ handler' = Stale
    BY <1>3, <2>3 DEF handleTaskEvt, Ignored
  <2>5. \/ Put(Conclusion(job')) /\ Conclusion(job') # Absent
        \/ UNCHANGED jobEvents
    BY <1>3 DEF handleTaskEvt
  <2>6. {t} \subseteq Task /\ StateOf(st) \in TaskState \cup {Absent}
    BY DEF StateOf, TaskState
  <2>7. /\ job'.state = job.state /\ job'.waiting = job.waiting /\ CountersMatch'
        /\ job'.active \in Nat
    BY <2>4, <2>6, SetTasksCounts
  <2>8. task'[t] = StateOf(st) /\ \A x \in Task \ {t} : task'[x] = task[x]
    BY <2>4 DEF SetTasks
  <2>9. QED
    BY <2>2, <2>3, <2>4, <2>5, <2>7, <2>8 DEF Ends
<1>4. QED
  BY <1>2, <1>3

(* What the counter of active tasks says. *)
LEMMA NoneActive ==
    ASSUME NEW A, A \subseteq Task, Cardinality(A) = 0
    PROVE  A = {}
  BY TasksFinite, FS_EmptySet

(* The events that could orphan a file, and where they come from.            *)
Watched == {"Retried", "RetryForced", "SendOrdersFailed", "ConsolidationFailed",
            "CancellationDone", "RollbackFailed"}

(* They are published by a handler that was overtaken, by the end of a        *)
(* cancellation, or by the task that ends last (StepFails, saveCancellation, *)
(* nothingToCancel, handleTaskEvt).                                          *)
LEMMA Posted ==
    ASSUME Typed, LoadInv, UnretriedInv, IdleInv, Calm, [Next]_vars,
           NEW e \in Watched, Queued(e)', ~Queued(e)
    PROVE  /\ job'.state = job.state
           /\ \/ /\ \/ /\ e = "SendOrdersFailed"
                       /\ \E h \in Handler : ~handler[h].fresh /\ At(h, "csldSendOrders")
                    \/ /\ e = "RollbackFailed"
                       /\ \E h \in Handler : ~handler[h].fresh /\ handler[h].pc \in RollingBack
                    \/ /\ e = "CancellationDone"
                       /\ \E h \in Handler : handler[h].pc \in {"nothingToCancel", "saveCancellation"}
              \/ /\ \E t \in Task, st \in TaskStatus : handleTaskEvt(t, st) /\ Ends(t, st)
                 /\ Tasks(ActiveTask)' = {}
                 /\ \/ e = "CancellationDone" /\ job.state = "CONSOLIDATIONCANCELLING"
                    \/ e = "ConsolidationFailed" /\ job.state = "CONSOLIDATIONINPROGRESS"
<1>1. /\ jobEvents \in [JobEvent -> Nat] /\ e \in JobEvent /\ e # Absent
      /\ handler \in HandlerType /\ TypeOK
  BY DEF Typed, TypeOK, HandlerType, Watched, JobEvent, UserEvent, ConsolidationEvent, Absent
<1>2. \A x : Put(x) => x = e
  BY <1>1, PutHeard DEF Queued
<1>3. ~UNCHANGED jobEvents
  BY DEF Queued
<1>4. \A h, x : Emit(h, x) => x = e
  BY <1>1, <1>2, NoFaults
<1>5. ASSUME NEW h \in Handler, HandlerStep(h)
      PROVE  /\ job'.state = job.state
             /\ \/ /\ e = "SendOrdersFailed"
                   /\ ~handler[h].fresh /\ At(h, "csldSendOrders")
                \/ /\ e = "RollbackFailed"
                   /\ ~handler[h].fresh /\ handler[h].pc \in RollingBack
                \/ /\ e = "CancellationDone"
                   /\ handler[h].pc \in {"nothingToCancel", "saveCancellation"}
  <2>1. \A x \in JobEvent : ~Receive(h, x)
    BY <1>1, Receives
  <2>2. job'.state = job.state
    BY <1>5, <2>1, HandlerWays
  <2>3. CASE StepFails(h)
    <3>1. /\ handler[h] # Idle /\ Doomed(h) /\ Emit(h, FailureOf(handler[h].pc))
          /\ handler[h].pc \notin {"publishJobCreated", "nothingToCancel"}
      BY <1>1, <2>3, NoFaults DEF StepFails, Fails, JustEmit
    <3>2. FailureOf(handler[h].pc) = e
      BY <1>4, <3>1
    <3>3. handler[h].pc # "idle" /\ handler[h].pc \in Step
      BY <1>1, <3>1 DEF IdleInv, HandlerType
    <3>4. CASE At(h, "csldSendOrders")
      BY <2>2, <3>1, <3>2, <3>4 DEF Doomed, FailureOf, At
    <3>5. CASE handler[h].pc \in RollingBack
      BY <2>2, <3>1, <3>2, <3>5 DEF Doomed, FailureOf, At, RollingBack
    <3>6. CASE ~At(h, "csldSendOrders") /\ handler[h].pc \notin RollingBack
      BY <3>1, <3>2, <3>3, <3>6 DEF FailureOf, At, RollingBack, Watched, Step, StepOf
    <3>7. QED
      BY <3>4, <3>5, <3>6
  <2>4. CASE nothingToCancel(h) \/ saveCancellation(h)
    BY <1>4, <2>2, <2>4 DEF nothingToCancel, saveCancellation, JustEmit, SaveAndEmit, At, FreshAt
  <2>5. ASSUME NEW t \in Task, deletePendingContainer(h, t)
        PROVE  e = "RollbackFailed" /\ ~handler[h].fresh /\ handler[h].pc \in RollingBack
    BY <1>3, <1>4, <2>5 DEF deletePendingContainer, JustEmit, At, RollingBack
  <2>6. CASE csldSendOrders(h)
    BY <1>1, <1>2, <1>3, <2>6, NoFaults DEF csldSendOrders, Watched
  <2>7. CASE \/ publishJobCreated(h) \/ csldPrepareOrders(h) \/ indexDone(h) \/ csldSwapDatasets(h)
             \/ csldConsolidationRetry(h) \/ csldConsolidationForceRetry(h) \/ rollbackDone(h)
    BY <1>4, <2>7 DEF publishJobCreated, csldPrepareOrders, indexDone, csldSwapDatasets,
       csldConsolidationRetry, csldConsolidationForceRetry, rollbackDone, JustEmit, SaveAndEmit, Watched
  <2>8. CASE csldDeleteDatasets(h)
    BY <1>1, <1>4, <2>8, NoFaults DEF csldDeleteDatasets, JustEmit, Watched
  <2>9. ASSUME \/ csldCancel(h) \/ csldRollback(h)
               \/ \E t \in Task : indexTask(h, t)
        PROVE  FALSE
    BY <1>3, <2>9 DEF csldCancel, csldRollback, indexTask, queues
  <2>10. QED
    BY <1>5, <2>1, <2>2, <2>3, <2>4, <2>5, <2>6, <2>7, <2>8, <2>9 DEF HandlerStep
<1>6. ASSUME NEW t \in Task, NEW st \in TaskStatus, handleTaskEvt(t, st)
      PROVE  /\ Ends(t, st) /\ job'.state = job.state
             /\ Tasks(ActiveTask)' = {}
             /\ \/ e = "CancellationDone" /\ job.state = "CONSOLIDATIONCANCELLING"
                \/ e = "ConsolidationFailed" /\ job.state = "CONSOLIDATIONINPROGRESS"
  <2>1. Ends(t, st)
    BY <1>3, <1>6, TakesEvent
  <2>2. job'.state = job.state /\ e = Conclusion(job') /\ e # Absent
    BY <1>1, <1>2, <1>3, <2>1 DEF Ends
  <2>3. job'.active = 0
    BY <2>2 DEF Conclusion
  <2>4. Tasks(ActiveTask)' = {}
    <3>1. Cardinality(Tasks(ActiveTask)') = 0 /\ Tasks(ActiveTask)' \subseteq Task
      BY <2>1, <2>3 DEF Ends, CountersMatch, Tasks
    <3>2. QED
      BY <3>1, NoneActive
  <2>5. QED
    BY <2>1, <2>2, <2>4 DEF Conclusion, Ends, Watched
<1>7. ASSUME NEW c \in Commands, Command(c) PROVE FALSE
  BY <1>2, <1>7, CommandsAssumption DEF Command, Send, Calm, AnyRetry, UserEvent, Watched
<1>8. CASE csldInit
  BY <1>1, <1>2, <1>8, NoFaults DEF csldInit, Watched
<1>9. ASSUME \/ UNCHANGED vars
             \/ \E h \in Handler : Crash(h)
             \/ \E x \in JobEvent : duplicateJobEvent(x)
             \/ \E t \in Task : WorkerStep(t) \/ workerCrashes(t)
             \/ \E t \in Task, st \in TaskStatus : duplicateTaskEvent(t, st)
      PROVE  FALSE
  BY <1>1, <1>3, <1>9, NoFaults DEF Crash, Stop, duplicateJobEvent, duplicateTaskEvent, WorkerStep,
     workerCrashes, workerChecks, workerCancelled, workerUploads, workerReports, workerFails, vars, queues
<1>10. QED
  BY <1>5, <1>6, <1>7, <1>8, <1>9 DEF Next

(* The state of the job changes with its submission or with an event.        *)
LEMMA StateMoves ==
    ASSUME Typed, UnretriedInv, LoadInv, Calm, [Next]_vars, job'.state # job.state
    PROVE  \/ csldInit /\ job.state = Absent /\ job'.state = "NEW"
           \/ /\ UNCHANGED <<plan, task, output, storage, taskEvents, orders>>
              /\ \A x \in JobEvent : Queued(x)' => Queued(x)
              /\ \E h \in Handler, e \in JobEvent :
                    /\ Enters(h, e) /\ Queued(e) /\ e \notin AnyRetry
                    /\ \/ <<job.state, e, job'.state>> \in ConsolidationEdges
                       \/ job.state \in ConsolidationPause /\ job'.state = "ABORTED"
<1>1. ASSUME NEW h \in Handler, HandlerStep(h)
      PROVE  \E e \in JobEvent : Receive(h, e)
  BY <1>1, HandlerWays
<1>2. ASSUME NEW h \in Handler, NEW e \in JobEvent, Receive(h, e)
      PROVE  /\ UNCHANGED <<plan, task, output, storage, taskEvents, orders>>
             /\ \A x \in JobEvent : Queued(x)' => Queued(x)
             /\ Enters(h, e) /\ Queued(e) /\ e \notin AnyRetry
             /\ \/ <<job.state, e, job'.state>> \in ConsolidationEdges
                \/ job.state \in ConsolidationPause /\ job'.state = "ABORTED"
  BY <1>2, Receives DEF Enters
<1>3. ASSUME NEW t \in Task, NEW st \in TaskStatus, handleTaskEvt(t, st)
      PROVE  FALSE
  BY <1>3, TakesEvent DEF Ends
<1>4. QED
  BY <1>1, <1>2, <1>3, OtherWays

(* The job never retries anything (triggerConsolidation).                     *)
LEMMA UnretriedStep ==
    ASSUME Typed, LoadInv, UnretriedInv, IdleInv, RollbackInv, Calm, [Next]_vars
    PROVE  UnretriedInv'
<1>1. {"Retried", "RetryForced"} \subseteq Watched
  BY DEF Watched
<1>2. ~Queued("Retried")' /\ ~Queued("RetryForced")'
  BY <1>1, Posted DEF UnretriedInv
<1>3. job'.state \notin {"CONSOLIDATIONRETRYING", "CONSOLIDATIONFORCERETRYING", "ROLLBACKFAILED"}
  <2>1. CASE job'.state = job.state
    BY <2>1 DEF UnretriedInv
  <2>2. CASE job'.state # job.state
    BY <2>2, StateMoves, CalmEdges DEF UnretriedInv, RollbackInv
  <2>3. QED
    BY <2>1, <2>2
<1>4. QED
  BY <1>2, <1>3 DEF UnretriedInv

(* A handler that stops drops its message (handleJobEvt).                    *)
LEMMA IdleStep ==
    ASSUME Typed, UnretriedInv, LoadInv, FreshInv, IdleInv, Calm, [Next]_vars
    PROVE  IdleInv'
<1> SUFFICES ASSUME NEW g \in Handler, handler'[g].pc = "idle"
             PROVE  handler'[g] = Idle
  BY DEF IdleInv
<1>1. \/ handler'[g] = handler[g] \/ handler'[g] = Stale[g] => handler'[g] = Idle
  BY StaleCopies DEF IdleInv, Typed
<1>2. ASSUME NEW h \in Handler, HandlerStep(h)
      PROVE  handler'[g] = Idle
  <2>1. ASSUME NEW e \in JobEvent, Receive(h, e)
        PROVE  handler'[g] = Idle
    BY <1>1, <2>1, Receives DEF Enters
  <2>2. CASE \A e \in JobEvent : ~Receive(h, e)
    <3>1. Saves(h) \/ Leaves(h)
      BY <1>2, <2>2, HandlerWays
    <3>2. QED
      BY <1>1, <3>1 DEF Saves, Leaves, FreshInv
  <2>3. QED
    BY <2>1, <2>2
<1>3. ASSUME NEW t \in Task, NEW st \in TaskStatus, handleTaskEvt(t, st)
      PROVE  handler'[g] = Idle
  BY <1>1, <1>3, TakesEvent DEF Ends
<1>4. QED
  BY <1>1, <1>2, <1>3, OtherWays

(* Nothing is ordered nor built before the orders are prepared               *)
(* (csldPrepareOrders, csldSendOrders).                                      *)
LEMMA EarlyStep ==
    ASSUME CatalogueInv, CalmInv, Calm, [Next]_vars
    PROVE  EarlyInv'
<1>0. Typed /\ TypeOK /\ UnretriedInv /\ LoadInv /\ IdleInv
  BY DEF CatalogueInv, CalmInv, Typed
<1> SUFFICES ASSUME job'.state \in Early PROVE EarlyInv'
  BY DEF EarlyInv
<1>1. job.state \in Early
  <2>1. CASE job'.state = job.state
    BY <2>1
  <2>2. CASE job'.state # job.state
    <3>1. "ABORTED" \notin Early /\ Absent \in Early
      BY DEF Early, Absent
    <3>2. QED
      BY <1>0, <2>2, <3>1, StateMoves, CalmEdges DEF UnretriedInv
  <2>3. QED
    BY <2>1, <2>2
<1>2. /\ file = {}
      /\ \A t \in Task : Load(t) = 0 /\ task[t] \in {Absent, "NEW"}
      /\ ~Queued("ConsolidationFailed") /\ ~Queued("SendOrdersFailed")
      /\ \A h \in Handler : ~At(h, "csldSendOrders")
  BY <1>1 DEF CalmInv, EarlyInv
<1>3. ~Aborted /\ job.state \notin {"CONSOLIDATIONINPROGRESS", "CONSOLIDATIONCANCELLING",
                                    "CONSOLIDATIONDONE"}
  BY <1>1 DEF Early, Aborted, Over, Absent
<1>4. ASSUME NEW t \in Task
      PROVE  Load(t)' = 0 /\ t \notin file' /\ task'[t] \in {Absent, "NEW"}
  <2>1. Load(t)' = 0 /\ t \notin file'
    <3>1. ~\E h \in Handler : csldSendOrders(h)
      BY <1>2 DEF csldSendOrders, FreshAt
    <3>2. ~Consumed(t) /\ ~Worked(t)
      BY <1>2, <1>0, LoadTypes DEF Consumed, Worked, Load
    <3>3. Unmoved(t) /\ (t \in file' => t \in file)
      BY <1>0, <3>1, <3>2, LoadStep
    <3>4. QED
      BY <1>2, <3>3, UnmovedLoad
  <2>2. task'[t] \in {Absent, "NEW"}
    <3>1. CASE task'[t] = task[t]
      BY <1>2, <3>1
    <3>2. CASE task'[t] # task[t]
      <4>1. ASSUME NEW st \in TaskStatus, handleTaskEvt(t, st) PROVE FALSE
        <5>1. Consumed(t)
          BY <1>0, <4>1, ConsumesEvent
        <5>2. QED
          BY <1>2, <5>1 DEF Consumed
      <4>2. QED
        BY <1>0, <1>3, <3>2, <4>1, TaskStep
    <3>3. QED
      BY <3>1, <3>2
  <2>3. QED
    BY <2>1, <2>2
<1>5. ~Queued("ConsolidationFailed")' /\ ~Queued("SendOrdersFailed")'
  <2>1. {"ConsolidationFailed", "SendOrdersFailed"} \subseteq Watched
    BY DEF Watched
  <2>2. QED
    BY <1>0, <1>2, <1>3, <2>1, Posted
<1>6. ASSUME NEW g \in Handler PROVE ~At(g, "csldSendOrders")'
  <2>1. handler'[g].pc = handler[g].pc => ~At(g, "csldSendOrders")'
    BY <1>2 DEF At
  <2>2. Stale[g].pc = handler[g].pc
    BY <1>0, StaleCopies
  <2>3. ASSUME NEW h \in Handler, HandlerStep(h)
        PROVE  ~At(g, "csldSendOrders")'
    <3>1. ASSUME NEW e \in JobEvent, Receive(h, e)
          PROVE  ~At(g, "csldSendOrders")'
      <4>1. UNCHANGED <<job, handler>> \/ Enters(h, e)
        BY <1>0, <3>1, Receives
      <4>2. Entered(job'.state) # "csldSendOrders"
        BY EntrySteps DEF Entered, Early, Absent
      <4>3. QED
        BY <2>1, <2>2, <4>1, <4>2 DEF Enters, Idle, At
    <3>2. CASE \A e \in JobEvent : ~Receive(h, e)
      <4>1. Saves(h) \/ Leaves(h)
        BY <1>0, <2>3, <3>2, HandlerWays
      <4>2. QED
        BY <2>1, <2>2, <4>1 DEF Saves, Leaves, Idle, At
    <3>3. QED
      BY <3>1, <3>2
  <2>4. ASSUME NEW t \in Task, NEW st \in TaskStatus, handleTaskEvt(t, st)
        PROVE  ~At(g, "csldSendOrders")'
    BY <1>0, <2>1, <2>2, <2>4, TakesEvent DEF Ends
  <2>5. QED
    BY <1>0, <2>1, <2>3, <2>4, OtherWays
<1>7. file' = {}
  <2>1. file' \subseteq Task
    BY <1>0, TypedStep DEF Typed, TypeOK
  <2>2. QED
    BY <1>4, <2>1
<1>8. QED
  BY <1>4, <1>5, <1>6, <1>7 DEF EarlyInv

(* The parts of the invariant, for the steps that need them all.             *)
LEMMA CalmParts ==
    ASSUME CatalogueInv, FileInv, CalmInv
    PROVE  /\ Typed /\ TypeOK /\ FreshInv /\ IndexedOnce /\ CountersMatch /\ PlanInv
           /\ IndexedHasFile /\ BuiltHasFile /\ CancelFileInv /\ CancelStepInv
           /\ UnretriedInv /\ EarlyInv /\ LoadInv /\ TrackedInv /\ CoveredInv /\ FailedInv
           /\ IdleInv /\ SoloInv /\ RollbackInv
           /\ task \in [Task -> TaskState \cup {Absent}]
           /\ handler \in HandlerType
  BY DEF CatalogueInv, FileInv, CalmInv, Typed, TypeOK, HandlerType

(* A job in progress was created before, and nothing was lost then.          *)
LEMMA WasInProgress ==
    ASSUME CatalogueInv, FileInv, CalmInv, Calm, [Next]_vars,
           job'.state = "CONSOLIDATIONINPROGRESS", job.state # "CONSOLIDATIONINPROGRESS"
    PROVE  /\ job.state = "CREATED"
           /\ UNCHANGED <<plan, task, output, storage, taskEvents, orders>>
           /\ \A x \in JobEvent : Queued(x)' => Queued(x)
           /\ \E h \in Handler, e \in JobEvent : Enters(h, e)
           /\ \A t \in Task : Load(t) = 0 /\ task[t] \in {Absent, "NEW"} /\ Unmoved(t)
           /\ \A h \in Handler : ~At(h, "csldSendOrders")
<1>1. Typed /\ UnretriedInv /\ LoadInv /\ EarlyInv
  BY CalmParts
<1>2. /\ UNCHANGED <<plan, task, output, storage, taskEvents, orders>>
      /\ \A x \in JobEvent : Queued(x)' => Queued(x)
      /\ \E h \in Handler, e \in JobEvent :
            /\ Enters(h, e) /\ e \notin AnyRetry
            /\ <<job.state, e, job'.state>> \in ConsolidationEdges
  BY <1>1, StateMoves
<1>3. job.state = "CREATED"
  BY <1>1, <1>2, CalmEdges DEF UnretriedInv
<1>4. QED
  BY <1>1, <1>2, <1>3 DEF EarlyInv, Early, Unmoved

(* A task has one message at most (csldSendOrders, handleTaskEvt, Consolidate). *)
LEMMA LoadInvStep ==
    ASSUME CatalogueInv, FileInv, CalmInv, Calm, [Next]_vars
    PROVE  LoadInv'
<1> SUFFICES ASSUME NEW t \in Task
             PROVE  /\ Load(t)' <= 1
                    /\ task'[t] = "NEW" => Load(t)' = 0 /\ t \notin file'
                    /\ Load(t)' > 0 => \/ task'[t] = "PENDING"
                                       \/ Aborted' /\ task'[t] \in {"CANCELLED", Absent}
                    /\ job'.state = "CONSOLIDATIONINPROGRESS" /\ task'[t] = "PENDING" => Load(t)' = 1
  BY DEF LoadInv
<1>1. Typed /\ TypeOK /\ UnretriedInv /\ LoadInv /\ EarlyInv /\ CancelFileInv /\ (Aborted => Aborted')
  BY CalmParts, States
<1>2. /\ Load(t) <= 1
      /\ task[t] = "NEW" => Load(t) = 0 /\ t \notin file
      /\ Load(t) > 0 => task[t] = "PENDING" \/ (Aborted /\ task[t] \in {"CANCELLED", Absent})
      /\ job.state = "CONSOLIDATIONINPROGRESS" /\ task[t] = "PENDING" => Load(t) = 1
      /\ Load(t) \in Nat /\ OrdersOf(t) \in Nat
      /\ OrdersOf(t) > 0 => Load(t) > 0
  BY <1>1, LoadTypes DEF LoadInv, Load
<1>3. \/ Unmoved(t) /\ Load(t)' = Load(t) /\ (t \in file' => t \in file)
      \/ /\ task[t] = "NEW" /\ task'[t] = "PENDING" /\ Load(t)' = Load(t) + 1
      \/ (\E st \in TaskStatus : handleTaskEvt(t, st)) /\ Consumed(t)
      \/ Worked(t) /\ task' = task
  <2>1. ASSUME NEW h \in Handler, csldSendOrders(h), task[t] = "NEW"
        PROVE  task'[t] = "PENDING"
    BY <2>1 DEF csldSendOrders, SetTasks, Tasks
  <2>2. QED
    BY <1>1, <2>1, LoadStep, UnmovedLoad DEF Worked
<1>4. ASSUME task'[t] # task[t]
      PROVE  \/ /\ task'[t] = "NEW" /\ job.state = "CREATED" /\ Load(t)' = 0 /\ t \notin file'
             \/ /\ task[t] = "NEW" /\ task'[t] = "PENDING" /\ Load(t)' = 1
                /\ job.state = "CONSOLIDATIONINPROGRESS"
             \/ task'[t] \in {"DONE", "FAILED"} /\ Load(t)' = 0
             \/ task'[t] = Absent /\ Load(t)' = 0
             \/ Aborted /\ task'[t] \in {"CANCELLED", Absent} /\ task[t] # "NEW"
  <2>1. ASSUME job.state = "CREATED", UNCHANGED <<orders, taskEvents, file>>
        PROVE  Load(t)' = 0 /\ t \notin file'
    BY <1>1, <2>1, UnmovedLoad DEF EarlyInv, Early, Unmoved
  <2>2. ASSUME NEW h \in Handler, csldSendOrders(h), task[t] = "NEW"
        PROVE  Load(t)' = 1
    <3>1. Load(t)' = Load(t) + 1
      BY <1>1, <2>2, SendsOrders
    <3>2. QED
      BY <1>2, <2>2, <3>1
  <2>3. ASSUME NEW st \in TaskStatus, handleTaskEvt(t, st)
        PROVE  Load(t)' = 0 /\ StateOf(st) \in {"DONE", "FAILED"}
    <3>1. Consumed(t)
      BY <1>1, <2>3, ConsumesEvent
    <3>2. QED
      BY <1>2, <3>1 DEF Consumed, StateOf
  <2>4. ASSUME job.state = "CONSOLIDATIONDONE", task[t] = "DONE", task'[t] = Absent
        PROVE  Load(t)' = 0
    <3>1. Load(t) = 0
      BY <1>2, <2>4 DEF Aborted, Over
    <3>2. QED
      BY <1>2, <1>3, <2>4, <3>1 DEF Consumed, Worked
  <2>5. ASSUME Aborted, task'[t] = Absent, task[t] = "NEW"
        PROVE  Load(t)' = 0
    BY <1>2, <1>3, <2>5 DEF Consumed, Worked, Absent
  <2>6. QED
    BY <1>1, <1>4, <2>1, <2>2, <2>3, <2>4, <2>5, TaskStep
<1>5. Load(t)' <= 1
  BY <1>2, <1>3 DEF Consumed, Worked
<1>6. ASSUME task'[t] = "NEW"
      PROVE  Load(t)' = 0 /\ t \notin file'
  BY <1>2, <1>3, <1>4, <1>6 DEF Consumed, Worked, Absent
<1>7. ASSUME Load(t)' > 0
      PROVE  task'[t] = "PENDING" \/ (Aborted' /\ task'[t] \in {"CANCELLED", Absent})
  <2>1. CASE task'[t] = task[t]
    BY <1>1, <1>2, <1>3, <1>7, <2>1 DEF Consumed, Worked
  <2>2. CASE task'[t] # task[t]
    BY <1>1, <1>4, <1>7, <2>2
  <2>3. QED
    BY <2>1, <2>2
<1>8. ASSUME job'.state = "CONSOLIDATIONINPROGRESS", task'[t] = "PENDING"
      PROVE  Load(t)' = 1
  <2>1. job.state = "CONSOLIDATIONINPROGRESS"
    BY <1>8, WasInProgress DEF Absent
  <2>2. CASE task[t] # "PENDING"
    BY <1>4, <1>8, <2>2 DEF Absent
  <2>3. CASE task[t] = "PENDING"
    <3>1. t \notin cancelFile
      BY <1>1, <2>1 DEF CancelFileInv, Cancelling, Over
    <3>2. ASSUME NEW st \in TaskStatus, handleTaskEvt(t, st) PROVE FALSE
      BY <1>1, <1>8, <2>1, <2>3, <3>2, TakesEvent DEF Ends, StateOf
    <3>3. QED
      BY <1>2, <1>3, <2>1, <2>3, <3>1, <3>2 DEF Worked
  <2>4. QED
    BY <2>2, <2>3
<1>9. QED
  BY <1>5, <1>6, <1>7, <1>8

(* The container of a dataset that is removed is deleted (csldRollback).     *)
LEMMA RemovedWithFile ==
    ASSUME TypeOK, Calm, [Next]_vars, NEW t \in Task, output[t] # Absent, output'[t] = Absent
    PROVE  t \notin file'
<1>1. output \in [Task -> {Absent, "INACTIVE", "ACTIVE"}] /\ ~Fault
  BY NoFaults DEF TypeOK
<1>2. ASSUME NEW h \in Handler, csldRollback(h)
      PROVE  t \notin file'
  BY <1>1, <1>2 DEF csldRollback, Absent
<1>3. ASSUME NEW h \in Handler, NEW x \in Task, indexTask(h, x)
      PROVE  FALSE
  BY <1>1, <1>3 DEF indexTask, Absent
<1>4. ASSUME NEW h \in Handler, csldSwapDatasets(h)
      PROVE  FALSE
  BY <1>1, <1>4 DEF csldSwapDatasets, Absent
<1>5. ASSUME NEW h \in Handler, HandlerStep(h) \/ Crash(h), ~csldRollback(h), ~csldSwapDatasets(h),
             \A x \in Task : ~indexTask(h, x)
      PROVE  output' = output
  BY <1>5 DEF HandlerStep, Crash, Receive, StepFails, publishJobCreated, csldPrepareOrders,
     csldSendOrders, indexDone, csldDeleteDatasets, nothingToCancel, csldCancel, saveCancellation,
     csldConsolidationRetry, csldConsolidationForceRetry, deletePendingContainer, rollbackDone, database
<1>6. ASSUME \/ csldInit \/ UNCHANGED vars
             \/ \E c \in Commands : Command(c)
             \/ \E e \in JobEvent : duplicateJobEvent(e)
             \/ \E x \in Task : WorkerStep(x) \/ workerCrashes(x)
             \/ \E x \in Task, st \in TaskStatus : handleTaskEvt(x, st) \/ duplicateTaskEvent(x, st)
      PROVE  output' = output
  BY <1>6 DEF csldInit, Command, duplicateJobEvent, duplicateTaskEvent, handleTaskEvt, WorkerStep,
     workerCrashes, workerChecks, workerCancelled, workerUploads, workerReports, workerFails, database, vars
<1>7. QED
  BY <1>2, <1>3, <1>4, <1>5, <1>6 DEF Next

(* Every file stays accounted for: a task that fails has none, the one that  *)
(* is cancelled loses its own, and the worker of an aborted job finds its    *)
(* cancellation file (handleTaskEvt, csldIndex,                              *)
(* csldSubFncDeletePendingRemoteContainers, Consolidate).                    *)
LEMMA TrackedStep ==
    ASSUME CatalogueInv, FileInv, CalmInv, Calm, [Next]_vars
    PROVE  TrackedInv'
<1> SUFFICES ASSUME NEW t \in Task
             PROVE  /\ Unbuilt(t)' > 0 => t \notin file'
                    /\ t \in file' => \/ output'[t] # Absent
                                      \/ task'[t] \in {"DONE", "PENDING"}
                                      \/ orders'[<<t, "uploaded">>] > 0
  BY DEF TrackedInv
<1>1. Typed /\ TypeOK /\ UnretriedInv /\ LoadInv /\ EarlyInv /\ TrackedInv /\ CoveredInv
      /\ IndexedOnce
  BY CalmParts
<1>2. /\ Unbuilt(t) > 0 => t \notin file
      /\ t \in file => \/ output[t] # Absent
                       \/ task[t] \in {"DONE", "PENDING"}
                       \/ orders[<<t, "uploaded">>] > 0
      /\ task[t] = "NEW" => t \notin file
      /\ OrdersOf(t) > 0 => \/ task[t] = "PENDING"
                            \/ t \in cancelFile
      /\ Unbuilt(t) \in Nat
  <2>1. OrdersOf(t) > 0 => Load(t) > 0
    BY <1>1, LoadTypes DEF Load
  <2>2. OrdersOf(t) > 0 /\ Aborted => t \in cancelFile
    BY <1>1 DEF CoveredInv, CancelSettled, Covered
  <2>3. QED
    BY <1>1, <2>1, <2>2, LoadTypes DEF TrackedInv, LoadInv
<1>3. \/ /\ Unmoved(t) /\ Unbuilt(t)' = Unbuilt(t) /\ (t \in file' => t \in file)
         /\ orders'[<<t, "uploaded">>] = orders[<<t, "uploaded">>]
      \/ /\ task[t] = "NEW" /\ file' = file
      \/ Consumed(t) /\ file' = file
      \/ Worked(t)
  BY <1>1, LoadStep, UnmovedLoad
<1>4. Unbuilt(t)' > 0 => t \notin file'
  BY <1>2, <1>3 DEF Worked, Consumed
<1>5. ASSUME t \in file'
      PROVE  \/ output'[t] # Absent
             \/ task'[t] \in {"DONE", "PENDING"}
             \/ orders'[<<t, "uploaded">>] > 0
  <2>1. CASE output[t] # Absent
    BY <1>1, <1>5, <2>1, RemovedWithFile
  <2>2. CASE task[t] \in {"DONE", "PENDING"} /\ task'[t] \notin {"DONE", "PENDING"}
    <3>1. task'[t] # task[t] /\ task[t] # "NEW" /\ task[t] # Absent
      BY <2>2 DEF Absent
    <3>2. ASSUME job.state = "CREATED", file' = file PROVE FALSE
      BY <1>1, <1>5, <3>2 DEF EarlyInv, Early
    <3>3. ASSUME NEW st \in TaskStatus, handleTaskEvt(t, st), task'[t] = StateOf(st)
          PROVE  FALSE
      <4>1. st = "TaskFailed"
        BY <2>2, <3>3 DEF StateOf, TaskStatus
      <4>2. Unbuilt(t) > 0
        BY <1>1, <3>3, <4>1, ConsumesEvent
      <4>3. file' = file
        BY <3>3 DEF handleTaskEvt, storage
      <4>4. QED
        BY <1>2, <1>5, <4>2, <4>3
    <3>4. ASSUME t \notin Unindexed, output' = output
          PROVE  output'[t] # Absent
      BY <2>2, <3>4 DEF Unindexed, Tasks
    <3>5. QED
      BY <1>1, <1>5, <2>2, <3>1, <3>2, <3>3, <3>4, TaskStep
  <2>3. CASE t \in file /\ orders[<<t, "uploaded">>] > 0 /\ task[t] \notin {"DONE", "PENDING"}
    <3>1. CASE Worked(t)
      <4>1. t \in cancelFile
        BY <1>2, <2>3, <3>1 DEF Worked
      <4>2. orders[<<t, "uploaded">>] # 0
        BY <2>3
      <4>3. QED
        BY <1>5, <3>1, <4>1, <4>2 DEF Worked
    <3>2. CASE Consumed(t)
      BY <2>3, <3>2 DEF Consumed
    <3>3. CASE task[t] = "NEW"
      BY <1>2, <2>3, <3>3
    <3>4. QED
      BY <1>3, <2>3, <3>1, <3>2, <3>3
  <2>4. CASE t \notin file
    BY <1>3, <1>5, <2>4 DEF Worked
  <2>5. QED
    BY <1>2, <2>1, <2>2, <2>3, <2>4
<1>6. QED
  BY <1>4, <1>5

(* How a handler turns to another step, when nothing fails. *)
Turns(g) ==
    \/ handler'[g].pc = handler[g].pc /\ (handler'[g].fresh => handler[g].fresh)
    \/ handler'[g] = Idle
    \/ \E e \in JobEvent : /\ Enters(g, e) /\ Queued(e) /\ e \notin AnyRetry
                           /\ handler'[g].pc = Entered(job'.state) /\ handler'[g].pc # "idle"
                           /\ handler'[g].fresh /\ ~job'.waiting
                           /\ UNCHANGED <<plan, task, output, storage, taskEvents, orders>>
    \/ csldCancel(g) /\ handler'[g].pc = "saveCancellation"
    \/ /\ At(g, "csldRollback") /\ handler'[g].pc = "deletePendingContainers"
       /\ handler[g].fresh /\ handler'[g].fresh
       /\ job'.state = job.state /\ job'.waiting = job.waiting

(* It stays, stops, enters a state, or goes on with a cancellation or a      *)
(* rollback (handleJobEvt, csldCancel, csldRollback).                        *)
LEMMA HandlerTurns ==
    ASSUME Typed, LoadInv, UnretriedInv, Calm, [Next]_vars, NEW g \in Handler
    PROVE  Turns(g)
<1>1. handler'[g] \in {handler[g], Stale[g]} => Turns(g)
  BY StaleCopies DEF Turns, Typed
<1>2. ASSUME NEW h \in Handler, HandlerStep(h)
      PROVE  Turns(g)
  <2>1. ASSUME NEW e \in JobEvent, Receive(h, e)
        PROVE  Turns(g)
    <3>1. UNCHANGED <<job, handler>> => Turns(g)
      BY <1>1
    <3>2. CASE Enters(h, e) /\ g # h
      BY <1>1, <3>2 DEF Enters
    <3>3. CASE Enters(h, e) /\ g = h
      BY <2>1, <3>3, Receives DEF Enters, Turns
    <3>4. QED
      BY <2>1, <3>1, <3>2, <3>3, Receives
  <2>2. CASE \A e \in JobEvent : ~Receive(h, e)
    <3>1. (Saves(h) \/ Leaves(h)) /\ job'.state = job.state /\ job'.waiting = job.waiting
      BY <1>2, <2>2, HandlerWays
    <3>2. CASE g # h
      BY <1>1, <3>1, <3>2 DEF Saves, Leaves
    <3>3. CASE g = h
      BY <3>1, <3>3 DEF Saves, Leaves, Turns
    <3>4. QED
      BY <3>2, <3>3
  <2>3. QED
    BY <2>1, <2>2
<1>3. ASSUME NEW t \in Task, NEW st \in TaskStatus, handleTaskEvt(t, st)
      PROVE  Turns(g)
  BY <1>1, <1>3, TakesEvent DEF Ends
<1>4. QED
  BY <1>1, <1>2, <1>3, OtherWays

(* The counters of messages stay natural numbers. *)
LEMMA NextLoadTypes ==
    ASSUME Typed, [Next]_vars, NEW t \in Task
    PROVE  Load(t)' \in Nat /\ OrdersOf(t)' \in Nat /\ OrdersOf(t)' <= Load(t)'
<1>1. TypeOK'
  BY TypedStep DEF Typed
<1>2. /\ \A p \in Progress : <<t, p>> \in Task \X Progress /\ orders'[<<t, p>>] \in Nat
      /\ \A st \in TaskStatus : <<t, st>> \in Task \X TaskStatus /\ taskEvents'[<<t, st>>] \in Nat
  BY <1>1 DEF TypeOK
<1>3. QED
  BY <1>2 DEF Load, OrdersOf, EventsOf, Progress, TaskStatus

(* No order is left when the containers are built and indexed (CompleteHeard, *)
(* IndexedHeard), before they are ordered, or when the consolidation failed. *)
LEMMA NoOrders ==
    ASSUME CatalogueInv, FileInv, CalmInv,
           job.state \in Early \cup {"CONSOLIDATIONDONE", "CONSOLIDATIONINDEXED",
                                     "CONSOLIDATIONFAILED"}
    PROVE  \A t \in Task : Load(t) = 0 /\ OrdersOf(t) = 0 /\ task[t] # "PENDING"
<1> SUFFICES ASSUME NEW t \in Task
             PROVE  Load(t) = 0 /\ OrdersOf(t) = 0 /\ task[t] # "PENDING"
  OBVIOUS
<1>1. TypeOK /\ LoadInv /\ EarlyInv /\ FailedInv /\ PlanInv /\ IndexedOnce
  BY CalmParts
<1>2. ~Aborted
  BY DEF Aborted, Over, Early, Absent
<1>3. CASE job.state \in Early
  <2>1. task[t] # "PENDING"
    BY <1>1, <1>3 DEF EarlyInv, Absent
  <2>2. QED
    BY <1>1, <1>2, <2>1, Unloaded
<1>4. CASE job.state = "CONSOLIDATIONFAILED"
  <2>1. task[t] # "PENDING"
    BY <1>1, <1>4 DEF FailedInv, Tasks
  <2>2. QED
    BY <1>1, <1>2, <2>1, Unloaded
<1>5. CASE job.state \in {"CONSOLIDATIONDONE", "CONSOLIDATIONINDEXED"}
  <2>1. \A x \in plan : task[x] = "DONE" \/ output[x] # Absent
    BY <1>2, <1>5 DEF CatalogueInv, CompleteHeard, IndexedHeard, Complete, Indexed
  <2>2. task[t] # "PENDING"
    BY <1>1, <2>1 DEF PlanInv, IndexedOnce, Started, Absent
  <2>3. QED
    BY <1>1, <1>2, <2>2, Unloaded
<1>6. QED
  BY <1>3, <1>4, <1>5

(* Once the cancellation is settled, the workers still busy are covered by   *)
(* the cancellation files: csldCancel writes them before the job is saved,   *)
(* and no order is sent any more (csldOnEnterNewState, handleTaskEvt).       *)
LEMMA CoveredStep ==
    ASSUME CatalogueInv, FileInv, CalmInv, Calm, [Next]_vars
    PROVE  CoveredInv'
<1> SUFFICES ASSUME CancelSettled'
             PROVE  job'.state \in Cancelling /\ Covered'
  BY DEF CoveredInv
<1>1. /\ Typed /\ TypeOK /\ UnretriedInv /\ LoadInv /\ IdleInv /\ FreshInv /\ CancelStepInv
      /\ CoveredInv /\ CountersMatch
      /\ (Aborted => Aborted') /\ (job.state \in Cancelling => job'.state \in Cancelling)
  BY CalmParts, States
<1>2. \A t \in Task : t \in cancelFile => t \in cancelFile'
  BY CancelFilesAre DEF csldCancel
<1>3. ASSUME NEW t \in Task, OrdersOf(t)' > 0, job.state # "CONSOLIDATIONINPROGRESS"
      PROVE  OrdersOf(t) > 0
  <2>1. ASSUME NEW h \in Handler, csldSendOrders(h) PROVE FALSE
    BY <1>1, <1>3, <2>1, FreshStates DEF csldSendOrders, FreshAt
  <2>2. QED
    BY <1>1, <1>3, <2>1, LoadStep, UnmovedLoad DEF Consumed, Worked
<1>4. CASE CancelSettled
  <2>1. job.state \in Cancelling /\ Covered
    BY <1>1, <1>4 DEF CoveredInv
  <2>2. job.state # "CONSOLIDATIONINPROGRESS"
    BY <2>1 DEF Cancelling, Over
  <2>3. QED
    BY <1>1, <1>2, <1>3, <2>1, <2>2 DEF Covered
<1>5. CASE ~CancelSettled
  <2>0. ~Aborted /\ ~Queued("CancellationDone")
        /\ \A h \in Handler : handler[h].pc \notin {"nothingToCancel", "saveCancellation"}
    BY <1>5 DEF CancelSettled
  <2>1. CASE Aborted'
    <3>1. /\ UNCHANGED <<plan, task, output, storage, taskEvents, orders>>
          /\ \E e \in JobEvent : /\ Queued(e) /\ e \notin AnyRetry
                                 /\ \/ <<job.state, e, job'.state>> \in ConsolidationEdges
                                    \/ job.state \in ConsolidationPause /\ job'.state = "ABORTED"
      <4>1. job'.state # job.state /\ job'.state # "NEW"
        BY <2>0, <2>1 DEF Aborted, Over
      <4>2. QED
        BY <1>1, <4>1, StateMoves
    <3>2. job.state \in Early \cup {"CONSOLIDATIONDONE", "CONSOLIDATIONINDEXED",
                                    "CONSOLIDATIONFAILED"}
      <4>1. job.state # "ABORTED" /\ job.state \notin {"CONSOLIDATIONRETRYING",
               "CONSOLIDATIONFORCERETRYING", "ROLLBACKFAILED"}
        BY <1>1, <2>0 DEF Aborted, Over, UnretriedInv
      <4>2. CASE job.state \in ConsolidationPause
        BY <4>2 DEF ConsolidationPause, Early
      <4>3. ASSUME NEW e \in JobEvent, Queued(e), e \notin AnyRetry,
                   <<job.state, e, job'.state>> \in ConsolidationEdges
            PROVE  job.state \in Early \cup {"CONSOLIDATIONDONE", "CONSOLIDATIONINDEXED",
                                             "CONSOLIDATIONFAILED"}
        <5>1. e # "CancellationDone"
          BY <2>0, <4>3
        <5>2. job'.state = "ABORTED"
          BY <2>1, <4>1, <4>3, CalmEdges DEF Aborted, Over
        <5>3. QED
          BY <4>1, <4>3, <5>1, <5>2, CalmEdges
      <4>4. QED
        BY <3>1, <4>2, <4>3
    <3>3. \A t \in Task : OrdersOf(t)' = 0
      BY <3>1, <3>2, NoOrders DEF OrdersOf
    <3>4. QED
      BY <2>1, <3>3 DEF Covered, Aborted, Cancelling
  <2>2. CASE Queued("CancellationDone")' /\ ~Aborted'
    <3>1. /\ job'.state = job.state /\ Tasks(ActiveTask)' = {}
          /\ job.state = "CONSOLIDATIONCANCELLING"
      BY <1>1, <2>0, <2>2, Posted DEF Watched
    <3>2. LoadInv'
      BY LoadInvStep
    <3>3. ASSUME NEW t \in Task PROVE OrdersOf(t)' = 0
      <4>1. task'[t] # "PENDING"
        BY <3>1 DEF Tasks, ActiveTask
      <4>2. ~(Load(t)' > 0)
        BY <2>2, <3>2, <4>1 DEF LoadInv
      <4>3. QED
        BY <1>1, <4>2, NextLoadTypes
    <3>4. QED
      BY <3>1, <3>3 DEF Covered, Cancelling
  <2>3. ASSUME NEW h \in Handler, handler'[h].pc \in {"nothingToCancel", "saveCancellation"}
        PROVE  job'.state \in Cancelling /\ Covered'
    <3>1. Turns(h)
      BY <1>1, HandlerTurns
    <3>2. CASE csldCancel(h)
      <4>1. /\ job.state \in Cancelling /\ UNCHANGED <<job, task, orders>>
            /\ cancelFile' = cancelFile \cup Tasks({"PENDING"})
        BY <1>1, <3>2 DEF csldCancel, At, CancelStepInv, database, queues
      <4>2. \A t \in Task : OrdersOf(t)' = OrdersOf(t)
        BY <4>1 DEF OrdersOf
      <4>3. \A t \in Task : OrdersOf(t) > 0 => t \in Tasks({"PENDING"})
        BY <1>1, <2>0, Unloaded DEF Tasks
      <4>4. QED
        BY <4>1, <4>2, <4>3 DEF Covered
    <3>3. CASE handler'[h].pc = Entered(job'.state) /\ job'.active = job.active
                  /\ UNCHANGED <<task, orders>>
      <4>1. job'.state = "CONSOLIDATIONCANCELLING" /\ job.active = 0
        BY <2>3, <3>3, EntrySteps DEF Entered
      <4>2. Tasks(ActiveTask) = {}
        BY <1>1, <4>1, NoneActive DEF CountersMatch, Tasks
      <4>3. \A t \in Task : OrdersOf(t)' = 0
        <5>1. \A t \in Task : task[t] # "PENDING"
          BY <4>2 DEF Tasks, ActiveTask
        <5>2. \A t \in Task : OrdersOf(t) = 0
          BY <1>1, <2>0, <5>1, Unloaded
        <5>3. QED
          BY <3>3, <5>2 DEF OrdersOf
      <4>4. QED
        BY <4>1, <4>3 DEF Covered, Cancelling
    <3>4. ASSUME NEW e \in JobEvent, Enters(h, e), handler'[h].pc = Entered(job'.state),
                 UNCHANGED <<plan, task, output, storage, taskEvents, orders>>
          PROVE  job'.state \in Cancelling /\ Covered'
      BY <3>3, <3>4 DEF Enters
    <3>5. handler'[h].pc # handler[h].pc /\ handler'[h] # Idle
      BY <2>0, <2>3 DEF Idle
    <3>6. handler'[h].pc # "deletePendingContainers"
      BY <2>3
    <3>7. QED
      BY <3>1, <3>2, <3>4, <3>5, <3>6 DEF Turns
  <2>4. QED
    BY <2>1, <2>2, <2>3 DEF CancelSettled
<1>6. QED
  BY <1>4, <1>5

(* A consolidation fails when its last task has ended, and no handler that   *)
(* sends the orders is overtaken (csldSendOrders, handleTaskEvt).            *)
LEMMA FailedStep ==
    ASSUME CatalogueInv, FileInv, CalmInv, Calm, [Next]_vars
    PROVE  FailedInv'
<1>1. Typed /\ TypeOK /\ UnretriedInv /\ LoadInv /\ EarlyInv /\ IdleInv /\ SoloInv /\ FailedInv
  BY CalmParts
<1>2. ASSUME NEW t \in Task, task'[t] \in ActiveTask, job.state # "CREATED"
      PROVE  /\ task[t] \in ActiveTask
             /\ job.state = "CONSOLIDATIONINPROGRESS" \/ task'[t] = task[t]
  <2>1. CASE task'[t] = task[t]
    BY <1>2, <2>1
  <2>2. CASE task'[t] # task[t]
    <3>1. \A st : StateOf(st) \notin ActiveTask
      BY DEF StateOf, ActiveTask
    <3>2. "CANCELLED" \notin ActiveTask /\ Absent \notin ActiveTask /\ "NEW" \in ActiveTask
      BY DEF ActiveTask, Absent
    <3>3. QED
      BY <1>1, <1>2, <2>2, <3>1, <3>2, TaskStep
  <2>3. QED
    BY <2>1, <2>2
<1>3. ASSUME job'.state = "CONSOLIDATIONFAILED", NEW t \in Task, task'[t] = "PENDING"
      PROVE  FALSE
  <2>1. CASE job.state = "CONSOLIDATIONFAILED"
    BY <1>1, <1>2, <1>3, <2>1 DEF FailedInv, Tasks, ActiveTask
  <2>2. CASE job.state # "CONSOLIDATIONFAILED"
    <3>1. PICK e \in JobEvent : /\ Queued(e) /\ e \notin AnyRetry /\ task' = task
                                /\ <<job.state, e, job'.state>> \in ConsolidationEdges
      BY <1>1, <1>3, <2>2, StateMoves
    <3>2. \/ job.state \in {"CONSOLIDATIONDONE", "CONSOLIDATIONINDEXED"}
          \/ /\ job.state = "CONSOLIDATIONINPROGRESS"
             /\ e \in {"ConsolidationFailed", "SendOrdersFailed"}
      BY <1>1, <1>3, <3>1, CalmEdges DEF UnretriedInv
    <3>3. CASE job.state = "CONSOLIDATIONINPROGRESS" /\ e \in {"ConsolidationFailed", "SendOrdersFailed"}
      <4>1. Tasks(ActiveTask) = {}
        BY <1>1, <3>1, <3>3 DEF FailedInv
      <4>2. task[t] \notin ActiveTask
        BY <4>1 DEF Tasks
      <4>3. QED
        BY <1>3, <3>1, <4>2 DEF ActiveTask
    <3>4. CASE job.state \in {"CONSOLIDATIONDONE", "CONSOLIDATIONINDEXED"}
      BY <1>3, <3>1, <3>4, NoOrders
    <3>5. QED
      BY <3>2, <3>3, <3>4
  <2>3. QED
    BY <2>1, <2>2
<1>4. ASSUME job'.state = "CONSOLIDATIONINPROGRESS"
      PROVE  /\ ~Queued("SendOrdersFailed")'
             /\ Queued("ConsolidationFailed")' => Tasks(ActiveTask)' = {}
  <2>0. {"SendOrdersFailed", "ConsolidationFailed"} \subseteq Watched
        /\ {"SendOrdersFailed", "ConsolidationFailed"} \subseteq JobEvent
    BY DEF Watched, JobEvent, ConsolidationEvent
  <2>1. CASE job.state # "CONSOLIDATIONINPROGRESS"
    BY <1>1, <1>4, <2>0, <2>1, WasInProgress DEF EarlyInv, Early
  <2>2. CASE job.state = "CONSOLIDATIONINPROGRESS"
    <3>1. ~Queued("SendOrdersFailed") /\ (Queued("ConsolidationFailed") => Tasks(ActiveTask) = {})
      BY <1>1, <2>2 DEF FailedInv
    <3>2. ~Queued("SendOrdersFailed")'
      <4>1. \A h \in Handler : At(h, "csldSendOrders") => handler[h].fresh
        BY <1>1, <2>2 DEF SoloInv, Works
      <4>2. QED
        BY <1>1, <2>0, <3>1, <4>1, Posted
    <3>3. ASSUME Queued("ConsolidationFailed")'
          PROVE  Tasks(ActiveTask)' = {}
      <4>1. CASE Queued("ConsolidationFailed")
        BY <1>2, <2>2, <3>1, <4>1 DEF Tasks
      <4>2. CASE ~Queued("ConsolidationFailed")
        BY <1>1, <2>0, <3>3, <4>2, Posted
      <4>3. QED
        BY <4>1, <4>2
    <3>4. QED
      BY <3>2, <3>3
  <2>3. QED
    BY <2>1, <2>2
<1>5. QED
  BY <1>3, <1>4 DEF FailedInv, Tasks

(* Who acts on the job or on its handlers. *)
LEMMA Actors ==
    ASSUME Typed, LoadInv, UnretriedInv, Calm, [Next]_vars
    PROVE  \/ \E k \in Handler, e \in JobEvent :
                 /\ Enters(k, e) /\ Queued(e) /\ e \notin AnyRetry
                 /\ UNCHANGED <<plan, task, output, storage, taskEvents, orders>>
           \/ handler' = handler /\ job.state = Absent /\ job'.state = "NEW"
           \/ /\ job'.state = job.state /\ job'.waiting = job.waiting
              /\ \/ \E k \in Handler : HandlerStep(k) /\ (Saves(k) \/ Leaves(k))
                 \/ handler' = handler
                 \/ \E t \in Task, st \in TaskStatus : handleTaskEvt(t, st) /\ Ends(t, st)
<1>1. ASSUME NEW k \in Handler, NEW e \in JobEvent, Receive(k, e)
      PROVE  \/ /\ Enters(k, e) /\ Queued(e) /\ e \notin AnyRetry
                /\ UNCHANGED <<plan, task, output, storage, taskEvents, orders>>
             \/ handler' = handler /\ job' = job
  BY <1>1, Receives
<1>2. ASSUME NEW k \in Handler, HandlerStep(k), \A e \in JobEvent : ~Receive(k, e)
      PROVE  /\ job'.state = job.state /\ job'.waiting = job.waiting
             /\ Saves(k) \/ Leaves(k)
  BY <1>2, HandlerWays
<1>3. ASSUME NEW t \in Task, NEW st \in TaskStatus, handleTaskEvt(t, st)
      PROVE  \/ Ends(t, st) /\ job'.state = job.state /\ job'.waiting = job.waiting
             \/ handler' = handler /\ job' = job
  BY <1>3, TakesEvent DEF Ends
<1>4. QED
  BY <1>1, <1>2, <1>3, OtherWays

(* A job that is aborted is over when its rollback is.                       *)
LEMMA StaysOver ==
    ASSUME CatalogueInv, FileInv, CalmInv, Calm, [Next]_vars
    PROVE  /\ job.state = "FAILED" => job'.state = "FAILED"
           /\ job.state = "ABORTED" => job'.state \in {"ABORTED", "FAILED"}
<1>1. Typed /\ LoadInv /\ UnretriedInv /\ IdleInv /\ RollbackInv
  BY CalmParts
<1>2. UnretriedInv'
  BY <1>1, UnretriedStep
<1>3. ASSUME job'.state # job.state, job.state \in {"ABORTED", "FAILED"}
      PROVE  job.state = "ABORTED" /\ job'.state = "FAILED"
  <2>1. job.state \notin ConsolidationPause /\ job.state # Absent
    BY <1>3 DEF ConsolidationPause, Absent
  <2>2. PICK e \in JobEvent : e \notin AnyRetry /\ <<job.state, e, job'.state>> \in ConsolidationEdges
    BY <1>1, <1>3, <2>1, StateMoves
  <2>3. /\ job.state = "ABORTED" => job'.state \in {"ROLLBACKFAILED", "FAILED"}
        /\ job'.state = "FAILED" => job.state = "ABORTED"
        /\ job'.state = "ABORTED" => job.state # "FAILED"
    BY <1>1, <2>2, CalmEdges DEF UnretriedInv, Early, Absent
  <2>4. job'.state \in Over
    BY <1>3, <2>2, EdgeFacts DEF Over
  <2>5. QED
    BY <1>2, <1>3, <2>3, <2>4 DEF UnretriedInv, Over
<1>4. QED
  BY <1>3

(* The handler that enters a state is the only one to send the orders or to  *)
(* roll back: nobody did in the state before.                                *)
LEMMA EntersAlone ==
    ASSUME CatalogueInv, FileInv, CalmInv, Calm, [Next]_vars,
           NEW k \in Handler, NEW e \in JobEvent, Enters(k, e),
           NEW g \in Handler, Works(g)'
    PROVE  g = k
<1> SUFFICES ASSUME g # k PROVE FALSE
  OBVIOUS
<1>1. Typed /\ TypeOK /\ UnretriedInv /\ SoloInv /\ RollbackInv
  BY CalmParts
<1>2. handler'[g].pc = handler[g].pc
  BY <1>1, StaleCopies DEF Enters
<1>3. CASE job'.state = job.state /\ job.waiting
  <2>1. Works(g)
    BY <1>2, <1>3 DEF Works, At
  <2>2. QED
    BY <1>1, <1>3, <2>1 DEF SoloInv
<1>4. CASE job'.state # job.state
  <2>1. CASE job'.state = "CONSOLIDATIONINPROGRESS" /\ At(g, "csldSendOrders")
    BY <1>4, <2>1, WasInProgress
  <2>2. CASE job'.state # "FAILED" /\ handler[g].pc \in RollingBack
    <3>1. job.state \in {"ABORTED", "FAILED"}
      BY <1>1, <2>2 DEF RollbackInv
    <3>2. QED
      BY <1>4, <2>2, <3>1, StaysOver
  <2>3. QED
    BY <1>2, <2>1, <2>2 DEF Works, At
<1>5. QED
  BY <1>3, <1>4 DEF Enters, ConsolidationPause

(* A handler that works goes on, and saves its step: nobody saves the job    *)
(* before it, and no task can end (the optimistic concurrency of UpdateJob). *)
LEMMA WorksOn ==
    ASSUME CatalogueInv, FileInv, CalmInv, Calm, [Next]_vars,
           job'.state = job.state, job'.waiting = job.waiting,
           \/ \E k \in Handler : HandlerStep(k) /\ (Saves(k) \/ Leaves(k))
           \/ handler' = handler
           \/ \E t \in Task, st \in TaskStatus : handleTaskEvt(t, st) /\ Ends(t, st),
           NEW g \in Handler, Works(g)'
    PROVE  /\ Works(g) /\ handler'[g].fresh
           /\ \A k \in Handler : ~csldSendOrders(k)
<1>1. /\ Typed /\ TypeOK /\ LoadInv /\ UnretriedInv /\ SoloInv /\ RollbackInv /\ FreshInv
      /\ \A h \in Handler : Stale[h].pc = handler[h].pc
  BY CalmParts, StaleCopies
<1>2. Works(g)
  <2>1. CASE handler'[g].pc = handler[g].pc
    BY <2>1 DEF Works, At
  <2>2. ASSUME NEW k \in Handler, Saves(k) \/ Leaves(k), handler'[g].pc # handler[g].pc
        PROVE  Works(g)
    <3>1. g = k
      BY <1>1, <2>2 DEF Saves, Leaves
    <3>2. handler'[g] # Idle /\ handler'[g].pc # "saveCancellation"
      BY DEF Works, At, RollingBack, Idle
    <3>3. At(g, "csldRollback")
      BY <2>2, <3>1, <3>2 DEF Saves, Leaves
    <3>4. job.state # "FAILED"
      BY <2>2, <3>1, <3>2, <3>3 DEF Works, At, Saves, Leaves
    <3>5. QED
      BY <3>3, <3>4 DEF Works, At, RollingBack
  <2>3. QED
    BY <1>1, <2>1, <2>2 DEF Ends
<1>3. /\ handler[g].fresh /\ ~job.waiting
      /\ \A k \in Handler : Works(k) => k = g
      /\ job.state = "CONSOLIDATIONINPROGRESS" => \A t \in Task : Load(t) = 0
  BY <1>1, <1>2 DEF SoloInv
<1>4. job.state \in {"CONSOLIDATIONINPROGRESS", "ABORTED"}
  BY <1>1, <1>2 DEF Works, RollbackInv
<1>5. ASSUME NEW k \in Handler, handler[k].fresh
      PROVE  k = g
  <2>1. Works(k)
    BY <1>1, <1>4, <1>5, EntrySteps DEF FreshInv, Works, At, RollingBack
  <2>2. QED
    BY <1>3, <2>1
<1>6. ASSUME NEW t \in Task, NEW st \in TaskStatus, handleTaskEvt(t, st), Ends(t, st)
      PROVE  FALSE
  <2>1. Consumed(t)
    BY <1>1, <1>6, ConsumesEvent
  <2>2. job.state = "CONSOLIDATIONINPROGRESS"
    BY <1>4, <1>6 DEF Ends
  <2>3. QED
    BY <1>3, <2>1, <2>2 DEF Consumed
<1>7. handler'[g].fresh
  <2>1. ASSUME NEW k \in Handler, Saves(k) \/ Leaves(k)
        PROVE  handler'[g].fresh
    <3>1. CASE g # k
      BY <1>3, <1>5, <2>1, <3>1 DEF Saves, Leaves
    <3>2. CASE g = k
      <4>1. handler'[g] # Idle /\ handler'[g].pc # "saveCancellation"
        BY DEF Works, At, RollingBack, Idle
      <4>2. QED
        BY <2>1, <3>2, <4>1 DEF Saves, Leaves
    <3>3. QED
      BY <3>1, <3>2
  <2>2. QED
    BY <1>3, <1>6, <2>1
<1>8. ASSUME NEW k \in Handler, csldSendOrders(k) PROVE FALSE
  <2>1. k = g
    BY <1>5, <1>8 DEF csldSendOrders, FreshAt
  <2>2. handler'[g] = Idle
    BY <1>1, <1>8, <2>1 DEF csldSendOrders, HandlerType, Stale
  <2>3. QED
    BY <2>2 DEF Works, At, RollingBack, Idle
<1>9. QED
  BY <1>2, <1>7, <1>8

(* The orders are sent, and the job rolled back, by a handler that is alone  *)
(* and that nobody overtakes (handleJobEvt, csldOnEnterNewState).            *)
LEMMA SoloStep ==
    ASSUME CatalogueInv, FileInv, CalmInv, Calm, [Next]_vars
    PROVE  SoloInv'
<1>1. Typed /\ TypeOK /\ LoadInv /\ UnretriedInv /\ SoloInv /\ RollbackInv
  BY CalmParts
<1> DEFINE step == \/ \E k \in Handler : HandlerStep(k) /\ (Saves(k) \/ Leaves(k))
                   \/ handler' = handler
                   \/ \E t \in Task, st \in TaskStatus : handleTaskEvt(t, st) /\ Ends(t, st)
<1>2. CASE \E k \in Handler, e \in JobEvent :
              Enters(k, e) /\ UNCHANGED <<plan, task, output, storage, taskEvents, orders>>
  <2>1. PICK k \in Handler, e \in JobEvent :
            Enters(k, e) /\ UNCHANGED <<plan, task, output, storage, taskEvents, orders>>
    BY <1>2
  <2>2. ASSUME NEW g \in Handler, Works(g)'
        PROVE  g = k /\ handler'[g].fresh /\ ~job'.waiting
    <3>1. g = k
      BY <2>1, <2>2, EntersAlone
    <3>2. handler'[k] # Idle
      BY <2>2, <3>1 DEF Works, At, RollingBack, Idle
    <3>3. QED
      BY <2>1, <3>1, <3>2 DEF Enters
  <2>3. ASSUME job'.state = "CONSOLIDATIONINPROGRESS", NEW t \in Task
        PROVE  Load(t)' = 0
    <3>1. Load(t)' = Load(t)
      BY <2>1 DEF Load, OrdersOf, EventsOf
    <3>2. CASE job.state # "CONSOLIDATIONINPROGRESS"
      BY <2>3, <3>1, <3>2, WasInProgress
    <3>3. CASE job.state = "CONSOLIDATIONINPROGRESS"
      <4>1. job.waiting
        BY <2>1, <2>3, <3>3 DEF Enters, ConsolidationPause
      <4>2. QED
        BY <1>1, <3>1, <3>3, <4>1 DEF SoloInv
    <3>4. QED
      BY <3>2, <3>3
  <2>4. QED
    BY <2>2, <2>3 DEF SoloInv
<1>3. CASE handler' = handler /\ job.state = Absent /\ job'.state = "NEW"
  <2>1. \A g \in Handler : ~Works(g)'
    BY <1>1, <1>3 DEF Works, RollbackInv, Absent
  <2>2. QED
    BY <1>3, <2>1 DEF SoloInv
<1>4. CASE job'.state = job.state /\ job'.waiting = job.waiting /\ step
  <2>1. ASSUME NEW g \in Handler, Works(g)'
        PROVE  /\ Works(g) /\ handler'[g].fresh
               /\ \A k \in Handler : ~csldSendOrders(k)
    BY <1>4, <2>1, WorksOn
  <2>2. ASSUME NEW g \in Handler, Works(g)'
        PROVE  /\ handler'[g].fresh /\ ~job'.waiting
               /\ \A h \in Handler : Works(h)' => h = g
    BY <1>1, <1>4, <2>1, <2>2 DEF SoloInv
  <2>3. ASSUME job'.state = "CONSOLIDATIONINPROGRESS", NEW t \in Task,
               job'.waiting \/ \E g \in Handler : Works(g)'
        PROVE  Load(t)' = 0
    <3>1. Load(t) = 0 /\ OrdersOf(t) = 0
      <4>1. Load(t) = 0
        BY <1>1, <1>4, <2>1, <2>3 DEF SoloInv
      <4>2. QED
        BY <1>1, <4>1, LoadTypes DEF Load
    <3>2. ASSUME NEW k \in Handler, csldSendOrders(k) PROVE FALSE
      <4>1. Works(k)
        BY <1>4, <2>3, <3>2 DEF csldSendOrders, FreshAt, Works
      <4>2. ~job'.waiting
        BY <1>1, <1>4, <4>1 DEF SoloInv
      <4>3. QED
        BY <2>1, <2>3, <3>2, <4>2
    <3>3. ~Consumed(t) /\ ~Worked(t)
      BY <3>1 DEF Consumed, Worked
    <3>4. Unmoved(t)
      BY <1>1, <3>2, <3>3, LoadStep
    <3>5. QED
      BY <3>1, <3>4, UnmovedLoad
  <2>4. QED
    BY <2>2, <2>3 DEF SoloInv
<1>5. QED
  BY <1>1, <1>2, <1>3, <1>4, Actors

(* A rollback does not fail, nobody else is left in it when it is over, and  *)
(* it leaves nothing (csldRollback, handleTaskEvt).                          *)
LEMMA RollbackStep ==
    ASSUME CatalogueInv, FileInv, CalmInv, Calm, [Next]_vars
    PROVE  RollbackInv'
<1>1. Typed /\ TypeOK /\ LoadInv /\ UnretriedInv /\ IdleInv /\ SoloInv /\ RollbackInv
  BY CalmParts
<1>2. /\ job.state = "FAILED" => job'.state = "FAILED"
      /\ job.state = "ABORTED" => job'.state \in {"ABORTED", "FAILED"}
  BY StaysOver
<1>3. ASSUME Queued("RollbackFailed")'
      PROVE  job'.state = "FAILED"
  <2>1. CASE Queued("RollbackFailed")
    BY <1>1, <1>2, <2>1 DEF RollbackInv
  <2>2. CASE ~Queued("RollbackFailed")
    <3>1. /\ job'.state = job.state
          /\ \E h \in Handler : ~handler[h].fresh /\ handler[h].pc \in RollingBack
      BY <1>1, <1>3, <2>2, Posted DEF Watched
    <3>2. QED
      BY <1>1, <3>1 DEF SoloInv, Works
  <2>3. QED
    BY <2>1, <2>2
<1>4. ASSUME NEW h \in Handler, handler'[h].pc \in RollingBack
      PROVE  job'.state \in {"ABORTED", "FAILED"}
  <2>1. CASE handler[h].pc \in RollingBack
    BY <1>1, <1>2, <2>1 DEF RollbackInv
  <2>2. CASE handler[h].pc \notin RollingBack
    <3>1. handler'[h].pc # handler[h].pc /\ handler'[h] # Idle /\ ~At(h, "csldRollback")
          /\ handler'[h].pc # "saveCancellation"
      BY <1>4, <2>2 DEF RollingBack, Idle, At
    <3>2. handler'[h].pc = Entered(job'.state)
      BY <1>1, <3>1, HandlerTurns DEF Turns
    <3>3. QED
      BY <1>4, <3>2, EntrySteps DEF Entered, RollingBack
  <2>3. QED
    BY <2>1, <2>2
<1>5. ASSUME job'.state = "FAILED"
      PROVE  RolledBack'
  <2>1. CASE job.state = "FAILED"
    BY <1>1, <2>1, RolledBackForGood DEF RollbackInv, Aborted, Over
  <2>2. CASE job.state # "FAILED"
    <3>1. PICK e \in JobEvent : /\ Queued(e) /\ e \notin AnyRetry
                                /\ <<job.state, e, job'.state>> \in ConsolidationEdges
      BY <1>1, <1>5, <2>2, StateMoves
    <3>2. Heard("RollbackDone")
      BY <1>1, <1>5, <3>1, CalmEdges DEF UnretriedInv, Queued, Heard
    <3>3. Aborted /\ RolledBack
      BY <3>2 DEF CatalogueInv, RolledBackHeard
    <3>4. QED
      BY <3>3, RolledBackForGood
  <2>3. QED
    BY <2>1, <2>2
<1>6. QED
  BY <1>3, <1>4, <1>5 DEF RollbackInv

(* Nothing is queued, built nor run before the job is submitted (Init). *)
LEMMA CalmInit ==
    ASSUME Init
    PROVE  CalmInv
<1>1. /\ job.state = Absent /\ ~job.waiting
      /\ \A t \in Task : task[t] = Absent
      /\ \A h \in Handler : handler[h] = Idle
      /\ \A e \in JobEvent : ~Queued(e)
      /\ file = {}
  BY DEF Init, Queued
<1>2. ASSUME NEW t \in Task
      PROVE  Load(t) = 0 /\ Unbuilt(t) = 0
  <2>1. /\ \A p \in Progress : <<t, p>> \in Task \X Progress
        /\ \A st \in TaskStatus : <<t, st>> \in Task \X TaskStatus
    OBVIOUS
  <2>2. /\ \A p \in Progress : orders[<<t, p>>] = 0
        /\ \A st \in TaskStatus : taskEvents[<<t, st>>] = 0
    BY <2>1 DEF Init
  <2>3. QED
    BY <2>2 DEF Load, OrdersOf, EventsOf, Unbuilt, Progress, TaskStatus
<1>3. \A h \in Handler : handler[h].pc = "idle"
  BY <1>1 DEF Idle
<1>4. {"Retried", "RetryForced", "ConsolidationFailed", "SendOrdersFailed", "CancellationDone",
       "RollbackFailed"} \subseteq JobEvent
  BY DEF JobEvent, UserEvent, ConsolidationEvent
<1>5. UnretriedInv /\ EarlyInv /\ IdleInv
  BY <1>1, <1>2, <1>3, <1>4 DEF UnretriedInv, EarlyInv, IdleInv, At, Absent
<1>6. LoadInv /\ TrackedInv
  BY <1>1, <1>2 DEF LoadInv, TrackedInv, Absent
<1>7. CoveredInv
  BY <1>1, <1>3, <1>4 DEF CoveredInv, CancelSettled, Aborted, Over, Absent
<1>8. FailedInv /\ SoloInv /\ RollbackInv
  BY <1>1, <1>3, <1>4 DEF FailedInv, SoloInv, RollbackInv, Works, At, RollingBack, Absent
<1>9. QED
  BY <1>5, <1>6, <1>7, <1>8 DEF CalmInv

(* Every step without fault nor retry keeps the invariant (Next).            *)
LEMMA CalmStep ==
    ASSUME CatalogueInv, FileInv, CalmInv, Calm, [Next]_vars
    PROVE  CalmInv'
<1>1. Typed /\ LoadInv /\ UnretriedInv /\ IdleInv /\ RollbackInv /\ FreshInv
  BY CalmParts
<1>2. UnretriedInv' /\ IdleInv'
  BY <1>1, UnretriedStep, IdleStep
<1>3. QED
  BY <1>2, EarlyStep, LoadInvStep, TrackedStep, CoveredStep, FailedStep, SoloStep, RollbackStep
     DEF CalmInv

(* What the invariant says of a job that failed, and of one in progress.     *)
LEMMA CalmMeans ==
    ASSUME CatalogueInv, CalmInv
    PROVE  NoOrphanFile /\ PendingIsInFlight
<1>1. TypeOK /\ LoadInv /\ TrackedInv /\ RollbackInv
  BY DEF CatalogueInv, Typed, CalmInv
<1>2. NoOrphanFile
  <2> SUFFICES ASSUME job.state = "FAILED", \A m \in Task \X Progress : orders[m] = 0,
                      NEW t \in file
               PROVE  output[t] = "ACTIVE"
    BY DEF NoOrphanFile
  <2>1. /\ t \in Task /\ output[t] \in {Absent, "INACTIVE", "ACTIVE"}
        /\ <<t, "uploaded">> \in Task \X Progress
    BY <1>1 DEF TypeOK, Progress
  <2>2. Tasks(TaskState) = {} /\ output[t] # "INACTIVE"
    BY <1>1, <2>1 DEF RollbackInv, RolledBack
  <2>3. task[t] \notin {"DONE", "PENDING"}
    BY <2>1, <2>2 DEF Tasks, TaskState
  <2>4. orders[<<t, "uploaded">>] = 0
    BY <2>1
  <2>5. QED
    BY <1>1, <2>1, <2>2, <2>3, <2>4 DEF TrackedInv
<1>3. PendingIsInFlight
  <2> SUFFICES ASSUME job.state = "CONSOLIDATIONINPROGRESS", NEW t \in Tasks({"PENDING"}),
                      \A p \in Progress : ~(orders[<<t, p>>] > 0),
                      \A st \in TaskStatus : ~(taskEvents[<<t, st>>] > 0)
               PROVE  FALSE
    BY DEF PendingIsInFlight
  <2>1. t \in Task /\ task[t] = "PENDING"
    BY DEF Tasks
  <2>2. Load(t) = 1
    BY <1>1, <2>1 DEF LoadInv
  <2>3. /\ \A p \in Progress : orders[<<t, p>>] = 0
        /\ \A st \in TaskStatus : taskEvents[<<t, st>>] = 0
    BY <1>1, <2>1, LoadTypes
  <2>4. Load(t) = 0
    BY <2>3 DEF Load, OrdersOf, EventsOf, Progress, TaskStatus
  <2>5. QED
    BY <2>2, <2>4
<1>4. QED
  BY <1>2, <1>3

(* The invariant holds in every behaviour without faults nor retries.        *)
LEMMA CalmCorrect ==
    ASSUME Calm
    PROVE  Spec => [](CatalogueInv /\ CalmInv)
<1>1. Init => FileInv /\ CalmInv
  BY FileInvInit, CalmInit
<1>2. CatalogueInv /\ FileInv /\ CalmInv /\ [Next]_vars => FileInv' /\ CalmInv'
  BY FileInvStep, CalmStep
<1>3. QED
  BY CatalogueCorrect, <1>1, <1>2, PTL DEF Spec

(* Unless a server stops, a call fails, a message is delivered twice or the  *)
(* user retries, a consolidation that failed leaves no container behind,     *)
(* however it was cancelled and whatever its workers were doing (csldCancel, *)
(* csldRollback, csldSubFncDeletePendingRemoteContainers, Consolidate).      *)
THEOREM NoFileIsOrphaned ==
    ASSUME Calm
    PROVE  Spec => []NoOrphanFile
<1>1. CatalogueInv /\ CalmInv => NoOrphanFile
  BY CalmMeans
<1>2. QED
  BY <1>1, CalmCorrect, PTL

(* Under the same conditions, a task that is PENDING in a job in progress    *)
(* has an order or an event that will change it (csldSendOrders,             *)
(* handleTaskEvt, Consolidate).                                              *)
THEOREM PendingTasksAreInFlight ==
    ASSUME Calm
    PROVE  Spec => []PendingIsInFlight
<1>1. CatalogueInv /\ CalmInv => PendingIsInFlight
  BY CalmMeans
<1>2. QED
  BY <1>1, CalmCorrect, PTL

=============================================================================
