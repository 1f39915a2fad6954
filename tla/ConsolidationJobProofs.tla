----------------------- MODULE ConsolidationJobProofs -----------------------
(* What TLAPS proves of ConsolidationJob, for any tasks, datasets, handlers, *)
(* commands and numbers of faults.                                           *)
EXTENDS ConsolidationJob, FiniteSetTheorems, TLAPS

(* The counters make the type of the job inductive. *)
Typed == TypeOK /\ CountersMatch

-----------------------------------------------------------------------------
(* The counters *)

(* The tasks in some states are finitely many. *)
LEMMA TasksFinite ==
    ASSUME NEW T, T \subseteq Task
    PROVE  IsFiniteSet(T) /\ Cardinality(T) \in Nat
  BY TaskAssumption, FS_Subset, FS_CardinalityType

(* Moving the tasks of M to or from a set of tasks A. *)
LEMMA CountMoves ==
    ASSUME NEW A, NEW M, A \subseteq Task, M \subseteq Task
    PROVE  /\ Cardinality(A \cup M) = Cardinality(A) + Cardinality(M) - Cardinality(A \cap M)
           /\ Cardinality(A \ M) = Cardinality(A) - Cardinality(A \cap M)
<1>1. IsFiniteSet(A) /\ IsFiniteSet(M)
  BY TasksFinite
<1>2. QED
  BY <1>1, FS_Union, FS_Difference

(* SetTasks moves the tasks and only the counters of the job, which stay     *)
(* those of the tasks (setTaskState, updateTaskCounters).                    *)
LEMMA SetTasksCounts ==
    ASSUME Typed,
           NEW T, T \subseteq Task, NEW s \in TaskState \cup {Absent},
           SetTasks(T, s)
    PROVE  /\ job' \in [state : ConsolidationState \cup {Absent}, waiting : BOOLEAN,
                        active : Nat, failed : Nat]
           /\ job'.state = job.state
           /\ job'.waiting = job.waiting
           /\ task' \in [Task -> TaskState \cup {Absent}]
           /\ CountersMatch'
<1> DEFINE moved == {t \in T : task[t] # s}
           gain(S) == IF s \in S THEN Cardinality(moved) ELSE 0
           loss(S) == Cardinality({t \in moved : task[t] \in S})
<1>1. /\ task' \in [Task -> TaskState \cup {Absent}]
      /\ task' = [t \in Task |-> IF t \in T THEN s ELSE task[t]]
      /\ task \in [Task -> TaskState \cup {Absent}]
  BY DEF SetTasks, Typed, TypeOK
<1>2. ASSUME NEW S
      PROVE  /\ Cardinality(Tasks(S)') = Cardinality(Tasks(S)) + gain(S) - loss(S)
             /\ Cardinality(Tasks(S)) \in Nat /\ gain(S) \in Nat /\ loss(S) \in Nat
             /\ Cardinality(Tasks(S)') \in Nat
  <2>1. Tasks(S) \subseteq Task /\ moved \subseteq Task /\ Tasks(S)' \subseteq Task
    BY DEF Tasks
  <2>2. loss(S) = Cardinality(Tasks(S) \cap moved)
    <3>1. {t \in moved : task[t] \in S} = Tasks(S) \cap moved
      BY <2>1 DEF Tasks
    <3>2. QED
      BY <3>1
  <2>3. Tasks(S) \cap moved \subseteq Task
    BY <2>1
  <2>4. Cardinality(Tasks(S)) \in Nat /\ Cardinality(moved) \in Nat
        /\ Cardinality(Tasks(S) \cap moved) \in Nat /\ Cardinality(Tasks(S)') \in Nat
    BY <2>1, <2>3, TasksFinite
  <2>5. CASE s \in S
    <3>1. Tasks(S)' = Tasks(S) \cup moved
      BY <1>1, <2>5 DEF Tasks
    <3>2. Cardinality(Tasks(S)') = Cardinality(Tasks(S)) + Cardinality(moved)
                                       - Cardinality(Tasks(S) \cap moved)
      BY <2>1, <3>1, CountMoves
    <3>3. gain(S) = Cardinality(moved)
      BY <2>5
    <3>4. QED
      BY <2>2, <2>4, <3>2, <3>3
  <2>6. CASE s \notin S
    <3>1. Tasks(S)' = Tasks(S) \ moved
      BY <1>1, <2>6 DEF Tasks
    <3>2. Cardinality(Tasks(S)') = Cardinality(Tasks(S)) - Cardinality(Tasks(S) \cap moved)
      BY <2>1, <3>1, CountMoves
    <3>3. gain(S) = 0
      BY <2>6
    <3>4. QED
      <4> HIDE DEF gain, loss, moved
      <4>1. QED
        BY <2>2, <2>4, <3>2, <3>3
  <2>7. QED
    BY <2>5, <2>6
<1>3. /\ job'.state = job.state /\ job'.waiting = job.waiting
      /\ job'.active = job.active + gain(ActiveTask) - loss(ActiveTask)
      /\ job'.failed = job.failed + gain({"FAILED"}) - loss({"FAILED"})
      /\ job' \in [state : ConsolidationState \cup {Absent}, waiting : BOOLEAN,
                   active : {job'.active}, failed : {job'.failed}]
  BY DEF SetTasks, Recount, Typed, TypeOK
<1> HIDE DEF moved, gain, loss
<1>4. CountersMatch'
  BY <1>2, <1>3 DEF CountersMatch, Typed
<1>5. job'.active \in Nat /\ job'.failed \in Nat
  BY <1>2, <1>4 DEF CountersMatch
<1>6. QED
  BY <1>1, <1>3, <1>4, <1>5

-----------------------------------------------------------------------------
(* Types *)

HandlerType == [Handler -> [pc : Step \cup {"idle"}, fresh : BOOLEAN,
                            msg : JobEvent \cup {Absent}]]

(* The steps of the handlers, one by one. *)
LEMMA StepNames ==
    /\ {"publishJobCreated", "csldPrepareOrders", "csldSendOrders", "csldIndex",
        "csldSwapDatasets", "csldDeleteDatasets", "csldCancel", "csldConsolidationRetry",
        "csldConsolidationForceRetry", "csldRollback", "nothingToCancel", "saveCancellation",
        "deletePendingContainers"} \subseteq Step
    /\ \A s \in ConsolidationState \cup {Absent} : StepOf(s) \in Step \cup {"idle"}
<1>1. \A s \in {"NEW", "CREATED", "CONSOLIDATIONINPROGRESS", "CONSOLIDATIONDONE",
                "CONSOLIDATIONINDEXED", "CONSOLIDATIONEFFECTIVE", "CONSOLIDATIONCANCELLING",
                "CONSOLIDATIONRETRYING", "CONSOLIDATIONFORCERETRYING", "ABORTED"} :
            s \in ConsolidationState
  BY DEF ConsolidationState, SharedState
<1>2. /\ StepOf("NEW") = "publishJobCreated"
      /\ StepOf("CREATED") = "csldPrepareOrders"
      /\ StepOf("CONSOLIDATIONINPROGRESS") = "csldSendOrders"
      /\ StepOf("CONSOLIDATIONDONE") = "csldIndex"
      /\ StepOf("CONSOLIDATIONINDEXED") = "csldSwapDatasets"
      /\ StepOf("CONSOLIDATIONEFFECTIVE") = "csldDeleteDatasets"
      /\ StepOf("CONSOLIDATIONCANCELLING") = "csldCancel"
      /\ StepOf("CONSOLIDATIONRETRYING") = "csldConsolidationRetry"
      /\ StepOf("CONSOLIDATIONFORCERETRYING") = "csldConsolidationForceRetry"
      /\ StepOf("ABORTED") = "csldRollback"
  BY DEF StepOf
<1>3. \A s \in ConsolidationState \cup {Absent} : StepOf(s) \in Step \cup {"idle"}
  <2>1. StepOf(Absent) = "idle"
    BY DEF StepOf, Absent
  <2>2. QED
    BY <2>1 DEF Step
<1>4. QED
  BY <1>1, <1>2, <1>3 DEF Step

(* Queues are counters: a message more, a message less, a message that moves. *)
LEMMA CounterTypes ==
    ASSUME NEW D, NEW q \in [D -> Nat], NEW x \in D
    PROVE  /\ [q EXCEPT ![x] = @ + 1] \in [D -> Nat]
           /\ q[x] > 0 => [q EXCEPT ![x] = @ - 1] \in [D -> Nat]
  OBVIOUS

(* What the handler h turns to when the event e brings the job to j. *)
Entry(s, e) == [pc |-> Entered(s), fresh |-> TRUE, msg |-> e]
TurnsTo(h, e, j) ==
    \E y : /\ handler' = [Stale EXCEPT ![h] = y]
           /\ y = Idle \/ (Entered(j.state) # "idle" /\ y = Entry(j.state, e))

(* A received event is acknowledged, or its job enters the state it triggers. *)
LEMMA Received ==
    ASSUME NEW h, NEW e, Receive(h, e)
    PROVE  \/ UNCHANGED <<job, handler>>
           \/ \E j \in Triggered(e) :
                /\ job' = [job EXCEPT !.state = j.state, !.waiting = j.waiting]
                /\ TurnsTo(h, e, j)
<1>1. CASE UNCHANGED <<job, handler>>
  BY <1>1
<1> DEFINE entry(n) == IF n.waiting \/ n.step = "idle" THEN Idle
                       ELSE [pc |-> n.step, fresh |-> TRUE, msg |-> e]
<1>2. ASSUME NEW n \in Reached(e),
             job' = [job EXCEPT !.state = n.state, !.waiting = n.waiting],
             handler' = [Stale EXCEPT ![h] = entry(n)]
      PROVE  \E j \in Triggered(e) :
                /\ job' = [job EXCEPT !.state = j.state, !.waiting = j.waiting]
                /\ TurnsTo(h, e, j)
  <2>1. PICK j \in Triggered(e) :
             n = [state |-> j.state, waiting |-> j.waiting, step |-> Entered(j.state)]
    BY DEF Reached
  <2>2. n.state = j.state /\ n.waiting = j.waiting /\ n.step = Entered(j.state)
    BY <2>1
  <2>3. entry(n) = Idle \/ (Entered(j.state) # "idle" /\ entry(n) = Entry(j.state, e))
    BY <2>2 DEF Entry
  <2> HIDE DEF entry
  <2>4. TurnsTo(h, e, j)
    BY <1>2, <2>3 DEF TurnsTo
  <2>5. QED
    BY <1>2, <2>2, <2>4
<1>3. \/ UNCHANGED <<job, handler>>
      \/ \E n \in Reached(e) : /\ job' = [job EXCEPT !.state = n.state, !.waiting = n.waiting]
                               /\ handler' = [Stale EXCEPT ![h] = entry(n)]
  BY DEF Receive, Handle
<1> HIDE DEF entry
<1>4. QED
  BY <1>1, <1>2, <1>3

(* The copies of a job that was saved by another handler.                    *)
LEMMA StaleTypes ==
    ASSUME TypeOK
    PROVE  Stale \in HandlerType
  BY DEF TypeOK, HandlerType, Stale

(* Whatever a handler does with its copy and those of the others. *)
LEMMA HandlerTypes ==
    ASSUME TypeOK, NEW h \in Handler, NEW pc \in Step \cup {"idle"}
    PROVE  /\ [Stale EXCEPT ![h] = Idle] \in HandlerType
           /\ [handler EXCEPT ![h] = Idle] \in HandlerType
           /\ [Stale EXCEPT ![h] = [handler[h] EXCEPT !.pc = pc]] \in HandlerType
           /\ [handler EXCEPT ![h].pc = pc] \in HandlerType
<1> DEFINE One == [pc : Step \cup {"idle"}, fresh : BOOLEAN, msg : JobEvent \cup {Absent}]
<1>1. Idle \in One
  BY DEF Idle
<1>2. handler \in [Handler -> One] /\ handler[h] \in One
  BY DEF TypeOK
<1>4. Stale \in [Handler -> One]
  BY StaleTypes DEF HandlerType
<1>5. [handler[h] EXCEPT !.pc = pc] \in One
  BY <1>2
<1>6. [handler EXCEPT ![h].pc = pc] \in [Handler -> One]
  BY <1>2, <1>5
<1> HIDE DEF One
<1>7. \A f \in [Handler -> One], x \in One : [f EXCEPT ![h] = x] \in [Handler -> One]
  OBVIOUS
<1>8. QED
  BY <1>1, <1>2, <1>4, <1>5, <1>6, <1>7 DEF HandlerType, One

(* Publishing an event (publishEvent).                                       *)
LEMMA PutTypes ==
    ASSUME TypeOK, NEW e, Put(e)
    PROVE  jobEvents' \in [JobEvent -> Nat]
<1>1. jobEvents \in [JobEvent -> Nat] /\ jobEvents' = [jobEvents EXCEPT ![e] = @ + 1]
  BY DEF TypeOK, Put
<1>2. CASE e \in JobEvent
  BY <1>1, <1>2
<1>3. CASE e \notin JobEvent
  <2>1. jobEvents' = jobEvents
    BY <1>1, <1>3
  <2>2. QED
    BY <1>1, <2>1
<1>4. QED
  BY <1>2, <1>3

(* Publishing an event, or failing to.                                       *)
LEMMA EmitTypes ==
    ASSUME TypeOK, NEW h \in Handler, NEW e, Emit(h, e)
    PROVE  jobEvents' \in [JobEvent -> Nat] /\ faults' \in Nat
  BY PutTypes DEF Emit, TypeOK, Fault, NoFault

(* The state a job enters is a state of a consolidation (Trigger). *)
LEMMA TriggeredTypes ==
    ASSUME TypeOK, NEW e, NEW j \in Triggered(e)
    PROVE  j.state \in ConsolidationState \cup {Absent} /\ j.waiting \in BOOLEAN
<1>1. \A ed \in ConsolidationEdges : ed[3] \in ConsolidationState
  BY DEF ConsolidationEdges, SharedEdges, Edges, ConsolidationState, SharedState
<1>2. "ABORTED" \in ConsolidationState
  BY DEF ConsolidationState, SharedState
<1>3. \A s : Waits(Level, s) \in BOOLEAN
  BY DEF Waits
<1>4. job.state \in ConsolidationState \cup {Absent} /\ job.waiting \in BOOLEAN
  BY DEF TypeOK
<1>5. \/ j = [state |-> job.state, waiting |-> FALSE]
      \/ j = [state |-> job.state, waiting |-> job.waiting]
      \/ \E s \in JobState : /\ j = Entering(Level, s)
                             /\ <<job.state, e, s>> \in ConsolidationEdges \/ s = "ABORTED"
  BY Zenon DEF Triggered, Trigger
<1>6. ASSUME NEW s \in JobState, j = Entering(Level, s),
             <<job.state, e, s>> \in ConsolidationEdges \/ s = "ABORTED"
      PROVE  j.state \in ConsolidationState \cup {Absent} /\ j.waiting \in BOOLEAN
  BY <1>1, <1>2, <1>3, <1>6 DEF Entering
<1>7. CASE j = [state |-> job.state, waiting |-> FALSE]
  BY <1>4, <1>7
<1>8. CASE j = [state |-> job.state, waiting |-> job.waiting]
  <2>1. j.state = job.state /\ j.waiting = job.waiting
    BY Zenon, <1>8
  <2>2. QED
    BY Zenon, <1>4, <2>1
<1>9. QED
  BY Zenon, <1>5, <1>6, <1>7, <1>8

(* Every step keeps the types and the counters: one step of proof by action. *)
LEMMA TypedStep ==
    ASSUME Typed, [Next]_vars
    PROVE  Typed'
<1> USE DEF Typed
<1>h. /\ job \in [state : ConsolidationState \cup {Absent}, waiting : BOOLEAN,
                  active : Nat, failed : Nat]
      /\ handler \in HandlerType
  BY DEF TypeOK, HandlerType
<1>m. \A M, N \in SUBSET Task, s \in {"NEW", "PENDING", Absent, "DONE", "FAILED", "CANCELLED"} :
          M \cup N \subseteq Task /\ s \in TaskState \cup {Absent}
  BY DEF TaskState, Absent
<1>t. \A S : Tasks(S) \subseteq Task
  BY DEF Tasks
<1>c. ASSUME UNCHANGED <<job, task>>
      PROVE  CountersMatch'
  BY <1>c DEF CountersMatch, Tasks
<1>1. CASE csldInit
  <2>1. /\ job' \in [state : ConsolidationState \cup {Absent}, waiting : BOOLEAN,
                     active : Nat, failed : Nat]
        /\ job'.active = job.active /\ job'.failed = job.failed
    BY <1>1, <1>h DEF csldInit, ConsolidationState, SharedState
  <2>2. CountersMatch'
    BY <1>1, <2>1 DEF csldInit, CountersMatch, Tasks
  <2>3. jobEvents' \in [JobEvent -> Nat] /\ faults' \in Nat
    BY <1>1, PutTypes DEF csldInit, Fault, NoFault, TypeOK
  <2>4. QED
    BY <1>1, <2>1, <2>2, <2>3 DEF csldInit, TypeOK, storage, Absent
<1>2. ASSUME NEW c \in Commands, Command(c)
      PROVE  Typed'
  BY <1>2, <1>c, PutTypes DEF Command, Send, TypeOK, database, storage
<1>3. ASSUME NEW h \in Handler, NEW e \in JobEvent, Receive(h, e)
      PROVE  Typed'
  <2>1. /\ jobEvents' = [jobEvents EXCEPT ![e] = @ - 1] /\ jobEvents[e] > 0
        /\ UNCHANGED <<plan, collapse, task, status, lock, output, deletion, storage, taskEvents, orders,
                       commands, faults>>
    BY <1>3 DEF Receive, Handle, Reached, Entered
  <2>2. jobEvents' \in [JobEvent -> Nat]
    BY <2>1 DEF TypeOK
  <2>3. CASE UNCHANGED <<job, handler>>
    BY <1>c, <2>1, <2>2, <2>3 DEF TypeOK, storage
  <2>4. ASSUME NEW j \in Triggered(e),
               job' = [job EXCEPT !.state = j.state, !.waiting = j.waiting],
               TurnsTo(h, e, j)
        PROVE  Typed'
    <3>1. j.state \in ConsolidationState \cup {Absent} /\ j.waiting \in BOOLEAN
      BY TriggeredTypes
    <3>2. /\ job' \in [state : ConsolidationState \cup {Absent}, waiting : BOOLEAN,
                       active : Nat, failed : Nat]
          /\ job'.active = job.active /\ job'.failed = job.failed
      BY <1>h, <2>4, <3>1
    <3>3. Entry(j.state, e) \in [pc : Step \cup {"idle"}, fresh : BOOLEAN, msg : JobEvent \cup {Absent}]
      BY <3>1, StepNames DEF Entered, Entry
    <3>4. Idle \in [pc : Step \cup {"idle"}, fresh : BOOLEAN, msg : JobEvent \cup {Absent}]
      BY DEF Idle
    <3>5. handler' \in HandlerType
      BY <2>4, <3>3, <3>4, StaleTypes DEF HandlerType, TurnsTo
    <3>6. CountersMatch'
      BY <2>1, <3>2 DEF CountersMatch, Tasks
    <3>7. QED
      BY <2>1, <2>2, <3>2, <3>5, <3>6 DEF TypeOK, HandlerType, storage
  <2>5. QED
    BY <1>3, <2>3, <2>4, Received
<1>4. ASSUME NEW h \in Handler, Crash(h) \/ StepFails(h) \/ publishJobCreated(h)
                                \/ indexDone(h) \/ nothingToCancel(h)
      PROVE  Typed'
  <2>1. jobEvents' \in [JobEvent -> Nat] /\ faults' \in Nat
    BY <1>4, PutTypes, EmitTypes
       DEF Crash, Stop, StepFails, Fails, publishJobCreated, indexDone, nothingToCancel, JustEmit, Fault, TypeOK
  <2>2. handler' \in HandlerType
    BY <1>4, HandlerTypes
       DEF Crash, Stop, StepFails, Fails, publishJobCreated, indexDone, nothingToCancel, JustEmit
  <2>3. UNCHANGED <<database, storage, taskEvents, orders, commands>>
    BY <1>4 DEF Crash, Stop, StepFails, Fails, publishJobCreated, indexDone, nothingToCancel
  <2>4. QED
    BY <2>1, <2>2, <2>3, <1>c DEF TypeOK, HandlerType, database, storage
<1>5. ASSUME NEW h \in Handler, csldPrepareOrders(h)
      PROVE  Typed'
  <2>1. plan \subseteq Task
    BY DEF TypeOK
  <2>2. /\ handler' \in HandlerType
        /\ jobEvents' \in [JobEvent -> Nat] /\ faults' \in Nat
    BY <1>5, HandlerTypes, EmitTypes DEF csldPrepareOrders, SaveAndEmit
  <2>3. lock' \in [Source -> {Absent, "INIT", "TODELETE", "deletion"}]
    BY <1>5 DEF csldPrepareOrders, TypeOK
  <2>4. SetTasks(plan, "NEW")
    BY <1>5 DEF csldPrepareOrders
  <2>5. QED
    BY <1>5, <1>m, <2>1, <2>2, <2>3, <2>4, SetTasksCounts
       DEF csldPrepareOrders, TypeOK, HandlerType, storage
<1>6. ASSUME NEW h \in Handler, csldSendOrders(h)
      PROVE  Typed'
  <2>1. handler' \in HandlerType
    BY <1>6, HandlerTypes DEF csldSendOrders
  <2>2. jobEvents' \in [JobEvent -> Nat] /\ faults' \in Nat
    BY <1>6, PutTypes DEF csldSendOrders, Fault, NoFault, TypeOK
  <2>3. orders' \in [Task \X Progress -> Nat]
    BY <1>6 DEF csldSendOrders, TypeOK
  <2>4. SetTasks(Tasks({"NEW"}), "PENDING")
    BY <1>6 DEF csldSendOrders
  <2>5. UNCHANGED <<plan, collapse, status, lock, output, deletion, storage, taskEvents, commands>>
    BY <1>6 DEF csldSendOrders
  <2>6. QED
    BY <1>m, <1>t, <2>1, <2>2, <2>3, <2>4, <2>5, SetTasksCounts
       DEF TypeOK, HandlerType, storage
<1>7. ASSUME NEW h \in Handler, NEW t \in Task, indexTask(h, t)
      PROVE  Typed'
  <2>1. handler' \in HandlerType
    BY <1>7, HandlerTypes, StepNames DEF indexTask, Goto
  <2>2. SetTasks({t}, Absent) /\ {t} \subseteq Task
    BY <1>7 DEF indexTask
  <2>3. output' \in [Task -> {Absent, "INACTIVE", "ACTIVE"}]
    BY <1>7 DEF indexTask, TypeOK
  <2>4. QED
    BY <1>7, <2>1, <2>2, <2>3, SetTasksCounts
       DEF indexTask, TypeOK, HandlerType, storage, queues
<1>8. ASSUME NEW h \in Handler, csldSwapDatasets(h)
      PROVE  Typed'
  <2>1. /\ handler' \in HandlerType
        /\ jobEvents' \in [JobEvent -> Nat] /\ faults' \in Nat
    BY <1>8, HandlerTypes, EmitTypes DEF csldSwapDatasets, SaveAndEmit
  <2>2. /\ status' \in [Source -> {"ACTIVE", "TODELETE"}]
        /\ lock' \in [Source -> {Absent, "INIT", "TODELETE", "deletion"}]
        /\ output' \in [Task -> {Absent, "INACTIVE", "ACTIVE"}]
    BY <1>8 DEF csldSwapDatasets, TypeOK
  <2>3. QED
    BY <1>8, <1>c, <2>1, <2>2 DEF csldSwapDatasets, TypeOK, HandlerType, storage
<1>9. ASSUME NEW h \in Handler, csldDeleteDatasets(h)
      PROVE  Typed'
  <2>1. handler' \in HandlerType /\ jobEvents' \in [JobEvent -> Nat] /\ faults' \in Nat
    <3>1. handler' \in HandlerType
      BY <1>9, HandlerTypes DEF csldDeleteDatasets, JustEmit
    <3>2. \/ Emit(h, "DeletionStarted")
          \/ Fault /\ Put("StartDeletionFailed")
          \/ Fault /\ Put(handler[h].msg)
      BY <1>9 DEF csldDeleteDatasets, JustEmit
    <3>3. QED
      BY <3>1, <3>2, EmitTypes, PutTypes DEF Fault, TypeOK
  <2>2. /\ lock' \in [Source -> {Absent, "INIT", "TODELETE", "deletion"}]
        /\ deletion' \in {Absent, "NEW", "started"}
    BY <1>9 DEF csldDeleteDatasets, TypeOK
  <2>3. UNCHANGED <<job, plan, collapse, task, status, output, storage, taskEvents, orders, commands>>
    BY <1>9 DEF csldDeleteDatasets
  <2>4. QED
    BY <1>c, <2>1, <2>2, <2>3 DEF TypeOK, HandlerType, storage
<1>10. ASSUME NEW h \in Handler, csldCancel(h)
       PROVE  Typed'
  <2>1. handler' \in HandlerType
    BY <1>10, HandlerTypes, StepNames DEF csldCancel
  <2>2. cancelFile' \subseteq Task
    BY <1>10, <1>t DEF csldCancel, TypeOK
  <2>3. UNCHANGED <<database, file, queues, commands, faults>>
    BY <1>10 DEF csldCancel
  <2>4. QED
    BY <1>c, <2>1, <2>2, <2>3 DEF TypeOK, HandlerType, database, queues
<1>11. ASSUME NEW h \in Handler, saveCancellation(h)
       PROVE  Typed'
  <2>1. /\ handler' \in HandlerType
        /\ jobEvents' \in [JobEvent -> Nat] /\ faults' \in Nat
    BY <1>11, HandlerTypes, EmitTypes DEF saveCancellation, SaveAndEmit
  <2>2. QED
    BY <1>11, <1>c, <2>1 DEF saveCancellation, TypeOK, HandlerType, database, storage
<1>12. ASSUME NEW h \in Handler, csldConsolidationRetry(h) \/ csldConsolidationForceRetry(h)
       PROVE  Typed'
  <2>1. /\ handler' \in HandlerType
        /\ jobEvents' \in [JobEvent -> Nat] /\ faults' \in Nat
    BY <1>12, HandlerTypes, EmitTypes
       DEF csldConsolidationRetry, csldConsolidationForceRetry, SaveAndEmit
  <2>2. PICK S : SetTasks(Tasks(S), "NEW")
    BY <1>12 DEF csldConsolidationRetry, csldConsolidationForceRetry
  <2>3. UNCHANGED <<plan, collapse, status, lock, output, deletion, storage, taskEvents, orders, commands>>
    BY <1>12 DEF csldConsolidationRetry, csldConsolidationForceRetry
  <2>4. QED
    BY <1>m, <1>t, <2>1, <2>2, <2>3, SetTasksCounts DEF TypeOK, HandlerType, storage
<1>13. ASSUME NEW h \in Handler, csldRollback(h)
       PROVE  Typed'
  <2>1. handler' \in HandlerType
    BY <1>13, HandlerTypes, StepNames DEF csldRollback, Goto
  <2>2. output' \in [Task -> {Absent, "INACTIVE", "ACTIVE"}]
    BY <1>13 DEF csldRollback, TypeOK
  <2>3. file' \subseteq Task /\ faults' \in Nat
    BY <1>13 DEF csldRollback, TypeOK, Fault, NoFault
  <2>4. UNCHANGED <<job, plan, collapse, task, status, lock, deletion, cancelFile, queues, commands>>
    BY <1>13 DEF csldRollback
  <2>5. QED
    BY <1>c, <2>1, <2>2, <2>3, <2>4 DEF TypeOK, HandlerType, queues
<1>14. ASSUME NEW h \in Handler, NEW t \in Task, deletePendingContainer(h, t)
       PROVE  Typed'
  <2>1. file' \subseteq Task
    BY <1>14 DEF deletePendingContainer, TypeOK
  <2>2. UNCHANGED <<plan, collapse, status, lock, output, deletion, cancelFile, taskEvents, orders, commands>>
    BY <1>14 DEF deletePendingContainer
  <2>3. CASE SetTasks({t}, "CANCELLED") /\ Goto(h, "deletePendingContainers")
             /\ UNCHANGED <<jobEvents, faults>>
    <3>1. handler' \in HandlerType
      BY <2>3, HandlerTypes, StepNames DEF Goto
    <3>2. {t} \subseteq Task
      OBVIOUS
    <3>3. QED
      BY <1>m, <2>1, <2>2, <2>3, <3>1, <3>2, SetTasksCounts DEF TypeOK, HandlerType
  <2>4. CASE UNCHANGED <<task, job>> /\ JustEmit(h, "RollbackFailed")
    <3>1. /\ handler' \in HandlerType
          /\ jobEvents' \in [JobEvent -> Nat] /\ faults' \in Nat
      BY <2>4, HandlerTypes, EmitTypes DEF JustEmit
    <3>2. QED
      BY <1>c, <2>1, <2>2, <2>4, <3>1 DEF TypeOK, HandlerType
  <2>5. QED
    BY <1>14, <2>3, <2>4 DEF deletePendingContainer
<1>15. ASSUME NEW h \in Handler, rollbackDone(h)
       PROVE  Typed'
  <2>1. /\ handler' \in HandlerType
        /\ jobEvents' \in [JobEvent -> Nat] /\ faults' \in Nat
    BY <1>15, HandlerTypes, EmitTypes DEF rollbackDone, SaveAndEmit
  <2>2. lock' \in [Source -> {Absent, "INIT", "TODELETE", "deletion"}]
    BY <1>15 DEF rollbackDone, TypeOK
  <2>3. SetTasks(Task, Absent)
    BY <1>15 DEF rollbackDone
  <2>4. QED
    BY <1>15, <2>1, <2>2, <2>3, SetTasksCounts DEF rollbackDone, TypeOK, HandlerType, storage
<1>16. ASSUME NEW t \in Task, NEW st \in TaskStatus, handleTaskEvt(t, st)
       PROVE  Typed'
  <2>1. taskEvents' \in [Task \X TaskStatus -> Nat]
    <3>1. taskEvents \in [Task \X TaskStatus -> Nat] /\ <<t, st>> \in Task \X TaskStatus
      BY DEF TypeOK
    <3>2. taskEvents[<<t, st>>] > 0
          /\ taskEvents' \in {taskEvents, [taskEvents EXCEPT ![<<t, st>>] = @ - 1]}
      BY <1>16 DEF handleTaskEvt
    <3>3. QED
      BY <3>1, <3>2, CounterTypes
  <2>2. UNCHANGED <<plan, collapse, status, lock, output, deletion, storage, orders, commands>>
    BY <1>16 DEF handleTaskEvt
  <2>3. CASE UNCHANGED <<job, task, handler, jobEvents, faults>>
    BY <1>c, <2>1, <2>2, <2>3 DEF TypeOK, storage
  <2>4. CASE /\ SetTasks(IF Ignored(t, st) THEN {} ELSE {t}, StateOf(st))
             /\ handler' = Stale
             /\ \/ UNCHANGED <<jobEvents, faults>>
                \/ (\E e : Put(e)) /\ NoFault
                \/ Fault /\ UNCHANGED jobEvents
    <3>1. handler' \in HandlerType
      BY <2>4, StaleTypes
    <3>2. jobEvents' \in [JobEvent -> Nat] /\ faults' \in Nat
      BY <2>4, PutTypes DEF Fault, NoFault, TypeOK
    <3>3. StateOf(st) \in TaskState \cup {Absent}
      BY DEF StateOf, TaskState
    <3>4. (IF Ignored(t, st) THEN {} ELSE {t}) \subseteq Task
      OBVIOUS
    <3>5. QED
      BY <2>1, <2>2, <2>4, <3>1, <3>2, <3>3, <3>4, SetTasksCounts DEF TypeOK, HandlerType, storage
  <2>5. QED
    BY <1>16, <2>3, <2>4 DEF handleTaskEvt
<1>17. ASSUME NEW t \in Task, WorkerStep(t) \/ workerCrashes(t)
       PROVE  Typed'
  <2>1. orders' \in [Task \X Progress -> Nat]
    <3>1. /\ orders \in [Task \X Progress -> Nat]
          /\ \A p \in Progress : <<t, p>> \in Task \X Progress
      BY DEF TypeOK
    <3>2. \E from \in Progress : \/ Finish(t, from)
                               \/ \E to \in Progress : from # to /\ Advance(t, from, to)
      BY <1>17 DEF WorkerStep, workerCrashes, workerChecks, workerCancelled, workerUploads,
                   workerReports, workerFails, Progress
    <3>3. ASSUME NEW from \in Progress, Finish(t, from)
          PROVE  orders' \in [Task \X Progress -> Nat]
      BY <3>1, <3>3, CounterTypes DEF Finish
    <3>4. ASSUME NEW from \in Progress, NEW to \in Progress, from # to, Advance(t, from, to)
          PROVE  orders' \in [Task \X Progress -> Nat]
      <4> DEFINE left == [orders EXCEPT ![<<t, from>>] = @ - 1]
      <4>1. left \in [Task \X Progress -> Nat]
        BY <3>1, <3>4, CounterTypes DEF Advance
      <4>2. orders' = [left EXCEPT ![<<t, to>>] = @ + 1]
        BY <3>4 DEF Advance
      <4> HIDE DEF left
      <4>3. QED
        BY <3>1, <4>1, <4>2, CounterTypes
    <3>5. QED
      BY <3>2, <3>3, <3>4
  <2>2. taskEvents' \in [Task \X TaskStatus -> Nat]
    <3>1. /\ taskEvents \in [Task \X TaskStatus -> Nat]
          /\ \A st \in TaskStatus : <<t, st>> \in Task \X TaskStatus
      BY DEF TypeOK
    <3>2. taskEvents' = taskEvents \/ \E st \in TaskStatus : Report(t, st)
      BY <1>17 DEF WorkerStep, workerCrashes, workerChecks, workerCancelled, workerUploads,
                   workerReports, workerFails, TaskStatus
    <3>3. ASSUME NEW st \in TaskStatus, Report(t, st)
          PROVE  taskEvents' \in [Task \X TaskStatus -> Nat]
      BY <3>1, <3>3, CounterTypes DEF Report
    <3>4. QED
      BY <3>1, <3>2, <3>3
  <2>3. file' \subseteq Task
    BY <1>17 DEF WorkerStep, workerCrashes, workerChecks, workerCancelled, workerUploads,
                 workerReports, workerFails, storage, TypeOK
  <2>4. faults' \in Nat
    BY <1>17 DEF WorkerStep, workerCrashes, workerChecks, workerCancelled, workerUploads,
                 workerReports, workerFails, Fault, TypeOK
  <2>5. UNCHANGED <<database, cancelFile, jobEvents, handler, commands>>
    BY <1>17 DEF WorkerStep, workerCrashes, workerChecks, workerCancelled, workerUploads,
                 workerReports, workerFails, storage
  <2>6. QED
    BY <1>c, <2>1, <2>2, <2>3, <2>4, <2>5 DEF TypeOK, database
<1>18. ASSUME NEW e \in JobEvent, duplicateJobEvent(e)
       PROVE  Typed'
  BY <1>18, <1>c, PutTypes DEF duplicateJobEvent, Fault, TypeOK, database, storage
<1>19. ASSUME NEW t \in Task, NEW st \in TaskStatus, duplicateTaskEvent(t, st)
       PROVE  Typed'
  <2>1. taskEvents \in [Task \X TaskStatus -> Nat] /\ <<t, st>> \in Task \X TaskStatus
    BY DEF TypeOK
  <2>2. taskEvents' \in [Task \X TaskStatus -> Nat]
    BY <1>19, <2>1, CounterTypes DEF duplicateTaskEvent, Report
  <2>3. QED
    BY <1>19, <1>c, <2>2 DEF duplicateTaskEvent, Fault, TypeOK, database, storage
<1>20. CASE UNCHANGED vars
  BY <1>20, <1>c DEF vars, TypeOK, database, storage, queues
<1>21. QED
  BY <1>1, <1>2, <1>3, <1>4, <1>5, <1>6, <1>7, <1>8, <1>9, <1>10, <1>11, <1>12, <1>13, <1>14,
     <1>15, <1>16, <1>17, <1>18, <1>19, <1>20 DEF Next, HandlerStep

(* Before the job is submitted.                                              *)
LEMMA TypedInit ==
    ASSUME Init
    PROVE  Typed
<1>1. TypeOK
  BY DEF Init, TypeOK, Idle, Absent
<1>2. \A S : "none" \notin S => Tasks(S) = {}
  BY DEF Init, Tasks, Absent
<1>3. Tasks(ActiveTask) = {} /\ Tasks({"FAILED"}) = {}
  BY <1>2 DEF ActiveTask
<1>4. CountersMatch
  BY <1>3, FS_EmptySet DEF Init, CountersMatch
<1>5. QED
  BY <1>1, <1>4 DEF Typed

(* The types hold and the counters of the job are those of its tasks, in any *)
(* execution (setTaskState, updateTaskCounters).                             *)
THEOREM TypeCorrect == Spec => [](TypeOK /\ CountersMatch)
<1>1. Init => Typed
  BY TypedInit
<1>2. Typed /\ [Next]_vars => Typed'
  BY TypedStep
<1>3. QED
  BY <1>1, <1>2, PTL DEF Spec, Typed
-----------------------------------------------------------------------------
(* The inductive invariant.  What a job event says stays true while it is in *)
(* the queue, delayed or duplicated, until the job is aborted for good.      *)

Over == {"ABORTED", "ROLLBACKFAILED", "FAILED"}
Aborted == job.state \in Over
Effective == {"CONSOLIDATIONEFFECTIVE", "DONE", "DONEBUTUNTIDY"}

(* The event is in the queue, or will be delivered again if a server stops. *)
Heard(e) == jobEvents[e] > 0 \/ \E h \in Handler : handler[h].msg = e

Started(t) == task[t] # Absent \/ output[t] # Absent

Prepared == \A t \in plan : Started(t)
Complete == \A t \in plan : task[t] = "DONE" \/ output[t] # Absent
Indexed == \A t \in plan : output[t] # Absent
Swapped == \A t \in plan : output[t] = "ACTIVE"

(* The tasks are those of the plan, and their datasets are taken. *)
PlanInv ==
    /\ \A t \in Task : Started(t) => t \in plan /\ \A s \in Inputs[t] : lock[s] # "INIT"
    /\ job.state = Absent => \A t \in Task : ~Started(t)

(* A handler whose copy is fresh runs the step of the state of the job. *)
FreshInv ==
    \A h \in Handler : handler[h].fresh =>
        /\ handler[h].pc # "idle"
        /\ \/ handler[h].pc = StepOf(job.state)
           \/ /\ handler[h].pc \in {"nothingToCancel", "saveCancellation"}
              /\ job.state = "CONSOLIDATIONCANCELLING"
           \/ /\ handler[h].pc = "deletePendingContainers"
              /\ job.state = "ABORTED"
              /\ \A t \in Task : output[t] # "INACTIVE"

(* What the events, the states and the steps mean. *)
PreparedInv == (\E t \in Task : Started(t)) => Aborted \/ Prepared

PreparedHeard ==
    \/ Heard("OrdersPrepared")
    \/ job.state \in {"CONSOLIDATIONINPROGRESS", "CONSOLIDATIONFAILED",
                      "CONSOLIDATIONRETRYING", "CONSOLIDATIONFORCERETRYING"}
    => Aborted \/ Prepared

CompleteHeard ==
    \/ Heard("ConsolidationDone")
    \/ job.state = "CONSOLIDATIONDONE"
    \/ \E h \in Handler : At(h, "csldIndex")
    => Aborted \/ Complete

IndexedHeard ==
    Heard("ConsolidationIndexed") \/ job.state = "CONSOLIDATIONINDEXED" => Aborted \/ Indexed

SwappedHeard == Heard("DatasetsSwapped") \/ job.state \in Effective => Swapped

RolledBackHeard == Heard("RollbackDone") => Aborted /\ RolledBack

CancelledInv == (\E t \in Task : task[t] = "CANCELLED") => Aborted

CatalogueInv ==
    /\ Typed
    /\ PlanInv /\ IndexedOnce /\ InputsStayLocked /\ FreshInv /\ CancelledInv
    /\ PreparedInv /\ PreparedHeard /\ CompleteHeard /\ IndexedHeard /\ SwappedHeard
    /\ RolledBackHeard
    /\ NothingLost /\ ServedOnce

(* Cancelled for good: no way back to the construction of the containers. *)
Cancelling == {"CONSOLIDATIONCANCELLING", "CANCELLATIONFAILED"} \cup Over

-----------------------------------------------------------------------------
(* What a step may do: emit an event, move the job, change the catalogue. *)

(* The state of the job in which a fresh handler runs a step. *)
LEMMA FreshStates ==
    ASSUME FreshInv, NEW h \in Handler, handler[h].fresh
    PROVE  /\ At(h, "csldPrepareOrders") => job.state = "CREATED"
           /\ At(h, "csldSendOrders") => job.state = "CONSOLIDATIONINPROGRESS"
           /\ At(h, "csldIndex") => job.state = "CONSOLIDATIONDONE"
           /\ At(h, "csldSwapDatasets") => job.state = "CONSOLIDATIONINDEXED"
           /\ At(h, "csldDeleteDatasets") => job.state = "CONSOLIDATIONEFFECTIVE"
           /\ At(h, "csldCancel") => job.state = "CONSOLIDATIONCANCELLING"
           /\ At(h, "csldConsolidationRetry") => job.state = "CONSOLIDATIONRETRYING"
           /\ At(h, "csldConsolidationForceRetry") => job.state = "CONSOLIDATIONFORCERETRYING"
           /\ At(h, "csldRollback") => job.state = "ABORTED"
           /\ At(h, "deletePendingContainers") =>
                  job.state = "ABORTED" /\ \A t \in Task : output[t] # "INACTIVE"
           /\ job.state # Absent
  BY DEF FreshInv, At, StepOf, Absent

(* Putting an event in the queue. *)
LEMMA PutHeard ==
    ASSUME TypeOK, NEW x, Put(x), NEW e \in JobEvent, jobEvents'[e] > 0, e # x
    PROVE  jobEvents[e] > 0
  BY DEF TypeOK, Put

(* Once h has emitted x, the events heard are x and those heard before. *)
LEMMA EmitHeard ==
    ASSUME TypeOK, NEW h \in Handler, NEW x, Emit(h, x),
           \A g \in Handler : handler'[g].msg \in {handler[g].msg, Absent},
           NEW e \in JobEvent, Heard(e)', e # x
    PROVE  Heard(e)
<1>1. e # Absent
  BY DEF JobEvent, UserEvent, ConsolidationEvent, DeletionEvent, Absent
<1>2. CASE jobEvents'[e] > 0
  BY <1>2, PutHeard DEF Emit, Heard
<1>3. CASE \E g \in Handler : handler'[g].msg = e
  BY <1>1, <1>3 DEF Heard
<1>4. QED
  BY <1>2, <1>3 DEF Heard

(* The handlers keep their message or drop it. *)
LEMMA KeptMessages ==
    ASSUME TypeOK, NEW h \in Handler,
           \/ handler' = Stale
           \/ handler' = handler
           \/ handler' = [Stale EXCEPT ![h] = Idle]
           \/ handler' = [handler EXCEPT ![h] = Idle]
           \/ \E pc : handler' = [Stale EXCEPT ![h] = [handler[h] EXCEPT !.pc = pc]]
           \/ \E pc : handler' = [handler EXCEPT ![h].pc = pc]
    PROVE  \A g \in Handler : handler'[g].msg \in {handler[g].msg, Absent}
<1> SUFFICES ASSUME NEW g \in Handler
             PROVE  handler'[g].msg \in {handler[g].msg, Absent}
  OBVIOUS
<1>1. handler \in HandlerType
  BY DEF TypeOK, HandlerType
<1>2. Stale \in HandlerType /\ Stale[g].msg = handler[g].msg /\ Idle.msg = Absent
  BY <1>1, StaleTypes DEF HandlerType, Stale, Idle
<1>3. CASE handler' = Stale \/ handler' = handler
  BY <1>2, <1>3
<1>4. CASE handler' = [Stale EXCEPT ![h] = Idle] \/ handler' = [handler EXCEPT ![h] = Idle]
  BY <1>1, <1>2, <1>4 DEF HandlerType
<1>5. ASSUME NEW pc, \/ handler' = [Stale EXCEPT ![h] = [handler[h] EXCEPT !.pc = pc]]
                     \/ handler' = [handler EXCEPT ![h].pc = pc]
      PROVE  handler'[g].msg \in {handler[g].msg, Absent}
  <2>1. [handler[h] EXCEPT !.pc = pc].msg = handler[h].msg
    BY <1>1 DEF HandlerType
  <2>2. QED
    BY <1>1, <1>2, <1>5, <2>1 DEF HandlerType
<1>6. QED
  BY <1>3, <1>4, <1>5

(* The events that say what was done. *)
Telling == {"OrdersPrepared", "ConsolidationDone", "ConsolidationIndexed", "DatasetsSwapped",
            "RollbackDone"}

(* They are sent by the step that did it, and by no other. *)
LEMMA Emitted ==
    ASSUME Typed, [Next]_vars, NEW e \in Telling, Heard(e)', ~Heard(e)
    PROVE  \/ /\ e = "OrdersPrepared"
              /\ \E h \in Handler : \/ csldPrepareOrders(h)
                                    \/ csldConsolidationRetry(h)
                                    \/ csldConsolidationForceRetry(h)
           \/ /\ e = "ConsolidationDone"
              /\ \/ AllTasksDone /\ \E h \in Handler : csldSendOrders(h)
                 \/ \E t \in Task, st \in TaskStatus :
                        handleTaskEvt(t, st) /\ Conclusion(job') = "ConsolidationDone"
                                             /\ task[t] # Absent /\ Accepted(t, st)
           \/ e = "ConsolidationIndexed" /\ \E h \in Handler : indexDone(h)
           \/ e = "DatasetsSwapped" /\ \E h \in Handler : csldSwapDatasets(h)
           \/ e = "RollbackDone" /\ \E h \in Handler : rollbackDone(h)
<1> USE DEF Typed
<1>e. e \in JobEvent /\ e \notin UserEvent /\ e # Absent
  BY DEF Telling, JobEvent, ConsolidationEvent, UserEvent, Absent
<1>n. ASSUME NEW h \in Handler, NEW x, Emit(h, x), x # e,
             \A g \in Handler : handler'[g].msg \in {handler[g].msg, Absent}
      PROVE  FALSE
  BY <1>n, <1>e, EmitHeard
<1>p. ASSUME NEW x, Put(x), x # e,
             \A g \in Handler : handler'[g].msg \in {handler[g].msg, Absent}
      PROVE  FALSE
  BY <1>p, <1>e, PutHeard DEF Heard
<1>q. ASSUME UNCHANGED jobEvents,
             \A g \in Handler : handler'[g].msg \in {handler[g].msg, Absent}
      PROVE  FALSE
  BY <1>q, <1>e DEF Heard
<1>k. \A h \in Handler : handler[h].msg # e
  BY DEF Heard
<1>s. \A pc : FailureOf(pc) # e
  BY DEF FailureOf, Telling
<1>1. CASE csldInit
  BY <1>1, <1>p, <1>q DEF csldInit, Telling
<1>2. ASSUME NEW c \in Commands, Command(c) PROVE FALSE
  BY <1>2, <1>e, <1>p, CommandsAssumption DEF Command, Send
<1>3. ASSUME NEW h \in Handler, NEW x \in JobEvent, Receive(h, x) PROVE FALSE
  <2>1. jobEvents' = [jobEvents EXCEPT ![x] = @ - 1] /\ jobEvents[x] > 0
    BY <1>3 DEF Receive, Handle, Reached, Entered
  <2>2. jobEvents'[e] > 0 => jobEvents[e] > 0
    BY <2>1, <1>e DEF TypeOK
  <2>3. x # e
    BY <2>1 DEF Heard
  <2>4. \A g \in Handler : handler'[g].msg \in {handler[g].msg, Absent, x}
    <3>1. handler \in HandlerType /\ Stale \in HandlerType /\ Idle.msg = Absent
          /\ \A g \in Handler : Stale[g].msg = handler[g].msg
      BY StaleTypes DEF TypeOK, HandlerType, Stale, Idle
    <3>2. \/ handler' = handler
          \/ \E y : /\ handler' = [Stale EXCEPT ![h] = y]
                    /\ y = Idle \/ y.msg = x
      <4>1. \A t : Entry(t, x).msg = x
        BY DEF Entry
      <4>2. CASE UNCHANGED <<job, handler>>
        BY <4>2
      <4>3. CASE \E j \in Triggered(x) : TurnsTo(h, x, j)
        BY <4>1, <4>3 DEF TurnsTo
      <4>4. QED
        BY <1>3, <4>2, <4>3, Received
    <3>3. QED
      BY <3>1, <3>2 DEF HandlerType
  <2>5. QED
    BY <2>2, <2>3, <2>4, <1>e DEF Heard
<1>4. ASSUME NEW h \in Handler, Crash(h) \/ StepFails(h) \/ publishJobCreated(h)
                                \/ nothingToCancel(h) \/ saveCancellation(h)
      PROVE  FALSE
  <2>1. handler' \in {[handler EXCEPT ![h] = Idle], [Stale EXCEPT ![h] = Idle]}
    BY <1>4 DEF Crash, Stop, StepFails, Fails, publishJobCreated, nothingToCancel, saveCancellation, JustEmit,
                SaveAndEmit
  <2>2. \/ Put(handler[h].msg) \/ Put(FailureOf(handler[h].pc))
        \/ \E x \in {"JobCreated", "CancellationDone", FailureOf(handler[h].pc)} : Emit(h, x)
    BY <1>4 DEF Crash, Stop, StepFails, Fails, publishJobCreated, nothingToCancel, saveCancellation, JustEmit,
                SaveAndEmit
  <2>3. \A x \in {"JobCreated", "CancellationDone", FailureOf(handler[h].pc)} : x # e
    BY <1>s DEF Telling
  <2>4. QED
    BY <2>1, <2>2, <2>3, <1>k, <1>n, <1>p, KeptMessages
<1>5. ASSUME NEW h \in Handler, NEW x, Emit(h, x),
             handler' \in {[handler EXCEPT ![h] = Idle], [Stale EXCEPT ![h] = Idle]}
      PROVE  x = e
  BY <1>5, <1>n, KeptMessages
<1>6. ASSUME NEW h \in Handler, csldSendOrders(h)
      PROVE  AllTasksDone /\ e = "ConsolidationDone"
  <2>1. handler' = [Stale EXCEPT ![h] = Idle]
    BY <1>6 DEF csldSendOrders
  <2>2. \/ AllTasksDone /\ Put("ConsolidationDone")
        \/ Put("SendOrdersFailed") \/ Put(handler[h].msg) \/ UNCHANGED jobEvents
    BY <1>6 DEF csldSendOrders
  <2>3. QED
    BY <2>1, <2>2, <1>k, <1>p, <1>q, KeptMessages DEF Telling
<1>7. ASSUME NEW h \in Handler, csldDeleteDatasets(h) PROVE FALSE
  <2>1. handler' \in {[handler EXCEPT ![h] = Idle], [Stale EXCEPT ![h] = Idle]}
    BY <1>7 DEF csldDeleteDatasets, JustEmit
  <2>2. \/ Emit(h, "DeletionStarted") \/ Put("StartDeletionFailed") \/ Put(handler[h].msg)
    BY <1>7 DEF csldDeleteDatasets, JustEmit
  <2>3. QED
    BY <2>1, <2>2, <1>k, <1>n, <1>p, KeptMessages DEF Telling
<1>8. ASSUME NEW h \in Handler, \/ \E t \in Task : indexTask(h, t)
                                \/ csldCancel(h) \/ csldRollback(h)
      PROVE  FALSE
  <2>1. UNCHANGED jobEvents
    BY <1>8 DEF indexTask, csldCancel, csldRollback, queues
  <2>2. \/ \E pc : handler' = [Stale EXCEPT ![h] = [handler[h] EXCEPT !.pc = pc]]
        \/ \E pc : handler' = [handler EXCEPT ![h].pc = pc]
    BY <1>8 DEF indexTask, csldCancel, csldRollback, Goto
  <2>3. QED
    BY <2>1, <2>2, <1>q, KeptMessages
<1>9. ASSUME NEW h \in Handler, NEW t \in Task, deletePendingContainer(h, t) PROVE FALSE
  <2>1. CASE Goto(h, "deletePendingContainers") /\ UNCHANGED jobEvents
    BY <2>1, <1>q, KeptMessages DEF Goto
  <2>2. CASE JustEmit(h, "RollbackFailed")
    BY <2>2, <1>n, KeptMessages DEF JustEmit, Telling
  <2>3. QED
    BY <1>9, <2>1, <2>2 DEF deletePendingContainer
<1>10. ASSUME NEW t \in Task, NEW st \in TaskStatus, handleTaskEvt(t, st)
       PROVE  e = "ConsolidationDone" /\ Conclusion(job') = "ConsolidationDone"
              /\ task[t] # Absent /\ Accepted(t, st)
  <2>1. \A g \in Handler : handler'[g].msg \in {handler[g].msg, Absent}
    <3>1. handler' \in {handler, Stale}
      BY <1>10 DEF handleTaskEvt
    <3>2. QED
      BY <3>1 DEF TypeOK, Stale
  <2>2. \/ UNCHANGED jobEvents
        \/ Put(Conclusion(job')) /\ task[t] # Absent /\ Accepted(t, st)
    BY <1>10 DEF handleTaskEvt
  <2>3. Conclusion(job') \in {Absent, "CancellationDone", "ConsolidationFailed",
                              "ConsolidationDone"}
    BY DEF Conclusion
  <2>4. QED
    BY <2>1, <2>2, <2>3, <1>e, <1>p, <1>q DEF Telling
<1>11. ASSUME NEW t \in Task, WorkerStep(t) \/ workerCrashes(t) PROVE FALSE
  <2>1. UNCHANGED <<jobEvents, handler>>
    BY <1>11 DEF WorkerStep, workerCrashes, workerChecks, workerCancelled, workerUploads,
                 workerReports, workerFails
  <2>2. QED
    BY <2>1, <1>q
<1>12. ASSUME NEW x \in JobEvent, duplicateJobEvent(x) PROVE FALSE
  <2>1. Put(x) /\ jobEvents[x] > 0 /\ UNCHANGED handler
    BY <1>12 DEF duplicateJobEvent
  <2>2. x # e
    BY <2>1 DEF Heard
  <2>3. QED
    BY <2>1, <2>2, <1>p
<1>13. ASSUME NEW t \in Task, NEW st \in TaskStatus, duplicateTaskEvent(t, st) PROVE FALSE
  BY <1>13, <1>q DEF duplicateTaskEvent
<1>14. CASE UNCHANGED vars
  BY <1>14, <1>q DEF vars, queues
<1>15. ASSUME NEW h \in Handler,
              \/ csldPrepareOrders(h) \/ csldConsolidationRetry(h)
              \/ csldConsolidationForceRetry(h)
       PROVE  e = "OrdersPrepared"
  BY <1>5, <1>15 DEF csldPrepareOrders, csldConsolidationRetry, csldConsolidationForceRetry,
                     SaveAndEmit
<1>16. ASSUME NEW h \in Handler, indexDone(h) PROVE e = "ConsolidationIndexed"
  BY <1>5, <1>16 DEF indexDone, JustEmit
<1>17. ASSUME NEW h \in Handler, csldSwapDatasets(h) PROVE e = "DatasetsSwapped"
  BY <1>5, <1>17 DEF csldSwapDatasets, SaveAndEmit
<1>18. ASSUME NEW h \in Handler, rollbackDone(h) PROVE e = "RollbackDone"
  BY <1>5, <1>18 DEF rollbackDone, SaveAndEmit
<1>19. QED
  BY <1>1, <1>2, <1>3, <1>4, <1>6, <1>7, <1>8, <1>9, <1>10, <1>11, <1>12, <1>13, <1>14, <1>15,
     <1>16, <1>17, <1>18 DEF Next, HandlerStep

(* What the transitions of the automaton require (triggerConsolidation). *)
LEMMA EdgeFacts ==
    ASSUME NEW from, NEW e, NEW to, <<from, e, to>> \in ConsolidationEdges
    PROVE  /\ from \in Over => to \in Over
           /\ from \in Cancelling => to \in Cancelling
           /\ to = "CONSOLIDATIONINPROGRESS" => e = "OrdersPrepared"
           /\ to = "CONSOLIDATIONFAILED" =>
                  from \in {"CONSOLIDATIONINPROGRESS", "CONSOLIDATIONDONE", "CONSOLIDATIONINDEXED",
                            "CONSOLIDATIONRETRYING", "CONSOLIDATIONFORCERETRYING"}
           /\ to \in {"CONSOLIDATIONRETRYING", "CONSOLIDATIONFORCERETRYING"} =>
                  from \in {"CONSOLIDATIONINPROGRESS", "CONSOLIDATIONFAILED"}
           /\ to = "CONSOLIDATIONDONE" => e = "ConsolidationDone"
           /\ to = "CONSOLIDATIONINDEXED" => e = "ConsolidationIndexed"
           /\ to \in Effective => e = "DatasetsSwapped" \/ from \in Effective
           /\ to = "FAILED" => from \in Over /\ (from = "ABORTED" => e = "RollbackDone")
           /\ to # Absent
  BY DEF ConsolidationEdges, SharedEdges, Edges, AnyRetry, AnyCancel, Over, Cancelling, Effective,
         Absent

(* The variables of the catalogue and of the tasks. *)
Quiet == UNCHANGED <<plan, collapse, task, status, lock, output>>

(* The job changes state when it is created or when it receives an event,    *)
(* along a transition or because a user aborts it while it waits.            *)
LEMMA Moved ==
    ASSUME Typed, [Next]_vars, job'.state # job.state
    PROVE  \/ csldInit
           \/ /\ Quiet
              /\ UNCHANGED <<storage, taskEvents, orders>>
              /\ \/ \E e \in JobEvent : /\ jobEvents[e] > 0
                                        /\ <<job.state, e, job'.state>> \in ConsolidationEdges
                 \/ job.state \in ConsolidationPause /\ job'.state = "ABORTED"
<1>1. ASSUME NEW h \in Handler, NEW e \in JobEvent, Receive(h, e)
      PROVE  /\ Quiet
             /\ UNCHANGED <<storage, taskEvents, orders>>
             /\ jobEvents[e] > 0
             /\ \/ <<job.state, e, job'.state>> \in ConsolidationEdges
                \/ job.state \in ConsolidationPause /\ job'.state = "ABORTED"
  <2>1. PICK j \in Triggered(e) : job' = [job EXCEPT !.state = j.state, !.waiting = j.waiting]
    BY <1>1, Received
  <2>2. job'.state = j.state
    BY <2>1 DEF Typed, TypeOK
  <2>3. \E s : /\ j.state = s
               /\ \/ <<job.state, e, s>> \in ConsolidationEdges
                  \/ s = "ABORTED" /\ job.state \in ConsolidationPause
    BY <2>2 DEF Triggered, Trigger, Entering
  <2>4. QED
    BY <1>1, <2>2, <2>3 DEF Receive, Handle, Reached, Entered, Quiet
<1>2. ASSUME NEW T \in SUBSET Task, NEW s \in TaskState \cup {Absent}, SetTasks(T, s)
      PROVE  FALSE
  BY <1>2, SetTasksCounts
<1>3. \A S : Tasks(S) \in SUBSET Task
  BY DEF Tasks
<1>4. ASSUME NEW h \in Handler, \/ csldPrepareOrders(h) \/ csldSendOrders(h)
                                \/ csldConsolidationRetry(h) \/ csldConsolidationForceRetry(h)
                                \/ rollbackDone(h) \/ \E t \in Task : indexTask(h, t)
      PROVE  FALSE
  <2>1. plan \in SUBSET Task /\ Task \in SUBSET Task /\ \A t \in Task : {t} \in SUBSET Task
    BY DEF Typed, TypeOK
  <2>2. "NEW" \in TaskState /\ "PENDING" \in TaskState
    BY DEF TaskState
  <2>3. \E T \in SUBSET Task, s \in TaskState \cup {Absent} : SetTasks(T, s)
    BY <1>3, <1>4, <2>1, <2>2 DEF csldPrepareOrders, csldSendOrders, csldConsolidationRetry,
       csldConsolidationForceRetry, rollbackDone, indexTask
  <2>4. QED
    BY <1>2, <2>3
<1>5. ASSUME NEW h \in Handler, NEW t \in Task, deletePendingContainer(h, t) PROVE FALSE
  <2>1. {t} \in SUBSET Task /\ "CANCELLED" \in TaskState
    BY DEF TaskState
  <2>2. SetTasks({t}, "CANCELLED") \/ job' = job
    BY <1>5 DEF deletePendingContainer
  <2>3. QED
    BY <1>2, <2>1, <2>2
<1>6. ASSUME NEW t \in Task, NEW st \in TaskStatus, handleTaskEvt(t, st) PROVE FALSE
  <2>1. (IF Ignored(t, st) THEN {} ELSE {t}) \in SUBSET Task /\ StateOf(st) \in TaskState
    BY DEF StateOf, TaskState
  <2>2. SetTasks(IF Ignored(t, st) THEN {} ELSE {t}, StateOf(st)) \/ job' = job
    BY <1>6 DEF handleTaskEvt
  <2>3. QED
    BY <1>2, <2>1, <2>2
<1>7. ASSUME NEW h \in Handler,
             \/ Crash(h) \/ StepFails(h) \/ publishJobCreated(h) \/ indexDone(h)
             \/ nothingToCancel(h) \/ csldSwapDatasets(h) \/ csldDeleteDatasets(h)
             \/ csldCancel(h) \/ saveCancellation(h) \/ csldRollback(h)
      PROVE  FALSE
  BY <1>7 DEF Crash, Stop, StepFails, Fails, publishJobCreated, indexDone, nothingToCancel, csldSwapDatasets,
     csldDeleteDatasets, csldCancel, saveCancellation, csldRollback, database
<1>8. CASE \/ \E c \in Commands : Command(c)
           \/ \E t \in Task : WorkerStep(t) \/ workerCrashes(t)
           \/ \E e \in JobEvent : duplicateJobEvent(e)
           \/ \E t \in Task, st \in TaskStatus : duplicateTaskEvent(t, st)
           \/ UNCHANGED vars
  BY <1>8 DEF Command, Send, WorkerStep, workerCrashes, workerChecks, workerCancelled, workerUploads,
     workerReports, workerFails, duplicateJobEvent, duplicateTaskEvent, database, vars
<1>9. QED
  BY <1>1, <1>4, <1>5, <1>6, <1>7, <1>8 DEF Next, HandlerStep

Moves(T, s) == task' = [t \in Task |-> IF t \in T THEN s ELSE task[t]]

(* What a step may do to the tasks and to the catalogue, and in which state  *)
(* of the job: csldInit, csldPrepareOrders, an update of started tasks       *)
(* (csldSendOrders, csldConsolidationRetry, csldConsolidationForceRetry,     *)
(* handleTaskEvt), deletePendingContainer, indexTask, csldSwapDatasets,      *)
(* csldDeleteDatasets, csldRollback and rollbackDone.                        *)
Starts ==
    /\ job.state = Absent /\ job'.state = "NEW"
    /\ \A s \in Source : lock'[s] = "INIT"
    /\ UNCHANGED <<task, status, output>>

Prepares ==
    /\ job.state = "CREATED"
    /\ \A s \in Planned : lock[s] = "INIT"
    /\ Moves(plan, "NEW")
    /\ \A s \in Source : /\ s \in Planned => lock'[s] = "TODELETE"
                         /\ s \notin Planned => lock'[s] \in {lock[s], Absent}
                         /\ lock'[s] # "INIT"
                         /\ lock[s] = "TODELETE" => lock'[s] = "TODELETE"
    /\ UNCHANGED <<status, output>>

Updates ==
    /\ \E T \in SUBSET Task, s \in {"NEW", "PENDING", "DONE", "FAILED"} :
          /\ Moves(T, s)
          /\ \A t \in T : task[t] # Absent /\ (task[t] = "DONE" => s = "DONE")
    /\ UNCHANGED <<status, lock, output>>

Cancels ==
    /\ Aborted
    /\ \E t \in Task : task[t] # Absent /\ Moves({t}, "CANCELLED")
    /\ UNCHANGED <<status, lock, output>>

Indexes ==
    /\ job.state = "CONSOLIDATIONDONE"
    /\ \E t \in Task : /\ task[t] = "DONE"
                       /\ Moves({t}, Absent)
                       /\ output' = [output EXCEPT ![t] = "INACTIVE"]
    /\ UNCHANGED <<status, lock>>

Swaps ==
    /\ job.state = "CONSOLIDATIONINDEXED"
    /\ \A s \in Source :
          /\ status'[s] = IF ~collapse /\ lock[s] \in {"INIT", "TODELETE"} THEN "TODELETE"
                          ELSE status[s]
          /\ lock'[s] \in {lock[s], Absent}
    /\ output' = [t \in Task |-> IF output[t] = "INACTIVE" THEN "ACTIVE" ELSE output[t]]
    /\ UNCHANGED task

Deletes ==
    /\ job.state = "CONSOLIDATIONEFFECTIVE"
    /\ \A s \in Source : lock'[s] \in {lock[s], Absent, "deletion"}
    /\ UNCHANGED <<task, status, output>>

RollsBack ==
    /\ job.state = "ABORTED"
    /\ output' = [t \in Task |-> IF output[t] = "INACTIVE" THEN Absent ELSE output[t]]
    /\ UNCHANGED <<task, status, lock>>

EndsRollback ==
    /\ job.state = "ABORTED"
    /\ \A t \in Task : output[t] # "INACTIVE"
    /\ Moves(Task, Absent)
    /\ \A s \in Source : lock'[s] \in {lock[s], Absent} /\ lock'[s] \notin {"INIT", "TODELETE"}
    /\ UNCHANGED <<status, output>>

Effect ==
    \/ Quiet \/ Starts \/ Prepares \/ Updates \/ Cancels
    \/ Indexes \/ Swaps \/ Deletes \/ RollsBack \/ EndsRollback

(* Every step has one of these effects on the catalogue.                     *)
LEMMA Effects ==
    ASSUME Typed, FreshInv, [Next]_vars
    PROVE  plan' = plan /\ collapse' = collapse /\ Effect
<1>t. /\ lock \in [Source -> {Absent, "INIT", "TODELETE", "deletion"}]
      /\ task \in [Task -> TaskState \cup {Absent}]
      /\ plan \subseteq Task
  BY DEF Typed, TypeOK
<1>f. \A h \in Handler : \A pc : FreshAt(h, pc) => At(h, pc) /\ handler[h].fresh
  BY DEF FreshAt
<1>m. \A T, s : SetTasks(T, s) => Moves(T, s)
  BY DEF SetTasks, Moves
<1>1. CASE csldInit
  BY <1>1 DEF csldInit, Effect, Starts, Typed, TypeOK
<1>2. ASSUME NEW h \in Handler, csldPrepareOrders(h)
      PROVE  plan' = plan /\ collapse' = collapse /\ Effect
  <2>1. job.state = "CREATED" /\ UNCHANGED <<plan, collapse, status, output>> /\ Moves(plan, "NEW")
        /\ \A s \in Planned : lock[s] = "INIT"
    BY <1>2, <1>f, <1>m, FreshStates DEF csldPrepareOrders
  <2>2. \A s \in Source : /\ s \in Planned => lock'[s] = "TODELETE"
                          /\ s \notin Planned => lock'[s] \in {lock[s], Absent}
                          /\ lock'[s] # "INIT"
                          /\ lock[s] = "TODELETE" => lock'[s] = "TODELETE"
    BY <1>2, <1>t DEF csldPrepareOrders, Absent
  <2>3. QED
    BY <2>1, <2>2 DEF Effect, Prepares
<1>3. ASSUME NEW h \in Handler, \/ csldSendOrders(h) \/ csldConsolidationRetry(h)
                                \/ csldConsolidationForceRetry(h)
      PROVE  plan' = plan /\ collapse' = collapse /\ Effect
  <2>1. UNCHANGED <<plan, collapse, status, lock, output>>
    BY <1>3 DEF csldSendOrders, csldConsolidationRetry, csldConsolidationForceRetry
  <2>2. \E S \in {{"NEW"}, {"FAILED"}, {"NEW", "FAILED", "PENDING"}}, s \in {"NEW", "PENDING"} :
            SetTasks(Tasks(S), s)
    BY <1>3 DEF csldSendOrders, csldConsolidationRetry, csldConsolidationForceRetry
  <2>3. \A S \in {{"NEW"}, {"FAILED"}, {"NEW", "FAILED", "PENDING"}} :
            /\ Tasks(S) \in SUBSET Task
            /\ \A t \in Tasks(S) : task[t] # Absent /\ task[t] # "DONE"
    BY DEF Tasks, Absent
  <2>4. QED
    BY <1>m, <2>1, <2>2, <2>3 DEF Effect, Updates
<1>4. ASSUME NEW t \in Task, NEW st \in TaskStatus, handleTaskEvt(t, st)
      PROVE  plan' = plan /\ collapse' = collapse /\ Effect
  <2>1. UNCHANGED <<plan, collapse, status, lock, output>>
    BY <1>4 DEF handleTaskEvt
  <2>2. \/ task' = task
        \/ /\ SetTasks(IF Ignored(t, st) THEN {} ELSE {t}, StateOf(st))
           /\ task[t] # Absent /\ Accepted(t, st)
    BY <1>4 DEF handleTaskEvt
  <2>3. Accepted(t, st) /\ task[t] = "DONE" => StateOf(st) = "DONE"
    BY DEF Accepted
  <2>4. StateOf(st) \in {"NEW", "PENDING", "DONE", "FAILED"}
    BY DEF StateOf
  <2>5. CASE task' = task
    BY <2>1, <2>5 DEF Effect, Quiet
  <2>6. CASE /\ SetTasks(IF Ignored(t, st) THEN {} ELSE {t}, StateOf(st))
             /\ task[t] # Absent /\ Accepted(t, st)
    <3> DEFINE T == IF Ignored(t, st) THEN {} ELSE {t}
    <3>1. T \in SUBSET Task /\ Moves(T, StateOf(st))
      BY <2>6, <1>m
    <3>2. \A x \in T : task[x] # Absent /\ (task[x] = "DONE" => StateOf(st) = "DONE")
      BY <2>3, <2>6
    <3> HIDE DEF T
    <3>3. QED
      BY <2>1, <2>4, <3>1, <3>2 DEF Effect, Updates
  <2>7. QED
    BY <2>2, <2>5, <2>6
<1>5. ASSUME NEW h \in Handler, NEW t \in Task, deletePendingContainer(h, t)
      PROVE  plan' = plan /\ collapse' = collapse /\ Effect
  <2>1. UNCHANGED <<plan, collapse, status, lock, output>>
    BY <1>5 DEF deletePendingContainer
  <2>2. CASE handler[h].fresh
    <3>1. Aborted
      BY <1>5, <2>2, FreshStates DEF deletePendingContainer, Aborted, Over
    <3>2. task[t] # Absent /\ Moves({t}, "CANCELLED")
      BY <1>5, <1>m, <2>2 DEF deletePendingContainer, Unindexed, Tasks, Absent
    <3>3. QED
      BY <2>1, <3>1, <3>2 DEF Effect, Cancels
  <2>3. CASE ~handler[h].fresh
    BY <1>5, <2>1, <2>3 DEF deletePendingContainer, Effect, Quiet
  <2>4. QED
    BY <2>2, <2>3
<1>6. ASSUME NEW h \in Handler, NEW t \in Task, indexTask(h, t)
      PROVE  plan' = plan /\ collapse' = collapse /\ Effect
  <2>1. /\ job.state = "CONSOLIDATIONDONE" /\ UNCHANGED <<plan, collapse, status, lock>>
        /\ task[t] = "DONE" /\ Moves({t}, Absent)
        /\ output' = [output EXCEPT ![t] = "INACTIVE"]
    BY <1>6, <1>f, <1>m, FreshStates DEF indexTask
  <2>2. QED
    BY <2>1 DEF Effect, Indexes
<1>7. ASSUME NEW h \in Handler, csldSwapDatasets(h)
      PROVE  plan' = plan /\ collapse' = collapse /\ Effect
  <2>1. job.state = "CONSOLIDATIONINDEXED" /\ UNCHANGED <<plan, collapse, task>>
        /\ output' = [t \in Task |-> IF output[t] = "INACTIVE" THEN "ACTIVE" ELSE output[t]]
    BY <1>7, <1>f, FreshStates DEF csldSwapDatasets
  <2>2. \A s \in Source :
          /\ status'[s] = IF ~collapse /\ lock[s] \in {"INIT", "TODELETE"} THEN "TODELETE"
                          ELSE status[s]
          /\ lock'[s] \in {lock[s], Absent}
    BY <1>7 DEF csldSwapDatasets, SwappedSources
  <2>3. QED
    BY <2>1, <2>2 DEF Effect, Swaps
<1>8. ASSUME NEW h \in Handler, csldDeleteDatasets(h)
      PROVE  plan' = plan /\ collapse' = collapse /\ Effect
  <2>1. UNCHANGED <<plan, collapse, task, status, output>>
    BY <1>8 DEF csldDeleteDatasets
  <2>2. CASE Replaced = {}
    BY <1>8, <2>1, <2>2 DEF csldDeleteDatasets, Effect, Quiet
  <2>3. CASE Replaced # {}
    <3>1. job.state = "CONSOLIDATIONEFFECTIVE"
      BY <1>8, <1>f, <2>3, FreshStates DEF csldDeleteDatasets
    <3>2. \A s \in Source : lock'[s] \in {lock[s], Absent, "deletion"}
      BY <1>8, <2>3 DEF csldDeleteDatasets
    <3>3. QED
      BY <2>1, <3>1, <3>2 DEF Effect, Deletes
  <2>4. QED
    BY <2>2, <2>3
<1>9. ASSUME NEW h \in Handler, csldRollback(h)
      PROVE  plan' = plan /\ collapse' = collapse /\ Effect
  <2>1. job.state = "ABORTED" /\ UNCHANGED <<plan, collapse, task, status, lock>>
    BY <1>9, <1>f, FreshStates DEF csldRollback
  <2>2. output' = [t \in Task |-> IF output[t] = "INACTIVE" THEN Absent ELSE output[t]]
    BY <1>9 DEF csldRollback
  <2>3. QED
    BY <2>1, <2>2 DEF Effect, RollsBack
<1>10. ASSUME NEW h \in Handler, rollbackDone(h)
       PROVE  plan' = plan /\ collapse' = collapse /\ Effect
  <2>1. /\ job.state = "ABORTED" /\ \A t \in Task : output[t] # "INACTIVE"
        /\ UNCHANGED <<plan, collapse, status, output>> /\ Moves(Task, Absent)
    BY <1>10, <1>f, <1>m, FreshStates DEF rollbackDone
  <2>2. \A s \in Source : lock'[s] \in {lock[s], Absent} /\ lock'[s] \notin {"INIT", "TODELETE"}
    BY <1>10 DEF rollbackDone, Absent
  <2>3. QED
    BY <2>1, <2>2 DEF Effect, EndsRollback
<1>11. ASSUME NEW h \in Handler,
              \/ Crash(h) \/ StepFails(h) \/ publishJobCreated(h) \/ indexDone(h)
              \/ nothingToCancel(h) \/ csldCancel(h) \/ saveCancellation(h)
              \/ \E e \in JobEvent : Receive(h, e)
       PROVE  Quiet
  BY <1>11 DEF Crash, Stop, StepFails, Fails, publishJobCreated, indexDone, nothingToCancel, csldCancel,
     saveCancellation, Receive, database, Quiet
<1>12. CASE \/ \E c \in Commands : Command(c)
            \/ \E t \in Task : WorkerStep(t) \/ workerCrashes(t)
            \/ \E e \in JobEvent : duplicateJobEvent(e)
            \/ \E t \in Task, st \in TaskStatus : duplicateTaskEvent(t, st)
            \/ UNCHANGED vars
  <2>1. Quiet
    BY <1>12 DEF Command, Send, WorkerStep, workerCrashes, workerChecks, workerCancelled, workerUploads,
       workerReports, workerFails, duplicateJobEvent, duplicateTaskEvent, database, vars, Quiet
  <2>2. QED
    BY <2>1 DEF Effect, Quiet
<1>13. Quiet => plan' = plan /\ collapse' = collapse /\ Effect
  BY DEF Quiet, Effect
<1>14. QED
  BY <1>1, <1>2, <1>3, <1>4, <1>5, <1>6, <1>7, <1>8, <1>9, <1>10, <1>11, <1>12, <1>13
     DEF Next, HandlerStep

-----------------------------------------------------------------------------
(* The invariant is kept *)

(* The state of the job after a step. *)
LEMMA States ==
    ASSUME Typed, [Next]_vars
    PROVE  /\ Aborted => Aborted'
           /\ job.state \in Cancelling => job'.state \in Cancelling
           /\ job'.state = Absent => job.state = Absent
<1>1. csldInit => job.state = Absent /\ job'.state = "NEW"
  BY DEF csldInit, Typed, TypeOK
<1>2. \A s \in ConsolidationPause : s \notin Over /\ s # Absent
  BY DEF ConsolidationPause, Over, Absent
<1>3. "ABORTED" \in Over /\ Over \subseteq Cancelling /\ Absent \notin Cancelling
      /\ "NEW" # Absent /\ "ABORTED" # Absent
  BY DEF Over, Cancelling, Absent
<1>4. CASE job'.state = job.state
  BY <1>4 DEF Aborted
<1>5. CASE csldInit
  BY <1>1, <1>3, <1>5 DEF Aborted
<1>6. ASSUME NEW e, <<job.state, e, job'.state>> \in ConsolidationEdges
      PROVE  /\ Aborted => Aborted'
             /\ job.state \in Cancelling => job'.state \in Cancelling
             /\ job'.state # Absent
  BY <1>6, EdgeFacts DEF Aborted
<1>7. CASE job.state \in ConsolidationPause /\ job'.state = "ABORTED"
  BY <1>2, <1>3, <1>7 DEF Aborted
<1>8. QED
  BY <1>4, <1>5, <1>6, <1>7, Moved

(* Tasks and outputs are those of the plan, their datasets are locked. *)
LEMMA TakenStep ==
    ASSUME CatalogueInv, [Next]_vars
    PROVE  PlanInv' /\ IndexedOnce' /\ InputsStayLocked' /\ CancelledInv'
<1> USE DEF Started
<1>1. plan' = plan /\ collapse' = collapse /\ Effect
  BY Effects DEF CatalogueInv
<1>2. /\ plan \subseteq Task
      /\ \A t \in Task : Inputs[t] \subseteq Source /\ Inputs[t] # {}
      /\ \A t \in plan : Inputs[t] \subseteq Planned
      /\ output \in [Task -> {Absent, "INACTIVE", "ACTIVE"}]
  BY InputsAssumption DEF CatalogueInv, Typed, TypeOK, Planned
<1>3. Aborted => Aborted'
  BY States DEF CatalogueInv
<1>4. job'.state = Absent => job.state = Absent
  BY States DEF CatalogueInv
<1>5. \A t \in Task : Started(t) => t \in plan /\ \A s \in Inputs[t] : lock[s] # "INIT"
  BY DEF CatalogueInv, PlanInv
<1>6. job.state = Absent => \A t \in Task : ~Started(t)
  BY DEF CatalogueInv, PlanInv
<1>7. \A t \in Task : task[t] # Absent => output[t] = Absent
  BY DEF CatalogueInv, IndexedOnce
<1>8. \A t \in Task : \A s \in Inputs[t] :
          task[t] # Absent \/ output[t] = "INACTIVE" => lock[s] = "TODELETE"
  BY DEF CatalogueInv, InputsStayLocked
<1>9. (\E t \in Task : task[t] = "CANCELLED") => Aborted
  BY DEF CatalogueInv, CancelledInv
<1> USE DEF PlanInv, IndexedOnce, InputsStayLocked, CancelledInv
<1>10. CASE Quiet
  BY <1>3, <1>4, <1>5, <1>6, <1>7, <1>8, <1>9, <1>10 DEF Quiet
<1>11. CASE Starts
  BY <1>1, <1>6, <1>11, <1>9, <1>3, <1>4 DEF Starts, Absent
<1>12. CASE Prepares
  BY <1>1, <1>2, <1>3, <1>4, <1>5, <1>7, <1>8, <1>9, <1>12 DEF Prepares, Moves, Absent
<1>13. CASE Updates
  BY <1>1, <1>3, <1>4, <1>5, <1>6, <1>7, <1>8, <1>9, <1>13 DEF Updates, Moves, Absent
<1>14. CASE Cancels
  BY <1>1, <1>3, <1>4, <1>5, <1>6, <1>7, <1>8, <1>9, <1>14 DEF Cancels, Moves, Absent
<1>15. CASE Indexes
  BY <1>1, <1>2, <1>3, <1>4, <1>5, <1>7, <1>8, <1>9, <1>15 DEF Indexes, Moves, Absent
<1>16. CASE Swaps
  <2>1. CASE Aborted
    BY <1>16, <2>1 DEF Swaps, Aborted, Over
  <2>2. CASE ~Aborted
    <3>1. \A t \in plan : output[t] # Absent
      BY <1>16, <2>2 DEF CatalogueInv, IndexedHeard, Indexed, Swaps
    <3>2. \A t \in Task : task[t] = Absent
      BY <1>5, <1>7, <3>1
    <3>3. \A t \in Task : output'[t] # "INACTIVE"
      BY <1>16 DEF Swaps
    <3>4. QED
      BY <1>1, <1>2, <1>3, <1>4, <1>5, <1>9, <1>16, <3>2, <3>3 DEF Swaps, Absent
  <2>3. QED
    BY <2>1, <2>2
<1>17. CASE Deletes
  <2>1. \A t \in plan : output[t] = "ACTIVE"
    BY <1>17 DEF CatalogueInv, SwappedHeard, Swapped, Deletes, Effective
  <2>2. \A t \in Task : task[t] = Absent /\ output[t] # "INACTIVE"
    BY <1>5, <1>7, <2>1, <1>2 DEF Absent
  <2>3. QED
    BY <1>1, <1>2, <1>3, <1>4, <1>5, <1>9, <1>17, <2>2 DEF Deletes, Absent
<1>18. CASE RollsBack
  BY <1>1, <1>2, <1>3, <1>4, <1>5, <1>7, <1>8, <1>9, <1>18 DEF RollsBack, Absent
<1>19. CASE EndsRollback
  BY <1>1, <1>2, <1>3, <1>4, <1>5, <1>7, <1>9, <1>19 DEF EndsRollback, Moves, Absent
<1>20. QED
  BY <1>1, <1>10, <1>11, <1>12, <1>13, <1>14, <1>15, <1>16, <1>17, <1>18, <1>19 DEF Effect

(* What was done to the tasks and to the outputs stays done. *)
LEMMA DoneForGood ==
    ASSUME CatalogueInv, [Next]_vars, ~Aborted
    PROVE  /\ Prepared => Prepared'
           /\ Complete => Complete'
           /\ Indexed => Indexed'
           /\ (\E t \in Task : Started(t)') => (\E t \in Task : Started(t)) \/ Prepared'
<1>1. plan' = plan /\ collapse' = collapse /\ Effect
  BY Effects DEF CatalogueInv
<1>2. plan \subseteq Task /\ task \in [Task -> TaskState \cup {Absent}]
      /\ output \in [Task -> {Absent, "INACTIVE", "ACTIVE"}]
  BY DEF CatalogueInv, Typed, TypeOK
<1>3. ~Cancels /\ ~RollsBack /\ ~EndsRollback
  BY DEF Cancels, RollsBack, EndsRollback, Aborted, Over
<1>4. Prepares => \A t \in plan : ~Started(t)
  BY <1>2, InputsAssumption DEF Prepares, CatalogueInv, PlanInv, Planned
<1> USE DEF Prepared, Complete, Indexed, Started, Absent
<1>5. CASE Quiet \/ Starts \/ Deletes
  BY <1>1, <1>2, <1>5 DEF Quiet, Starts, Deletes
<1>6. CASE Prepares
  BY <1>1, <1>2, <1>4, <1>6 DEF Prepares, Moves
<1>7. CASE Updates
  BY <1>1, <1>2, <1>7 DEF Updates, Moves
<1>8. CASE Indexes
  BY <1>1, <1>2, <1>8 DEF Indexes, Moves
<1>9. CASE Swaps
  BY <1>1, <1>2, <1>9 DEF Swaps
<1>10. QED
  BY <1>1, <1>3, <1>5, <1>6, <1>7, <1>8, <1>9 DEF Effect

(* A handler stays where it is, with a copy that is stale unless nothing was *)
(* saved, or stops, or moves on along the steps of the state of the job.     *)
Stays(h) ==
    /\ handler'[h].pc = handler[h].pc
    /\ handler'[h].fresh =>
          /\ handler[h].fresh
          /\ job'.state = job.state \/ job.state = Absent
          /\ output' = output \/ At(h, "csldIndex")

Stops(h) == handler'[h].pc = "idle" /\ ~handler'[h].fresh

MovesOn(h) ==
    \/ handler'[h].pc # "idle" /\ handler'[h].pc = StepOf(job'.state)
    \/ handler'[h].pc = "nothingToCancel" /\ job'.state = "CONSOLIDATIONCANCELLING"
    \/ /\ handler'[h].pc = "saveCancellation" /\ At(h, "csldCancel")
       /\ job'.state = job.state
       /\ handler'[h].fresh => handler[h].fresh
    \/ /\ handler'[h].pc = "deletePendingContainers"
       /\ job.state = "ABORTED" /\ job'.state = "ABORTED"
       /\ \A t \in Task : output'[t] # "INACTIVE"

(* How a step moves the copies: they stay, one stops with its message, or    *)
(* one goes on as the last to have saved (UpdateJob's optimistic control).   *)
LEMMA HandlerMoves ==
    ASSUME Typed, FreshInv, [Next]_vars, NEW h \in Handler
    PROVE  Stays(h) \/ Stops(h) \/ MovesOn(h)
<1>1. /\ handler \in HandlerType
      /\ Stale \in HandlerType
      /\ \A g \in Handler : Stale[g].pc = handler[g].pc /\ ~Stale[g].fresh
      /\ Idle.pc = "idle" /\ ~Idle.fresh
      /\ output \in [Task -> {Absent, "INACTIVE", "ACTIVE"}]
  BY StaleTypes DEF Typed, TypeOK, HandlerType, Stale, Idle
<1>2. ASSUME NEW g \in Handler, handler' = [Stale EXCEPT ![g] = Idle]
      PROVE  Stays(h) \/ Stops(h)
  BY <1>1, <1>2 DEF HandlerType, Stays, Stops
<1>3. ASSUME NEW g \in Handler, handler' = [handler EXCEPT ![g] = Idle],
             job' = job, output' = output
      PROVE  Stays(h) \/ Stops(h)
  BY <1>1, <1>3 DEF HandlerType, Stays, Stops
<1>4. ASSUME NEW g \in Handler, NEW pc, Goto(g, pc)
      PROVE  IF g = h THEN handler'[h].pc = pc /\ (handler'[h].fresh => handler[h].fresh)
             ELSE Stays(h)
  <2>1. [handler[g] EXCEPT !.pc = pc].pc = pc
        /\ [handler[g] EXCEPT !.pc = pc].fresh = handler[g].fresh
    BY <1>1 DEF HandlerType
  <2>2. QED
    BY <1>1, <1>4, <2>1 DEF HandlerType, Stays, Goto
<1>5. ASSUME handler' = Stale PROVE Stays(h)
  BY <1>1, <1>5 DEF Stays
<1>6. ASSUME UNCHANGED handler, UNCHANGED output, job'.state = job.state \/ job.state = Absent
      PROVE  Stays(h)
  BY <1>6 DEF Stays
<1>7. ASSUME NEW g \in Handler, NEW e \in JobEvent, Receive(g, e)
      PROVE  Stays(h) \/ Stops(h) \/ MovesOn(h)
  <2>1. CASE UNCHANGED <<job, handler>>
    BY <1>6, <1>7, <2>1 DEF Receive, Handle, Reached, Entered
  <2>2. ASSUME NEW j \in Triggered(e),
               job' = [job EXCEPT !.state = j.state, !.waiting = j.waiting],
               TurnsTo(g, e, j)
        PROVE  Stays(h) \/ Stops(h) \/ MovesOn(h)
    <3>1. job'.state = j.state
      BY <2>2 DEF Typed, TypeOK
    <3>2. \/ Entry(j.state, e).pc = StepOf(j.state)
          \/ Entry(j.state, e).pc = "nothingToCancel" /\ j.state = "CONSOLIDATIONCANCELLING"
      BY DEF Entry, Entered
    <3>3. Entered(j.state) = Entry(j.state, e).pc
      BY DEF Entry
    <3>4. PICK y : /\ handler' = [Stale EXCEPT ![g] = y]
                   /\ y = Idle \/ (Entered(j.state) # "idle" /\ y = Entry(j.state, e))
      BY <2>2 DEF TurnsTo
    <3>5. CASE g # h
      BY <1>1, <3>4, <3>5 DEF HandlerType, Stays
    <3>6. CASE g = h
      <4>1. handler'[h] = y
        BY <1>1, <3>4, <3>6 DEF HandlerType
      <4>2. CASE y = Idle
        BY <1>1, <4>1, <4>2 DEF Stops
      <4>3. CASE Entered(j.state) # "idle" /\ y = Entry(j.state, e)
        BY <3>1, <3>2, <3>3, <4>1, <4>3 DEF MovesOn
      <4>4. QED
        BY <3>4, <4>2, <4>3
    <3>7. QED
      BY <3>5, <3>6
  <2>3. QED
    BY <1>7, <2>1, <2>2, Received
<1>8. ASSUME NEW g \in Handler,
             \/ Crash(g) \/ StepFails(g) \/ publishJobCreated(g) \/ indexDone(g)
             \/ nothingToCancel(g)
      PROVE  Stays(h) \/ Stops(h)
  BY <1>3, <1>8 DEF Crash, Stop, StepFails, Fails, publishJobCreated, indexDone, nothingToCancel, JustEmit,
     database
<1>9. ASSUME NEW g \in Handler,
             \/ csldPrepareOrders(g) \/ csldSendOrders(g) \/ csldSwapDatasets(g)
             \/ saveCancellation(g) \/ csldConsolidationRetry(g)
             \/ csldConsolidationForceRetry(g) \/ rollbackDone(g)
      PROVE  Stays(h) \/ Stops(h)
  BY <1>2, <1>9 DEF csldPrepareOrders, csldSendOrders, csldSwapDatasets, saveCancellation,
     csldConsolidationRetry, csldConsolidationForceRetry, rollbackDone, SaveAndEmit
<1>10. ASSUME NEW g \in Handler, csldDeleteDatasets(g)
       PROVE  Stays(h) \/ Stops(h)
  BY <1>2, <1>3, <1>10 DEF csldDeleteDatasets, JustEmit
<1>11. ASSUME NEW g \in Handler, NEW t \in Task, indexTask(g, t)
       PROVE  Stays(h) \/ Stops(h) \/ MovesOn(h)
  <2>1. Goto(g, "csldIndex") /\ At(g, "csldIndex") /\ SetTasks({t}, Absent) /\ {t} \subseteq Task
    BY <1>11 DEF indexTask, FreshAt
  <2>2. job'.state = job.state
    BY <2>1, SetTasksCounts
  <2>3. QED
    BY <1>4, <2>1, <2>2 DEF Stays, At
<1>12. ASSUME NEW g \in Handler, csldCancel(g)
       PROVE  Stays(h) \/ Stops(h) \/ MovesOn(h)
  <2>1. /\ UNCHANGED <<job, output>> /\ At(g, "csldCancel")
        /\ handler' = [handler EXCEPT ![g].pc = "saveCancellation"]
    BY <1>12 DEF csldCancel, database
  <2>2. QED
    BY <1>1, <2>1 DEF HandlerType, Stays, MovesOn, At
<1>13. ASSUME NEW g \in Handler, csldRollback(g)
       PROVE  Stays(h) \/ Stops(h) \/ MovesOn(h)
  <2>1. /\ UNCHANGED job /\ Goto(g, "deletePendingContainers")
        /\ \A t \in Task : output'[t] # "INACTIVE"
    BY <1>13 DEF csldRollback, Absent
  <2>2. job.state = "ABORTED"
    BY <1>13, FreshStates DEF csldRollback, FreshAt
  <2>3. QED
    BY <1>4, <2>1, <2>2 DEF MovesOn
<1>14. ASSUME NEW g \in Handler, NEW t \in Task, deletePendingContainer(g, t)
       PROVE  Stays(h) \/ Stops(h) \/ MovesOn(h)
  <2>1. At(g, "deletePendingContainers") /\ output' = output
    BY <1>14 DEF deletePendingContainer
  <2>2. CASE SetTasks({t}, "CANCELLED") /\ Goto(g, "deletePendingContainers")
    <3>1. job'.state = job.state
      BY <2>2, SetTasksCounts DEF TaskState
    <3>2. QED
      BY <1>4, <2>1, <2>2, <3>1 DEF Stays, At
  <2>3. CASE UNCHANGED <<task, job>> /\ JustEmit(g, "RollbackFailed")
    BY <1>3, <2>1, <2>3 DEF JustEmit
  <2>4. QED
    BY <1>14, <2>2, <2>3 DEF deletePendingContainer
<1>15. ASSUME NEW t \in Task, NEW st \in TaskStatus, handleTaskEvt(t, st)
       PROVE  Stays(h)
  <2>1. UNCHANGED <<job, output, handler>> \/ handler' = Stale
    BY <1>15 DEF handleTaskEvt
  <2>2. QED
    BY <1>5, <1>6, <2>1
<1>16. CASE \/ \E c \in Commands : Command(c)
            \/ \E t \in Task : WorkerStep(t) \/ workerCrashes(t)
            \/ \E e \in JobEvent : duplicateJobEvent(e)
            \/ \E t \in Task, st \in TaskStatus : duplicateTaskEvent(t, st)
            \/ UNCHANGED vars
  <2>1. UNCHANGED <<job, output, handler>>
    BY <1>16 DEF Command, Send, WorkerStep, workerCrashes, workerChecks, workerCancelled, workerUploads,
       workerReports, workerFails, duplicateJobEvent, duplicateTaskEvent, database, vars
  <2>2. QED
    BY <1>6, <2>1
<1>17. CASE csldInit
  BY <1>6, <1>17 DEF csldInit
<1>18. QED
  BY <1>7, <1>8, <1>9, <1>10, <1>11, <1>12, <1>13, <1>14, <1>15, <1>16, <1>17 DEF Next, HandlerStep

(* A fresh copy runs the step of the state the job is in: the state does not *)
(* change without a save.                                                    *)
LEMMA FreshStep ==
    ASSUME Typed, FreshInv, [Next]_vars
    PROVE  FreshInv'
<1> SUFFICES ASSUME NEW h \in Handler, handler'[h].fresh
             PROVE  /\ handler'[h].pc # "idle"
                    /\ \/ handler'[h].pc = StepOf(job'.state)
                       \/ /\ handler'[h].pc \in {"nothingToCancel", "saveCancellation"}
                          /\ job'.state = "CONSOLIDATIONCANCELLING"
                       \/ /\ handler'[h].pc = "deletePendingContainers"
                          /\ job'.state = "ABORTED"
                          /\ \A t \in Task : output'[t] # "INACTIVE"
  BY DEF FreshInv
<1>1. CASE Stays(h)
  <2>1. handler[h].fresh /\ job'.state = job.state
    BY <1>1, FreshStates DEF Stays
  <2>2. QED
    BY <1>1, <2>1 DEF Stays, FreshInv, At
<1>2. CASE MovesOn(h)
  BY <1>2, FreshStates DEF MovesOn
<1>3. QED
  BY <1>1, <1>2, HandlerMoves DEF Stops

(* OrdersPrepared is published after the tasks of the plan were created, and *)
(* they are deleted only once indexed or aborted (csldPrepareOrders).        *)
LEMMA PreparedStep ==
    ASSUME CatalogueInv, [Next]_vars
    PROVE  PreparedInv' /\ PreparedHeard'
<1> SUFFICES ASSUME ~Aborted PROVE PreparedInv' /\ PreparedHeard'
  BY States DEF CatalogueInv, PreparedInv, PreparedHeard
<1>1. Prepared => Prepared'
  BY DoneForGood
<1>2. PreparedInv'
  BY <1>1, DoneForGood DEF CatalogueInv, PreparedInv
<1>3. ASSUME Heard("OrdersPrepared")', ~Heard("OrdersPrepared")
      PROVE  Prepared'
  <2>1. PICK h \in Handler : \/ csldPrepareOrders(h) \/ csldConsolidationRetry(h)
                             \/ csldConsolidationForceRetry(h)
    BY <1>3, Emitted DEF CatalogueInv, Telling
  <2>2. CASE csldPrepareOrders(h)
    BY <2>2 DEF csldPrepareOrders, SetTasks, Prepared, Started, Absent, CatalogueInv, Typed, TypeOK
  <2>3. CASE csldConsolidationRetry(h) \/ csldConsolidationForceRetry(h)
    <3>1. job.state \in {"CONSOLIDATIONRETRYING", "CONSOLIDATIONFORCERETRYING"}
      BY <2>3, FreshStates DEF csldConsolidationRetry, csldConsolidationForceRetry, FreshAt,
         CatalogueInv
    <3>2. QED
      BY <1>1, <3>1 DEF CatalogueInv, PreparedHeard
  <2>4. QED
    BY <2>1, <2>2, <2>3
<1>4. ASSUME job'.state \in {"CONSOLIDATIONINPROGRESS", "CONSOLIDATIONFAILED",
                             "CONSOLIDATIONRETRYING", "CONSOLIDATIONFORCERETRYING"},
             job'.state # job.state
      PROVE  Prepared
  <2>1. ~csldInit /\ job'.state # "ABORTED"
    BY <1>4 DEF csldInit, CatalogueInv, Typed, TypeOK
  <2>2. PICK e \in JobEvent : jobEvents[e] > 0 /\ <<job.state, e, job'.state>> \in ConsolidationEdges
    BY <1>4, <2>1, Moved DEF CatalogueInv
  <2>3. \/ Heard("OrdersPrepared")
        \/ job.state \in {"CONSOLIDATIONINPROGRESS", "CONSOLIDATIONFAILED",
                          "CONSOLIDATIONRETRYING", "CONSOLIDATIONFORCERETRYING"}
        \/ job.state \in {"CONSOLIDATIONDONE", "CONSOLIDATIONINDEXED"}
    BY <1>4, <2>2, EdgeFacts DEF Heard
  <2>4. QED
    BY <2>3 DEF CatalogueInv, PreparedHeard, CompleteHeard, IndexedHeard, Prepared, Complete,
       Indexed, Started, Absent
<1>5. PreparedHeard'
  BY <1>1, <1>3, <1>4 DEF CatalogueInv, PreparedHeard
<1>6. QED
  BY <1>2, <1>5

(* ConsolidationDone is published once every task of the plan is done        *)
(* (csldSendOrders, handleTaskEvt), and a done task stays done.              *)
LEMMA CompleteStep ==
    ASSUME CatalogueInv, [Next]_vars
    PROVE  CompleteHeard'
<1> SUFFICES ASSUME ~Aborted PROVE CompleteHeard'
  BY States DEF CatalogueInv, CompleteHeard
<1>1. Complete => Complete'
  BY DoneForGood
<1>2. plan' = plan /\ collapse' = collapse /\ plan \subseteq Task /\ task \in [Task -> TaskState \cup {Absent}]
  BY Effects DEF CatalogueInv, Typed, TypeOK
<1>3. ASSUME Heard("ConsolidationDone")', ~Heard("ConsolidationDone")
      PROVE  Complete'
  <2>1. CASE \E h \in Handler : AllTasksDone /\ csldSendOrders(h)
    <3>1. PICK h \in Handler : AllTasksDone /\ csldSendOrders(h)
      BY <2>1
    <3>2. job.state = "CONSOLIDATIONINPROGRESS"
      BY <3>1, FreshStates DEF csldSendOrders, FreshAt, CatalogueInv
    <3>3. Prepared
      BY <3>2 DEF CatalogueInv, PreparedHeard
    <3>4. \A t \in Task : task[t] \in {"DONE", Absent}
      BY <1>2, <3>1 DEF AllTasksDone, Tasks
    <3>5. Complete
      BY <1>2, <3>3, <3>4 DEF Complete, Prepared, Started
    <3>6. QED
      BY <1>1, <3>5
  <2>2. ASSUME NEW t \in Task, NEW st \in TaskStatus, handleTaskEvt(t, st),
               Conclusion(job') = "ConsolidationDone", task[t] # Absent
        PROVE  Complete'
    <3>1. job'.active = 0 /\ ~(job'.failed > 0)
      BY <2>2 DEF Conclusion, Absent
    <3>2. Typed' /\ CancelledInv'
      BY TypedStep, TakenStep DEF CatalogueInv
    <3>3. Tasks(ActiveTask)' = {} /\ Tasks({"FAILED"})' = {}
      <4>1. /\ Cardinality(Tasks(ActiveTask)') = 0
            /\ Cardinality(Tasks({"FAILED"})') = 0
        BY <3>1, <3>2 DEF Typed, TypeOK, CountersMatch
      <4>2. Tasks(ActiveTask)' \subseteq Task /\ Tasks({"FAILED"})' \subseteq Task
        BY DEF Tasks
      <4>3. IsFiniteSet(Tasks(ActiveTask)') /\ IsFiniteSet(Tasks({"FAILED"})')
        BY <4>2, TasksFinite
      <4>4. QED
        BY <4>1, <4>3, FS_EmptySet
    <3>4. job'.state = job.state
      <4>1. (IF Ignored(t, st) THEN {} ELSE {t}) \subseteq Task
            /\ StateOf(st) \in TaskState \cup {Absent}
        BY DEF StateOf, TaskState
      <4>2. SetTasks(IF Ignored(t, st) THEN {} ELSE {t}, StateOf(st)) \/ job' = job
        BY <2>2 DEF handleTaskEvt
      <4>3. QED
        BY <4>1, <4>2, SetTasksCounts DEF CatalogueInv
    <3>5. \A x \in Task : task'[x] \in {"DONE", Absent}
      <4>1. \A x \in Task : task'[x] # "CANCELLED"
        BY <3>2, <3>4 DEF CancelledInv, Aborted
      <4>2. \A x \in Task : task'[x] \in TaskState \cup {Absent}
        BY <3>2 DEF Typed, TypeOK
      <4>3. QED
        BY <3>3, <4>1, <4>2 DEF Tasks, ActiveTask, TaskState
    <3>6. Prepared'
      BY <2>2, DoneForGood DEF CatalogueInv, PreparedInv, Started
    <3>7. QED
      BY <1>2, <3>5, <3>6 DEF Prepared, Complete, Started
  <2>3. QED
    BY <1>3, <2>1, <2>2, Emitted DEF CatalogueInv, Telling
<1>4. ASSUME job'.state = "CONSOLIDATIONDONE", job'.state # job.state
      PROVE  Complete
  <2>1. ~csldInit
    BY <1>4 DEF csldInit, CatalogueInv, Typed, TypeOK
  <2>2. Heard("ConsolidationDone")
    <3>1. PICK e \in JobEvent :
             jobEvents[e] > 0 /\ <<job.state, e, job'.state>> \in ConsolidationEdges
      BY <1>4, <2>1, Moved DEF CatalogueInv
    <3>2. QED
      BY <1>4, <3>1, EdgeFacts DEF Heard
  <2>3. QED
    BY <2>2 DEF CatalogueInv, CompleteHeard
<1>5. ASSUME NEW h \in Handler, At(h, "csldIndex")', ~At(h, "csldIndex")
      PROVE  job'.state = "CONSOLIDATIONDONE"
  <2>1. MovesOn(h)
    BY <1>5, HandlerMoves DEF CatalogueInv, Stays, Stops, At
  <2>2. QED
    BY <1>5, <2>1 DEF MovesOn, At, StepOf
<1>6. QED
  BY <1>1, <1>3, <1>4, <1>5 DEF CatalogueInv, CompleteHeard

(* ConsolidationIndexed is published once every container of the plan is     *)
(* indexed (csldIndex).                                                      *)
LEMMA IndexedStep ==
    ASSUME CatalogueInv, [Next]_vars
    PROVE  IndexedHeard'
<1> SUFFICES ASSUME ~Aborted PROVE IndexedHeard'
  BY States DEF CatalogueInv, IndexedHeard
<1>1. Indexed => Indexed'
  BY DoneForGood
<1>2. ASSUME Heard("ConsolidationIndexed")', ~Heard("ConsolidationIndexed")
      PROVE  Indexed
  <2>1. PICK h \in Handler : indexDone(h)
    BY <1>2, Emitted DEF CatalogueInv, Telling
  <2>2. Complete
    BY <2>1 DEF CatalogueInv, CompleteHeard, indexDone
  <2>3. \A t \in Task : task[t] # "DONE"
    BY <2>1 DEF indexDone, Tasks
  <2>4. QED
    BY <2>2, <2>3 DEF Complete, Indexed, CatalogueInv, Typed, TypeOK
<1>3. ASSUME job'.state = "CONSOLIDATIONINDEXED", job'.state # job.state
      PROVE  Indexed
  <2>1. ~csldInit
    BY <1>3 DEF csldInit, CatalogueInv, Typed, TypeOK
  <2>2. Heard("ConsolidationIndexed")
    <3>1. PICK e \in JobEvent :
             jobEvents[e] > 0 /\ <<job.state, e, job'.state>> \in ConsolidationEdges
      BY <1>3, <2>1, Moved DEF CatalogueInv
    <3>2. QED
      BY <1>3, <3>1, EdgeFacts DEF Heard
  <2>3. QED
    BY <2>2 DEF CatalogueInv, IndexedHeard
<1>4. QED
  BY <1>1, <1>2, <1>3 DEF CatalogueInv, IndexedHeard

(* A container of the catalogue stays there. *)
LEMMA SwappedForGood ==
    ASSUME CatalogueInv, [Next]_vars, NEW t \in Task, output[t] = "ACTIVE"
    PROVE  output'[t] = "ACTIVE"
<1>1. Effect /\ output \in [Task -> {Absent, "INACTIVE", "ACTIVE"}]
  BY Effects DEF CatalogueInv, Typed, TypeOK
<1>2. task[t] = Absent
  BY DEF CatalogueInv, IndexedOnce, Absent
<1>3. ASSUME Indexes PROVE output'[t] = "ACTIVE"
  BY <1>1, <1>2, <1>3 DEF Indexes, Absent
<1>4. QED
  BY <1>1, <1>3 DEF Effect, Quiet, Starts, Prepares, Updates, Cancels, Swaps, Deletes, RollsBack,
     EndsRollback

(* DatasetsSwapped is published once the whole plan is in the catalogue      *)
(* (csldSwapDatasets).                                                       *)
LEMMA SwappedStep ==
    ASSUME CatalogueInv, [Next]_vars
    PROVE  SwappedHeard'
<1>1. plan' = plan /\ collapse' = collapse /\ plan \subseteq Task
  BY Effects DEF CatalogueInv, Typed, TypeOK
<1>2. Swapped => Swapped'
  BY <1>1, SwappedForGood DEF Swapped
<1>3. ASSUME Heard("DatasetsSwapped")', ~Heard("DatasetsSwapped")
      PROVE  Swapped'
  <2>1. PICK h \in Handler : csldSwapDatasets(h)
    BY <1>3, Emitted DEF CatalogueInv, Telling
  <2>2. job.state = "CONSOLIDATIONINDEXED"
    BY <2>1, FreshStates DEF csldSwapDatasets, FreshAt, CatalogueInv
  <2>3. Indexed
    BY <2>2 DEF CatalogueInv, IndexedHeard, Aborted, Over
  <2>4. output' = [t \in Task |-> IF output[t] = "INACTIVE" THEN "ACTIVE" ELSE output[t]]
    BY <2>1 DEF csldSwapDatasets
  <2>5. QED
    BY <1>1, <2>3, <2>4 DEF Indexed, Swapped, CatalogueInv, Typed, TypeOK
<1>4. ASSUME job'.state \in Effective, job'.state # job.state
      PROVE  Swapped
  <2>1. ~csldInit /\ job'.state # "ABORTED"
    BY <1>4 DEF csldInit, CatalogueInv, Typed, TypeOK, Effective
  <2>2. Heard("DatasetsSwapped") \/ job.state \in Effective
    <3>1. PICK e \in JobEvent :
             jobEvents[e] > 0 /\ <<job.state, e, job'.state>> \in ConsolidationEdges
      BY <1>4, <2>1, Moved DEF CatalogueInv
    <3>2. QED
      BY <1>4, <3>1, EdgeFacts DEF Heard
  <2>3. QED
    BY <2>2 DEF CatalogueInv, SwappedHeard
<1>5. QED
  BY <1>2, <1>3, <1>4 DEF CatalogueInv, SwappedHeard

(* An aborted job that has nothing left never has anything again, whatever   *)
(* late events its handlers receive (csldRollback, handleTaskEvt).           *)
LEMMA RolledBackForGood ==
    ASSUME CatalogueInv, [Next]_vars, Aborted, RolledBack
    PROVE  RolledBack'
<1>0. Effect /\ task \in [Task -> TaskState \cup {Absent}]
  BY Effects DEF CatalogueInv, Typed, TypeOK
<1>1. \A t \in Task : task[t] = Absent
  BY <1>0 DEF RolledBack, Tasks
<1>2. ~Starts /\ ~Prepares /\ ~Cancels /\ ~Indexes /\ ~Swaps /\ ~Deletes
  BY <1>1 DEF Starts, Prepares, Cancels, Indexes, Swaps, Deletes, Aborted, Over, Absent
<1>3. CASE Quiet
  BY <1>3 DEF Quiet, RolledBack, Tasks
<1>4. CASE Updates
  <2>1. \A t \in Task : task'[t] = Absent
    BY <1>1, <1>4 DEF Updates, Moves
  <2>2. Tasks(TaskState)' = {}
    BY <2>1 DEF Tasks, TaskState, Absent
  <2>3. QED
    BY <1>4, <2>2 DEF Updates, RolledBack
<1>5. CASE RollsBack
  BY <1>5 DEF RollsBack, RolledBack, Tasks, Absent
<1>6. CASE EndsRollback
  <2>1. Tasks(TaskState)' = {}
    BY <1>6 DEF EndsRollback, Moves, Tasks, TaskState, Absent
  <2>2. QED
    BY <1>6, <2>1 DEF EndsRollback, RolledBack
<1>7. QED
  BY <1>0, <1>2, <1>3, <1>4, <1>5, <1>6 DEF Effect

(* RollbackDone is published once nothing of the job is left (csldRollback). *)
LEMMA RolledBackStep ==
    ASSUME CatalogueInv, [Next]_vars
    PROVE  RolledBackHeard'
<1>1. Aborted => Aborted'
  BY States DEF CatalogueInv
<1>2. ASSUME Aborted, RolledBack PROVE RolledBack'
  BY <1>2, RolledBackForGood
<1>3. ASSUME Heard("RollbackDone")', ~Heard("RollbackDone")
      PROVE  Aborted /\ RolledBack'
  <2>1. PICK h \in Handler : rollbackDone(h)
    BY <1>3, Emitted DEF CatalogueInv, Telling
  <2>2. job.state = "ABORTED" /\ \A t \in Task : output[t] # "INACTIVE"
    BY <2>1, FreshStates DEF rollbackDone, FreshAt, CatalogueInv
  <2>3. Tasks(TaskState)' = {}
    BY <2>1 DEF rollbackDone, SetTasks, Tasks, TaskState, Absent
  <2>4. \A s \in Source : lock'[s] \notin {"INIT", "TODELETE"}
    BY <2>1 DEF rollbackDone, Absent
  <2>5. QED
    BY <2>1, <2>2, <2>3, <2>4 DEF rollbackDone, RolledBack, Aborted, Over
<1>4. QED
  BY <1>1, <1>2, <1>3 DEF CatalogueInv, RolledBackHeard

(* The readers of the catalogue: nothing lost, nothing served twice. *)
LEMMA ReadersStep ==
    ASSUME CatalogueInv, [Next]_vars
    PROVE  NothingLost' /\ ServedOnce'
<1>1. /\ plan' = plan /\ collapse' = collapse /\ Effect /\ plan \subseteq Task
      /\ \A t \in Task : Inputs[t] \subseteq Source
      /\ status \in [Source -> {"ACTIVE", "TODELETE"}]
      /\ output \in [Task -> {Absent, "INACTIVE", "ACTIVE"}]
  BY Effects, InputsAssumption DEF CatalogueInv, Typed, TypeOK
<1>2. ASSUME status' = status, \A t \in plan : (output'[t] = "ACTIVE" <=> output[t] = "ACTIVE")
      PROVE  NothingLost' /\ ServedOnce'
  BY <1>1, <1>2 DEF CatalogueInv, NothingLost, ServedOnce
<1>3. CASE Swaps
  <2>1. \A t \in plan : output[t] # Absent
    BY <1>3 DEF Swaps, CatalogueInv, IndexedHeard, Indexed, Aborted, Over
  <2>2. \A t \in plan : output'[t] = "ACTIVE"
    BY <1>1, <1>3, <2>1 DEF Swaps
  <2>3. NothingLost'
    BY <1>1, <2>2 DEF NothingLost
  <2>4. ASSUME ~collapse, NEW t \in plan, NEW s \in Inputs[t]
        PROVE  status'[s] # "ACTIVE"
    <3>1. CASE output[t] = "ACTIVE"
      BY <1>1, <1>3, <2>4, <3>1 DEF Swaps, CatalogueInv, ServedOnce
    <3>2. CASE output[t] = "INACTIVE"
      BY <1>1, <1>3, <2>4, <3>2 DEF Swaps, CatalogueInv, InputsStayLocked
    <3>3. QED
      BY <1>1, <2>1, <3>1, <3>2
  <2>5. ServedOnce'
    BY <1>1, <2>4 DEF ServedOnce
  <2>6. QED
    BY <2>3, <2>5
<1>4. CASE Indexes
  BY <1>1, <1>2, <1>4 DEF Indexes, CatalogueInv, IndexedOnce, Absent
<1>5. CASE RollsBack
  BY <1>1, <1>2, <1>5 DEF RollsBack, Absent
<1>6. CASE Quiet \/ Starts \/ Prepares \/ Updates \/ Cancels \/ Deletes \/ EndsRollback
  BY <1>1, <1>2, <1>6 DEF Quiet, Starts, Prepares, Updates, Cancels, Deletes, EndsRollback
<1>7. QED
  BY <1>1, <1>3, <1>4, <1>5, <1>6 DEF Effect

(* The invariant is inductive: every step keeps each of its parts.           *)
LEMMA CatalogueStep ==
    ASSUME CatalogueInv, [Next]_vars
    PROVE  CatalogueInv'
<1>1. Typed' /\ FreshInv'
  BY TypedStep, FreshStep DEF CatalogueInv
<1>2. QED
  BY <1>1, TakenStep, PreparedStep, CompleteStep, IndexedStep, SwappedStep, RolledBackStep,
     ReadersStep DEF CatalogueInv

(* The invariant holds before the job is submitted: no event is heard.       *)
LEMMA CatalogueInit ==
    ASSUME Init
    PROVE  CatalogueInv
<1>1. \A e \in JobEvent : ~Heard(e)
  BY DEF Init, Heard, Idle, JobEvent, UserEvent, ConsolidationEvent, DeletionEvent, Absent
<1>2. Telling \subseteq JobEvent
  BY DEF Telling, JobEvent, ConsolidationEvent
<1>3. job.state = Absent /\ \A t \in Task : ~Started(t)
  BY DEF Init, Started
<1>4. \A h \in Handler : ~handler[h].fresh /\ handler[h].pc = "idle"
  BY DEF Init, Idle
<1>5. PlanInv /\ IndexedOnce /\ InputsStayLocked /\ FreshInv /\ CancelledInv /\ PreparedInv
  BY <1>3, <1>4 DEF PlanInv, IndexedOnce, InputsStayLocked, FreshInv, CancelledInv, PreparedInv,
     Started, Absent
<1>6. PreparedHeard /\ CompleteHeard /\ IndexedHeard /\ SwappedHeard /\ RolledBackHeard
  BY <1>1, <1>2, <1>3, <1>4 DEF PreparedHeard, CompleteHeard, IndexedHeard, SwappedHeard,
     RolledBackHeard, Telling, At, Absent, Effective
<1>7. NothingLost /\ ServedOnce
  BY InputsAssumption DEF Init, NothingLost, ServedOnce, Absent
<1>8. Typed
  BY TypedInit
<1>9. QED
  BY <1>5, <1>6, <1>7, <1>8 DEF CatalogueInv

(* In any execution the events in the queue say what was done to the         *)
(* catalogue, and the job is never ahead of it (the whole of                 *)
(* consolidater.go).                                                         *)
THEOREM CatalogueCorrect == Spec => []CatalogueInv
<1>1. CatalogueInv /\ [Next]_vars => CatalogueInv'
  BY CatalogueStep
<1>2. QED
  BY CatalogueInit, <1>1, PTL DEF Spec

(* No dataset leaves the catalogue before everything it was merged into is   *)
(* in (csldSwapDatasets, csldIndex, csldRollback).                           *)
THEOREM NothingIsLost == Spec => []NothingLost
<1>1. CatalogueInv => NothingLost
  BY DEF CatalogueInv
<1>2. QED
  BY CatalogueCorrect, <1>1, PTL

(* No container is in the catalogue with the datasets it replaces            *)
(* (csldSwapDatasets).                                                       *)
THEOREM NothingIsServedTwice == Spec => []ServedOnce
<1>1. CatalogueInv => ServedOnce
  BY DEF CatalogueInv
<1>2. QED
  BY CatalogueCorrect, <1>1, PTL

(* A container is indexed by one task, once (csldIndex).                     *)
THEOREM ContainersAreIndexedOnce == Spec => []IndexedOnce
<1>1. CatalogueInv => IndexedOnce
  BY DEF CatalogueInv
<1>2. QED
  BY CatalogueCorrect, <1>1, PTL

(* The datasets to replace are locked by the job until they are replaced     *)
(* (csldPrepareOrders, csldRollback).                                        *)
THEOREM LocksAreKept == Spec => []InputsStayLocked
<1>1. CatalogueInv => InputsStayLocked
  BY DEF CatalogueInv
<1>2. QED
  BY CatalogueCorrect, <1>1, PTL

(* A job that says it is effective has replaced everything, whatever old     *)
(* events it received (handleTaskEvt, csldSendOrders, csldSwapDatasets).     *)
THEOREM EffectiveJobsAreComplete == Spec => []EffectiveIsComplete
<1>1. CatalogueInv => EffectiveIsComplete
  BY DEF CatalogueInv, SwappedHeard, Swapped, Effective, EffectiveIsComplete
<1>2. QED
  BY CatalogueCorrect, <1>1, PTL

(* A rollback that succeeds leaves nothing behind in the database            *)
(* (csldRollback).                                                           *)
THEOREM RollbacksAreClean == Spec => RollbackIsClean
<1> DEFINE Ends == job.state = "ABORTED" /\ job'.state = "FAILED" => RolledBack'
<1>1. CatalogueInv /\ CatalogueInv' /\ [Next]_vars => [Ends]_vars
  <2> SUFFICES ASSUME CatalogueInv, [Next]_vars, job.state = "ABORTED", job'.state = "FAILED"
               PROVE  RolledBack'
    OBVIOUS
  <2>1. ~csldInit
    BY DEF csldInit, CatalogueInv, Typed, TypeOK
  <2>2. "ABORTED" \notin ConsolidationPause
    BY DEF ConsolidationPause
  <2>3. PICK e \in JobEvent :
           jobEvents[e] > 0 /\ <<job.state, e, job'.state>> \in ConsolidationEdges
    BY <2>1, <2>2, Moved DEF CatalogueInv
  <2>4. Heard("RollbackDone")
    BY <2>3, EdgeFacts DEF Heard
  <2>5. RolledBack
    BY <2>4 DEF CatalogueInv, RolledBackHeard
  <2>6. Quiet
    BY <2>1, Moved DEF CatalogueInv
  <2>7. QED
    BY <2>5, <2>6 DEF RolledBack, Quiet, Tasks
<1>2. QED
  BY CatalogueCorrect, <1>1, PTL DEF Spec, RollbackIsClean
=============================================================================
