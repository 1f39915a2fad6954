-------------------------- MODULE DeletionJobProofs --------------------------
(* What TLAPS proves of DeletionJob, for any datasets, containers, handlers, *)
(* commands and numbers of faults.                                           *)
EXTENDS DeletionJob, FiniteSetTheorems, TLAPS

(* The counters make the type of the job inductive. *)
Typed == TypeOK /\ CountersMatch

-----------------------------------------------------------------------------
(* The counters *)

(* The containers to delete are finitely many. *)
LEMMA ContainersFinite ==
    ASSUME NEW C, C \subseteq Container
    PROVE  IsFiniteSet(C) /\ Cardinality(C) \in Nat
  BY ContainerAssumption, FS_Subset, FS_CardinalityType

(* Some containers leave a set of containers, others enter it. *)
LEMMA CountMoves ==
    ASSUME NEW A, NEW L, NEW G, A \subseteq Container, L \subseteq A, G \subseteq Container,
           A \cap G = {}
    PROVE  Cardinality((A \ L) \cup G) = Cardinality(A) + (Cardinality(G) - Cardinality(L))
<1>1. IsFiniteSet(A) /\ IsFiniteSet(L) /\ IsFiniteSet(G) /\ IsFiniteSet(A \ L)
  BY ContainersFinite
<1>2. A \cap L = L /\ (A \ L) \cap G = {}
  OBVIOUS
<1>3. Cardinality(A \ L) = Cardinality(A) - Cardinality(L)
  BY <1>1, <1>2, FS_Difference
<1>4. Cardinality((A \ L) \cup G) = Cardinality(A \ L) + Cardinality(G) - Cardinality({})
  BY <1>1, <1>2, FS_Union
<1>5. /\ Cardinality(A) \in Nat /\ Cardinality(L) \in Nat /\ Cardinality(G) \in Nat
      /\ Cardinality({}) = 0
  BY <1>1, FS_CardinalityType, FS_EmptySet
<1>6. QED
  BY <1>3, <1>4, <1>5

(* SetTasks moves the tasks and only the counters of the job, which stay     *)
(* those of the tasks (setTaskState, updateTaskCounters).                    *)
LEMMA SetTasksCounts ==
    ASSUME Typed, NEW new \in [Container -> TaskState \cup {Absent}], SetTasks(new)
    PROVE  /\ job' \in [state : DeletionState \cup {Absent}, waiting : BOOLEAN,
                        active : Nat, failed : Nat]
           /\ job'.state = job.state
           /\ task' \in [Container -> TaskState \cup {Absent}]
           /\ CountersMatch'
<1> DEFINE moved == {c \in Container : new[c] # task[c]}
           gain(s) == {c \in moved : new[c] = s}
           loss(s) == {c \in moved : task[c] = s}
<1>1. ASSUME NEW s
      PROVE  Cardinality(Tasks({s})') = Cardinality(Tasks({s}))
                                          + (Cardinality(gain(s)) - Cardinality(loss(s)))
  <2>1. /\ Tasks({s}) \subseteq Container /\ loss(s) \subseteq Tasks({s})
        /\ gain(s) \subseteq Container /\ Tasks({s}) \cap gain(s) = {}
    BY DEF Tasks
  <2>2. Tasks({s})' = (Tasks({s}) \ loss(s)) \cup gain(s)
    BY DEF Tasks, SetTasks
  <2> HIDE DEF moved, gain, loss
  <2>3. Cardinality((Tasks({s}) \ loss(s)) \cup gain(s)) =
            Cardinality(Tasks({s})) + (Cardinality(gain(s)) - Cardinality(loss(s)))
    BY <2>1, CountMoves
  <2>4. QED
    BY <2>2, <2>3
<1>2. /\ job'.active = job.active + (Cardinality(gain("NEW")) - Cardinality(loss("NEW")))
      /\ job'.failed = job.failed + (Cardinality(gain("FAILED")) - Cardinality(loss("FAILED")))
      /\ job'.state = job.state /\ job'.waiting = job.waiting
      /\ job' \in [state : DeletionState \cup {Absent}, waiting : BOOLEAN,
                   active : {job'.active}, failed : {job'.failed}]
  <2> DEFINE more(s) == Cardinality(gain(s)) - Cardinality(loss(s))
  <2>1. job' = [job EXCEPT !.active = @ + more("NEW"), !.failed = @ + more("FAILED")]
    BY DEF SetTasks
  <2>2. job \in [state : DeletionState \cup {Absent}, waiting : BOOLEAN, active : Nat, failed : Nat]
    BY DEF Typed, TypeOK
  <2>3. /\ job'.active = job.active + more("NEW") /\ job'.failed = job.failed + more("FAILED")
        /\ job'.state = job.state /\ job'.waiting = job.waiting
        /\ job' \in [state : DeletionState \cup {Absent}, waiting : BOOLEAN,
                     active : {job'.active}, failed : {job'.failed}]
    <3> HIDE DEF more
    <3>1. QED
      BY <2>1, <2>2
  <2>4. QED
    BY <2>3, Zenon
<1>3. CountersMatch'
  <2>1. /\ job'.active = Cardinality(Tasks({"NEW"})')
        /\ job'.failed = Cardinality(Tasks({"FAILED"})')
    <3> HIDE DEF moved, gain, loss
    <3>1. QED
      BY <1>1, <1>2 DEF CountersMatch, Typed
  <2>2. QED
    BY <2>1 DEF CountersMatch
<1>4. job'.active \in Nat /\ job'.failed \in Nat
  <2>1. Tasks({"NEW"})' \subseteq Container /\ Tasks({"FAILED"})' \subseteq Container
    BY DEF Tasks
  <2>2. QED
    BY <1>3, <2>1, ContainersFinite DEF CountersMatch
<1>5. task' \in [Container -> TaskState \cup {Absent}]
  BY DEF SetTasks
<1>6. QED
  BY <1>2, <1>3, <1>4, <1>5

-----------------------------------------------------------------------------
(* Types *)

HandlerType == [Handler -> [pc : Step \cup {"idle"}, fresh : BOOLEAN,
                            msg : JobEvent \cup {Absent}]]

(* The steps of the handlers, one by one. *)
LEMMA StepNames ==
    /\ {"publishJobCreated", "delSetToDelete", "delRemoveDatasets", "delDeleteContainers",
        "delRollback", "deleteContainers", "releaseDatasets"} \subseteq Step
    /\ \A s \in DeletionState \cup {Absent} :
          /\ StepOf(s) \in (Step \cup {"idle"}) \ {"deleteContainers", "releaseDatasets"}
          /\ StepOf(s) = "delSetToDelete" => s = "CREATED"
          /\ StepOf(s) = "delRemoveDatasets" => s = "DELETIONINPROGRESS"
          /\ StepOf(s) = "delDeleteContainers" => s = "DELETIONEFFECTIVE"
          /\ StepOf(s) = "delRollback" => s = "ABORTED"
<1>1. {"NEW", "CREATED", "DELETIONINPROGRESS", "DELETIONEFFECTIVE", "ABORTED"} \subseteq DeletionState
  BY DEF DeletionState, SharedState
<1>2. /\ StepOf("NEW") = "publishJobCreated"
      /\ StepOf("CREATED") = "delSetToDelete"
      /\ StepOf("DELETIONINPROGRESS") = "delRemoveDatasets"
      /\ StepOf("DELETIONEFFECTIVE") = "delDeleteContainers"
      /\ StepOf("ABORTED") = "delRollback"
      /\ StepOf(Absent) = "idle"
  BY DEF StepOf, Absent
<1>3. \A s : /\ StepOf(s) \notin {"deleteContainers", "releaseDatasets"}
             /\ StepOf(s) = "delSetToDelete" => s = "CREATED"
             /\ StepOf(s) = "delRemoveDatasets" => s = "DELETIONINPROGRESS"
             /\ StepOf(s) = "delDeleteContainers" => s = "DELETIONEFFECTIVE"
             /\ StepOf(s) = "delRollback" => s = "ABORTED"
  BY DEF StepOf
<1>4. QED
  BY <1>1, <1>2, <1>3 DEF Step

(* The state a job enters is a state of a deletion, along a transition or    *)
(* because a user aborts it while it waits (Trigger).                        *)
LEMMA TriggeredTypes ==
    ASSUME TypeOK, NEW e, NEW j \in Triggered(e)
    PROVE  /\ j.state \in DeletionState \cup {Absent} /\ j.waiting \in BOOLEAN
           /\ \/ j.state = job.state
              \/ <<job.state, e, j.state>> \in DeletionEdges
              \/ job.state \in DeletionPause /\ j.state = "ABORTED"
<1>1. \A edge \in DeletionEdges : edge[3] \in DeletionState
  BY DEF DeletionEdges, SharedEdges, Edges, DeletionState, SharedState
<1>2. "ABORTED" \in DeletionState
  BY DEF DeletionState, SharedState
<1>3. \A s : Waits(Level, s) \in BOOLEAN
  BY DEF Waits
<1>4. job.state \in DeletionState \cup {Absent} /\ job.waiting \in BOOLEAN
  BY DEF TypeOK
<1>5. \/ j = [state |-> job.state, waiting |-> FALSE]
      \/ j = [state |-> job.state, waiting |-> job.waiting]
      \/ \E s \in JobState : /\ j = Entering(Level, s)
                             /\ \/ <<job.state, e, s>> \in DeletionEdges
                                \/ job.state \in DeletionPause /\ s = "ABORTED"
  BY Zenon DEF Triggered, Trigger
<1>6. ASSUME NEW s \in JobState, j = Entering(Level, s),
             \/ <<job.state, e, s>> \in DeletionEdges
             \/ job.state \in DeletionPause /\ s = "ABORTED"
      PROVE  /\ j.state \in DeletionState \cup {Absent} /\ j.waiting \in BOOLEAN
             /\ \/ <<job.state, e, j.state>> \in DeletionEdges
                \/ job.state \in DeletionPause /\ j.state = "ABORTED"
  BY <1>1, <1>2, <1>3, <1>6 DEF Entering
<1>7. CASE j = [state |-> job.state, waiting |-> FALSE]
  BY <1>4, <1>7
<1>8. CASE j = [state |-> job.state, waiting |-> job.waiting]
  <2>1. j.state = job.state /\ j.waiting = job.waiting
    BY Zenon, <1>8
  <2>2. QED
    BY Zenon, <1>4, <2>1
<1>9. CASE \E s \in JobState : /\ j = Entering(Level, s)
                               /\ \/ <<job.state, e, s>> \in DeletionEdges
                                  \/ job.state \in DeletionPause /\ s = "ABORTED"
  BY ZenonT(30), <1>6, <1>9
<1>10. QED
  BY Zenon, <1>5, <1>7, <1>8, <1>9

(* A received event is acknowledged, or the job enters a state and a handler *)
(* its step (handleJobEvt).                                                  *)
LEMMA Received ==
    ASSUME TypeOK, NEW h \in Handler, NEW e \in JobEvent, Receive(h, e)
    PROVE  /\ jobEvents[e] > 0 /\ jobEvents' = [jobEvents EXCEPT ![e] = @ - 1]
           /\ UNCHANGED <<status, locked, task, file, deleting, commands, faults>>
           /\ \/ UNCHANGED <<job, handler>>
              \/ /\ job' \in [state : DeletionState \cup {Absent}, waiting : BOOLEAN,
                              active : Nat, failed : Nat]
                 /\ job'.active = job.active /\ job'.failed = job.failed
                 /\ \/ job'.state = job.state
                    \/ <<job.state, e, job'.state>> \in DeletionEdges
                    \/ job.state \in DeletionPause /\ job'.state = "ABORTED"
                 /\ \/ handler' = [Stale EXCEPT ![h] = Idle]
                    \/ handler' = [Stale EXCEPT ![h] =
                                     [pc |-> StepOf(job'.state), fresh |-> TRUE, msg |-> e]]
<1>1. /\ jobEvents[e] > 0 /\ jobEvents' = [jobEvents EXCEPT ![e] = @ - 1]
      /\ UNCHANGED <<status, locked, task, file, deleting, commands, faults>>
  BY DEF Receive, Handle
<1> DEFINE entry(n) == IF n.waiting \/ n.step = "idle" THEN Idle
                       ELSE [pc |-> n.step, fresh |-> TRUE, msg |-> e]
<1>2. \/ UNCHANGED <<job, handler>>
      \/ \E n \in Reached(e) : /\ job' = [job EXCEPT !.state = n.state, !.waiting = n.waiting]
                               /\ handler' = [Stale EXCEPT ![h] = entry(n)]
  BY DEF Receive, Handle
<1>3. ASSUME NEW n \in Reached(e),
             job' = [job EXCEPT !.state = n.state, !.waiting = n.waiting],
             handler' = [Stale EXCEPT ![h] = entry(n)]
      PROVE  /\ job' \in [state : DeletionState \cup {Absent}, waiting : BOOLEAN,
                          active : Nat, failed : Nat]
             /\ job'.active = job.active /\ job'.failed = job.failed
             /\ \/ job'.state = job.state
                \/ <<job.state, e, job'.state>> \in DeletionEdges
                \/ job.state \in DeletionPause /\ job'.state = "ABORTED"
             /\ \/ handler' = [Stale EXCEPT ![h] = Idle]
                \/ handler' = [Stale EXCEPT ![h] =
                                 [pc |-> StepOf(job'.state), fresh |-> TRUE, msg |-> e]]
  <2>1. PICK j \in Triggered(e) :
             n = [state |-> j.state, waiting |-> j.waiting, step |-> StepOf(j.state)]
    BY DEF Reached
  <2>2. n.state = j.state /\ n.waiting = j.waiting /\ n.step = StepOf(j.state)
    BY <2>1
  <2>3. /\ job' \in [state : DeletionState \cup {Absent}, waiting : BOOLEAN,
                     active : Nat, failed : Nat]
        /\ job'.active = job.active /\ job'.failed = job.failed /\ job'.state = j.state
    BY <1>3, <2>2, TriggeredTypes DEF TypeOK
  <2>4. \/ entry(n) = Idle
        \/ entry(n) = [pc |-> StepOf(job'.state), fresh |-> TRUE, msg |-> e]
    BY <2>2, <2>3
  <2> HIDE DEF entry
  <2>5. QED
    BY <1>3, <2>3, <2>4, TriggeredTypes
<1> HIDE DEF entry
<1>4. QED
  BY <1>1, <1>2, <1>3

(* The copies of a job that was saved by another handler. *)
LEMMA StaleTypes ==
    ASSUME TypeOK
    PROVE  Stale \in HandlerType
  BY DEF TypeOK, HandlerType, Stale

(* Whatever a handler does with its copy and those of the others. *)
LEMMA HandlerTypes ==
    ASSUME TypeOK, NEW h \in Handler, NEW pc \in Step \cup {"idle"}
    PROVE  /\ [Stale EXCEPT ![h] = Idle] \in HandlerType
           /\ [handler EXCEPT ![h] = Idle] \in HandlerType
           /\ [handler EXCEPT ![h].pc = pc] \in HandlerType
<1> DEFINE One == [pc : Step \cup {"idle"}, fresh : BOOLEAN, msg : JobEvent \cup {Absent}]
<1>1. Idle \in One
  BY DEF Idle
<1>2. handler \in [Handler -> One] /\ handler[h] \in One
  BY DEF TypeOK
<1>3. Stale \in [Handler -> One]
  BY StaleTypes DEF HandlerType
<1>4. [handler EXCEPT ![h].pc = pc] \in [Handler -> One]
  BY <1>2
<1> HIDE DEF One
<1>5. \A f \in [Handler -> One], x \in One : [f EXCEPT ![h] = x] \in [Handler -> One]
  OBVIOUS
<1>6. QED
  BY <1>1, <1>2, <1>3, <1>4, <1>5 DEF HandlerType, One

(* Publishing an event (publishEvent). *)
LEMMA PutTypes ==
    ASSUME TypeOK, NEW e, Put(e)
    PROVE  jobEvents' \in [JobEvent -> Nat]
<1>1. jobEvents \in [JobEvent -> Nat] /\ jobEvents' = [jobEvents EXCEPT ![e] = @ + 1]
  BY DEF TypeOK, Put
<1>2. CASE e \in JobEvent
  BY <1>1, <1>2
<1>3. CASE e \notin JobEvent
  BY <1>1, <1>3
<1>4. QED
  BY <1>2, <1>3

(* Publishing an event, or failing to. *)
LEMMA EmitTypes ==
    ASSUME TypeOK, NEW h \in Handler, NEW e, Emit(h, e)
    PROVE  jobEvents' \in [JobEvent -> Nat] /\ faults' \in Nat
  BY PutTypes DEF Emit, TypeOK, Fault, NoFault

(* Every step keeps the types and the counters: one step of proof by action. *)
LEMMA TypedStep ==
    ASSUME Typed, [Next]_vars
    PROVE  Typed'
<1> USE DEF Typed
<1>h. /\ job \in [state : DeletionState \cup {Absent}, waiting : BOOLEAN,
                  active : Nat, failed : Nat]
      /\ status \in [Dataset -> {Absent, "ACTIVE", "TODELETE"}]
      /\ locked \subseteq Chosen
      /\ deleting \in [Handler -> [left : SUBSET Container, failed : SUBSET Container]]
      /\ handler \in HandlerType
  BY DEF TypeOK, HandlerType
<1>c. ASSUME UNCHANGED <<job, task>>
      PROVE  CountersMatch'
  BY <1>c DEF CountersMatch, Tasks
<1>d. ASSUME NEW h \in Handler
      PROVE  [deleting EXCEPT ![h] = Nothing] \in
                 [Handler -> [left : SUBSET Container, failed : SUBSET Container]]
  BY <1>h DEF Nothing
<1>1. CASE delInit
  <2>1. /\ job' \in [state : DeletionState \cup {Absent}, waiting : BOOLEAN,
                     active : Nat, failed : Nat]
        /\ job'.active = job.active /\ job'.failed = job.failed
    BY <1>1, <1>h DEF delInit, DeletionState, SharedState
  <2>2. CountersMatch'
    BY <1>1, <2>1 DEF delInit, CountersMatch, Tasks
  <2>3. jobEvents' \in [JobEvent -> Nat] /\ faults' \in Nat
    BY <1>1, PutTypes DEF delInit, Fault, NoFault, TypeOK
  <2>4. locked' \subseteq Chosen
    BY <1>1 DEF delInit
  <2>5. QED
    BY <1>1, <2>1, <2>2, <2>3, <2>4 DEF delInit, TypeOK
<1>2. ASSUME NEW c \in Commands, Command(c)
      PROVE  Typed'
  BY <1>2, <1>c, PutTypes DEF Command, Send, TypeOK
<1>3. ASSUME NEW h \in Handler, NEW e \in JobEvent, Receive(h, e)
      PROVE  Typed'
  <2>1. /\ jobEvents[e] > 0 /\ jobEvents' = [jobEvents EXCEPT ![e] = @ - 1]
        /\ UNCHANGED <<status, locked, task, file, deleting, commands, faults>>
    BY <1>3, Received
  <2>2. jobEvents' \in [JobEvent -> Nat]
    BY <2>1 DEF TypeOK
  <2>3. CASE UNCHANGED <<job, handler>>
    BY <1>c, <2>1, <2>2, <2>3 DEF TypeOK
  <2>4. CASE ~UNCHANGED <<job, handler>>
    <3>1. /\ job' \in [state : DeletionState \cup {Absent}, waiting : BOOLEAN,
                       active : Nat, failed : Nat]
          /\ job'.active = job.active /\ job'.failed = job.failed
          /\ \/ handler' = [Stale EXCEPT ![h] = Idle]
             \/ handler' = [Stale EXCEPT ![h] =
                              [pc |-> StepOf(job'.state), fresh |-> TRUE, msg |-> e]]
      BY <1>3, <2>4, Received
    <3>2. StepOf(job'.state) \in Step \cup {"idle"}
      BY <3>1, StepNames
    <3>3. handler' \in HandlerType
      <4>1. /\ [pc |-> StepOf(job'.state), fresh |-> TRUE, msg |-> e] \in
                    [pc : Step \cup {"idle"}, fresh : BOOLEAN, msg : JobEvent \cup {Absent}]
            /\ Idle \in [pc : Step \cup {"idle"}, fresh : BOOLEAN, msg : JobEvent \cup {Absent}]
        BY <3>2 DEF Idle
      <4>2. QED
        BY <3>1, <4>1, StaleTypes DEF HandlerType
    <3>4. CountersMatch'
      BY <2>1, <3>1 DEF CountersMatch, Tasks
    <3>5. QED
      BY <2>1, <2>2, <3>1, <3>3, <3>4 DEF TypeOK, HandlerType
  <2>5. QED
    BY <2>3, <2>4
<1>4. ASSUME NEW h \in Handler, Crash(h) \/ StepFails(h) \/ publishJobCreated(h)
      PROVE  Typed'
  <2>1. jobEvents' \in [JobEvent -> Nat] /\ faults' \in Nat
    BY <1>4, PutTypes, EmitTypes
       DEF Crash, Stop, StepFails, Fails, publishJobCreated, JustEmit, Fault, TypeOK
  <2>2. handler' \in HandlerType
    BY <1>4, HandlerTypes, StepNames
       DEF Crash, Stop, StepFails, Fails, publishJobCreated, JustEmit
  <2>3. /\ UNCHANGED <<job, status, locked, task, file, commands>>
        /\ deleting' = deleting \/ deleting' = [deleting EXCEPT ![h] = Nothing]
    BY <1>4 DEF Crash, StepFails, publishJobCreated
  <2>4. QED
    BY <2>1, <2>2, <2>3, <1>c, <1>d DEF TypeOK, HandlerType
<1>5. ASSUME NEW h \in Handler, delSetToDelete(h)
      PROVE  Typed'
  <2>1. /\ handler' \in HandlerType
        /\ jobEvents' \in [JobEvent -> Nat] /\ faults' \in Nat
    BY <1>5, HandlerTypes, EmitTypes DEF delSetToDelete, SaveAndEmit
  <2>2. status' \in [Dataset -> {Absent, "ACTIVE", "TODELETE"}]
    BY <1>5, <1>h DEF delSetToDelete, ChangeDatasetsStatus
  <2>3. QED
    BY <1>5, <1>c, <2>1, <2>2 DEF delSetToDelete, TypeOK, HandlerType
<1>6. ASSUME NEW h \in Handler, delRemoveDatasets(h)
      PROVE  Typed'
  <2> DEFINE removed == {d \in locked : status[d] = "TODELETE"}
             new == [c \in Container |-> IF c \in Emptied(removed) \cap Managed THEN "NEW"
                                         ELSE task[c]]
  <2>1. /\ handler' \in HandlerType
        /\ jobEvents' \in [JobEvent -> Nat] /\ faults' \in Nat
    BY <1>6, HandlerTypes, EmitTypes DEF delRemoveDatasets, SaveAndEmit
  <2>2. status' \in [Dataset -> {Absent, "ACTIVE", "TODELETE"}]
    BY <1>6, <1>h DEF delRemoveDatasets
  <2>3. new \in [Container -> TaskState \cup {Absent}]
    BY DEF TypeOK, TaskState
  <2>4. SetTasks(new)
    BY <1>6 DEF delRemoveDatasets
  <2>5. /\ job' \in [state : DeletionState \cup {Absent}, waiting : BOOLEAN,
                     active : Nat, failed : Nat]
        /\ task' \in [Container -> TaskState \cup {Absent}]
        /\ CountersMatch'
    BY <2>3, <2>4, SetTasksCounts
  <2>6. locked' = {} /\ UNCHANGED <<file, deleting, commands>>
    BY <1>6 DEF delRemoveDatasets
  <2>7. QED
    BY <2>1, <2>2, <2>5, <2>6 DEF TypeOK, HandlerType
<1>7. ASSUME NEW h \in Handler, delDeleteContainers(h)
      PROVE  Typed'
  <2>1. handler' \in HandlerType
    BY <1>7, HandlerTypes, StepNames DEF delDeleteContainers, JustEmit
  <2>2. jobEvents' \in [JobEvent -> Nat] /\ faults' \in Nat
    BY <1>7, EmitTypes DEF delDeleteContainers, JustEmit, TypeOK
  <2>3. deleting' \in [Handler -> [left : SUBSET Container, failed : SUBSET Container]]
    BY <1>7, <1>h DEF delDeleteContainers, ToDelete, Tasks
  <2>4. UNCHANGED <<job, status, locked, task, file, commands>>
    BY <1>7 DEF delDeleteContainers
  <2>5. QED
    BY <2>1, <2>2, <2>3, <2>4, <1>c DEF TypeOK, HandlerType
<1>8. ASSUME NEW h \in Handler, NEW c \in Container, deleteContainer(h, c)
      PROVE  Typed'
  <2>1. deleting' \in [Handler -> [left : SUBSET Container, failed : SUBSET Container]]
    BY <1>8, <1>h DEF deleteContainer
  <2>2. file' \subseteq Container /\ faults' \in Nat
    BY <1>8 DEF deleteContainer, Fault, NoFault, TypeOK
  <2>3. UNCHANGED <<job, status, locked, task, jobEvents, handler, commands>>
    BY <1>8 DEF deleteContainer
  <2>4. QED
    BY <2>1, <2>2, <2>3, <1>c DEF TypeOK, HandlerType
<1>9. ASSUME NEW h \in Handler, saveDeletions(h)
      PROVE  Typed'
  <2>1. /\ handler' \in HandlerType
        /\ jobEvents' \in [JobEvent -> Nat] /\ faults' \in Nat
    BY <1>9, HandlerTypes, EmitTypes DEF saveDeletions, SaveAndEmit
  <2>2. Remaining(h) \in [Container -> TaskState \cup {Absent}]
    BY DEF Remaining, TaskState
  <2>3. SetTasks(Remaining(h))
    BY <1>9 DEF saveDeletions
  <2>4. /\ job' \in [state : DeletionState \cup {Absent}, waiting : BOOLEAN,
                     active : Nat, failed : Nat]
        /\ task' \in [Container -> TaskState \cup {Absent}]
        /\ CountersMatch'
    BY <2>2, <2>3, SetTasksCounts
  <2>5. /\ UNCHANGED <<status, locked, file, commands>>
        /\ deleting' = [deleting EXCEPT ![h] = Nothing]
    BY <1>9 DEF saveDeletions
  <2>6. QED
    BY <1>d, <2>1, <2>4, <2>5 DEF TypeOK, HandlerType
<1>10. ASSUME NEW h \in Handler, delRollback(h)
       PROVE  Typed'
  <2>1. handler' \in HandlerType
    BY <1>10, HandlerTypes, StepNames DEF delRollback
  <2>2. status' \in [Dataset -> {Absent, "ACTIVE", "TODELETE"}]
    BY <1>10, <1>h DEF delRollback, ChangeDatasetsStatus
  <2>3. QED
    BY <1>10, <1>c, <2>1, <2>2 DEF delRollback, TypeOK, HandlerType
<1>11. ASSUME NEW h \in Handler, releaseDatasets(h)
       PROVE  Typed'
  <2>1. /\ handler' \in HandlerType
        /\ jobEvents' \in [JobEvent -> Nat] /\ faults' \in Nat
    BY <1>11, HandlerTypes, EmitTypes DEF releaseDatasets, SaveAndEmit
  <2>2. QED
    BY <1>11, <1>c, <2>1 DEF releaseDatasets, TypeOK, HandlerType
<1>12. ASSUME NEW e \in JobEvent, duplicateJobEvent(e)
       PROVE  Typed'
  BY <1>12, <1>c, PutTypes DEF duplicateJobEvent, TypeOK, Fault
<1>13. CASE UNCHANGED vars
  BY <1>13, <1>c DEF vars, TypeOK
<1>14. QED
  BY <1>1, <1>2, <1>3, <1>4, <1>5, <1>6, <1>7, <1>8, <1>9, <1>10, <1>11, <1>12, <1>13
     DEF Next, HandlerStep

(* The steps of a deletion job keep its types, and its counters are those of *)
(* its tasks (setTaskState).                                                 *)
THEOREM TypeCorrect == Spec => [](TypeOK /\ CountersMatch)
<1>1. Init => Typed
  <2> SUFFICES ASSUME Init
               PROVE  Typed
    OBVIOUS
  <2>1. Tasks({"NEW"}) = {} /\ Tasks({"FAILED"}) = {}
    BY DEF Init, Tasks, Absent
  <2>2. CountersMatch
    BY <2>1, FS_EmptySet DEF Init, CountersMatch
  <2>3. TypeOK
    BY ContainerAssumption DEF Init, TypeOK, Nothing, Idle
  <2>4. QED
    BY <2>2, <2>3 DEF Typed
<1>2. Typed /\ [Next]_vars => Typed'
  BY TypedStep
<1>3. QED
  BY <1>1, <1>2, PTL DEF Spec, Typed

-----------------------------------------------------------------------------
(* The phases of the job *)

(* Before the datasets are hidden, while they are removed, after, and never. *)
Before == {"NEW", "CREATED", "INITIALISATIONFAILED"}
Removing == {"DELETIONINPROGRESS", "DELETIONFAILED"}
Removed == {"DELETIONEFFECTIVE", "DONEBUTUNTIDY", "DONE"}
Aborting == {"ABORTED", "ROLLBACKFAILED", "FAILED"}

(* What the automaton says of the phases (job.go). *)
LEMMA EdgeFacts ==
    ASSUME NEW from, NEW e, NEW to, <<from, e, to>> \in DeletionEdges
    PROVE  /\ from # Absent /\ to # Absent
           /\ to \in Before => from \in Before
           /\ to \in Removing => from \in Removing \/ (from \in Before /\ e = "DeletionReady")
           /\ to \in Removed => from \in Removed \/ e = "RemovalDone"
           /\ to = "DONE" => e = "DeletionDone"
           /\ from \in Aborting => to \in Aborting
           /\ from = "ABORTED" /\ to = "FAILED" => e = "RollbackDone"
           /\ to \in Before \cup Removing \cup Removed \cup Aborting
  BY DEF DeletionEdges, SharedEdges, Edges, AnyRetry, AnyCancel, Before, Removing, Removed,
         Aborting, Absent

(* An event the job may receive, now or again. *)
Heard(e) == jobEvents[e] > 0 \/ \E h \in Handler : handler[h].msg = e

(* The rows and the files, which no event changes. *)
Quiet == UNCHANGED <<status, locked, task, file, deleting>>

(* How the state of the job changes. *)
LEMMA Moved ==
    ASSUME Typed, [Next]_vars, job'.state # job.state
    PROVE  \/ delInit
           \/ /\ Quiet
              /\ \E h \in Handler, e \in JobEvent : Receive(h, e)
              /\ \/ \E e \in JobEvent : Heard(e) /\ <<job.state, e, job'.state>> \in DeletionEdges
                 \/ job.state \in DeletionPause /\ job'.state = "ABORTED"
<1>1. ASSUME NEW h \in Handler, NEW e \in JobEvent, Receive(h, e)
      PROVE  /\ Quiet /\ Heard(e)
             /\ \/ <<job.state, e, job'.state>> \in DeletionEdges
                \/ job.state \in DeletionPause /\ job'.state = "ABORTED"
  BY <1>1, Received DEF Typed, Quiet, Heard
<1>2. ASSUME NEW h \in Handler, delRemoveDatasets(h) \/ saveDeletions(h)
      PROVE  FALSE
  <2>1. \A new : SetTasks(new) => job'.state = job.state
    BY DEF SetTasks, Typed, TypeOK
  <2>2. QED
    BY <1>2, <2>1 DEF delRemoveDatasets, saveDeletions
<1>3. ASSUME NEW h \in Handler,
             \/ Crash(h) \/ StepFails(h) \/ publishJobCreated(h) \/ delSetToDelete(h)
             \/ delDeleteContainers(h) \/ delRollback(h) \/ releaseDatasets(h)
             \/ \E c \in Container : deleteContainer(h, c)
      PROVE  job' = job
  BY <1>3 DEF Crash, StepFails, publishJobCreated, delSetToDelete, delDeleteContainers,
              delRollback, releaseDatasets, deleteContainer
<1>4. /\ \A c \in Commands : Command(c) => job' = job
      /\ \A e \in JobEvent : duplicateJobEvent(e) => job' = job
      /\ UNCHANGED vars => job' = job
  BY DEF Command, duplicateJobEvent, vars
<1>5. QED
  BY <1>1, <1>2, <1>3, <1>4 DEF Next, HandlerStep

(* What a handler runs: what it ran, nothing, the step of the state entered, *)
(* or the second half of a step.                                             *)
LEMMA HandlerMoves ==
    ASSUME Typed, [Next]_vars, NEW g \in Handler
    PROVE  \/ handler'[g].pc = handler[g].pc /\ (handler'[g].fresh => handler[g].fresh)
           \/ handler'[g].pc = "idle"
           \/ Quiet /\ handler'[g].pc = StepOf(job'.state)
           \/ delDeleteContainers(g) /\ handler'[g].pc = "deleteContainers"
           \/ delRollback(g) /\ handler'[g].pc = "releaseDatasets"
<1>t. handler \in HandlerType
  BY DEF Typed, TypeOK, HandlerType
<1>s. /\ Stale[g].pc = handler[g].pc /\ Stale[g].fresh = FALSE
      /\ Idle.pc = "idle"
      /\ \A x : \A h \in Handler :
             /\ [Stale EXCEPT ![h] = x][g] = IF g = h THEN x ELSE Stale[g]
             /\ [handler EXCEPT ![h] = x][g] = IF g = h THEN x ELSE handler[g]
  <2>1. Stale[g] = [handler[g] EXCEPT !.fresh = FALSE]
    BY DEF Stale
  <2>2. handler[g] \in [pc : Step \cup {"idle"}, fresh : BOOLEAN, msg : JobEvent \cup {Absent}]
    BY <1>t DEF HandlerType
  <2>3. DOMAIN Stale = Handler /\ DOMAIN handler = Handler
    BY <1>t DEF HandlerType, Stale
  <2>4. Stale = [h \in Handler |-> Stale[h]] /\ handler = [h \in Handler |-> handler[h]]
    BY <1>t DEF HandlerType, Stale
  <2>5. Stale[g].pc = handler[g].pc /\ Stale[g].fresh = FALSE
    BY <2>1, <2>2
  <2>6. Idle.pc = "idle"
    BY DEF Idle
  <2>7. \A x : \A h \in Handler :
            /\ [Stale EXCEPT ![h] = x][g] = IF g = h THEN x ELSE Stale[g]
            /\ [handler EXCEPT ![h] = x][g] = IF g = h THEN x ELSE handler[g]
    BY <2>4
  <2>8. QED
    BY <2>5, <2>6, <2>7
<1>1. ASSUME NEW h \in Handler,
             \/ handler' = handler
             \/ handler' = [handler EXCEPT ![h] = Idle]
             \/ handler' = [Stale EXCEPT ![h] = Idle]
      PROVE  \/ handler'[g].pc = handler[g].pc /\ (handler'[g].fresh => handler[g].fresh)
             \/ handler'[g].pc = "idle"
  BY <1>1, <1>s
<1>2. ASSUME NEW h \in Handler, NEW e \in JobEvent, Receive(h, e)
      PROVE  \/ handler'[g].pc = handler[g].pc /\ (handler'[g].fresh => handler[g].fresh)
             \/ handler'[g].pc = "idle"
             \/ Quiet /\ handler'[g].pc = StepOf(job'.state)
  <2>1. CASE handler' = [Stale EXCEPT ![h] =
                           [pc |-> StepOf(job'.state), fresh |-> TRUE, msg |-> e]]
    <3>1. Quiet
      BY <1>2, Received DEF Quiet, Typed
    <3>2. [pc |-> StepOf(job'.state), fresh |-> TRUE, msg |-> e].pc = StepOf(job'.state)
      OBVIOUS
    <3>3. \/ g = h /\ handler'[g] = [pc |-> StepOf(job'.state), fresh |-> TRUE, msg |-> e]
          \/ handler'[g] = Stale[g]
      BY <1>s, <2>1
    <3>4. QED
      BY <1>s, <3>1, <3>2, <3>3
  <2>2. QED
    BY <1>1, <1>2, <2>1, Received DEF Typed
<1>3. ASSUME NEW h \in Handler,
             \/ Crash(h) \/ StepFails(h) \/ publishJobCreated(h) \/ delSetToDelete(h)
             \/ delRemoveDatasets(h) \/ saveDeletions(h) \/ releaseDatasets(h)
             \/ \E c \in Container : deleteContainer(h, c)
      PROVE  \/ handler' = handler
             \/ handler' = [handler EXCEPT ![h] = Idle]
             \/ handler' = [Stale EXCEPT ![h] = Idle]
  BY <1>3 DEF Crash, Stop, StepFails, Fails, publishJobCreated, delSetToDelete, delRemoveDatasets,
              saveDeletions, releaseDatasets, deleteContainer, JustEmit, SaveAndEmit
<1>4. ASSUME NEW h \in Handler, delDeleteContainers(h)
      PROVE  \/ handler'[g].pc = handler[g].pc /\ (handler'[g].fresh => handler[g].fresh)
             \/ handler'[g].pc = "idle"
             \/ delDeleteContainers(g) /\ handler'[g].pc = "deleteContainers"
  <2>1. CASE handler' = [handler EXCEPT ![h].pc = "deleteContainers"]
    BY <1>4, <1>t, <2>1 DEF HandlerType
  <2>2. QED
    BY <1>1, <1>4, <2>1 DEF delDeleteContainers, JustEmit
<1>5. ASSUME NEW h \in Handler, delRollback(h)
      PROVE  \/ handler'[g].pc = handler[g].pc /\ (handler'[g].fresh => handler[g].fresh)
             \/ delRollback(g) /\ handler'[g].pc = "releaseDatasets"
  BY <1>5, <1>t DEF HandlerType, delRollback
<1>6. \/ delInit \/ (\E c \in Commands : Command(c)) \/ (\E e \in JobEvent : duplicateJobEvent(e))
      \/ UNCHANGED vars
      => handler' = handler
  BY DEF delInit, Command, duplicateJobEvent, vars
<1>7. QED
  BY <1>1, <1>2, <1>3, <1>4, <1>5, <1>6 DEF Next, HandlerStep

(* The events that tell of something done; their senders, who may fail to.   *)
Telling == {"DeletionReady", "RemovalDone", "DeletionDone", "RollbackDone"}

Tells(h, e) ==
    \/ delSetToDelete(h) /\ e = "DeletionReady"
    \/ delRemoveDatasets(h) /\ e = "RemovalDone"
    \/ delDeleteContainers(h) /\ ToDelete = {} /\ e = "DeletionDone"
    \/ saveDeletions(h) /\ deleting[h].failed = {} /\ e = "DeletionDone"
    \/ releaseDatasets(h) /\ e = "RollbackDone"

(* What may be received after a message was published, or after a handler    *)
(* published or lost the last one of its own (publishEvent).                 *)
LEMMA HeardPut ==
    ASSUME Typed, NEW x, Put(x), NEW e \in JobEvent,
           \A h \in Handler : handler'[h].msg = handler[h].msg \/ handler'[h].msg = Absent,
           Heard(e)'
    PROVE  Heard(e) \/ e = x
<1>1. jobEvents \in [JobEvent -> Nat] /\ jobEvents' = [jobEvents EXCEPT ![x] = @ + 1]
  BY DEF Typed, TypeOK, Put
<1>2. e # Absent
  BY DEF JobEvent, UserEvent, ConsolidationEvent, DeletionEvent, Absent
<1>3. jobEvents'[e] > 0 => jobEvents[e] > 0 \/ e = x
  BY <1>1
<1>4. QED
  BY <1>2, <1>3 DEF Heard

LEMMA HeardEmit ==
    ASSUME Typed, NEW h \in Handler, NEW x, Emit(h, x), NEW e \in JobEvent,
           \A g \in Handler : handler'[g].msg = handler[g].msg \/ handler'[g].msg = Absent,
           Heard(e)'
    PROVE  Heard(e) \/ e = x
<1>1. e # Absent
  BY DEF JobEvent, UserEvent, ConsolidationEvent, DeletionEvent, Absent
<1>2. CASE UNCHANGED jobEvents
  BY <1>1, <1>2 DEF Heard
<1>3. CASE Put(handler[h].msg)
  BY <1>3, HeardPut DEF Heard
<1>4. QED
  BY <1>2, <1>3, HeardPut DEF Emit

(* What a handler holds: what it held, or nothing. *)
LEMMA Messages ==
    ASSUME Typed, NEW h \in Handler,
           \/ handler' = handler
           \/ handler' = [handler EXCEPT ![h] = Idle]
           \/ handler' = [Stale EXCEPT ![h] = Idle]
           \/ \E pc : handler' = [handler EXCEPT ![h].pc = pc]
    PROVE  \A g \in Handler : handler'[g].msg = handler[g].msg \/ handler'[g].msg = Absent
<1> TAKE g \in Handler
<1>1. handler \in [Handler -> [pc : Step \cup {"idle"}, fresh : BOOLEAN, msg : JobEvent \cup {Absent}]]
  BY DEF Typed, TypeOK
<1>2. CASE handler' = handler
  BY <1>2
<1>3. CASE handler' = [handler EXCEPT ![h] = Idle]
  BY <1>1, <1>3 DEF Idle
<1>4. CASE handler' = [Stale EXCEPT ![h] = Idle]
  <2>1. Stale = [k \in Handler |-> [handler[k] EXCEPT !.fresh = FALSE]]
    BY DEF Stale
  <2>2. [handler[g] EXCEPT !.fresh = FALSE].msg = handler[g].msg
    BY <1>1
  <2>3. Idle.msg = Absent
    BY DEF Idle
  <2>4. handler'[g] = Idle \/ handler'[g] = [handler[g] EXCEPT !.fresh = FALSE]
    BY <1>4, <2>1
  <2>5. QED
    BY <2>2, <2>3, <2>4
<1>5. CASE \E pc : handler' = [handler EXCEPT ![h].pc = pc]
  BY <1>1, <1>5
<1>6. QED
  BY <1>2, <1>3, <1>4, <1>5

(* An event that tells of something may be received only after a handler     *)
(* that did it sent it, or if it could be received already.                  *)
LEMMA HeardMoves ==
    ASSUME Typed, [Next]_vars, NEW e \in Telling, Heard(e)'
    PROVE  Heard(e) \/ \E h \in Handler : Tells(h, e)
<1>e. /\ e \in JobEvent /\ e \notin UserEvent /\ e # "JobCreated"
      /\ \A pc : e # FailureOf(pc)
      /\ e # "DeletionFailed"
  BY DEF Telling, JobEvent, UserEvent, DeletionEvent, FailureOf
<1>t. jobEvents \in [JobEvent -> Nat]
  BY DEF Typed, TypeOK
<1>1. CASE delInit
  <2>1. handler' = handler /\ (Put("JobCreated") \/ UNCHANGED jobEvents)
    BY <1>1 DEF delInit
  <2>2. QED
    BY <1>e, <2>1, HeardPut DEF Heard
<1>2. ASSUME NEW c \in Commands, Command(c)
      PROVE  Heard(e)
  <2>1. handler' = handler /\ Put(c) /\ c \in UserEvent
    BY <1>2, CommandsAssumption DEF Command, Send
  <2>2. QED
    BY <1>e, <2>1, HeardPut
<1>3. ASSUME NEW h \in Handler, NEW x \in JobEvent, Receive(h, x)
      PROVE  Heard(e)
  <2>1. jobEvents[x] > 0 /\ jobEvents' = [jobEvents EXCEPT ![x] = @ - 1]
    BY <1>3, Received DEF Typed
  <2>2. \A g \in Handler : \/ handler'[g].msg = handler[g].msg
                           \/ handler'[g].msg \in {x, Absent}
    <3>1. CASE handler' = [Stale EXCEPT ![h] =
                             [pc |-> StepOf(job'.state), fresh |-> TRUE, msg |-> x]]
      <4> TAKE g \in Handler
      <4>1. Stale = [k \in Handler |-> [handler[k] EXCEPT !.fresh = FALSE]]
        BY DEF Stale
      <4>2. [handler[g] EXCEPT !.fresh = FALSE].msg = handler[g].msg
        BY DEF Typed, TypeOK
      <4>3. [pc |-> StepOf(job'.state), fresh |-> TRUE, msg |-> x].msg = x
        OBVIOUS
      <4>4. \/ handler'[g] = [pc |-> StepOf(job'.state), fresh |-> TRUE, msg |-> x]
            \/ handler'[g] = [handler[g] EXCEPT !.fresh = FALSE]
        BY <3>1, <4>1
      <4>5. QED
        BY <4>2, <4>3, <4>4
    <3>2. CASE handler' = handler \/ handler' = [Stale EXCEPT ![h] = Idle]
      BY <3>2, Messages
    <3>3. QED
      BY <1>3, <3>1, <3>2, Received DEF Typed
  <2>3. jobEvents'[e] > 0 => jobEvents[e] > 0
    BY <1>e, <1>t, <2>1
  <2>4. e # Absent
    BY <1>e DEF JobEvent, UserEvent, ConsolidationEvent, DeletionEvent, Absent
  <2>5. QED
    BY <2>1, <2>2, <2>3, <2>4 DEF Heard
<1>4. ASSUME NEW h \in Handler, Crash(h) \/ StepFails(h) \/ publishJobCreated(h)
      PROVE  Heard(e)
  <2>1. \A g \in Handler : handler'[g].msg = handler[g].msg \/ handler'[g].msg = Absent
    BY <1>4, Messages
       DEF Crash, Stop, StepFails, Fails, publishJobCreated, JustEmit
  <2>2. \/ Put(handler[h].msg)
        \/ Emit(h, "JobCreated")
        \/ Emit(h, FailureOf(handler[h].pc))
        \/ Put(FailureOf(handler[h].pc))
    BY <1>4 DEF Crash, Stop, StepFails, Fails, publishJobCreated, JustEmit
  <2>3. QED
    BY <1>e, <2>1, <2>2, HeardPut, HeardEmit DEF Heard
<1>5. ASSUME NEW h \in Handler, NEW x,
             \/ delSetToDelete(h) /\ x = "DeletionReady"
             \/ delRemoveDatasets(h) /\ x = "RemovalDone"
             \/ delDeleteContainers(h) /\ ToDelete = {} /\ x = "DeletionDone"
             \/ saveDeletions(h) /\ deleting[h].failed = {} /\ x = "DeletionDone"
             \/ saveDeletions(h) /\ deleting[h].failed # {} /\ x = "DeletionFailed"
             \/ releaseDatasets(h) /\ x = "RollbackDone"
      PROVE  Heard(e) \/ Tells(h, e)
  <2>1. \A g \in Handler : handler'[g].msg = handler[g].msg \/ handler'[g].msg = Absent
    BY <1>5, Messages
       DEF delSetToDelete, delRemoveDatasets, delDeleteContainers, saveDeletions, releaseDatasets,
           SaveAndEmit, JustEmit
  <2>2. Emit(h, x)
    BY <1>5
       DEF delSetToDelete, delRemoveDatasets, delDeleteContainers, saveDeletions, releaseDatasets,
           SaveAndEmit, JustEmit
  <2>3. Heard(e) \/ e = x
    BY <1>e, <2>1, <2>2, HeardEmit
  <2>4. QED
    BY <1>5, <1>e, <2>3 DEF Tells
<1>6. ASSUME NEW h \in Handler,
             \/ delDeleteContainers(h) /\ ToDelete # {}
             \/ delRollback(h)
             \/ \E c \in Container : deleteContainer(h, c)
      PROVE  Heard(e)
  <2>1. \A g \in Handler : handler'[g].msg = handler[g].msg \/ handler'[g].msg = Absent
    BY <1>6, Messages DEF delDeleteContainers, delRollback, deleteContainer
  <2>2. jobEvents' = jobEvents
    BY <1>6 DEF delDeleteContainers, delRollback, deleteContainer
  <2>3. e # Absent
    BY <1>e DEF JobEvent, UserEvent, ConsolidationEvent, DeletionEvent, Absent
  <2>4. QED
    BY <2>1, <2>2, <2>3 DEF Heard
<1>7. ASSUME NEW x \in JobEvent, duplicateJobEvent(x)
      PROVE  Heard(e)
  <2>1. handler' = handler /\ Put(x) /\ jobEvents[x] > 0
    BY <1>7 DEF duplicateJobEvent
  <2>2. Heard(e) \/ e = x
    BY <1>e, <2>1, HeardPut
  <2>3. QED
    BY <2>1, <2>2 DEF Heard
<1>8. CASE UNCHANGED vars
  BY <1>8 DEF vars, Heard
<1>9. QED
  BY <1>1, <1>2, <1>3, <1>4, <1>5, <1>6, <1>7, <1>8 DEF Next, HandlerStep

-----------------------------------------------------------------------------
(* The inductive invariant *)

Gone == \A d \in Chosen : status[d] = Absent
Clean == \A c \in file \cap Managed : c \in Registered
Shown == \A d \in Dataset : status[d] # "TODELETE"
Released == locked = {} /\ Shown

(* The files that a task or a handler may delete belong to no dataset, and a *)
(* handler that may save has tried to delete the files of all the tasks.     *)
FilesInv ==
    /\ NoDanglingDataset
    /\ NoForgottenFile
    /\ \A c \in Container : task[c] # Absent => c \notin Registered
    /\ \A h \in Handler : \A c \in deleting[h].left \cup deleting[h].failed : c \notin Registered
    /\ \A h \in Handler : FreshAt(h, "deleteContainers") =>
           \A c \in file : task[c] # Absent => c \in deleting[h].left \cup deleting[h].failed

(* What the phase of the job says of its datasets. *)
LocksInv ==
    /\ HiddenIsLocked
    /\ \A d \in Dataset : status[d] = "TODELETE" => d \in Chosen
    /\ job.state \in {Absent} \cup Before => \A d \in Chosen : status[d] # Absent
    /\ job.state \in Before => locked = Chosen
    /\ job.state \in Removing =>
           \A d \in Chosen : status[d] = Absent \/ (d \in locked /\ status[d] = "TODELETE")
    /\ job.state \in Removed => Gone

(* Where the handlers may be, even on a stale copy. *)
HandlersInv ==
    \A h \in Handler :
        /\ FreshAt(h, "delSetToDelete") => job.state = "CREATED"
        /\ FreshAt(h, "delRemoveDatasets") => job.state = "DELETIONINPROGRESS"
        /\ At(h, "delRollback") => job.state \in Aborting
        /\ At(h, "releaseDatasets") => job.state \in Aborting /\ Shown
        /\ At(h, "delDeleteContainers") \/ At(h, "deleteContainers") => Gone /\ job.state # Absent

(* What was done when an event says so. *)
EventsInv ==
    /\ \A e \in Telling : Heard(e) => job.state # Absent
    /\ Heard("DeletionReady") /\ job.state \in Before => \A d \in Chosen : status[d] = "TODELETE"
    /\ Heard("RemovalDone") => Gone
    /\ Heard("DeletionDone") \/ job.state = "DONE" => Gone /\ Clean
    /\ Heard("RollbackDone") => Released

DeletionInv == Typed /\ FilesInv /\ LocksInv /\ HandlersInv /\ EventsInv

(* No step moves a dataset back into the catalogue. *)
LEMMA NothingComesBack ==
    ASSUME Typed, [Next]_vars
    PROVE  /\ \A d \in Dataset : status[d] = Absent => status'[d] = Absent
           /\ Registered' \subseteq Registered
<1>1. status \in [Dataset -> {Absent, "ACTIVE", "TODELETE"}]
  BY DEF Typed, TypeOK
<1>2. "ACTIVE" # Absent /\ "TODELETE" # Absent
  BY DEF Absent
<1>3. ASSUME NEW from, from # Absent, NEW to, ChangeDatasetsStatus(from, to)
      PROVE  \A d \in Dataset : status[d] = Absent => status'[d] = Absent
  BY <1>3 DEF ChangeDatasetsStatus
<1>4. ASSUME NEW h \in Handler, delSetToDelete(h) \/ delRollback(h) \/ delRemoveDatasets(h)
      PROVE  \A d \in Dataset : status[d] = Absent => status'[d] = Absent
  BY <1>2, <1>3, <1>4 DEF delSetToDelete, delRollback, delRemoveDatasets
<1>5. ASSUME NEW h \in Handler,
             \/ Crash(h) \/ StepFails(h) \/ publishJobCreated(h)
             \/ delDeleteContainers(h) \/ releaseDatasets(h) \/ saveDeletions(h)
             \/ (\E c \in Container : deleteContainer(h, c))
             \/ (\E e \in JobEvent : Receive(h, e))
      PROVE  status' = status
  BY <1>5, Received DEF Crash, StepFails, publishJobCreated, delDeleteContainers, releaseDatasets,
              saveDeletions, deleteContainer, Typed
<1>6. \/ delInit \/ (\E c \in Commands : Command(c)) \/ (\E e \in JobEvent : duplicateJobEvent(e))
      \/ UNCHANGED vars
      => status' = status
  BY DEF delInit, Command, duplicateJobEvent, vars
<1>7. \A d \in Dataset : status[d] = Absent => status'[d] = Absent
  BY <1>4, <1>5, <1>6 DEF Next, HandlerStep
<1>8. QED
  BY <1>7 DEF Registered

(* The files: one case for each step that changes them or their tasks. *)
LEMMA FilesStep ==
    ASSUME DeletionInv, [Next]_vars
    PROVE  FilesInv'
<1> USE DEF DeletionInv
<1>t. /\ task \in [Container -> TaskState \cup {Absent}]
      /\ file \subseteq Container
      /\ deleting \in [Handler -> [left : SUBSET Container, failed : SUBSET Container]]
      /\ status \in [Dataset -> {Absent, "ACTIVE", "TODELETE"}]
  BY DEF Typed, TypeOK
<1>r. Registered' \subseteq Registered
  BY NothingComesBack
<1>i. /\ Registered \subseteq file
      /\ \A c \in (file \cap Managed) \ Registered : task[c] # Absent
      /\ \A c \in Container : task[c] # Absent => c \notin Registered
      /\ \A h \in Handler : \A c \in deleting[h].left \cup deleting[h].failed : c \notin Registered
      /\ \A h \in Handler : FreshAt(h, "deleteContainers") =>
             \A c \in file : task[c] # Absent => c \in deleting[h].left \cup deleting[h].failed
  BY DEF FilesInv, NoDanglingDataset, NoForgottenFile
<1>n. Nothing.left = {} /\ Nothing.failed = {}
  BY DEF Nothing
<1> DEFINE Tried(g) == \A c \in file : task[c] # Absent => c \in deleting[g].left \cup deleting[g].failed
(* A handler that is fresh at deleteContainers was so, or has just begun. *)
<1>h. ASSUME NEW g \in Handler, FreshAt(g, "deleteContainers")', ~Tried(g)'
      PROVE  FreshAt(g, "deleteContainers") /\ Tried(g)
  <2>1. handler'[g].pc = "deleteContainers" /\ handler'[g].fresh
    BY <1>h DEF FreshAt, At
  <2>2. StepOf(job'.state) # "deleteContainers"
    BY StepNames, TypedStep DEF Typed, TypeOK
  <2>3. ~delDeleteContainers(g)
    <3>1. SUFFICES ASSUME delDeleteContainers(g)
                   PROVE  FALSE
      OBVIOUS
    <3>2. ToDelete # {}
      <4>1. Idle.pc = "idle" /\ handler \in HandlerType
        BY DEF Idle, Typed, TypeOK, HandlerType
      <4>2. handler' = [handler EXCEPT ![g] = Idle] => handler'[g] = Idle
        BY <4>1 DEF HandlerType
      <4>3. QED
        BY <2>1, <3>1, <4>1, <4>2 DEF delDeleteContainers, JustEmit
    <3>3. deleting'[g].left = ToDelete /\ UNCHANGED <<task, file>>
      BY <1>t, <3>1, <3>2 DEF delDeleteContainers
    <3>4. Tried(g)'
      BY <1>t, <3>3 DEF ToDelete, Tasks
    <3>5. QED
      BY <1>h, <3>4
  <2>4. QED
    BY <1>i, <2>1, <2>2, <2>3, HandlerMoves DEF FreshAt, At
<1>g. ASSUME \A g \in Handler : FreshAt(g, "deleteContainers")' /\ Tried(g) => Tried(g)'
      PROVE  \A g \in Handler : FreshAt(g, "deleteContainers")' => Tried(g)'
  BY <1>g, <1>h
<1> HIDE DEF Tried
<1>q. ASSUME /\ \A c \in Container : task'[c] # Absent => c \notin Registered'
             /\ \A g \in Handler : \A c \in deleting'[g].left \cup deleting'[g].failed : c \notin Registered'
             /\ Registered' \subseteq file'
             /\ \A c \in (file' \cap Managed) \ Registered' : task'[c] # Absent
             /\ \A g \in Handler : FreshAt(g, "deleteContainers")' /\ Tried(g) => Tried(g)'
      PROVE  FilesInv'
  BY <1>g, <1>q DEF FilesInv, NoDanglingDataset, NoForgottenFile, Tried
(* The steps that change neither the tasks nor the files... *)
<1>1. CASE /\ UNCHANGED <<task, file>> /\ Registered' = Registered
           /\ \/ deleting' = deleting
              \/ \E h \in Handler : /\ deleting' = [deleting EXCEPT ![h] = Nothing]
                                    /\ handler'[h].pc = "idle"
  <2>1. \A g \in Handler :
            \/ deleting'[g] = deleting[g]
            \/ deleting'[g] = Nothing /\ handler'[g].pc = "idle"
    BY <1>1, <1>t
  <2>2. \A g \in Handler : \A c \in deleting'[g].left \cup deleting'[g].failed : c \notin Registered'
    BY <1>1, <1>i, <1>n, <2>1
  <2>3. \A g \in Handler : FreshAt(g, "deleteContainers")' /\ Tried(g) => Tried(g)'
    BY <1>1, <2>1 DEF FreshAt, At, Tried
  <2>4. QED
    BY <1>1, <1>i, <1>q, <2>2, <2>3
<1>2. ASSUME NEW h \in Handler, delSetToDelete(h) \/ delRollback(h)
      PROVE  FilesInv'
  <2>1. \A d \in Dataset : status'[d] = Absent => status[d] = Absent
    BY <1>2, <1>t DEF delSetToDelete, delRollback, ChangeDatasetsStatus, Absent
  <2>2. Registered' = Registered
    BY <1>r, <2>1 DEF Registered
  <2>3. QED
    BY <1>1, <1>2, <2>2 DEF delSetToDelete, delRollback
<1>3. ASSUME NEW h \in Handler,
             \/ Crash(h) \/ StepFails(h) \/ publishJobCreated(h) \/ releaseDatasets(h)
             \/ \E e \in JobEvent : Receive(h, e)
      PROVE  FilesInv'
  <2>1. handler \in HandlerType
    BY DEF Typed, TypeOK, HandlerType
  <2>2. Crash(h) \/ StepFails(h) => handler'[h].pc = "idle"
    BY <2>1 DEF Crash, Stop, StepFails, Fails, JustEmit, Idle, HandlerType
  <2>3. UNCHANGED <<task, file, status>>
    BY <1>3, Received DEF Crash, StepFails, publishJobCreated, releaseDatasets, Typed
  <2>4. \/ deleting' = deleting
        \/ deleting' = [deleting EXCEPT ![h] = Nothing] /\ handler'[h].pc = "idle"
    BY <1>3, <2>2, Received DEF Crash, StepFails, publishJobCreated, releaseDatasets, Typed
  <2>5. QED
    BY <1>1, <2>3, <2>4 DEF Registered
<1>4. CASE \/ delInit \/ (\E c \in Commands : Command(c))
           \/ (\E e \in JobEvent : duplicateJobEvent(e)) \/ UNCHANGED vars
  BY <1>1, <1>4 DEF delInit, Command, duplicateJobEvent, vars, Registered
(* ... those that change the tasks... *)
<1>5. ASSUME NEW h \in Handler, delRemoveDatasets(h)
      PROVE  FilesInv'
  <2> DEFINE removed == {d \in locked : status[d] = "TODELETE"}
  <2>1. /\ status' = [d \in Dataset |-> IF d \in removed THEN Absent ELSE status[d]]
        /\ task' = [c \in Container |-> IF c \in Emptied(removed) \cap Managed THEN "NEW"
                                        ELSE task[c]]
        /\ handler' = [Stale EXCEPT ![h] = Idle]
        /\ UNCHANGED <<file, deleting>>
    BY <1>5 DEF delRemoveDatasets, SetTasks, SaveAndEmit
  <2>2. removed \subseteq Dataset /\ \A d \in Dataset : In[d] \in Container
    BY ChosenAssumption, InAssumption DEF Typed, TypeOK
  <2>3. \A c \in Emptied(removed) : c \in Container /\ c \notin Registered'
    BY <2>1, <2>2 DEF Emptied, Registered
  <2>4. \A c \in Registered \ Registered' : c \in Emptied(removed)
    BY <2>1, <2>2 DEF Emptied, Registered
  <2> HIDE DEF removed
  <2>5. ASSUME NEW c \in (file' \cap Managed) \ Registered'
        PROVE  task'[c] # Absent
    <3>1. c \in Container /\ "NEW" # Absent
      BY <1>t, <2>1 DEF Absent
    <3>2. QED
      BY <1>i, <2>1, <2>4, <3>1
  <2>6. \A g \in Handler : ~FreshAt(g, "deleteContainers")'
    BY <2>1 DEF FreshAt, At, Idle, Stale, Typed, TypeOK
  <2>7. \A c \in Container : task'[c] # Absent => c \notin Registered'
    BY <1>i, <1>r, <2>1, <2>3
  <2>8. \A g \in Handler : \A c \in deleting'[g].left \cup deleting'[g].failed : c \notin Registered'
    BY <1>i, <1>r, <2>1
  <2>9. Registered' \subseteq file'
    BY <1>i, <1>r, <2>1
  <2>10. QED
    BY <1>q, <2>5, <2>6, <2>7, <2>8, <2>9
<1>6. ASSUME NEW h \in Handler, saveDeletions(h)
      PROVE  FilesInv'
  <2>1. /\ task' = Remaining(h) /\ UNCHANGED <<status, file>>
        /\ handler' = [Stale EXCEPT ![h] = Idle]
        /\ deleting' = [deleting EXCEPT ![h] = Nothing]
        /\ FreshAt(h, "deleteContainers") /\ deleting[h].left = {}
    BY <1>6 DEF saveDeletions, SetTasks, SaveAndEmit
  <2>2. Registered' = Registered
    BY <2>1 DEF Registered
  <2>3. \A g \in Handler : ~FreshAt(g, "deleteContainers")'
    BY <2>1 DEF FreshAt, At, Idle, Stale, Typed, TypeOK
  <2>4. \A c \in Container : task'[c] # Absent => c \in deleting[h].failed
    BY <2>1 DEF Remaining
  <2>5. \A c \in (file' \cap Managed) \ Registered' : task'[c] # Absent
    <3> TAKE c \in (file' \cap Managed) \ Registered'
    <3>1. task[c] # Absent /\ c \in Container
      BY <1>i, <1>t, <2>1, <2>2
    <3>2. c \in deleting[h].failed
      BY <1>i, <2>1, <3>1
    <3>3. QED
      BY <2>1, <3>1, <3>2 DEF Remaining, Absent
  <2>6. \A g \in Handler : \A c \in deleting'[g].left \cup deleting'[g].failed : c \notin Registered'
    BY <1>i, <1>n, <1>t, <2>1, <2>2
  <2>7. QED
    BY <1>i, <1>q, <2>1, <2>2, <2>3, <2>4, <2>5, <2>6
(* ... and those that delete the files. *)
<1>7. ASSUME NEW h \in Handler, delDeleteContainers(h)
      PROVE  FilesInv'
  <2>1. UNCHANGED <<task, file, status>>
    BY <1>7 DEF delDeleteContainers
  <2>2. \A g \in Handler :
            \/ deleting'[g] = deleting[g]
            \/ g = h /\ deleting'[g] = [left |-> ToDelete, failed |-> {}]
    BY <1>7, <1>t DEF delDeleteContainers
  <2>3. \A c \in ToDelete : c \in Container /\ task[c] # Absent
    BY DEF ToDelete, Tasks, TaskState, Absent
  <2>4. Registered' = Registered
    BY <2>1 DEF Registered
  <2>5. \A g \in Handler : \A c \in deleting'[g].left \cup deleting'[g].failed : c \notin Registered'
    BY <1>i, <2>2, <2>3, <2>4
  <2>6. \A g \in Handler : Tried(g) => Tried(g)'
    <3>1. \A c \in file : task[c] # Absent => c \in ToDelete
      BY <1>t DEF ToDelete, Tasks
    <3>2. QED
      BY <2>1, <2>2, <3>1 DEF Tried
  <2>7. QED
    BY <1>i, <1>q, <2>1, <2>4, <2>5, <2>6
<1>8. ASSUME NEW h \in Handler, NEW c \in Container, deleteContainer(h, c)
      PROVE  FilesInv'
  <2>1. /\ UNCHANGED <<task, status>> /\ c \in deleting[h].left
        /\ \/ file' = file \ {c}
              /\ deleting' = [deleting EXCEPT ![h].left = @ \ {c}]
           \/ file' = file
              /\ deleting' = [deleting EXCEPT ![h].left = @ \ {c}, ![h].failed = @ \cup {c}]
    BY <1>8 DEF deleteContainer
  <2>2. \A g \in Handler :
            deleting'[g].left \cup deleting'[g].failed \subseteq deleting[g].left \cup deleting[g].failed
    BY <1>t, <2>1
  <2>3. Registered' = Registered /\ c \notin Registered
    BY <1>i, <2>1 DEF Registered
  <2>4. \A g \in Handler : Tried(g) => Tried(g)'
    BY <1>t, <2>1 DEF Tried
  <2>5. file' \subseteq file /\ file \subseteq file' \cup {c}
    BY <2>1
  <2>6. QED
    BY <1>i, <1>q, <2>1, <2>2, <2>3, <2>4, <2>5
<1>9. QED
  BY <1>2, <1>3, <1>4, <1>5, <1>6, <1>7, <1>8 DEF Next, HandlerStep

(* What a step does to the datasets and their locks, if it is not quiet: the *)
(* state of the job stays what it is, but for its creation.                  *)
LEMMA Effects ==
    ASSUME Typed, [Next]_vars
    PROVE  \/ UNCHANGED <<status, locked>>
           \/ /\ delInit
              /\ job.state = Absent /\ job'.state = "NEW"
              /\ locked' = Chosen /\ UNCHANGED <<status, handler>>
           \/ \E h \in Handler :
                 /\ job'.state = job.state
                 /\ \/ delSetToDelete(h) \/ delRemoveDatasets(h)
                    \/ delRollback(h) \/ releaseDatasets(h)
<1>1. CASE delInit
  BY <1>1 DEF delInit, Typed, TypeOK
<1>2. ASSUME NEW h \in Handler, delSetToDelete(h) \/ delRollback(h) \/ releaseDatasets(h)
      PROVE  job'.state = job.state
  BY <1>2 DEF delSetToDelete, delRollback, releaseDatasets
<1>3. ASSUME NEW h \in Handler, delRemoveDatasets(h)
      PROVE  job'.state = job.state
  <2>1. \A new : SetTasks(new) => job'.state = job.state
    BY DEF SetTasks, Typed, TypeOK
  <2>2. QED
    BY <1>3, <2>1 DEF delRemoveDatasets
<1>4. ASSUME NEW h \in Handler,
             \/ Crash(h) \/ StepFails(h) \/ publishJobCreated(h)
             \/ delDeleteContainers(h) \/ saveDeletions(h)
             \/ (\E c \in Container : deleteContainer(h, c))
             \/ (\E e \in JobEvent : Receive(h, e))
      PROVE  UNCHANGED <<status, locked>>
  BY <1>4, Received DEF Crash, StepFails, publishJobCreated, delDeleteContainers,
              saveDeletions, deleteContainer, Typed
<1>5. \/ (\E c \in Commands : Command(c)) \/ (\E e \in JobEvent : duplicateJobEvent(e))
      \/ UNCHANGED vars
      => UNCHANGED <<status, locked>>
  BY DEF Command, duplicateJobEvent, vars
<1>6. QED
  BY <1>1, <1>2, <1>3, <1>4, <1>5 DEF Next, HandlerStep

(* What the steps do to the datasets and their locks. *)
LEMMA Rows ==
    ASSUME DeletionInv, NEW h \in Handler
    PROVE  /\ delSetToDelete(h) =>
                /\ job.state = "CREATED" /\ locked' = locked /\ locked = Chosen
                /\ \A d \in Dataset : status'[d] = IF d \in locked /\ status[d] = "ACTIVE"
                                                   THEN "TODELETE" ELSE status[d]
           /\ delRemoveDatasets(h) =>
                /\ job.state = "DELETIONINPROGRESS" /\ locked' = {}
                /\ \A d \in Dataset : status'[d] = IF d \in locked /\ status[d] = "TODELETE"
                                                   THEN Absent ELSE status[d]
           /\ delRollback(h) =>
                /\ job.state \in Aborting /\ locked' = locked
                /\ \A d \in Dataset : status'[d] = IF d \in locked /\ status[d] = "TODELETE"
                                                   THEN "ACTIVE" ELSE status[d]
           /\ releaseDatasets(h) =>
                /\ job.state \in Aborting /\ Shown /\ locked' = {} /\ status' = status
<1> USE DEF DeletionInv, HandlersInv
<1>1. ASSUME delSetToDelete(h)
      PROVE  /\ job.state = "CREATED" /\ locked' = locked /\ locked = Chosen
             /\ \A d \in Dataset : status'[d] = IF d \in locked /\ status[d] = "ACTIVE"
                                                THEN "TODELETE" ELSE status[d]
  <2>1. job.state = "CREATED"
    BY <1>1 DEF delSetToDelete
  <2>2. locked = Chosen
    BY <2>1 DEF LocksInv, Before
  <2>3. QED
    BY <1>1, <2>1, <2>2 DEF delSetToDelete, ChangeDatasetsStatus
<1>2. ASSUME delRemoveDatasets(h)
      PROVE  /\ job.state = "DELETIONINPROGRESS" /\ locked' = {}
             /\ \A d \in Dataset : status'[d] = IF d \in locked /\ status[d] = "TODELETE"
                                                THEN Absent ELSE status[d]
  BY <1>2 DEF delRemoveDatasets
<1>3. ASSUME delRollback(h)
      PROVE  /\ job.state \in Aborting /\ locked' = locked
             /\ \A d \in Dataset : status'[d] = IF d \in locked /\ status[d] = "TODELETE"
                                                THEN "ACTIVE" ELSE status[d]
  BY <1>3 DEF delRollback, ChangeDatasetsStatus
<1>4. ASSUME releaseDatasets(h)
      PROVE  job.state \in Aborting /\ Shown /\ locked' = {} /\ status' = status
  BY <1>4 DEF releaseDatasets, FreshAt
<1>5. QED
  BY <1>1, <1>2, <1>3, <1>4

(* The phases. *)
LEMMA Phases ==
    /\ Absent \notin Before /\ Absent \notin Removing /\ Absent \notin Removed
    /\ Absent \notin Aborting
    /\ \A s : \/ s \notin Before \/ s \notin Removing \cup Removed \cup Aborting
    /\ \A s : \/ s \notin Removing \/ s \notin Removed \cup Aborting
    /\ \A s : \/ s \notin Removed \/ s \notin Aborting
    /\ "NEW" \in Before /\ "CREATED" \in Before /\ "DELETIONINPROGRESS" \in Removing
    /\ "DONE" \in Removed /\ "ABORTED" \in Aborting
    /\ Absent \notin DeletionPause
    /\ DeletionPause \cap Aborting = {}
  BY DEF Before, Removing, Removed, Aborting, Absent, DeletionPause

(* How the phase changes, and why. *)
LEMMA PhaseMoves ==
    ASSUME Typed, [Next]_vars
    PROVE  /\ job'.state = Absent => job.state = Absent
           /\ job'.state \in Before => job.state \in Before \cup {Absent}
           /\ job'.state \in Removing =>
                 job.state \in Removing \/ (job.state \in Before /\ Heard("DeletionReady"))
           /\ job'.state \in Removed => job.state \in Removed \/ Heard("RemovalDone")
           /\ job'.state = "DONE" => job.state = "DONE" \/ Heard("DeletionDone")
           /\ job.state \in Aborting => job'.state \in Aborting
           /\ job.state = "ABORTED" /\ job'.state = "FAILED" => Heard("RollbackDone")
<1>1. CASE job'.state = job.state
  BY <1>1
<1>2. CASE delInit
  BY <1>2, Phases DEF delInit, Typed, TypeOK
<1>3. CASE job.state \in DeletionPause /\ job'.state = "ABORTED"
  BY <1>3, Phases
<1>4. ASSUME NEW e \in JobEvent, Heard(e), <<job.state, e, job'.state>> \in DeletionEdges
      PROVE  /\ job'.state # Absent
             /\ job'.state \in Before => job.state \in Before \cup {Absent}
             /\ job'.state \in Removing =>
                   job.state \in Removing \/ (job.state \in Before /\ Heard("DeletionReady"))
             /\ job'.state \in Removed => job.state \in Removed \/ Heard("RemovalDone")
             /\ job'.state = "DONE" => job.state = "DONE" \/ Heard("DeletionDone")
             /\ job.state \in Aborting => job'.state \in Aborting
             /\ job.state = "ABORTED" /\ job'.state = "FAILED" => Heard("RollbackDone")
  BY <1>4, EdgeFacts
<1>5. QED
  BY <1>1, <1>2, <1>3, <1>4, Moved

(* Once removed, the datasets stay so; once shown after the job has begun to *)
(* abort, or released, they stay so.                                         *)
LEMMA Stays ==
    ASSUME DeletionInv, [Next]_vars
    PROVE  /\ Gone => Gone'
           /\ Gone /\ Clean => Clean'
           /\ Shown /\ job.state \in Aborting => Shown'
           /\ Released /\ job.state # Absent => Released'
<1> USE DEF DeletionInv
<1>1. Gone => Gone'
  BY NothingComesBack, ChosenAssumption DEF Gone
<1>2. Gone => \A d \in Dataset : status'[d] = Absent => status[d] = Absent
  <2>1. CASE UNCHANGED status
    BY <2>1
  <2>2. ASSUME NEW h \in Handler, Gone,
               delSetToDelete(h) \/ delRemoveDatasets(h) \/ delRollback(h) \/ releaseDatasets(h)
        PROVE  \A d \in Dataset : status'[d] = Absent => status[d] = Absent
    <3>1. \A d \in locked : status[d] = Absent
      BY <2>2 DEF Gone, Typed, TypeOK
    <3>2. "ACTIVE" # Absent /\ "TODELETE" # Absent
      BY DEF Absent
    <3>3. QED
      BY <2>2, <3>1, <3>2, Rows
  <2>3. QED
    BY <2>1, <2>2, Effects
<1>3. Gone => Registered \subseteq Registered'
  BY <1>2 DEF Registered
<1>4. file' \subseteq file
  <2>1. ASSUME NEW h \in Handler, NEW c \in Container, deleteContainer(h, c)
        PROVE  file' \subseteq file
    BY <2>1 DEF deleteContainer
  <2>2. ASSUME NEW h \in Handler,
               \/ Crash(h) \/ StepFails(h) \/ publishJobCreated(h) \/ delSetToDelete(h)
               \/ delRemoveDatasets(h) \/ delDeleteContainers(h) \/ saveDeletions(h)
               \/ delRollback(h) \/ releaseDatasets(h)
               \/ \E e \in JobEvent : Receive(h, e)
        PROVE  file' = file
    BY <2>2, Received DEF Crash, StepFails, publishJobCreated, delSetToDelete, delRemoveDatasets,
       delDeleteContainers, saveDeletions, delRollback, releaseDatasets, Typed
  <2>3. \/ delInit \/ (\E c \in Commands : Command(c)) \/ (\E e \in JobEvent : duplicateJobEvent(e))
        \/ UNCHANGED vars
        => file' = file
    BY DEF delInit, Command, duplicateJobEvent, vars
  <2>4. QED
    BY <2>1, <2>2, <2>3 DEF Next, HandlerStep
<1>5. Gone /\ Clean => Clean'
  BY <1>3, <1>4 DEF Clean
<1>6. ASSUME Shown, job.state \in Aborting \/ (locked = {} /\ job.state # Absent)
      PROVE  Shown' /\ (locked = {} => locked' = {})
  <2>1. CASE UNCHANGED <<status, locked>>
    BY <1>6, <2>1 DEF Shown
  <2>2. job.state # Absent
    BY <1>6, Phases
  <2>3. ASSUME NEW h \in Handler,
               delSetToDelete(h) \/ delRemoveDatasets(h) \/ delRollback(h) \/ releaseDatasets(h)
        PROVE  Shown' /\ (locked = {} => locked' = {})
    <3>1. delSetToDelete(h) => locked = {}
      BY <1>6, Phases, Rows
    <3>2. "ACTIVE" # "TODELETE" /\ Absent # "TODELETE"
      BY DEF Absent
    <3>3. QED
      BY <1>6, <2>3, <3>1, <3>2, Rows DEF Shown
  <2>4. QED
    BY <2>1, <2>2, <2>3, Effects
<1>7. QED
  BY <1>1, <1>5, <1>6 DEF Released

(* The locks. *)
LEMMA LocksStep ==
    ASSUME DeletionInv, [Next]_vars
    PROVE  LocksInv'
<1> USE DEF DeletionInv
<1>t. /\ locked \subseteq Chosen /\ Chosen \subseteq Dataset
      /\ "ACTIVE" # Absent /\ "TODELETE" # Absent /\ "ACTIVE" # "TODELETE"
  BY ChosenAssumption DEF Typed, TypeOK, Absent
<1>i. /\ job.state # Absent => \A d \in Dataset : status[d] = "TODELETE" => d \in locked
      /\ \A d \in Dataset : status[d] = "TODELETE" => d \in Chosen
      /\ job.state \in {Absent} \cup Before => \A d \in Chosen : status[d] # Absent
      /\ job.state \in Before => locked = Chosen
      /\ job.state \in Removing =>
             \A d \in Chosen : status[d] = Absent \/ (d \in locked /\ status[d] = "TODELETE")
      /\ job.state \in Removed => Gone
  BY DEF LocksInv, HiddenIsLocked
<1>e. /\ Heard("DeletionReady") /\ job.state \in Before => \A d \in Chosen : status[d] = "TODELETE"
      /\ Heard("RemovalDone") => Gone
  BY DEF EventsInv
<1>1. CASE UNCHANGED <<status, locked>>
  <2>1. CASE delInit
    <3>1. job'.state = "NEW" /\ locked' = Chosen /\ status' = status /\ job.state = Absent
      BY <2>1 DEF delInit, Typed, TypeOK
    <3>2. QED
      BY <1>i, <3>1, Phases DEF LocksInv, HiddenIsLocked
  <2>2. CASE ~delInit
    <3>1. job'.state \in Before \cup {Absent} => job.state \in Before \cup {Absent}
      BY PhaseMoves
    <3>2. job'.state # Absent => job.state # Absent
      <4>1. job'.state = job.state \/ job.state # Absent
        BY <2>2, Moved, EdgeFacts, Phases
      <4>2. QED
        BY <4>1
    <3>3. job'.state \in Before => job.state \in Before
      BY <3>1, <3>2, Phases
    <3>4. Gone => Gone'
      BY Stays
    <3>5. QED
      <4>1. HiddenIsLocked'
        BY <1>1, <1>i, <3>2 DEF HiddenIsLocked
      <4>2. /\ \A d \in Dataset : status'[d] = "TODELETE" => d \in Chosen
            /\ job'.state \in {Absent} \cup Before => \A d \in Chosen : status'[d] # Absent
            /\ job'.state \in Before => locked' = Chosen
        BY <1>1, <1>i, <3>1, <3>3
      <4>3. job'.state \in Removing =>
               \A d \in Chosen : status'[d] = Absent \/ (d \in locked' /\ status'[d] = "TODELETE")
        BY <1>1, <1>i, <1>e, PhaseMoves
      <4>4. job'.state \in Removed => Gone'
        BY <1>i, <1>e, <3>4, PhaseMoves
      <4>5. QED
        BY <4>1, <4>2, <4>3, <4>4 DEF LocksInv
  <2>3. QED
    BY <2>1, <2>2
<1>2. CASE delInit
  <2>1. job'.state = "NEW" /\ locked' = Chosen /\ status' = status /\ job.state = Absent
    BY <1>2 DEF delInit, Typed, TypeOK
  <2>2. QED
    BY <1>i, <2>1, Phases DEF LocksInv, HiddenIsLocked
<1>3. ASSUME NEW h \in Handler, delSetToDelete(h), job'.state = job.state
      PROVE  LocksInv'
  BY <1>3, <1>i, <1>t, Rows, Phases DEF LocksInv, HiddenIsLocked
<1>4. ASSUME NEW h \in Handler, delRemoveDatasets(h), job'.state = job.state
      PROVE  LocksInv'
  BY <1>4, <1>i, <1>t, Rows, Phases DEF LocksInv, HiddenIsLocked
<1>5. ASSUME NEW h \in Handler, delRollback(h) \/ releaseDatasets(h), job'.state = job.state
      PROVE  LocksInv'
  BY <1>5, <1>i, <1>t, Rows, Phases DEF LocksInv, HiddenIsLocked, Shown
<1>6. QED
  BY <1>1, <1>2, <1>3, <1>4, <1>5, Effects

(* A handler that stays fresh has seen no change of state (UpdateJob).       *)
LEMMA FreshStays ==
    ASSUME Typed, [Next]_vars, NEW g \in Handler,
           handler'[g].pc = handler[g].pc, handler'[g].pc # "idle", handler'[g].fresh
    PROVE  job'.state = job.state \/ job.state = Absent
<1> SUFFICES ASSUME job'.state # job.state, ~delInit
             PROVE  FALSE
  BY DEF delInit, Typed, TypeOK
<1>1. PICK h \in Handler, e \in JobEvent : Receive(h, e)
  BY Moved
<1>2. handler[h] = Idle /\ Idle.pc = "idle"
  BY <1>1 DEF Receive, Handle, Idle
<1>3. g # h
  BY <1>2
<1>4. \E x : handler' = [Stale EXCEPT ![h] = x]
  BY <1>1, Received DEF Typed
<1>5. handler'[g] = [handler[g] EXCEPT !.fresh = FALSE]
  BY <1>3, <1>4 DEF Stale
<1>6. handler'[g].fresh = FALSE
  BY <1>5 DEF Typed, TypeOK
<1>7. QED
  BY <1>6

(* The job exists for ever once it is created. *)
LEMMA StaysCreated ==
    ASSUME DeletionInv, [Next]_vars, job.state # Absent
    PROVE  job'.state # Absent
  BY PhaseMoves DEF DeletionInv

(* The handlers: those that go on are stale as soon as the state changes.    *)
LEMMA HandlersStep ==
    ASSUME DeletionInv, [Next]_vars
    PROVE  HandlersInv'
<1> USE DEF DeletionInv
<1> SUFFICES ASSUME NEW g \in Handler
             PROVE  /\ FreshAt(g, "delSetToDelete")' => job'.state = "CREATED"
                    /\ FreshAt(g, "delRemoveDatasets")' => job'.state = "DELETIONINPROGRESS"
                    /\ At(g, "delRollback")' => job'.state \in Aborting
                    /\ At(g, "releaseDatasets")' => job'.state \in Aborting /\ Shown'
                    /\ At(g, "delDeleteContainers")' \/ At(g, "deleteContainers")' =>
                           Gone' /\ job'.state # Absent
  BY DEF HandlersInv
<1>i. /\ FreshAt(g, "delSetToDelete") => job.state = "CREATED"
      /\ FreshAt(g, "delRemoveDatasets") => job.state = "DELETIONINPROGRESS"
      /\ At(g, "delRollback") => job.state \in Aborting
      /\ At(g, "releaseDatasets") => job.state \in Aborting /\ Shown
      /\ At(g, "delDeleteContainers") \/ At(g, "deleteContainers") => Gone /\ job.state # Absent
  BY DEF HandlersInv
<1>1. CASE handler'[g].pc = handler[g].pc /\ (handler'[g].fresh => handler[g].fresh)
  <2>1. FreshAt(g, "delSetToDelete")' \/ FreshAt(g, "delRemoveDatasets")' => job'.state = job.state
    <3>1. FreshAt(g, "delSetToDelete")' \/ FreshAt(g, "delRemoveDatasets")' =>
              job'.state = job.state \/ job.state = Absent
      BY <1>1, FreshStays DEF FreshAt, At
    <3>2. FreshAt(g, "delSetToDelete")' \/ FreshAt(g, "delRemoveDatasets")' => job.state # Absent
      BY <1>1, <1>i DEF FreshAt, At, Absent
    <3>3. QED
      BY <3>1, <3>2
  <2>2. QED
    BY <1>1, <1>i, <2>1, Stays, StaysCreated, PhaseMoves DEF FreshAt, At
<1>2. CASE handler'[g].pc = "idle"
  BY <1>2 DEF FreshAt, At
<1>3. CASE Quiet /\ handler'[g].pc = StepOf(job'.state)
  <2>1. Typed'
    BY TypedStep
  <2>2. job'.state \in DeletionState \cup {Absent}
    BY <2>1 DEF Typed, TypeOK
  <2>3. LocksInv'
    BY LocksStep
  <2>4. /\ StepOf(job'.state) = "delSetToDelete" => job'.state = "CREATED"
        /\ StepOf(job'.state) = "delRemoveDatasets" => job'.state = "DELETIONINPROGRESS"
        /\ StepOf(job'.state) = "delDeleteContainers" => job'.state = "DELETIONEFFECTIVE"
        /\ StepOf(job'.state) = "delRollback" => job'.state = "ABORTED"
        /\ StepOf(job'.state) \notin {"deleteContainers", "releaseDatasets"}
    BY <2>2, StepNames
  <2>5. job'.state = "DELETIONEFFECTIVE" => Gone' /\ job'.state # Absent
    BY <2>3 DEF LocksInv, Removed, Absent
  <2>6. QED
    BY <1>3, <2>4, <2>5, Phases DEF FreshAt, At
<1>4. CASE delDeleteContainers(g) /\ handler'[g].pc = "deleteContainers"
  <2>1. At(g, "delDeleteContainers")
    BY <1>4 DEF delDeleteContainers
  <2>2. QED
    BY <1>4, <1>i, <2>1, Stays, StaysCreated DEF FreshAt, At
<1>5. CASE delRollback(g) /\ handler'[g].pc = "releaseDatasets"
  <2>1. job.state \in Aborting /\ job'.state \in Aborting
    BY <1>5, Rows, PhaseMoves
  <2>2. Shown'
    <3>1. \A d \in Dataset : status[d] = "TODELETE" => d \in locked
      BY <2>1, Phases DEF LocksInv, HiddenIsLocked
    <3>2. QED
      BY <1>5, <3>1, Rows DEF Shown
  <2>3. QED
    BY <1>5, <2>1, <2>2 DEF FreshAt, At
<1>6. QED
  BY <1>1, <1>2, <1>3, <1>4, <1>5, HandlerMoves

(* The events. *)
LEMMA EventsStep ==
    ASSUME DeletionInv, [Next]_vars
    PROVE  EventsInv'
<1> USE DEF DeletionInv
<1>i. /\ \A e \in Telling : Heard(e) => job.state # Absent
      /\ Heard("DeletionReady") /\ job.state \in Before => \A d \in Chosen : status[d] = "TODELETE"
      /\ Heard("RemovalDone") => Gone
      /\ Heard("DeletionDone") \/ job.state = "DONE" => Gone /\ Clean
      /\ Heard("RollbackDone") => Released
  BY DEF EventsInv
<1>n. /\ {"DeletionReady", "RemovalDone", "DeletionDone", "RollbackDone"} \subseteq Telling
      /\ \A e \in Telling, h \in Handler : Tells(h, e) <=>
            \/ delSetToDelete(h) /\ e = "DeletionReady"
            \/ delRemoveDatasets(h) /\ e = "RemovalDone"
            \/ delDeleteContainers(h) /\ ToDelete = {} /\ e = "DeletionDone"
            \/ saveDeletions(h) /\ deleting[h].failed = {} /\ e = "DeletionDone"
            \/ releaseDatasets(h) /\ e = "RollbackDone"
  BY DEF Telling, Tells
<1>c. Chosen \subseteq Dataset /\ locked \subseteq Chosen
      /\ status \in [Dataset -> {Absent, "ACTIVE", "TODELETE"}]
      /\ "ACTIVE" # Absent /\ "TODELETE" # Absent
  BY ChosenAssumption DEF Typed, TypeOK, Absent
<1>1. ASSUME NEW e \in Telling, Heard(e)'
      PROVE  job'.state # Absent
  <2>1. CASE Heard(e)
    BY <1>i, <2>1, StaysCreated
  <2>2. ASSUME NEW h \in Handler, Tells(h, e)
        PROVE  job.state # Absent
    <3>1. delSetToDelete(h) \/ delRemoveDatasets(h) \/ releaseDatasets(h) => job.state # Absent
      BY Rows, Phases
    <3>2. delDeleteContainers(h) \/ saveDeletions(h) => job.state # Absent
      BY DEF HandlersInv, delDeleteContainers, saveDeletions, FreshAt
    <3>3. QED
      BY <1>n, <2>2, <3>1, <3>2
  <2>3. QED
    BY <1>1, <2>1, <2>2, HeardMoves, StaysCreated
<1>2. ASSUME Heard("DeletionReady")', job'.state \in Before
      PROVE  \A d \in Chosen : status'[d] = "TODELETE"
  <2>1. ASSUME NEW h \in Handler, delSetToDelete(h)
        PROVE  \A d \in Chosen : status'[d] = "TODELETE"
    <3>1. locked = Chosen /\ \A d \in Chosen : status[d] # Absent
      BY <2>1, Rows, Phases DEF LocksInv
    <3>2. QED
      BY <1>c, <2>1, <3>1, Rows
  <2>2. CASE Heard("DeletionReady")
    <3>1. job.state \in Before
      BY <1>2, <1>i, <1>n, <2>2, PhaseMoves
    <3>2. \A d \in Chosen : status[d] = "TODELETE"
      BY <1>i, <2>2, <3>1
    <3>3. CASE status' = status
      BY <3>2, <3>3
    <3>4. ASSUME NEW h \in Handler,
                 delSetToDelete(h) \/ delRemoveDatasets(h) \/ delRollback(h) \/ releaseDatasets(h)
          PROVE  \A d \in Chosen : status'[d] = "TODELETE"
      BY <2>1, <3>1, <3>4, Rows, Phases
    <3>5. QED
      BY <3>3, <3>4, Effects
  <2>3. QED
    BY <1>2, <1>n, <2>1, <2>2, HeardMoves
<1>3. ASSUME Heard("RemovalDone")'
      PROVE  Gone'
  <2>1. CASE Heard("RemovalDone")
    BY <1>i, <2>1, Stays
  <2>2. ASSUME NEW h \in Handler, delRemoveDatasets(h)
        PROVE  Gone'
    <3>1. \A d \in Chosen : status[d] = Absent \/ (d \in locked /\ status[d] = "TODELETE")
      BY <2>2, Rows, Phases DEF LocksInv
    <3>2. QED
      BY <1>c, <2>2, <3>1, Rows DEF Gone
  <2>3. QED
    BY <1>3, <1>n, <2>1, <2>2, HeardMoves
<1>4. ASSUME Heard("DeletionDone")' \/ job'.state = "DONE"
      PROVE  Gone' /\ Clean'
  <2>1. CASE Heard("DeletionDone") \/ job.state = "DONE"
    BY <1>i, <2>1, Stays
  <2>2. ASSUME NEW h \in Handler, delDeleteContainers(h), ToDelete = {}
        PROVE  Gone /\ Clean
    <3>1. Gone
      BY <2>2 DEF HandlersInv, delDeleteContainers
    <3>2. \A c \in Container : task[c] = Absent
      BY <2>2 DEF ToDelete, Tasks, Typed, TypeOK
    <3>3. Clean
      BY <3>2, ChosenAssumption DEF Clean, FilesInv, NoForgottenFile
    <3>4. QED
      BY <3>1, <3>3
  <2>3. ASSUME NEW h \in Handler, saveDeletions(h), deleting[h].failed = {}
        PROVE  Gone /\ Clean
    <3>1. FreshAt(h, "deleteContainers") /\ deleting[h].left = {}
      BY <2>3 DEF saveDeletions
    <3>2. Gone
      BY <3>1 DEF HandlersInv, FreshAt
    <3>3. \A c \in file : task[c] = Absent
      BY <2>3, <3>1 DEF FilesInv
    <3>4. Clean
      BY <3>3 DEF Clean, FilesInv, NoForgottenFile
    <3>5. QED
      BY <3>2, <3>4
  <2>4. CASE Heard("DeletionDone")' /\ ~Heard("DeletionDone")
    <3>1. PICK h \in Handler : Tells(h, "DeletionDone")
      BY <1>n, <2>4, HeardMoves
    <3>2. QED
      BY <1>n, <2>2, <2>3, <3>1, Stays
  <2>5. QED
    BY <1>4, <2>1, <2>4, PhaseMoves
<1>5. ASSUME Heard("RollbackDone")'
      PROVE  Released'
  <2>1. CASE Heard("RollbackDone")
    BY <1>i, <1>n, <2>1, Stays
  <2>2. ASSUME NEW h \in Handler, releaseDatasets(h)
        PROVE  Released'
    BY <2>2, Rows DEF Released, Shown
  <2>3. QED
    BY <1>5, <1>n, <2>1, <2>2, HeardMoves
<1>6. QED
  BY <1>1, <1>2, <1>3, <1>4, <1>5 DEF EventsInv

(* The job starts so. *)
LEMMA DeletionInit ==
    ASSUME Init
    PROVE  FilesInv /\ LocksInv /\ HandlersInv /\ EventsInv
<1>1. /\ \A c \in Container : task[c] = Absent
      /\ \A h \in Handler : handler[h] = Idle /\ deleting[h] = Nothing
      /\ \A e \in JobEvent : jobEvents[e] = 0
      /\ job.state = Absent /\ file = Container
      /\ \A d \in Dataset : status[d] # Absent /\ (status[d] = "TODELETE" => d \in Chosen)
  BY DEF Init, Absent
<1>2. Idle.pc = "idle" /\ Idle.msg = Absent /\ Nothing.left = {} /\ Nothing.failed = {}
  BY DEF Idle, Nothing
<1>3. Telling \subseteq JobEvent /\ Absent \notin JobEvent
  BY DEF Telling, JobEvent, UserEvent, ConsolidationEvent, DeletionEvent, Absent
<1>4. \A e \in Telling : ~Heard(e)
  BY <1>1, <1>2, <1>3 DEF Heard
<1>5. Registered \subseteq file /\ Managed \subseteq Registered
  BY <1>1, InAssumption, ManagedAssumption DEF Registered
<1>6. FilesInv
  BY <1>1, <1>2, <1>5 DEF FilesInv, NoDanglingDataset, NoForgottenFile, FreshAt, At
<1>7. LocksInv
  BY <1>1, ChosenAssumption, Phases DEF LocksInv, HiddenIsLocked
<1>8. HandlersInv
  BY <1>1, <1>2 DEF HandlersInv, FreshAt, At
<1>9. EventsInv
  <2>1. job.state # "DONE"
    BY <1>1 DEF Absent
  <2>2. QED
    BY <1>4, <2>1 DEF EventsInv, Telling
<1>10. QED
  BY <1>6, <1>7, <1>8, <1>9

(* The phases of the job, its rows, the files, the handlers wherever they    *)
(* are and the events in the queue agree, under any interleaving of          *)
(* handlers, faults and commands (operations.go, the functions del...).      *)
THEOREM DeletionCorrect == Spec => []DeletionInv
<1>1. DeletionInv /\ [Next]_vars => DeletionInv'
  BY TypedStep, FilesStep, LocksStep, HandlersStep, EventsStep DEF DeletionInv
<1>2. Init => FilesInv /\ LocksInv /\ HandlersInv /\ EventsInv
  BY DeletionInit
<1>3. FilesInv /\ LocksInv /\ HandlersInv /\ EventsInv /\ Typed => DeletionInv
  BY DEF DeletionInv
<1>4. Spec => []Typed
  BY TypeCorrect, PTL DEF Typed
<1>5. QED
  BY <1>1, <1>2, <1>3, <1>4, PTL DEF Spec

(* A dataset of the catalogue has its container in the storage               *)
(* (delRemoveDatasets, delDeleteContainers).                                 *)
THEOREM DatasetsCanBeRead == Spec => []NoDanglingDataset
<1>1. DeletionInv => NoDanglingDataset
  BY DEF DeletionInv, FilesInv
<1>2. QED
  BY DeletionCorrect, <1>1, PTL

(* A task remains for each file left to delete (delRemoveDatasets,           *)
(* delDeleteContainers).                                                     *)
THEOREM FilesAreRemembered == Spec => []NoForgottenFile
<1>1. DeletionInv => NoForgottenFile
  BY DEF DeletionInv, FilesInv
<1>2. QED
  BY DeletionCorrect, <1>1, PTL

(* A hidden dataset is locked by the job (delSetToDelete, delRollback).      *)
THEOREM HiddenDatasetsAreLocked == Spec => []HiddenIsLocked
<1>1. DeletionInv => HiddenIsLocked
  BY DEF DeletionInv, LocksInv
<1>2. QED
  BY DeletionCorrect, <1>1, PTL

(* A job that is done has deleted everything, even if the event that says so *)
(* was sent by a handler on a stale job (delDeleteContainers).               *)
THEOREM DoneJobsHaveDeleted == Spec => []DoneIsDeleted
<1>1. DeletionInv => DoneIsDeleted
  BY DEF DeletionInv, EventsInv, DoneIsDeleted, Gone, Clean
<1>2. QED
  BY DeletionCorrect, <1>1, PTL

(* A rollback that succeeds has restored and released the datasets           *)
(* (delRollback).                                                            *)
THEOREM RollbacksRestore == Spec => RollbackRestores
<1> DEFINE Ends == job.state = "ABORTED" /\ job'.state = "FAILED" =>
                       locked' = {} /\ \A d \in Dataset : status'[d] # "TODELETE"
<1>1. DeletionInv /\ [Next]_vars => [Ends]_vars
  <2> SUFFICES ASSUME DeletionInv, [Next]_vars, job.state = "ABORTED", job'.state = "FAILED"
               PROVE  locked' = {} /\ \A d \in Dataset : status'[d] # "TODELETE"
    OBVIOUS
  <2>1. Heard("RollbackDone")
    BY PhaseMoves DEF DeletionInv
  <2>2. Released
    BY <2>1 DEF DeletionInv, EventsInv
  <2>3. Released'
    BY <2>2, Stays DEF Absent
  <2>4. QED
    BY <2>3 DEF Released, Shown
<1>2. QED
  BY DeletionCorrect, <1>1, PTL DEF Spec, RollbackRestores
=============================================================================
