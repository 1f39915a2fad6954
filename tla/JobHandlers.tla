----------------------------- MODULE JobHandlers -----------------------------
(* The server's handlers of job events.  Several of them run concurrently,   *)
(* on as many servers as the autoscaler starts.  A handler loads the job,    *)
(* works on its copy and saves it under optimistic concurrency control: the  *)
(* save fails if anyone saved the job since it was read.  A copy is          *)
(* represented by one bit, fresh: nobody saved since it was read.            *)
(* A save is atomic, and merged with the publication that follows it: the    *)
(* event then is in a queue that anybody may be slow to read.                *)
EXTENDS JobStateMachine

CONSTANTS
    Handler,     \* concurrent event handlers
    Level,       \* execution level of the job
    Commands,    \* the events the user may send
    MaxCommands, \* bound: events sent by the user
    MaxFaults    \* bound: crashes, duplicated or lost messages, failing calls

ASSUME LevelAssumption == Level \in ExecutionLevel \ {ExecutionSynchronous}
ASSUME CommandsAssumption == Commands \subseteq UserEvent

VARIABLES
    job,        \* the row of the job: state, waiting, counters of tasks
    jobEvents,  \* job events in the queue
    handler,    \* the event handlers: the step they run, their copy, their message
    commands,   \* number of events sent by the user
    faults      \* number of faults that occurred

Absent == "none"

Idle == [pc |-> "idle", fresh |-> FALSE, msg |-> Absent]

Fault == faults < MaxFaults /\ faults' = faults + 1
NoFault == faults' = faults

(* Saving the job makes all the other copies of it stale. *)
Stale == [h \in Handler |-> [handler[h] EXCEPT !.fresh = FALSE]]
Goto(h, pc) == handler' = [Stale EXCEPT ![h] = [handler[h] EXCEPT !.pc = pc]]
At(h, pc) == handler[h].pc = pc

(* Mutant: no optimistic concurrency control. *)
MutFreshAtUnchecked(h, pc) == At(h, pc)

FreshAt(h, pc) == At(h, pc) /\ handler[h].fresh

Put(e) == jobEvents' = [jobEvents EXCEPT ![e] = @ + 1]

(* publishEvent, as the last thing a handler does.  The publication may fail: *)
(* the handler gives up and the message it holds is acknowledged.  The server *)
(* may crash before it: the message is delivered again.                       *)
Emit(h, e) ==
    \/ Put(e) /\ NoFault
    \/ Fault /\ UNCHANGED jobEvents
    \/ Fault /\ Put(handler[h].msg)

SaveAndEmit(h, e) == handler' = [Stale EXCEPT ![h] = Idle] /\ Emit(h, e)
JustEmit(h, e) == handler' = [handler EXCEPT ![h] = Idle] /\ Emit(h, e)

(* RetryJob, CancelJob, ContinueJob: a command is published if the job, as   *)
(* it is now, would handle it.                                               *)
Send(c, triggered) ==
    /\ job.state # Absent
    /\ commands < MaxCommands
    /\ triggered # {}
    /\ Put(c)
    /\ commands' = commands + 1

(* handleJobEvt: read the job, trigger the event, save, then run the step of *)
(* the new state.  An event the state does not handle is acknowledged.  The  *)
(* set reached has the states, with their steps, that the event may lead to. *)
Handle(h, e, reached) ==
    /\ handler[h] = Idle
    /\ jobEvents[e] > 0
    /\ jobEvents' = [jobEvents EXCEPT ![e] = @ - 1]
    /\ \/ reached = {} /\ UNCHANGED <<job, handler>>
       \/ \E j \in reached :
            /\ job' = [job EXCEPT !.state = j.state, !.waiting = j.waiting]
            /\ handler' = [Stale EXCEPT ![h] =
                 IF j.waiting \/ j.step = "idle" THEN Idle
                 ELSE [pc |-> j.step, fresh |-> TRUE, msg |-> e]]

(* The server stops: the message it was handling is delivered again. *)
Stop(h) ==
    /\ handler[h] # Idle
    /\ Fault
    /\ handler' = [handler EXCEPT ![h] = Idle]
    /\ Put(handler[h].msg)

(* A step fails: its transaction is rolled back and its failure published.   *)
(* Either it is doomed to, or the database or the storage fails.             *)
Fails(h, doomed, failure) ==
    /\ handler[h] # Idle
    /\ \/ doomed /\ JustEmit(h, failure)
       \/ Fault /\ handler' = [handler EXCEPT ![h] = Idle] /\ Put(failure)
=============================================================================
