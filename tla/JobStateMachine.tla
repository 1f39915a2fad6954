--------------------------- MODULE JobStateMachine ---------------------------
(* The automaton of a Geocube job (internal/geocube/job.go): its states, the *)
(* events that move it, and when it pauses for the user.  The module has no  *)
(* variable: the jobs themselves, and what is done on entering a state, are  *)
(* in the modules that use it.                                               *)
EXTENDS Naturals

(* ExecutionLevel: how much a job is slowed down to let the user look. *)
ExecutionSynchronous == 0
ExecutionAsynchronous == 1
StepByStepCritical == 2
StepByStepMajor == 3
StepByStepAll == 4
StepByStepNever == 5

ExecutionLevel == ExecutionSynchronous .. StepByStepAll

(* The states of a consolidation and of a deletion. *)
SharedState == {"NEW", "CREATED", "DONE", "FAILED", "INITIALISATIONFAILED",
                "ABORTED", "ROLLBACKFAILED", "DONEBUTUNTIDY"}

ConsolidationState == SharedState \cup
    {"CONSOLIDATIONINPROGRESS", "CONSOLIDATIONDONE", "CONSOLIDATIONINDEXED",
     "CONSOLIDATIONEFFECTIVE", "CONSOLIDATIONFAILED", "CONSOLIDATIONRETRYING",
     "CONSOLIDATIONFORCERETRYING", "CONSOLIDATIONCANCELLING", "CANCELLATIONFAILED"}

DeletionState == SharedState \cup
    {"DELETIONINPROGRESS", "DELETIONEFFECTIVE", "DELETIONFAILED"}

JobState == ConsolidationState \cup DeletionState

(* The events: those the user sends, and those a finished step sends. *)
UserEvent == {"CancelledByUser", "CancelledByUserForced", "Retried", "RetryForced", "Continue"}

ConsolidationEvent ==
    {"JobCreated", "OrdersPrepared", "PrepareOrdersFailed", "SendOrdersFailed",
     "ConsolidationDone", "ConsolidationFailed", "ConsolidationRetryFailed",
     "ConsolidationIndexed", "ConsolidationIndexingFailed", "DatasetsSwapped",
     "SwapDatasetsFailed", "DeletionStarted", "StartDeletionFailed",
     "CancellationFailed", "CancellationDone", "RollbackFailed", "RollbackDone"}

DeletionEvent ==
    {"JobCreated", "DeletionReady", "DeletionNotReady", "RemovalDone", "RemovalFailed",
     "DeletionDone", "DeletionFailed", "RollbackFailed", "RollbackDone"}

JobEvent == UserEvent \cup ConsolidationEvent \cup DeletionEvent

(* jobStateInfo: the level from which a job pauses on entering the state... *)
StepLevel(s) ==
    CASE s \in {"CONSOLIDATIONINPROGRESS", "CONSOLIDATIONEFFECTIVE",
                "DELETIONINPROGRESS"} -> StepByStepCritical
      [] s \in {"CREATED", "CONSOLIDATIONDONE", "CONSOLIDATIONRETRYING",
                "CONSOLIDATIONFORCERETRYING", "CONSOLIDATIONCANCELLING",
                "DELETIONEFFECTIVE", "ABORTED"} -> StepByStepMajor
      [] s \in {"DONE", "FAILED", "DONEBUTUNTIDY"} -> StepByStepNever
      [] OTHER -> StepByStepAll

(* ... and the states that RetryForced runs again without leaving them. *)
RetryForcedInPlace ==
    {"NEW", "CREATED", "CONSOLIDATIONDONE", "CONSOLIDATIONINDEXED", "CONSOLIDATIONEFFECTIVE",
     "CONSOLIDATIONRETRYING", "CONSOLIDATIONFORCERETRYING", "CONSOLIDATIONCANCELLING",
     "DELETIONINPROGRESS", "DELETIONEFFECTIVE", "ABORTED"}

(* changeState: does a job of this level wait on entering s? *)
Waits(level, s) == level >= StepLevel(s)

-----------------------------------------------------------------------------
(* The transitions, as triples <<state, event, new state>>. *)
Edges(from, events, to) == from \X events \X {to}

AnyRetry == {"Retried", "RetryForced"}
AnyCancel == {"CancelledByUser", "CancelledByUserForced"}

SharedEdges ==
    UNION { Edges({"NEW", "CREATED"}, {"CancelledByUserForced"}, "ABORTED"),
            Edges({"NEW"}, {"JobCreated"}, "CREATED"),
            Edges({"INITIALISATIONFAILED"}, AnyRetry, "CREATED"),
            Edges({"ABORTED"}, {"RollbackFailed"}, "ROLLBACKFAILED"),
            Edges({"ABORTED"}, {"RollbackDone"}, "FAILED"),
            Edges({"ROLLBACKFAILED"}, AnyRetry, "ABORTED"),
            Edges({"ROLLBACKFAILED"}, {"CancelledByUserForced"}, "FAILED") }

ConsolidationEdges ==
    SharedEdges \cup
    UNION { Edges({"CREATED"}, {"PrepareOrdersFailed"}, "INITIALISATIONFAILED"),
            Edges({"CREATED", "CONSOLIDATIONRETRYING", "CONSOLIDATIONFORCERETRYING"},
                  {"OrdersPrepared"}, "CONSOLIDATIONINPROGRESS"),
            Edges({"CONSOLIDATIONINPROGRESS"}, {"RetryForced"}, "CONSOLIDATIONFORCERETRYING"),
            Edges({"CONSOLIDATIONINPROGRESS"}, {"Retried"}, "CONSOLIDATIONRETRYING"),
            Edges({"CONSOLIDATIONINPROGRESS"}, AnyCancel, "CONSOLIDATIONCANCELLING"),
            Edges({"CONSOLIDATIONINPROGRESS"}, {"ConsolidationFailed", "SendOrdersFailed"},
                  "CONSOLIDATIONFAILED"),
            Edges({"CONSOLIDATIONINPROGRESS"}, {"ConsolidationDone"}, "CONSOLIDATIONDONE"),
            Edges({"CONSOLIDATIONDONE", "CONSOLIDATIONINDEXED"},
                  {"CancelledByUserForced"}, "ABORTED"),
            Edges({"CONSOLIDATIONDONE"}, {"ConsolidationIndexingFailed"}, "CONSOLIDATIONFAILED"),
            Edges({"CONSOLIDATIONDONE"}, {"ConsolidationIndexed"}, "CONSOLIDATIONINDEXED"),
            Edges({"CONSOLIDATIONINDEXED"}, {"SwapDatasetsFailed"}, "CONSOLIDATIONFAILED"),
            Edges({"CONSOLIDATIONINDEXED"}, {"DatasetsSwapped"}, "CONSOLIDATIONEFFECTIVE"),
            Edges({"CONSOLIDATIONEFFECTIVE"}, {"StartDeletionFailed"}, "DONEBUTUNTIDY"),
            Edges({"CONSOLIDATIONEFFECTIVE"}, {"DeletionStarted"}, "DONE"),
            Edges({"DONEBUTUNTIDY"}, AnyRetry, "CONSOLIDATIONEFFECTIVE"),
            Edges({"CONSOLIDATIONCANCELLING"}, {"CancellationFailed"}, "CANCELLATIONFAILED"),
            Edges({"CONSOLIDATIONCANCELLING"}, {"CancellationDone"}, "ABORTED"),
            Edges({"CANCELLATIONFAILED"}, AnyRetry, "CONSOLIDATIONCANCELLING"),
            Edges({"INITIALISATIONFAILED", "CONSOLIDATIONFAILED"}, AnyCancel, "ABORTED"),
            Edges({"CONSOLIDATIONFAILED"}, AnyRetry, "CONSOLIDATIONRETRYING"),
            Edges({"CONSOLIDATIONRETRYING", "CONSOLIDATIONFORCERETRYING"},
                  {"ConsolidationRetryFailed"}, "CONSOLIDATIONFAILED") }

DeletionEdges ==
    SharedEdges \cup
    UNION { Edges({"CREATED"}, {"DeletionNotReady"}, "INITIALISATIONFAILED"),
            Edges({"CREATED"}, {"DeletionReady"}, "DELETIONINPROGRESS"),
            Edges({"DELETIONINPROGRESS", "DELETIONEFFECTIVE"},
                  {"CancelledByUserForced"}, "ABORTED"),
            Edges({"DELETIONINPROGRESS"}, {"RemovalFailed"}, "DELETIONFAILED"),
            Edges({"DELETIONINPROGRESS"}, {"RemovalDone"}, "DELETIONEFFECTIVE"),
            Edges({"DELETIONEFFECTIVE"}, {"DeletionFailed"}, "DONEBUTUNTIDY"),
            Edges({"DELETIONEFFECTIVE"}, {"DeletionDone"}, "DONE"),
            Edges({"DONEBUTUNTIDY"}, {"RetryForced"}, "DELETIONEFFECTIVE"),
            Edges({"DELETIONFAILED"}, AnyRetry, "DELETIONINPROGRESS"),
            Edges({"DELETIONFAILED"}, AnyCancel, "ABORTED"),
            Edges({"INITIALISATIONFAILED"}, {"CancelledByUserForced"}, "FAILED") }

(* The states a plain CancelledByUser aborts only while the job waits there. *)
ConsolidationPause == {"NEW", "CREATED", "CONSOLIDATIONDONE", "CONSOLIDATIONINDEXED"}
DeletionPause == {"NEW", "CREATED", "DELETIONINPROGRESS"}

-----------------------------------------------------------------------------
(* Trigger: the jobs [state, waiting] that an event can lead to, for a job   *)
(* with these edges and these pauses.  The empty set is an UnhandledEvent.   *)
Entering(level, s) == [state |-> s, waiting |-> Waits(level, s)]

Trigger(edges, pause, level, j, e) ==
    IF e = "Continue"
    THEN IF j.waiting THEN {[state |-> j.state, waiting |-> FALSE]} ELSE {}
    ELSE IF e = "RetryForced" /\ j.state \in RetryForcedInPlace
    THEN {[state |-> j.state, waiting |-> j.waiting]}
    ELSE {Entering(level, s) : s \in {t \in JobState :
              \/ <<j.state, e, t>> \in edges
              \/ /\ e = "CancelledByUser" /\ t = "ABORTED"
                 /\ j.state \in pause /\ j.waiting}}
=============================================================================
