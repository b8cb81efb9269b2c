---------------------------- MODULE AgentStatus ----------------------------
(***************************************************************************)
(* The vocabulary of the agent runtime: the statuses of a task, of a step, *)
(* of an execution record and of an approval, and the two transition       *)
(* tables of app/runtime/state_machine.py.  A table is a set of triples    *)
(* <<current status, event, target status>>; an event that has no row for  *)
(* the current status has no target, which is how an illegal transition    *)
(* (an exception in the code) appears in a specification.                  *)
(***************************************************************************)

\* TaskStatus; "ABSENT" stands for a task that has no row yet.
TaskStatus == {"CREATED", "PLANNING", "RUNNING", "WAITING_APPROVAL", "RETRYING",
               "COMPENSATING", "COMPLETED", "PARTIAL_SUCCESS", "FAILED",
               "CANCELLED", "MANUAL_REVIEW"}

TERMINAL_TASK_STATUSES ==
    {"COMPLETED", "PARTIAL_SUCCESS", "FAILED", "CANCELLED", "MANUAL_REVIEW"}

StepStatus == {"PENDING", "READY", "RUNNING", "SUCCESS", "FAILED", "TIMEOUT",
               "UNKNOWN", "WAITING_APPROVAL", "RETRY_SCHEDULED", "COMPENSATING",
               "COMPENSATED", "SKIPPED"}

ACTIONABLE_STEP_STATUSES == {"PENDING", "READY", "RETRY_SCHEDULED", "TIMEOUT", "UNKNOWN"}

UNRESOLVED_STEP_STATUSES == {"TIMEOUT", "UNKNOWN"}

BLOCKING_STEP_STATUSES == {"RUNNING", "WAITING_APPROVAL", "COMPENSATING"}

\* The status of an execution record of an idempotency key; "NONE" is no record.
\* SKIPPED_IDEMPOTENT is a kind of success and is not told apart from it.
RecordStatus == {"NONE", "IN_FLIGHT", "SUCCESS", "FAILED", "TIMEOUT", "UNKNOWN"}

ApprovalStatus == {"NONE", "PENDING", "APPROVED", "REJECTED", "EXPIRED"}

TASK_TRANSITIONS ==
    { <<"CREATED", "START_PLANNING", "PLANNING">>,
      <<"CREATED", "FATAL_ERROR", "FAILED">>,
      <<"CREATED", "CANCEL", "CANCELLED">>,
      <<"PLANNING", "PLAN_READY", "RUNNING">>,
      <<"PLANNING", "FATAL_ERROR", "FAILED">>,
      <<"PLANNING", "ESCALATE_TO_HUMAN", "MANUAL_REVIEW">>,
      <<"PLANNING", "CANCEL", "CANCELLED">>,
      <<"RUNNING", "STEP_SUCCEEDED", "RUNNING">>,
      <<"RUNNING", "NEED_APPROVAL", "WAITING_APPROVAL">>,
      <<"RUNNING", "SCHEDULE_RETRY", "RETRYING">>,
      <<"RUNNING", "START_COMPENSATION", "COMPENSATING">>,
      <<"RUNNING", "ALL_STEPS_DONE", "COMPLETED">>,
      <<"RUNNING", "PARTIALLY_DONE", "PARTIAL_SUCCESS">>,
      <<"RUNNING", "FATAL_ERROR", "FAILED">>,
      <<"RUNNING", "ESCALATE_TO_HUMAN", "MANUAL_REVIEW">>,
      <<"RUNNING", "CANCEL", "CANCELLED">>,
      <<"RUNNING", "RESUME", "RUNNING">>,
      <<"WAITING_APPROVAL", "APPROVAL_GRANTED", "RUNNING">>,
      <<"WAITING_APPROVAL", "APPROVAL_REJECTED", "FAILED">>,
      <<"WAITING_APPROVAL", "ESCALATE_TO_HUMAN", "MANUAL_REVIEW">>,
      <<"WAITING_APPROVAL", "CANCEL", "CANCELLED">>,
      <<"WAITING_APPROVAL", "RESUME", "WAITING_APPROVAL">>,
      <<"RETRYING", "RETRY_RESUMED", "RUNNING">>,
      <<"RETRYING", "RESUME", "RUNNING">>,
      <<"RETRYING", "START_COMPENSATION", "COMPENSATING">>,
      <<"RETRYING", "FATAL_ERROR", "FAILED">>,
      <<"RETRYING", "ESCALATE_TO_HUMAN", "MANUAL_REVIEW">>,
      <<"RETRYING", "CANCEL", "CANCELLED">>,
      <<"COMPENSATING", "COMPENSATION_DONE", "FAILED">>,
      <<"COMPENSATING", "ESCALATE_TO_HUMAN", "MANUAL_REVIEW">>,
      <<"COMPENSATING", "FATAL_ERROR", "MANUAL_REVIEW">>,
      <<"COMPENSATING", "RESUME", "COMPENSATING">> }

STEP_TRANSITIONS ==
    { <<"PENDING", "MARK_READY", "READY">>,
      <<"PENDING", "SKIP", "SKIPPED">>,
      <<"PENDING", "NEED_APPROVAL", "WAITING_APPROVAL">>,
      <<"PENDING", "EXECUTION_FAILED", "FAILED">>,
      <<"PENDING", "START_EXECUTION", "RUNNING">>,
      <<"READY", "START_EXECUTION", "RUNNING">>,
      <<"READY", "NEED_APPROVAL", "WAITING_APPROVAL">>,
      <<"READY", "SKIP", "SKIPPED">>,
      <<"READY", "EXECUTION_FAILED", "FAILED">>,
      <<"RUNNING", "EXECUTION_SUCCEEDED", "SUCCESS">>,
      <<"RUNNING", "EXECUTION_FAILED", "FAILED">>,
      <<"RUNNING", "EXECUTION_TIMEOUT", "TIMEOUT">>,
      <<"RUNNING", "EXECUTION_UNKNOWN", "UNKNOWN">>,
      <<"RUNNING", "NEED_APPROVAL", "WAITING_APPROVAL">>,
      <<"TIMEOUT", "RECONCILED_SUCCESS", "SUCCESS">>,
      <<"TIMEOUT", "RECONCILED_FAILED", "FAILED">>,
      <<"TIMEOUT", "SCHEDULE_RETRY", "RETRY_SCHEDULED">>,
      <<"UNKNOWN", "RECONCILED_SUCCESS", "SUCCESS">>,
      <<"UNKNOWN", "RECONCILED_FAILED", "FAILED">>,
      <<"UNKNOWN", "SCHEDULE_RETRY", "RETRY_SCHEDULED">>,
      <<"UNKNOWN", "EXECUTION_FAILED", "FAILED">>,
      <<"FAILED", "SCHEDULE_RETRY", "RETRY_SCHEDULED">>,
      <<"FAILED", "START_COMPENSATION", "COMPENSATING">>,
      <<"FAILED", "SKIP", "SKIPPED">>,
      <<"RETRY_SCHEDULED", "RETRY_STARTED", "RUNNING">>,
      <<"RETRY_SCHEDULED", "EXECUTION_FAILED", "FAILED">>,
      <<"RETRY_SCHEDULED", "SKIP", "SKIPPED">>,
      <<"WAITING_APPROVAL", "APPROVAL_GRANTED", "READY">>,
      <<"WAITING_APPROVAL", "APPROVAL_REJECTED", "FAILED">>,
      <<"WAITING_APPROVAL", "SKIP", "SKIPPED">>,
      <<"SUCCESS", "START_COMPENSATION", "COMPENSATING">>,
      <<"COMPENSATING", "COMPENSATION_SUCCEEDED", "COMPENSATED">>,
      <<"COMPENSATING", "COMPENSATION_FAILED", "FAILED">> }

\* transition(current, event): at most one target, none when the move is illegal.
TaskTarget(current, event) ==
    {t \in TaskStatus : <<current, event, t>> \in TASK_TRANSITIONS}

StepTarget(current, event) ==
    {t \in StepStatus : <<current, event, t>> \in STEP_TRANSITIONS}
=============================================================================
