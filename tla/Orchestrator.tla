---------------------------- MODULE Orchestrator ----------------------------
(***************************************************************************)
(* One task of enterprise-agent, from the request that creates it to a     *)
(* terminal status: app/runtime/orchestrator.py with the parts of the      *)
(* executor, the saga, the approval gate, the recovery scan and the        *)
(* repositories it drives.                                                 *)
(*                                                                         *)
(* A request (start, approve/reject, resume, one task of a recovery scan)  *)
(* is one database transaction: the variables task .. appr are what the    *)
(* open session sees, db is what is committed.  A session ends by          *)
(* committing (db takes the session's image) or by rolling back (the image *)
(* is db again), whether because the process dies or because an exception  *)
(* leaves the request.  The recovery scan alone catches the exception      *)
(* inside its session, which then commits what was done so far.  Sessions  *)
(* do not overlap here: ConcurrentSessions is about those that do.         *)
(***************************************************************************)
EXTENDS AgentStatus, Naturals

CONSTANTS
    N,              \* the number of steps of the plan; step s has sequence s
    Plans,          \* the plans a planner may produce
    MaxRetries,     \* settings.max_retries
    MaxIterations,  \* the bound of the loop of _drive (50 in the code)
    MaxFaults,      \* bound on crashes and exceptions, for model checking
    Interrupted,    \* TRUE: some histories begin with a step left RUNNING
    BusyDesk        \* TRUE: 200 newer approvals may hide this task's approval

Steps == 1 .. N

\* What the runtime reads of a planned step and of its tool: the step type,
\* PlannedStep.critical and depends_on, whether the policies ask for approval,
\* supports_compensation, whether query_external_status can tell the truth, and
\* whether the key registered with the step (made of the proposed arguments) is
\* the one the executor derives from the validated arguments.
PlannedStep == [kind : {"READ", "WRITE", "NOTIFY"}, critical : BOOLEAN,
                deps : SUBSET Steps, gated : BOOLEAN, undo : BOOLEAN,
                sure : BOOLEAN, samekey : BOOLEAN]

ASSUME NAssumption == N \in Nat
ASSUME PlansAssumption == Plans \subseteq [Steps -> PlannedStep]
ASSUME BoundsAssumption == /\ MaxRetries \in Nat
                           /\ MaxIterations \in Nat
                           /\ MaxFaults \in Nat
                           /\ Interrupted \in BOOLEAN
                           /\ BusyDesk \in BOOLEAN

VARIABLES
    plan,       \* the plan of this task
    \* the session's image of the rows
    task,       \* TaskORM.status; "ABSENT" before the task is created
    step,       \* StepORM.status; the rows are registered by StartTask
    retry,      \* StepORM.retry_count
    rec,        \* ToolExecutionORM.status under the executor's key
    effect,     \* what the tool did to the business tables: "none", "live", "revoked"
    keyed,      \* StepORM.idempotency_key is the executor's key
    appr,       \* ApprovalORM.status of the step's approval
    db,         \* the committed image of the same rows
    \* the world around
    buried,     \* the step's approval is not among the newest 200
    overdue,    \* the pending approval has passed expires_at
    stale,      \* a committed RUNNING step is older than stale_running_seconds
    faults,     \* crashes and exceptions so far
    \* the open session
    pc,         \* where its handler is; "idle" when no session is open
    by,         \* the request that opened it
    back,       \* where a reconciliation returns to
    cur,        \* the step in hand
    iter,       \* iterations of _drive so far
    todo,       \* the steps compensate_task still has to compensate
    followup    \* CompensationResult.needs_manual_followup

rows == <<task, step, retry, rec, effect, keyed, appr>>
world == <<plan, buried, overdue, stale, faults>>
local == <<by, back, cur, iter, todo, followup>>
vars == <<rows, db, world, local, pc>>

Image == [task |-> task, step |-> step, retry |-> retry, rec |-> rec,
          effect |-> effect, keyed |-> keyed, appr |-> appr]

SideEffect(s) == plan[s].kind # "READ"
Terminal(t) == t \in TERMINAL_TASK_STATUSES
Unresolved(s) == step[s] \in UNRESOLVED_STEP_STATUSES

StepMoves(s, event) ==
    \E t \in StepTarget(step[s], event) : step' = [step EXCEPT ![s] = t]
StepMovesVia(s, first, second) ==
    \E m \in StepTarget(step[s], first) :
        \E t \in StepTarget(m, second) : step' = [step EXCEPT ![s] = t]
TaskMoves(event) == task' \in TaskTarget(task, event)

IsFirst(s, S) == s \in S /\ \A t \in S : s <= t
IsLast(s, S) == s \in S /\ \A t \in S : t <= s

\* next_actionable_step: those it may return, of which it returns the first.
Actionable ==
    {s \in Steps : /\ step[s] \in ACTIONABLE_STEP_STATUSES
                   /\ \A d \in plan[s].deps : step[d] = "SUCCESS"}
has_blocking_steps == \E s \in Steps : step[s] \in BLOCKING_STEP_STATUSES
completed_side_effect_steps == {s \in Steps : step[s] = "SUCCESS" /\ SideEffect(s)}

\* Mutant of Granted: having asked is enough.
Asked(s) == appr[s] \in {"PENDING", "APPROVED"} /\ ~buried[s]

\* _has_granted_approval: it looks among the newest 200 approvals only.
Granted(s) == appr[s] = "APPROVED" /\ ~buried[s]

-----------------------------------------------------------------------------
(* Where a history may begin: no task; or, when Interrupted, the image that  *)
(* resume_task is written for: a step whose execution was announced and      *)
(* whose outcome was not recorded, whatever the tool did.                    *)

Fresh ==
    /\ task = "ABSENT"
    /\ step = [s \in Steps |-> "PENDING"]
    /\ rec = [s \in Steps |-> "NONE"]
    /\ effect = [s \in Steps |-> "none"]
    /\ appr = [s \in Steps |-> "NONE"]

InterruptedAt(k) ==
    /\ task = "RUNNING"
    /\ plan[k].kind # "READ"
    /\ \A s \in Steps : \A d \in plan[s].deps : d < s
    /\ step = [s \in Steps |-> IF s < k THEN "SUCCESS" ELSE IF s = k THEN "RUNNING" ELSE "PENDING"]
    /\ \E r \in {"NONE", "IN_FLIGHT"} :
         rec = [s \in Steps |-> IF s < k THEN "SUCCESS" ELSE IF s = k THEN r ELSE "NONE"]
    /\ \E e \in {"none", "live"} :
         effect = [s \in Steps |-> IF s < k /\ SideEffect(s) THEN "live"
                                   ELSE IF s = k THEN e ELSE "none"]
    /\ appr = [s \in Steps |-> IF s <= k /\ plan[s].gated THEN "APPROVED" ELSE "NONE"]

Init ==
    /\ plan \in Plans
    /\ Fresh \/ (Interrupted /\ \E k \in Steps : InterruptedAt(k))
    /\ retry = [s \in Steps |-> 0]
    /\ keyed = [s \in Steps |-> plan[s].samekey \/ step[s] = "SUCCESS"]
    /\ db = Image
    /\ buried = [s \in Steps |-> FALSE]
    /\ overdue = FALSE /\ stale = FALSE /\ faults = 0
    /\ pc = "idle" /\ by = "none" /\ back = "drive" /\ cur = 0
    /\ iter = 0 /\ todo = {} /\ followup = FALSE

-----------------------------------------------------------------------------
(* Requests that open a session.                                             *)

\* start_task: the task and its steps are written, the loop begins.
StartTask ==
    /\ pc = "idle" /\ task = "ABSENT"
    /\ task' = "RUNNING"
    /\ step' = [s \in Steps |-> "PENDING"]
    /\ by' = "start" /\ pc' = "drive" /\ iter' = 0
    /\ UNCHANGED <<retry, rec, effect, keyed, appr, db, world, back, cur, todo, followup>>

\* start_task when no usable plan comes back: the task goes to a human at once.
StartRefused ==
    /\ pc = "idle" /\ task = "ABSENT"
    /\ task' = "MANUAL_REVIEW"
    /\ by' = "start" /\ pc' = "commit"
    /\ UNCHANGED <<step, retry, rec, effect, keyed, appr, db, world, back, cur, iter, todo, followup>>

\* Mutant of ResumeTask: the early return for a terminal task is forgotten.
ResumeAnyTask(who) ==
    /\ pc = "idle" /\ task # "ABSENT"
    /\ by' = who /\ pc' = "stale"
    /\ UNCHANGED <<rows, db, world, back, cur, iter, todo, followup>>

\* resume_task of a task that is not terminal, by the scan or by the API.
ResumeTask(who) ==
    /\ pc = "idle" /\ task # "ABSENT" /\ ~Terminal(task)
    /\ by' = who /\ pc' = "stale"
    /\ UNCHANGED <<rows, db, world, back, cur, iter, todo, followup>>

\* Mutant of Decide: an approval that was decided before is decided again.
DecideAgain(s, verdict) ==
    /\ pc = "idle" /\ appr[s] # "NONE" /\ ~overdue
    /\ appr' = [appr EXCEPT ![s] = verdict]
    /\ by' = "decide" /\ pc' = IF Terminal(task) THEN "commit" ELSE "stale"
    /\ UNCHANGED <<task, step, retry, rec, effect, keyed, db, world, back, cur, iter, todo, followup>>

\* The approve and reject endpoints: the decision is recorded and the task
\* resumed, in the same session.
Decide(s, verdict) ==
    /\ pc = "idle" /\ appr[s] = "PENDING" /\ ~overdue
    /\ appr' = [appr EXCEPT ![s] = verdict]
    /\ by' = "decide" /\ pc' = IF Terminal(task) THEN "commit" ELSE "stale"
    /\ UNCHANGED <<task, step, retry, rec, effect, keyed, db, world, back, cur, iter, todo, followup>>

\* cancel_task: a session of one write.
CancelTask ==
    /\ pc = "idle" /\ task # "ABSENT" /\ ~Terminal(task)
    /\ TaskMoves("CANCEL")
    /\ db' = [db EXCEPT !.task = task']
    /\ UNCHANGED <<step, retry, rec, effect, keyed, appr, world, local, pc>>

\* Mutant of SweepExpiredApprovals: the sweep itself ends the task that waits.
SweepEndsTask ==
    /\ pc = "idle" /\ overdue
    /\ appr' = [s \in Steps |-> IF appr[s] = "PENDING" THEN "EXPIRED" ELSE appr[s]]
    /\ task' = "FAILED"
    /\ db' = [db EXCEPT !.appr = appr', !.task = task']
    /\ overdue' = FALSE
    /\ UNCHANGED <<step, retry, rec, effect, keyed, plan, buried, stale, faults, local, pc>>

\* sweep_expired_approvals: a session that marks what is overdue.
SweepExpiredApprovals ==
    /\ pc = "idle" /\ overdue
    /\ appr' = [s \in Steps |-> IF appr[s] = "PENDING" THEN "EXPIRED" ELSE appr[s]]
    /\ db' = [db EXCEPT !.appr = appr']
    /\ overdue' = FALSE
    /\ UNCHANGED <<task, step, retry, rec, effect, keyed, plan, buried, stale, faults, local, pc>>

-----------------------------------------------------------------------------
(* _settle_unresolved_steps and _settle_approvals.                           *)

\* Mutant of MarkStale: a silent step is retried instead of being reconciled.
RetryStale ==
    /\ pc = "stale"
    /\ step' = [s \in Steps |-> IF step[s] = "RUNNING" /\ stale THEN "RETRY_SCHEDULED" ELSE step[s]]
    /\ pc' = "settle"
    /\ UNCHANGED <<task, retry, rec, effect, keyed, appr, db, world, local>>

\* First loop of _settle_unresolved_steps: a RUNNING step that has been silent
\* for too long has an unknown outcome.
MarkStale ==
    /\ pc = "stale"
    /\ step' = [s \in Steps |-> IF step[s] = "RUNNING" /\ stale THEN "UNKNOWN" ELSE step[s]]
    /\ pc' = "settle"
    /\ UNCHANGED <<task, retry, rec, effect, keyed, appr, db, world, local>>

\* Second loop: every unresolved step is reconciled, in sequence order.
SettleUnresolved ==
    /\ pc = "settle"
    /\ \E s \in Steps : IsFirst(s, {t \in Steps : Unresolved(t)}) /\ cur' = s
    /\ back' = "settle" /\ pc' = "reconcile"
    /\ UNCHANGED <<rows, db, world, by, iter, todo, followup>>

Settled == pc = "settle" /\ \A s \in Steps : ~Unresolved(s)
\* The step in hand: the first that waits for an approval.
Awaiting(s) == IsFirst(s, {t \in Steps : step[t] = "WAITING_APPROVAL"})

\* The task waits for no approval: on to the loop, unless it has ended meanwhile
\* (which takes a session that overlaps with this one: see ConcurrentSessions).
SettleNothing ==
    /\ Settled /\ task # "WAITING_APPROVAL"
    /\ pc' = IF Terminal(task) THEN "commit" ELSE "drive"
    /\ iter' = 0
    /\ UNCHANGED <<rows, db, world, by, back, cur, todo, followup>>

\* The approval is still pending, or is not among those list_approvals returns.
SettleStillWaiting(s) ==
    /\ Settled /\ task = "WAITING_APPROVAL" /\ Awaiting(s)
    /\ appr[s] \in {"NONE", "PENDING"} \/ buried[s]
    /\ pc' = "commit"
    /\ UNCHANGED <<rows, db, world, local>>

SettleGranted(s) ==
    /\ Settled /\ task = "WAITING_APPROVAL" /\ Awaiting(s)
    /\ Granted(s)
    /\ StepMoves(s, "APPROVAL_GRANTED")
    /\ TaskMoves("APPROVAL_GRANTED")
    /\ pc' = "drive" /\ iter' = 0
    /\ UNCHANGED <<retry, rec, effect, keyed, appr, db, world, by, back, cur, todo, followup>>

\* Mutant of SettleRefused: an expired approval is not taken for a refusal.
SettleRejectedOnly(s) ==
    /\ Settled /\ task = "WAITING_APPROVAL" /\ Awaiting(s)
    /\ appr[s] = "REJECTED" /\ ~buried[s]
    /\ StepMoves(s, "APPROVAL_REJECTED")
    /\ TaskMoves("APPROVAL_REJECTED")
    /\ pc' = "commit"
    /\ UNCHANGED <<retry, rec, effect, keyed, appr, db, world, local>>

SettleRefused(s) ==
    /\ Settled /\ task = "WAITING_APPROVAL" /\ Awaiting(s)
    /\ appr[s] \in {"REJECTED", "EXPIRED"} /\ ~buried[s]
    /\ StepMoves(s, "APPROVAL_REJECTED")
    /\ TaskMoves("APPROVAL_REJECTED")
    /\ pc' = "commit"
    /\ UNCHANGED <<retry, rec, effect, keyed, appr, db, world, local>>

-----------------------------------------------------------------------------
(* _drive: one iteration takes the first actionable step.  _advance_step     *)
(* would reconcile an unresolved one, but ReconciledFirst shows that the     *)
(* loop never meets any.                                                     *)

Turn(s) == /\ pc = "drive" /\ iter < MaxIterations
           /\ IsFirst(s, Actionable)
           /\ ~Unresolved(s)
           /\ iter' = iter + 1

\* DENY: the tool is not executed; a critical step takes the task down.
DriveDenied(s) ==
    /\ Turn(s)
    /\ StepMoves(s, "EXECUTION_FAILED")
    /\ pc' = IF plan[s].critical THEN "fail" ELSE "drive"
    /\ cur' = s
    /\ UNCHANGED <<task, retry, rec, effect, keyed, appr, db, world, by, back, todo, followup>>

\* MANUAL_REVIEW: the step fails and a human takes over.
DriveManualReview(s) ==
    /\ Turn(s)
    /\ StepMoves(s, "EXECUTION_FAILED")
    /\ TaskMoves("ESCALATE_TO_HUMAN")
    /\ pc' = "commit"
    /\ UNCHANGED <<retry, rec, effect, keyed, appr, db, world, by, back, cur, todo, followup>>

\* REQUIRE_APPROVAL: a pending approval is reused or created, the task waits.
DriveRequestApproval(s) ==
    /\ Turn(s) /\ plan[s].gated /\ ~Granted(s)
    /\ appr' = [appr EXCEPT ![s] = "PENDING"]
    /\ buried' = [buried EXCEPT ![s] = @ /\ appr[s] = "PENDING"]
    /\ StepMoves(s, "NEED_APPROVAL")
    /\ TaskMoves("NEED_APPROVAL")
    /\ pc' = "commit"
    /\ UNCHANGED <<retry, rec, effect, keyed, db, plan, overdue, stale, faults,
                   by, back, cur, todo, followup>>

\* ALLOW: the step runs; reserve() announces the call under the executor's key.
\* A FAILED record lets the call be made again; one left IN_FLIGHT means that the
\* outcome is unknown.
StartEvent(s) == IF step[s] = "RETRY_SCHEDULED" THEN "RETRY_STARTED" ELSE "START_EXECUTION"
DriveExecute(s) ==
    /\ Turn(s)
    /\ plan[s].gated => Granted(s)
    /\ \/ /\ rec[s] \in {"NONE", "FAILED"}
          /\ StepMoves(s, StartEvent(s))
          /\ rec' = [rec EXCEPT ![s] = IF @ = "NONE" THEN "IN_FLIGHT" ELSE @]
          /\ pc' = "call"
          /\ UNCHANGED <<keyed, back>>
       \/ /\ rec[s] = "IN_FLIGHT"
          /\ StepMovesVia(s, StartEvent(s), "EXECUTION_UNKNOWN")
          /\ keyed' = [keyed EXCEPT ![s] = TRUE]
          /\ back' = "drive" /\ pc' = "reconcile"
          /\ UNCHANGED rec
    /\ cur' = s
    /\ UNCHANGED <<task, retry, effect, appr, db, world, by, todo, followup>>

-----------------------------------------------------------------------------
(* The tool answers, or does not.                                            *)

\* The tool writes unless a row with its key exists: then it reports that one.
Applied(s) ==
    effect' = [effect EXCEPT ![s] = IF SideEffect(s) /\ @ = "none" THEN "live" ELSE @]

ToolSucceeds ==
    /\ pc = "call"
    /\ Applied(cur)
    /\ rec' = [rec EXCEPT ![cur] = "SUCCESS"]
    /\ StepMoves(cur, "EXECUTION_SUCCEEDED")
    /\ keyed' = [keyed EXCEPT ![cur] = TRUE]
    /\ task' = "RUNNING"
    /\ pc' = "drive"
    /\ UNCHANGED <<retry, appr, db, world, local>>

\* A definite failure (_handle_failure): retry while the error is retryable and
\* attempts remain, else skip a non-critical step, else settle the task.
ToolFails(retryable) ==
    /\ pc = "call"
    /\ rec' = [rec EXCEPT ![cur] = "FAILED"]
    /\ IF retryable /\ retry[cur] < MaxRetries
       THEN /\ StepMovesVia(cur, "EXECUTION_FAILED", "SCHEDULE_RETRY")
            /\ retry' = [retry EXCEPT ![cur] = @ + 1]
            /\ task' = "RUNNING"
            /\ pc' = "drive"
       ELSE /\ StepMoves(cur, "EXECUTION_FAILED")
            /\ pc' = IF plan[cur].critical THEN "fail" ELSE "drive"
            /\ UNCHANGED <<retry, task>>
    /\ UNCHANGED <<effect, keyed, appr, db, world, local>>

\* A timeout, or an exception out of a tool that writes: the write may have
\* happened.  The record and the step both say that nobody knows.
ToolUnresolved(u) ==
    /\ pc = "call" /\ (u = "UNKNOWN" => SideEffect(cur))
    /\ UNCHANGED effect \/ Applied(cur)
    /\ rec' = [rec EXCEPT ![cur] = u]
    /\ StepMoves(cur, IF u = "TIMEOUT" THEN "EXECUTION_TIMEOUT" ELSE "EXECUTION_UNKNOWN")
    /\ keyed' = [keyed EXCEPT ![cur] = TRUE]
    /\ back' = "drive" /\ pc' = "reconcile"
    /\ UNCHANGED <<task, retry, appr, db, world, by, cur, iter, todo, followup>>

-----------------------------------------------------------------------------
(* _reconcile_step of cur.                                                   *)

\* A READ step is reset to RETRY_SCHEDULED, but _schedule_retry is given the step
\* as it was: the retry policy sees TIMEOUT, refuses, and the step is failed.
ReconcileRead ==
    /\ pc = "reconcile" /\ ~SideEffect(cur)
    /\ StepMovesVia(cur, "SCHEDULE_RETRY", "EXECUTION_FAILED")
    /\ pc' = "fail"
    /\ UNCHANGED <<task, retry, rec, effect, keyed, appr, db, world, local>>

\* The tool cannot tell: a human has to look.
ReconcileUnresolvable ==
    /\ pc = "reconcile" /\ SideEffect(cur) /\ ~plan[cur].sure
    /\ TaskMoves("ESCALATE_TO_HUMAN")
    /\ pc' = "commit"
    /\ UNCHANGED <<step, retry, rec, effect, keyed, appr, db, world, local>>

\* query_external_status looks under the step's key, and so does the update of the
\* execution record that follows.
Found(s) == keyed[s] /\ effect[s] # "none"
\* Mutant of Reconciled: the execution record keeps its TIMEOUT or UNKNOWN.
RecordKept(s, status) == status \in RecordStatus /\ rec' = rec

Reconciled(s, status) ==
    rec' = [rec EXCEPT ![s] = IF keyed[s] /\ @ # "NONE" THEN status ELSE @]

ReconcileFound ==
    /\ pc = "reconcile" /\ SideEffect(cur) /\ plan[cur].sure /\ Found(cur)
    /\ Reconciled(cur, "SUCCESS")
    /\ StepMoves(cur, "RECONCILED_SUCCESS")
    /\ pc' = back
    /\ UNCHANGED <<task, retry, effect, keyed, appr, db, world, local>>

\* Mutant of ReconcileNotFound: one attempt too many.
RetryOnceMore ==
    /\ pc = "reconcile" /\ SideEffect(cur) /\ plan[cur].sure /\ ~Found(cur)
    /\ Reconciled(cur, "FAILED")
    /\ IF retry[cur] <= MaxRetries
       THEN /\ StepMoves(cur, "SCHEDULE_RETRY")
            /\ retry' = [retry EXCEPT ![cur] = @ + 1]
            /\ task' = "RUNNING"
            /\ pc' = back
       ELSE /\ StepMovesVia(cur, "SCHEDULE_RETRY", "EXECUTION_FAILED")
            /\ pc' = "fail"
            /\ UNCHANGED <<retry, task>>
    /\ UNCHANGED <<effect, keyed, appr, db, world, local>>

\* It did not happen: retry under the same key while attempts remain; when none
\* remain the task is settled, whether or not the step is critical.
ReconcileNotFound ==
    /\ pc = "reconcile" /\ SideEffect(cur) /\ plan[cur].sure /\ ~Found(cur)
    /\ Reconciled(cur, "FAILED")
    /\ IF retry[cur] < MaxRetries
       THEN /\ StepMoves(cur, "SCHEDULE_RETRY")
            /\ retry' = [retry EXCEPT ![cur] = @ + 1]
            /\ task' = "RUNNING"
            /\ pc' = back
       ELSE /\ StepMovesVia(cur, "SCHEDULE_RETRY", "EXECUTION_FAILED")
            /\ pc' = "fail"
            /\ UNCHANGED <<retry, task>>
    /\ UNCHANGED <<effect, keyed, appr, db, world, local>>

-----------------------------------------------------------------------------
(* _fail_and_settle and the saga of compensate_task.                         *)

FailAndSettle ==
    /\ pc = "fail"
    /\ LET undoable == {s \in completed_side_effect_steps : s < cur} IN
         IF undoable # {}
         THEN /\ TaskMoves("START_COMPENSATION")
              /\ todo' = undoable /\ followup' = FALSE /\ pc' = "compensate"
         ELSE /\ TaskMoves("FATAL_ERROR")
              /\ pc' = "commit"
              /\ UNCHANGED <<todo, followup>>
    /\ UNCHANGED <<step, retry, rec, effect, keyed, appr, db, world, by, back, cur, iter>>

\* Mutant of CompensateNotSupported: what cannot be undone is passed over in silence.
CompensateSilently(s) ==
    /\ pc = "compensate" /\ IsLast(s, todo) /\ ~plan[s].undo
    /\ todo' = todo \ {s}
    /\ UNCHANGED <<rows, db, world, by, back, cur, iter, followup, pc>>

\* Latest step first.  A step whose tool does not support compensation keeps its
\* status and calls for a human.
CompensateNotSupported(s) ==
    /\ pc = "compensate" /\ IsLast(s, todo) /\ ~plan[s].undo
    /\ todo' = todo \ {s} /\ followup' = TRUE
    /\ UNCHANGED <<rows, db, world, by, back, cur, iter, pc>>

CompensateSucceeds(s) ==
    /\ pc = "compensate" /\ IsLast(s, todo) /\ plan[s].undo
    /\ StepMovesVia(s, "START_COMPENSATION", "COMPENSATION_SUCCEEDED")
    /\ effect' = [effect EXCEPT ![s] = "revoked"]
    /\ todo' = todo \ {s}
    /\ UNCHANGED <<task, retry, rec, keyed, appr, db, world, by, back, cur, iter, followup, pc>>

\* Mutant of CompensateFails: a failed compensation is booked as done.
CompensateBooked(s) ==
    /\ pc = "compensate" /\ IsLast(s, todo) /\ plan[s].undo
    /\ StepMovesVia(s, "START_COMPENSATION", "COMPENSATION_SUCCEEDED")
    /\ todo' = todo \ {s}
    /\ UNCHANGED <<task, retry, rec, effect, keyed, appr, db, world, by, back, cur, iter, followup, pc>>

CompensateFails(s) ==
    /\ pc = "compensate" /\ IsLast(s, todo) /\ plan[s].undo
    /\ StepMovesVia(s, "START_COMPENSATION", "COMPENSATION_FAILED")
    /\ todo' = todo \ {s} /\ followup' = TRUE
    /\ UNCHANGED <<task, retry, rec, effect, keyed, appr, db, world, by, back, cur, iter, pc>>

CompensationEnds ==
    /\ pc = "compensate" /\ todo = {}
    /\ TaskMoves(IF followup THEN "ESCALATE_TO_HUMAN" ELSE "COMPENSATION_DONE")
    /\ pc' = "commit"
    /\ UNCHANGED <<step, retry, rec, effect, keyed, appr, db, world, local>>

-----------------------------------------------------------------------------
(* The end of _drive.                                                        *)

\* Nothing to do now, but a step waits for its approval or is still RUNNING.
DriveBlocked ==
    /\ pc = "drive" /\ iter < MaxIterations /\ Actionable = {} /\ has_blocking_steps
    /\ pc' = "commit"
    /\ UNCHANGED <<rows, db, world, local>>

\* _finalize: COMPLETED, PARTIAL_SUCCESS, or FAILED without compensation.
Finalize ==
    /\ pc = "drive" /\ iter < MaxIterations /\ Actionable = {} /\ ~has_blocking_steps
    /\ TaskMoves(IF \A s \in Steps : step[s] = "SUCCESS" THEN "ALL_STEPS_DONE"
                 ELSE IF \A s \in Steps : plan[s].critical => step[s] = "SUCCESS"
                 THEN "PARTIALLY_DONE" ELSE "FATAL_ERROR")
    /\ pc' = "commit"
    /\ UNCHANGED <<step, retry, rec, effect, keyed, appr, db, world, local>>

\* The loop has run max_iterations times.
DriveExhausted ==
    /\ pc = "drive" /\ iter >= MaxIterations
    /\ TaskMoves("ESCALATE_TO_HUMAN")
    /\ pc' = "commit"
    /\ UNCHANGED <<step, retry, rec, effect, keyed, appr, db, world, local>>

-----------------------------------------------------------------------------
(* The end of the session, and the world around it.                          *)

Commit ==
    /\ pc = "commit"
    /\ db' = Image
    /\ pc' = "idle"
    /\ UNCHANGED <<rows, world, local>>

\* The process dies, or an exception leaves the request: the session rolls back.
RollBack ==
    /\ pc # "idle" /\ faults < MaxFaults
    /\ faults' = faults + 1
    /\ task' = db.task /\ step' = db.step /\ retry' = db.retry /\ rec' = db.rec
    /\ effect' = db.effect /\ keyed' = db.keyed /\ appr' = db.appr
    /\ pc' = "idle"
    /\ UNCHANGED <<plan, buried, overdue, stale, db, local>>

\* recover_one swallows an exception of the policy evaluation inside its session,
\* which then commits.
RecoverOneFails ==
    /\ pc = "drive" /\ by = "scan" /\ Actionable # {} /\ faults < MaxFaults
    /\ faults' = faults + 1
    /\ db' = Image
    /\ pc' = "idle"
    /\ UNCHANGED <<rows, plan, buried, overdue, stale, local>>

\* expires_at passes.
ApprovalExpires ==
    /\ pc = "idle" /\ ~overdue /\ \E s \in Steps : appr[s] = "PENDING"
    /\ overdue' = TRUE
    /\ UNCHANGED <<rows, db, plan, buried, stale, faults, local, pc>>

\* A committed RUNNING step grows older than stale_running_seconds.
StepGrowsStale ==
    /\ pc = "idle" /\ ~stale /\ \E s \in Steps : step[s] = "RUNNING"
    /\ stale' = TRUE
    /\ UNCHANGED <<rows, db, plan, buried, overdue, faults, local, pc>>

\* 200 approvals newer than this one exist.
Bury(s) ==
    /\ BusyDesk /\ pc = "idle" /\ appr[s] # "NONE" /\ ~buried[s]
    /\ buried' = [buried EXCEPT ![s] = TRUE]
    /\ UNCHANGED <<rows, db, plan, overdue, stale, faults, local, pc>>

-----------------------------------------------------------------------------
Drive == \E s \in Steps : DriveDenied(s) \/ DriveManualReview(s)
                          \/ DriveRequestApproval(s) \/ DriveExecute(s)

CallTool == ToolSucceeds \/ (\E r \in BOOLEAN : ToolFails(r))
            \/ (\E u \in UNRESOLVED_STEP_STATUSES : ToolUnresolved(u))

Settle == MarkStale \/ SettleUnresolved \/ SettleNothing
          \/ \E s \in Steps : SettleStillWaiting(s) \/ SettleGranted(s) \/ SettleRefused(s)

Reconcile == ReconcileRead \/ ReconcileUnresolvable \/ ReconcileFound \/ ReconcileNotFound

Compensate == (\E s \in Steps : CompensateNotSupported(s) \/ CompensateSucceeds(s)
                                \/ CompensateFails(s))
              \/ CompensationEnds

\* What an open session does when nothing goes wrong with it.
Session == Settle \/ Drive \/ CallTool \/ Reconcile \/ FailAndSettle \/ Compensate
           \/ DriveBlocked \/ Finalize \/ DriveExhausted \/ Commit

Request == \/ StartTask \/ StartRefused
           \/ \E who \in {"scan", "api"} : ResumeTask(who)
           \/ \E s \in Steps, verdict \in {"APPROVED", "REJECTED"} : Decide(s, verdict)
           \/ CancelTask \/ SweepExpiredApprovals

World == RollBack \/ RecoverOneFails \/ ApprovalExpires \/ StepGrowsStale
         \/ \E s \in Steps : Bury(s)

Next == Request \/ Session \/ World

Spec == Init /\ [][Next]_vars

\* The process finishes the sessions it has opened, its scheduler scans for ever,
\* and between two scans there is time for the sweep, for deadlines to pass and for
\* a silent step to grow old.  Nobody is obliged to decide, cancel or start anything.
FairSpec == /\ Spec
            /\ WF_vars(Session)
            /\ WF_vars(ResumeTask("scan"))
            /\ SF_vars(SweepExpiredApprovals)
            /\ SF_vars(ApprovalExpires)
            /\ SF_vars(StepGrowsStale)

-----------------------------------------------------------------------------
(* Properties.                                                               *)

Rows == [task : TaskStatus \cup {"ABSENT"}, step : [Steps -> StepStatus],
         retry : [Steps -> 0 .. MaxRetries], rec : [Steps -> RecordStatus],
         effect : [Steps -> {"none", "live", "revoked"}],
         keyed : [Steps -> BOOLEAN], appr : [Steps -> ApprovalStatus]]

\* The variables keep their types; a retry counter never passes max_retries.
TypeOK ==
    /\ plan \in Plans
    /\ Image \in Rows
    /\ db \in Rows
    /\ buried \in [Steps -> BOOLEAN]
    /\ overdue \in BOOLEAN /\ stale \in BOOLEAN /\ faults \in Nat
    /\ pc \in {"idle", "stale", "settle", "drive", "call", "reconcile", "fail",
               "compensate", "commit"}
    /\ by \in {"none", "start", "scan", "api", "decide"}
    /\ back \in {"drive", "settle"}
    /\ cur \in Steps \cup {0} /\ iter \in 0 .. MaxIterations
    /\ todo \in SUBSET Steps /\ followup \in BOOLEAN

\* The committed rows and the open session: without a session there is nothing but
\* the committed rows, and a session that finds the task terminal only has rows to
\* commit that leave its status, its steps and its effects as they are.
SessionIsClean ==
    /\ pc = "idle" => db = Image
    /\ pc # "idle" /\ Terminal(db.task) =>
         pc = "commit" /\ task = db.task /\ step = db.step /\ effect = db.effect

\* Nothing that needs a human's consent happens without it: wherever a gated step
\* has had an effect, in the session or in the committed rows, its approval is
\* APPROVED and has not been turned into something else since.
NoEffectWithoutApproval ==
    \A s \in Steps : plan[s].gated =>
        /\ effect[s] # "none" => appr[s] = "APPROVED"
        /\ db.effect[s] # "none" => db.appr[s] = "APPROVED"

\* Why it holds, by induction: an image of the rows is consented when whatever
\* counts as done was approved, and nothing has an effect before it has begun; the
\* call in progress is that of an approved RUNNING step, and the saga undoes only
\* what counts as done.
Consented(image) ==
    \A s \in Steps :
        /\ plan[s].gated /\ (image.effect[s] # "none" \/ image.step[s] = "SUCCESS")
             => image.appr[s] = "APPROVED"
        /\ image.step[s] \in {"PENDING", "READY", "WAITING_APPROVAL"} => image.effect[s] = "none"
        /\ image.task = "ABSENT" => image.effect[s] = "none" /\ image.appr[s] = "NONE"
ConsentIsKept ==
    /\ Consented(Image)
    /\ Consented(db)
    /\ pc = "call" => /\ step[cur] = "RUNNING"
                      /\ plan[cur].gated => appr[cur] = "APPROVED"
    /\ pc = "compensate" => \A s \in todo : step[s] = "SUCCESS"
    /\ pc # "idle" => task # "ABSENT"

\* The saga's books agree with the world: a step that counts as done has its
\* effect, and a task that ended by itself leaves no effect whose step does not
\* say so (timeouts, lost answers, retries and compensation included).  This is of
\* steps that are registered under the key they are executed with.
InBooks(s) ==
    /\ step[s] = "SUCCESS" => effect[s] = "live"
    /\ step[s] = "COMPENSATED" => effect[s] = "revoked"
    /\ task \in {"COMPLETED", "PARTIAL_SUCCESS", "FAILED"} /\ effect[s] = "live"
         => step[s] = "SUCCESS"
BooksMatchWorld == \A s \in Steps : SideEffect(s) /\ plan[s].samekey => InBooks(s)

\* The saga is all or a human: a task that reports FAILED after it has begun to undo
\* its effects leaves none of them in force, revocable or not (of steps registered
\* under the key they are executed with, as above).
SagaIsWhole ==
    task = "FAILED" /\ (\E s \in Steps : step[s] = "COMPENSATED") =>
        \A s \in Steps : SideEffect(s) /\ plan[s].samekey => effect[s] # "live"

\* A tool is never called again while an earlier call of its has taken effect:
\* an unanswered call, of this process or of one that died, is reconciled before
\* anything is retried (under the key the executor used: see BooksMatchWorld for
\* what becomes of a step registered under another one).
NoBlindReexecution == pc = "call" /\ plan[cur].samekey => effect[cur] = "none"

\* Reconciliation comes first: the loop meets resolved steps only, and a step that
\* may run again is not held back by its own execution record (one that still said
\* TIMEOUT or UNKNOWN would turn every retry into another reconciliation until the
\* attempts are used up).
ReconciledFirst ==
    /\ pc = "drive" => \A s \in Steps : ~Unresolved(s)
    /\ \A s \in Steps : step[s] \in {"PENDING", "READY", "RETRY_SCHEDULED"} =>
         rec[s] \in {"NONE", "FAILED"} \/ (rec[s] = "IN_FLIGHT" /\ ~keyed[s])

\* What a terminal task did and how it ended never changes, whatever requests
\* still arrive for it (late decisions, sweeps, resumes).
TerminalIsFinal ==
    [][Terminal(db.task) => /\ db'.task = db.task /\ db'.step = db.step
                            /\ db'.effect = db.effect]_vars

\* Every task that was created ends in a terminal status, unless an approval of it
\* is buried among more than 200 newer ones.
EventuallyTerminal == db.task # "ABSENT" ~> Terminal(db.task) \/ \E s \in Steps : buried[s]

-----------------------------------------------------------------------------
(* What comments and documents of the repository say, and the code does not. *)

\* "Recovery knows which key to reconcile with", also of a step whose arguments the
\* policies or the schema have changed.
EveryKeyInBooks == \A s \in Steps : SideEffect(s) => InBooks(s)

\* "Every task must end in a definite terminal status", also on a busy desk.
HiddenTaskEnds == db.task # "ABSENT" ~> Terminal(db.task)

\* "READ steps need no reconciliation, they are simply retried": one that timed out
\* fails only when its attempts are used up.
ReadTimeoutRetried ==
    \A s \in Steps : ~SideEffect(s) /\ step[s] = "FAILED" /\ rec[s] = "TIMEOUT"
                        => retry[s] = MaxRetries

\* "A notification that fails never takes the discount back".
NotifyNeverRevokes ==
    pc = "compensate" => plan[cur].kind # "NOTIFY"

\* "FAILED: a terminal status, failed and settled": nothing is left in effect.
FailedIsSettled ==
    task = "FAILED" => \A s \in Steps : effect[s] # "live"

\* "FAILED: failed and settled": no call is left without an answer.  A task may fail
\* while an earlier step is still RUNNING and too young to be reconciled.
NoneLeftRunning ==
    task = "FAILED" => \A s \in Steps : step[s] # "RUNNING"

\* "Otherwise it is MANUAL_REVIEW, not FAILED": the saga takes back whatever has
\* succeeded, also what a dependency has moved ahead of the step that failed.
LaterUndone ==
    task = "FAILED" /\ (\E s \in Steps : step[s] = "COMPENSATED") =>
        \A s \in Steps : SideEffect(s) => step[s] # "SUCCESS"
=============================================================================
