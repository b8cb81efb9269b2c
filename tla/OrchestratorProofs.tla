------------------------- MODULE OrchestratorProofs -------------------------
(***************************************************************************)
(* Proofs about Orchestrator, for every plan and every value of the        *)
(* constants: type correctness, what an open session may do to a terminal  *)
(* task, that nothing gated has an effect without consent, that the books  *)
(* agree with the world, that a saga is all or a human; and, in the last   *)
(* part, what of this is left when requests overlap (ConcurrentSessions).  *)
(*                                                                         *)
(* The actions are treated one by one; those that only move the control    *)
(* point are covered by a lemma on the rows they leave alone.              *)
(***************************************************************************)
EXTENDS ConcurrentSessions, TLAPS

-----------------------------------------------------------------------------
(* The transition tables.                                                    *)

\* The values that the actions assign are statuses.
LEMMA Values ==
    /\ {"NONE", "IN_FLIGHT", "SUCCESS", "FAILED", "TIMEOUT", "UNKNOWN"} \subseteq RecordStatus
    /\ {"RUNNING", "MANUAL_REVIEW"} \subseteq TaskStatus
    /\ {"PENDING", "UNKNOWN"} \subseteq StepStatus
    /\ {"NONE", "PENDING", "APPROVED", "REJECTED", "EXPIRED"} \subseteq ApprovalStatus
    /\ UNRESOLVED_STEP_STATUSES = {"TIMEOUT", "UNKNOWN"}
  BY DEF RecordStatus, TaskStatus, StepStatus, ApprovalStatus, UNRESOLVED_STEP_STATUSES

\* Whatever the event, a status stays a status.
LEMMA MovesType ==
    ASSUME step \in [Steps -> StepStatus], NEW s, NEW e, NEW f,
           StepMoves(s, e) \/ StepMovesVia(s, e, f)
    PROVE  step' \in [Steps -> StepStatus]
  BY DEF StepMoves, StepMovesVia, StepTarget

\* Whatever the event, the task keeps a status.
LEMMA TaskMovesType ==
    ASSUME NEW e, TaskMoves(e)
    PROVE  task' \in TaskStatus
  BY DEF TaskMoves, TaskTarget

\* An event determines the status it leads to.
LEMMA EventStep ==
    \A x, t :
      /\ t \in StepTarget(x, "START_EXECUTION") => t = "RUNNING"
      /\ t \in StepTarget(x, "RETRY_STARTED") => t = "RUNNING"
      /\ t \in StepTarget(x, "NEED_APPROVAL") =>
           t = "WAITING_APPROVAL" /\ x \in {"PENDING", "READY", "RUNNING"}
      /\ t \in StepTarget(x, "EXECUTION_SUCCEEDED") => t = "SUCCESS"
      /\ t \in StepTarget(x, "EXECUTION_FAILED") => t = "FAILED"
      /\ t \in StepTarget(x, "EXECUTION_TIMEOUT") => t = "TIMEOUT"
      /\ t \in StepTarget(x, "EXECUTION_UNKNOWN") => t = "UNKNOWN"
      /\ t \in StepTarget(x, "RECONCILED_SUCCESS") => t = "SUCCESS"
      /\ t \in StepTarget(x, "SCHEDULE_RETRY") => t = "RETRY_SCHEDULED"
      /\ t \in StepTarget(x, "APPROVAL_GRANTED") => t = "READY" /\ x = "WAITING_APPROVAL"
      /\ t \in StepTarget(x, "APPROVAL_REJECTED") => t = "FAILED"
      /\ t \in StepTarget(x, "COMPENSATION_SUCCEEDED") => t = "COMPENSATED"
      /\ t \in StepTarget(x, "COMPENSATION_FAILED") => t = "FAILED"
  BY DEF StepTarget, STEP_TRANSITIONS

-----------------------------------------------------------------------------
(* Type correctness.                                                         *)

\* The part of Init that does not choose the rows.
LEMMA RestOfInit ==
    ASSUME Init,
           task \in TaskStatus \cup {"ABSENT"}, step \in [Steps -> StepStatus],
           rec \in [Steps -> RecordStatus], appr \in [Steps -> ApprovalStatus],
           effect \in [Steps -> {"none", "live", "revoked"}]
    PROVE  TypeOK
  <1>1. /\ plan \in [Steps -> PlannedStep] /\ plan \in Plans
        /\ keyed = [s \in Steps |-> plan[s].samekey \/ step[s] = "SUCCESS"]
        /\ retry = [s \in Steps |-> 0] /\ db = Image
        /\ buried = [s \in Steps |-> FALSE]
        /\ overdue = FALSE /\ stale = FALSE /\ faults = 0
        /\ pc = "idle" /\ by = "none" /\ back = "drive" /\ cur = 0
        /\ iter = 0 /\ todo = {} /\ followup = FALSE
    BY PlansAssumption DEF Init
  <1>2. keyed \in [Steps -> BOOLEAN]
    BY <1>1 DEF PlannedStep
  <1>3. retry \in [Steps -> 0 .. MaxRetries]
    BY <1>1, BoundsAssumption
  <1>4. Image \in Rows
    BY <1>2, <1>3 DEF Image, Rows
  <1>5. db \in Rows
    BY <1>1, <1>4
  <1>6. /\ buried \in [Steps -> BOOLEAN]
        /\ overdue \in BOOLEAN /\ stale \in BOOLEAN /\ followup \in BOOLEAN
    BY <1>1
  <1>8. /\ faults \in Nat /\ iter \in 0 .. MaxIterations
        /\ cur \in Steps \cup {0} /\ todo \in SUBSET Steps
    BY <1>1, BoundsAssumption
  <1>7. /\ pc \in {"idle", "stale", "settle", "drive", "call", "reconcile", "fail",
                   "compensate", "commit"}
        /\ by \in {"none", "start", "scan", "api", "decide"} /\ back \in {"drive", "settle"}
    BY <1>1
  <1> QED BY <1>1, <1>4, <1>5, <1>6, <1>7, <1>8 DEF TypeOK

\* A history begins, fresh or interrupted, with well-typed rows.
LEMMA InitType == Init => TypeOK
  <1> SUFFICES ASSUME Init PROVE TypeOK
    OBVIOUS
  <1> USE NAssumption, PlansAssumption, BoundsAssumption, Values
  <1>1. CASE Fresh
    <2>1. /\ task \in TaskStatus \cup {"ABSENT"} /\ step \in [Steps -> StepStatus]
          /\ rec \in [Steps -> RecordStatus] /\ appr \in [Steps -> ApprovalStatus]
          /\ effect \in [Steps -> {"none", "live", "revoked"}]
      BY <1>1 DEF Fresh
    <2> QED BY <2>1, RestOfInit
  <1>2. CASE \E k \in Steps : InterruptedAt(k)
    <2> PICK k \in Steps : InterruptedAt(k)
      BY <1>2
    <2>1. task \in TaskStatus \cup {"ABSENT"}
      BY DEF InterruptedAt
    <2>2. step \in [Steps -> StepStatus]
      <3>1. {"SUCCESS", "RUNNING", "PENDING"} \subseteq StepStatus
        BY DEF StepStatus
      <3> QED BY <3>1 DEF InterruptedAt
    <2>3. rec \in [Steps -> RecordStatus]
      BY DEF InterruptedAt
    <2>4. effect \in [Steps -> {"none", "live", "revoked"}]
      BY DEF InterruptedAt
    <2>5. appr \in [Steps -> ApprovalStatus]
      BY DEF InterruptedAt
    <2> QED BY <2>1, <2>2, <2>3, <2>4, <2>5, RestOfInit
  <1> QED BY <1>1, <1>2 DEF Init

\* Every request, every step of a session and every event of the world keeps the types.
LEMMA NextType == TypeOK /\ [Next]_vars => TypeOK'
  <1> SUFFICES ASSUME TypeOK, [Next]_vars PROVE TypeOK'
    OBVIOUS
  <1> USE NAssumption, PlansAssumption, BoundsAssumption, Values
      DEF TypeOK, Rows, Image, rows, world, local
  <1>1. ASSUME StartTask PROVE TypeOK'
    BY <1>1 DEF StartTask
  <1>2. ASSUME StartRefused PROVE TypeOK'
    BY <1>2 DEF StartRefused
  <1>3. ASSUME NEW who \in {"scan", "api"}, ResumeTask(who) PROVE TypeOK'
    BY <1>3 DEF ResumeTask
  <1>4. ASSUME NEW s \in Steps, NEW verdict \in {"APPROVED", "REJECTED"}, Decide(s, verdict) PROVE TypeOK'
    BY <1>4 DEF Decide
  <1>5. ASSUME CancelTask PROVE TypeOK'
    BY <1>5, TaskMovesType DEF CancelTask
  <1>6. ASSUME SweepExpiredApprovals PROVE TypeOK'
    BY <1>6 DEF SweepExpiredApprovals
  <1>7. ASSUME MarkStale PROVE TypeOK'
    BY <1>7 DEF MarkStale
  <1>8. ASSUME SettleUnresolved PROVE TypeOK'
    BY <1>8 DEF SettleUnresolved, IsFirst
  <1>9. ASSUME SettleNothing PROVE TypeOK'
    BY <1>9 DEF SettleNothing
  <1>10. ASSUME NEW s \in Steps, SettleStillWaiting(s) PROVE TypeOK'
    BY <1>10 DEF SettleStillWaiting
  <1>11. ASSUME NEW s \in Steps, SettleGranted(s) PROVE TypeOK'
    <2>1. step' \in [Steps -> StepStatus]
      BY <1>11, MovesType DEF SettleGranted
    <2>2. task' \in TaskStatus
      BY <1>11, TaskMovesType DEF SettleGranted
    <2>3. /\ UNCHANGED <<retry, rec, effect, keyed, appr, db, world, by, back, cur, todo, followup>>
          /\ pc' = "drive" /\ iter' = 0
      BY <1>11 DEF SettleGranted
    <2> QED BY <2>1, <2>2, <2>3
  <1>12. ASSUME NEW s \in Steps, SettleRefused(s) PROVE TypeOK'
    <2>1. step' \in [Steps -> StepStatus]
      BY <1>12, MovesType DEF SettleRefused
    <2>2. task' \in TaskStatus
      BY <1>12, TaskMovesType DEF SettleRefused
    <2>3. /\ UNCHANGED <<retry, rec, effect, keyed, appr, db, world, local>>
          /\ pc' = "commit"
      BY <1>12 DEF SettleRefused
    <2> QED BY <2>1, <2>2, <2>3
  <1>13. ASSUME NEW s \in Steps, DriveDenied(s) PROVE TypeOK'
    <2>1. step' \in [Steps -> StepStatus]
      BY <1>13, MovesType DEF DriveDenied
    <2>2. /\ UNCHANGED <<task, retry, rec, effect, keyed, appr, db, world, by, back, todo, followup>>
          /\ pc' \in {"fail", "drive"} /\ cur' = s
      BY <1>13 DEF DriveDenied
    <2>3. iter' \in 0 .. MaxIterations
      BY <1>13 DEF DriveDenied, Turn
    <2> QED BY <2>1, <2>2, <2>3
  <1>14. ASSUME NEW s \in Steps, DriveManualReview(s) PROVE TypeOK'
    <2>1. step' \in [Steps -> StepStatus]
      BY <1>14, MovesType DEF DriveManualReview
    <2>2. task' \in TaskStatus
      BY <1>14, TaskMovesType DEF DriveManualReview
    <2>3. /\ UNCHANGED <<retry, rec, effect, keyed, appr, db, world, by, back, cur, todo, followup>>
          /\ pc' = "commit"
      BY <1>14 DEF DriveManualReview
    <2>4. iter' \in 0 .. MaxIterations
      BY <1>14 DEF DriveManualReview, Turn
    <2> QED BY <2>1, <2>2, <2>3, <2>4
  <1>15. ASSUME NEW s \in Steps, DriveRequestApproval(s) PROVE TypeOK'
    <2>1. step' \in [Steps -> StepStatus]
      BY <1>15, MovesType DEF DriveRequestApproval
    <2>2. task' \in TaskStatus
      BY <1>15, TaskMovesType DEF DriveRequestApproval
    <2>3. /\ UNCHANGED <<retry, rec, effect, keyed, db, plan, overdue, stale, faults,
                         by, back, cur, todo, followup>>
          /\ appr' \in [Steps -> ApprovalStatus] /\ pc' = "commit"
      BY <1>15 DEF DriveRequestApproval
    <2>4. iter' \in 0 .. MaxIterations
      BY <1>15 DEF DriveRequestApproval, Turn
    <2>5. buried' \in [Steps -> BOOLEAN]
      BY <1>15 DEF DriveRequestApproval
    <2> QED BY <2>1, <2>2, <2>3, <2>4, <2>5
  <1>16. ASSUME NEW s \in Steps, DriveExecute(s) PROVE TypeOK'
    <2>1. step' \in [Steps -> StepStatus]
      BY <1>16, MovesType DEF DriveExecute
    <2>2. rec' \in [Steps -> RecordStatus]
      BY <1>16 DEF DriveExecute
    <2>3. /\ keyed' \in [Steps -> BOOLEAN]
          /\ pc' \in {"call", "reconcile"} /\ back' \in {"drive", "settle"}
      BY <1>16 DEF DriveExecute
    <2>4. /\ UNCHANGED <<task, retry, effect, appr, db, world, by, todo, followup>>
          /\ iter' \in 0 .. MaxIterations /\ cur' = s
      BY <1>16 DEF DriveExecute, Turn
    <2> QED BY <2>1, <2>2, <2>3, <2>4
  <1>17. ASSUME ToolSucceeds PROVE TypeOK'
    BY <1>17, MovesType DEF ToolSucceeds, Applied
  <1>18. ASSUME NEW r \in BOOLEAN, ToolFails(r) PROVE TypeOK'
    <2>1. UNCHANGED <<effect, keyed, appr, db, world, local>> /\ rec' \in [Steps -> RecordStatus]
      BY <1>18 DEF ToolFails
    <2>2. CASE r /\ retry[cur] < MaxRetries
      <3>1. step' \in [Steps -> StepStatus]
        BY <1>18, <2>2, MovesType DEF ToolFails
      <3>2. retry' \in [Steps -> 0 .. MaxRetries] /\ task' = "RUNNING" /\ pc' = "drive"
        BY <1>18, <2>2 DEF ToolFails
      <3> QED BY <2>1, <3>1, <3>2
    <2>3. CASE ~(r /\ retry[cur] < MaxRetries)
      <3>1. step' \in [Steps -> StepStatus]
        BY <1>18, <2>3, MovesType DEF ToolFails
      <3>2. UNCHANGED <<retry, task>> /\ pc' \in {"fail", "drive"}
        BY <1>18, <2>3 DEF ToolFails
      <3> QED BY <2>1, <3>1, <3>2
    <2> QED BY <2>2, <2>3
  <1>19. ASSUME NEW u \in UNRESOLVED_STEP_STATUSES, ToolUnresolved(u) PROVE TypeOK'
    <2>1. step' \in [Steps -> StepStatus]
      BY <1>19, MovesType DEF ToolUnresolved
    <2>2. effect' \in [Steps -> {"none", "live", "revoked"}]
      BY <1>19 DEF ToolUnresolved, Applied
    <2>3. rec' \in [Steps -> RecordStatus] /\ keyed' \in [Steps -> BOOLEAN]
      BY <1>19, ZenonT(60) DEF ToolUnresolved
    <2>4. /\ back' = "drive" /\ pc' = "reconcile"
          /\ UNCHANGED <<task, retry, appr, db, world, by, cur, iter, todo, followup>>
      BY <1>19 DEF ToolUnresolved
    <2> QED BY <2>1, <2>2, <2>3, <2>4
  <1>20. ASSUME ReconcileRead PROVE TypeOK'
    BY <1>20, MovesType DEF ReconcileRead
  <1>21. ASSUME ReconcileUnresolvable PROVE TypeOK'
    BY <1>21, TaskMovesType DEF ReconcileUnresolvable
  <1>22. ASSUME ReconcileFound PROVE TypeOK'
    BY <1>22, MovesType, ZenonT(60) DEF ReconcileFound, Reconciled
  <1>23. ASSUME ReconcileNotFound PROVE TypeOK'
    <2>1. UNCHANGED <<effect, keyed, appr, db, world, local>> /\ rec' \in [Steps -> RecordStatus]
      BY <1>23 DEF ReconcileNotFound, Reconciled
    <2>2. CASE retry[cur] < MaxRetries
      <3>1. step' \in [Steps -> StepStatus]
        BY <1>23, <2>2, MovesType DEF ReconcileNotFound
      <3>2. retry' \in [Steps -> 0 .. MaxRetries] /\ task' = "RUNNING" /\ pc' = back
        BY <1>23, <2>2 DEF ReconcileNotFound
      <3> QED BY <2>1, <3>1, <3>2
    <2>3. CASE ~(retry[cur] < MaxRetries)
      <3>1. step' \in [Steps -> StepStatus]
        BY <1>23, <2>3, MovesType DEF ReconcileNotFound
      <3>2. UNCHANGED <<retry, task>> /\ pc' = "fail"
        BY <1>23, <2>3 DEF ReconcileNotFound
      <3> QED BY <2>1, <3>1, <3>2
    <2> QED BY <2>2, <2>3
  <1>24. ASSUME FailAndSettle PROVE TypeOK'
    BY <1>24, TaskMovesType, ZenonT(60) DEF FailAndSettle, completed_side_effect_steps
  <1>25. ASSUME NEW s \in Steps, CompensateNotSupported(s) PROVE TypeOK'
    BY <1>25 DEF CompensateNotSupported
  <1>26. ASSUME NEW s \in Steps, CompensateSucceeds(s) PROVE TypeOK'
    BY <1>26, MovesType DEF CompensateSucceeds
  <1>27. ASSUME NEW s \in Steps, CompensateFails(s) PROVE TypeOK'
    BY <1>27, MovesType DEF CompensateFails
  <1>28. ASSUME CompensationEnds PROVE TypeOK'
    BY <1>28, TaskMovesType DEF CompensationEnds
  <1>29. ASSUME DriveBlocked PROVE TypeOK'
    BY <1>29 DEF DriveBlocked
  <1>30. ASSUME Finalize PROVE TypeOK'
    BY <1>30, TaskMovesType DEF Finalize
  <1>31. ASSUME DriveExhausted PROVE TypeOK'
    BY <1>31, TaskMovesType DEF DriveExhausted
  <1>32. ASSUME Commit PROVE TypeOK'
    BY <1>32 DEF Commit
  <1>33. ASSUME RollBack PROVE TypeOK'
    BY <1>33 DEF RollBack
  <1>34. ASSUME RecoverOneFails PROVE TypeOK'
    BY <1>34 DEF RecoverOneFails
  <1>35. ASSUME ApprovalExpires PROVE TypeOK'
    BY <1>35 DEF ApprovalExpires
  <1>36. ASSUME StepGrowsStale PROVE TypeOK'
    BY <1>36 DEF StepGrowsStale
  <1>37. ASSUME NEW s \in Steps, Bury(s) PROVE TypeOK'
    BY <1>37 DEF Bury
  <1>38. CASE UNCHANGED vars
    BY <1>38 DEF vars
  <1> QED
    <2> HIDE DEF TypeOK, Rows, Image, rows, world, local
    <2>1. CASE Request
      BY <2>1, <1>1, <1>2, <1>3, <1>4, <1>5, <1>6 DEF Request
    <2>2. CASE Settle \/ Drive
      BY <2>2, <1>7, <1>8, <1>9, <1>10, <1>11, <1>12, <1>13, <1>14, <1>15, <1>16
         DEF Settle, Drive
    <2>3. CASE CallTool \/ Reconcile
      BY <2>3, <1>17, <1>18, <1>19, <1>20, <1>21, <1>22, <1>23 DEF CallTool, Reconcile
    <2>4. CASE Compensate
      BY <2>4, <1>25, <1>26, <1>27, <1>28 DEF Compensate
    <2>5. CASE Session
      BY <2>5, <2>2, <2>3, <2>4, <1>24, <1>29, <1>30, <1>31, <1>32 DEF Session
    <2>6. CASE World
      BY <2>6, <1>33, <1>34, <1>35, <1>36, <1>37 DEF World
    <2> QED BY <2>1, <2>5, <2>6, <1>38 DEF Next

\* Every variable keeps its type in every behaviour; in particular the retry counter
\* of a step never passes max_retries and the loop never passes max_iterations.
THEOREM TypeCorrect == Spec => []TypeOK
  BY InitType, NextType, PTL DEF Spec

-----------------------------------------------------------------------------
(* Sessions and terminal tasks.                                              *)

\* A step of an open session that does not end it leaves the committed rows alone.
Inside == pc \notin {"idle", "commit"} /\ pc' # "idle" /\ db' = db

\* An open session changes committed rows only by committing.
LEMMA SessionStays == TypeOK /\ Session => Inside \/ Commit
  <1> SUFFICES ASSUME TypeOK, Session PROVE Inside \/ Commit
    OBVIOUS
  <1>0. back \in {"drive", "settle"}
    BY DEF TypeOK
  <1> USE <1>0 DEF Inside
  <1>1. ASSUME MarkStale PROVE Inside
    BY <1>1 DEF MarkStale
  <1>2. ASSUME SettleUnresolved PROVE Inside
    BY <1>2 DEF SettleUnresolved
  <1>3. ASSUME SettleNothing PROVE Inside
    BY <1>3 DEF SettleNothing, Settled
  <1>4. ASSUME NEW s \in Steps, SettleStillWaiting(s) PROVE Inside
    BY <1>4 DEF SettleStillWaiting, Settled
  <1>5. ASSUME NEW s \in Steps, SettleGranted(s) PROVE Inside
    BY <1>5 DEF SettleGranted, Settled
  <1>6. ASSUME NEW s \in Steps, SettleRefused(s) PROVE Inside
    BY <1>6 DEF SettleRefused, Settled
  <1>7. ASSUME NEW s \in Steps, DriveDenied(s) PROVE Inside
    BY <1>7 DEF DriveDenied, Turn
  <1>8. ASSUME NEW s \in Steps, DriveManualReview(s) PROVE Inside
    BY <1>8 DEF DriveManualReview, Turn
  <1>9. ASSUME NEW s \in Steps, DriveRequestApproval(s) PROVE Inside
    BY <1>9 DEF DriveRequestApproval, Turn
  <1>10. ASSUME NEW s \in Steps, DriveExecute(s) PROVE Inside
    BY <1>10 DEF DriveExecute, Turn
  <1>11. ASSUME ToolSucceeds PROVE Inside
    BY <1>11 DEF ToolSucceeds
  <1>12. ASSUME NEW r \in BOOLEAN, ToolFails(r) PROVE Inside
    BY <1>12 DEF ToolFails
  <1>13. ASSUME NEW u \in UNRESOLVED_STEP_STATUSES, ToolUnresolved(u) PROVE Inside
    BY <1>13 DEF ToolUnresolved
  <1>14. ASSUME ReconcileRead PROVE Inside
    BY <1>14 DEF ReconcileRead
  <1>15. ASSUME ReconcileUnresolvable PROVE Inside
    BY <1>15 DEF ReconcileUnresolvable
  <1>16. ASSUME ReconcileFound PROVE Inside
    BY <1>16 DEF ReconcileFound
  <1>17. ASSUME ReconcileNotFound PROVE Inside
    BY <1>17 DEF ReconcileNotFound
  <1>18. ASSUME FailAndSettle PROVE Inside
    BY <1>18 DEF FailAndSettle
  <1>19. ASSUME NEW s \in Steps, CompensateNotSupported(s) PROVE Inside
    BY <1>19 DEF CompensateNotSupported
  <1>20. ASSUME NEW s \in Steps, CompensateSucceeds(s) PROVE Inside
    BY <1>20 DEF CompensateSucceeds
  <1>21. ASSUME NEW s \in Steps, CompensateFails(s) PROVE Inside
    BY <1>21 DEF CompensateFails
  <1>22. ASSUME CompensationEnds PROVE Inside
    BY <1>22 DEF CompensationEnds
  <1>23. ASSUME DriveBlocked PROVE Inside
    BY <1>23 DEF DriveBlocked
  <1>24. ASSUME Finalize PROVE Inside
    BY <1>24 DEF Finalize
  <1>25. ASSUME DriveExhausted PROVE Inside
    BY <1>25 DEF DriveExhausted
  <1> QED
    <2> HIDE DEF Inside
    <2>1. CASE Settle \/ Drive
      BY <2>1, <1>1, <1>2, <1>3, <1>4, <1>5, <1>6, <1>7, <1>8, <1>9, <1>10 DEF Settle, Drive
    <2>2. CASE CallTool \/ Reconcile
      BY <2>2, <1>11, <1>12, <1>13, <1>14, <1>15, <1>16, <1>17 DEF CallTool, Reconcile
    <2>3. CASE Compensate
      BY <2>3, <1>19, <1>20, <1>21, <1>22 DEF Compensate
    <2> QED BY <2>1, <2>2, <2>3, <1>18, <1>23, <1>24, <1>25 DEF Session

\* A history begins without an open session.
LEMMA InitClean == Init => SessionIsClean
  BY DEF Init, SessionIsClean

\* Sessions are opened for tasks that are not terminal, except by a late decision,
\* which only has its approval to commit; they end with the committed rows in hand.
LEMMA NextClean == TypeOK /\ SessionIsClean /\ [Next]_vars => SessionIsClean'
  <1> SUFFICES ASSUME TypeOK, SessionIsClean, [Next]_vars PROVE SessionIsClean'
    OBVIOUS
  <1> USE DEF SessionIsClean
  <1>1. CASE Session
    <2>1. CASE Inside
      BY <2>1 DEF Inside
    <2>2. CASE Commit
      BY <2>2 DEF Commit, Image, rows
    <2> QED BY <1>1, <2>1, <2>2, SessionStays
  <1>2. CASE Request
    <2> USE DEF Image, rows
    <2>1. CASE StartTask
      <3>1. db.task = "ABSENT" /\ db' = db /\ pc' # "idle"
        BY <2>1 DEF StartTask
      <3> QED BY <3>1 DEF Terminal, TERMINAL_TASK_STATUSES
    <2>2. CASE StartRefused
      <3>1. db.task = "ABSENT" /\ db' = db /\ pc' # "idle"
        BY <2>2 DEF StartRefused
      <3> QED BY <3>1 DEF Terminal, TERMINAL_TASK_STATUSES
    <2>3. ASSUME NEW who \in {"scan", "api"}, ResumeTask(who) PROVE SessionIsClean'
      BY <2>3 DEF ResumeTask
    <2>4. ASSUME NEW s \in Steps, NEW verdict \in {"APPROVED", "REJECTED"}, Decide(s, verdict)
          PROVE  SessionIsClean'
      BY <2>4 DEF Decide
    <2>5. CASE CancelTask
      BY <2>5 DEF CancelTask
    <2>6. CASE SweepExpiredApprovals
      BY <2>6 DEF SweepExpiredApprovals
    <2> QED BY <1>2, <2>1, <2>2, <2>3, <2>4, <2>5, <2>6 DEF Request
  <1>3. CASE World
    <2>1. CASE RollBack
      <3>1. Image' = db /\ db' = db /\ pc' = "idle"
        <4>1. db = [task |-> db.task, step |-> db.step, retry |-> db.retry, rec |-> db.rec,
                    effect |-> db.effect, keyed |-> db.keyed, appr |-> db.appr]
          BY DEF TypeOK, Rows
        <4> QED BY <2>1, <4>1 DEF RollBack, Image
      <3> QED BY <3>1
    <2>2. CASE RecoverOneFails
      BY <2>2 DEF RecoverOneFails, Image, rows
    <2>3. ASSUME ApprovalExpires \/ StepGrowsStale \/ \E s \in Steps : Bury(s)
          PROVE  SessionIsClean'
      <3>1. UNCHANGED <<rows, db, pc>>
        BY <2>3 DEF ApprovalExpires, StepGrowsStale, Bury
      <3> QED BY <3>1 DEF Image, rows
    <2> QED BY <1>3, <2>1, <2>2, <2>3 DEF World
  <1>4. CASE UNCHANGED vars
    BY <1>4 DEF vars, rows, Image
  <1> QED BY <1>1, <1>2, <1>3, <1>4 DEF Next

\* Between sessions the rows in hand are the committed ones, and a session that finds
\* the task terminal has nothing to change about it.
THEOREM SessionsAreClean == Spec => []SessionIsClean
  BY InitType, NextType, InitClean, NextClean, PTL DEF Spec

\* One step leaves a terminal task as it is, given that sessions are clean.
LEMMA TerminalStep ==
    TypeOK /\ SessionIsClean /\ [Next]_vars =>
        [Terminal(db.task) => /\ db'.task = db.task /\ db'.step = db.step
                              /\ db'.effect = db.effect]_vars
  <1> SUFFICES ASSUME TypeOK, SessionIsClean, Next, Terminal(db.task)
               PROVE  db'.task = db.task /\ db'.step = db.step /\ db'.effect = db.effect
    BY DEF vars
  <1> USE DEF SessionIsClean
  <1>1. CASE Session
    <2>1. CASE Inside
      BY <2>1 DEF Inside
    <2>2. CASE Commit
      BY <2>2 DEF Commit, Image
    <2> QED BY <1>1, <2>1, <2>2, SessionStays
  <1>2. CASE Request
    <2>1. CASE CancelTask
      BY <2>1 DEF CancelTask, Image
    <2>2. CASE SweepExpiredApprovals
      BY <2>2 DEF SweepExpiredApprovals, TypeOK, Rows
    <2>3. CASE ~CancelTask /\ ~SweepExpiredApprovals
      <3>1. db' = db
        BY <1>2, <2>3 DEF Request, StartTask, StartRefused, ResumeTask, Decide
      <3> QED BY <3>1
    <2> QED BY <2>1, <2>2, <2>3
  <1>3. CASE World
    <2>1. ~RecoverOneFails
      BY DEF RecoverOneFails
    <2>2. db' = db
      BY <1>3, <2>1 DEF World, RollBack, ApprovalExpires, StepGrowsStale, Bury
    <2> QED BY <2>2
  <1> QED BY <1>1, <1>2, <1>3 DEF Next

\* What a terminal task did and how it ended never changes, whatever plan it had and
\* whatever requests still arrive for it.
THEOREM TerminalIsForGood == Spec => TerminalIsFinal
  BY InitType, NextType, InitClean, NextClean, TerminalStep, PTL DEF Spec, TerminalIsFinal

-----------------------------------------------------------------------------
(* Consent.                                                                  *)

\* What the events used below make of the step in hand.
LEMMA Moves ==
    ASSUME NEW s
    PROVE
      /\ StepMoves(s, StartEvent(s)) => step' = [step EXCEPT ![s] = "RUNNING"]
      /\ StepMovesVia(s, StartEvent(s), "EXECUTION_UNKNOWN") => step' = [step EXCEPT ![s] = "UNKNOWN"]
      /\ StepMoves(s, "NEED_APPROVAL") =>
           step[s] \in {"PENDING", "READY", "RUNNING"} /\ step' = [step EXCEPT ![s] = "WAITING_APPROVAL"]
      /\ StepMoves(s, "EXECUTION_SUCCEEDED") => step' = [step EXCEPT ![s] = "SUCCESS"]
      /\ StepMoves(s, "EXECUTION_FAILED") => step' = [step EXCEPT ![s] = "FAILED"]
      /\ StepMoves(s, "EXECUTION_TIMEOUT") => step' = [step EXCEPT ![s] = "TIMEOUT"]
      /\ StepMoves(s, "EXECUTION_UNKNOWN") => step' = [step EXCEPT ![s] = "UNKNOWN"]
      /\ StepMoves(s, "RECONCILED_SUCCESS") => step' = [step EXCEPT ![s] = "SUCCESS"]
      /\ StepMoves(s, "SCHEDULE_RETRY") => step' = [step EXCEPT ![s] = "RETRY_SCHEDULED"]
      /\ StepMovesVia(s, "EXECUTION_FAILED", "SCHEDULE_RETRY") =>
           step' = [step EXCEPT ![s] = "RETRY_SCHEDULED"]
      /\ StepMovesVia(s, "SCHEDULE_RETRY", "EXECUTION_FAILED") => step' = [step EXCEPT ![s] = "FAILED"]
      /\ StepMoves(s, "APPROVAL_GRANTED") =>
           step[s] = "WAITING_APPROVAL" /\ step' = [step EXCEPT ![s] = "READY"]
      /\ StepMoves(s, "APPROVAL_REJECTED") => step' = [step EXCEPT ![s] = "FAILED"]
      /\ StepMovesVia(s, "START_COMPENSATION", "COMPENSATION_SUCCEEDED") =>
           step' = [step EXCEPT ![s] = "COMPENSATED"]
      /\ StepMovesVia(s, "START_COMPENSATION", "COMPENSATION_FAILED") =>
           step' = [step EXCEPT ![s] = "FAILED"]
  BY EventStep DEF StepMoves, StepMovesVia, StartEvent

\* A task that has a row keeps having one.
LEMMA TaskIsThere == ASSUME NEW e, TaskMoves(e) PROVE task' # "ABSENT"
  BY TaskMovesType DEF TaskStatus

\* A history begins with every effect of a gated step approved.
LEMMA InitConsent == Init => ConsentIsKept
  <1> SUFFICES ASSUME Init PROVE ConsentIsKept
    OBVIOUS
  <1>1. Consented(Image)
    <2>1. CASE Fresh
      BY <2>1 DEF Fresh, Consented, Image
    <2>2. CASE \E k \in Steps : InterruptedAt(k)
      <3> PICK k \in Steps : InterruptedAt(k)
        BY <2>2
      <3>1. /\ task = "RUNNING"
            /\ \A s \in Steps :
                 /\ step[s] = IF s < k THEN "SUCCESS" ELSE IF s = k THEN "RUNNING" ELSE "PENDING"
                 /\ s <= k /\ plan[s].gated => appr[s] = "APPROVED"
                 /\ ~(s < k) /\ s # k => effect[s] = "none"
        BY DEF InterruptedAt
      <3>2. \A s \in Steps : s < k \/ s = k => s <= k
        BY DEF Steps
      <3> QED BY <3>1, <3>2 DEF Consented, Image
    <2> QED BY <2>1, <2>2 DEF Init
  <1>2. db = Image /\ pc = "idle"
    BY DEF Init
  <1> QED BY <1>1, <1>2 DEF ConsentIsKept

\* A step that leaves steps, effects and approvals alone can only disturb consent by
\* beginning a call or a compensation.
LEMMA ConsentUntouched ==
    ASSUME ConsentIsKept, UNCHANGED <<plan, step, effect, appr, db>>,
           task' = task \/ task' # "ABSENT", pc' \notin {"call", "compensate"},
           pc' # "idle" => pc # "idle" \/ task' # "ABSENT"
    PROVE  ConsentIsKept'
  BY DEF ConsentIsKept, Consented, Image

\* Every step keeps consent: an approved approval is never decided again, a gated step
\* begins a call only when it is granted, and a session undoes only what was done.
LEMMA NextConsent ==
    TypeOK /\ SessionIsClean /\ ConsentIsKept /\ [Next]_vars => ConsentIsKept'
  <1> SUFFICES ASSUME TypeOK, SessionIsClean, ConsentIsKept, [Next]_vars PROVE ConsentIsKept'
    OBVIOUS
  <1>0. /\ step \in [Steps -> StepStatus] /\ appr \in [Steps -> ApprovalStatus]
        /\ effect \in [Steps -> {"none", "live", "revoked"}] /\ todo \in SUBSET Steps
        /\ back \in {"drive", "settle"}
    BY DEF TypeOK, Rows, Image
  <1>1. ASSUME StartTask PROVE ConsentIsKept'
    BY <1>1 DEF StartTask, rows, world, ConsentIsKept, Consented, Image
  <1>2. ASSUME StartRefused PROVE ConsentIsKept'
    BY <1>2 DEF StartRefused, rows, world, ConsentIsKept, Consented, Image
  <1>3. ASSUME NEW who \in {"scan", "api"}, ResumeTask(who) PROVE ConsentIsKept'
    BY <1>3, ConsentUntouched DEF ResumeTask, rows, world
  <1>4. ASSUME NEW s \in Steps, NEW verdict \in {"APPROVED", "REJECTED"}, Decide(s, verdict) PROVE ConsentIsKept'
    BY <1>4, <1>0 DEF Decide, rows, world, ConsentIsKept, Consented, Image
  <1>5. ASSUME CancelTask PROVE ConsentIsKept'
    <2>1. task' # "ABSENT"
      BY <1>5, TaskIsThere DEF CancelTask
    <2>2. /\ db'.step = db.step /\ db'.effect = db.effect /\ db'.appr = db.appr
          /\ db'.task # "ABSENT"
      BY <1>5, <2>1 DEF CancelTask, TypeOK, Rows
    <2> QED BY <1>5, <2>1, <2>2 DEF CancelTask, world, local, ConsentIsKept, Consented, Image
  <1>6. ASSUME SweepExpiredApprovals PROVE ConsentIsKept'
    <2>1. /\ db'.step = step /\ db'.effect = effect /\ db'.task = task /\ db'.appr = appr'
      BY <1>6 DEF SweepExpiredApprovals, SessionIsClean, Image
    <2>2. \A s \in Steps : appr[s] = "APPROVED" => appr'[s] = "APPROVED"
      BY <1>6 DEF SweepExpiredApprovals
    <2> QED BY <1>6, <2>1, <2>2 DEF SweepExpiredApprovals, local, ConsentIsKept, Consented, Image
  <1>7. ASSUME MarkStale PROVE ConsentIsKept'
    BY <1>7, <1>0 DEF MarkStale, rows, world, ConsentIsKept, Consented, Image
  <1>8. ASSUME SettleUnresolved PROVE ConsentIsKept'
    BY <1>8, ConsentUntouched DEF SettleUnresolved, rows, world
  <1>9. ASSUME SettleNothing PROVE ConsentIsKept'
    BY <1>9, ConsentUntouched DEF SettleNothing, Settled, rows, world
  <1>10. ASSUME NEW s \in Steps, SettleStillWaiting(s) PROVE ConsentIsKept'
    BY <1>10, ConsentUntouched DEF SettleStillWaiting, rows, world
  <1>11. ASSUME NEW s \in Steps, SettleGranted(s) PROVE ConsentIsKept'
    BY <1>11, <1>0, Moves, TaskIsThere DEF SettleGranted, rows, world, ConsentIsKept, Consented, Image
  <1>12. ASSUME NEW s \in Steps, SettleRefused(s) PROVE ConsentIsKept'
    BY <1>12, <1>0, Moves, TaskIsThere DEF SettleRefused, rows, world, ConsentIsKept, Consented, Image
  <1>13. ASSUME NEW s \in Steps, DriveDenied(s) PROVE ConsentIsKept'
    BY <1>13, <1>0, Moves DEF DriveDenied, Turn, rows, world, ConsentIsKept, Consented, Image
  <1>14. ASSUME NEW s \in Steps, DriveManualReview(s) PROVE ConsentIsKept'
    BY <1>14, <1>0, Moves, TaskIsThere DEF DriveManualReview, rows, world, ConsentIsKept, Consented, Image
  <1>15. ASSUME NEW s \in Steps, DriveRequestApproval(s) PROVE ConsentIsKept'
    BY <1>15, <1>0, Moves, TaskIsThere DEF DriveRequestApproval, Turn, IsFirst, Actionable,
       ACTIONABLE_STEP_STATUSES, rows, world, ConsentIsKept, Consented, Image
  <1>16. ASSUME NEW s \in Steps, DriveExecute(s) PROVE ConsentIsKept'
    <2>1. plan[s].gated => appr[s] = "APPROVED"
      BY <1>16 DEF DriveExecute, Granted
    <2>2. UNCHANGED <<plan, task, effect, appr, db>> /\ cur' = s /\ pc = "drive"
      BY <1>16 DEF DriveExecute, Turn, world
    <2>3. \/ pc' = "call" /\ step' = [step EXCEPT ![s] = "RUNNING"]
          \/ pc' = "reconcile" /\ step' = [step EXCEPT ![s] = "UNKNOWN"]
      BY <1>16, Moves DEF DriveExecute
    <2> QED BY <1>0, <2>1, <2>2, <2>3 DEF ConsentIsKept, Consented, Image
  <1>17. ASSUME ToolSucceeds PROVE ConsentIsKept'
    BY <1>17, <1>0, Moves DEF ToolSucceeds, world, local, Applied, ConsentIsKept, Consented, Image
  <1>18. ASSUME NEW r \in BOOLEAN, ToolFails(r) PROVE ConsentIsKept'
    <2>1. /\ pc = "call" /\ UNCHANGED <<plan, effect, appr, db>>
          /\ pc' \in {"fail", "drive"} /\ task' \in {task, "RUNNING"}
      BY <1>18 DEF ToolFails, world
    <2>2. \/ step' = [step EXCEPT ![cur] = "FAILED"]
          \/ step' = [step EXCEPT ![cur] = "RETRY_SCHEDULED"]
      BY <1>18, Moves DEF ToolFails
    <2> QED BY <1>0, <2>1, <2>2 DEF ConsentIsKept, Consented, Image
  <1>19. ASSUME NEW u \in UNRESOLVED_STEP_STATUSES, ToolUnresolved(u) PROVE ConsentIsKept'
    <2>1. UNCHANGED <<plan, task, appr, db>> /\ pc = "call" /\ pc' = "reconcile"
      BY <1>19 DEF ToolUnresolved, world
    <2>2. \/ step' = [step EXCEPT ![cur] = "TIMEOUT"]
          \/ step' = [step EXCEPT ![cur] = "UNKNOWN"]
      BY <1>19, Moves DEF ToolUnresolved
    <2>3. \A s \in Steps : s # cur => effect'[s] = effect[s]
      BY <1>0, <1>19 DEF ToolUnresolved, Applied
    <2>4. plan[cur].gated => appr[cur] = "APPROVED"
      BY <2>1 DEF ConsentIsKept
    <2>5. Consented(Image)'
      <3> SUFFICES ASSUME NEW s \in Steps
                   PROVE  /\ plan[s].gated /\ (effect'[s] # "none" \/ step'[s] = "SUCCESS")
                               => appr[s] = "APPROVED"
                          /\ step'[s] \in {"PENDING", "READY", "WAITING_APPROVAL"}
                               => effect'[s] = "none"
        BY <2>1 DEF Consented, Image, ConsentIsKept
      <3>1. Consented(Image) /\ step[cur] = "RUNNING"
        BY <2>1 DEF ConsentIsKept
      <3>2. CASE s = cur
        BY <1>0, <1>19, <2>2, <2>4, <3>1, <3>2 DEF Consented, Image, ToolUnresolved, Applied
      <3>3. CASE s # cur
        BY <1>0, <2>2, <2>3, <3>1, <3>3 DEF Consented, Image
      <3> QED BY <3>2, <3>3
    <2> QED BY <2>1, <2>5 DEF ConsentIsKept, Consented
  <1>20. ASSUME ReconcileRead PROVE ConsentIsKept'
    BY <1>20, <1>0, Moves DEF ReconcileRead, rows, world, ConsentIsKept, Consented, Image, local
  <1>21. ASSUME ReconcileUnresolvable PROVE ConsentIsKept'
    BY <1>21, ConsentUntouched, TaskIsThere DEF ReconcileUnresolvable, rows, world
  <1>22. ASSUME ReconcileFound PROVE ConsentIsKept'
    BY <1>22, <1>0, Moves DEF ReconcileFound, rows, world, ConsentIsKept, Consented, Image, local, Found
  <1>23. ASSUME ReconcileNotFound PROVE ConsentIsKept'
    <2>1. /\ pc = "reconcile" /\ UNCHANGED <<plan, effect, appr, db>>
          /\ pc' \in {"fail", back} /\ task' \in {task, "RUNNING"}
      BY <1>23 DEF ReconcileNotFound, world
    <2>2. \/ step' = [step EXCEPT ![cur] = "FAILED"]
          \/ step' = [step EXCEPT ![cur] = "RETRY_SCHEDULED"]
      BY <1>23, Moves DEF ReconcileNotFound
    <2> QED BY <1>0, <2>1, <2>2 DEF ConsentIsKept, Consented, Image
  <1>24. ASSUME FailAndSettle PROVE ConsentIsKept'
    <2>1. UNCHANGED <<plan, step, effect, appr, db>> /\ task' # "ABSENT"
      BY <1>24, TaskIsThere DEF FailAndSettle, world
    <2>2. pc' = "commit" \/ (pc' = "compensate" /\ \A s \in todo' : step[s] = "SUCCESS")
      BY <1>24 DEF FailAndSettle, completed_side_effect_steps
    <2> QED BY <2>1, <2>2 DEF ConsentIsKept, Consented, Image
  <1>25. ASSUME NEW s \in Steps, CompensateNotSupported(s) PROVE ConsentIsKept'
    BY <1>25 DEF CompensateNotSupported, rows, world, ConsentIsKept, Consented, Image
  <1>26. ASSUME NEW s \in Steps, CompensateSucceeds(s) PROVE ConsentIsKept'
    <2>1. s \in todo /\ step[s] = "SUCCESS"
      BY <1>26 DEF CompensateSucceeds, IsLast, ConsentIsKept
    <2>2. /\ step' = [step EXCEPT ![s] = "COMPENSATED"] /\ effect' = [effect EXCEPT ![s] = "revoked"]
          /\ todo' = todo \ {s} /\ UNCHANGED <<task, plan, appr, db, pc>>
      BY <1>26, Moves DEF CompensateSucceeds, world
    <2> QED BY <1>0, <1>26, <2>1, <2>2 DEF CompensateSucceeds, ConsentIsKept, Consented, Image
  <1>27. ASSUME NEW s \in Steps, CompensateFails(s) PROVE ConsentIsKept'
    <2>1. s \in todo /\ step[s] = "SUCCESS"
      BY <1>27 DEF CompensateFails, IsLast, ConsentIsKept
    <2> QED BY <1>27, <1>0, <2>1, Moves DEF CompensateFails, world, ConsentIsKept, Consented, Image
  <1>28. ASSUME CompensationEnds PROVE ConsentIsKept'
    BY <1>28, ConsentUntouched, TaskIsThere DEF CompensationEnds, rows, world
  <1>29. ASSUME DriveBlocked PROVE ConsentIsKept'
    BY <1>29, ConsentUntouched DEF DriveBlocked, rows, world
  <1>30. ASSUME Finalize PROVE ConsentIsKept'
    BY <1>30, ConsentUntouched, TaskIsThere DEF Finalize, rows, world
  <1>31. ASSUME DriveExhausted PROVE ConsentIsKept'
    BY <1>31, ConsentUntouched, TaskIsThere DEF DriveExhausted, rows, world
  <1>32. ASSUME Commit PROVE ConsentIsKept'
    BY <1>32 DEF Commit, rows, world, ConsentIsKept, Consented, Image
  <1>33. ASSUME RollBack PROVE ConsentIsKept'
    <2>1. /\ task' = db.task /\ step' = db.step /\ effect' = db.effect /\ appr' = db.appr
          /\ UNCHANGED <<plan, db>> /\ pc' = "idle"
      BY <1>33 DEF RollBack
    <2> QED BY <2>1 DEF ConsentIsKept, Consented, Image
  <1>34. ASSUME RecoverOneFails PROVE ConsentIsKept'
    BY <1>34 DEF RecoverOneFails, rows, world, ConsentIsKept, Consented, Image
  <1>35. ASSUME ApprovalExpires \/ StepGrowsStale \/ \E s \in Steps : Bury(s)
         PROVE  ConsentIsKept'
    BY <1>35, ConsentUntouched DEF ApprovalExpires, StepGrowsStale, Bury, rows
  <1>36. CASE UNCHANGED vars
    BY <1>36 DEF vars, rows, world, local, ConsentIsKept, Consented, Image
  <1> QED
    <2>1. CASE Request
      BY <2>1, <1>1, <1>2, <1>3, <1>4, <1>5, <1>6 DEF Request
    <2>2. CASE Settle \/ Drive
      BY <2>2, <1>7, <1>8, <1>9, <1>10, <1>11, <1>12, <1>13, <1>14, <1>15, <1>16
         DEF Settle, Drive
    <2>3. CASE CallTool \/ Reconcile
      BY <2>3, <1>17, <1>18, <1>19, <1>20, <1>21, <1>22, <1>23 DEF CallTool, Reconcile
    <2>4. CASE Compensate
      BY <2>4, <1>25, <1>26, <1>27, <1>28 DEF Compensate
    <2>5. CASE Session
      BY <2>5, <2>2, <2>3, <2>4, <1>24, <1>29, <1>30, <1>31, <1>32 DEF Session
    <2>6. CASE World
      BY <2>6, <1>33, <1>34, <1>35 DEF World
    <2> QED BY <2>1, <2>5, <2>6, <1>36 DEF Next

\* The inductive invariant behind the next theorem.
THEOREM ConsentHolds == Spec => []ConsentIsKept
  BY InitType, NextType, InitClean, NextClean, InitConsent, NextConsent, PTL DEF Spec

\* Nothing that needs a human's consent has an effect without it: in the rows of the
\* open session and in the committed ones, for every plan, any number of steps,
\* retries, expiries, crashes and recoveries.
THEOREM ConsentComesFirst == Spec => []NoEffectWithoutApproval
  <1>1. ConsentIsKept => NoEffectWithoutApproval
    BY DEF ConsentIsKept, Consented, NoEffectWithoutApproval, Image
  <1> QED BY <1>1, ConsentHolds, PTL

-----------------------------------------------------------------------------
(* The books: what a step's status, its execution record and the world say.  *)

\* The statuses of a step that no call is made for at the moment, and those of a
\* step whose call has not been answered.
Waits == {"PENDING", "READY", "WAITING_APPROVAL", "RETRY_SCHEDULED"}
Unanswered == {"RUNNING", "TIMEOUT", "UNKNOWN"}

\* The records of one step in an image of the rows: it may run again when its record
\* lets it, and a record with an outcome stands under the key the step is known by.
RecordFits(i, s) ==
    /\ plan[s].samekey => i.keyed[s]
    /\ i.rec[s] \in {"SUCCESS", "TIMEOUT", "UNKNOWN"} => i.keyed[s]
    /\ i.step[s] \in Waits =>
         i.rec[s] \in {"NONE", "FAILED"} \/ (i.rec[s] = "IN_FLIGHT" /\ ~i.keyed[s])
    /\ i.step[s] \notin {"COMPENSATING", "SKIPPED"}
    /\ i.task = "ABSENT" => i.step[s] = "PENDING"

\* The effect of one step agrees with its status; a failed step may have one when its
\* compensation failed, and then a human is asked (excused).
EffectFits(i, s, excused) ==
    /\ ~SideEffect(s) => i.effect[s] = "none"
    /\ SideEffect(s) /\ plan[s].samekey =>
         /\ i.step[s] \in Waits => i.effect[s] = "none"
         /\ i.step[s] = "SUCCESS" => i.effect[s] = "live"
         /\ i.step[s] = "COMPENSATED" => i.effect[s] = "revoked"
         /\ i.step[s] \in Unanswered => i.effect[s] # "revoked"
         /\ i.step[s] = "FAILED" => i.effect[s] = "none" \/ excused

\* The saga of the open session has met something it could not undo, or has already
\* called for a human.
Excused == task = "MANUAL_REVIEW" \/ (pc = "compensate" /\ followup)

\* Where the open session is, and what it has in hand there.
InHand ==
    /\ pc \notin {"idle", "commit"} => ~Terminal(task)
    /\ pc \in {"drive", "call"} => \A s \in Steps : ~Unresolved(s)
    /\ pc = "call" => /\ cur \in Steps /\ step[cur] = "RUNNING"
                      /\ plan[cur].samekey => effect[cur] = "none"
    /\ pc = "reconcile" => /\ cur \in Steps /\ Unresolved(cur)
                           /\ back = "drive" => \A s \in Steps \ {cur} : ~Unresolved(s)
    /\ pc = "compensate" => \A s \in todo : step[s] = "SUCCESS" /\ SideEffect(s)

BooksInv ==
    /\ \A s \in Steps : RecordFits(Image, s) /\ EffectFits(Image, s, Excused)
    /\ \A s \in Steps : RecordFits(db, s) /\ EffectFits(db, s, db.task = "MANUAL_REVIEW")
    /\ InHand

\* A history begins with books that fit: of an interrupted step nobody knows whether it
\* had its effect, of the others the rows tell.
LEMMA InitBooks == Init => BooksInv
  <1> SUFFICES ASSUME Init PROVE BooksInv
    OBVIOUS
  <1>1. \A s \in Steps : RecordFits(Image, s) /\ EffectFits(Image, s, FALSE)
    <2>1. \A s \in Steps : keyed[s] = (plan[s].samekey \/ step[s] = "SUCCESS")
      BY DEF Init
    <2>2. CASE Fresh
      BY <2>1, <2>2 DEF Fresh, RecordFits, EffectFits, Image, Waits, Unanswered
    <2>3. CASE \E k \in Steps : InterruptedAt(k)
      <3> PICK k \in Steps : InterruptedAt(k)
        BY <2>3
      <3> TAKE s \in Steps
      <3>1. /\ task = "RUNNING" /\ SideEffect(k)
            /\ step[s] = IF s < k THEN "SUCCESS" ELSE IF s = k THEN "RUNNING" ELSE "PENDING"
            /\ rec[s] \in IF s < k THEN {"SUCCESS"} ELSE IF s = k THEN {"NONE", "IN_FLIGHT"} ELSE {"NONE"}
            /\ effect[s] \in IF s < k /\ SideEffect(s) THEN {"live"}
                             ELSE IF s = k THEN {"none", "live"} ELSE {"none"}
        BY DEF InterruptedAt, SideEffect
      <3>2. RecordFits(Image, s)
        BY <2>1, <3>1 DEF RecordFits, Image, Waits
      <3>3. EffectFits(Image, s, FALSE)
        BY <3>1 DEF EffectFits, Image, Waits, Unanswered
      <3> QED BY <3>2, <3>3
    <2> QED BY <2>2, <2>3 DEF Init
  <1>2. db = Image /\ pc = "idle"
    BY DEF Init
  <1>3. \A s \in Steps : \A e \in BOOLEAN : EffectFits(Image, s, FALSE) => EffectFits(Image, s, e)
    BY DEF EffectFits
  <1>4. Excused \in BOOLEAN /\ (db.task = "MANUAL_REVIEW") \in BOOLEAN
    BY DEF Excused
  <1> QED BY <1>1, <1>2, <1>3, <1>4 DEF BooksInv, InHand

\* What the rows say of one step.
SameRow(s) == /\ step'[s] = step[s] /\ rec'[s] = rec[s]
              /\ effect'[s] = effect[s] /\ keyed'[s] = keyed[s]

\* A step of the session that has one row in hand disturbs the books there only.
LEMMA OneRow ==
    ASSUME BooksInv, NEW x, UNCHANGED <<plan, db>>, task' # "ABSENT", Excused => Excused',
           \A s \in Steps \ {x} : SameRow(s),
           x \in Steps => RecordFits(Image, x)' /\ EffectFits(Image, x, Excused)',
           InHand'
    PROVE  BooksInv'
  <1>1. ASSUME NEW s \in Steps PROVE RecordFits(Image, s)' /\ EffectFits(Image, s, Excused)'
    <2>1. CASE s = x
      BY <2>1
    <2>2. CASE s # x
      <3>1. SameRow(s) /\ RecordFits(Image, s) /\ EffectFits(Image, s, Excused)
        BY <2>2 DEF BooksInv
      <3>2. RecordFits(Image, s)'
        BY <3>1 DEF SameRow, RecordFits, Image
      <3>3. EffectFits(Image, s, Excused)'
        BY <3>1 DEF SameRow, EffectFits, Image, SideEffect
      <3> QED BY <3>2, <3>3
    <2> QED BY <2>1, <2>2
  <1>2. \A s \in Steps : RecordFits(db, s)' /\ EffectFits(db, s, db.task = "MANUAL_REVIEW")'
    BY DEF BooksInv, RecordFits, EffectFits, SideEffect
  <1> QED BY <1>1, <1>2 DEF BooksInv

\* A step that leaves the rows alone, but for the status of the task and the approvals,
\* disturbs what the session has in hand only.
LEMMA NoRow ==
    ASSUME BooksInv, UNCHANGED <<plan, db, step, rec, effect, keyed>>,
           task' = task \/ task' # "ABSENT", Excused => Excused', InHand'
    PROVE  BooksInv'
  <1>1. CASE task' # "ABSENT"
    <2>1. \A s \in Steps \ {0} : SameRow(s)
      BY DEF SameRow
    <2>2. 0 \notin Steps
      BY DEF Steps
    <2> QED BY <1>1, <2>1, <2>2, OneRow
  <1>2. CASE task' = task
    BY <1>2 DEF BooksInv, RecordFits, EffectFits, Image, SideEffect
  <1> QED BY <1>1, <1>2

\* Every step keeps the books: a tool is called on a resolved step, what it did to an
\* unanswered one is found out before the step waits again, and what a session undoes
\* was done.
LEMMA NextBooks ==
    TypeOK /\ SessionIsClean /\ ConsentIsKept /\ BooksInv /\ [Next]_vars => BooksInv'
  <1> SUFFICES ASSUME TypeOK, SessionIsClean, ConsentIsKept, BooksInv, [Next]_vars
               PROVE  BooksInv'
    OBVIOUS
  <1>0. /\ step \in [Steps -> StepStatus] /\ rec \in [Steps -> RecordStatus]
        /\ effect \in [Steps -> {"none", "live", "revoked"}] /\ keyed \in [Steps -> BOOLEAN]
        /\ todo \in SUBSET Steps /\ back \in {"drive", "settle"} /\ cur \in Steps \cup {0}
    BY DEF TypeOK, Rows, Image
  <1>a. \A s \in Steps : RecordFits(Image, s) /\ EffectFits(Image, s, Excused)
    BY DEF BooksInv
  <1>b. InHand
    BY DEF BooksInv
  <1>c. pc \notin {"idle", "commit"} => task # "ABSENT" /\ (~Excused \/ pc = "compensate")
    BY <1>b DEF InHand, Excused, Terminal, TERMINAL_TASK_STATUSES, ConsentIsKept
  <1>1. ASSUME StartTask PROVE BooksInv'
    <2>1. UNCHANGED <<plan, db, rec, effect, keyed>> /\ task' # "ABSENT"
      BY <1>1 DEF StartTask, world
    <2>2. step' = step
      <3>1. \A s \in Steps : step[s] = "PENDING"
        BY <1>1, <1>a DEF StartTask, RecordFits, Image
      <3> QED BY <1>0, <1>1, <3>1 DEF StartTask
    <2>3. InHand'
      <3>1. pc' = "drive" /\ task' = "RUNNING"
        BY <1>1 DEF StartTask
      <3>2. \A s \in Steps : step'[s] = "PENDING"
        BY <1>1 DEF StartTask
      <3> QED BY <3>1, <3>2, Values DEF InHand, Terminal, TERMINAL_TASK_STATUSES, Unresolved
    <2>4. ~Excused
      BY <1>1 DEF StartTask, Excused
    <2> QED BY <2>1, <2>2, <2>3, <2>4, NoRow
  <1>2. ASSUME StartRefused PROVE BooksInv'
    BY <1>2, NoRow DEF StartRefused, world, Excused, InHand
  <1>3. ASSUME NEW who \in {"scan", "api"}, ResumeTask(who) PROVE BooksInv'
    BY <1>3, NoRow DEF ResumeTask, rows, world, Excused, InHand
  <1>4. ASSUME NEW s \in Steps, NEW verdict \in {"APPROVED", "REJECTED"}, Decide(s, verdict) PROVE BooksInv'
    BY <1>4, NoRow DEF Decide, rows, world, Excused, InHand
  <1>5. ASSUME CancelTask PROVE BooksInv'
    <2>1. /\ UNCHANGED <<plan, step, rec, effect, keyed, pc>> /\ pc = "idle"
          /\ db' = [db EXCEPT !.task = task'] /\ task' # "ABSENT" /\ ~Terminal(task)
      BY <1>5, TaskIsThere DEF CancelTask, world
    <2>2. ~Excused /\ db = Image
      BY <2>1 DEF Excused, Terminal, TERMINAL_TASK_STATUSES, SessionIsClean
    <2>3. db'.task # "ABSENT" /\ db'.step = step /\ db'.rec = rec /\ db'.effect = effect /\ db'.keyed = keyed
      BY <2>1, <2>2 DEF Image
    <2>4. ASSUME NEW s \in Steps, NEW e \in BOOLEAN
          PROVE  /\ RecordFits(Image, s)' /\ EffectFits(Image, s, e)'
                 /\ RecordFits(db, s)' /\ EffectFits(db, s, e)'
      <3>1. RecordFits(Image, s) /\ EffectFits(Image, s, FALSE)
        BY <1>a, <2>2 DEF EffectFits
      <3>2. RecordFits(Image, s)' /\ RecordFits(db, s)'
        BY <2>1, <2>3, <3>1 DEF RecordFits, Image
      <3>3. EffectFits(Image, s, e)' /\ EffectFits(db, s, e)'
        BY <2>1, <2>3, <3>1 DEF EffectFits, Image, SideEffect
      <3> QED BY <3>2, <3>3
    <2>5. InHand'
      BY <2>1 DEF InHand
    <2>6. Excused' \in BOOLEAN /\ (db'.task = "MANUAL_REVIEW") \in BOOLEAN
      BY DEF Excused
    <2> QED BY <2>4, <2>5, <2>6 DEF BooksInv
  <1>6. ASSUME SweepExpiredApprovals PROVE BooksInv'
    <2>1. /\ UNCHANGED <<plan, task, step, rec, effect, keyed, pc, followup>> /\ pc = "idle"
          /\ db' = [db EXCEPT !.appr = appr']
      BY <1>6 DEF SweepExpiredApprovals, local
    <2>2. /\ db'.task = db.task /\ db'.step = db.step /\ db'.rec = db.rec
          /\ db'.effect = db.effect /\ db'.keyed = db.keyed
      BY <2>1 DEF TypeOK, Rows
    <2> QED BY <2>1, <2>2 DEF BooksInv, InHand, RecordFits, EffectFits, SideEffect, Image, Excused
  <1>7. ASSUME MarkStale PROVE BooksInv'
    <2>1. /\ UNCHANGED <<plan, db, task, rec, effect, keyed>> /\ pc = "stale" /\ pc' = "settle"
          /\ \A s \in Steps : step'[s] = step[s] \/ (step[s] = "RUNNING" /\ step'[s] = "UNKNOWN")
      BY <1>7 DEF MarkStale, world
    <2>2. ASSUME NEW s \in Steps PROVE RecordFits(Image, s)' /\ EffectFits(Image, s, Excused)'
      <3>1. RecordFits(Image, s)'
        BY <1>a, <1>c, <2>1 DEF RecordFits, Image, Waits
      <3>2. EffectFits(Image, s, Excused)'
        BY <1>a, <1>c, <2>1 DEF EffectFits, Image, Waits, Unanswered, SideEffect
      <3> QED BY <3>1, <3>2
    <2>3. InHand'
      BY <1>b, <2>1 DEF InHand
    <2> QED BY <2>1, <2>2, <2>3 DEF BooksInv, RecordFits, EffectFits, SideEffect
  <1>8. ASSUME SettleUnresolved PROVE BooksInv'
    <2>1. InHand'
      BY <1>8, <1>b DEF SettleUnresolved, InHand, IsFirst, rows, Unresolved
    <2> QED BY <1>8, <1>c, <2>1, NoRow DEF SettleUnresolved, rows, world, Excused
  <1>9. ASSUME SettleNothing PROVE BooksInv'
    <2>1. InHand'
      BY <1>9 DEF SettleNothing, Settled, InHand, rows, Unresolved
    <2> QED BY <1>9, <2>1, NoRow DEF SettleNothing, Settled, rows, world, Excused
  <1>10. ASSUME NEW s \in Steps, SettleStillWaiting(s) PROVE BooksInv'
    BY <1>10, NoRow DEF SettleStillWaiting, Settled, rows, world, Excused, InHand
  <1>11. ASSUME NEW s \in Steps, SettleGranted(s) PROVE BooksInv'
    <2>1. /\ step[s] = "WAITING_APPROVAL" /\ step' = [step EXCEPT ![s] = "READY"] /\ task' # "ABSENT"
          /\ UNCHANGED <<plan, db, rec, effect, keyed>> /\ pc = "settle" /\ pc' = "drive"
          /\ \A t \in Steps : ~Unresolved(t)
      BY <1>11, Moves, TaskIsThere DEF SettleGranted, Settled, world
    <2>2. \A t \in Steps \ {s} : SameRow(t)
      BY <1>0, <2>1 DEF SameRow
    <2>3. RecordFits(Image, s)'
      BY <1>0, <1>a, <2>1 DEF RecordFits, Image, Waits
    <2>4. EffectFits(Image, s, Excused)'
      BY <1>0, <1>a, <2>1 DEF EffectFits, Image, Waits, Unanswered, SideEffect
    <2>5. InHand'
      <3>1. ~Terminal(task')
        BY <1>11 DEF SettleGranted, TaskMoves, TaskTarget, TASK_TRANSITIONS, Terminal, TERMINAL_TASK_STATUSES
      <3> QED BY <1>0, <2>1, <3>1, Values DEF InHand, Unresolved
    <2>6. Excused => Excused'
      BY <1>c, <2>1
    <2> QED BY <2>1, <2>2, <2>3, <2>4, <2>5, <2>6, OneRow
  <1>12. ASSUME NEW s \in Steps, SettleRefused(s) PROVE BooksInv'
    <2>1. /\ step' = [step EXCEPT ![s] = "FAILED"] /\ step[s] = "WAITING_APPROVAL" /\ task' # "ABSENT"
          /\ UNCHANGED <<plan, db, rec, effect, keyed>> /\ pc = "settle" /\ pc' = "commit"
      BY <1>12, Moves, TaskIsThere DEF SettleRefused, Settled, Awaiting, IsFirst, world
    <2>2. \A t \in Steps \ {s} : SameRow(t)
      BY <1>0, <2>1 DEF SameRow
    <2>3. RecordFits(Image, s)'
      BY <1>0, <1>a, <2>1 DEF RecordFits, Image, Waits
    <2>4. EffectFits(Image, s, Excused)'
      BY <1>0, <1>a, <2>1 DEF EffectFits, Image, Waits, Unanswered, SideEffect
    <2>5. InHand' /\ (Excused => Excused')
      BY <1>c, <2>1 DEF InHand
    <2> QED BY <2>1, <2>2, <2>3, <2>4, <2>5, OneRow
  <1>13. ASSUME NEW s \in Steps, Turn(s) PROVE step[s] \in Waits /\ pc = "drive"
    BY <1>13 DEF Turn, IsFirst, Actionable, ACTIONABLE_STEP_STATUSES, Unresolved, UNRESOLVED_STEP_STATUSES, Waits
  <1>14. ASSUME NEW s \in Steps, Turn(s), step' = [step EXCEPT ![s] = "FAILED"], task' # "ABSENT",
                UNCHANGED <<plan, db, rec, effect, keyed>>, InHand'
         PROVE  BooksInv'
    <2>1. step[s] \in Waits /\ pc = "drive"
      BY <1>13, <1>14
    <2>2. \A t \in Steps \ {s} : SameRow(t)
      BY <1>0, <1>14 DEF SameRow
    <2>3. RecordFits(Image, s)'
      BY <1>0, <1>a, <1>14, <2>1 DEF RecordFits, Image, Waits
    <2>4. EffectFits(Image, s, Excused)'
      BY <1>0, <1>a, <1>14, <2>1 DEF EffectFits, Image, Waits, Unanswered, SideEffect
    <2>5. Excused => Excused'
      BY <1>c, <2>1
    <2> QED BY <1>14, <2>2, <2>3, <2>4, <2>5, OneRow
  <1>15. ASSUME NEW s \in Steps, DriveDenied(s) PROVE BooksInv'
    <2>1. /\ step' = [step EXCEPT ![s] = "FAILED"] /\ Turn(s) /\ pc = "drive" /\ pc' \in {"fail", "drive"}
          /\ UNCHANGED <<plan, task, db, rec, effect, keyed>>
      BY <1>15, Moves DEF DriveDenied, Turn, world
    <2>2. InHand'
      BY <1>0, <1>b, <2>1, Values DEF InHand, Unresolved
    <2> QED BY <1>c, <1>14, <2>1, <2>2
  <1>16. ASSUME NEW s \in Steps, DriveManualReview(s) PROVE BooksInv'
    <2>1. InHand'
      BY <1>16 DEF DriveManualReview, InHand
    <2> QED BY <1>14, <1>16, <2>1, Moves, TaskIsThere DEF DriveManualReview, Turn, world
  <1>17. ASSUME NEW s \in Steps, DriveRequestApproval(s) PROVE BooksInv'
    <2>1. /\ step' = [step EXCEPT ![s] = "WAITING_APPROVAL"] /\ Turn(s) /\ pc' = "commit" /\ task' # "ABSENT"
          /\ UNCHANGED <<plan, db, rec, effect, keyed>>
      BY <1>17, Moves, TaskIsThere DEF DriveRequestApproval
    <2>2. step[s] \in Waits /\ pc = "drive"
      BY <1>13, <2>1
    <2>3. \A t \in Steps \ {s} : SameRow(t)
      BY <1>0, <2>1 DEF SameRow
    <2>4. RecordFits(Image, s)'
      BY <1>0, <1>a, <2>1, <2>2 DEF RecordFits, Image, Waits
    <2>5. EffectFits(Image, s, Excused)'
      BY <1>0, <1>a, <2>1, <2>2 DEF EffectFits, Image, Waits, Unanswered, SideEffect
    <2>6. InHand' /\ (Excused => Excused')
      BY <1>c, <2>1, <2>2 DEF InHand
    <2> QED BY <2>1, <2>3, <2>4, <2>5, <2>6, OneRow
  <1>18. ASSUME NEW s \in Steps, DriveExecute(s) PROVE BooksInv'
    <2>1. /\ UNCHANGED <<plan, db, task, effect>> /\ cur' = s /\ Turn(s)
          /\ \/ /\ step' = [step EXCEPT ![s] = "RUNNING"] /\ pc' = "call" /\ keyed' = keyed
                /\ rec' = [rec EXCEPT ![s] = IF @ = "NONE" THEN "IN_FLIGHT" ELSE @]
                /\ rec[s] \in {"NONE", "FAILED"}
             \/ /\ step' = [step EXCEPT ![s] = "UNKNOWN"] /\ pc' = "reconcile" /\ rec' = rec
                /\ keyed' = [keyed EXCEPT ![s] = TRUE] /\ back' = "drive"
      BY <1>18, Moves DEF DriveExecute, world
    <2>2. step[s] \in Waits /\ pc = "drive"
      BY <1>13, <2>1
    <2>3. \A t \in Steps \ {s} : SameRow(t)
      BY <1>0, <2>1 DEF SameRow
    <2>4. RecordFits(Image, s)'
      BY <1>0, <1>a, <1>c, <2>1, <2>2 DEF RecordFits, Image, Waits
    <2>5. EffectFits(Image, s, Excused)'
      BY <1>0, <1>a, <1>c, <2>1, <2>2 DEF EffectFits, Image, Waits, Unanswered, SideEffect
    <2>6. plan[s].samekey => effect[s] = "none"
      BY <1>a, <2>2 DEF EffectFits, Image
    <2>7. ~Terminal(task')
      BY <1>b, <2>1, <2>2 DEF InHand
    <2>8. \A t \in Steps : ~Unresolved(t)
      BY <1>b, <2>2 DEF InHand
    <2>9. InHand'
      BY <1>0, <2>1, <2>6, <2>7, <2>8, Values DEF InHand, Unresolved
    <2> QED BY <1>c, <2>1, <2>2, <2>3, <2>4, <2>5, <2>9, OneRow
  <1>19. ASSUME ToolSucceeds PROVE BooksInv'
    <2>1. /\ step' = [step EXCEPT ![cur] = "SUCCESS"] /\ rec' = [rec EXCEPT ![cur] = "SUCCESS"]
          /\ effect' = [effect EXCEPT ![cur] = IF SideEffect(cur) /\ @ = "none" THEN "live" ELSE @]
          /\ keyed' = [keyed EXCEPT ![cur] = TRUE] /\ task' = "RUNNING" /\ pc = "call" /\ pc' = "drive"
          /\ UNCHANGED <<plan, db>>
      BY <1>19, Moves DEF ToolSucceeds, Applied, world
    <2>2. PICK x \in Steps : x = cur
      BY <1>b, <2>1 DEF InHand
    <2>3. \A t \in Steps \ {x} : SameRow(t)
      BY <1>0, <2>1, <2>2 DEF SameRow
    <2>4. /\ step'[x] = "SUCCESS" /\ keyed'[x] = TRUE
          /\ effect'[x] = IF SideEffect(x) /\ effect[x] = "none" THEN "live" ELSE effect[x]
      BY <1>0, <2>1, <2>2
    <2>5. RecordFits(Image, x)'
      BY <2>1, <2>4 DEF RecordFits, Image, Waits
    <2>6. EffectFits(Image, x, Excused)'
      <3>1. (~SideEffect(x) => effect[x] = "none") /\ (plan[x].samekey => effect[x] = "none")
        BY <1>a, <1>b, <2>1, <2>2 DEF EffectFits, Image, InHand
      <3> QED BY <2>1, <2>4, <3>1 DEF EffectFits, Image, Waits, Unanswered, SideEffect
    <2>7. \A s \in Steps : ~Unresolved(s)
      BY <1>b, <2>1 DEF InHand
    <2>8. InHand'
      BY <1>0, <2>1, <2>7, Values DEF InHand, Unresolved, Terminal, TERMINAL_TASK_STATUSES
    <2> QED BY <1>c, <2>1, <2>3, <2>5, <2>6, <2>8, OneRow
  <1>20. ASSUME NEW r \in BOOLEAN, ToolFails(r) PROVE BooksInv'
    <2>1. /\ rec' = [rec EXCEPT ![cur] = "FAILED"] /\ pc = "call" /\ UNCHANGED <<plan, db, effect, keyed>>
          /\ task' \in {task, "RUNNING"} /\ pc' \in {"drive", "fail"}
          /\ \/ step' = [step EXCEPT ![cur] = "RETRY_SCHEDULED"]
             \/ step' = [step EXCEPT ![cur] = "FAILED"]
      BY <1>20, Moves DEF ToolFails, world
    <2>2. PICK x \in Steps : x = cur
      BY <1>b, <2>1 DEF InHand
    <2>3. /\ \A t \in Steps \ {x} : SameRow(t)
          /\ step'[x] \in {"RETRY_SCHEDULED", "FAILED"} /\ rec'[x] = "FAILED"
      BY <1>0, <2>1, <2>2 DEF SameRow
    <2>4. ~Terminal(task') /\ task' # "ABSENT"
      BY <1>b, <1>c, <2>1 DEF InHand, Terminal, TERMINAL_TASK_STATUSES
    <2>5. RecordFits(Image, x)'
      BY <1>a, <2>1, <2>3, <2>4 DEF RecordFits, Image, Waits
    <2>6. EffectFits(Image, x, Excused)'
      <3>1. (~SideEffect(x) => effect[x] = "none") /\ (plan[x].samekey => effect[x] = "none")
        BY <1>a, <1>b, <2>1, <2>2 DEF EffectFits, Image, InHand
      <3> QED BY <2>1, <2>3, <3>1 DEF EffectFits, Image, Waits, Unanswered, SideEffect
    <2>7. \A s \in Steps : ~Unresolved(s)
      BY <1>b, <2>1 DEF InHand
    <2>8. InHand'
      BY <1>0, <2>1, <2>4, <2>7, Values DEF InHand, Unresolved
    <2> QED BY <1>c, <2>1, <2>3, <2>4, <2>5, <2>6, <2>8, OneRow
  <1>21. ASSUME NEW u \in UNRESOLVED_STEP_STATUSES, ToolUnresolved(u) PROVE BooksInv'
    <2>1. /\ rec' = [rec EXCEPT ![cur] = u] /\ keyed' = [keyed EXCEPT ![cur] = TRUE]
          /\ step' = [step EXCEPT ![cur] = u] /\ UNCHANGED <<plan, db, task, cur>>
          /\ pc = "call" /\ pc' = "reconcile" /\ back' = "drive"
      BY <1>21, Moves, Values DEF ToolUnresolved, world
    <2>2. PICK x \in Steps : x = cur
      BY <1>b, <2>1 DEF InHand
    <2>3. \A t \in Steps \ {x} : effect'[t] = effect[t]
      BY <1>0, <1>21, <2>2 DEF ToolUnresolved, Applied
    <2>4. effect'[x] = effect[x] \/ (SideEffect(x) /\ effect'[x] = "live")
      BY <1>0, <1>21, <2>2 DEF ToolUnresolved, Applied
    <2>5. step'[x] = u /\ keyed'[x] = TRUE /\ \A t \in Steps \ {x} : SameRow(t)
      BY <1>0, <2>1, <2>2, <2>3 DEF SameRow
    <2>6. u \in {"TIMEOUT", "UNKNOWN"} /\ task' # "ABSENT" /\ ~Terminal(task')
      BY <1>b, <1>c, <2>1, Values DEF InHand
    <2>7. RecordFits(Image, x)'
      BY <2>1, <2>5, <2>6 DEF RecordFits, Image, Waits
    <2>8. EffectFits(Image, x, Excused)'
      <3>1. (~SideEffect(x) => effect[x] = "none") /\ (plan[x].samekey => effect[x] = "none")
        BY <1>a, <1>b, <2>1, <2>2 DEF EffectFits, Image, InHand
      <3> QED BY <2>1, <2>4, <2>5, <2>6, <3>1 DEF EffectFits, Image, Waits, Unanswered, SideEffect
    <2>9. \A s \in Steps : ~Unresolved(s)
      BY <1>b, <2>1 DEF InHand
    <2>10. InHand'
      BY <1>0, <2>1, <2>2, <2>5, <2>6, <2>9, Values DEF InHand, Unresolved
    <2> QED BY <1>c, <2>1, <2>5, <2>6, <2>7, <2>8, <2>10, OneRow
  <1>22. ASSUME ReconcileRead PROVE BooksInv'
    <2>1. /\ step' = [step EXCEPT ![cur] = "FAILED"] /\ UNCHANGED <<plan, db, task, rec, effect, keyed>>
          /\ pc = "reconcile" /\ pc' = "fail" /\ ~SideEffect(cur)
      BY <1>22, Moves DEF ReconcileRead, world
    <2>2. PICK x \in Steps : x = cur
      BY <1>b, <2>1 DEF InHand
    <2>3. step'[x] = "FAILED" /\ \A t \in Steps \ {x} : SameRow(t)
      BY <1>0, <2>1, <2>2 DEF SameRow
    <2>4. RecordFits(Image, x)'
      BY <1>a, <1>c, <2>1, <2>3 DEF RecordFits, Image, Waits
    <2>5. EffectFits(Image, x, Excused)'
      BY <1>a, <2>1, <2>2, <2>3 DEF EffectFits, Image, SideEffect
    <2>6. InHand'
      BY <1>b, <2>1 DEF InHand
    <2> QED BY <1>c, <2>1, <2>3, <2>4, <2>5, <2>6, OneRow
  <1>23. ASSUME ReconcileUnresolvable PROVE BooksInv'
    BY <1>23, <1>c, NoRow, TaskIsThere DEF ReconcileUnresolvable, rows, world, InHand
  <1>24. ASSUME ReconcileFound PROVE BooksInv'
    <2>1. /\ step' = [step EXCEPT ![cur] = "SUCCESS"] /\ UNCHANGED <<plan, db, task, effect, keyed, cur, back>>
          /\ pc = "reconcile" /\ pc' = back /\ effect[cur] # "none" /\ keyed[cur]
          /\ rec' = [rec EXCEPT ![cur] = IF keyed[cur] /\ @ # "NONE" THEN "SUCCESS" ELSE @]
      BY <1>24, Moves DEF ReconcileFound, Reconciled, Found, world, local
    <2>2. PICK x \in Steps : x = cur
      BY <1>b, <2>1 DEF InHand
    <2>3. step'[x] = "SUCCESS" /\ \A t \in Steps \ {x} : SameRow(t)
      BY <1>0, <2>1, <2>2 DEF SameRow
    <2>4. RecordFits(Image, x)'
      BY <1>c, <2>1, <2>2, <2>3 DEF RecordFits, Image, Waits
    <2>5. step[x] \in {"TIMEOUT", "UNKNOWN"}
      BY <1>b, <2>1, <2>2, Values DEF InHand, Unresolved
    <2>6. EffectFits(Image, x, Excused)'
      BY <1>0, <1>a, <2>1, <2>2, <2>3, <2>5 DEF EffectFits, Image, Waits, Unanswered, SideEffect
    <2>7. ~Terminal(task') /\ (back = "drive" => \A s \in Steps \ {x} : ~Unresolved(s))
      BY <1>b, <2>1, <2>2 DEF InHand
    <2>8. InHand'
      BY <1>0, <2>1, <2>3, <2>7, Values DEF InHand, Unresolved, SameRow
    <2> QED BY <1>c, <2>1, <2>3, <2>4, <2>6, <2>8, OneRow
  <1>25. ASSUME ReconcileNotFound PROVE BooksInv'
    <2>1. /\ UNCHANGED <<plan, db, effect, keyed, cur, back>> /\ task' \in {task, "RUNNING"}
          /\ pc = "reconcile" /\ ~(keyed[cur] /\ effect[cur] # "none")
          /\ rec' = [rec EXCEPT ![cur] = IF keyed[cur] /\ @ # "NONE" THEN "FAILED" ELSE @]
          /\ \/ step' = [step EXCEPT ![cur] = "RETRY_SCHEDULED"] /\ pc' = back
             \/ step' = [step EXCEPT ![cur] = "FAILED"] /\ pc' = "fail"
      BY <1>25, Moves DEF ReconcileNotFound, Reconciled, Found, world, local
    <2>2. PICK x \in Steps : x = cur
      BY <1>b, <2>1 DEF InHand
    <2>3. /\ step'[x] \in {"RETRY_SCHEDULED", "FAILED"} /\ \A t \in Steps \ {x} : SameRow(t)
          /\ rec'[x] = IF keyed[x] /\ rec[x] # "NONE" THEN "FAILED" ELSE rec[x]
      BY <1>0, <2>1, <2>2 DEF SameRow
    <2>4. ~Terminal(task') /\ task' # "ABSENT"
      BY <1>b, <1>c, <2>1 DEF InHand, Terminal, TERMINAL_TASK_STATUSES
    <2>5. RecordFits(Image, x)'
      <3>1. /\ plan[x].samekey => keyed[x]
            /\ rec[x] \in {"SUCCESS", "TIMEOUT", "UNKNOWN"} => keyed[x]
            /\ rec[x] \in {"NONE", "IN_FLIGHT", "SUCCESS", "FAILED", "TIMEOUT", "UNKNOWN"}
        BY <1>0, <1>a DEF RecordFits, Image, RecordStatus
      <3> QED BY <2>1, <2>3, <2>4, <3>1 DEF RecordFits, Image, Waits
    <2>6. EffectFits(Image, x, Excused)'
      <3>1. (~SideEffect(x) => effect[x] = "none") /\ (plan[x].samekey => effect[x] = "none")
        BY <1>a, <2>1, <2>2 DEF EffectFits, RecordFits, Image
      <3> QED BY <2>1, <2>3, <3>1 DEF EffectFits, Image, Waits, Unanswered, SideEffect
    <2>7. back = "drive" => \A s \in Steps \ {x} : ~Unresolved(s)
      BY <1>b, <2>1, <2>2 DEF InHand
    <2>8. InHand'
      BY <1>0, <2>1, <2>3, <2>4, <2>7, Values DEF InHand, Unresolved, SameRow
    <2> QED BY <1>c, <2>1, <2>3, <2>4, <2>5, <2>6, <2>8, OneRow
  <1>26. ASSUME FailAndSettle PROVE BooksInv'
    <2>1. /\ UNCHANGED <<plan, step, rec, effect, keyed, db>> /\ task' # "ABSENT" /\ pc = "fail"
          /\ \/ pc' = "commit"
             \/ /\ pc' = "compensate" /\ ~Terminal(task')
                /\ todo' \subseteq completed_side_effect_steps
      <3>1. \A t : t \in TaskTarget(task, "START_COMPENSATION") => t = "COMPENSATING"
        BY DEF TaskTarget, TASK_TRANSITIONS
      <3> QED BY <1>26, <3>1, TaskIsThere DEF FailAndSettle, world, TaskMoves, Terminal, TERMINAL_TASK_STATUSES
    <2>2. InHand'
      BY <2>1 DEF InHand, completed_side_effect_steps, SideEffect
    <2> QED BY <1>c, <2>1, <2>2, NoRow
  <1>27. ASSUME NEW s \in Steps, CompensateNotSupported(s) PROVE BooksInv'
    <2>1. InHand' /\ (Excused => Excused')
      BY <1>27, <1>b DEF CompensateNotSupported, InHand, rows, world, Excused, SideEffect
    <2> QED BY <1>27, <2>1, NoRow DEF CompensateNotSupported, rows, world
  <1>28. ASSUME NEW s \in Steps, pc = "compensate", s \in todo
         PROVE  step[s] = "SUCCESS" /\ SideEffect(s) /\ task # "ABSENT" /\ ~Terminal(task)
    BY <1>28, <1>b DEF InHand, ConsentIsKept
  <1>29. ASSUME NEW s \in Steps, CompensateSucceeds(s) PROVE BooksInv'
    <2>1. /\ step' = [step EXCEPT ![s] = "COMPENSATED"] /\ effect' = [effect EXCEPT ![s] = "revoked"]
          /\ todo' = todo \ {s} /\ UNCHANGED <<plan, db, task, rec, keyed, pc, followup>> /\ pc = "compensate"
          /\ s \in todo
      BY <1>29, Moves DEF CompensateSucceeds, world, IsLast
    <2>2. step'[s] = "COMPENSATED" /\ effect'[s] = "revoked" /\ \A t \in Steps \ {s} : SameRow(t)
      BY <1>0, <2>1 DEF SameRow
    <2>3. RecordFits(Image, s)'
      BY <1>a, <1>28, <2>1, <2>2 DEF RecordFits, Image, Waits
    <2>4. EffectFits(Image, s, Excused)'
      BY <1>28, <2>1, <2>2 DEF EffectFits, Image, Waits, Unanswered, SideEffect
    <2>5. \A t \in todo' : step'[t] = "SUCCESS" /\ SideEffect(t) /\ t \in Steps
      BY <1>0, <1>28, <2>1
    <2>6. InHand' /\ (Excused => Excused')
      BY <1>28, <2>1, <2>5 DEF InHand, Excused, SideEffect
    <2> QED BY <1>28, <2>1, <2>2, <2>3, <2>4, <2>6, OneRow
  <1>30. ASSUME NEW s \in Steps, CompensateFails(s) PROVE BooksInv'
    <2>1. /\ step' = [step EXCEPT ![s] = "FAILED"] /\ followup' = TRUE
          /\ todo' = todo \ {s} /\ UNCHANGED <<plan, db, task, rec, keyed, effect, pc>> /\ pc = "compensate"
          /\ s \in todo
      BY <1>30, Moves DEF CompensateFails, world, IsLast
    <2>2. step'[s] = "FAILED" /\ \A t \in Steps \ {s} : SameRow(t)
      BY <1>0, <2>1 DEF SameRow
    <2>3. RecordFits(Image, s)'
      BY <1>a, <1>28, <2>1, <2>2 DEF RecordFits, Image, Waits
    <2>4. Excused'
      BY <2>1 DEF Excused
    <2>5. EffectFits(Image, s, Excused)'
      BY <1>28, <2>1, <2>2, <2>4 DEF EffectFits, Image, Waits, Unanswered, SideEffect
    <2>6. \A t \in todo' : step'[t] = "SUCCESS" /\ SideEffect(t) /\ t \in Steps
      BY <1>0, <1>28, <2>1
    <2>7. InHand'
      BY <1>28, <2>1, <2>6 DEF InHand, SideEffect
    <2> QED BY <1>28, <2>1, <2>2, <2>3, <2>4, <2>5, <2>7, OneRow
  <1>31. ASSUME CompensationEnds PROVE BooksInv'
    <2>1. /\ UNCHANGED <<plan, db, step, rec, effect, keyed>> /\ pc = "compensate" /\ pc' = "commit"
          /\ task' \in TaskTarget(task, IF followup THEN "ESCALATE_TO_HUMAN" ELSE "COMPENSATION_DONE")
          /\ task' # "ABSENT"
      BY <1>31, TaskIsThere DEF CompensationEnds, world, TaskMoves
    <2>2. Excused => Excused'
      <3>1. task # "MANUAL_REVIEW"
        BY <1>b, <2>1 DEF InHand, Terminal, TERMINAL_TASK_STATUSES
      <3>2. \A t : t \in TaskTarget(task, "ESCALATE_TO_HUMAN") => t = "MANUAL_REVIEW"
        BY DEF TaskTarget, TASK_TRANSITIONS
      <3> QED BY <2>1, <3>1, <3>2 DEF Excused
    <2> QED BY <2>1, <2>2, NoRow DEF InHand
  <1>32. ASSUME DriveBlocked PROVE BooksInv'
    BY <1>32, NoRow DEF DriveBlocked, rows, world, Excused, InHand
  <1>33. ASSUME Finalize PROVE BooksInv'
    BY <1>33, <1>c, NoRow, TaskIsThere DEF Finalize, rows, world, InHand
  <1>34. ASSUME DriveExhausted PROVE BooksInv'
    BY <1>34, <1>c, NoRow, TaskIsThere DEF DriveExhausted, rows, world, InHand
  <1>35. ASSUME Commit PROVE BooksInv'
    <2>1. db' = Image /\ UNCHANGED <<plan, rows>> /\ pc = "commit" /\ pc' = "idle"
      BY <1>35 DEF Commit, world
    <2>2. Image' = Image /\ (Excused <=> task = "MANUAL_REVIEW") /\ (Excused' <=> task = "MANUAL_REVIEW")
      BY <2>1 DEF Image, rows, Excused
    <2>3. InHand'
      BY <2>1 DEF InHand
    <2>4. db'.task = task
      BY <2>1 DEF Image
    <2> QED BY <1>a, <2>1, <2>2, <2>3, <2>4 DEF BooksInv, RecordFits, EffectFits, SideEffect
  <1>36. ASSUME RollBack PROVE BooksInv'
    <2>1. /\ task' = db.task /\ step' = db.step /\ rec' = db.rec /\ effect' = db.effect
          /\ keyed' = db.keyed /\ UNCHANGED <<plan, db>> /\ pc' = "idle"
      BY <1>36 DEF RollBack
    <2>2. InHand' /\ (Excused' <=> db.task = "MANUAL_REVIEW")
      BY <2>1 DEF InHand, Excused
    <2> QED BY <2>1, <2>2 DEF BooksInv, RecordFits, EffectFits, SideEffect, Image
  <1>37. ASSUME RecoverOneFails PROVE BooksInv'
    <2>1. db' = Image /\ UNCHANGED <<plan, rows>> /\ pc = "drive" /\ pc' = "idle"
      BY <1>37 DEF RecoverOneFails
    <2>2. Image' = Image /\ (Excused <=> task = "MANUAL_REVIEW") /\ (Excused' <=> task = "MANUAL_REVIEW")
      BY <2>1 DEF Image, rows, Excused
    <2>3. InHand'
      BY <2>1 DEF InHand
    <2>4. db'.task = task
      BY <2>1 DEF Image
    <2> QED BY <1>a, <2>1, <2>2, <2>3, <2>4 DEF BooksInv, RecordFits, EffectFits, SideEffect
  <1>38. ASSUME ApprovalExpires \/ StepGrowsStale \/ \E s \in Steps : Bury(s)
         PROVE  BooksInv'
    BY <1>38, NoRow DEF ApprovalExpires, StepGrowsStale, Bury, rows, Excused, InHand
  <1>39. CASE UNCHANGED vars
    BY <1>39 DEF vars, rows, world, local, BooksInv, RecordFits, EffectFits, SideEffect, Image,
       Excused, InHand, Unresolved
  <1> QED
    <2>1. CASE Request
      BY <2>1, <1>1, <1>2, <1>3, <1>4, <1>5, <1>6 DEF Request
    <2>2. CASE Settle \/ Drive
      BY <2>2, <1>7, <1>8, <1>9, <1>10, <1>11, <1>12, <1>15, <1>16, <1>17, <1>18
         DEF Settle, Drive
    <2>3. CASE CallTool \/ Reconcile
      BY <2>3, <1>19, <1>20, <1>21, <1>22, <1>23, <1>24, <1>25 DEF CallTool, Reconcile
    <2>4. CASE Compensate
      BY <2>4, <1>27, <1>29, <1>30, <1>31 DEF Compensate
    <2>5. CASE Session
      BY <2>5, <2>2, <2>3, <2>4, <1>26, <1>32, <1>33, <1>34, <1>35 DEF Session
    <2>6. CASE World
      BY <2>6, <1>36, <1>37, <1>38 DEF World
    <2> QED BY <2>1, <2>5, <2>6, <1>39 DEF Next

\* The inductive invariant behind the next two theorems and the one on the books.
LEMMA BooksHold == Spec => []BooksInv
  BY InitType, NextType, InitClean, NextClean, InitConsent, NextConsent, InitBooks, NextBooks, PTL DEF Spec

\* A tool is never called again while an earlier call of its has taken effect, whatever
\* crashed, timed out or was answered late.
THEOREM NothingTwice == Spec => []NoBlindReexecution
  <1>1. BooksInv => NoBlindReexecution
    BY DEF BooksInv, InHand, NoBlindReexecution
  <1> QED BY <1>1, BooksHold, PTL

\* The loop meets resolved steps only, and a step that may run again is not held back
\* by its own execution record.
THEOREM ReconciliationFirst == Spec => []ReconciledFirst
  <1>1. BooksInv => ReconciledFirst
    BY DEF BooksInv, InHand, RecordFits, Image, Waits, ReconciledFirst
  <1> QED BY <1>1, BooksHold, PTL


-----------------------------------------------------------------------------
(* The line: plans whose steps are taken one after the other.                *)

\* A step depends on earlier steps only; where histories may begin with a step that
\* nobody has heard of since, every step depends on the one before it, too.  (Without
\* the first a saga passes over a step that was done ahead of the failed one, without
\* the second a task may fail while an earlier step is still RUNNING.)
InOrder ==
    \A p \in Plans : \A s \in Steps :
        /\ p[s].deps \subseteq 1 .. (s - 1)
        /\ Interrupted /\ s > 1 => s - 1 \in p[s].deps

\* A step that was begun and has not come to its end, and one that may come yet.
Begun == {"READY", "RUNNING", "WAITING_APPROVAL", "RETRY_SCHEDULED", "TIMEOUT", "UNKNOWN"}
Open == Begun \cup {"PENDING"}

\* An open step that a later one has overtaken waits for something that has not
\* succeeded; what was begun waits for nothing.
Line(st) ==
    /\ \A s, t \in Steps : s < t /\ st[s] \in Open /\ st[t] # "PENDING" =>
         \E d \in plan[s].deps : st[d] # "SUCCESS"
    /\ \A s \in Steps : st[s] \in Begun => \A d \in plan[s].deps : st[d] = "SUCCESS"

\* The status of the task and those of its steps: it waits when one of them waits; it
\* has not ended before its calls have; and what is left of a failed saga is nothing.
Ends(t, st) ==
    /\ (\E s \in Steps : st[s] = "WAITING_APPROVAL") => t = "WAITING_APPROVAL" \/ Terminal(t)
    /\ t \in {"COMPLETED", "PARTIAL_SUCCESS", "FAILED"} => \A s \in Steps : st[s] \notin Unanswered
    /\ t = "FAILED" /\ (\E s \in Steps : st[s] = "COMPENSATED") =>
         \A s \in Steps : SideEffect(s) => st[s] # "SUCCESS"

\* Where the session is: no step is in the air when a task fails, and the saga has all
\* that is left to undo on its list.
OnLine ==
    /\ (pc \in {"drive", "call"} \/ (pc = "reconcile" /\ back = "drive")) => task # "WAITING_APPROVAL"
    /\ pc \in {"fail", "compensate"} =>
         /\ \A s \in Steps : step[s] \notin Begun
         /\ \A s \in Steps : cur <= s => step[s] # "SUCCESS"
    /\ pc = "compensate" =>
         \A s \in Steps : SideEffect(s) /\ step[s] = "SUCCESS" => s \in todo \/ followup
    /\ (\E s \in Steps : step[s] = "COMPENSATED") => pc = "compensate" \/ Terminal(task)
    /\ ~Interrupted => \A s \in Steps : step[s] = "RUNNING" => pc = "call" /\ s = cur

\* What is committed: the saga begins and ends within a session.
Committed ==
    /\ (\E s \in Steps : db.step[s] = "COMPENSATED") => Terminal(db.task)
    /\ ~Interrupted => \A s \in Steps : db.step[s] # "RUNNING"

LineInv ==
    /\ Line(step) /\ Ends(task, step) /\ OnLine
    /\ Line(db.step) /\ Ends(db.task, db.step) /\ Committed

\* Nothing but the step x is under way, nothing behind it has begun, and what is open
\* before it waits for something that has not succeeded.
Alone(x) ==
    /\ \A t \in Steps \ {x} : step[t] \notin Begun
    /\ \A t \in Steps : t > x => step[t] = "PENDING"
    /\ \A t \in Steps : t < x /\ step[t] \in Open => \E d \in plan[t].deps : step[d] # "SUCCESS"
    /\ \A d \in plan[x].deps : step[d] = "SUCCESS"

\* Dependencies are steps that come earlier.
LEMMA Backward ==
    ASSUME InOrder, TypeOK, NEW s \in Steps, NEW d \in plan[s].deps
    PROVE  d \in Steps /\ d < s
  <1>1. plan[s].deps \subseteq 1 .. (s - 1)
    BY DEF InOrder, TypeOK
  <1> QED BY <1>1, NAssumption DEF Steps

\* A step that has begun is alone.
LEMMA BegunAlone ==
    ASSUME InOrder, TypeOK, Line(step), NEW x \in Steps, step[x] \in Begun
    PROVE  Alone(x)
  <1>1. \A d \in plan[x].deps : step[d] = "SUCCESS"
    BY DEF Line
  <1>2. \A t \in Steps : t > x => step[t] = "PENDING"
    BY <1>1, NAssumption DEF Line, Open, Steps
  <1>3. \A t \in Steps : t < x /\ step[t] \in Open => \E d \in plan[t].deps : step[d] # "SUCCESS"
    BY DEF Line, Begun
  <1>4. \A t \in Steps \ {x} : step[t] \notin Begun
    <2> TAKE t \in Steps \ {x}
    <2>1. CASE t > x
      BY <1>2, <2>1 DEF Begun
    <2>2. CASE t < x
      BY <1>3, <2>2 DEF Line, Open
    <2> QED BY <2>1, <2>2, NAssumption DEF Steps
  <1> QED BY <1>1, <1>2, <1>3, <1>4 DEF Alone

\* So is the step whose turn it is.
LEMMA TurnAlone ==
    ASSUME InOrder, TypeOK, InHand, LineInv, NEW x \in Steps, Turn(x)
    PROVE  Alone(x)
  <1>1. /\ step[x] \in ACTIONABLE_STEP_STATUSES /\ pc = "drive"
        /\ \A d \in plan[x].deps : step[d] = "SUCCESS"
        /\ \A t \in Actionable : x <= t
    BY DEF Turn, IsFirst, Actionable
  <1>2. \A t \in Steps : t > x => step[t] = "PENDING"
    BY <1>1, NAssumption DEF LineInv, Line, Open, Begun, Steps, ACTIONABLE_STEP_STATUSES
  <1>3. ASSUME NEW t \in Steps, t < x PROVE step[t] \notin Begun
    <2> SUFFICES ASSUME step[t] \in Begun PROVE FALSE
      OBVIOUS
    <2>1. \A d \in plan[t].deps : step[d] = "SUCCESS"
      BY DEF LineInv, Line
    <2>2. step[t] \notin ACTIONABLE_STEP_STATUSES
      BY <1>1, <1>3, <2>1, NAssumption DEF Actionable, Steps
    <2>3. CASE step[t] = "WAITING_APPROVAL"
      BY <1>1, <2>3 DEF LineInv, Ends, OnLine, InHand
    <2>4. CASE step[t] = "RUNNING"
      <3>1. Interrupted
        BY <1>1, <2>4 DEF LineInv, OnLine
      <3>2. x - 1 \in Steps /\ x > 1 /\ x - 1 \in plan[x].deps
        BY <1>3, <3>1, NAssumption DEF InOrder, TypeOK, Steps
      <3>3. step[x - 1] = "SUCCESS"
        BY <1>1, <3>2
      <3>4. t # x - 1
        BY <2>4, <3>3
      <3>5. t < x - 1
        BY <1>3, <3>4, NAssumption DEF Steps
      <3> QED BY <2>1, <2>4, <3>2, <3>3, <3>5 DEF LineInv, Line, Open, Begun
    <2> QED BY <2>2, <2>3, <2>4 DEF Begun, ACTIONABLE_STEP_STATUSES
  <1>4. ASSUME NEW t \in Steps, t < x, step[t] \in Open
        PROVE  \E d \in plan[t].deps : step[d] # "SUCCESS"
    <2>1. step[t] = "PENDING"
      BY <1>3, <1>4 DEF Open
    <2> QED BY <1>1, <1>4, <2>1, NAssumption DEF Actionable, ACTIONABLE_STEP_STATUSES, Steps
  <1>5. \A t \in Steps \ {x} : step[t] \notin Begun
    BY <1>2, <1>3, NAssumption DEF Steps, Begun
  <1> QED BY <1>1, <1>2, <1>4, <1>5 DEF Alone

\* Whatever becomes of a step that is alone, the others keep to the line.
LEMMA MoveAlone ==
    ASSUME InOrder, TypeOK, LineInv, NEW x \in Steps, Alone(x), NEW v \in StepStatus,
           step' = [step EXCEPT ![x] = v], UNCHANGED <<plan, db>>,
           pc \notin {"idle", "commit", "compensate"}, ~Terminal(task), v # "COMPENSATED",
           v = "WAITING_APPROVAL" => task' = "WAITING_APPROVAL" \/ Terminal(task'),
           task' \in {"COMPLETED", "PARTIAL_SUCCESS", "FAILED"} => v \notin Unanswered,
           v = "RUNNING" => pc' = "call" /\ cur' = x,
           pc' = "fail" => cur' = x /\ v = "FAILED",
           pc' # "compensate",
           (pc' \in {"drive", "call"} \/ (pc' = "reconcile" /\ back' = "drive")) => task' # "WAITING_APPROVAL"
    PROVE  LineInv'
  <1>1. /\ step'[x] = v
        /\ \A t \in Steps : t # x => step'[t] = step[t]
    BY DEF TypeOK, Rows, Image
  <1>2. \A t \in Steps : t # x => step'[t] \notin Begun
    BY <1>1 DEF Alone
  <1>3. \A t \in Steps : t > x => step'[t] = "PENDING"
    BY <1>1, NAssumption DEF Alone, Steps
  <1>4. Line(step)'
    <2>1. ASSUME NEW s \in Steps, NEW t \in Steps, s < t, step'[s] \in Open, step'[t] # "PENDING"
          PROVE  \E d \in plan[s].deps : step'[d] # "SUCCESS"
      <3>1. s < x
        BY <1>3, <2>1, NAssumption DEF Steps
      <3>2. PICK d \in plan[s].deps : step[d] # "SUCCESS"
        BY <1>1, <2>1, <3>1, NAssumption DEF Alone, Steps
      <3>3. d \in Steps /\ d # x
        BY <3>1, Backward, NAssumption DEF Steps
      <3> QED BY <1>1, <3>2, <3>3
    <2>2. ASSUME NEW s \in Steps, step'[s] \in Begun, NEW d \in plan[s].deps
          PROVE  step'[d] = "SUCCESS"
      <3>1. s = x
        BY <1>2, <2>2
      <3>2. d \in Steps /\ d < x
        BY <3>1, Backward
      <3> QED BY <1>1, <3>1, <3>2, NAssumption DEF Alone, Steps
    <2> QED BY <2>1, <2>2 DEF Line
  <1>5. \A s \in Steps : step[s] # "COMPENSATED"
    BY DEF LineInv, OnLine
  <1>6. \A s \in Steps : step'[s] # "COMPENSATED"
    BY <1>1, <1>5
  <1>7. Ends(task, step)'
    <2>1. (\E s \in Steps : step'[s] = "WAITING_APPROVAL") => task' = "WAITING_APPROVAL" \/ Terminal(task')
      BY <1>1, <1>2 DEF Begun
    <2>2. task' \in {"COMPLETED", "PARTIAL_SUCCESS", "FAILED"} => \A s \in Steps : step'[s] \notin Unanswered
      BY <1>1, <1>2 DEF Begun, Unanswered
    <2> QED BY <1>6, <2>1, <2>2 DEF Ends
  <1>8. OnLine'
    <2>1. pc' = "fail" => /\ \A s \in Steps : step'[s] \notin Begun
                          /\ \A s \in Steps : cur' <= s => step'[s] # "SUCCESS"
      BY <1>1, <1>2, <1>3, NAssumption DEF Begun, Steps
    <2>2. \A s \in Steps : step'[s] = "RUNNING" => pc' = "call" /\ s = cur'
      BY <1>1, <1>2 DEF Begun
    <2> QED BY <1>6, <2>1, <2>2 DEF OnLine
  <1>9. Line(db.step)' /\ Ends(db.task, db.step)' /\ Committed'
    BY DEF LineInv, Line, Ends, Committed, SideEffect
  <1> QED BY <1>4, <1>7, <1>8, <1>9 DEF LineInv

\* A step that leaves the steps alone.
LEMMA StayInLine ==
    ASSUME LineInv, UNCHANGED <<plan, step, db>>,
           task' = task \/ (Terminal(task') /\ task' \notin {"COMPLETED", "PARTIAL_SUCCESS", "FAILED"}),
           OnLine'
    PROVE  LineInv'
  BY DEF LineInv, Line, Ends, Committed, SideEffect, Terminal, TERMINAL_TASK_STATUSES

\* A history begins in line: what was done comes before what was interrupted.
LEMMA InitLine == InOrder /\ Init => LineInv
  <1> SUFFICES ASSUME InOrder, Init PROVE LineInv
    OBVIOUS
  <1>0. TypeOK
    BY InitType
  <1>1. Line(step) /\ Ends(task, step) /\ (~Interrupted => \A s \in Steps : step[s] # "RUNNING")
        /\ \A s \in Steps : step[s] # "COMPENSATED"
    <2>1. CASE Fresh
      BY <2>1 DEF Fresh, Line, Ends, Begun, Unanswered
    <2>2. CASE Interrupted /\ \E k \in Steps : InterruptedAt(k)
      <3> PICK k \in Steps : InterruptedAt(k)
        BY <2>2
      <3>1. /\ task = "RUNNING"
            /\ \A s \in Steps : step[s] = IF s < k THEN "SUCCESS" ELSE IF s = k THEN "RUNNING" ELSE "PENDING"
        BY DEF InterruptedAt
      <3>2. \A s, t \in Steps : ~(s < t /\ step[s] \in Open /\ step[t] # "PENDING")
        BY <3>1, NAssumption DEF Steps, Open, Begun
      <3>3. \A s \in Steps : step[s] \in Begun => \A d \in plan[s].deps : step[d] = "SUCCESS"
        BY <1>0, <3>1, Backward, NAssumption DEF Steps, Begun
      <3> QED BY <2>2, <3>1, <3>2, <3>3 DEF Line, Ends
    <2> QED BY <2>1, <2>2 DEF Init
  <1>2. db = Image /\ pc = "idle"
    BY DEF Init
  <1> QED BY <1>1, <1>2 DEF LineInv, OnLine, Committed, Image

\* What the events used here make of the task.
LEMMA TaskEvents ==
    /\ TaskMoves("APPROVAL_GRANTED") => task' = "RUNNING"
    /\ TaskMoves("APPROVAL_REJECTED") => task' = "FAILED"
    /\ TaskMoves("NEED_APPROVAL") => task' = "WAITING_APPROVAL"
    /\ TaskMoves("ESCALATE_TO_HUMAN") => task' = "MANUAL_REVIEW"
    /\ TaskMoves("CANCEL") => task' = "CANCELLED"
    /\ TaskMoves("START_COMPENSATION") => task' = "COMPENSATING"
    /\ TaskMoves("FATAL_ERROR") => task' \in {"FAILED", "MANUAL_REVIEW"}
    /\ TaskMoves("COMPENSATION_DONE") => task' = "FAILED"
  BY DEF TaskMoves, TaskTarget, TASK_TRANSITIONS

\* Every step keeps to the line: one step is in hand at a time, and it is alone; a task
\* fails when nothing is under way, and the saga then takes back all that was done.
LEMMA NextLine ==
    InOrder /\ TypeOK /\ SessionIsClean /\ ConsentIsKept /\ BooksInv /\ LineInv /\ [Next]_vars
        => LineInv'
  <1> SUFFICES ASSUME InOrder, TypeOK, SessionIsClean, ConsentIsKept, BooksInv, LineInv, [Next]_vars
               PROVE  LineInv'
    OBVIOUS
  <1>0. /\ step \in [Steps -> StepStatus] /\ todo \in SUBSET Steps
        /\ back \in {"drive", "settle"} /\ cur \in Steps \cup {0}
    BY DEF TypeOK, Rows, Image
  <1>b. InHand
    BY DEF BooksInv
  <1>c. Line(step) /\ Ends(task, step) /\ OnLine /\ Line(db.step) /\ Ends(db.task, db.step) /\ Committed
    BY DEF LineInv
  <1>d. ASSUME NEW s \in Steps, Turn(s)
        PROVE  Alone(s) /\ pc = "drive" /\ ~Terminal(task) /\ task # "WAITING_APPROVAL"
    BY <1>b, <1>c, <1>d, TurnAlone DEF Turn, InHand, OnLine
  <1>e. {"READY", "RUNNING", "SUCCESS", "FAILED", "TIMEOUT", "UNKNOWN", "WAITING_APPROVAL",
         "RETRY_SCHEDULED"} \subseteq StepStatus
    BY DEF StepStatus
  <1>f. ~Terminal("RUNNING") /\ ~Terminal("WAITING_APPROVAL") /\ ~Terminal("COMPENSATING")
        /\ Terminal("FAILED") /\ Terminal("MANUAL_REVIEW") /\ Terminal("CANCELLED")
        /\ \A t \in {"COMPLETED", "PARTIAL_SUCCESS", "FAILED"} : Terminal(t)
    BY DEF Terminal, TERMINAL_TASK_STATUSES
  <1>1. ASSUME StartTask PROVE LineInv'
    <2>1. UNCHANGED <<plan, db>> /\ task' = "RUNNING" /\ pc' = "drive"
          /\ \A s \in Steps : step'[s] = "PENDING"
      BY <1>1 DEF StartTask, world
    <2>2. Line(step)' /\ Ends(task, step)' /\ OnLine'
      BY <2>1 DEF Line, Ends, OnLine, Begun, Unanswered
    <2> QED BY <1>c, <2>1, <2>2 DEF LineInv, Line, Ends, Committed, SideEffect
  <1>2. ASSUME StartRefused PROVE LineInv'
    <2>1. OnLine'
      BY <1>2, <1>c, <1>f DEF StartRefused, OnLine
    <2> QED BY <1>2, <1>f, <2>1, StayInLine DEF StartRefused, world
  <1>3. ASSUME NEW who \in {"scan", "api"}, ResumeTask(who) PROVE LineInv'
    <2>1. OnLine'
      BY <1>3, <1>c DEF ResumeTask, OnLine, rows
    <2> QED BY <1>3, <2>1, StayInLine DEF ResumeTask, rows, world
  <1>4. ASSUME NEW s \in Steps, NEW verdict \in {"APPROVED", "REJECTED"}, Decide(s, verdict) PROVE LineInv'
    <2>1. OnLine'
      BY <1>4, <1>c DEF Decide, OnLine
    <2> QED BY <1>4, <2>1, StayInLine DEF Decide, world
  <1>5. ASSUME CancelTask PROVE LineInv'
    <2>1. /\ UNCHANGED <<plan, step, pc>> /\ pc = "idle" /\ task' = "CANCELLED"
          /\ db' = [db EXCEPT !.task = task']
      BY <1>5, TaskEvents DEF CancelTask, world
    <2>2. db'.task = "CANCELLED" /\ db'.step = step
      BY <2>1 DEF SessionIsClean, Image
    <2>3. Line(step)' /\ Ends(task, step)' /\ OnLine'
      BY <1>c, <1>f, <2>1 DEF Line, Ends, OnLine
    <2>4. Line(db.step)' /\ Ends(db.task, db.step)' /\ Committed'
      BY <1>c, <1>f, <2>1, <2>2 DEF Line, Ends, Committed, OnLine
    <2> QED BY <2>3, <2>4 DEF LineInv
  <1>6. ASSUME SweepExpiredApprovals PROVE LineInv'
    <2>1. UNCHANGED <<plan, task, step, pc>> /\ pc = "idle" /\ db' = [db EXCEPT !.appr = appr']
      BY <1>6 DEF SweepExpiredApprovals
    <2>2. db'.task = db.task /\ db'.step = db.step
      BY <2>1 DEF TypeOK, Rows
    <2>3. OnLine'
      BY <1>c, <2>1 DEF OnLine
    <2> QED BY <1>c, <2>1, <2>2, <2>3 DEF LineInv, Line, Ends, Committed, SideEffect
  <1>7. ASSUME MarkStale PROVE LineInv'
    <2>1. /\ UNCHANGED <<plan, db, task>> /\ pc = "stale" /\ pc' = "settle"
          /\ \A s \in Steps : step'[s] = step[s] \/ (step[s] = "RUNNING" /\ step'[s] = "UNKNOWN")
      BY <1>7 DEF MarkStale, world
    <2>2. \A s \in Steps : /\ step'[s] \in Open <=> step[s] \in Open
                           /\ step'[s] \in Begun <=> step[s] \in Begun
                           /\ \A v \in {"PENDING", "SUCCESS", "WAITING_APPROVAL", "COMPENSATED"} :
                                step'[s] = v <=> step[s] = v
      BY <2>1 DEF Open, Begun
    <2>3. Line(step)'
      <3>1. ASSUME NEW s \in Steps, NEW t \in Steps, s < t, step'[s] \in Open, step'[t] # "PENDING"
            PROVE  \E d \in plan[s].deps : step'[d] # "SUCCESS"
        BY <1>c, <2>2, <3>1, Backward DEF Line
      <3>2. ASSUME NEW s \in Steps, step'[s] \in Begun, NEW d \in plan[s].deps
            PROVE  step'[d] = "SUCCESS"
        BY <1>c, <2>2, <3>2, Backward DEF Line
      <3> QED BY <2>1, <3>1, <3>2 DEF Line
    <2>4. ~Terminal(task)
      BY <1>b, <2>1 DEF InHand
    <2>5. Ends(task, step)'
      BY <1>c, <1>f, <2>1, <2>2, <2>4 DEF Ends
    <2>6. OnLine'
      BY <1>c, <2>1, <2>2 DEF OnLine
    <2> QED BY <1>c, <2>1, <2>3, <2>5, <2>6 DEF LineInv, Line, Ends, Committed, SideEffect
  <1>8. ASSUME SettleUnresolved PROVE LineInv'
    <2>1. OnLine'
      BY <1>8, <1>c DEF SettleUnresolved, OnLine, rows
    <2> QED BY <1>8, <2>1, StayInLine DEF SettleUnresolved, rows, world
  <1>9. ASSUME SettleNothing PROVE LineInv'
    <2>1. OnLine'
      BY <1>9, <1>c DEF SettleNothing, Settled, OnLine, rows
    <2> QED BY <1>9, <2>1, StayInLine DEF SettleNothing, rows, world
  <1>10. ASSUME NEW s \in Steps, SettleStillWaiting(s) PROVE LineInv'
    <2>1. OnLine'
      BY <1>10, <1>c DEF SettleStillWaiting, Settled, OnLine, rows
    <2> QED BY <1>10, <2>1, StayInLine DEF SettleStillWaiting, rows, world
  <1>11. ASSUME NEW s \in Steps, SettleGranted(s) PROVE LineInv'
    <2>1. /\ step[s] = "WAITING_APPROVAL" /\ step' = [step EXCEPT ![s] = "READY"] /\ task' = "RUNNING"
          /\ UNCHANGED <<plan, db>> /\ pc = "settle" /\ pc' = "drive"
      BY <1>11, Moves, TaskEvents DEF SettleGranted, Settled, world
    <2>2. Alone(s) /\ ~Terminal(task)
      BY <1>b, <1>c, <2>1, BegunAlone DEF Begun, InHand
    <2> QED BY <1>e, <2>1, <2>2, MoveAlone DEF Unanswered
  <1>12. ASSUME NEW s \in Steps, SettleRefused(s) PROVE LineInv'
    <2>1. /\ step[s] = "WAITING_APPROVAL" /\ step' = [step EXCEPT ![s] = "FAILED"] /\ task' = "FAILED"
          /\ UNCHANGED <<plan, db>> /\ pc = "settle" /\ pc' = "commit"
      BY <1>12, Moves, TaskEvents DEF SettleRefused, Settled, Awaiting, IsFirst, world
    <2>2. Alone(s) /\ ~Terminal(task)
      BY <1>b, <1>c, <2>1, BegunAlone DEF Begun, InHand
    <2> QED BY <1>e, <2>1, <2>2, MoveAlone DEF Unanswered
  <1>13. ASSUME NEW s \in Steps, DriveDenied(s) PROVE LineInv'
    <2>1. /\ step' = [step EXCEPT ![s] = "FAILED"] /\ Turn(s) /\ pc' \in {"fail", "drive"} /\ cur' = s
          /\ UNCHANGED <<plan, task, db>>
      BY <1>13, Moves DEF DriveDenied, world
    <2> QED BY <1>d, <1>e, <2>1, MoveAlone DEF Unanswered
  <1>14. ASSUME NEW s \in Steps, DriveManualReview(s) PROVE LineInv'
    <2>1. /\ step' = [step EXCEPT ![s] = "FAILED"] /\ Turn(s) /\ pc' = "commit" /\ task' = "MANUAL_REVIEW"
          /\ UNCHANGED <<plan, db>>
      BY <1>14, Moves, TaskEvents DEF DriveManualReview, world
    <2> QED BY <1>d, <1>e, <2>1, MoveAlone DEF Unanswered
  <1>15. ASSUME NEW s \in Steps, DriveRequestApproval(s) PROVE LineInv'
    <2>1. /\ step' = [step EXCEPT ![s] = "WAITING_APPROVAL"] /\ Turn(s) /\ pc' = "commit"
          /\ task' = "WAITING_APPROVAL" /\ UNCHANGED <<plan, db>>
      BY <1>15, Moves, TaskEvents DEF DriveRequestApproval
    <2> QED BY <1>d, <1>e, <2>1, MoveAlone DEF Unanswered
  <1>16. ASSUME NEW s \in Steps, DriveExecute(s) PROVE LineInv'
    <2>1. /\ UNCHANGED <<plan, db, task>> /\ cur' = s /\ Turn(s)
          /\ \/ step' = [step EXCEPT ![s] = "RUNNING"] /\ pc' = "call"
             \/ step' = [step EXCEPT ![s] = "UNKNOWN"] /\ pc' = "reconcile"
      BY <1>16, Moves DEF DriveExecute, world
    <2> QED BY <1>d, <1>e, <1>f, <2>1, MoveAlone DEF Unanswered
  <1>17. ASSUME pc = "call"
         PROVE  /\ cur \in Steps /\ Alone(cur) /\ ~Terminal(task) /\ task # "WAITING_APPROVAL"
                /\ task \notin {"COMPLETED", "PARTIAL_SUCCESS", "FAILED"}
    BY <1>17, <1>b, <1>c, <1>f, BegunAlone DEF InHand, Begun, OnLine
  <1>18. ASSUME ToolSucceeds PROVE LineInv'
    <2>1. /\ step' = [step EXCEPT ![cur] = "SUCCESS"] /\ task' = "RUNNING" /\ pc = "call" /\ pc' = "drive"
          /\ UNCHANGED <<plan, db, cur>>
      BY <1>18, Moves DEF ToolSucceeds, world, local
    <2>2. PICK x \in Steps : x = cur
      BY <1>17, <2>1
    <2> QED BY <1>17, <1>e, <2>1, <2>2, MoveAlone DEF Unanswered
  <1>19. ASSUME NEW r \in BOOLEAN, ToolFails(r) PROVE LineInv'
    <2>1. /\ pc = "call" /\ UNCHANGED <<plan, db, cur>> /\ task' \in {task, "RUNNING"}
          /\ \/ step' = [step EXCEPT ![cur] = "RETRY_SCHEDULED"] /\ pc' = "drive"
             \/ step' = [step EXCEPT ![cur] = "FAILED"] /\ pc' \in {"drive", "fail"}
      BY <1>19, Moves DEF ToolFails, world, local
    <2>2. PICK x \in Steps : x = cur
      BY <1>17, <2>1
    <2> QED BY <1>17, <1>e, <2>1, <2>2, MoveAlone DEF Unanswered
  <1>20. ASSUME NEW u \in UNRESOLVED_STEP_STATUSES, ToolUnresolved(u) PROVE LineInv'
    <2>1. /\ step' = [step EXCEPT ![cur] = u] /\ UNCHANGED <<plan, db, task, cur>>
          /\ pc = "call" /\ pc' = "reconcile" /\ u \in {"TIMEOUT", "UNKNOWN"}
      BY <1>20, Moves, Values DEF ToolUnresolved, world
    <2>2. PICK x \in Steps : x = cur
      BY <1>17, <2>1
    <2> QED BY <1>17, <1>e, <2>1, <2>2, MoveAlone DEF Unanswered
  <1>21. ASSUME pc = "reconcile"
         PROVE  /\ cur \in Steps /\ Alone(cur) /\ ~Terminal(task) /\ (back = "drive" => task # "WAITING_APPROVAL")
                /\ task \notin {"COMPLETED", "PARTIAL_SUCCESS", "FAILED"}
    BY <1>21, <1>b, <1>c, <1>f, BegunAlone, Values DEF InHand, Begun, OnLine, Unresolved
  <1>22. ASSUME ReconcileRead PROVE LineInv'
    <2>1. /\ step' = [step EXCEPT ![cur] = "FAILED"] /\ UNCHANGED <<plan, db, task, cur>>
          /\ pc = "reconcile" /\ pc' = "fail"
      BY <1>22, Moves DEF ReconcileRead, world, local
    <2>2. PICK x \in Steps : x = cur
      BY <1>21, <2>1
    <2> QED BY <1>21, <1>e, <2>1, <2>2, MoveAlone DEF Unanswered
  <1>23. ASSUME ReconcileUnresolvable PROVE LineInv'
    <2>1. /\ UNCHANGED <<plan, db, step, back>> /\ task' = "MANUAL_REVIEW" /\ pc = "reconcile" /\ pc' = "commit"
      BY <1>23, TaskEvents DEF ReconcileUnresolvable, world, local
    <2>2. OnLine'
      BY <1>c, <1>f, <2>1 DEF OnLine
    <2> QED BY <1>f, <2>1, <2>2, StayInLine
  <1>24. ASSUME ReconcileFound PROVE LineInv'
    <2>1. /\ step' = [step EXCEPT ![cur] = "SUCCESS"] /\ UNCHANGED <<plan, db, task, cur, back>>
          /\ pc = "reconcile" /\ pc' = back
      BY <1>24, Moves DEF ReconcileFound, world, local
    <2>2. PICK x \in Steps : x = cur
      BY <1>21, <2>1
    <2> QED BY <1>0, <1>21, <1>e, <2>1, <2>2, MoveAlone DEF Unanswered
  <1>25. ASSUME ReconcileNotFound PROVE LineInv'
    <2>1. /\ UNCHANGED <<plan, db, cur, back>> /\ pc = "reconcile"
          /\ \/ step' = [step EXCEPT ![cur] = "RETRY_SCHEDULED"] /\ pc' = back /\ task' = "RUNNING"
             \/ step' = [step EXCEPT ![cur] = "FAILED"] /\ pc' = "fail" /\ task' = task
      BY <1>25, Moves DEF ReconcileNotFound, world, local
    <2>2. PICK x \in Steps : x = cur
      BY <1>21, <2>1
    <2> QED BY <1>0, <1>21, <1>e, <2>1, <2>2, MoveAlone DEF Unanswered
  <1>26. ASSUME FailAndSettle PROVE LineInv'
    <2>1. /\ UNCHANGED <<plan, step, db, cur>> /\ pc = "fail"
          /\ \/ pc' = "commit" /\ task' \in {"FAILED", "MANUAL_REVIEW"}
             \/ /\ pc' = "compensate" /\ task' = "COMPENSATING"
                /\ todo' = {s \in completed_side_effect_steps : s < cur}
      BY <1>26, TaskEvents DEF FailAndSettle, world
    <2>2. /\ \A s \in Steps : step[s] \notin Begun /\ step[s] # "COMPENSATED"
          /\ \A s \in Steps : cur <= s => step[s] # "SUCCESS"
      BY <1>b, <1>c, <2>1 DEF OnLine, InHand
    <2>3. Ends(task, step)'
      BY <2>1, <2>2 DEF Ends, Begun, Unanswered
    <2>4. pc' = "compensate" => \A s \in Steps : SideEffect(s) /\ step[s] = "SUCCESS" => s \in todo'
      <3>1. \A s \in Steps : step[s] = "SUCCESS" => s < cur
        BY <1>0, <2>2, NAssumption DEF Steps
      <3> QED BY <2>1, <3>1 DEF completed_side_effect_steps
    <2>5. OnLine'
      BY <2>1, <2>2, <2>4 DEF OnLine, SideEffect, Begun
    <2> QED BY <1>c, <2>1, <2>3, <2>5 DEF LineInv, Line, Ends, Committed, SideEffect
  <1>27. ASSUME NEW s \in Steps, CompensateNotSupported(s) PROVE LineInv'
    <2>1. OnLine'
      BY <1>27, <1>c DEF CompensateNotSupported, OnLine, rows, Begun
    <2> QED BY <1>27, <2>1, StayInLine DEF CompensateNotSupported, rows, world
  <1>28. ASSUME NEW s \in Steps, NEW v \in {"COMPENSATED", "FAILED"}, pc = "compensate", pc' = pc, s \in todo,
                step' = [step EXCEPT ![s] = v], todo' = todo \ {s}, UNCHANGED <<plan, db, task, cur>>,
                followup => followup'
         PROVE  LineInv'
    <2>1. /\ step'[s] = v /\ step[s] = "SUCCESS" /\ ~Terminal(task)
          /\ \A t \in Steps \ {s} : step'[t] = step[t]
      BY <1>0, <1>b, <1>28 DEF InHand
    <2>2. \A t \in Steps : step[t] \notin Begun /\ step'[t] \notin Begun
      BY <1>28, <1>c, <2>1 DEF OnLine, Begun
    <2>3. Line(step)'
      <3>1. ASSUME NEW r \in Steps, NEW t \in Steps, r < t, step'[r] \in Open, step'[t] # "PENDING"
            PROVE  \E d \in plan[r].deps : step'[d] # "SUCCESS"
        <4>1. step[r] \in Open /\ step[t] # "PENDING"
          BY <1>28, <2>1, <3>1 DEF Open, Begun
        <4>2. PICK d \in plan[r].deps : step[d] # "SUCCESS"
          BY <1>c, <3>1, <4>1 DEF Line
        <4> QED BY <2>1, <4>2, Backward
      <3> QED BY <1>28, <2>2, <3>1 DEF Line
    <2>4. Ends(task, step)'
      BY <1>28, <1>f, <2>1, <2>2 DEF Ends, Begun
    <2>5. OnLine'
      <3>1. \A t \in Steps : cur <= t => step'[t] # "SUCCESS"
        BY <1>28, <1>c, <2>1 DEF OnLine
      <3>2. \A t \in Steps : SideEffect(t) /\ step'[t] = "SUCCESS" => t \in todo' \/ followup'
        BY <1>28, <1>c, <2>1 DEF OnLine
      <3> QED BY <1>28, <2>2, <3>1, <3>2 DEF OnLine, SideEffect, Begun
    <2> QED BY <1>28, <1>c, <2>3, <2>4, <2>5 DEF LineInv, Line, Ends, Committed, SideEffect
  <1>29. ASSUME NEW s \in Steps, CompensateSucceeds(s) PROVE LineInv'
    <2>1. /\ step' = [step EXCEPT ![s] = "COMPENSATED"] /\ todo' = todo \ {s} /\ pc = "compensate"
          /\ s \in todo /\ UNCHANGED <<plan, db, task, cur, pc, followup>>
      BY <1>29, Moves DEF CompensateSucceeds, world, IsLast
    <2> QED BY <1>28, <2>1
  <1>30. ASSUME NEW s \in Steps, CompensateFails(s) PROVE LineInv'
    <2>1. /\ step' = [step EXCEPT ![s] = "FAILED"] /\ todo' = todo \ {s} /\ pc = "compensate"
          /\ s \in todo /\ followup' = TRUE /\ UNCHANGED <<plan, db, task, cur, pc>>
      BY <1>30, Moves DEF CompensateFails, world, IsLast
    <2> QED BY <1>28, <2>1
  <1>31. ASSUME CompensationEnds PROVE LineInv'
    <2>1. /\ UNCHANGED <<plan, db, step>> /\ pc = "compensate" /\ pc' = "commit" /\ todo = {}
          /\ task' = IF followup THEN "MANUAL_REVIEW" ELSE "FAILED"
      BY <1>31, TaskEvents DEF CompensationEnds, world
    <2>2. /\ \A s \in Steps : step[s] \notin Begun
          /\ \A s \in Steps : SideEffect(s) /\ step[s] = "SUCCESS" => followup
      BY <1>c, <2>1 DEF OnLine
    <2>3. Ends(task, step)'
      BY <1>f, <2>1, <2>2 DEF Ends, Begun, Unanswered, SideEffect
    <2>4. OnLine'
      BY <1>f, <2>1, <2>2 DEF OnLine, Begun
    <2> QED BY <1>c, <2>1, <2>3, <2>4 DEF LineInv, Line, Ends, Committed, SideEffect
  <1>32. ASSUME DriveBlocked PROVE LineInv'
    <2>1. OnLine'
      BY <1>32, <1>c DEF DriveBlocked, OnLine, rows
    <2> QED BY <1>32, <2>1, StayInLine DEF DriveBlocked, rows, world
  <1>33. ASSUME Finalize PROVE LineInv'
    <2>1. /\ UNCHANGED <<plan, db, step>> /\ pc = "drive" /\ pc' = "commit" /\ task' \in TaskStatus
          /\ \A s \in Steps : step[s] \notin {"RUNNING", "WAITING_APPROVAL"}
      BY <1>33, TaskMovesType DEF Finalize, world, has_blocking_steps, BLOCKING_STEP_STATUSES
    <2>2. \A s \in Steps : step[s] \notin Unanswered /\ step[s] # "COMPENSATED"
      BY <1>b, <1>c, <2>1, Values DEF InHand, OnLine, Unresolved, Unanswered
    <2>3. Ends(task, step)' /\ OnLine'
      BY <2>1, <2>2 DEF Ends, OnLine
    <2> QED BY <1>c, <2>1, <2>3 DEF LineInv, Line, Ends, Committed, SideEffect
  <1>34. ASSUME DriveExhausted PROVE LineInv'
    <2>1. UNCHANGED <<plan, db, step>> /\ task' = "MANUAL_REVIEW" /\ pc = "drive" /\ pc' = "commit"
      BY <1>34, TaskEvents DEF DriveExhausted, world
    <2>2. OnLine'
      BY <1>c, <1>f, <2>1 DEF OnLine
    <2> QED BY <1>f, <2>1, <2>2, StayInLine
  <1>35. ASSUME db' = Image, UNCHANGED <<plan, rows>>, pc \in {"commit", "drive"}, pc' = "idle" PROVE LineInv'
    <2>1. db'.task = task /\ db'.step = step /\ UNCHANGED <<task, step>>
      BY <1>35 DEF Image, rows
    <2>2. Line(step)' /\ Ends(task, step)' /\ OnLine'
      BY <1>35, <1>c, <2>1 DEF Line, Ends, OnLine, SideEffect
    <2>3. Line(db.step)' /\ Ends(db.task, db.step)' /\ Committed'
      BY <1>35, <1>c, <2>1 DEF Line, Ends, Committed, OnLine, SideEffect
    <2> QED BY <2>2, <2>3 DEF LineInv
  <1>36. ASSUME RollBack PROVE LineInv'
    <2>1. UNCHANGED <<plan, db>> /\ task' = db.task /\ step' = db.step /\ pc' = "idle"
      BY <1>36 DEF RollBack
    <2>2. Line(step)' /\ Ends(task, step)' /\ OnLine'
      BY <1>c, <2>1 DEF Line, Ends, OnLine, Committed, SideEffect
    <2> QED BY <1>c, <2>1, <2>2 DEF LineInv, Line, Ends, Committed, SideEffect
  <1>37. ASSUME ApprovalExpires \/ StepGrowsStale \/ \E s \in Steps : Bury(s)
         PROVE  LineInv'
    <2>1. UNCHANGED <<rows, db, plan, local, pc>>
      BY <1>37 DEF ApprovalExpires, StepGrowsStale, Bury
    <2>2. OnLine'
      BY <1>c, <2>1 DEF OnLine, rows, local, SideEffect
    <2> QED BY <2>1, <2>2, StayInLine DEF rows
  <1>38. CASE UNCHANGED vars
    BY <1>38, <1>c DEF vars, rows, world, local, LineInv, Line, Ends, Committed, OnLine, SideEffect
  <1> QED
    <2>1. CASE Request
      BY <2>1, <1>1, <1>2, <1>3, <1>4, <1>5, <1>6 DEF Request
    <2>2. CASE Settle \/ Drive
      BY <2>2, <1>7, <1>8, <1>9, <1>10, <1>11, <1>12, <1>13, <1>14, <1>15, <1>16
         DEF Settle, Drive
    <2>3. CASE CallTool \/ Reconcile
      BY <2>3, <1>18, <1>19, <1>20, <1>22, <1>23, <1>24, <1>25 DEF CallTool, Reconcile
    <2>4. CASE Compensate
      BY <2>4, <1>27, <1>29, <1>30, <1>31 DEF Compensate
    <2>5. Commit \/ RecoverOneFails =>
             db' = Image /\ UNCHANGED <<plan, rows>> /\ pc \in {"commit", "drive"} /\ pc' = "idle"
      BY DEF Commit, RecoverOneFails, world
    <2>6. CASE Session
      BY <2>6, <2>2, <2>3, <2>4, <2>5, <1>26, <1>32, <1>33, <1>34, <1>35 DEF Session
    <2>7. CASE World
      BY <2>7, <2>5, <1>35, <1>36, <1>37 DEF World
    <2> QED BY <2>1, <2>6, <2>7, <1>38 DEF Next

\* The inductive invariant behind the next two theorems.
LEMMA LineHolds ==
    ASSUME InOrder
    PROVE  Spec => [](TypeOK /\ BooksInv /\ LineInv)
  <1>1. Init => LineInv
    BY InitLine
  <1>2. TypeOK /\ SessionIsClean /\ ConsentIsKept /\ BooksInv /\ LineInv /\ [Next]_vars => LineInv'
    BY NextLine
  <1> QED BY InitType, NextType, InitClean, NextClean, InitConsent, NextConsent, InitBooks, NextBooks,
             <1>1, <1>2, PTL DEF Spec

\* When the steps are taken in order, the saga's books agree with the world: what counts
\* as done has its effect, and a task that ended by itself leaves no other effect behind.
THEOREM BooksAreRight ==
    ASSUME InOrder
    PROVE  Spec => []BooksMatchWorld
  <1>1. TypeOK /\ BooksInv /\ LineInv => BooksMatchWorld
    <2> SUFFICES ASSUME TypeOK, BooksInv, LineInv, NEW s \in Steps, SideEffect(s), plan[s].samekey
                 PROVE  InBooks(s)
      BY DEF BooksMatchWorld
    <2>1. EffectFits(Image, s, Excused) /\ RecordFits(Image, s) /\ Ends(task, step)
      BY DEF BooksInv, LineInv
    <2>2. step[s] \in StepStatus
      BY DEF TypeOK, Rows, Image
    <2>3. task \in {"COMPLETED", "PARTIAL_SUCCESS", "FAILED"} => ~Excused
      BY DEF Excused, BooksInv, InHand, Terminal, TERMINAL_TASK_STATUSES
    <2> QED BY <2>1, <2>2, <2>3
            DEF InBooks, EffectFits, RecordFits, Image, Ends, Waits, Unanswered, StepStatus
  <1> QED BY <1>1, LineHolds, PTL

\* When the steps are taken in order, a task that reports FAILED after it has begun to
\* undo its effects leaves none of them in force.
THEOREM SagaIsAllOrHuman ==
    ASSUME InOrder
    PROVE  Spec => []SagaIsWhole
  <1>1. TypeOK /\ BooksInv /\ LineInv => SagaIsWhole
    <2> SUFFICES ASSUME TypeOK, BooksInv, LineInv, task = "FAILED", \E t \in Steps : step[t] = "COMPENSATED",
                        NEW s \in Steps, SideEffect(s), plan[s].samekey
                 PROVE  effect[s] # "live"
      BY DEF SagaIsWhole
    <2>1. EffectFits(Image, s, Excused) /\ RecordFits(Image, s) /\ step[s] \notin Unanswered /\ step[s] # "SUCCESS"
      BY DEF BooksInv, LineInv, Ends
    <2>2. step[s] \in StepStatus
      BY DEF TypeOK, Rows, Image
    <2>3. ~Excused
      BY DEF Excused, BooksInv, InHand, Terminal, TERMINAL_TASK_STATUSES
    <2> QED BY <2>1, <2>2, <2>3 DEF EffectFits, RecordFits, Image, Waits, Unanswered, StepStatus
  <1> QED BY <1>1, LineHolds, PTL


-----------------------------------------------------------------------------
(* Requests that overlap (ConcurrentSessions).                               *)

\* A request that is admitted late, or that cannot go on, leaves well-typed rows.
LEMMA CNextType == TypeOK /\ [CNext]_cvars => TypeOK'
  <1> SUFFICES ASSUME TypeOK, [CNext]_cvars PROVE TypeOK'
    OBVIOUS
  <1>1. ASSUME [Next]_vars PROVE TypeOK'
    BY <1>1, NextType
  <1>2. ASSUME ArriveAny \/ UNCHANGED cvars \/ \E r \in early : GiveUp(r) PROVE TypeOK'
    <2>1. UNCHANGED vars
      BY <1>2 DEF ArriveAny, ArriveResume, ArriveDecide, ArriveCancel, ArriveSweep, Arrive, GiveUp, cvars
    <2> QED BY <2>1, NextType
  <1> USE Values DEF TypeOK, Rows, Image, rows, world, local
  <1>3. ASSUME NEW r \in early, AdmitResume(r) PROVE TypeOK'
    BY <1>3 DEF AdmitResume
  <1>4. ASSUME NEW r \in early, AdmitDecide(r) PROVE TypeOK'
    BY <1>4 DEF AdmitDecide, Verdict
  <1>5. ASSUME NEW r \in early, AdmitCancel(r) PROVE TypeOK'
    <2>1. task' \in TaskStatus
      BY <1>5 DEF AdmitCancel, TaskTarget
    <2> QED BY <1>5, <2>1 DEF AdmitCancel
  <1>6. ASSUME NEW r \in early, AdmitSweep(r) PROVE TypeOK'
    <2>1. appr' \in [Steps -> ApprovalStatus] /\ overdue' \in BOOLEAN
      BY <1>6 DEF AdmitSweep
    <2> QED BY <1>6, <2>1 DEF AdmitSweep
  <1>7. ASSUME IllegalTransition PROVE TypeOK'
    <2>1. CASE by = "scan"
      BY <1>7, <2>1 DEF IllegalTransition
    <2>2. CASE by # "scan"
      BY <1>7, <2>2 DEF IllegalTransition
    <2> QED BY <2>1, <2>2
  <1> HIDE DEF TypeOK
  <1> QED BY <1>1, <1>2, <1>3, <1>4, <1>5, <1>6, <1>7 DEF CNext, Admit, Next, Request

\* Nothing is under way for a task that has no row: no request has read it, no approval
\* has been asked for, no session is open.
Underway ==
    /\ db.task = "ABSENT" => early = {} /\ ~overdue /\ \A s \in Steps : db.appr[s] = "NONE"
    /\ task = "ABSENT" => pc = "idle" /\ \A s \in Steps : appr[s] = "NONE"
    /\ pc = "idle" => db.task = task

\* An open session keeps its task.
LEMMA SessionThere ==
    ASSUME TypeOK, Session
    PROVE  pc # "idle" /\ (task # "ABSENT" => task' # "ABSENT") /\ overdue' = overdue
  <1> USE DEF rows, world
  <1>1. CASE Settle
    BY <1>1, TaskIsThere DEF Settle, MarkStale, SettleUnresolved, SettleNothing, Settled,
       SettleStillWaiting, SettleGranted, SettleRefused
  <1>2. CASE Drive
    BY <1>2, TaskIsThere DEF Drive, Turn, DriveDenied, DriveManualReview, DriveRequestApproval, DriveExecute
  <1>3. CASE CallTool
    BY <1>3 DEF CallTool, ToolSucceeds, ToolFails, ToolUnresolved
  <1>4. CASE Reconcile
    BY <1>4, TaskIsThere DEF Reconcile, ReconcileRead, ReconcileUnresolvable, ReconcileFound, ReconcileNotFound
  <1>5. CASE FailAndSettle \/ Compensate
    BY <1>5, TaskIsThere DEF FailAndSettle, Compensate, CompensateNotSupported, CompensateSucceeds,
       CompensateFails, CompensationEnds
  <1>6. CASE DriveBlocked \/ Finalize \/ DriveExhausted \/ Commit
    BY <1>6, TaskIsThere DEF DriveBlocked, Finalize, DriveExhausted, Commit
  <1> QED BY <1>1, <1>2, <1>3, <1>4, <1>5, <1>6 DEF Session

\* The rows of a step that is registered under its executor's key: while it waits for a
\* call it has had none that took effect.
Unrepeated(i) ==
    \A s \in Steps :
        /\ i.task = "ABSENT" => i.effect[s] = "none"
        /\ plan[s].samekey => /\ i.keyed[s]
                              /\ i.step[s] \in Waits => i.effect[s] = "none"

\* What overlapping requests leave of the invariants of a single one: a call in progress
\* is that of a step without an effect and with its consent, and an open session only
\* adds to the effects that are committed.
OverlapInv ==
    /\ Underway
    /\ Unrepeated(Image)
    /\ Unrepeated(db)
    /\ \A s \in Steps : db.effect[s] # "none" => effect[s] # "none"
    /\ pc = "call" => /\ plan[cur].samekey => effect[cur] = "none"
                      /\ plan[cur].gated => appr[cur] = "APPROVED"

\* A history begins without calls, and what waits has no effect.
LEMMA InitOverlap == CInit => OverlapInv
  <1> SUFFICES ASSUME CInit PROVE OverlapInv
    OBVIOUS
  <1>1. BooksInv /\ ConsentIsKept /\ db = Image /\ pc = "idle"
    BY InitBooks, InitConsent DEF CInit, Init
  <1>2. \A s \in Steps : SideEffect(s) \/ effect[s] = "none"
    BY <1>1 DEF BooksInv, EffectFits, Image
  <1>3. Unrepeated(Image)
    BY <1>1, <1>2 DEF BooksInv, RecordFits, EffectFits, ConsentIsKept, Consented, Unrepeated, Image
  <1>4. Underway
    BY <1>1 DEF CInit, Init, ConsentIsKept, Consented, Underway, Image
  <1> QED BY <1>1, <1>3, <1>4 DEF OverlapInv, Image

\* A step that touches neither effects nor keys nor the committed rows, that begins no
\* call, and that lets only a step without an effect wait.
LEMMA Calm ==
    ASSUME OverlapInv, Underway', UNCHANGED <<plan, effect, keyed, db>>,
           task' = task \/ task' # "ABSENT", pc' # "call",
           \A s \in Steps : \/ step'[s] = step[s] \/ step'[s] \notin Waits
                            \/ plan[s].samekey => effect[s] = "none"
    PROVE  OverlapInv'
  BY DEF OverlapInv, Unrepeated, Image

\* Every session keeps it, also one that has found the rows in a state no single
\* request would have left: before a step waits again its effect is looked for.
LEMMA SessionOverlap ==
    ASSUME TypeOK, OverlapInv, Session, UNCHANGED early
    PROVE  OverlapInv'
  <1>a. task # "ABSENT"
    BY SessionThere DEF OverlapInv, Underway
  <1>b. Underway'
    <2>1. Inside \/ Commit
      BY SessionStays
    <2>2. pc # "idle" /\ task' # "ABSENT" /\ overdue' = overdue
      BY <1>a, SessionThere
    <2>3. CASE Inside
      BY <2>2, <2>3 DEF Inside, OverlapInv, Underway
    <2>4. CASE Commit
      BY <2>2, <2>4 DEF Commit, Image, rows, OverlapInv, Underway
    <2> QED BY <2>1, <2>3, <2>4
  <1> USE <1>b
  <1>0. /\ step \in [Steps -> StepStatus] /\ effect \in [Steps -> {"none", "live", "revoked"}]
        /\ keyed \in [Steps -> BOOLEAN] /\ back \in {"drive", "settle"}
    BY DEF TypeOK, Rows, Image
  <1> USE <1>0 DEF rows, world, local, Waits
  <1>1. ASSUME Settle PROVE OverlapInv'
    <2>1. CASE MarkStale
      BY <2>1, Calm DEF MarkStale
    <2>2. CASE SettleUnresolved \/ SettleNothing
      BY <2>2, Calm DEF SettleUnresolved, SettleNothing, Settled
    <2>3. ASSUME NEW s \in Steps, SettleStillWaiting(s) PROVE OverlapInv'
      BY <2>3, Calm DEF SettleStillWaiting
    <2>4. ASSUME NEW s \in Steps, SettleGranted(s) PROVE OverlapInv'
      <3>1. /\ step[s] = "WAITING_APPROVAL" /\ step' = [step EXCEPT ![s] = "READY"]
            /\ task' # "ABSENT" /\ pc' = "drive" /\ UNCHANGED <<plan, effect, keyed, db>>
        BY <2>4, Moves, TaskIsThere DEF SettleGranted
      <3> QED BY <3>1, Calm DEF OverlapInv, Unrepeated, Image
    <2>5. ASSUME NEW s \in Steps, SettleRefused(s) PROVE OverlapInv'
      BY <2>5, Calm, Moves, TaskIsThere DEF SettleRefused
    <2> QED BY <1>1, <2>1, <2>2, <2>3, <2>4, <2>5 DEF Settle
  <1>2. ASSUME NEW s \in Steps, DriveDenied(s) PROVE OverlapInv'
    BY <1>2, Calm, Moves DEF DriveDenied, Turn
  <1>3. ASSUME NEW s \in Steps, DriveManualReview(s) PROVE OverlapInv'
    BY <1>3, Calm, Moves, TaskIsThere DEF DriveManualReview
  <1>4. ASSUME NEW s \in Steps, DriveRequestApproval(s) PROVE OverlapInv'
    <2>1. /\ step[s] \in {"PENDING", "READY", "RUNNING"}
          /\ step' = [step EXCEPT ![s] = "WAITING_APPROVAL"] /\ step[s] \in ACTIONABLE_STEP_STATUSES
          /\ task' # "ABSENT" /\ pc' = "commit" /\ UNCHANGED <<plan, effect, keyed, db>>
      BY <1>4, Moves, TaskIsThere DEF DriveRequestApproval, Turn, IsFirst, Actionable
    <2> QED BY <2>1, Calm DEF OverlapInv, Unrepeated, Image, ACTIONABLE_STEP_STATUSES
  <1>5. ASSUME NEW s \in Steps, DriveExecute(s) PROVE OverlapInv'
    <2>1. /\ plan[s].gated => appr[s] = "APPROVED"
          /\ UNCHANGED <<plan, task, effect, appr, db>> /\ cur' = s
      BY <1>5 DEF DriveExecute, Granted
    <2>2. \/ pc' = "call" /\ step' = [step EXCEPT ![s] = "RUNNING"] /\ keyed' = keyed
          \/ /\ pc' = "reconcile" /\ step' = [step EXCEPT ![s] = "UNKNOWN"]
             /\ keyed' = [keyed EXCEPT ![s] = TRUE]
      BY <1>5, Moves DEF DriveExecute
    <2>3. plan[s].samekey => effect[s] = "none"
      BY <1>5 DEF DriveExecute, Turn, IsFirst, Actionable, ACTIONABLE_STEP_STATUSES, Unresolved,
         UNRESOLVED_STEP_STATUSES, OverlapInv, Unrepeated, Image
    <2> QED BY <2>1, <2>2, <2>3 DEF OverlapInv, Unrepeated, Image
  <1>6. ASSUME ToolSucceeds PROVE OverlapInv'
    BY <1>6, Moves DEF ToolSucceeds, Applied, OverlapInv, Unrepeated, Image
  <1>7. ASSUME NEW r \in BOOLEAN, ToolFails(r) PROVE OverlapInv'
    <2>1. /\ pc = "call" /\ UNCHANGED <<plan, effect, keyed, db>>
          /\ pc' \in {"fail", "drive"} /\ task' \in {task, "RUNNING"}
      BY <1>7 DEF ToolFails
    <2>2. \/ step' = [step EXCEPT ![cur] = "FAILED"]
          \/ step' = [step EXCEPT ![cur] = "RETRY_SCHEDULED"]
      BY <1>7, Moves DEF ToolFails
    <2> QED BY <2>1, <2>2, Calm DEF OverlapInv
  <1>8. ASSUME NEW u \in UNRESOLVED_STEP_STATUSES, ToolUnresolved(u) PROVE OverlapInv'
    <2>1. UNCHANGED <<plan, task, appr, db>> /\ pc = "call" /\ pc' = "reconcile"
          /\ keyed' = [keyed EXCEPT ![cur] = TRUE]
      BY <1>8 DEF ToolUnresolved
    <2>2. step' = [step EXCEPT ![cur] = "TIMEOUT"] \/ step' = [step EXCEPT ![cur] = "UNKNOWN"]
      BY <1>8, Moves DEF ToolUnresolved
    <2>3. effect' = effect \/ Applied(cur)
      BY <1>8 DEF ToolUnresolved
    <2> QED BY <1>a, <2>1, <2>2, <2>3 DEF Applied, OverlapInv, Unrepeated, Image
  <1>9. ASSUME ReconcileRead PROVE OverlapInv'
    BY <1>9, Calm, Moves DEF ReconcileRead
  <1>10. ASSUME ReconcileUnresolvable PROVE OverlapInv'
    BY <1>10, Calm, TaskIsThere DEF ReconcileUnresolvable
  <1>11. ASSUME ReconcileFound PROVE OverlapInv'
    BY <1>11, Calm, Moves DEF ReconcileFound
  <1>12. ASSUME ReconcileNotFound PROVE OverlapInv'
    <2>1. /\ UNCHANGED <<plan, effect, keyed, db>> /\ ~(keyed[cur] /\ effect[cur] # "none")
          /\ pc' \in {"fail", back} /\ task' \in {task, "RUNNING"}
      BY <1>12 DEF ReconcileNotFound, Found
    <2>2. \/ step' = [step EXCEPT ![cur] = "FAILED"]
          \/ step' = [step EXCEPT ![cur] = "RETRY_SCHEDULED"]
      BY <1>12, Moves DEF ReconcileNotFound
    <2>3. cur \in Steps => (plan[cur].samekey => effect[cur] = "none")
      BY <2>1 DEF OverlapInv, Unrepeated, Image
    <2> QED BY <2>1, <2>2, <2>3, Calm
  <1>13. ASSUME FailAndSettle PROVE OverlapInv'
    BY <1>13, Calm, TaskIsThere DEF FailAndSettle
  <1>14. ASSUME NEW s \in Steps, CompensateNotSupported(s) \/ CompensateFails(s) PROVE OverlapInv'
    BY <1>14, Calm, Moves DEF CompensateNotSupported, CompensateFails
  <1>15. ASSUME NEW s \in Steps, CompensateSucceeds(s) PROVE OverlapInv'
    <2>1. /\ step' = [step EXCEPT ![s] = "COMPENSATED"] /\ effect' = [effect EXCEPT ![s] = "revoked"]
          /\ UNCHANGED <<task, plan, keyed, appr, db, pc>> /\ pc = "compensate"
      BY <1>15, Moves DEF CompensateSucceeds
    <2> QED BY <1>a, <2>1 DEF OverlapInv, Unrepeated, Image
  <1>16. ASSUME CompensationEnds \/ DriveBlocked \/ Finalize \/ DriveExhausted PROVE OverlapInv'
    BY <1>16, Calm, TaskIsThere DEF CompensationEnds, DriveBlocked, Finalize, DriveExhausted
  <1>17. ASSUME Commit PROVE OverlapInv'
    BY <1>17 DEF Commit, OverlapInv, Unrepeated, Image
  <1> QED BY <1>1, <1>2, <1>3, <1>4, <1>5, <1>6, <1>7, <1>8, <1>9, <1>10, <1>11, <1>12, <1>13,
             <1>14, <1>15, <1>16, <1>17 DEF Session, Drive, CallTool, Reconcile, Compensate

\* So do the requests of Orchestrator and the world around.
LEMMA OthersOverlap ==
    ASSUME TypeOK, OverlapInv, StartTask \/ StartRefused \/ World, UNCHANGED early
    PROVE  OverlapInv'
  <1>0. /\ step \in [Steps -> StepStatus] /\ effect \in [Steps -> {"none", "live", "revoked"}]
    BY DEF TypeOK, Rows, Image
  <1> USE <1>0 DEF rows, world, local, Waits
  <1>1. CASE StartTask
    <2>1. \A s \in Steps : effect[s] = "none"
      BY <1>1 DEF StartTask, OverlapInv, Unrepeated, Image
    <2>2. Underway'
      BY <1>1 DEF StartTask, OverlapInv, Underway
    <2> QED BY <1>1, <2>1, <2>2, Calm DEF StartTask
  <1>2. CASE StartRefused
    <2>2. Underway'
      BY <1>2 DEF StartRefused, OverlapInv, Underway
    <2> QED BY <1>2, <2>2, Calm DEF StartRefused
  <1>3. CASE RollBack
    BY <1>3 DEF RollBack, OverlapInv, Underway, Unrepeated, Image
  <1>4. CASE RecoverOneFails
    BY <1>4 DEF RecoverOneFails, OverlapInv, Underway, Unrepeated, Image
  <1>5. CASE ApprovalExpires \/ StepGrowsStale \/ \E s \in Steps : Bury(s)
    <2>1. Underway'
      BY <1>5 DEF ApprovalExpires, StepGrowsStale, Bury, OverlapInv, Underway
    <2> QED BY <1>5, <2>1, Calm DEF ApprovalExpires, StepGrowsStale, Bury
  <1> QED BY <1>1, <1>2, <1>3, <1>4, <1>5 DEF World

\* And so do the requests that are admitted with what they saw some time ago.
LEMMA NextOverlap == TypeOK /\ OverlapInv /\ [CNext]_cvars => OverlapInv'
  <1> SUFFICES ASSUME TypeOK, OverlapInv, [CNext]_cvars PROVE OverlapInv'
    OBVIOUS
  <1>0. /\ step \in [Steps -> StepStatus] /\ appr \in [Steps -> ApprovalStatus] /\ db \in Rows
    BY DEF TypeOK, Rows, Image
  <1> USE <1>0 DEF vars, rows, world, local, Waits
  <1>1. ASSUME ArriveAny PROVE OverlapInv'
    <2>1. UNCHANGED vars /\ (db.task # "ABSENT" \/ early' = early)
      <3>1. CASE \E s \in Steps, v \in {"approve", "reject"} : ArriveDecide(s, v)
        BY <3>1 DEF ArriveDecide, Arrive, OverlapInv, Underway
      <3>2. CASE ArriveSweep
        BY <3>2 DEF ArriveSweep, Arrive, OverlapInv, Underway
      <3>3. CASE ArriveCancel \/ \E who \in {"scan", "api"} : ArriveResume(who)
        BY <3>3 DEF ArriveResume, ArriveCancel, Arrive
      <3> QED BY <1>1, <3>1, <3>2, <3>3 DEF ArriveAny
    <2>2. Underway'
      BY <2>1 DEF OverlapInv, Underway
    <2> QED BY <2>1, <2>2 DEF OverlapInv, Unrepeated, Image
  <1>2. ASSUME NEW r \in early, AdmitResume(r) PROVE OverlapInv'
    <2>1. Underway'
      BY <1>2 DEF AdmitResume, Admitted, OverlapInv, Underway
    <2> QED BY <1>2, <2>1, Calm DEF AdmitResume
  <1>3. ASSUME NEW r \in early, AdmitDecide(r) PROVE OverlapInv'
    <2>1. Underway'
      BY <1>3 DEF AdmitDecide, Admitted, OverlapInv, Underway
    <2> QED BY <1>3, <2>1, Calm DEF AdmitDecide
  <1>4. ASSUME NEW r \in early, AdmitCancel(r) PROVE OverlapInv'
    <2>1. /\ task' \in TaskStatus /\ db' = [db EXCEPT !.task = task'] /\ pc = "idle" /\ pc' = pc
          /\ UNCHANGED <<plan, step, effect, keyed, appr, overdue>> /\ early' = early \ {r}
      BY <1>4 DEF AdmitCancel, Admitted, TaskTarget
    <2>2. /\ task' # "ABSENT" /\ db'.task = task' /\ db'.step = db.step /\ db'.effect = db.effect
          /\ db'.keyed = db.keyed /\ db'.appr = db.appr
      BY <2>1 DEF TaskStatus, Rows
    <2>3. Underway'
      BY <2>1, <2>2 DEF OverlapInv, Underway
    <2> QED BY <2>1, <2>2, <2>3 DEF OverlapInv, Unrepeated, Image
  <1>5. ASSUME NEW r \in early, AdmitSweep(r) PROVE OverlapInv'
    <2>1. /\ db' = [db EXCEPT !.appr = appr'] /\ pc = "idle" /\ pc' = pc
          /\ UNCHANGED <<plan, task, step, effect, keyed>> /\ early # {}
      BY <1>5 DEF AdmitSweep, Admitted
    <2>2. /\ db'.task = db.task /\ db'.step = db.step /\ db'.effect = db.effect
          /\ db'.keyed = db.keyed
      BY <2>1 DEF Rows
    <2>3. Underway'
      BY <2>1, <2>2 DEF OverlapInv, Underway
    <2> QED BY <2>1, <2>2, <2>3 DEF OverlapInv, Unrepeated, Image
  <1>6. ASSUME NEW r \in early, GiveUp(r) PROVE OverlapInv'
    BY <1>6 DEF GiveUp, OverlapInv, Underway, Unrepeated, Image
  <1>7. ASSUME IllegalTransition PROVE OverlapInv'
    <2>1. pc # "idle" /\ pc' = "idle" /\ UNCHANGED <<plan, overdue, early>>
      BY <1>7 DEF IllegalTransition
    <2>2. CASE by = "scan"
      BY <1>7, <2>1, <2>2 DEF IllegalTransition, OverlapInv, Underway, Unrepeated, Image
    <2>3. CASE by # "scan"
      BY <1>7, <2>1, <2>3 DEF IllegalTransition, OverlapInv, Underway, Unrepeated, Image
    <2> QED BY <2>2, <2>3
  <1>8. CASE UNCHANGED cvars
    BY <1>8 DEF cvars, OverlapInv, Underway, Unrepeated, Image
  <1> QED BY <1>1, <1>2, <1>3, <1>4, <1>5, <1>6, <1>7, <1>8, SessionOverlap, OthersOverlap DEF CNext, Admit

LEMMA OverlapHolds == CSpec => [](TypeOK /\ OverlapInv)
  <1>1. CInit => TypeOK
    BY InitType DEF CInit
  <1> QED BY <1>1, CNextType, InitOverlap, NextOverlap, PTL DEF CSpec

\* However requests for one task overlap, a tool is never called again while an earlier
\* call of its has taken effect.
THEOREM OverlapNothingTwice == CSpec => []NoBlindReexecution
  <1>1. OverlapInv => NoBlindReexecution
    BY DEF OverlapInv, NoBlindReexecution
  <1> QED BY <1>1, OverlapHolds, PTL

\* The tool is called by the session that has just found the approval granted; what it
\* did is new to the committed rows only as far as it is new to that session.
LEMMA EffectStep ==
    TypeOK /\ OverlapInv /\ [CNext]_cvars =>
        [\A s \in Steps : plan[s].gated /\ effect[s] = "none" /\ effect'[s] = "live"
                              => appr[s] = "APPROVED"]_cvars
  <1> SUFFICES ASSUME TypeOK, OverlapInv, CNext, NEW s \in Steps, plan[s].gated,
                      effect[s] = "none", effect'[s] = "live"
               PROVE  appr[s] = "APPROVED"
    OBVIOUS
  <1>0. effect \in [Steps -> {"none", "live", "revoked"}]
    BY DEF TypeOK, Rows, Image
  <1> USE <1>0 DEF vars, rows, world
  <1>1. CASE CallTool
    <2>1. pc = "call" /\ (effect' = effect \/ Applied(cur))
      BY <1>1 DEF CallTool, ToolSucceeds, ToolFails, ToolUnresolved
    <2>2. s = cur
      BY <2>1 DEF Applied
    <2> QED BY <2>1, <2>2 DEF OverlapInv
  <1>2. CASE Compensate
    BY <1>2 DEF Compensate, CompensateNotSupported, CompensateSucceeds, CompensateFails, CompensationEnds
  <1>3. CASE Session /\ ~CallTool /\ ~Compensate
    BY <1>3 DEF Session, Settle, MarkStale, SettleUnresolved, SettleNothing, SettleStillWaiting,
       SettleGranted, SettleRefused, Drive, DriveDenied, DriveManualReview, DriveRequestApproval,
       DriveExecute, Reconcile, ReconcileRead, ReconcileUnresolvable, ReconcileFound,
       ReconcileNotFound, FailAndSettle, DriveBlocked, Finalize, DriveExhausted, Commit
  <1>4. CASE StartTask \/ StartRefused \/ World
    BY <1>4 DEF StartTask, StartRefused, World, RollBack, RecoverOneFails, ApprovalExpires,
       StepGrowsStale, Bury, OverlapInv
  <1>5. CASE ArriveAny \/ Admit \/ IllegalTransition
    BY <1>5 DEF ArriveAny, ArriveResume, ArriveDecide, ArriveCancel, ArriveSweep, Arrive, Admit,
       AdmitResume, AdmitDecide, AdmitCancel, AdmitSweep, GiveUp, IllegalTransition, OverlapInv
  <1> QED BY <1>1, <1>2, <1>3, <1>4, <1>5 DEF CNext

\* Nothing gated takes effect unless its approval stands APPROVED at that moment, whatever
\* other decisions, sweeps and resumes have read the task before.
THEOREM OverlapConsent == CSpec => ConsentAtEffect
  BY OverlapHolds, EffectStep, PTL DEF CSpec, ConsentAtEffect
=============================================================================
