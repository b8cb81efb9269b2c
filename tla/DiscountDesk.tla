---------------------------- MODULE DiscountDesk ----------------------------
(***************************************************************************)
(* Several tasks at once: requesters, approvers and the customers they     *)
(* share.  Each task has a plan of one step, whose action is judged by     *)
(* PolicyEngine when the task starts and again when its approval has been  *)
(* decided, on facts read afresh.  Orchestrator has the steps, retries and *)
(* crashes of one task; this module has what tasks do to each other, the   *)
(* approval gate, and the business table of discounts.                     *)
(*                                                                         *)
(* A session is one request; the rows it writes are written when it ends,  *)
(* so that a crash before that leaves nothing behind (see Orchestrator).   *)
(***************************************************************************)
EXTENDS PolicyEngine

CONSTANTS
    Task,       \* the tasks
    Proposals,  \* the actions a planner may propose
    None        \* no task, no approver, no proposal

ASSUME ProposalsAssumption == Proposals \subseteq Proposal
ASSUME NoneAssumption == None \notin Task /\ None \notin DOMAIN User /\ None \notin Proposals

VARIABLES
    status,     \* TaskORM.status
    asked,      \* the proposal in the step's row; None before the task exists
    approval,   \* ApprovalORM: status, the type of approver, and who decided
    discount,   \* DiscountORM.status of the discount of this task; "none"
    overdue,    \* the approvals that have passed expires_at
    serving,    \* the task of the open session, or None
    approver    \* who decides in the open session, or None

desk == <<status, asked, approval, discount, overdue, serving, approver>>
vars == <<engine, desk>>

\* COMPLETED stands for PARTIAL_SUCCESS as well.
TERMINAL == {"COMPLETED", "FAILED", "CANCELLED", "MANUAL_REVIEW"}
NoApproval == [status |-> "NONE", type |-> "NONE", by |-> None]

\* _find_active and the fact active_discount: the customer has an ACTIVE discount.
Holds(t, customer) ==
    discount[t] = "ACTIVE" /\ asked[t] # None /\ asked[t].customer = customer
Active(customer) == \E t \in Task : Holds(t, customer)

\* APPROVER_ROLE_BY_TYPE and is_approver.
approver_role(type) == IF type = "COMPLIANCE" THEN "compliance_officer" ELSE "cs_manager"
is_approver(user, type) == approver_role(type) \in User[user].roles \/ User[user].admin

Init ==
    /\ \E a \in Proposals : request = [proposal |-> a, granted |-> FALSE, active |-> FALSE]
    /\ at = 0 /\ decision = "ALLOW" /\ highest_risk = 0 /\ approval_type = "NONE"
    /\ status = [t \in Task |-> "ABSENT"]
    /\ asked = [t \in Task |-> None]
    /\ approval = [t \in Task |-> NoApproval]
    /\ discount = [t \in Task |-> "none"]
    /\ overdue = {} /\ serving = None /\ approver = None

-----------------------------------------------------------------------------
(* The requests.                                                             *)

\* start_task: the action is registered with the task and judged.
StartTask(t, proposed) ==
    /\ at = 0 /\ status[t] = "ABSENT"
    /\ asked' = [asked EXCEPT ![t] = proposed]
    /\ Begin([proposal |-> proposed, granted |-> FALSE, active |-> Active(proposed.customer)])
    /\ serving' = t /\ approver' = None
    /\ UNCHANGED <<status, approval, discount, overdue>>

\* Mutant of MayDecide: the requester may approve what he asked for.
OwnDecision(t, user) ==
    /\ approval[t].status = "PENDING" /\ t \notin overdue
    /\ is_approver(user, approval[t].type)

\* ApprovalGate.decide: a pending approval that has not expired, another person than
\* the requester, and with the role it takes.
MayDecide(t, user) ==
    /\ approval[t].status = "PENDING" /\ t \notin overdue
    /\ user # asked[t].user
    /\ is_approver(user, approval[t].type)

\* Approved: the task goes on, its action is judged again on fresh facts.
Approve(t, user) ==
    /\ at = 0 /\ status[t] = "WAITING_APPROVAL" /\ MayDecide(t, user)
    /\ Begin([proposal |-> asked[t], granted |-> TRUE, active |-> Active(asked[t].customer)])
    /\ serving' = t /\ approver' = user
    /\ UNCHANGED <<status, asked, approval, discount, overdue>>

\* The approval with the decision of this person.
Answered(t, verdict, user) ==
    [approval EXCEPT ![t] = [status |-> verdict, type |-> approval[t].type, by |-> user]]

Reject(t, user) ==
    /\ at = 0 /\ status[t] = "WAITING_APPROVAL" /\ MayDecide(t, user)
    /\ approval' = Answered(t, "REJECTED", user)
    /\ status' = [status EXCEPT ![t] = "FAILED"]
    /\ UNCHANGED <<engine, asked, discount, overdue, serving, approver>>

\* The task has been cancelled meanwhile: the decision is recorded, nothing follows.
DecideLate(t, user, verdict) ==
    /\ at = 0 /\ status[t] \in TERMINAL /\ MayDecide(t, user)
    /\ approval' = Answered(t, verdict, user)
    /\ UNCHANGED <<engine, status, asked, discount, overdue, serving, approver>>

CancelTask(t) ==
    /\ at = 0 /\ status[t] = "WAITING_APPROVAL"
    /\ status' = [status EXCEPT ![t] = "CANCELLED"]
    /\ UNCHANGED <<engine, asked, approval, discount, overdue, serving, approver>>

Expired(a) == [status |-> "EXPIRED", type |-> a.type, by |-> a.by]

\* sweep_expired_approvals.
SweepExpiredApprovals ==
    /\ at = 0 /\ overdue # {}
    /\ approval' = [t \in Task |-> IF t \in overdue /\ approval[t].status = "PENDING"
                                   THEN Expired(approval[t]) ELSE approval[t]]
    /\ overdue' = {}
    /\ UNCHANGED <<engine, status, asked, discount, serving, approver>>

\* The recovery scan finds the task waiting for an approval that has expired.
ResumeExpired(t) ==
    /\ at = 0 /\ status[t] = "WAITING_APPROVAL" /\ approval[t].status = "EXPIRED"
    /\ status' = [status EXCEPT ![t] = "FAILED"]
    /\ UNCHANGED <<engine, asked, approval, discount, overdue, serving, approver>>

ApprovalExpires(t) ==
    /\ at = 0 /\ approval[t].status = "PENDING" /\ t \notin overdue
    /\ overdue' = overdue \cup {t}
    /\ UNCHANGED <<engine, status, asked, approval, discount, serving, approver>>

-----------------------------------------------------------------------------
(* The end of a session, when the engine has come to a decision.             *)

\* What the session writes: how its task stands, and the approval it decided.
Close(t, how) ==
    /\ status' = [status EXCEPT ![t] = how]
    /\ at' = 0 /\ serving' = None /\ approver' = None
    /\ UNCHANGED <<request, decision, highest_risk, approval_type, asked, overdue>>

Decided(t) == IF approver = None THEN approval ELSE Answered(t, "APPROVED", approver)

Denied(t) ==
    /\ at = Done /\ serving = t /\ decision = "DENY"
    /\ approval' = Decided(t)
    /\ Close(t, "FAILED")
    /\ UNCHANGED discount

LeftToHuman(t) ==
    /\ at = Done /\ serving = t /\ decision = "MANUAL_REVIEW"
    /\ approval' = Decided(t)
    /\ Close(t, "MANUAL_REVIEW")
    /\ UNCHANGED discount

\* _request_approval: request_approval of the gate.
RequestApproval(t) ==
    /\ at = Done /\ serving = t /\ decision = "REQUIRE_APPROVAL"
    /\ approval' = [approval EXCEPT ![t] = [status |-> "PENDING", type |-> approval_type, by |-> None]]
    /\ Close(t, "WAITING_APPROVAL")
    /\ UNCHANGED discount

\* The tool fails for good, or refuses a second discount.
ExecuteFails(t) ==
    /\ at = Done /\ serving = t /\ decision = "ALLOW"
    /\ approval' = Decided(t)
    /\ Close(t, "FAILED")
    /\ UNCHANGED discount

ExecuteElse(t) ==
    /\ at = Done /\ serving = t /\ decision = "ALLOW" /\ proposal.tool # "apply_discount"
    /\ approval' = Decided(t)
    /\ Close(t, "COMPLETED")
    /\ UNCHANGED discount

\* apply_discount writes the discount, for a customer that exists and has none.  What
\* the rest of the plan does in the same session may end the task otherwise: the
\* saga revokes the discount, or cannot and leaves it to a human.
ApplyDiscount(t) ==
    /\ at = Done /\ serving = t /\ decision = "ALLOW" /\ proposal.tool = "apply_discount"
    /\ ~Active(proposal.customer) /\ Customer[proposal.customer].department # "none"
    /\ approval' = Decided(t)
    /\ \/ discount' = [discount EXCEPT ![t] = "ACTIVE"] /\ Close(t, "COMPLETED")
       \/ discount' = [discount EXCEPT ![t] = "ACTIVE"] /\ Close(t, "MANUAL_REVIEW")
       \/ discount' = [discount EXCEPT ![t] = "REVOKED"] /\ Close(t, "FAILED")

\* Mutant of RollBack: the action survives the session that registered it.
RollBackPartly ==
    /\ at # 0
    /\ at' = 0 /\ serving' = None /\ approver' = None
    /\ UNCHANGED <<request, decision, highest_risk, approval_type, status, asked, approval,
                   discount, overdue>>

\* The process dies: the session leaves nothing behind.
RollBack ==
    /\ at # 0
    /\ asked' = IF status[serving] = "ABSENT" THEN [asked EXCEPT ![serving] = None] ELSE asked
    /\ at' = 0 /\ serving' = None /\ approver' = None
    /\ UNCHANGED <<request, decision, highest_risk, approval_type, status, approval, discount, overdue>>

Evaluate == NextPolicy /\ UNCHANGED desk

Next ==
    \/ \E t \in Task :
         \/ \E proposed \in Proposals : StartTask(t, proposed)
         \/ \E user \in DOMAIN User :
              \/ Approve(t, user) \/ Reject(t, user)
              \/ \E verdict \in {"APPROVED", "REJECTED"} : DecideLate(t, user, verdict)
         \/ CancelTask(t) \/ ResumeExpired(t) \/ ApprovalExpires(t)
         \/ Denied(t) \/ LeftToHuman(t) \/ RequestApproval(t)
         \/ ExecuteFails(t) \/ ExecuteElse(t) \/ ApplyDiscount(t)
    \/ SweepExpiredApprovals \/ RollBack \/ Evaluate

Spec == Init /\ [][Next]_vars

-----------------------------------------------------------------------------
(* Properties.                                                               *)

\* The variables keep their types.
DeskTypeOK ==
    /\ EngineTypeOK
    /\ status \in [Task -> {"ABSENT", "WAITING_APPROVAL"} \cup TERMINAL]
    /\ asked \in [Task -> Proposals \cup {None}]
    /\ approval \in [Task -> [status : {"NONE", "PENDING", "APPROVED", "REJECTED", "EXPIRED"},
                              type : ApprovalType, by : DOMAIN User \cup {None}]]
    /\ discount \in [Task -> {"none", "ACTIVE", "REVOKED"}]
    /\ overdue \subseteq Task
    /\ serving \in Task \cup {None} /\ approver \in DOMAIN User \cup {None}

\* The rows of a task: it has an action from its first session on and not before, and
\* an approval nobody has decided only while it waits or after it was cancelled.
RowsAgree ==
    \A t \in Task :
        /\ asked[t] = None <=> status[t] = "ABSENT" /\ serving # t
        /\ discount[t] # "none" => status[t] \in {"COMPLETED", "FAILED", "MANUAL_REVIEW"}
        /\ approval[t].status = "PENDING" => status[t] \in {"WAITING_APPROVAL", "CANCELLED"}
        /\ status[t] = "WAITING_APPROVAL" => approval[t].status \in {"PENDING", "EXPIRED"}

\* An open session serves a task that is new or whose approver may decide, on the
\* action of its row and on facts that are still true.
SessionIsSound ==
    /\ at = 0 <=> serving = None
    /\ at # 0 =>
         /\ proposal = asked[serving]
         /\ request.active = Active(proposal.customer)
         /\ request.granted <=> approver # None
         /\ IF approver = None THEN status[serving] = "ABSENT"
            ELSE status[serving] = "WAITING_APPROVAL" /\ MayDecide(serving, approver)

\* The tables hang together, and with the session that reads and writes them.
DeskIsConsistent == DeskTypeOK /\ RowsAgree /\ SessionIsSound

\* A customer has at most one ACTIVE discount, however many tasks apply for one and
\* however long their approvals take; and a discount that the policies allow is never
\* refused by the tool because the customer has got another one meanwhile.
OneActiveDiscount ==
    /\ \A t, u \in Task : discount[t] = "ACTIVE" /\ Holds(u, asked[t].customer) => t = u
    /\ at = Done /\ decision = "ALLOW" /\ proposal.tool = "apply_discount"
         => ~Active(proposal.customer)

\* No single person gives a discount away: one that was ever applied is within the
\* absolute limit, for a customer the requester may reach, and, when it is beyond the
\* self-service limit or suspected, with the consent of somebody else who has the role.
FourEyes ==
    \A t \in Task : discount[t] # "none" =>
        LET a == asked[t] IN
        /\ a.rate <= ManagerMax
        /\ \/ User[a.user].admin \/ User[a.user].scope = "*"
           \/ User[a.user].department = Customer[a.customer].department
        /\ a.rate > AutoMax \/ a.hint >= HIGH \/ a.suspicious =>
             /\ approval[t].status = "APPROVED" /\ approval[t].by # a.user
             /\ is_approver(approval[t].by, approval[t].type)
=============================================================================
