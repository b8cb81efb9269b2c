------------------------- MODULE DiscountDeskProofs -------------------------
(***************************************************************************)
(* Proofs about DiscountDesk and PolicyEngine, for every number of tasks,  *)
(* every table of users, agents, services, tools and customers, every set  *)
(* of proposals and every limit.                                           *)
(***************************************************************************)
EXTENDS DiscountDesk, TLAPS

Verdicts == [decision : Decision, risk : RiskLevel, type : ApprovalType]

\* The decisions, written out.
LEMMA Decisions ==
    /\ Decision = {"ALLOW", "REQUIRE_APPROVAL", "MANUAL_REVIEW", "DENY"}
    /\ DECISION_PRIORITY["ALLOW"] = 0 /\ DECISION_PRIORITY["REQUIRE_APPROVAL"] = 2
    /\ DECISION_PRIORITY["MANUAL_REVIEW"] = 3 /\ DECISION_PRIORITY["DENY"] = 4
  BY DEF Decision, DECISION_PRIORITY

\* Every result a policy builds is one.
LEMMA Results ==
    ASSUME NEW risk \in RiskLevel, NEW type \in ApprovalType
    PROVE  /\ allow(risk) \in Verdicts /\ deny(risk) \in Verdicts
           /\ manual_review(risk) \in Verdicts /\ require_approval(type, risk) \in Verdicts
  BY Decisions DEF allow, deny, manual_review, require_approval, Result, Verdicts, ApprovalType

LEMMA Levels ==
    /\ RiskLevel = 0 .. 4
    /\ \A a, b \in RiskLevel : Higher(a, b) \in RiskLevel /\ Higher(a, b) >= a /\ Higher(a, b) >= b
  BY DEF RiskLevel, Higher

\* The baseline risk of a tool and the risk assessed for the action are levels, and the
\* assessment is HIGH for whatever is delicate.
LEMMA Assessed ==
    ASSUME EngineTypeOK
    PROVE  /\ risk_level \in RiskLevel /\ assessed \in RiskLevel
           /\ proposal.hint \in RiskLevel
           /\ proposal.rate > AutoMax \/ proposal.hint >= HIGH \/ proposal.suspicious
                => assessed >= HIGH
  <1>1. proposal.hint \in RiskLevel /\ proposal.tool \in DOMAIN Tool \cup {"unregistered"}
        /\ proposal.rate \in Nat /\ proposal.suspicious \in BOOLEAN
    BY DEF EngineTypeOK, Request, Proposal, proposal
  <1>2. risk_level \in RiskLevel
    BY <1>1, TablesAssumption DEF risk_level, registered, RiskLevel, HIGH
  <1>3. QED
    BY <1>1, <1>2, LimitsAssumption DEF assessed, Higher, RiskLevel, HIGH, MEDIUM

\* Whatever the policies make of a request is a verdict.
LEMMA VerdictType ==
    ASSUME EngineTypeOK, NEW i \in 1 .. 10
    PROVE  policies[i] \in Verdicts
  <1>1. 0 \in RiskLevel /\ LOW \in RiskLevel /\ MEDIUM \in RiskLevel /\ HIGH \in RiskLevel
        /\ CRITICAL \in RiskLevel /\ "MANAGER" \in ApprovalType /\ "COMPLIANCE" \in ApprovalType
    BY DEF RiskLevel, LOW, MEDIUM, HIGH, CRITICAL, ApprovalType
  <1>2. risk_level \in RiskLevel /\ assessed \in RiskLevel /\ highest_risk \in RiskLevel
        /\ proposal.hint \in RiskLevel
    BY Assessed DEF EngineTypeOK
  <1>3. Higher(assessed, HIGH) \in RiskLevel
        /\ Higher(highest_risk, Higher(risk_level, proposal.hint)) \in RiskLevel
    BY <1>1, <1>2, Levels
  <1>4. IdentityPolicy \in Verdicts /\ ToolPermissionPolicy \in Verdicts
        /\ ParameterPolicy \in Verdicts /\ RateLimitPolicy \in Verdicts
        /\ SensitiveDataPolicy \in Verdicts
    BY <1>1, Results DEF IdentityPolicy, ToolPermissionPolicy, ParameterPolicy, RateLimitPolicy,
                         SensitiveDataPolicy
  <1>5. AgentPermissionPolicy \in Verdicts
    BY <1>1, <1>2, Results DEF AgentPermissionPolicy
  <1>6. DataAccessPolicy \in Verdicts
    BY <1>1, Results DEF DataAccessPolicy
  <1>7. BusinessRulePolicy \in Verdicts
    BY <1>1, Results DEF BusinessRulePolicy
  <1>8. RiskPolicy \in Verdicts
    BY <1>1, <1>2, <1>3, Results DEF RiskPolicy
  <1>9. ApprovalPolicy \in Verdicts
    BY <1>1, <1>2, <1>3, Results DEF ApprovalPolicy
  <1>10. QED
    BY <1>4, <1>5, <1>6, <1>7, <1>8, <1>9 DEF policies

-----------------------------------------------------------------------------
(* The engine keeps its types, and its decision can only get stronger.       *)

LEMMA Strengthens ==
    ASSUME NEW d \in Decision, NEW e \in Decision
    PROVE  /\ Stronger(d, e) \in Decision
           /\ Stronger(d, e) = "ALLOW" => d = "ALLOW" /\ e = "ALLOW"
           /\ e = "DENY" => Stronger(d, e) = "DENY"
  BY Decisions DEF Stronger

LEMMA DowngradedType ==
    ASSUME NEW r \in Verdicts
    PROVE  /\ Downgraded(r) \in Verdicts
           /\ Downgraded(r).risk = r.risk
           /\ ~(request.granted /\ r.decision = "REQUIRE_APPROVAL") => Downgraded(r) = r
  BY Decisions DEF Downgraded, Verdicts, ApprovalType, allow, Result

\* One policy: what its verdict does to the decision and to the risk.
LEMMA PolicyStep ==
    ASSUME EngineTypeOK, NextPolicy
    PROVE  /\ EngineTypeOK'
           /\ at \in 1 .. 10 /\ policies[at] \in Verdicts
           /\ decision' = "ALLOW"
                => decision = "ALLOW" /\ Downgraded(policies[at]).decision = "ALLOW"
           /\ highest_risk' >= highest_risk /\ highest_risk' >= policies[at].risk
           /\ at' = at + 1 \/ (at' = Done /\ decision' = "DENY")
  <1> DEFINE r == Downgraded(policies[at])
  <1>1. at \in 1 .. 10 /\ policies[at] \in Verdicts
    BY VerdictType DEF NextPolicy
  <1>2. r \in Verdicts /\ r.risk = policies[at].risk
    BY <1>1, DowngradedType
  <1>3. r.decision \in Decision /\ r.risk \in RiskLevel /\ r.type \in ApprovalType
    BY <1>2 DEF Verdicts
  <1>4. decision' = Stronger(decision, r.decision) /\ highest_risk' = Higher(highest_risk, r.risk)
        /\ approval_type' = (IF r.type # "NONE" THEN r.type ELSE approval_type)
        /\ at' = (IF r.decision = "DENY" THEN Done ELSE at + 1) /\ request' = request
    BY DEF NextPolicy
  <1> HIDE DEF r
  <1>5. decision \in Decision /\ highest_risk \in RiskLevel
    BY DEF EngineTypeOK
  <1>6. /\ decision' \in Decision
        /\ decision' = "ALLOW" => decision = "ALLOW" /\ r.decision = "ALLOW"
        /\ r.decision = "DENY" => decision' = "DENY"
    BY <1>3, <1>4, <1>5, Strengthens
  <1>7. highest_risk' \in RiskLevel /\ highest_risk' >= highest_risk /\ highest_risk' >= r.risk
    BY <1>3, <1>4, <1>5, Levels
  <1>8. at' \in 0 .. Done
    BY <1>1, <1>4 DEF Done
  <1>9. EngineTypeOK'
    BY <1>3, <1>4, <1>6, <1>7, <1>8 DEF EngineTypeOK
  <1>10. QED
    BY <1>1, <1>2, <1>4, <1>6, <1>7, <1>9 DEF r

-----------------------------------------------------------------------------
(* The tables of the desk.                                                   *)

LEMMA ActiveIsBoolean == \A c : Active(c) \in BOOLEAN
  BY DEF Active, Holds

\* A session begins on a request.
LEMMA BeginType ==
    ASSUME NEW p \in Proposals, NEW g \in BOOLEAN,
           Begin([proposal |-> p, granted |-> g, active |-> Active(p.customer)])
    PROVE  /\ EngineTypeOK' /\ at' = 1
           /\ request' = [proposal |-> p, granted |-> g, active |-> Active(p.customer)]
  <1>1. p \in Proposal /\ Active(p.customer) \in BOOLEAN
    BY ProposalsAssumption, ActiveIsBoolean
  <1>2. request' \in Request
    BY <1>1 DEF Begin, Request
  <1>3. QED
    BY <1>2, Decisions DEF Begin, EngineTypeOK, Done, RiskLevel, ApprovalType

LEMMA AnsweredType ==
    ASSUME DeskTypeOK, NEW t \in Task, NEW user \in DOMAIN User,
           NEW verdict \in {"APPROVED", "REJECTED"}
    PROVE  /\ Answered(t, verdict, user) \in
                [Task -> [status : {"NONE", "PENDING", "APPROVED", "REJECTED", "EXPIRED"},
                          type : ApprovalType, by : DOMAIN User \cup {None}]]
           /\ \A u \in Task : u # t => Answered(t, verdict, user)[u] = approval[u]
           /\ Answered(t, verdict, user)[t]
                = [status |-> verdict, type |-> approval[t].type, by |-> user]
  BY DEF DeskTypeOK, Answered

\* Closing a session keeps the types of what it does not write.
LEMMA CloseType ==
    ASSUME DeskTypeOK, NEW t \in Task, NEW how \in {"WAITING_APPROVAL"} \cup TERMINAL, Close(t, how)
    PROVE  /\ EngineTypeOK'
           /\ (status \in [Task -> {"ABSENT", "WAITING_APPROVAL"} \cup TERMINAL])'
           /\ (asked \in [Task -> Proposals \cup {None}])' /\ (overdue \subseteq Task)'
           /\ (serving \in Task \cup {None} /\ approver \in DOMAIN User \cup {None})'
  BY DEF DeskTypeOK, EngineTypeOK, Close, Done

LEMMA DecidedType ==
    ASSUME DeskTypeOK, NEW t \in Task
    PROVE  Decided(t) \in [Task -> [status : {"NONE", "PENDING", "APPROVED", "REJECTED", "EXPIRED"},
                                    type : ApprovalType, by : DOMAIN User \cup {None}]]
  BY AnsweredType DEF Decided, DeskTypeOK

\* Every step keeps the types.
LEMMA DeskTypes == DeskTypeOK /\ RowsAgree /\ [Next]_vars => DeskTypeOK'
  <1> SUFFICES ASSUME DeskTypeOK, RowsAgree, [Next]_vars PROVE DeskTypeOK'
    OBVIOUS
  <1> USE DEF DeskTypeOK
  <1>a. "FAILED" \in TERMINAL /\ "CANCELLED" \in TERMINAL /\ "MANUAL_REVIEW" \in TERMINAL
        /\ "COMPLETED" \in TERMINAL
    BY DEF TERMINAL
  <1>b. EngineTypeOK /\ UNCHANGED engine => EngineTypeOK'
    BY DEF EngineTypeOK, engine
  <1>0. CASE UNCHANGED vars
    BY <1>0, <1>b DEF vars, desk
  <1>1. ASSUME NEW t \in Task, NEW proposed \in Proposals, StartTask(t, proposed) PROVE DeskTypeOK'
    <2>1. EngineTypeOK'
      BY <1>1, BeginType DEF StartTask
    <2>2. QED
      BY <1>1, <2>1 DEF StartTask
  <1>2. ASSUME NEW t \in Task, NEW user \in DOMAIN User, Approve(t, user) PROVE DeskTypeOK'
    <2>1. asked[t] \in Proposals
      BY <1>2 DEF Approve, RowsAgree
    <2>2. EngineTypeOK'
      BY <1>2, <2>1, BeginType DEF Approve
    <2>3. QED
      BY <1>2, <2>2 DEF Approve
  <1>3. ASSUME NEW t \in Task, NEW user \in DOMAIN User, Reject(t, user) PROVE DeskTypeOK'
    BY <1>a, <1>b, <1>3, AnsweredType DEF Reject
  <1>4. ASSUME NEW t \in Task, NEW user \in DOMAIN User, NEW verdict \in {"APPROVED", "REJECTED"},
               DecideLate(t, user, verdict)
        PROVE  DeskTypeOK'
    BY <1>b, <1>4, AnsweredType DEF DecideLate
  <1>5. ASSUME NEW t \in Task, CancelTask(t) PROVE DeskTypeOK'
    BY <1>a, <1>b, <1>5 DEF CancelTask
  <1>6. ASSUME NEW t \in Task, ResumeExpired(t) PROVE DeskTypeOK'
    BY <1>a, <1>b, <1>6 DEF ResumeExpired
  <1>7. ASSUME NEW t \in Task, ApprovalExpires(t) PROVE DeskTypeOK'
    BY <1>b, <1>7 DEF ApprovalExpires
  <1>8. ASSUME NEW t \in Task, Denied(t) PROVE DeskTypeOK'
    BY <1>a, <1>8, CloseType, DecidedType DEF Denied
  <1>9. ASSUME NEW t \in Task, LeftToHuman(t) PROVE DeskTypeOK'
    BY <1>a, <1>9, CloseType, DecidedType DEF LeftToHuman
  <1>10. ASSUME NEW t \in Task, RequestApproval(t) PROVE DeskTypeOK'
    <2>1. approval_type \in ApprovalType
      BY DEF EngineTypeOK
    <2>2. QED
      BY <1>10, <2>1, CloseType DEF RequestApproval
  <1>11. ASSUME NEW t \in Task, ExecuteFails(t) PROVE DeskTypeOK'
    BY <1>a, <1>11, CloseType, DecidedType DEF ExecuteFails
  <1>12. ASSUME NEW t \in Task, ExecuteElse(t) PROVE DeskTypeOK'
    BY <1>a, <1>12, CloseType, DecidedType DEF ExecuteElse
  <1>13. ASSUME NEW t \in Task, ApplyDiscount(t) PROVE DeskTypeOK'
    BY <1>a, <1>13, CloseType, DecidedType DEF ApplyDiscount
  <1>14. CASE SweepExpiredApprovals
    <2>1. \A t \in Task : Expired(approval[t]) \in
            [status : {"NONE", "PENDING", "APPROVED", "REJECTED", "EXPIRED"},
             type : ApprovalType, by : DOMAIN User \cup {None}]
      BY DEF Expired
    <2>2. QED
      BY <1>b, <1>14, <2>1 DEF SweepExpiredApprovals
  <1>15. CASE RollBack
    <2>1. EngineTypeOK'
      BY <1>15 DEF RollBack, EngineTypeOK, Done
    <2>2. asked' \in [Task -> Proposals \cup {None}]
      <3>1. [asked EXCEPT ![serving] = None] \in [Task -> Proposals \cup {None}]
        OBVIOUS
      <3>2. QED
        BY <1>15, <3>1 DEF RollBack
    <2>3. QED
      BY <1>15, <2>1, <2>2 DEF RollBack
  <1>16. CASE Evaluate
    BY <1>16, PolicyStep DEF Evaluate, desk
  <1>17. QED
    BY <1>0, <1>1, <1>2, <1>3, <1>4, <1>5, <1>6, <1>7, <1>8, <1>9, <1>10, <1>11, <1>12, <1>13,
       <1>14, <1>15, <1>16 DEF Next

-----------------------------------------------------------------------------
(* What a step may touch.                                                    *)

\* The task of the open session is new, or waits for the approval being decided.
LEMMA Serving ==
    ASSUME DeskIsConsistent, at # 0
    PROVE  /\ serving \in Task /\ status[serving] \in {"ABSENT", "WAITING_APPROVAL"}
           /\ discount[serving] = "none" /\ asked[serving] \in Proposals
           /\ proposal = asked[serving]
  <1>1. serving \in Task /\ status[serving] \in {"ABSENT", "WAITING_APPROVAL"}
        /\ proposal = asked[serving]
    BY DEF DeskIsConsistent, DeskTypeOK, SessionIsSound
  <1>2. discount[serving] = "none" /\ asked[serving] \in Proposals
    BY <1>1 DEF DeskIsConsistent, DeskTypeOK, RowsAgree
  <1>3. QED
    BY <1>1, <1>2

\* Closing a session changes the row of its task only.
LEMMA CloseFrame ==
    ASSUME DeskIsConsistent, NEW t \in Task, serving = t, at # 0,
           NEW how \in {"WAITING_APPROVAL"} \cup TERMINAL, Close(t, how)
    PROVE  /\ status'[t] = how /\ \A u \in Task : u # t => status'[u] = status[u]
           /\ at' = 0 /\ serving' = None /\ asked' = asked
  BY DEF DeskIsConsistent, DeskTypeOK, Close

LEMMA DecidedFrame ==
    ASSUME DeskIsConsistent, NEW t \in Task, serving = t, at # 0
    PROVE  /\ \A u \in Task : u # t => Decided(t)[u] = approval[u]
           /\ Decided(t)[t].status # "PENDING" /\ Decided(t)[t].type = approval[t].type
           /\ approver # None => Decided(t)[t].status = "APPROVED" /\ Decided(t)[t].by = approver
  <1>1. CASE approver = None
    <2>1. status[t] = "ABSENT"
      BY <1>1 DEF DeskIsConsistent, SessionIsSound
    <2>2. approval[t].status # "PENDING"
      BY <2>1 DEF DeskIsConsistent, RowsAgree
    <2>3. QED
      BY <1>1, <2>2 DEF Decided
  <1>2. CASE approver # None
    <2>1. approver \in DOMAIN User /\ DeskTypeOK
      BY <1>2 DEF DeskIsConsistent, DeskTypeOK
    <2>2. /\ \A u \in Task : u # t => Answered(t, "APPROVED", approver)[u] = approval[u]
          /\ Answered(t, "APPROVED", approver)[t]
                = [status |-> "APPROVED", type |-> approval[t].type, by |-> approver]
      BY <2>1, AnsweredType, ZenonT(60)
    <2>3. QED
      BY <1>2, <2>2 DEF Decided
  <1>3. QED
    BY <1>1, <1>2

\* The action, the discount and the approval of a task that had a discount stay as
\* they are, whatever happens afterwards.
LEMMA DiscountsStay ==
    ASSUME DeskIsConsistent, [Next]_vars, NEW u \in Task, discount[u] # "none"
    PROVE  discount'[u] = discount[u] /\ asked'[u] = asked[u] /\ approval'[u] = approval[u]
  <1>a. status[u] \in {"COMPLETED", "FAILED", "MANUAL_REVIEW"} /\ approval[u].status # "PENDING"
    BY DEF DeskIsConsistent, RowsAgree
  <1>b. at # 0 => u # serving
    BY Serving
  <1>c. DeskTypeOK
    BY DEF DeskIsConsistent
  <1>d. \A t \in Task : serving = t /\ at # 0 /\ u # t => Decided(t)[u] = approval[u]
    BY DecidedFrame
  <1>0. CASE UNCHANGED vars
    BY <1>0 DEF vars, desk
  <1>1. ASSUME NEW t \in Task, NEW proposed \in Proposals, StartTask(t, proposed)
        PROVE  discount'[u] = discount[u] /\ asked'[u] = asked[u] /\ approval'[u] = approval[u]
    BY <1>1, <1>a, <1>c DEF StartTask, DeskTypeOK
  <1>2. ASSUME NEW t \in Task, NEW user \in DOMAIN User, Approve(t, user)
        PROVE  discount'[u] = discount[u] /\ asked'[u] = asked[u] /\ approval'[u] = approval[u]
    BY <1>2 DEF Approve
  <1>3. ASSUME NEW t \in Task, NEW user \in DOMAIN User, Reject(t, user)
        PROVE  discount'[u] = discount[u] /\ asked'[u] = asked[u] /\ approval'[u] = approval[u]
    <2>1. \A v \in Task : v # t => Answered(t, "REJECTED", user)[v] = approval[v]
      BY <1>c, AnsweredType, ZenonT(60)
    <2>2. u # t /\ discount' = discount /\ asked' = asked /\ approval' = Answered(t, "REJECTED", user)
      BY <1>3, <1>a DEF Reject
    <2>3. QED
      BY <2>1, <2>2
  <1>4. ASSUME NEW t \in Task, NEW user \in DOMAIN User, NEW verdict \in {"APPROVED", "REJECTED"},
               DecideLate(t, user, verdict)
        PROVE  discount'[u] = discount[u] /\ asked'[u] = asked[u] /\ approval'[u] = approval[u]
    <2>1. \A v \in Task : v # t => Answered(t, verdict, user)[v] = approval[v]
      BY <1>c DEF Answered, DeskTypeOK
    <2>2. QED
      <3>1. approval[t].status = "PENDING"
        BY <1>4 DEF DecideLate, MayDecide
      <3>2. u # t
        BY <1>a, <3>1
      <3>3. QED
        BY <1>4, <2>1, <3>2 DEF DecideLate
  <1>5. ASSUME NEW t \in Task, CancelTask(t) \/ ResumeExpired(t) \/ ApprovalExpires(t)
        PROVE  discount'[u] = discount[u] /\ asked'[u] = asked[u] /\ approval'[u] = approval[u]
    BY <1>5 DEF CancelTask, ResumeExpired, ApprovalExpires
  <1>6. ASSUME NEW t \in Task, Denied(t) \/ LeftToHuman(t) \/ ExecuteFails(t) \/ ExecuteElse(t)
        PROVE  discount'[u] = discount[u] /\ asked'[u] = asked[u] /\ approval'[u] = approval[u]
    BY <1>6, <1>b, <1>d DEF Denied, LeftToHuman, ExecuteFails, ExecuteElse, Close, Done
  <1>7. ASSUME NEW t \in Task, RequestApproval(t)
        PROVE  discount'[u] = discount[u] /\ asked'[u] = asked[u] /\ approval'[u] = approval[u]
    BY <1>7, <1>b, <1>c DEF RequestApproval, Close, Done, DeskTypeOK
  <1>8. ASSUME NEW t \in Task, ApplyDiscount(t)
        PROVE  discount'[u] = discount[u] /\ asked'[u] = asked[u] /\ approval'[u] = approval[u]
    BY <1>8, <1>b, <1>c, <1>d DEF ApplyDiscount, Close, Done, DeskTypeOK
  <1>9. CASE SweepExpiredApprovals
    BY <1>9, <1>a, <1>c DEF SweepExpiredApprovals, DeskTypeOK
  <1>10. CASE RollBack
    BY <1>10, <1>b, <1>c DEF RollBack, DeskTypeOK
  <1>11. CASE Evaluate
    BY <1>11 DEF Evaluate, desk
  <1>12. QED
    BY <1>0, <1>1, <1>2, <1>3, <1>4, <1>5, <1>6, <1>7, <1>8, <1>9, <1>10, <1>11 DEF Next

\* Only an allowed discount makes one.
LEMMA OnlyApplyDiscount ==
    ASSUME DeskIsConsistent, [Next]_vars, NEW u \in Task, discount[u] = "none", discount'[u] # "none"
    PROVE  ApplyDiscount(u)
  <1>a. DeskTypeOK
    BY DEF DeskIsConsistent
  <1>1. ASSUME NEW t \in Task, ApplyDiscount(t) PROVE t = u
    BY <1>1, <1>a DEF ApplyDiscount, DeskTypeOK
  <1>2. discount' # discount
    OBVIOUS
  <1>3. QED
    BY <1>1, <1>2 DEF Next, vars, desk, StartTask, Approve, Reject, DecideLate, CancelTask,
                      SweepExpiredApprovals, ResumeExpired, ApprovalExpires, Denied, LeftToHuman,
                      RequestApproval, ExecuteFails, ExecuteElse, RollBack, Evaluate

-----------------------------------------------------------------------------
(* The rows agree.                                                           *)

\* Closing a session in a way that suits its approval keeps the rows in agreement.
LEMMA CloseRows ==
    ASSUME DeskIsConsistent, NEW t \in Task, serving = t, at # 0,
           NEW how \in {"WAITING_APPROVAL"} \cup TERMINAL, Close(t, how),
           \A u \in Task : u # t => approval'[u] = approval[u] /\ discount'[u] = discount[u],
           discount'[t] # "none" => how \in {"COMPLETED", "FAILED", "MANUAL_REVIEW"},
           approval'[t].status = "PENDING" <=> how = "WAITING_APPROVAL"
    PROVE  RowsAgree'
  <1>1. /\ status'[t] = how /\ \A u \in Task : u # t => status'[u] = status[u]
        /\ serving' = None /\ asked' = asked
    BY CloseFrame
  <1>2. asked[t] # None /\ how # "ABSENT" /\ None \notin Task
    BY Serving, NoneAssumption DEF TERMINAL
  <1>3. ASSUME NEW u \in Task, u # t
        PROVE  /\ asked'[u] = None <=> status'[u] = "ABSENT" /\ serving' # u
               /\ discount'[u] # "none" => status'[u] \in {"COMPLETED", "FAILED", "MANUAL_REVIEW"}
               /\ approval'[u].status = "PENDING" => status'[u] \in {"WAITING_APPROVAL", "CANCELLED"}
               /\ status'[u] = "WAITING_APPROVAL" => approval'[u].status \in {"PENDING", "EXPIRED"}
    BY <1>1, <1>2, <1>3 DEF DeskIsConsistent, RowsAgree
  <1>4. /\ asked'[t] = None <=> status'[t] = "ABSENT" /\ serving' # t
        /\ discount'[t] # "none" => status'[t] \in {"COMPLETED", "FAILED", "MANUAL_REVIEW"}
        /\ approval'[t].status = "PENDING" => status'[t] \in {"WAITING_APPROVAL", "CANCELLED"}
        /\ status'[t] = "WAITING_APPROVAL" => approval'[t].status \in {"PENDING", "EXPIRED"}
    BY <1>1, <1>2
  <1>5. QED
    BY <1>3, <1>4 DEF RowsAgree

\* The statuses a session may be closed with.
LEMMA Terminal ==
    /\ "COMPLETED" \in TERMINAL /\ "FAILED" \in TERMINAL /\ "MANUAL_REVIEW" \in TERMINAL
    /\ "CANCELLED" \in TERMINAL /\ "WAITING_APPROVAL" \notin TERMINAL /\ "ABSENT" \notin TERMINAL
  BY DEF TERMINAL

LEMMA RowsStep == DeskIsConsistent /\ [Next]_vars => RowsAgree'
  <1> SUFFICES ASSUME DeskIsConsistent, [Next]_vars PROVE RowsAgree'
    OBVIOUS
  <1>a. DeskTypeOK /\ RowsAgree
    BY DEF DeskIsConsistent
  <1>b. at = 0 => serving = None
    BY DEF DeskIsConsistent, SessionIsSound
  <1>c. None \notin Task /\ None \notin Proposals
    BY NoneAssumption
  <1>d. \A t \in Task : serving = t /\ at # 0 =>
          /\ \A u \in Task : u # t => Decided(t)[u] = approval[u]
          /\ Decided(t)[t].status # "PENDING"
    BY DecidedFrame
  <1>0. CASE UNCHANGED vars
    BY <1>0, <1>a DEF vars, desk, RowsAgree
  <1>1. ASSUME NEW t \in Task, NEW proposed \in Proposals, StartTask(t, proposed) PROVE RowsAgree'
    BY <1>1, <1>a, <1>b, <1>c DEF StartTask, RowsAgree, DeskTypeOK
  <1>2. ASSUME NEW t \in Task, NEW user \in DOMAIN User, Approve(t, user) PROVE RowsAgree'
    BY <1>2, <1>a, <1>b, <1>c DEF Approve, RowsAgree
  <1>3. ASSUME NEW t \in Task, NEW user \in DOMAIN User, Reject(t, user) PROVE RowsAgree'
    <2>1. /\ \A u \in Task : u # t => Answered(t, "REJECTED", user)[u] = approval[u]
          /\ Answered(t, "REJECTED", user)[t].status = "REJECTED"
      BY <1>a DEF Answered, DeskTypeOK
    <2>2. /\ status'[t] = "FAILED" /\ \A u \in Task : u # t => status'[u] = status[u]
          /\ asked' = asked /\ discount' = discount /\ serving' = serving /\ serving = None
          /\ approval' = Answered(t, "REJECTED", user) /\ status[t] = "WAITING_APPROVAL"
      BY <1>3, <1>a, <1>b DEF Reject, DeskTypeOK
    <2>3. QED
      BY <2>1, <2>2, <1>a, <1>c DEF RowsAgree
  <1>4. ASSUME NEW t \in Task, NEW user \in DOMAIN User, NEW verdict \in {"APPROVED", "REJECTED"},
               DecideLate(t, user, verdict)
        PROVE  RowsAgree'
    <2>1. /\ \A u \in Task : u # t => Answered(t, verdict, user)[u] = approval[u]
          /\ Answered(t, verdict, user)[t].status # "PENDING"
      BY <1>a DEF Answered, DeskTypeOK
    <2>2. /\ UNCHANGED <<status, asked, discount, serving>> /\ status[t] # "WAITING_APPROVAL"
          /\ approval' = Answered(t, verdict, user)
      BY <1>4, Terminal DEF DecideLate
    <2>3. QED
      BY <2>1, <2>2, <1>a DEF RowsAgree
  <1>5. ASSUME NEW t \in Task, CancelTask(t) PROVE RowsAgree'
    BY <1>5, <1>a, <1>b, <1>c DEF CancelTask, RowsAgree, DeskTypeOK
  <1>6. ASSUME NEW t \in Task, ResumeExpired(t) PROVE RowsAgree'
    BY <1>6, <1>a, <1>b, <1>c DEF ResumeExpired, RowsAgree, DeskTypeOK
  <1>7. ASSUME NEW t \in Task, ApprovalExpires(t) PROVE RowsAgree'
    BY <1>7, <1>a DEF ApprovalExpires, RowsAgree
  <1>8. ASSUME NEW t \in Task, Denied(t) \/ ExecuteFails(t) PROVE RowsAgree'
    BY <1>8, <1>d, Terminal, CloseRows DEF Denied, ExecuteFails, Done
  <1>9. ASSUME NEW t \in Task, LeftToHuman(t) PROVE RowsAgree'
    BY <1>9, <1>d, Terminal, CloseRows DEF LeftToHuman, Done
  <1>10. ASSUME NEW t \in Task, ExecuteElse(t) PROVE RowsAgree'
    BY <1>10, <1>d, Terminal, CloseRows DEF ExecuteElse, Done
  <1>11. ASSUME NEW t \in Task, RequestApproval(t) PROVE RowsAgree'
    <2>1. serving = t /\ at # 0 /\ Close(t, "WAITING_APPROVAL") /\ discount' = discount
          /\ discount[t] = "none"
      BY <1>11, Serving DEF RequestApproval, Done
    <2>2. /\ \A u \in Task : u # t => approval'[u] = approval[u]
          /\ approval'[t].status = "PENDING"
      BY <1>11, <1>a DEF RequestApproval, DeskTypeOK
    <2>3. QED
      BY <2>1, <2>2, CloseRows
  <1>12. ASSUME NEW t \in Task, ApplyDiscount(t) PROVE RowsAgree'
    <2>1. serving = t /\ at # 0 /\ approval' = Decided(t)
      BY <1>12 DEF ApplyDiscount, Done
    <2>2. \A u \in Task : u # t => discount'[u] = discount[u]
      BY <1>12, <1>a DEF ApplyDiscount, DeskTypeOK
    <2>3. \/ Close(t, "COMPLETED") \/ Close(t, "MANUAL_REVIEW") \/ Close(t, "FAILED")
      BY <1>12 DEF ApplyDiscount
    <2>4. QED
      BY <2>1, <2>2, <2>3, <1>d, Terminal, CloseRows
  <1>13. CASE SweepExpiredApprovals
    BY <1>13, <1>a DEF SweepExpiredApprovals, RowsAgree, DeskTypeOK, Expired
  <1>14. CASE RollBack
    <2>1. serving \in Task /\ asked[serving] # None
      BY <1>14, <1>c, Serving DEF RollBack
    <2>2. QED
      BY <1>14, <2>1, <1>a, <1>c DEF RollBack, RowsAgree, DeskTypeOK
  <1>15. CASE Evaluate
    BY <1>15, <1>a DEF Evaluate, desk, RowsAgree
  <1>16. QED
    BY <1>0, <1>1, <1>2, <1>3, <1>4, <1>5, <1>6, <1>7, <1>8, <1>9, <1>10, <1>11, <1>12, <1>13,
       <1>14, <1>15 DEF Next

-----------------------------------------------------------------------------
(* An open session stays sound while its policies run, whatever else it is.  *)

\* The facts a session begins on are those of the tables it leaves.
LEMMA SessionStep == DeskIsConsistent /\ [Next]_vars => SessionIsSound'
  <1> SUFFICES ASSUME DeskIsConsistent, [Next]_vars PROVE SessionIsSound'
    OBVIOUS
  <1>a. DeskTypeOK /\ RowsAgree /\ SessionIsSound
    BY DEF DeskIsConsistent
  <1>b. at = 0 => serving = None
    BY <1>a DEF SessionIsSound
  <1>c. None \notin Task /\ None \notin Proposals /\ None \notin DOMAIN User
    BY NoneAssumption
  <1>d. at' = 0 /\ serving' = None => SessionIsSound'
    BY DEF SessionIsSound
  <1>0. CASE UNCHANGED vars
    BY <1>0, <1>a DEF vars, engine, desk, SessionIsSound, proposal, Active, Holds, MayDecide
  <1>1. ASSUME NEW t \in Task, NEW proposed \in Proposals, StartTask(t, proposed) PROVE SessionIsSound'
    <2>1. /\ at' = 1 /\ serving' = t /\ approver' = None /\ status' = status /\ status[t] = "ABSENT"
          /\ request' = [proposal |-> proposed, granted |-> FALSE, active |-> Active(proposed.customer)]
          /\ asked' = [asked EXCEPT ![t] = proposed] /\ discount' = discount
      BY <1>1, BeginType DEF StartTask
    <2>2. discount[t] = "none" /\ asked'[t] = proposed
      BY <1>a, <2>1 DEF RowsAgree, DeskTypeOK
    <2>3. \A u \in Task : Holds(u, proposed.customer)' <=> Holds(u, proposed.customer)
      BY <1>a, <2>1, <2>2 DEF Holds, DeskTypeOK
    <2>4. Active(proposed.customer)' = Active(proposed.customer)
      BY <2>3 DEF Active
    <2>5. QED
      BY <2>1, <2>2, <2>4, <1>c DEF SessionIsSound, proposal
  <1>2. ASSUME NEW t \in Task, NEW user \in DOMAIN User, Approve(t, user) PROVE SessionIsSound'
    <2>1. asked[t] \in Proposals
      BY <1>2, <1>a DEF Approve, RowsAgree, DeskTypeOK
    <2>2. /\ at' = 1 /\ serving' = t /\ approver' = user /\ status[t] = "WAITING_APPROVAL"
          /\ request' = [proposal |-> asked[t], granted |-> TRUE, active |-> Active(asked[t].customer)]
          /\ UNCHANGED <<status, asked, approval, discount, overdue>> /\ MayDecide(t, user)
      BY <1>2, <2>1, BeginType DEF Approve
    <2>3. MayDecide(t, user)' /\ Active(asked[t].customer)' = Active(asked[t].customer)
      BY <2>2 DEF MayDecide, Active, Holds
    <2>4. QED
      BY <2>2, <2>3, <1>c DEF SessionIsSound, proposal
  <1>3. ASSUME NEW t \in Task, NEW user \in DOMAIN User,
               \/ Reject(t, user)
               \/ \E verdict \in {"APPROVED", "REJECTED"} : DecideLate(t, user, verdict)
        PROVE  SessionIsSound'
    BY <1>3, <1>b, <1>d DEF Reject, DecideLate, engine
  <1>4. ASSUME NEW t \in Task, CancelTask(t) \/ ResumeExpired(t) \/ ApprovalExpires(t)
        PROVE  SessionIsSound'
    BY <1>4, <1>b, <1>d DEF CancelTask, ResumeExpired, ApprovalExpires, engine
  <1>5. ASSUME NEW t \in Task,
               \/ Denied(t) \/ LeftToHuman(t) \/ RequestApproval(t)
               \/ ExecuteFails(t) \/ ExecuteElse(t) \/ ApplyDiscount(t)
        PROVE  SessionIsSound'
    BY <1>5, <1>d DEF Denied, LeftToHuman, RequestApproval, ExecuteFails, ExecuteElse,
                      ApplyDiscount, Close
  <1>6. CASE SweepExpiredApprovals
    BY <1>6, <1>b, <1>d DEF SweepExpiredApprovals, engine
  <1>7. CASE RollBack
    BY <1>7, <1>d DEF RollBack
  <1>8. CASE Evaluate
    <2>1. at # 0 /\ at' # 0 /\ UNCHANGED desk /\ request' = request
      BY <1>8, <1>a, PolicyStep DEF Evaluate, NextPolicy, DeskTypeOK, Done
    <2>2. proposal' = proposal
      BY <2>1 DEF proposal
    <2>3. \A c : Active(c)' = Active(c)
      BY <2>1 DEF Active, Holds, desk
    <2>4. MayDecide(serving, approver)' = MayDecide(serving, approver)
      BY <2>1 DEF MayDecide, desk
    <2>5. QED
      BY <1>a, <2>1, <2>2, <2>3, <2>4 DEF SessionIsSound, desk
  <1>9. QED
    BY <1>0, <1>1, <1>2, <1>3, <1>4, <1>5, <1>6, <1>7, <1>8 DEF Next

\* The tables of the desk hang together, for any number of tasks and any policies'
\* tables: DeskIsConsistent is inductive.
THEOREM DeskConsistent == Spec => []DeskIsConsistent
  <1>1. Init => DeskIsConsistent
    <2> SUFFICES ASSUME Init PROVE DeskIsConsistent
      OBVIOUS
    <2>1. request \in Request
      BY ProposalsAssumption DEF Init, Request
    <2>2. EngineTypeOK
      BY <2>1, Decisions DEF Init, EngineTypeOK, Done, RiskLevel, ApprovalType
    <2>3. DeskTypeOK
      BY <2>2 DEF Init, DeskTypeOK, NoApproval, ApprovalType
    <2>4. RowsAgree /\ SessionIsSound
      BY NoneAssumption DEF Init, RowsAgree, SessionIsSound, NoApproval
    <2>5. QED
      BY <2>3, <2>4 DEF DeskIsConsistent
  <1>2. DeskIsConsistent /\ [Next]_vars => DeskIsConsistent'
    BY DeskTypes, RowsStep, SessionStep DEF DeskIsConsistent
  <1>3. QED
    BY <1>1, <1>2, PTL DEF Spec

-----------------------------------------------------------------------------
(* The chain of policies comes to its table.                                 *)

\* What a policy refuses is forbidden, and what is forbidden some policy refuses.
LEMMA Refusals ==
    ASSUME EngineTypeOK
    PROVE  Forbidden <=> \E i \in 1 .. 9 : policies[i].decision = "DENY"
  <1> DEFINE Denies(p) == p.decision = "DENY"
  <1> USE DEF allow, deny, manual_review, require_approval, Result
  <1>1. Denies(IdentityPolicy) <=>
          \/ User[proposal.user].roles = {} /\ User[proposal.user].perms = {}
          \/ Agent[proposal.agent].perms = {} /\ Agent[proposal.agent].tools = {}
          \/ is_write /\ Service[Tool[proposal.tool].service].readonly
    BY DEF IdentityPolicy
  <1>2. Denies(AgentPermissionPolicy) <=>
          \/ ~registered \/ proposal.tool \notin Agent[proposal.agent].tools
          \/ risk_level > Agent[proposal.agent].max
    BY DEF AgentPermissionPolicy
  <1>3. Denies(ToolPermissionPolicy) <=>
          \/ ~(required \subseteq User[proposal.user].perms \cap Agent[proposal.agent].perms)
          \/ registered /\ ~(required \subseteq Service[Tool[proposal.tool].service].perms)
    BY DEF ToolPermissionPolicy, effective_permissions, required
  <1>4. Denies(ParameterPolicy) <=> ~registered \/ ~proposal.wellformed
    BY DEF ParameterPolicy
  <1>5. Denies(DataAccessPolicy) <=>
          /\ ~User[proposal.user].admin /\ User[proposal.user].scope # "*"
          /\ Customer[proposal.customer].department # "none"
          /\ ~(User[proposal.user].scope = "department"
               /\ User[proposal.user].department = Customer[proposal.customer].department)
    BY DEF DataAccessPolicy
  <1>6. Denies(SensitiveDataPolicy) <=> proposal.pii = "card"
    BY DEF SensitiveDataPolicy
  <1>7. Denies(BusinessRulePolicy) <=>
          proposal.tool = "apply_discount" /\ (request.active \/ proposal.rate > ManagerMax)
    BY DEF BusinessRulePolicy
  <1>8. ~Denies(RiskPolicy) /\ ~Denies(RateLimitPolicy)
    BY DEF RiskPolicy, RateLimitPolicy
  <1>9. (\E i \in 1 .. 9 : policies[i].decision = "DENY") <=>
          \/ Denies(IdentityPolicy) \/ Denies(AgentPermissionPolicy) \/ Denies(ToolPermissionPolicy)
          \/ Denies(ParameterPolicy) \/ Denies(DataAccessPolicy) \/ Denies(SensitiveDataPolicy)
          \/ Denies(BusinessRulePolicy) \/ Denies(RiskPolicy) \/ Denies(RateLimitPolicy)
    BY DEF policies
  <1> HIDE DEF Denies
  <1>10. QED
    BY <1>1, <1>2, <1>3, <1>4, <1>5, <1>6, <1>7, <1>8, <1>9 DEF Forbidden

\* Two policies leave an action to a human: the ones that are about undecidable actions.
LEMMA Reviews ==
    ASSUME EngineTypeOK
    PROVE  Undecidable <=> \E i \in 1 .. 9 : policies[i].decision = "MANUAL_REVIEW"
  <1> DEFINE Leaves(p) == p.decision = "MANUAL_REVIEW"
  <1> USE DEF allow, deny, manual_review, require_approval, Result
  <1>1. Leaves(DataAccessPolicy) <=>
          /\ ~User[proposal.user].admin /\ User[proposal.user].scope # "*"
          /\ Customer[proposal.customer].department = "none"
    BY DEF DataAccessPolicy
  <1>2. assessed >= CRITICAL <=> proposal.hint = CRITICAL \/ risk_level = CRITICAL
    <2>1. risk_level \in RiskLevel /\ proposal.hint \in RiskLevel
      BY Assessed
    <2>2. QED
      BY <2>1 DEF assessed, Higher, RiskLevel, MEDIUM, HIGH, CRITICAL
  <1>3. Leaves(RiskPolicy) <=> is_write /\ (assessed >= CRITICAL \/ proposal.confidence = "low")
    BY DEF RiskPolicy
  <1>4. /\ ~Leaves(IdentityPolicy) /\ ~Leaves(AgentPermissionPolicy) /\ ~Leaves(ToolPermissionPolicy)
        /\ ~Leaves(ParameterPolicy) /\ ~Leaves(SensitiveDataPolicy) /\ ~Leaves(BusinessRulePolicy)
        /\ ~Leaves(RateLimitPolicy)
    BY DEF IdentityPolicy, AgentPermissionPolicy, ToolPermissionPolicy, ParameterPolicy,
           SensitiveDataPolicy, BusinessRulePolicy, RateLimitPolicy
  <1>5. (\E i \in 1 .. 9 : policies[i].decision = "MANUAL_REVIEW") <=>
          \/ Leaves(IdentityPolicy) \/ Leaves(AgentPermissionPolicy) \/ Leaves(ToolPermissionPolicy)
          \/ Leaves(ParameterPolicy) \/ Leaves(DataAccessPolicy) \/ Leaves(SensitiveDataPolicy)
          \/ Leaves(BusinessRulePolicy) \/ Leaves(RiskPolicy) \/ Leaves(RateLimitPolicy)
    BY DEF policies
  <1> HIDE DEF Leaves
  <1>6. QED
    BY <1>1, <1>2, <1>3, <1>4, <1>5 DEF Undecidable

\* A reason for an approval, in a write.
Concern == proposal.rate > AutoMax \/ proposal.hint >= HIGH \/ risk_level >= HIGH \/ proposal.suspicious

LEMMA AssessedConcern == EngineTypeOK => (assessed >= HIGH <=> Concern)
  <1> SUFFICES ASSUME EngineTypeOK PROVE assessed >= HIGH <=> Concern
    OBVIOUS
  <1>1. risk_level \in RiskLevel /\ proposal.hint \in RiskLevel
    BY Assessed
  <1>2. proposal.rate \in Nat
    BY DEF EngineTypeOK, Request, Proposal, proposal
  <1>3. QED
    BY <1>1, <1>2, LimitsAssumption DEF assessed, Higher, RiskLevel, MEDIUM, HIGH, Concern

\* An approval is asked for by two policies, of a write and for a reason; and a policy
\* that neither refuses nor leaves the action to a human finds a high risk only then.
LEMMA Requests ==
    ASSUME EngineTypeOK, NEW i \in 1 .. 9
    PROVE  /\ policies[i].decision = "REQUIRE_APPROVAL" => is_write /\ Concern
           /\ policies[i].decision \in {"ALLOW", "REQUIRE_APPROVAL"} /\ policies[i].risk >= HIGH
                => Concern
  <1> DEFINE Sound(p) == /\ p.decision = "REQUIRE_APPROVAL" => is_write /\ Concern
                         /\ p.decision \in {"ALLOW", "REQUIRE_APPROVAL"} /\ p.risk >= HIGH => Concern
  <1> USE DEF allow, deny, manual_review, require_approval, Result, LOW, MEDIUM, HIGH
  <1>1. risk_level >= HIGH \/ assessed >= HIGH => Concern
    BY AssessedConcern DEF Concern
  <1>2. Sound(IdentityPolicy) /\ Sound(ToolPermissionPolicy) /\ Sound(ParameterPolicy)
    BY DEF IdentityPolicy, ToolPermissionPolicy, ParameterPolicy
  <1>3. Sound(DataAccessPolicy) /\ Sound(SensitiveDataPolicy) /\ Sound(RateLimitPolicy)
    BY DEF DataAccessPolicy, SensitiveDataPolicy, RateLimitPolicy
  <1>4. Sound(AgentPermissionPolicy)
    BY <1>1 DEF AgentPermissionPolicy
  <1>5. Sound(RiskPolicy)
    BY <1>1 DEF RiskPolicy
  <1>6. Sound(BusinessRulePolicy)
    <2>1. proposal.rate \in Nat
      BY DEF EngineTypeOK, Request, Proposal, proposal
    <2>2. proposal.tool = "apply_discount" => is_write
      BY TablesAssumption DEF is_write, registered
    <2>3. ~(proposal.rate <= self_service_max) => Concern
      BY <2>1, LimitsAssumption DEF self_service_max, Concern
    <2>4. QED
      BY <2>2, <2>3 DEF BusinessRulePolicy
  <1>7. policies[i] \in {IdentityPolicy, AgentPermissionPolicy, ToolPermissionPolicy, ParameterPolicy,
                         DataAccessPolicy, SensitiveDataPolicy, BusinessRulePolicy, RiskPolicy,
                         RateLimitPolicy}
    BY DEF policies
  <1> HIDE DEF Sound
  <1>8. Sound(policies[i])
    BY <1>2, <1>3, <1>4, <1>5, <1>6, <1>7
  <1>9. QED
    BY <1>8 DEF Sound

\* The policies but the last read nothing the engine changes.
LEMMA SamePolicies ==
    ASSUME request' = request
    PROVE  /\ \A i \in 1 .. 9 : policies[i]' = policies[i]
           /\ assessed' = assessed /\ Concern' = Concern /\ is_write' = is_write
  <1>1. proposal' = proposal
    BY DEF proposal
  <1>2. registered' = registered
    BY <1>1 DEF registered
  <1>3. risk_level' = risk_level /\ is_write' = is_write /\ required' = required
    BY <1>1, <1>2 DEF risk_level, is_write, required
  <1>4. assessed' = assessed /\ Concern' = Concern
    BY <1>1, <1>3 DEF assessed, Concern
  <1>5. IdentityPolicy' = IdentityPolicy
    BY <1>1, <1>3 DEF IdentityPolicy, allow, deny, Result
  <1>6. AgentPermissionPolicy' = AgentPermissionPolicy
    BY <1>1, <1>2, <1>3 DEF AgentPermissionPolicy, allow, deny, Result
  <1>7. ToolPermissionPolicy' = ToolPermissionPolicy
    BY <1>1, <1>2, <1>3 DEF ToolPermissionPolicy, effective_permissions, allow, deny, Result
  <1>8. ParameterPolicy' = ParameterPolicy
    BY <1>1, <1>2 DEF ParameterPolicy, allow, deny, Result
  <1>9. DataAccessPolicy' = DataAccessPolicy /\ SensitiveDataPolicy' = SensitiveDataPolicy
    BY <1>1 DEF DataAccessPolicy, SensitiveDataPolicy, allow, deny, manual_review, Result
  <1>10. BusinessRulePolicy' = BusinessRulePolicy
    BY <1>1 DEF BusinessRulePolicy, self_service_max, allow, deny, require_approval, Result
  <1>11. RiskPolicy' = RiskPolicy /\ RateLimitPolicy' = RateLimitPolicy
    BY <1>1, <1>3, <1>4 DEF RiskPolicy, RateLimitPolicy, allow, manual_review, Result
  <1>12. QED
    BY <1>3, <1>4, <1>5, <1>6, <1>7, <1>8, <1>9, <1>10, <1>11 DEF policies

\* What the loop knows after the first policies; the decision it has and the risk it
\* carries say what they found.
ChainInv ==
    at # 0 =>
      /\ decision = "DENY" => at = Done /\ \E i \in 1 .. 9 : policies[i].decision = "DENY"
      /\ decision # "DENY" => \A i \in 1 .. 9 : i < at => policies[i].decision # "DENY"
      /\ decision = "MANUAL_REVIEW" => \E i \in 1 .. 9 : policies[i].decision = "MANUAL_REVIEW"
      /\ decision \in {"ALLOW", "REQUIRE_APPROVAL"} =>
           \A i \in 1 .. 9 : i < at => policies[i].decision # "MANUAL_REVIEW"
      /\ decision = "REQUIRE_APPROVAL" => ~request.granted /\ is_write /\ Concern
      /\ decision \in {"ALLOW", "REQUIRE_APPROVAL"} /\ highest_risk >= HIGH => Concern
      /\ at > 8 /\ decision # "DENY" => highest_risk >= assessed
      /\ at = Done /\ decision = "ALLOW" /\ is_write /\ Concern => request.granted

\* The last policy refuses nothing and leaves nothing to a human; it asks for an
\* approval of a write of high risk that has none, whatever found the risk.
LEMMA LastPolicy ==
    ASSUME EngineTypeOK
    PROVE  /\ policies[10].decision \in {"ALLOW", "REQUIRE_APPROVAL"}
           /\ policies[10].decision = "REQUIRE_APPROVAL" =>
                ~request.granted /\ is_write /\ (highest_risk >= HIGH \/ Concern)
           /\ policies[10].decision = "ALLOW" /\ is_write /\ highest_risk >= HIGH => request.granted
           /\ policies[10].risk >= HIGH => highest_risk >= HIGH \/ Concern
  <1> DEFINE effective_risk == Higher(highest_risk, Higher(risk_level, proposal.hint))
  <1>1. highest_risk \in RiskLevel /\ risk_level \in RiskLevel /\ proposal.hint \in RiskLevel
    BY Assessed DEF EngineTypeOK
  <1>2. /\ effective_risk \in RiskLevel
        /\ effective_risk >= HIGH <=> highest_risk >= HIGH \/ risk_level >= HIGH \/ proposal.hint >= HIGH
    BY <1>1 DEF Higher, RiskLevel, HIGH
  <1>3. policies[10] =
          IF request.granted \/ ~is_write THEN allow(0)
          ELSE IF effective_risk >= HIGH
          THEN require_approval(IF effective_risk = CRITICAL THEN "COMPLIANCE" ELSE "MANAGER", effective_risk)
          ELSE allow(effective_risk)
    BY DEF policies, ApprovalPolicy
  <1> HIDE DEF effective_risk
  <1>4. QED
    BY <1>2, <1>3 DEF allow, require_approval, Result, Concern, HIGH

\* One policy keeps what the loop knows.
LEMMA ChainStep == EngineTypeOK /\ ChainInv /\ NextPolicy => ChainInv'
  <1> SUFFICES ASSUME EngineTypeOK, ChainInv, NextPolicy PROVE ChainInv'
    OBVIOUS
  <1> DEFINE p == policies[at]
             r == Downgraded(policies[at])
  <1>1. at \in 1 .. 10 /\ p \in Verdicts /\ r \in Verdicts /\ r.risk = p.risk
        /\ (~(request.granted /\ p.decision = "REQUIRE_APPROVAL") => r = p)
        /\ (request.granted /\ p.decision = "REQUIRE_APPROVAL" => r.decision = "ALLOW")
    BY PolicyStep, DowngradedType DEF Downgraded, allow, Result
  <1>2. /\ decision' = Stronger(decision, r.decision) /\ highest_risk' = Higher(highest_risk, p.risk)
        /\ at' = (IF r.decision = "DENY" THEN Done ELSE at + 1) /\ request' = request
    BY <1>1 DEF NextPolicy
  <1>3. /\ \A i \in 1 .. 9 : policies[i]' = policies[i]
        /\ assessed' = assessed /\ Concern' = Concern /\ is_write' = is_write
    BY <1>2, SamePolicies
  <1>4. decision \in Decision /\ p.decision \in Decision /\ r.decision \in Decision
        /\ highest_risk \in RiskLevel /\ p.risk \in RiskLevel /\ assessed \in RiskLevel
    BY <1>1, Assessed DEF EngineTypeOK, Verdicts
  <1>5. at # 0 /\ decision # "DENY"
    BY <1>1 DEF ChainInv, Done
  <1>6. /\ decision' \in {decision, r.decision}
        /\ decision' = "DENY" <=> r.decision = "DENY"
        /\ decision' = "ALLOW" => decision = "ALLOW" /\ r.decision = "ALLOW"
        /\ decision' = "REQUIRE_APPROVAL" => decision # "MANUAL_REVIEW" /\ r.decision # "MANUAL_REVIEW"
    BY <1>2, <1>4, <1>5, Decisions DEF Stronger
  <1>7. /\ highest_risk' >= highest_risk /\ highest_risk' >= p.risk
        /\ highest_risk' \in {highest_risk, p.risk}
    BY <1>2, <1>4 DEF Higher, RiskLevel
  <1>8. r.decision = "DENY" <=> p.decision = "DENY"
    BY <1>1
  <1>9. r.decision = "MANUAL_REVIEW" <=> p.decision = "MANUAL_REVIEW"
    BY <1>1
  <1>10. r.decision = "REQUIRE_APPROVAL" <=> p.decision = "REQUIRE_APPROVAL" /\ ~request.granted
    BY <1>1
  <1>11. r.decision = "ALLOW" => p.decision \in {"ALLOW", "REQUIRE_APPROVAL"}
    BY <1>1
  <1>12. at \in 1 .. 9 => /\ p.decision = "REQUIRE_APPROVAL" => is_write /\ Concern
                          /\ p.decision \in {"ALLOW", "REQUIRE_APPROVAL"} /\ p.risk >= HIGH => Concern
    BY Requests
  <1>13. at = 10 => /\ p.decision \in {"ALLOW", "REQUIRE_APPROVAL"}
                    /\ p.decision = "REQUIRE_APPROVAL" =>
                         ~request.granted /\ is_write /\ (highest_risk >= HIGH \/ Concern)
                    /\ p.decision = "ALLOW" /\ is_write /\ highest_risk >= HIGH => request.granted
                    /\ p.risk >= HIGH => highest_risk >= HIGH \/ Concern
    BY LastPolicy
  <1>14. at = 8 => p.risk >= assessed
    BY <1>4, Levels DEF policies, RiskPolicy, manual_review, allow, Result, HIGH, RiskLevel
  <1>15. Concern => assessed >= HIGH
    BY AssessedConcern
  <1>16. policies[at] = p
    OBVIOUS
  <1> HIDE DEF p, r
  <1>20. decision' = "DENY" => at' = Done /\ \E i \in 1 .. 9 : policies[i]'.decision = "DENY"
    <2>1. at = 10 => r.decision # "DENY"
      BY <1>8, <1>13
    <2>2. QED
      BY <1>1, <1>2, <1>3, <1>6, <1>8, <1>16, <2>1
  <1>21. decision' # "DENY" => at' = at + 1 /\ \A i \in 1 .. 9 : i < at' => policies[i]'.decision # "DENY"
    <2>1. \A i \in 1 .. 9 : i < at => policies[i].decision # "DENY"
      BY <1>5 DEF ChainInv
    <2>2. QED
      BY <1>1, <1>2, <1>3, <1>6, <1>8, <1>16, <2>1
  <1>22. decision' = "MANUAL_REVIEW" => \E i \in 1 .. 9 : policies[i]'.decision = "MANUAL_REVIEW"
    <2>1. at = 10 => r.decision # "MANUAL_REVIEW"
      BY <1>9, <1>13
    <2>2. decision = "MANUAL_REVIEW" => \E i \in 1 .. 9 : policies[i].decision = "MANUAL_REVIEW"
      BY <1>5 DEF ChainInv
    <2>3. QED
      BY <1>1, <1>3, <1>6, <1>9, <1>16, <2>1, <2>2
  <1>23. decision' \in {"ALLOW", "REQUIRE_APPROVAL"} =>
           /\ decision \in {"ALLOW", "REQUIRE_APPROVAL"} /\ r.decision \in {"ALLOW", "REQUIRE_APPROVAL"}
           /\ p.decision \in {"ALLOW", "REQUIRE_APPROVAL"} /\ at' = at + 1
    BY <1>2, <1>4, <1>5, <1>6, <1>8, <1>10, <1>11, Decisions
  <1>24. decision' \in {"ALLOW", "REQUIRE_APPROVAL"} =>
           \A i \in 1 .. 9 : i < at' => policies[i]'.decision # "MANUAL_REVIEW"
    <2>1. decision \in {"ALLOW", "REQUIRE_APPROVAL"} =>
            \A i \in 1 .. 9 : i < at => policies[i].decision # "MANUAL_REVIEW"
      BY <1>5 DEF ChainInv
    <2>2. QED
      BY <1>1, <1>3, <1>16, <1>23, <2>1
  <1>25. decision \in {"ALLOW", "REQUIRE_APPROVAL"} /\ highest_risk >= HIGH => Concern
    BY <1>5 DEF ChainInv
  <1>26. decision' = "REQUIRE_APPROVAL" => ~request'.granted /\ is_write' /\ Concern'
    <2>1. decision = "REQUIRE_APPROVAL" => ~request.granted /\ is_write /\ Concern
      BY <1>5 DEF ChainInv
    <2>2. decision' = "REQUIRE_APPROVAL" /\ r.decision = "REQUIRE_APPROVAL" =>
            ~request.granted /\ is_write /\ Concern
      BY <1>1, <1>10, <1>12, <1>13, <1>23, <1>25
    <2>3. QED
      BY <1>2, <1>3, <1>6, <2>1, <2>2
  <1>27. decision' \in {"ALLOW", "REQUIRE_APPROVAL"} /\ highest_risk' >= HIGH => Concern'
    BY <1>1, <1>3, <1>7, <1>12, <1>13, <1>23, <1>25
  <1>28. at' > 8 /\ decision' # "DENY" => highest_risk' >= assessed'
    <2>1. at > 8 => highest_risk >= assessed
      BY <1>5 DEF ChainInv
    <2>2. highest_risk' \in RiskLevel
      BY <1>4, <1>7
    <2>3. QED
      BY <1>1, <1>3, <1>4, <1>7, <1>14, <1>21, <2>1, <2>2 DEF RiskLevel
  <1>29. at' = Done /\ decision' = "ALLOW" /\ is_write' /\ Concern' => request'.granted
    <2>1. at > 8 => highest_risk >= assessed
      BY <1>5 DEF ChainInv
    <2>2. at = 10 /\ Concern => highest_risk >= HIGH
      BY <2>1, <1>4, <1>15 DEF RiskLevel, HIGH
    <2>3. at' = Done /\ decision' = "ALLOW" => at = 10 /\ r.decision = "ALLOW"
      BY <1>1, <1>6, <1>23 DEF Done
    <2>4. at = 10 /\ r.decision = "ALLOW" /\ is_write /\ highest_risk >= HIGH => request.granted
      BY <1>1, <1>11, <1>13
    <2>5. QED
      BY <1>2, <1>3, <2>2, <2>3, <2>4
  <1>30. QED
    BY <1>20, <1>21, <1>22, <1>24, <1>26, <1>27, <1>28, <1>29 DEF ChainInv

\* What the loop knows at its end is the table.
LEMMA TableAtDone == EngineTypeOK /\ ChainInv => ChainIsTable
  <1> SUFFICES ASSUME EngineTypeOK, ChainInv, at = Done
               PROVE  decision = (IF Forbidden THEN "DENY"
                                  ELSE IF Undecidable THEN "MANUAL_REVIEW"
                                  ELSE IF Delicate /\ ~request.granted THEN "REQUIRE_APPROVAL"
                                  ELSE "ALLOW")
    BY DEF ChainIsTable
  <1>1. at # 0 /\ decision \in {"ALLOW", "REQUIRE_APPROVAL", "MANUAL_REVIEW", "DENY"}
        /\ \A i \in 1 .. 9 : i < at
    BY Decisions DEF Done, EngineTypeOK
  <1>2. decision = "DENY" <=> Forbidden
    BY <1>1, Refusals DEF ChainInv
  <1>3. decision = "MANUAL_REVIEW" => Undecidable
    BY <1>1, Reviews DEF ChainInv
  <1>4. decision \in {"ALLOW", "REQUIRE_APPROVAL"} => ~Undecidable
    BY <1>1, Reviews DEF ChainInv
  <1>5. Delicate <=> is_write /\ Concern
    BY DEF Delicate, Concern
  <1>6. decision = "REQUIRE_APPROVAL" => Delicate /\ ~request.granted
    BY <1>1, <1>5 DEF ChainInv
  <1>7. decision = "ALLOW" => ~(Delicate /\ ~request.granted)
    BY <1>1, <1>5 DEF ChainInv
  <1>8. QED
    BY <1>1, <1>2, <1>3, <1>4, <1>6, <1>7

\* A step of the desk either is a step of the engine, or leaves no evaluation behind, or
\* begins one.
LEMMA ChainKept == DeskIsConsistent /\ ChainInv /\ [Next]_vars => ChainInv'
  <1> SUFFICES ASSUME DeskIsConsistent, ChainInv, [Next]_vars PROVE ChainInv'
    OBVIOUS
  <1>a. EngineTypeOK /\ DeskTypeOK /\ RowsAgree
    BY DEF DeskIsConsistent, DeskTypeOK
  <1>b. at' = 0 => ChainInv'
    BY DEF ChainInv
  <1>c. at' = 1 /\ decision' = "ALLOW" /\ highest_risk' = 0 => ChainInv'
    BY DEF ChainInv, Done, HIGH
  <1>0. CASE UNCHANGED vars
    <2>1. at' = at /\ decision' = decision /\ highest_risk' = highest_risk /\ request' = request
      BY <1>0 DEF vars, engine
    <2>2. /\ \A i \in 1 .. 9 : policies[i]' = policies[i]
          /\ assessed' = assessed /\ Concern' = Concern /\ is_write' = is_write
      BY <2>1, SamePolicies
    <2>3. QED
      BY <2>1, <2>2 DEF ChainInv
  <1>1. ASSUME NEW t \in Task, NEW proposed \in Proposals, StartTask(t, proposed) PROVE ChainInv'
    BY <1>1, <1>c DEF StartTask, Begin
  <1>2. ASSUME NEW t \in Task, NEW user \in DOMAIN User, Approve(t, user) PROVE ChainInv'
    BY <1>2, <1>c DEF Approve, Begin
  <1>3. ASSUME NEW t \in Task, NEW user \in DOMAIN User,
               \/ Reject(t, user)
               \/ \E verdict \in {"APPROVED", "REJECTED"} : DecideLate(t, user, verdict)
        PROVE  ChainInv'
    BY <1>3, <1>b DEF Reject, DecideLate, engine
  <1>4. ASSUME NEW t \in Task, CancelTask(t) \/ ResumeExpired(t) \/ ApprovalExpires(t)
        PROVE  ChainInv'
    BY <1>4, <1>b DEF CancelTask, ResumeExpired, ApprovalExpires, engine
  <1>5. ASSUME NEW t \in Task,
               \/ Denied(t) \/ LeftToHuman(t) \/ RequestApproval(t)
               \/ ExecuteFails(t) \/ ExecuteElse(t) \/ ApplyDiscount(t)
        PROVE  ChainInv'
    BY <1>5, <1>b DEF Denied, LeftToHuman, RequestApproval, ExecuteFails, ExecuteElse,
                      ApplyDiscount, Close
  <1>6. CASE SweepExpiredApprovals
    BY <1>6, <1>b DEF SweepExpiredApprovals, engine
  <1>7. CASE RollBack
    BY <1>7, <1>b DEF RollBack
  <1>8. CASE Evaluate
    BY <1>8, <1>a, ChainStep DEF Evaluate
  <1>9. QED
    BY <1>0, <1>1, <1>2, <1>3, <1>4, <1>5, <1>6, <1>7, <1>8 DEF Next

LEMMA ChainAlways == Spec => [](DeskIsConsistent /\ ChainInv)
  <1>1. Init => ChainInv
    BY DEF Init, ChainInv
  <1>2. QED
    BY <1>1, ChainKept, DeskConsistent, PTL DEF Spec

\* Whatever the tables and the proposals are, the ten policies come to the table.
THEOREM ChainTable == Spec => []ChainIsTable
  <1>1. DeskIsConsistent /\ ChainInv => ChainIsTable
    BY TableAtDone DEF DeskIsConsistent, DeskTypeOK
  <1>2. QED
    BY <1>1, ChainAlways, PTL

-----------------------------------------------------------------------------
(* Discounts.                                                                *)

\* What an allowed discount has behind it.
LEMMA AllowedDiscount ==
    ASSUME DeskIsConsistent, ChainIsTable, at = Done, decision = "ALLOW",
           proposal.tool = "apply_discount"
    PROVE  /\ ~Active(proposal.customer) /\ proposal.rate <= ManagerMax
           /\ \/ User[proposal.user].admin \/ User[proposal.user].scope = "*"
              \/ Customer[proposal.customer].department = "none"
              \/ User[proposal.user].department = Customer[proposal.customer].department
           /\ proposal.rate > AutoMax \/ proposal.hint >= HIGH \/ proposal.suspicious => request.granted
  <1>1. ~Forbidden /\ ~(Delicate /\ ~request.granted)
    BY DEF ChainIsTable
  <1>2. proposal.rate \in Nat /\ ManagerMax \in Nat
    BY LimitsAssumption DEF DeskIsConsistent, DeskTypeOK, EngineTypeOK, Request, Proposal, proposal
  <1>3. ~request.active /\ proposal.rate <= ManagerMax
    BY <1>1, <1>2 DEF Forbidden
  <1>4. is_write
    BY TablesAssumption DEF is_write, registered
  <1>5. \/ User[proposal.user].admin \/ User[proposal.user].scope = "*"
        \/ Customer[proposal.customer].department = "none"
        \/ User[proposal.user].department = Customer[proposal.customer].department
    BY <1>1 DEF Forbidden
  <1>6. request.active = Active(proposal.customer)
    BY DEF DeskIsConsistent, SessionIsSound, Done
  <1>7. QED
    BY <1>1, <1>3, <1>4, <1>5, <1>6 DEF Delicate

\* The first half of OneActiveDiscount.
OneEach == \A t, u \in Task : discount[t] = "ACTIVE" /\ Holds(u, asked[t].customer) => t = u

LEMMA OneEachStep == DeskIsConsistent /\ OneEach /\ [Next]_vars => OneEach'
  <1> SUFFICES ASSUME DeskIsConsistent, OneEach, [Next]_vars,
                      NEW t \in Task, NEW u \in Task,
                      discount'[t] = "ACTIVE", Holds(u, asked[t].customer)'
               PROVE  t = u
    BY DEF OneEach
  <1>1. /\ discount'[u] = "ACTIVE" /\ asked'[u] # None /\ asked'[u].customer = asked'[t].customer
    BY DEF Holds
  <1>2. ASSUME NEW w \in Task, discount[w] = "none", discount'[w] # "none"
        PROVE  serving = w /\ asked[w] = proposal /\ asked' = asked /\ ~Active(proposal.customer)
    BY <1>2, OnlyApplyDiscount, Serving DEF ApplyDiscount, Close, Done
  <1>3. ASSUME NEW w \in Task, discount[w] # "none", discount'[w] = "ACTIVE"
        PROVE  discount[w] = "ACTIVE" /\ asked'[w] = asked[w] /\ asked[w] # None
    <2>1. asked[w] # None
      BY <1>3 DEF DeskIsConsistent, RowsAgree
    <2>2. QED
      BY <1>3, <2>1, DiscountsStay
  <1>4. CASE discount[t] # "none" /\ discount[u] # "none"
    BY <1>1, <1>3, <1>4 DEF OneEach, Holds
  <1>5. CASE discount[t] = "none" /\ discount[u] = "none"
    BY <1>1, <1>2, <1>5
  <1>6. CASE discount[t] = "none" /\ discount[u] # "none"
    <2>1. asked[t] = proposal /\ asked' = asked /\ ~Active(proposal.customer)
      BY <1>2, <1>6
    <2>2. Holds(u, proposal.customer)
      BY <1>1, <1>3, <1>6, <2>1 DEF Holds
    <2>3. QED
      BY <2>1, <2>2 DEF Active
  <1>7. CASE discount[t] # "none" /\ discount[u] = "none"
    <2>1. asked[u] = proposal /\ asked' = asked /\ ~Active(proposal.customer)
      BY <1>1, <1>2, <1>7
    <2>2. Holds(t, proposal.customer)
      BY <1>1, <1>3, <1>7, <2>1 DEF Holds
    <2>3. QED
      BY <2>1, <2>2 DEF Active
  <1>8. QED
    BY <1>4, <1>5, <1>6, <1>7

\* One ACTIVE discount per customer, for any number of tasks that race for it.
THEOREM OneActive == Spec => []OneActiveDiscount
  <1>1. Init => OneEach
    BY DEF Init, OneEach
  <1>2. DeskIsConsistent /\ ChainIsTable /\ OneEach => OneActiveDiscount
    BY AllowedDiscount DEF OneActiveDiscount, OneEach
  <1>3. QED
    BY <1>1, <1>2, OneEachStep, DeskConsistent, ChainTable, PTL DEF Spec

LEMMA FourEyesStep ==
    DeskIsConsistent /\ ChainIsTable /\ FourEyes /\ [Next]_vars => FourEyes'
  <1> DEFINE Answers(t) ==
        LET a == asked[t] IN
        /\ a.rate <= ManagerMax
        /\ \/ User[a.user].admin \/ User[a.user].scope = "*"
           \/ User[a.user].department = Customer[a.customer].department
        /\ a.rate > AutoMax \/ a.hint >= HIGH \/ a.suspicious =>
             /\ approval[t].status = "APPROVED" /\ approval[t].by # a.user
             /\ is_approver(approval[t].by, approval[t].type)
  <1> SUFFICES ASSUME DeskIsConsistent, ChainIsTable, FourEyes, [Next]_vars,
                      NEW t \in Task, discount'[t] # "none"
               PROVE  Answers(t)'
    BY DEF FourEyes
  <1>1. CASE discount[t] # "none"
    <2>1. asked'[t] = asked[t] /\ approval'[t] = approval[t]
      BY <1>1, DiscountsStay
    <2>2. Answers(t)
      BY <1>1 DEF FourEyes
    <2>3. QED
      BY <2>1, <2>2 DEF is_approver, approver_role
  <1>2. CASE discount[t] = "none"
    <2>1. ApplyDiscount(t)
      BY <1>2, OnlyApplyDiscount
    <2>2. /\ at = Done /\ at # 0 /\ serving = t /\ decision = "ALLOW" /\ asked' = asked
          /\ proposal.tool = "apply_discount" /\ proposal = asked[t] /\ approval' = Decided(t)
          /\ Customer[proposal.customer].department # "none"
      BY <2>1, Serving DEF ApplyDiscount, Close, Done
    <2>3. /\ asked[t].rate <= ManagerMax
          /\ \/ User[asked[t].user].admin \/ User[asked[t].user].scope = "*"
             \/ User[asked[t].user].department = Customer[asked[t].customer].department
          /\ asked[t].rate > AutoMax \/ asked[t].hint >= HIGH \/ asked[t].suspicious => request.granted
      BY <2>2, AllowedDiscount
    <2>4. ASSUME request.granted
          PROVE  /\ approval'[t].status = "APPROVED" /\ approval'[t].by # asked[t].user
                 /\ is_approver(approval'[t].by, approval'[t].type)
      <3>1. approver # None /\ MayDecide(t, approver)
        BY <2>2, <2>4 DEF DeskIsConsistent, SessionIsSound
      <3>2. Decided(t)[t].status = "APPROVED" /\ Decided(t)[t].by = approver
            /\ Decided(t)[t].type = approval[t].type
        BY <2>2, <3>1, DecidedFrame
      <3>3. QED
        BY <2>2, <3>1, <3>2 DEF MayDecide, is_approver, approver_role
    <2>5. QED
      BY <2>2, <2>3, <2>4 DEF is_approver, approver_role
  <1>3. QED
    BY <1>1, <1>2

\* No discount beyond the self-service limits without the consent of a second person
\* who has the role for it, for any tables and any number of tasks.
THEOREM FourEyesHold == Spec => []FourEyes
  <1>1. Init => FourEyes
    BY DEF Init, FourEyes
  <1>2. QED
    BY <1>1, FourEyesStep, DeskConsistent, ChainTable, PTL DEF Spec
=============================================================================
