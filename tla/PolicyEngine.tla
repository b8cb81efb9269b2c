---------------------------- MODULE PolicyEngine ----------------------------
(***************************************************************************)
(* The control layer of enterprise-agent: PolicyEngine.evaluate runs the   *)
(* ten policies of build_default_policy_engine in order on one request and *)
(* aggregates their verdicts (app/control).  One step of the specification *)
(* is one policy; what happens between two evaluations is in DiscountDesk. *)
(*                                                                         *)
(* Rates are percentages.  Identities, tools and customers are tables given*)
(* by constants: the engine takes them from an identity provider, from the *)
(* tool registry and from the business tables.                             *)
(***************************************************************************)
EXTENDS Naturals

CONSTANTS
    User,       \* user id -> [perms, roles, scope, department, admin]
    Agent,      \* agent id -> [perms, tools, max]
    Service,    \* service id -> [perms, readonly]
    Tool,       \* registered tool -> [risk, perms, write, service]
    Customer,   \* customer id -> [vip, department]; department "none": no such customer
    AutoMax,    \* settings.discount_auto_approve_max
    ManagerMax, \* settings.discount_manager_approve_max
    VipBonus    \* settings.discount_vip_bonus

\* A discount is a write, and tools and agents have risk levels.
ASSUME LimitsAssumption == AutoMax \in Nat /\ ManagerMax \in Nat /\ VipBonus \in Nat
ASSUME TablesAssumption ==
    /\ "apply_discount" \in DOMAIN Tool /\ Tool["apply_discount"].write
    /\ \A t \in DOMAIN Tool : Tool[t].risk \in 0 .. 4
    /\ \A a \in DOMAIN Agent : Agent[a].max \in 0 .. 4

\* RiskLevel, by its order.
RiskLevel == 0 .. 4
LOW == 1
MEDIUM == 2
HIGH == 3
CRITICAL == 4
Higher(a, b) == IF a > b THEN a ELSE b

DECISION_PRIORITY == [ALLOW |-> 0, REQUIRE_APPROVAL |-> 2, MANUAL_REVIEW |-> 3, DENY |-> 4]
Decision == DOMAIN DECISION_PRIORITY
ApprovalType == {"NONE", "MANAGER", "COMPLIANCE"}

\* ActionProposal as the runtime rebuilds it from the step's row: who asks for what,
\* and what the model says about it.  A tool that is not in the registry has its name.
Proposal == [user : DOMAIN User, agent : DOMAIN Agent, tool : DOMAIN Tool \cup {"unregistered"},
             customer : DOMAIN Customer, rate : Nat, hint : RiskLevel,
             confidence : {"zero", "low", "high"}, suspicious : BOOLEAN,
             wellformed : BOOLEAN, pii : {"none", "contact", "card"}]

\* What evaluate is called with: granted is approval_granted, active the fact that
\* the customer already has an ACTIVE discount.
Request == [proposal : Proposal, granted : BOOLEAN, active : BOOLEAN]

VARIABLES
    request,        \* the request in hand
    at,             \* the policy about to run; 0: no evaluation, Done: all have
    decision,       \* the strongest decision so far
    highest_risk,   \* the highest risk so far, which later policies read
    approval_type   \* the last approval type a policy asked for

engine == <<request, at, decision, highest_risk, approval_type>>

Done == 11
proposal == request.proposal
registered == proposal.tool \in DOMAIN Tool
risk_level == IF registered THEN Tool[proposal.tool].risk ELSE HIGH
is_write == registered /\ Tool[proposal.tool].write
required == IF registered THEN Tool[proposal.tool].perms ELSE {}

-----------------------------------------------------------------------------
(* The policies.  A result is a decision, the risk the policy has found, and *)
(* the type of approval it asks for.                                         *)

Result(d, risk, type) == [decision |-> d, risk |-> risk, type |-> type]
allow(risk) == Result("ALLOW", risk, "NONE")
deny(risk) == Result("DENY", risk, "NONE")
manual_review(risk) == Result("MANUAL_REVIEW", risk, "NONE")
require_approval(type, risk) == Result("REQUIRE_APPROVAL", risk, type)

IdentityPolicy ==
    IF \/ User[proposal.user].roles = {} /\ User[proposal.user].perms = {}
       \/ Agent[proposal.agent].perms = {} /\ Agent[proposal.agent].tools = {}
       \/ is_write /\ Service[Tool[proposal.tool].service].readonly
    THEN deny(HIGH) ELSE allow(0)

AgentPermissionPolicy ==
    IF ~registered \/ proposal.tool \notin Agent[proposal.agent].tools THEN deny(HIGH)
    ELSE IF risk_level > Agent[proposal.agent].max THEN deny(risk_level)
    ELSE allow(risk_level)

\* effective_permissions: user, agent and service account must all have them.
effective_permissions ==
    User[proposal.user].perms \cap Agent[proposal.agent].perms
        \cap (IF registered THEN Service[Tool[proposal.tool].service].perms ELSE User[proposal.user].perms)

ToolPermissionPolicy == IF required \subseteq effective_permissions THEN allow(0) ELSE deny(HIGH)

ParameterPolicy ==
    IF ~registered THEN deny(HIGH) ELSE IF ~proposal.wellformed THEN deny(MEDIUM) ELSE allow(0)

\* Every args_model has a customer_id, and the runtime reports no owner of a
\* customer, so that the scope "own" reaches nobody.
DataAccessPolicy ==
    LET user == User[proposal.user]  department == Customer[proposal.customer].department IN
    IF user.admin \/ user.scope = "*" THEN allow(0)
    ELSE IF department = "none" THEN manual_review(HIGH)
    ELSE IF user.scope = "department" /\ department = user.department THEN allow(0)
    ELSE deny(HIGH)

SensitiveDataPolicy ==
    IF proposal.pii = "card" THEN deny(CRITICAL)
    ELSE IF proposal.pii = "contact" THEN allow(MEDIUM) ELSE allow(0)

self_service_max == AutoMax + (IF Customer[proposal.customer].vip THEN VipBonus ELSE 0)

\* Mutant of BusinessRulePolicy: the facts are not asked for an active discount.
BlindBusinessRule ==
    IF proposal.tool # "apply_discount" THEN allow(0)
    ELSE IF proposal.rate > ManagerMax THEN deny(CRITICAL)
    ELSE IF proposal.rate <= self_service_max THEN allow(IF proposal.rate <= 5 THEN LOW ELSE MEDIUM)
    ELSE require_approval("MANAGER", HIGH)

BusinessRulePolicy ==
    IF proposal.tool # "apply_discount" THEN allow(0)
    ELSE IF request.active THEN deny(MEDIUM)
    ELSE IF proposal.rate > ManagerMax THEN deny(CRITICAL)
    ELSE IF proposal.rate <= self_service_max THEN allow(IF proposal.rate <= 5 THEN LOW ELSE MEDIUM)
    ELSE require_approval("MANAGER", HIGH)

\* Every registered tool is idempotent.  The attempts a step has had raise the risk
\* to MEDIUM, which for a write it has anyway and for a read changes no decision.
assessed ==
    LET write == IF is_write THEN MEDIUM ELSE 0
        rate == IF proposal.rate > AutoMax THEN HIGH ELSE IF proposal.rate > 0 THEN MEDIUM ELSE 0
        input == IF proposal.suspicious THEN HIGH ELSE 0
    IN  Higher(Higher(Higher(risk_level, write), Higher(rate, input)), proposal.hint)

\* A confidence of 0.0 is read back from the step's row as 0.9.
RiskPolicy ==
    IF assessed >= CRITICAL /\ is_write THEN manual_review(assessed)
    ELSE IF proposal.confidence = "low" /\ is_write THEN manual_review(Higher(assessed, HIGH))
    ELSE allow(assessed)

\* Nothing calls record_write or record_failure: both windows are always empty.
RateLimitPolicy == allow(0)

ApprovalPolicy ==
    LET effective_risk == Higher(highest_risk, Higher(risk_level, proposal.hint)) IN
    IF request.granted \/ ~is_write THEN allow(0)
    ELSE IF effective_risk >= HIGH
    THEN require_approval(IF effective_risk = CRITICAL THEN "COMPLIANCE" ELSE "MANAGER", effective_risk)
    ELSE allow(effective_risk)

\* build_default_policy_engine: the order is part of the meaning.
policies == <<IdentityPolicy, AgentPermissionPolicy, ToolPermissionPolicy, ParameterPolicy,
              DataAccessPolicy, SensitiveDataPolicy, BusinessRulePolicy, RiskPolicy,
              RateLimitPolicy, ApprovalPolicy>>

-----------------------------------------------------------------------------
(* The engine.                                                               *)

\* A granted approval satisfies every policy that asks for one, and no other.
Downgraded(r) ==
    IF request.granted /\ r.decision = "REQUIRE_APPROVAL" THEN allow(r.risk) ELSE r

\* Mutant of Stronger: the policy that runs last has the last word.
Later(d, e) == IF e = "ALLOW" THEN d ELSE e

Stronger(d, e) == IF DECISION_PRIORITY[e] > DECISION_PRIORITY[d] THEN e ELSE d

Begin(r) ==
    /\ request' = r /\ at' = 1
    /\ decision' = "ALLOW" /\ highest_risk' = 0 /\ approval_type' = "NONE"

\* One turn of the loop of evaluate; a refusal ends it.
NextPolicy ==
    /\ at \in 1 .. 10
    /\ LET r == Downgraded(policies[at]) IN
         /\ decision' = Stronger(decision, r.decision)
         /\ highest_risk' = Higher(highest_risk, r.risk)
         /\ approval_type' = IF r.type # "NONE" THEN r.type ELSE approval_type
         /\ at' = IF r.decision = "DENY" THEN Done ELSE at + 1
    /\ UNCHANGED request

EngineTypeOK ==
    /\ request \in Request
    /\ at \in 0 .. Done
    /\ decision \in Decision
    /\ highest_risk \in RiskLevel
    /\ approval_type \in ApprovalType

-----------------------------------------------------------------------------
(* What the chain as a whole means.                                          *)

\* The action is beyond the requester, the agent or the rules, whoever approves it.
Forbidden ==
    \/ User[proposal.user].roles = {} /\ User[proposal.user].perms = {}
    \/ ~registered \/ proposal.tool \notin Agent[proposal.agent].tools
    \/ risk_level > Agent[proposal.agent].max
    \/ is_write /\ Service[Tool[proposal.tool].service].readonly
    \/ ~(required \subseteq User[proposal.user].perms \cap Agent[proposal.agent].perms)
    \/ registered /\ ~(required \subseteq Service[Tool[proposal.tool].service].perms)
    \/ ~proposal.wellformed \/ proposal.pii = "card"
    \/ /\ ~User[proposal.user].admin /\ User[proposal.user].scope # "*"
       /\ Customer[proposal.customer].department # "none"
       /\ ~(User[proposal.user].scope = "department"
            /\ User[proposal.user].department = Customer[proposal.customer].department)
    \/ proposal.tool = "apply_discount" /\ (request.active \/ proposal.rate > ManagerMax)

\* The program cannot judge it: a write of critical risk or of a model that is not
\* sure of itself, or data whose owner it cannot establish.
Undecidable ==
    \/ is_write /\ (proposal.hint = CRITICAL \/ risk_level = CRITICAL \/ proposal.confidence = "low")
    \/ /\ ~User[proposal.user].admin /\ User[proposal.user].scope # "*"
       /\ Customer[proposal.customer].department = "none"

\* A write that somebody has to answer for.
Delicate ==
    is_write /\ (proposal.rate > AutoMax \/ proposal.hint >= HIGH \/ risk_level >= HIGH \/ proposal.suspicious)

\* Ten policies in sequence, each of which reads what the earlier ones found, come to
\* one table: refused if forbidden, else left to a human if undecidable, else put to
\* an approver if delicate and not yet approved, else allowed.  In particular no
\* approval overrides a refusal, and what was approved is not asked for again.
ChainIsTable ==
    at = Done => decision = (IF Forbidden THEN "DENY"
                             ELSE IF Undecidable THEN "MANUAL_REVIEW"
                             ELSE IF Delicate /\ ~request.granted THEN "REQUIRE_APPROVAL"
                             ELSE "ALLOW")

-----------------------------------------------------------------------------
(* What comments and tests of the repository say, and the code does not.     *)

\* "VIP customers have 3 points more": within them no approval is needed.
VipIsSelfService ==
    at = Done /\ decision = "REQUIRE_APPROVAL" =>
        ~(/\ proposal.tool = "apply_discount" /\ Customer[proposal.customer].vip
          /\ proposal.rate <= AutoMax + VipBonus /\ proposal.hint < HIGH /\ ~proposal.suspicious)

\* "A confidence too low is worth a look": no write is allowed without one.
DoubtIsReviewed ==
    at = Done /\ decision = "ALLOW" => ~(is_write /\ proposal.confidence # "high")
=============================================================================
