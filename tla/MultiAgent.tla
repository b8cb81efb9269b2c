----------------------------- MODULE MultiAgent -----------------------------
(* Sub-agents in slots and the declared rule by which their results count   *)
(* (app/runtime/multi_agent.py).  A worker is what its attempts come to, in *)
(* order: a status it returns, TIMEOUT when the slot's time is up, FAILED   *)
(* when it raises an AgentError, and "raises" for any other exception.      *)
EXTENDS PolicyEngine, SequencesExt, FiniteSetsExt

AgentResultStatus ==
    {"SUCCESS", "FAILED", "TIMEOUT", "PARTIAL_SUCCESS", "WAITING_APPROVAL", "SKIPPED"}
NoFacts == [risk |-> "none", tier |-> "none", decision |-> "none"]
AgentResult(slot, status, facts) == [slot |-> slot, status |-> status, facts |-> facts]

(* _run_with_timeout: retried while the status asks for it and an attempt   *)
(* is left; the last attempt is the slot's result.                          *)
RunSlot(rule, slot, attempts) ==
    LET last == Min({n \in 1..(rule.max_retry + 1) :
                        attempts[n].status \notin rule.retry_on \/ n = rule.max_retry + 1})
    IN  AgentResult(slot, attempts[last].status, attempts[last].facts)

Raised(results) == \E r \in ToSet(results) : r.status = "raises"
Successes(results) == SelectSeq(results, LAMBDA r : r.status = "SUCCESS")

\* review: whether the rule's human_review_if holds of the results.
Aggregate(rule, results, review) ==
    LET n == Len(Successes(results))
        Succeeded(slot) == \E r \in ToSet(results) : r.slot = slot /\ r.status = "SUCCESS"
    IN  IF \E slot \in rule.required : ~Succeeded(slot) THEN "FAILED"
        ELSE IF \E r \in ToSet(results) : r.status = "WAITING_APPROVAL" THEN "WAITING_APPROVAL"
        ELSE IF n < rule.min_success THEN "FAILED"
        ELSE IF review THEN "WAITING_APPROVAL"
        ELSE IF n = Len(results) THEN "SUCCESS"
        ELSE "PARTIAL_SUCCESS"

(* Every slot has a result, an exception of one does not lose the others.   *)
RunParallel(rule, workers) ==
    [i \in DOMAIN workers |->
        LET r == RunSlot(rule, workers[i].slot, workers[i].attempts)
        IN  IF r.status = "raises" THEN [r EXCEPT !.status = "FAILED"] ELSE r]

(* The slots after the first failure that counts are skipped, not left out; *)
(* an exception ends the run ("raises" is then the last result).            *)
RunSequential(rule, workers, stop_on_failure) ==
    LET ran == [i \in DOMAIN workers |-> RunSlot(rule, workers[i].slot, workers[i].attempts)]
        Stops(r) == /\ r.status \in {"FAILED", "TIMEOUT"} /\ stop_on_failure
                    /\ (r.slot \in rule.required \/ rule.fail_fast)
        ends == {i \in DOMAIN ran : Stops(ran[i]) \/ ran[i].status = "raises"}
        end == Min(ends)
    IN  IF ends = {} THEN ran
        ELSE IF ran[end].status = "raises" THEN SubSeq(ran, 1, end)
        ELSE [i \in DOMAIN ran |->
                 IF i <= end THEN ran[i] ELSE AgentResult(ran[i].slot, "SKIPPED", NoFacts)]

(* A branch not taken is SKIPPED. *)
RunConditional(rule, worker, condition) ==
    IF condition THEN RunSlot(rule, worker.slot, worker.attempts)
    ELSE AgentResult(worker.slot, "SKIPPED", NoFacts)

-----------------------------------------------------------------------------
(* The evaluation of a discount by four sub-agents, the example that         *)
(* exercises the multi-agent runtime (app/examples/discount_workflow.py).    *)
(* It only advises: what happens to a discount is DiscountDesk's.  Every     *)
(* agent may also run out of its slot's time.                                *)
Rule == [required |-> {"eligibility"}, min_success |-> 1, retry_on |-> {"TIMEOUT"},
         max_retry |-> 1, fail_fast |-> TRUE]
Review(results) == \E r \in ToSet(results) : r.facts.risk = "CRITICAL"

Answered(status, facts) == [status |-> status, facts |-> facts]

(* person: [known, active, tier, poor, discounted]. *)
CustomerEligibilityAgent(person) ==
    IF ~person.known \/ ~person.active THEN Answered("FAILED", NoFacts)
    ELSE Answered("SUCCESS", [NoFacts EXCEPT !.tier = person.tier])

RiskScore(person, rate) ==
    LET over == IF rate > ManagerMax THEN 60 ELSE IF rate > AutoMax THEN 30 ELSE 0
        poor == IF ~person.known \/ person.poor THEN 20 ELSE 0
        vip == IF person.known /\ person.tier = "VIP" THEN 10 ELSE 0
    IN  IF over + poor < vip THEN 0 ELSE over + poor - vip
RiskAssessmentAgent(person, rate) ==
    LET score == RiskScore(person, rate)
    IN  Answered("SUCCESS", [NoFacts EXCEPT !.risk =
            IF score >= 70 THEN "CRITICAL" ELSE IF score >= 40 THEN "HIGH"
            ELSE IF score >= 20 THEN "MEDIUM" ELSE "LOW"])

DiscountRecommendationAgent(tier, rate) ==
    Answered("SUCCESS", [NoFacts EXCEPT !.decision =
        IF rate > ManagerMax THEN "REJECT"
        ELSE IF rate > AutoMax + (IF tier = "VIP" THEN VipBonus ELSE 0) THEN "NEEDS_APPROVAL"
        ELSE "AUTO_APPROVE"])

NotificationAgent == Answered("SUCCESS", NoFacts)

(* An agent in its slot: `lost` of its attempts run out of time first.      *)
Worker(slot, lost, answer) ==
    [slot |-> slot,
     attempts |-> [n \in 1..(Rule.max_retry + 1) |->
                      IF n <= lost THEN Answered("TIMEOUT", NoFacts) ELSE answer]]

(* Eligibility and risk in parallel; their facts go to the recommendation,  *)
(* the notification comes last.                                             *)
Evaluate(person, rate, lost) ==
    LET parallel == RunParallel(Rule,
            <<Worker("eligibility", lost.eligibility, CustomerEligibilityAgent(person)),
              Worker("risk", lost.risk, RiskAssessmentAgent(person, rate))>>)
        first == Aggregate(Rule, parallel, Review(parallel))
        tier == parallel[1].facts.tier
        sequential == RunSequential(Rule,
            <<Worker("recommendation", lost.recommendation, DiscountRecommendationAgent(tier, rate)),
              Worker("notification", lost.notification, NotificationAgent)>>, TRUE)
    IN  IF first = "FAILED" THEN [status |-> first, results |-> parallel]
        ELSE [status |-> Aggregate(Rule, parallel \o sequential, Review(parallel \o sequential)),
              results |-> parallel \o sequential]
=============================================================================
