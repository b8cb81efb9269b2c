------------------------------ MODULE Planning ------------------------------
(* From what a user says to the steps of a task: the parsers of intent, the  *)
(* planner that is bundled (app/llm/mock_provider.py), the shape any model's *)
(* plan is brought into, and which of its steps can run then                 *)
(* (app/cognitive, AgentTask.next_actionable_step).                          *)
EXTENDS Integers, SequencesExt, FiniteSetsExt

NoRate == -1

(* What a sentence holds: "N% off" and a bare "N%" as percentages, zhe as a  *)
(* number of tenths of a zhe (85 is 8.5 zhe, that is 15% off).               *)
Sentence == [customer : {"", "C001"}, off : Int, zhe : Int, percent : Int,
             refund : BOOLEAN, notify : BOOLEAN]

\* The price that is left is a tenth of the zhe, unless that is at most one: then it
\* is the zhe itself.  A discount cannot be negative.
RateOfZhe(zhe) ==
    LET left == IF zhe > 10 THEN zhe ELSE 10 * zhe
    IN  Max({0, 100 - left})

parse_discount_rate(said) ==
    IF said.off # NoRate THEN said.off
    ELSE IF said.zhe # NoRate THEN RateOfZhe(said.zhe)
    ELSE said.percent

IntentParseResult(intent, rate, said, unclear) ==
    [intent |-> intent, rate |-> rate, customer |-> said.customer, notify |-> said.notify,
     clarification_needed |-> unclear]

ParseIntent(said) ==
    LET rate == parse_discount_rate(said) IN
    IF said.refund THEN IntentParseResult("issue_refund", NoRate, said, FALSE)
    ELSE IF rate # NoRate THEN IntentParseResult("apply_discount", rate, said, said.customer = "")
    ELSE IF said.customer # "" THEN IntentParseResult("query_customer", NoRate, said, FALSE)
    ELSE IntentParseResult("unknown", NoRate, said, TRUE)

\* The parser without a model; what it cannot read is an error.
RuleBasedParse(said) ==
    LET rate == parse_discount_rate(said) IN
    IF said.customer = "" THEN IntentParseResult("error", NoRate, said, TRUE)
    ELSE IF rate # NoRate THEN IntentParseResult("apply_discount", rate, said, FALSE)
    ELSE IntentParseResult("query_customer", NoRate, said, FALSE)

-----------------------------------------------------------------------------
(* Plans: sequences of steps, in the order in which they are registered.     *)

PlannedStep(name, tool, rate, critical, depends_on) ==
    [name |-> name, tool |-> tool, rate |-> rate, critical |-> critical, depends_on |-> depends_on]

BuildPlan(intent) ==
    LET query == PlannedStep("query_customer", "query_customer", NoRate, TRUE, {})
        apply == PlannedStep("apply_discount", "apply_discount", intent.rate, TRUE, {"query_customer"})
        notify == PlannedStep("send_notification", "send_notification", NoRate, FALSE, {"apply_discount"})
    IN  CASE intent.intent = "issue_refund" ->
                <<PlannedStep("issue_refund", "refund_payment", NoRate, TRUE, {})>>
          [] intent.customer = "" \/ intent.intent = "unknown" -> <<>>
          [] intent.intent = "query_customer" -> <<query>>
          [] OTHER -> <<query, apply>> \o (IF intent.notify THEN <<notify>> ELSE <<>>)

NotifyTools == {"send_notification"}

\* Planner._normalize: a step is named after its tool, what cannot be taken back comes
\* last and is never critical.
Normalize(steps) ==
    LET Named(s) == [s EXCEPT !.name = s.tool, !.critical = s.tool \notin NotifyTools /\ s.critical]
        named == [i \in DOMAIN steps |-> Named(steps[i])]
    IN  SelectSeq(named, LAMBDA s : s.tool \notin NotifyTools)
            \o SelectSeq(named, LAMBDA s : s.tool \in NotifyTools)

\* uq_step_task_name: a task has one step of a name.
CanRegister(steps) == \A i, j \in DOMAIN steps : steps[i].name = steps[j].name => i = j

\* BaseLLMProvider.generate_structured: a reply that does not fit is asked for once more.
GenerateStructured(replies) ==
    LET fits == {n \in 1..2 : replies[n] = "fits"}
    IN  IF fits = {} THEN [error |-> TRUE, attempts |-> 2] ELSE [error |-> FALSE, attempts |-> Min(fits)]

\* _plan_task: to a person, when the model has no usable reply or nothing to do.
PlanTask(intent, replies, steps) ==
    IF GenerateStructured(replies).error \/ intent.clarification_needed \/ steps = <<>>
    THEN "MANUAL_REVIEW" ELSE "RUNNING"

-----------------------------------------------------------------------------
(* The steps that run when every tool succeeds.                              *)

Names(steps, S) == {steps[i].name : i \in S}
\* next_actionable_step, of steps that are PENDING or SUCCESS.
Next(steps, done) ==
    {i \in DOMAIN steps \ done :
        /\ steps[i].depends_on \subseteq Names(steps, done)
        /\ \A j \in DOMAIN steps \ done : steps[j].depends_on \subseteq Names(steps, done) => i <= j}

Ran(steps) ==
    LET ran[n \in 0..Len(steps)] ==
            IF n = 0 THEN {} ELSE ran[n - 1] \cup Next(steps, ran[n - 1])
    IN  ran[Len(steps)]

\* _finalize, when no step is left that can run.
Outcome(steps) ==
    LET left == DOMAIN steps \ Ran(steps)
    IN  IF left = {} THEN "COMPLETED"
        ELSE IF \E i \in left : steps[i].critical THEN "FAILED" ELSE "PARTIAL_SUCCESS"
=============================================================================
