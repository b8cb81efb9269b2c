------------------------------- MODULE MCDesk -------------------------------
(* For DiscountDesk, the identities, tools and customers of the bundled       *)
(* demonstration and proposals that tell the policies apart.  For the         *)
(* operators that decide without a state of their own, what they promise over *)
(* small inputs: assumptions that every run evaluates.                        *)
EXTENDS DiscountDesk, Integers, Sequences, FiniteSets

Agents == INSTANCE MultiAgent WITH
    User <- [u \in {} |-> 0], Agent <- [a \in {} |-> 0], Service <- [s \in {} |-> 0],
    Tool <- [t \in {} |-> 0], Customer <- [c \in {} |-> 0],
    AutoMax <- 5, ManagerMax <- 15, VipBonus <- 3,
    request <- 0, at <- 0, decision <- 0, highest_risk <- 0, approval_type <- 0
Plans == INSTANCE Planning
Retry == INSTANCE RetryPolicy
Keys == INSTANCE IdempotencyKey
Who == INSTANCE Identities
Sms == INSTANCE NotificationTool

-----------------------------------------------------------------------------
(* The desk. *)

\* MockIdentityProvider, with a user nobody has heard of.
MCUser == [u \in DOMAIN Who!Users \cup {"nobody"} |-> Who!get_user(u)]
MCAgent == [a \in DOMAIN Who!Agents |-> [Who!get_agent(a) EXCEPT !.max = Who!risk_order[@]]]
MCService == Who!Services
MCTool ==
    [t \in DOMAIN Who!BuiltinTools |->
        LET tool == Who!BuiltinTools[t]
        IN  [risk |-> Who!risk_order[tool.risk], perms |-> tool.perms, write |-> tool.type # "READ",
             service |-> tool.service]]

MCCustomer ==
    [C001 |-> [vip |-> FALSE, department |-> "cs_north"],
     C002 |-> [vip |-> TRUE, department |-> "cs_north"],
     C003 |-> [vip |-> FALSE, department |-> "cs_south"],
     C999 |-> [vip |-> FALSE, department |-> "none"]]

Discount(customer, rate) ==
    [user |-> "user_001", agent |-> "discount_agent", tool |-> "apply_discount",
     customer |-> customer, rate |-> rate, hint |-> LOW, confidence |-> "high",
     suspicious |-> FALSE, wellformed |-> TRUE, pii |-> "none"]
Ten == Discount("C001", 10)
Notice == [Discount("C001", 0) EXCEPT !.tool = "send_notification"]

MCProposals ==
    {Discount("C001", 5), Ten, Discount("C001", 30), Discount("C002", 7), Discount("C003", 5),
     Discount("C999", 5), Notice,
     [Ten EXCEPT !.user = "manager_001"], [Ten EXCEPT !.user = "admin_001"],
     [Discount("C999", 5) EXCEPT !.user = "admin_001"], [Ten EXCEPT !.user = "nobody"], [Ten EXCEPT !.agent = "readonly_agent"],
     [Ten EXCEPT !.tool = "unregistered"], [Ten EXCEPT !.wellformed = FALSE],
     [Ten EXCEPT !.pii = "card"], [Ten EXCEPT !.pii = "contact"],
     [Ten EXCEPT !.hint = CRITICAL], [Ten EXCEPT !.confidence = "low"],
     [Discount("C001", 5) EXCEPT !.hint = HIGH], [Discount("C001", 5) EXCEPT !.suspicious = TRUE],
     [Discount("C001", 5) EXCEPT !.confidence = "zero"],
     [Notice EXCEPT !.tool = "query_customer"],
     [Notice EXCEPT !.tool = "query_customer", !.agent = "readonly_agent"]}

-----------------------------------------------------------------------------
(* Sub-agents. *)

Person == [known : BOOLEAN, active : BOOLEAN, tier : {"STANDARD", "VIP"}, poor : BOOLEAN,
           discounted : BOOLEAN]
Rates == {5, 7, 10, 30}
Lost == [eligibility : 0..2, risk : 0..2, recommendation : {0, 2}, notification : {0, 2}]

(* A discount is never advised for a customer whose eligibility is unknown: *)
(* whatever runs out of time, an evaluation that has not failed has the     *)
(* eligibility slot among its successes.                                    *)
UnknownIsNotUnrestricted ==
    \A person \in Person, rate \in Rates, lost \in Lost :
        LET done == Agents!Evaluate(person, rate, lost)
        IN  done.status # "FAILED" =>
                /\ person.known /\ person.active /\ lost.eligibility < 2
                /\ done.results[1].status = "SUCCESS"
ASSUME UnknownIsNotUnrestricted

(* A critical risk that was found is never waved through.                   *)
CriticalGoesToAPerson ==
    \A person \in Person, rate \in Rates, lost \in Lost :
        LET done == Agents!Evaluate(person, rate, lost)
        IN  done.results[2].facts.risk = "CRITICAL" => done.status \in {"FAILED", "WAITING_APPROVAL"}
ASSUME CriticalGoesToAPerson

Statuses == Agents!AgentResultStatus \cup {"raises"}
Rules == [required : SUBSET {"a", "b"}, min_success : 0..2, retry_on : {{}, {"TIMEOUT"}},
          max_retry : {1}, fail_fast : BOOLEAN]
Team == {<<[slot |-> "a", attempts |-> <<Agents!Answered(p, Agents!NoFacts), Agents!Answered(q, Agents!NoFacts)>>],
           [slot |-> "b", attempts |-> <<Agents!Answered(r, Agents!NoFacts), Agents!Answered("SUCCESS", Agents!NoFacts)>>]>> :
              p \in Statuses, q \in {"SUCCESS", "TIMEOUT", "raises"}, r \in Statuses}

(* A slot that raised, or was never run, is not counted as a success, and   *)
(* the run in parallel keeps a result for every slot.                       *)
OnlySuccessCounts ==
    \A rule \in Rules, team \in Team :
        LET results == Agents!RunParallel(rule, team)
            verdict == Agents!Aggregate(rule, results, FALSE)
            succeeded == {results[i].slot : i \in {j \in 1..2 : results[j].status = "SUCCESS"}}
        IN  /\ \A i \in 1..2 : results[i].slot = team[i].slot /\ results[i].status # "raises"
            /\ verdict \in {"SUCCESS", "PARTIAL_SUCCESS"} =>
                   rule.required \subseteq succeeded /\ Cardinality(succeeded) >= rule.min_success
            /\ verdict = "SUCCESS" <=> succeeded = {"a", "b"}
ASSUME OnlySuccessCounts

(* In sequence too, unless an exception ends the run: the slots after a     *)
(* required failure are there, and are SKIPPED.                             *)
SkippedIsNotDone ==
    \A rule \in Rules, team \in Team :
        LET results == Agents!RunSequential(rule, team, TRUE)
        IN  Agents!Raised(results) \/
            (/\ Len(results) = 2
             /\ results[1].status \in {"FAILED", "TIMEOUT"} /\ "a" \in rule.required =>
                    results[2].status = "SKIPPED")
ASSUME SkippedIsNotDone

(* Not true (see README).  A risk that could not be assessed makes the      *)
(* recommendation conservative (discount_workflow.py:138).                  *)
UnassessedIsConservative ==
    \A person \in Person, rate \in Rates, lost \in Lost :
        LET done == Agents!Evaluate(person, rate, lost)
        IN  done.results[2].status # "SUCCESS" /\ Len(done.results) > 2 =>
                done.results[3].facts.decision # "AUTO_APPROVE"
(* Not true.  A second discount is not advised for a customer who has one.  *)
OneDiscountAdvised ==
    \A person \in Person, rate \in Rates, lost \in Lost :
        LET done == Agents!Evaluate(person, rate, lost)
        IN  person.discounted /\ Len(done.results) > 2 =>
                done.results[3].facts.decision # "AUTO_APPROVE"
(* Not true.  In sequence an exception of one slot keeps the results of the *)
(* others (multi_agent.py:167, of the run in parallel).                     *)
SequenceKeepsResults ==
    \A rule \in Rules, team \in Team : ~Agents!Raised(Agents!RunSequential(rule, team, TRUE))

-----------------------------------------------------------------------------
(* Plans. *)

Sentences ==
    [customer : {"", "C001"}, off : {Plans!NoRate, 10}, zhe : {Plans!NoRate, 10, 85, 90, 850},
     percent : {Plans!NoRate, 20}, refund : BOOLEAN, notify : BOOLEAN]
Bundled(said) == Plans!Normalize(Plans!BuildPlan(Plans!ParseIntent(said)))
IsNotice(step) == step.tool \in Plans!NotifyTools
NoticesLast(steps) ==
    \A i, j \in DOMAIN steps : IsNotice(steps[i]) /\ ~IsNotice(steps[j]) => j < i

(* Whatever is said, the bundled plan can be registered, none of its steps  *)
(* waits for one that is not there, and a notice comes last.                *)
BundledPlansRun ==
    \A said \in Sentences :
        LET steps == Bundled(said)
        IN  /\ Plans!CanRegister(steps) /\ Plans!Outcome(steps) = "COMPLETED"
            /\ NoticesLast(steps)
            /\ \A i \in DOMAIN steps : IsNotice(steps[i]) => ~steps[i].critical
ASSUME BundledPlansRun

Tools == {"query_customer", "apply_discount", "send_notification"}
ModelPlans ==
    LET steps == {Plans!PlannedStep(n, t, 5, TRUE, d) :
                     n \in {"first", "second"}, t \in Tools, d \in {{}, {"first"}}}
    IN  {<<s>> : s \in steps} \cup {<<s, t>> : s, t \in steps}

(* Of a model's plan no step is lost, a notice comes last and can fail      *)
(* without failing the task.                                                *)
NormalizedIsSafe ==
    \A steps \in ModelPlans :
        LET normal == Plans!Normalize(steps)
            Count(plan, tool) == Cardinality({i \in DOMAIN plan : plan[i].tool = tool})
        IN  /\ \A tool \in Tools : Count(normal, tool) = Count(steps, tool)
            /\ NoticesLast(normal)
            /\ \A i \in DOMAIN normal : IsNotice(normal[i]) => ~normal[i].critical
ASSUME NormalizedIsSafe

(* A plan is carried out only when the second reply at the latest fits.     *)
OneMoreReply ==
    \A replies \in [1..2 -> {"fits", "does_not"}], said \in Sentences :
        Plans!PlanTask(Plans!ParseIntent(said), replies, Bundled(said)) = "RUNNING" =>
            /\ "fits" \in {replies[1], replies[2]}
            /\ ~Plans!ParseIntent(said).clarification_needed
ASSUME OneMoreReply

(* Not true.  A plan that could run as the model wrote it runs when it is   *)
(* normalized: depends_on keeps the names that the steps no longer have.    *)
NormalizedRuns ==
    \A steps \in ModelPlans :
        Plans!CanRegister(steps) /\ Plans!Outcome(steps) = "COMPLETED" =>
            Plans!Outcome(Plans!Normalize(steps)) = "COMPLETED"
(* Not true.  ... and can be registered: two steps of a tool get one name.  *)
NormalizedRegisters ==
    \A steps \in ModelPlans : Plans!CanRegister(steps) => Plans!CanRegister(Plans!Normalize(steps))
(* Not true.  A discount that is asked for in zhe is the one asked for.     *)
ZheIsKept == \A zhe \in 1..9 : Plans!RateOfZhe(10 * zhe) = 100 - 10 * zhe
(* Not true.  The parser without a model reads what the other reads.        *)
ParsersAgree ==
    \A said \in Sentences : said.customer # "" =>
        Plans!RuleBasedParse(said).intent = Plans!ParseIntent(said).intent

-----------------------------------------------------------------------------
(* Retries. *)

Settings == [base : {0, 500, 3000}, max : {400, 4000}, jitter : {0, 50}]
Hints == {"yes", "no", "unsaid"}
StepStatus == {"FAILED", "TIMEOUT", "UNKNOWN", "RETRYING"}

(* What may already have taken effect is never done again, whatever its     *)
(* code and its hint say, and nothing is done more often than was allowed.  *)
DoubtIsNotRetried ==
    \A outcome \in StepStatus, code \in Retry!AnyCode, hint \in Hints, n \in 0..3 :
        Retry!should_retry(outcome, code, hint, n, 2) => outcome \notin {"TIMEOUT", "UNKNOWN"} /\ n < 2
ASSUME DoubtIsNotRetried

(* The exceptions, the classes and the list agree: without a hint only what *)
(* is transient is retried, and an error that may have taken effect does    *)
(* not say of itself that it can be retried.                                *)
ClassesAgree ==
    /\ Retry!RETRYABLE_ERROR_CODES \cap Retry!NON_RETRYABLE_ERROR_CODES = {}
    /\ \A code \in Retry!AnyCode :
           /\ Retry!classify_error(code) = "transient" <=> Retry!is_retryable(code)
           /\ Retry!should_retry("FAILED", code, "unsaid", 0, 2) => Retry!classify_error(code) = "transient"
    /\ \A class \in DOMAIN Retry!DefaultCode :
           LET e == Retry!AgentError(class, "unsaid")
           IN  e.retryable => Retry!classify_error(e.error_code) = "transient"
ASSUME ClassesAgree

(* Without jitter the waits grow up to the limit, and with it they stay     *)
(* within their share of the backoff.                                       *)
WaitsAreBounded ==
    \A s \in Settings, n \in 0..5 :
        /\ s.jitter = 0 => \A d \in Retry!compute_delay(s, n, 0) : d <= s.max
        /\ Retry!Backoff(s, n) <= Retry!Backoff(s, n + 1)
        /\ \A d \in Retry!compute_delay(s, n, 0) :
               100 * d \in (100 - s.jitter) * Retry!Backoff(s, n) .. (100 + s.jitter) * Retry!Backoff(s, n)
        /\ \A d \in Retry!compute_delay(s, n, 9000) : d <= s.max
ASSUME WaitsAreBounded

(* Not true.  No wait is longer than retry_max_delay_seconds (retry.py:76). *)
WaitsAreCapped ==
    \A s \in Settings, n \in 0..5 : \A d \in Retry!compute_delay(s, n, 0) : d <= s.max

-----------------------------------------------------------------------------
(* Idempotency keys. *)

Values == {Keys!Num("int", n, 0) : n \in {0, 5, 10, 105}}
          \cup {Keys!Num("float", n, 1) : n \in {0, 5, 50, 100, 105, 1050}}
          \cup {Keys!Num("decimal", n, 2) : n \in {5, 10, 500, 1050}}
          \cup {Keys!Str(s) : s \in {<<>>, <<"5">>, <<" ", "5">>, <<"a">>, <<"a", " ">>, <<"0", ".", "5">>}}
          \cup {Keys!Bool(TRUE), Keys!Bool(FALSE), Keys!Null}
Arguments == {Keys!Dict([rate |-> v]) : v \in Values} \cup {Keys!Dict([note |-> v]) : v \in Values}
             \cup {Keys!Dict([rate |-> v, note |-> Keys!Null]) : v \in Values}
KeyOf(arguments) == Keys!build_idempotency_key(<<"t">>, <<"s">>, <<"u">>, arguments, <<>>)

\* Two values say the same: equal numbers, or texts that differ in blanks around them.
SameValue(v, w) ==
    LET Number(x) == x.type \in {"int", "float", "decimal"}
    IN  IF Number(v) /\ Number(w) THEN v.n * 10 ^ w.scale = w.n * 10 ^ v.scale
        ELSE IF v.type = "str" /\ w.type = "str" THEN Keys!Strip(v.s) = Keys!Strip(w.s)
        ELSE v = w
SameArguments(a, b) ==
    DOMAIN a.d = DOMAIN b.d /\ \A k \in DOMAIN a.d : SameValue(a.d[k], b.d[k])

(* An action that is asked for again in another writing has the same key;   *)
(* an argument that is given as null is not one that is absent; a           *)
(* compensation's key is not its action's.                                  *)
SameActionSameKey == \A a, b \in Arguments : SameArguments(a, b) => KeyOf(a) = KeyOf(b)
AbsentIsNotNull == \A a, b \in Arguments : DOMAIN a.d # DOMAIN b.d => KeyOf(a) # KeyOf(b)
SuffixTells ==
    \A a, b \in Arguments :
        Keys!build_idempotency_key(<<"t">>, <<"s">>, <<"u">>, a, <<"c">>) # KeyOf(b)
ASSUME SameActionSameKey
ASSUME AbsentIsNotNull
ASSUME SuffixTells

(* Not true.  Different actions have different keys: a number is written as *)
(* the text of it.                                                          *)
OtherActionOtherKey == \A a, b \in Arguments : KeyOf(a) = KeyOf(b) => SameArguments(a, b)
(* Not true.  ... and names may hold the separator.                         *)
PartsAreTold ==
    LET Parts == {<<"a">>, <<"b">>, <<"a", "|", "b">>, <<"b", "|", "a">>}
        Key(p) == Keys!build_idempotency_key(p[1], p[2], p[3], Keys!Dict([rate |-> Keys!Null]), <<>>)
    IN  \A p, q \in Parts \X Parts \X Parts : Key(p) = Key(q) => p = q

-----------------------------------------------------------------------------
(* Identities and the registry. *)

Somebody == {Who!ResolvedIdentity(u, a, s) :
    u \in DOMAIN Who!Users \cup {"nobody"}, a \in DOMAIN Who!Agents \cup {"nothing"},
    s \in DOMAIN Who!Services \cup {Who!NoService, "nowhere"}}

(* An unknown user, agent or service may do nothing, and nobody may do with *)
(* an agent, or through a service, what the agent or service may not.       *)
UnknownMayDoNothing ==
    \A who \in Somebody :
        /\ who.user = "nobody" \/ who.agent = "nothing" \/ who.service = "nowhere" =>
               Who!callable_by(Who!BuiltinTools, who) = {}
        /\ Who!effective_permissions(who) \subseteq Who!get_agent(who.agent).perms
        /\ \A s \in DOMAIN Who!Services :
               Who!effective_permissions(Who!with_service(who, s)) \subseteq
                   Who!effective_permissions(Who!with_service(who, Who!NoService))
ASSUME UnknownMayDoNothing

(* The model is shown every tool it could be permitted to use; with the     *)
(* bundled services, no other.                                              *)
ShownIsPermitted ==
    \A who \in {w \in Somebody : w.service = Who!NoService} :
        Who!callable_by(Who!BuiltinTools, who) = Who!Permitted(Who!BuiltinTools, who)
ASSUME ShownIsPermitted

Candidates == {[Who!BuiltinTools["apply_discount"] EXCEPT !.type = y, !.idempotent = i, !.typed = d] :
                  y \in {"READ", "WRITE", "NOTIFY"}, i, d \in BOOLEAN}
(* After any two registrations each tool that writes can be repeated, and a *)
(* name means the tool that was first registered under it.                  *)
RegistryIsSafe ==
    \A x, y \in Candidates, n \in {"", "new", "apply_discount"}, o \in BOOLEAN :
        LET one == Who!register(Who!BuiltinTools, n, x, FALSE)
            two == Who!register(one, n, y, o)
        IN  /\ \A t \in DOMAIN two : two[t].typed /\ (two[t].type # "READ" => two[t].idempotent)
            /\ "" \notin DOMAIN two
            /\ one["apply_discount"] = Who!BuiltinTools["apply_discount"]
            /\ ~o /\ n \in DOMAIN one => two = one
ASSUME RegistryIsSafe

-----------------------------------------------------------------------------
(* Notices. *)

Notices == [customer : BOOLEAN, reachable : BOOLEAN, vars : {{}, {"rate"}, {"name"}}]
Orders == [mode : Sms!FaultMode, remaining : 0..2]

(* A notice goes out once under a key, however often the call is repeated,  *)
(* and the question afterwards has the true answer.                         *)
OneNoticePerKey ==
    \A n, m \in Notices, f \in Orders, k, l \in {"k1", "k2"} :
        LET one == Sms!Send({}, k, n, f)
            two == Sms!Send(one.rows, l, m, one.faults)
            three == Sms!Send(two.rows, k, n, two.faults)
        IN  /\ \A key \in {"k1", "k2"} : Cardinality(Sms!FindByKey(three.rows, key)) <= 1
            /\ Sms!succeeded(one.answer) => three.answer.status # "SUCCESS"
            /\ Sms!succeeded(Sms!query_external_status(three.rows, k)) <=>
                   \E sent \in {one, three} : sent.answer.status = "SUCCESS"
                       \/ (k = l /\ two.answer.status = "SUCCESS")
ASSUME OneNoticePerKey

(* What says of itself that it can be tried again has sent nothing, and     *)
(* what was sent is never denied.                                           *)
RetryableIsUnsent ==
    \A n \in Notices, f \in Orders :
        LET sent == Sms!Send({}, "k1", n, f)
        IN  /\ sent.answer.retryable => Sms!FindByKey(sent.rows, "k1") = {}
            /\ Sms!succeeded(sent.answer) => Sms!FindByKey(sent.rows, "k1") # {}
            /\ ~Sms!unresolved(sent.answer)
ASSUME RetryableIsUnsent

(* Not true.  A fault that was ordered happens: two of the modes are taken  *)
(* from the orders and passed over.                                         *)
FaultsHappen ==
    \A f \in Orders : Sms!Armed(f) =>
        Sms!Send({}, "k1", [customer |-> TRUE, reachable |-> TRUE, vars |-> {}], f).answer.status # "SUCCESS"
(* Not true.  A template variable of any name gives a result, not an error  *)
(* of Python: "name" is passed to format twice.                             *)
AnyVariable ==
    \A n \in Notices, f \in Orders :
        Sms!Send({}, "k1", n, f).answer.code # "TypeError"
=============================================================================
