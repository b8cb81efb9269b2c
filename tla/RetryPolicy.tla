----------------------------- MODULE RetryPolicy -----------------------------
(* When a failed step is tried again and how long it waits                   *)
(* (app/runtime/retry.py, app/core/errors.py).  Times in milliseconds, the   *)
(* jitter ratio in percent.                                                  *)
EXTENDS Integers, FiniteSetsExt

ErrorCode ==
    {"INVALID_ARGUMENT", "PERMISSION_DENIED", "NOT_FOUND", "BUSINESS_RULE_VIOLATION",
     "DUPLICATE_ACTIVE_DISCOUNT", "IDEMPOTENCY_CONFLICT", "TOOL_NOT_REGISTERED",
     "APPROVAL_REJECTED", "POLICY_DENIED", "UNSUPPORTED_OPERATION",
     "UPSTREAM_UNAVAILABLE", "RATE_LIMITED", "NETWORK_ERROR", "TIMEOUT", "INTERNAL_ERROR",
     "UNKNOWN_EXECUTION_STATE", "ILLEGAL_STATE_TRANSITION", "LLM_OUTPUT_INVALID",
     "LLM_PROVIDER_ERROR"}
RETRYABLE_ERROR_CODES == {"UPSTREAM_UNAVAILABLE", "RATE_LIMITED", "NETWORK_ERROR", "INTERNAL_ERROR"}
NON_RETRYABLE_ERROR_CODES ==
    {"INVALID_ARGUMENT", "PERMISSION_DENIED", "NOT_FOUND", "BUSINESS_RULE_VIOLATION",
     "DUPLICATE_ACTIVE_DISCOUNT", "IDEMPOTENCY_CONFLICT", "TOOL_NOT_REGISTERED",
     "APPROVAL_REJECTED", "POLICY_DENIED", "UNSUPPORTED_OPERATION"}
\* A code may also be missing or one that nobody knows.
AnyCode == ErrorCode \cup {"none", "unheard_of"}

is_retryable(code) == code \in RETRYABLE_ERROR_CODES

classify_error(code) ==
    IF code \in {"TIMEOUT", "UNKNOWN_EXECUTION_STATE"} THEN "unknown_state"
    ELSE IF is_retryable(code) THEN "transient"
    ELSE IF code \in {"BUSINESS_RULE_VIOLATION", "DUPLICATE_ACTIVE_DISCOUNT", "INVALID_ARGUMENT",
                      "NOT_FOUND", "POLICY_DENIED", "PERMISSION_DENIED", "APPROVAL_REJECTED"}
    THEN "business" ELSE "fatal"

(* The exceptions: what an error of a class says of itself unless its raiser *)
(* says otherwise ("unsaid").                                                *)
DefaultCode ==
    [AgentError |-> "INTERNAL_ERROR", PolicyViolationError |-> "POLICY_DENIED",
     PermissionDeniedError |-> "PERMISSION_DENIED", ValidationError |-> "INVALID_ARGUMENT",
     IllegalStateTransitionError |-> "ILLEGAL_STATE_TRANSITION", TaskNotFoundError |-> "NOT_FOUND",
     ApprovalNotFoundError |-> "NOT_FOUND", ToolNotRegisteredError |-> "TOOL_NOT_REGISTERED",
     ToolExecutionError |-> "INTERNAL_ERROR", ToolTimeoutError |-> "TIMEOUT",
     IdempotencyConflictError |-> "IDEMPOTENCY_CONFLICT",
     BusinessRuleViolationError |-> "BUSINESS_RULE_VIOLATION", CompensationError |-> "INTERNAL_ERROR",
     LLMOutputInvalidError |-> "LLM_OUTPUT_INVALID", LLMProviderError |-> "LLM_PROVIDER_ERROR"]

AgentError(class, said) ==
    LET code == DefaultCode[class]
    IN  [error_code |-> code,
         retryable |-> IF class \in {"IllegalStateTransitionError", "ToolTimeoutError"} THEN FALSE
                       ELSE IF said = "unsaid" THEN is_retryable(code) ELSE said = "yes"]

-----------------------------------------------------------------------------
\* settings: base, max (milliseconds), jitter (percent); retry_after 0 when it is not given.
Backoff(settings, attempt) == Min({settings.base * 2 ^ Max({0, attempt - 1}), settings.max})

\* The delays compute_delay may return: the jitter is drawn around the capped backoff.
compute_delay(settings, attempt, retry_after) ==
    LET base == Backoff(settings, attempt)
        jitter == (base * settings.jitter) \div 100
    IN  IF retry_after > 0 THEN {Min({retry_after, settings.max})}
        ELSE {Max({0, d}) : d \in {base - jitter, base, base + jitter}}

\* hint: what the tool says of its failure, "yes", "no" or "unsaid".
should_retry(step_status, code, hint, retry_count, max_retries) ==
    /\ step_status \notin {"TIMEOUT", "UNKNOWN"}
    /\ retry_count < max_retries
    /\ hint # "no"
    /\ hint = "yes" \/ is_retryable(code)
=============================================================================
