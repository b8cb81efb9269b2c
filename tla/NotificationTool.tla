--------------------------- MODULE NotificationTool ---------------------------
(* send_notification, which cannot be taken back, the question afterwards    *)
(* whether it was sent, and the faults a test may order for it               *)
(* (app/actions/tools/send_notification.py, fault_injection.py).             *)
EXTENDS Naturals, Sequences, FiniteSets

(* rows: the NotificationORM rows, each with the key it was sent under.      *)
FindByKey(rows, key) == {r \in rows : r.key = key}

\* build_result; "raises" is an exception instead of a result.
Result(status, code, retryable) == [status |-> status, code |-> code, retryable |-> retryable]
succeeded(result) == result.status \in {"SUCCESS", "SKIPPED_IDEMPOTENT"}
unresolved(result) == result.status \in {"TIMEOUT", "UNKNOWN"}

\* FaultInjector.take: the fault of this call, and what is left of the orders.
FaultMode == {"none", "timeout_after_commit", "timeout_before_commit", "transient_failure",
              "permanent_failure", "crash"}
Armed(faults) == faults.mode # "none" /\ faults.remaining > 0
TakenFault(faults) == IF Armed(faults) THEN faults.mode ELSE "none"
LeftFaults(faults) ==
    IF ~Armed(faults) THEN faults
    ELSE IF faults.remaining = 1 THEN [mode |-> "none", remaining |-> 0]
    ELSE [faults EXCEPT !.remaining = @ - 1]

(* notice: [customer, reachable, vars] - whether the customer is known, has  *)
(* an address for the channel, and the names of the template's variables.    *)
Answer(rows, key, notice, fault) ==
    IF fault = "permanent_failure" THEN Result("FAILED", "INVALID_ARGUMENT", FALSE)
    ELSE IF fault = "transient_failure" THEN Result("FAILED", "UPSTREAM_UNAVAILABLE", TRUE)
    ELSE IF fault = "timeout_before_commit" THEN Result("raises", "TIMEOUT", FALSE)
    ELSE IF FindByKey(rows, key) # {} THEN Result("SKIPPED_IDEMPOTENT", "none", FALSE)
    ELSE IF ~notice.customer THEN Result("FAILED", "NOT_FOUND", FALSE)
    ELSE IF ~notice.reachable THEN Result("FAILED", "INVALID_ARGUMENT", FALSE)
    ELSE IF "name" \in notice.vars THEN Result("raises", "TypeError", FALSE)
    ELSE Result("SUCCESS", "none", FALSE)

Send(rows, key, notice, faults) ==
    LET answer == Answer(rows, key, notice, TakenFault(faults))
    IN  [answer |-> answer, faults |-> LeftFaults(faults),
         rows |-> IF answer.status = "SUCCESS" THEN rows \cup {[id |-> Cardinality(rows), key |-> key]}
                  ELSE rows]

query_external_status(rows, key) ==
    IF FindByKey(rows, key) # {} THEN Result("SUCCESS", "none", FALSE)
    ELSE Result("FAILED", "UPSTREAM_UNAVAILABLE", TRUE)
=============================================================================
