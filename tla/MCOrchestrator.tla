--------------------------- MODULE MCOrchestrator ---------------------------
(* Plans for model checking Orchestrator.                                    *)
EXTENDS Orchestrator

\* The kinds of steps that the plans are made of.
Read(d) == [kind |-> "READ", critical |-> TRUE, deps |-> d, gated |-> FALSE,
            undo |-> FALSE, sure |-> FALSE, samekey |-> TRUE]
Write(d) == [kind |-> "WRITE", critical |-> TRUE, deps |-> d, gated |-> FALSE,
             undo |-> TRUE, sure |-> TRUE, samekey |-> TRUE]
Notify(d) == [kind |-> "NOTIFY", critical |-> FALSE, deps |-> d, gated |-> FALSE,
              undo |-> FALSE, sure |-> TRUE, samekey |-> TRUE]
Gated(p) == [p EXCEPT !.gated = TRUE]
Unsure(p) == [p EXCEPT !.sure = FALSE]
OtherKey(p) == [p EXCEPT !.samekey = FALSE]
Irrevocable(p) == [p EXCEPT !.undo = FALSE]

\* The plans of the bundled agent: query, apply, notify, with and without approval.
DiscountPlans ==
    { <<Read({}), Write({1}), Notify({2})>>,
      <<Read({}), Gated(Write({1})), Notify({2})>> }

\* The saga of compensation.py: one write after the other, the last one in need of
\* approval or beyond reconciliation, one of them irrevocable.
SagaPlans ==
    { <<Write({}), Irrevocable(Write({1})), Gated(Write({2}))>>,
      <<Gated(Write({})), Write({1}), Unsure(Write({2}))>> }

TaskPlans == DiscountPlans \cup SagaPlans

\* What an interruption may find: the gated discount, a saga with a step that cannot
\* be reconciled, and a plan whose step is registered under another key.
RecoveryPlans ==
    { <<Read({}), Gated(Write({1})), Notify({2})>>,
      <<Gated(Write({})), Unsure(Write({1})), Notify({2})>>,
      <<Read({}), OtherKey(Write({1})), Notify({2})>> }

AllPlans == TaskPlans \cup RecoveryPlans
=============================================================================
