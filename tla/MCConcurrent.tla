---------------------------- MODULE MCConcurrent ----------------------------
(* Plans for model checking ConcurrentSessions.                              *)
EXTENDS ConcurrentSessions, MCOrchestrator

\* A write that an approval follows, and an approved write that a notification follows.
TwoStepPlans == { <<Write({}), Gated(Write({1}))>>, <<Gated(Write({})), Notify({1})>> }
=============================================================================
