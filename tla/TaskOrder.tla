------------------------------- MODULE TaskOrder -------------------------------
(***************************************************************************)
(* What the research pipeline promises of the tasks of a plan: each is     *)
(* taken up at most once, after the tasks it depends on have ended, unless *)
(* the run has given up waiting for them.                                  *)
(***************************************************************************)
CONSTANT Nodes
VARIABLES
    dependsOn,  \* the dependencies of each task of the plan
    state,      \* "waiting", "started", "ended" or "broken": it will never end
    released    \* the tasks the run no longer keeps waiting

vars == <<dependsOn, state, released>>

NoPlan == [n \in Nodes |-> {}]
Fresh == state = [n \in Nodes |-> "waiting"] /\ released = {}
Init == dependsOn = NoPlan /\ Fresh

NewPlan ==
    /\ dependsOn' \in [Nodes -> SUBSET Nodes]
    /\ state' = [n \in Nodes |-> "waiting"] /\ released' = {}

Start(n) ==
    /\ state[n] = "waiting"
    /\ n \in released \/ \A d \in dependsOn[n] : state[d] = "ended"
    /\ state' = [state EXCEPT ![n] = "started"] /\ UNCHANGED <<dependsOn, released>>

Finish(n) ==
    /\ state[n] = "started"
    /\ \E s \in {"ended", "broken"} : state' = [state EXCEPT ![n] = s]
    /\ UNCHANGED <<dependsOn, released>>

GiveUp ==
    /\ \E set \in SUBSET {n \in Nodes : state[n] = "waiting"} : released' = released \cup set
    /\ UNCHANGED <<dependsOn, state>>

Next == NewPlan \/ GiveUp \/ \E n \in Nodes : Start(n) \/ Finish(n)

Spec == Init /\ [][Next]_vars
=============================================================================
