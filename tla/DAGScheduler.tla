----------------------------- MODULE DAGScheduler -----------------------------
(***************************************************************************)
(* backend/src/execution/scheduler.py: the tasks of a plan are run as      *)
(* their dependencies end, at most Concurrency at a time.  Without a ready *)
(* task for a while (the stall timeout), all that wait are let go.         *)
(*                                                                         *)
(* Notifying the children of a task that has ended takes locks that nobody *)
(* else holds and never waits, so it is one step.                          *)
(***************************************************************************)
EXTENDS Integers, Sequences, FiniteSets, SequencesExt

CONSTANTS Nodes, Concurrency
ASSUME SchedulerAssumption ==
    Nodes \subseteq Nat /\ IsFiniteSet(Nodes) /\ Concurrency \in Nat \ {0}

VARIABLES
    deps,           \* depends_on of the plan: a list for each task
    remainingDeps, ready,
    pending,        \* the number of tasks not launched yet
    queued,         \* the tasks launched, waiting for a slot, in order
    phase           \* "pending", "tool", "summary", "completed", "skipped", "failed" or "raised"

scheduler == <<deps, remainingDeps, ready, pending, queued, phase>>

NoTasks == [n \in Nodes |-> <<>>]
SchedulerInit ==
    /\ deps = NoTasks /\ remainingDeps = [n \in Nodes |-> 0] /\ ready = <<>>
    /\ pending = 0 /\ queued = <<>> /\ phase = [n \in Nodes |-> "pending"]

InFlight == {n \in Nodes : phase[n] \in {"tool", "summary"}}

\* A set of tasks in the order of the plan, which numbers them.
InOrder(S) ==
    CHOOSE s \in [1..Cardinality(S) -> S] : \A i, j \in 1..Cardinality(S) : i < j => s[i] < s[j]

\* How often a list of dependencies names a task.
Times(n, list) == Cardinality({i \in DOMAIN list : list[i] = n})

\* run, up to its first wait: plan gives the tasks their dependencies.
Load(plan) ==
    /\ deps' = plan /\ remainingDeps' = [n \in Nodes |-> Len(plan[n])]
    /\ ready' = InOrder({n \in Nodes : plan[n] = <<>>})
    /\ pending' = Cardinality(Nodes) /\ queued' = <<>> /\ phase' = [n \in Nodes |-> "pending"]

\* The main loop takes a ready task and creates its runner.
Launch ==
    /\ ready # <<>>
    /\ ready' = Tail(ready) /\ pending' = pending - 1 /\ queued' = Append(queued, Head(ready))
    /\ UNCHANGED <<deps, remainingDeps, phase>>

\* Mutant: the tasks let go keep their counters.
StallKeepsCounters ==
    /\ pending > 0 /\ ready = <<>>
    /\ ready' = InOrder({n \in Nodes : remainingDeps[n] > 0})
    /\ UNCHANGED <<deps, remainingDeps, pending, queued, phase>>

\* Mutant: a stall lets nothing go.
StallOnlyLogs ==
    /\ pending > 0 /\ ready = <<>> /\ UNCHANGED scheduler

\* Nothing was ready for the stall timeout.
Stall ==
    /\ pending > 0 /\ ready = <<>>
    /\ ready' = InOrder({n \in Nodes : remainingDeps[n] > 0})
    /\ remainingDeps' = [n \in Nodes |-> IF remainingDeps[n] > 0 THEN 0 ELSE remainingDeps[n]]
    /\ UNCHANGED <<deps, pending, queued, phase>>

\* The runner gets a slot: run_one begins.
Acquire ==
    /\ queued # <<>> /\ Cardinality(InFlight) < Concurrency
    /\ queued' = Tail(queued) /\ phase' = [phase EXCEPT ![Head(queued)] = "tool"]
    /\ UNCHANGED <<deps, remainingDeps, ready, pending>>

\* run_one returns: a child whose counter comes down to 0 is ready.
Done(n, as) ==
    LET count(c) == remainingDeps[c] - Times(n, deps[c])
    IN  /\ remainingDeps' = [c \in Nodes |-> count(c)]
        /\ ready' = ready \o InOrder({c \in Nodes : remainingDeps[c] > 0 /\ count(c) = 0})
        /\ phase' = [phase EXCEPT ![n] = as]
        /\ UNCHANGED <<deps, pending, queued>>

\* run_one raises: the children are not told.
Raise(n) ==
    /\ phase' = [phase EXCEPT ![n] = "raised"]
    /\ UNCHANGED <<deps, remainingDeps, ready, pending, queued>>

\* Every runner was created and has ended.
Drained == pending = 0 /\ queued = <<>> /\ InFlight = {}
=============================================================================
