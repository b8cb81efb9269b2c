------------------------------ MODULE ResearchRun ------------------------------
(***************************************************************************)
(* A research run of maps-deep-research-agent-public: the pipeline of the  *)
(* backend (agent.py, stages), its event stream, and the page that shows   *)
(* it and keeps a history (stores/research.ts, App.vue).                   *)
(*                                                                         *)
(* The stream keeps its order, so an event is taken in by the page in the  *)
(* step that sends it, if the page still listens.  Of a page are kept the  *)
(* run it says it shows, its status, and the run its report is of; 0 is    *)
(* none.  What a tool is asked, its cache and its retries only decide how  *)
(* its call ends.  Once the page has left a run and begun another, what is *)
(* left of the old one on the server is not followed.                      *)
(***************************************************************************)
EXTENDS DAGScheduler

CONSTANTS Plans, MaxRuns
ASSUME PlansAssumption == Plans \subseteq [Nodes -> Seq(Nodes)] /\ MaxRuns \in Nat
Runs == 1..MaxRuns

VARIABLES
    stage,      \* "none", "plan", "execute", "compose", "done", "over", "cancelled"
    runs,       \* the runs begun; the last one is the current one
    live,       \* the page listens to the current run
    page, history

browser == <<live, page, history>>
vars == <<scheduler, stage, runs, browser>>

EmptyPage == [run |-> 0, status |-> "idle", report |-> 0, error |-> FALSE]
Nothing == [status |-> "none", report |-> 0]

Init ==
    /\ SchedulerInit /\ stage = "none" /\ runs = 0
    /\ live = FALSE /\ page = EmptyPage /\ history = [r \in Runs |-> Nothing]

Quiet == UNCHANGED <<stage, runs, browser>>

-----------------------------------------------------------------------------
\* What the page does with an event, handleEvent, if it still gets it.
Show(new) == page' = IF live THEN new ELSE page

ErrorEvent(p) == [p EXCEPT !.status = "failed", !.error = TRUE]

DoneEvent(p) ==
    IF p.status = "running" THEN [p EXCEPT !.status = IF p.error THEN "failed" ELSE "succeeded"] ELSE p

\* persistRun: the snapshot is filed under the run the page says it shows.
PersistRun(p) ==
    history' = IF live /\ p.run # 0
        THEN [history EXCEPT ![p.run] = [status |-> IF p.status = "succeeded" THEN "succeeded" ELSE "failed",
                                         report |-> p.report]]
        ELSE history

-----------------------------------------------------------------------------
\* PlanStage: the planner answers with a plan, or the run fails.
PlanReady ==
    /\ stage = "plan" /\ stage' = "execute" /\ \E p \in Plans : Load(p)
    /\ Show([page EXCEPT !.run = runs]) /\ UNCHANGED <<runs, live, history>>

\* A stage raises: error and done.
StageFails ==
    /\ stage \in {"plan", "compose"} /\ stage' = "over"
    /\ LET p == DoneEvent(ErrorEvent(page)) IN Show(p) /\ PersistRun(p)
    /\ UNCHANGED <<scheduler, runs, live>>

\* _run_task.
RunTool(n) ==
    /\ phase[n] = "tool"
    /\ \/ phase' = [phase EXCEPT ![n] = "summary"] /\ UNCHANGED <<deps, remainingDeps, ready, pending, queued>>
       \/ Done(n, "failed")             \* unknown tool, or the tool says so
       \/ Raise(n)                      \* the tool cannot read its arguments or the answer
    /\ Quiet

Summarize(n) ==
    /\ phase[n] = "summary"
    /\ \E s \in {"completed", "skipped", "failed"} : Done(n, s)
    /\ Quiet

ExecuteEnds ==
    /\ stage = "execute" /\ Drained /\ stage' = "compose"
    /\ UNCHANGED <<scheduler, runs, browser>>

\* ComposeStage: the report, with a plain itinerary if that one fails.
Compose ==
    /\ stage = "compose" /\ stage' = "done" /\ Show([page EXCEPT !.report = runs])
    /\ UNCHANGED <<scheduler, runs, live, history>>

RunDone ==
    /\ stage = "done" /\ stage' = "over"
    /\ LET p == DoneEvent(page) IN Show(p) /\ PersistRun(p)
    /\ UNCHANGED <<scheduler, runs, live>>

-----------------------------------------------------------------------------
\* The user.  The form is open unless the page says that it is running.
OnSubmit ==
    /\ page.status # "running" /\ runs < MaxRuns
    /\ runs' = runs + 1 /\ stage' = "plan" /\ live' = TRUE
    /\ page' = [EmptyPage EXCEPT !.status = "running"]
    /\ UNCHANGED <<scheduler, history>>

\* A stream that is left lets the run go on or cancels it; its tasks go on.
Leave == live' = FALSE /\ (stage' = stage \/ (stage \in {"plan", "execute", "compose"} /\ stage' = "cancelled"))

StopRun ==
    /\ page.status = "running" /\ Leave
    /\ page' = [page EXCEPT !.status = "failed", !.error = TRUE]
    /\ UNCHANGED <<scheduler, runs, history>>

StreamBreaks ==
    /\ live /\ stage \notin {"none", "over"} /\ Leave
    /\ page' = [page EXCEPT !.status = "failed", !.error = TRUE]
    /\ UNCHANGED <<scheduler, runs, history>>

RestoreSnapshot(r) ==
    /\ history[r] # Nothing
    /\ page' = [run |-> r, status |-> history[r].status, report |-> history[r].report, error |-> FALSE]
    /\ UNCHANGED <<scheduler, stage, runs, live, history>>

-----------------------------------------------------------------------------
MainLoop == stage = "execute" /\ (Launch \/ Stall) /\ Quiet
Slots == Acquire /\ Quiet
TaskStep(n) == RunTool(n) \/ Summarize(n)
Stages == PlanReady \/ StageFails \/ ExecuteEnds \/ Compose \/ RunDone
User == OnSubmit \/ StopRun \/ StreamBreaks \/ \E r \in Runs : RestoreSnapshot(r)

Next == MainLoop \/ Slots \/ Stages \/ User \/ \E n \in Nodes : TaskStep(n)

\* The loop goes round, slots are given, tools and models answer or time out.
Spec == /\ Init /\ [][Next]_vars
        /\ WF_vars(MainLoop) /\ WF_vars(Slots) /\ WF_vars(Stages) /\ \A n \in Nodes : WF_vars(TaskStep(n))

-----------------------------------------------------------------------------
\* A task is taken up once, after its dependencies, unless the run gave up on
\* them: the counters of the scheduler keep the order that TaskOrder promises.
Ended == {"completed", "skipped", "failed"}
Outstanding(n) == Cardinality({i \in DOMAIN deps[n] : phase[deps[n][i]] \notin Ended})
DependsOn == [n \in Nodes |-> ToSet(deps[n])]
TaskState ==
    [n \in Nodes |-> CASE phase[n] = "pending" -> "waiting" [] phase[n] \in {"tool", "summary"} -> "started"
                       [] phase[n] = "raised" -> "broken" [] OTHER -> "ended"]
Released == {n \in Nodes : remainingDeps[n] # Outstanding(n)}
Order == INSTANCE TaskOrder WITH dependsOn <- DependsOn, state <- TaskState, released <- Released
KeepsOrder == Order!Spec

\* A run ends, even when tasks break and their dependents are never told.
RunEnds == stage \in {"plan", "execute", "compose", "done"} ~> stage \in {"over", "cancelled"}

\* Every task of a run that has written its report has ended.  The code does not
\* keep this: a task whose tool raises stays in progress.
EveryTaskEnds == stage = "done" => \A n \in Nodes : phase[n] # "raised"

\* A task begins after its dependencies.  The code does not keep this: a slow
\* task is taken for a dependency that does not exist.
DependenciesFirst == [][\A n \in Nodes : phase[n] = "pending" /\ phase'[n] = "tool" =>
                            \A d \in ToSet(deps[n]) : phase[d] \notin {"pending", "tool", "summary"}]_vars

\* The history of a run holds its own report.  The code does not keep this: the
\* events of a run in progress go on into a run called back from the history.
HistoryIsOwn == \A r \in Runs : history[r].report \in {0, r}
=============================================================================
