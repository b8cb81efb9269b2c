# A TLA+ model of SCL

SCL is a collection of agent programs. Its largest one, `src/enterprise-agent`, is a
runtime that executes the plans of language models on business systems under control:
durable tasks, policies, approvals, retries, reconciliation, compensation and crash
recovery. Around it stand a desktop client for a command-line agent, a research pipeline,
a customer service agent, a desktop assistant with a knowledge base, a memory of past
sessions, a debug bridge and a game. This directory holds TLA+ modules of these programs,
the TLC runs that check them on small instances, and TLAPS proofs of what matters most
about the runtime and about each of the other state machines.

Paths without a prefix in the parts about the enterprise agent are under
`src/enterprise-agent/app/`.

- [1. The system](#1-the-system)
- [2. Modules and code](#2-modules-and-code)
- [3. Runs](#3-runs)
- [4. Fairness](#4-fairness)
- [5. Proofs](#5-proofs)
- [6. What the code does differently from what it says](#6-what-the-code-does-differently-from-what-it-says)
- [7. What is not modelled](#7-what-is-not-modelled)
- [8. Plan](#8-plan)

`PROJECT.json` lists components, runs, mutants, the map from definitions to source lines,
findings, hazards and theorems.

## 1. The system

### enterprise-agent

| part | state it keeps | operations |
|---|---|---|
| state machines (`core/state_machine.py`, `core/enums.py`) | none: two tables status × event → status | `next_task_status`, `next_step_status`; an event without a row raises |
| orchestrator (`runtime/orchestrator.py`) | the rows of tasks and steps | `start_task`, `resume_task`, `cancel_task`; inside: the loop `_drive`, `_advance_step`, `_execute_step`, `_reconcile_step`, `_schedule_retry`, `_fail_and_settle`, `_settle_unresolved_steps`, `_settle_approvals`, `_finalize` |
| executor (`actions/executor.py`) | execution records, one per idempotency key | `execute` (announce, call, record), `reconcile` |
| saga (`actions/compensation.py`) | statuses of steps | `compensate_task`, latest step first |
| tools (`actions/tools/`) | discounts, notifications | `execute`, `query_external_status`, `compensate` |
| policy engine (`control/policy_engine.py`, `control/policies/`) | none (windows of a rate limiter that nothing feeds) | `evaluate`: ten policies in order |
| approval gate (`control/approval_gate.py`, `api/routes_approvals.py`) | approvals with a deadline | `request_approval`, `decide`, `expire_overdue` |
| identities (`control/authorization.py`, `security/identity.py`) | tables of users, agents, services | `resolve`, `is_approver` |
| recovery and scheduler (`runtime/recovery.py`, `runtime/scheduler.py`) | none | the periodic scan that resumes tasks, the sweep of approvals |
| sessions (`state/database.py`, `state/repositories.py`) | one transaction per request | commit, roll back |
| multi-agent runtime (`runtime/multi_agent.py`) | results per slot | parallel, sequential, conditional runs with timeouts and an aggregation rule |

How they interact: an HTTP request, an iteration of the background scheduler, or one task
of a scan opens a database session and calls the orchestrator. Everything the orchestrator
does until the session ends, calls of the executor, of the policies, of the gate and of
the saga included, is one transaction. Between sessions nothing of a task lives in memory:
approval, cancellation, sweep and recovery meet only in the tables.

What is hard about it:

- A call whose answer never came (a timeout, a process that died) may have taken effect.
  The runtime must ask the world before it repeats or compensates anything.
- A task is parked for a human and taken up again by another session, on other facts.
- A saga undoes effects of which some cannot be undone, or fail to be.
- Requests overlap: decisions, resumes, cancellations and the sweep read before they hold
  the write lock of the database.
- Ten policies, some of which read what others found, come to one decision, twice.

What makes it correct, part by part: a terminal task is final and its rows agree with what
the tools did; a gated effect has an approval that stands; an unanswered call is reconciled
before it is retried; a saga is all or a human; every created task ends; the chain of
policies means one table; a customer has one active discount; nobody approves his own.

### The other programs

| program | state it keeps | operations | what is hard about it |
|---|---|---|---|
| `QQQQC`: a desktop client that runs one command-line agent per task | rows of tasks, an events file per task, handles of processes, permission requests, schedules, a mailbox of files, documents | send, interrupt, switch mode or model, answer a permission, delete; emit and stream events; poll the mailbox; fire schedules | threads of requests and of pumps meet in tables no lock spans; a process is replaced while its exit is still to come; events overtake each other; a crash between marking and storing |
| `maps-deep-research-agent-public`: plan, execute, compose | the graph of tasks, a stream of events, a page with a history, a cache | parse the plan, launch, stall, summarize, stop, restore | bounded concurrency with a guard that lets waiting tasks go; a tool that raises; a page that changes runs |
| `ai-cs-agent`: customer service | orders, refunds, tickets, sessions | a loop of model and tools, guardrails, one transaction per tool | a status is read before the transaction that depends on it; the log or the commit fails between a call and its result |
| `agent`: a desktop assistant | sessions file, stop flags, permitted paths, a knowledge base | chat, stop, approve, rename, delete; ingest and search | a request outlives its connection; dialogs nobody answers; handlers that write back what they loaded |
| `ccmem`: a memory of past sessions | an index of transcripts that grow while they are read | hook, index, rebuild, prune, show, recall | overlapping processes, half-written lines, deaths between two commits |
| `scl-agent-debug-vscode`: a bridge from an agent to a debugger | a queue and timers, a session, a stop, waiters | calls, events of a debugger | a connection that is lost with requests on their way; a session that ends between two steps |
| `wolf-game`: a werewolf game of language models | roles, potions, badge, votes | nights, elections, votes, deaths | deaths within deaths; a game replaced while it waits |
| `youtube-subtitle`, `plugin-demo`, `blog`, `agent-team-fault-diagnosis` | none | | |

The programs do not call each other: `QQQQC` and `ccmem` work on what the same external
command-line agent writes, and share no state.

What makes them correct, part by part: a view of a task receives its events in order and
misses none; the tracked process runs with the task's settings and none is lost; a message
is delivered, once; a research task runs once and after its dependencies, and the run ends;
settled orders stay settled; no answer on the knowledge base comes of empty searches; what was
indexed can be found and what was pruned cannot; a debug call is answered, and one that was
refused is never carried out; a game that was replaced ends.

## 2. Modules and code

| module | models | builds on |
|---|---|---|
| `AgentStatus` | enterprise-agent: the two transition tables and the sets of statuses | |
| `Orchestrator` | one task from its request to its end | `AgentStatus` |
| `ConcurrentSessions` | requests for one task that overlap | `Orchestrator` |
| `PolicyEngine` | one request through the ten policies | |
| `DiscountDesk` | several tasks, approvers and customers around the engine | `PolicyEngine` |
| `MultiAgent` | sub-agents in slots and how their results count; the four agents that evaluate a discount | `PolicyEngine` |
| `Planning` | from a sentence to the steps of a task | |
| `RetryPolicy`, `IdempotencyKey`, `Identities`, `NotificationTool` | the rules their names say | |
| `EventFeed` | QQQQC: events from the emitting threads to a page | |
| `TaskSessions` | the processes behind one task | |
| `NetChat` | the mailbox; the claim of an ID in a repository | |
| `Stores` | schedules; friends, moments, projects, skills, the events file | |
| `TaskOrder` | maps: what the pipeline promises of the tasks of a plan | |
| `DAGScheduler` | the ready queue, the slots, the stall guard | |
| `ResearchRun` | stages, stream, page and history | `DAGScheduler`, implements `TaskOrder` |
| `ResearchPlan`, `MapTools` | the plan of a planner's answer; arguments, requests, cache and evidence of the tools | |
| `CustomerService` | ai-cs-agent: threads, tools and transactions | |
| `AgentChat` | agent: requests, the loop, permissions, sessions | |
| `KnowledgeBase` | chunks, fusion, ranking and answers; trimming | |
| `SessionMemory` | ccmem: transcripts, index runs, prune | |
| `MemorySearch` | tokens, parts, ranking, injection | |
| `McpBridge`, `DebugBridge` | scl-agent-debug-vscode: the transport; the debugger above it | `DebugBridge` extends `McpBridge` |
| `Werewolf` | wolf-game: one game | |
| `MCOrchestrator`, `MCConcurrent`, `MCDesk`, `MCSessions`, `MCResearch`, `MCService`, `MCAgent`, `MCMemory`, `MCDebug`, `MCWerewolf` | instances for TLC; `MCDesk` and `MCSessions` also hold the assumptions about the rules of the enterprise agent and of the stores | |
| `OrchestratorProofs` | theorems about one task, with and without overlapping requests | `ConcurrentSessions` |
| `DiscountDeskProofs`, `DebugBridgeProofs`, `WerewolfProofs`, `SessionMemoryProofs` | theorems about the module of that name | that module |
| `DesktopProofs` | theorems about the three state machines of QQQQC | `EventFeed`, `NetChat`, `TaskSessions` |
| `AgentLoopProofs` | theorems about the two agents that answer in a loop of model and tools | `AgentChat`, `CustomerService` |
| `ResearchProofs` | that the pipeline implements `TaskOrder` | `ResearchRun` |

Each module is one of two kinds. A state machine has one action per operation, split where
another thread, process or message may come in between: at an await, at the end of a lock,
at a commit, at a call that leaves the program. A module of rules has operators only: it
models functions that read and return values, and an MC module compares them with a
reference definition or a promise over all small inputs, as an `ASSUME` that TLC evaluates.
Two proof modules are about several state machines that share no variable; those have names of
their own for their initial states and steps (`FeedInit`, `MailNext`, `ServiceSpec`, ...).
Some modules keep history variables (`late`, `evicted`, `verdicts`, `raced`, `dropped`,
`excused`, `shifted`, `entered`, `wiped`, `searched`, `basis`); no guard reads them.

### AgentStatus

`TaskTarget(status, event)` and `StepTarget(status, event)` are the sets of targets of a
row: one status, or none when the table has no such row. An action that moves a status
says `TaskMoves(event)`; an event without a row disables it, where the code raises.

### Orchestrator

*State.* A request is one transaction, so the module has two images of the rows: `task`,
`step`, `retry`, `rec`, `effect`, `keyed`, `appr` are what the open session sees, `db` is
what is committed. `effect` is the world outside the books: whether the tool's effect is
in force, was revoked, or never happened. `pc` is where the handler of the open session
is: `"idle"` without a session; `"stale"` and `"settle"` in `_settle_unresolved_steps` and
`_settle_approvals`; `"drive"` at the head of the loop; `"call"` inside a tool;
`"reconcile"`, `"fail"`, `"compensate"` in the functions of those names; `"commit"` at the
end. `cur`, `iter`, `todo`, `followup`, `back`, `by` are its locals. `overdue`, `stale`,
`buried` and `faults` are the clock and the accidents around it.

*Actions.* Requests open a session (`StartTask`, `ResumeTask`, `Decide`) or are one
(`CancelTask`, `SweepExpiredApprovals`). The loop takes the first actionable step, asks
the policies (`DriveDenied`, `DriveManualReview`, `DriveRequestApproval`, `DriveExecute`)
and calls the tool, which succeeds, fails, or leaves the step unresolved whatever it did
to the world. Reconciliation asks the tool's `query_external_status` when the step has a
reliable one. Failures settle or retry; the saga undoes the last step first; the session
commits or, at any moment, rolls back (`RollBack`). `RecoverOneFails` is the recovery
scan, which catches an exception inside its session and so commits half a resume.

*Where histories begin.* With no task, or, when the constant `Interrupted` is set, with a
committed step `RUNNING` whose outcome nobody recorded and whose effect may or may not be
in force: the state that `resume_task` is written for and that
`tests/integration/test_reliability.py:177-226` builds by hand. In the bundled program the
discount tool writes through the orchestrator's own session, so that a crash takes the
effect back with the record; with a tool outside that database it does not.

*Plans.* The planner's output is an input. A step has a kind (read, write, notify),
criticality, dependencies, whether the policies ask for approval, whether it can be
undone, whether its outcome can be asked for, and whether the key registered with it is
the one the executor derives (the two are made of different arguments).

*Approvals by the hundred.* `_has_granted_approval` and `_settle_approvals` look for a
step's approval among `list_approvals(limit=200)`. `BusyDesk` lets two hundred newer ones
exist, and `buried` says whose approval they hide. A step that waits for a retry when its
approval is hidden asks for another one, which its table has no row for
(`orchestrator.py:1399`): every later scan raises. In the model the session can then only
roll back, and `EventuallyTerminal` excuses the task.

### ConcurrentSessions

The default database is SQLite. A transaction takes the write lock with its first write
and keeps it until it commits; what a request reads before that belongs to no transaction;
and the session's identity map is weak, so that rows are read again afterwards. Sessions
therefore write one at a time, as in `Orchestrator`, but a request may have looked before
another session wrote. `early` holds the requests that have read and not yet written, with
what they have seen; `Admit...` lets one in when the lock is free, and it acts on what it
saw. The `version` column of the tables is never compared, so nothing stops it.
`IllegalTransition` is what happens when such a session asks a terminal task for a move.

### PolicyEngine

One step of the specification is one policy. Identities, tools and customers are tables
given by constants, because the engine takes them from a provider, a registry and the
business tables. `policies` is the tuple of results in the order of
`build_default_policy_engine`; `NextPolicy` downgrades a request for approval when the
approval has been granted, keeps the stronger decision, carries the highest risk on to the
policies that read it, and stops at a refusal. Two facts of this build are modelled as
they are: the windows of the rate limiter are always empty, because nothing calls
`record_write` or `record_failure`; and a confidence of `0.0` is read back from the
step's row as `0.9`.

### DiscountDesk

Each task has a plan of one step. Its action is judged when the task starts and judged
again, on facts read afresh, when its approval has been decided. What `Orchestrator` shows
of retries, timeouts and compensation is here a choice of outcomes of an allowed action;
what a session writes is written at its end. `Approve` with `MayDecide` is the gate:
pending, not overdue, not the requester, with the role of the approval's type. `discount`
is the table of discounts: `_find_active` in the tool and the fact `active_discount` of
the policies both read it. `COMPLETED` stands for `PARTIAL_SUCCESS` too.

### MultiAgent, Planning and the rules

A worker of `MultiAgent` is what its attempts come to; `RunSlot`, `RunParallel`,
`RunSequential`, `RunConditional` and `Aggregate` are the methods of those names.
`Evaluate` fills the slots with the four agents of `examples/discount_workflow.py`.
`Planning` follows a sentence through the parsers, the bundled planner, the normalisation
that every model's plan undergoes, the registration of its steps, and `Ran`, the order in
which a drive could run them. `RetryPolicy` has the classes of errors and the delays in
milliseconds; `IdempotencyKey` the canonical form of arguments, numbers digit by digit,
because two keys must agree or differ as the actions do; `Identities` the bundled users,
agents, services and tools; `NotificationTool` the rows it finds by key, and the faults a
test may order. `MCDesk` holds what they promise: an unknown risk is not an unrestricted
one, only a success counts, plans that are bundled run to their end, what is in doubt is
not retried, the same action has the same key, one notice per key, and so on.

### EventFeed

`emit` is three steps of a thread: a number under a lock, the line of the file, the
subscribers it finds. A connection subscribes, replays the file behind the number the
browser names and then forwards its channel, dropping what its cursor has passed (`Replay`
takes the whole file and leaves what is behind the cursor to the same test). The page
counts what it has rendered. Connections drop, the server restarts with the larger of the
row's number and the file's. `late` remembers the events that a larger number overtook.

### TaskSessions

The tables of the service (`handle`, `cancelled`, `allowance`, `pending`), the row, the
processes with their pump threads, and the requests with what they hold in their hands
between two locks: `SendMessage` / `SendRunning` / `SendWrite`, `RestartPop` /
`RestartIdle` / `RestartEnd`, `OnCliExit` / `ExitLook` / `ExitMark` and so on. A process
asks for permission once, answers, ends and is reported late. `EarlyClients` lets requests
name a task whose `create_task` has not returned, which the page does not do: with it a
process can be lost and `NoLostProcess` fails.

### NetChat

A poller lists, fetches, checks, marks, stores and deletes, one file after the other; a
change of the settings clears the stop flag before the old poller has seen it, so that two
run. The list of seen messages is capped. What is raised while a message is marked or stored
ends the poll, which `_loop` swallows (`StoreFails`): the next poll finds the message seen.

`setup` with a new ID reads `members.json`, refuses an ID that is in it, writes it back with
the ID (`ReadMembers`, `WriteMembers`) and stores the settings (`SetConfig`); with the ID that
is stored it goes to the settings at once, whatever the repository (`KeepHandle`). The
repository is external: its calls fail, others enter IDs (`EnterOther`), a list is edited by
hand so that it does not parse (`Garble`) and is read as an empty one, and a write with an old
sha is refused, which is what `UniqueIds` rests on. `entered` remembers who has entered the
ID where, `wiped` which lists could not be parsed once.

Messages and IDs share no variable: the messages are those of one installation that keeps
its repository and its ID, the IDs those of several. In `ApartSpec`, which the run checks,
one of the two parts goes and the other stays at its beginning; every property is about one
part only, and a behaviour of both is one of each with stutters. The proofs are about
`ChatSpec`, where both go.

### Stores

`compute_next` for the three kinds, the operations, and `Fire` on a copy of an item that
may have changed. The stores are values written whole; the events file is appended to, and
a crash may leave a torn line. `MCSessions` compares them with what they promise.

### TaskOrder, DAGScheduler, ResearchRun

`TaskOrder` is the abstract specification: a task is started at most once, after its
dependencies have ended or after the run has given up keeping it waiting. `DAGScheduler`
has the counters, the ready queue (filled in the order of the plan, `InOrder`), the number
of tasks not yet launched, the slots and the stall guard; a task that names a dependency
twice counts it twice and is told twice (`Times`); `ResearchRun` the stages around it, the page that shows a run, stops it,
leaves it or looks into its history. The refinement maps the phases of tasks to waiting,
started, ended and broken, and `released` to the tasks whose counter disagrees with the
dependencies still outstanding, which is how the guard leaves its mark.

`ResearchPlan` parses and colours a plan and `MapTools` follows one task: hints merged from
its dependencies, the request, cache and retries, evidence and status. The plans of the run
`research` are shown to be plans that `Parse` produces (`PlansArise`).

### CustomerService

Threads take a message, ask the model, and run one tool at a time: read and check, take a
number, write. Reading opens no transaction in SQLite, so between `ReadAndCheck` and
`Write` another thread may have committed. `last` and `broken` stand for the history of a
session: a request for a tool that is not followed by its result makes the provider refuse
every later request. Logs and commits may fail.

### AgentChat and KnowledgeBase

`AgentChat` has a request with its thread, its connection, its place in the loop of model
and tools, the dialog for a path outside the permitted ones, and the flag by which it can
be stopped; and the file of sessions, which handlers load and save in two steps. A run on the
knowledge base is offered five tools: what comes of them is an empty search, a hit, other JSON
(a list, a deletion, an error), or too late, and any of these sets `called`, the code's
`tools_called`. `searched` and `basis` remember what it was.
`KnowledgeBase` cuts, fuses, ranks and answers; `TrimMessages` drops whole rounds.

### SessionMemory and MemorySearch

A transcript is a sequence of kinds of lines, the last perhaps half-written. An index run
looks (a row, a file) and writes (chunks and the row, in one commit); others come in
between. `Write` is made of what a reading finds (`TurnsRead`), where its turns come to stand
(`Placed`: text without a question joins the turn before, `Joins`), what it adds (`Added`) and
what it counts as read without a chunk (`Skipped`). `chunks` are identified by the lines they
show, `turn` is the number `show` will look for. `excused` and `shifted` remember which lines
and which sessions an upset has cost; `stale` says that the row in the hands of a run no
longer agrees with the index, because it was rebuilt, or because another run has found the
file smaller and deleted the chunks that the row counts on. `MemorySearch` has the tokens (CJK pairs, folded Latin words), the selection of
rare tokens, the parts of a text, ranking and the injected text.

### McpBridge and DebugBridge

The transport: a connection, a queue, two kinds of timers, requests and answers on their
way. Above it what the extension believes (`activeSession`, `stoppedInfo`), the events of
an external debugger, which reports every stop and every end and need not report that it
goes on, the calls that wait and those that step in a loop.

### Werewolf

`game.js` is one thread of asynchronous functions: an action is what runs between two
awaits. What a player decides is any choice the calling code accepts; votes are any set of
winners some ballot can have, which `MCWerewolf` checks against every ballot of four.

## 3. Runs

| run | instance | distinct states | properties |
|---|---|---|---|
| `task` | 3 steps; the plans of the bundled agent, sagas of three writes, interrupted histories, another key; 1 retry, 2 faults, a busy desk, a fair scan | 415,487 | `TypeOK`, `NoEffectWithoutApproval`, `SessionIsClean`, `BooksMatchWorld`, `SagaIsWhole`, `ConsentIsKept`, `NoBlindReexecution`, `ReconciledFirst`, `TerminalIsFinal`, `EventuallyTerminal` |
| `concurrent` | 2 steps, interrupted histories, 1 retry, 1 fault, 2 early requests | 573,358 | `NoBlindReexecution`, `ConsentAtEffect` |
| `desk` | 2 tasks, 4 users, 4 customers, 23 proposals, limits 5/15/3 | 248,074 | `DeskIsConsistent`, `ChainIsTable`, `OneActiveDiscount`, `FourEyes` |
| `feed` | 2 emitting threads, 3 events, 1 view, drop and restart each | 742,859 | `ReceivedInOrder`, `NumbersAreUnique`, `OpenedViewCatchesUp` |
| `sessions` | 2 clients, 3 operations, 2 processes, 1 crash | 2,281,425 | `SettingsInForce`, `NoLostProcess`, `AnsweredOnce` |
| `netchat` | 2 messages in, 1 out, 2 pollers, a cap of 2, 2 failures, 1 change of settings, 1 crash; 3 installations, 2 repositories | 349,762 | `StoredOnce`, `UniqueIds`, `Delivered` |
| `wolf` | 6 players, 2 days | 766,602 | `OneBadge`, `HunterAnswers`, `OldGameEnds` |
| `debug` | 2 calls, 1 lost connection, 2 stops, 2 steps | 463,673 | `RefusedNeverRuns`, `NoWaiterWithoutSession`, `AnsweredOrLost` |
| `research` | 3 tasks, 2 slots, 2 runs, 12 plans | 363,996 | `KeepsOrder`, `RunEnds` |
| `service` | 2 messages, 2 threads, 2 sessions, 2 orders, 2 rounds | 553,428 | `SettledStays`, `Answered` |
| `agent` | 2 requests, 1 on the knowledge base, 2 loops, 1 edit | 207,362 | `AnswersHaveBasis`, `RunEnds` |
| `memory` | 2 transcripts, 3 lines, 2 slots, 3 runs, 1 upset | 1,137,419 | `NothingForgotten`, `TurnsAgree`, `ForgottenStays` |

What they show:

- **Consent.** A gated effect only ever exists while its approval is `APPROVED`, in the
  session and in the committed rows, through retries, parking and parking again, approvals
  that expire or cannot be seen (`NoEffectWithoutApproval`); with overlapping requests this
  remains true of the moment the effect happens (`ConsentAtEffect`), and no longer.
- **The books.** What the steps of a task say is what the tools did, and a finished task
  leaves no effect its books do not show (`BooksMatchWorld`, of steps registered under the
  key the executor derives); a task that has begun to undo its effects and reports `FAILED`
  has undone all of them (`SagaIsWhole`, of the same steps).
- **Unanswered calls.** No tool is called again while an earlier call has taken effect
  (`NoBlindReexecution`, also with overlapping requests), and reconciliation comes first:
  the loop meets resolved steps only, and a step that may run again is not held back by its
  own record (`ReconciledFirst`).
- **End.** Terminal is final (`TerminalIsFinal`, `SessionIsClean`), and every task ends
  (`EventuallyTerminal`) unless two hundred newer approvals hide its own.
- **The policies and the desk.** The chain of ten comes to one table, whoever reads whose
  findings (`ChainIsTable`). One active discount per customer (`OneActiveDiscount`), none
  beyond the limits of self-service without another person of the right role (`FourEyes`),
  and decisions on facts that still hold (`DeskIsConsistent`).
- **Events.** A page receives in order and once (`ReceivedInOrder`); numbers stay unique
  over restarts (`NumbersAreUnique`); an open view catches up with the file, but for what
  was overtaken (`OpenedViewCatchesUp`).
- **Processes.** The tracked process has the settings of the row (`SettingsInForce`); a
  process that lives is tracked, in somebody's hands, or lost to a late exit
  (`NoLostProcess`); a permission request is decided once (`AnsweredOnce`).
- **Mail.** The only ways to a second copy are the cap and two pollers at once
  (`StoredOnce`), and the only way to a loss is a crash or an exception between mark and store
  (`Delivered`). Of the installations that use an ID in a repository, one at most has entered
  it in its list, unless that could not be parsed once (`UniqueIds`); the others have brought
  it along, so that an ID itself may have several owners (`IdsAreUnique`, section 6).
- **Research.** The scheduler implements `TaskOrder` (`KeepsOrder`, a refinement), and a
  run ends whatever breaks (`RunEnds`).
- **Service.** A cancelled order is never refunded and a refunded one never cancelled,
  though neither is locked (`SettledStays`): the two begin from different statuses. Every
  message on a connection that holds gets its last event (`Answered`).
- **Assistant.** No answer on the knowledge base when nothing, or nothing but empty searches,
  has come from its tools in the same run (`AnswersHaveBasis`); that one of them was a search
  is not ensured (`AnswersAfterSearch`, section 6). Every request ends, dialogs unanswered or
  not (`RunEnds`).
- **Memory.** What the index counts as read can be found (`NothingForgotten`), under the
  number `show` uses (`TurnsAgree`), and what was pruned stays away (`ForgottenStays`),
  each but for the cases its history variable names.
- **Debugging.** What was refused never runs (`RefusedNeverRuns`), nobody waits for a dead
  session (`NoWaiterWithoutSession`), and a call is answered unless it was sent from the
  queue and lost (`AnsweredOrLost`).
- **The game.** One badge with a living holder (`OneBadge`), hunters shoot when the rules
  say (`HunterAnswers`), a replaced game ends (`OldGameEnds`).

*The rules.* The assumptions of `MCDesk` are evaluated by the run `desk`, those of
`MCSessions` by `sessions`, those of `MCResearch`, `MCAgent`, `MCMemory` and `MCWerewolf` by
the runs of their modules. They range over all inputs of a few values: numbers with and
without trailing zeros, plans of three items with any dependencies, transcripts of texts up
to four characters, five operations on a cache.

*Bounds, and why they are enough.* Steps of a plan influence each other through order,
dependencies, the saga and the first actionable one: three steps give the saga something
before, at and behind the failing one; `MaxRetries` is 3 in the code, and 1 has the retry
that is granted, the last one and the one refused. The loop of the orchestrator is bounded
by 50 in the code and by 6 here: only a session that has retried each of its steps comes to
the bound, so that the branch behind it is taken and nothing else is cut off.
`MaxFaults` 2 lets a recovery crash during a recovery. Two early requests, two tasks, two
clients, two pollers, two calls, two index runs, two threads are the least that race; the
third operation of `sessions` is the one that meets what a race of two has left. Two
processes are a predecessor and a successor. Three events are one before, one during and
one after a replay. The cap of `netchat` is 2 (800 in the code), so that it is reached;
of its three installations one may enter the ID while another brings it along and a third
claims it, and two repositories are one to leave and one to come to.
Three research tasks with two slots make one wait for a slot, one for a dependency. Two
days of six players have an election, a badge that is handed on, and every death. One
upset in `memory`; a transcript of one session with two upsets has been checked too (1.5
million states) and is too large to be run each time. A run checks no deadlock where the
system may stop: a terminal task, a page that is closed, a game that is over, or a bound
that is used up, has nothing to do. Every property has a mutant, a plausible bug of a
modelled function, that TLC finds.

The type invariants of `Orchestrator`, `DiscountDesk`, `EventFeed`, `TaskSessions`,
`Werewolf`, `SessionMemory`, of the debug bridge and of the research scheduler are proved. `ChatTypeOK`,
`Werewolf.ResultIsRight` and the inductive invariants of section 5 that TLC can evaluate
(all but `PollerInv`, which quantifies over all sets) have been checked on the instances of
their runs as well; they are not part of the runs.

## 4. Fairness

- *enterprise-agent.* `FairSpec` assumes that an open session goes on (`WF_vars(Session)`),
  that the scan comes back to a task that is not terminal (`WF_vars(ResumeTask("scan"))`),
  and that between two scans there is time for the sweep, for a deadline to pass and for a
  silent step to grow old (`SF_vars` of those three). `BackgroundScheduler._loop` justifies
  it: it runs the sweep and the scan for ever, catching what they raise, and both clocks
  advance whatever the program does; strong fairness is needed because each of these
  actions is disabled while a session is open. Nobody is obliged to decide, to cancel or to
  start anything: a task ends although no approver ever answers.
- *EventFeed.* A thread inside `emit` and the handler of a connection go on, and
  `EventSource` reconnects by itself. No thread has to emit.
- *NetChat.* `_loop` polls for ever and catches what a poll raises; it is fair per thread
  (`PollsGoOn`). No setup has to go on.
  Failures are bounded, for a repository that never answers delivers nothing.
- *Werewolf.* `WF_vars(Run)`: frames, voices and calls of models end, the calls by the
  timeout of `llm-adapter.js`. Nobody has to press a button.
- *DebugBridge.* Timers fire, received messages are handled and answered. The connection
  need not come up and the program need not stop.
- *ResearchRun.* The main loop, the slots, the stages and each task go on: the models and
  tools have timeouts. The page need not do anything.
- *CustomerService.* Each thread goes on: the client of the model times out.
- *AgentChat.* Each request goes on, and its tools end. `SpecSlow` is without the second:
  there a request may hang for ever (section 6).
- *TaskSessions, ConcurrentSessions, DiscountDesk, SessionMemory* state safety only.

## 5. Proofs

`tlapm` proves the theorems below for every value of the constants that the assumptions
allow; TLC evaluates the assumptions in the runs. What they ask:

- `Orchestrator`, `ConcurrentSessions`: a plan maps the steps to planned steps; bounds are
  naturals, `BusyDesk` and `Interrupted` any Booleans.
- `PolicyEngine`, `DiscountDesk`: limits are naturals; a discount is a registered write; risk
  levels are between 0 and 4; proposals are proposals, and `None` is none of them.
- `EventFeed`, `TaskSessions`, `NetChat`: bounds are naturals (one process at least), and
  messages are numbers; `NoRepo` is not a repository.
- `AgentChat`, `CustomerService`: bounds are naturals, runs and threads are numbers, and an
  order begins with one of the three statuses that a tool does not produce.
- `SessionMemory`: nothing.
- `McpBridge`, `DebugBridge`: requests ask for the methods there are.
- `DAGScheduler`, `ResearchRun`: a plan is finite and its dependencies are tasks of it, which
  `PlanTask.parse` sees to; there is at least one slot.
- `Werewolf`: the players are finitely many, everybody has a role, and there is at most one
  of each of the gods, as `assignRoles` deals them from `ROLES_12`.

### The orchestrator (`OrchestratorProofs`)

Any number of steps, any plans, any retry limit, any number of crashes.

| theorem | property |
|---|---|
| `TypeCorrect` | `TypeOK`, the bounds of counters included |
| `SessionsAreClean` | `SessionIsClean` |
| `TerminalIsForGood` | `TerminalIsFinal` |
| `ConsentHolds` | `ConsentIsKept` |
| `ConsentComesFirst` | `NoEffectWithoutApproval` |
| `NothingTwice` | `NoBlindReexecution` |
| `ReconciliationFirst` | `ReconciledFirst` |
| `BooksAreRight` | `BooksMatchWorld`, if `InOrder` |
| `SagaIsAllOrHuman` | `SagaIsWhole`, if `InOrder` |
| `OverlapNothingTwice` | `NoBlindReexecution` of `ConcurrentSessions` |
| `OverlapConsent` | `ConsentAtEffect` of `ConcurrentSessions` |

*Consent.* `TypeOK` is inductive by itself. `SessionIsClean` is inductive relative to it and
carries `TerminalIsFinal`: a step that changes the committed rows is a commit, a
cancellation, a sweep or the scan's failure, and the invariant says what the first may write
for a terminal task. `NoEffectWithoutApproval` is not inductive: a step may have an effect
that the books do not show yet. `ConsentIsKept` strengthens it with what the code relies on:
a step that counts as done was approved, one that has not begun has no effect, the call in
progress is that of an approved step, and the saga undoes only what counts as done.

*Calls and books.* `BooksInv` relates, in the session's image of the rows and in the
committed one, the status of each step with its execution record (`RecordFits`) and with the
world (`EffectFits`), and says what the session has in hand at each place (`InHand`): the
call in progress is that of a `RUNNING` step without an effect, the step in reconciliation is
the only one unresolved when the loop has sent it there, the saga's list holds only what has
succeeded. It gives `NoBlindReexecution` and `ReconciledFirst` for every plan.

*The saga.* `BooksMatchWorld` and `SagaIsWhole` are not true of every plan, and the attempt to
prove them showed which. In `<<Write({}), Write({3}), Write({})>>` the third step runs before
the second; when that fails, the saga looks at smaller numbers only. In a plan of two
independent writes with an interrupted history, the second may fail while the first is
`RUNNING` and too young to be asked for. Both end `FAILED` with something unsettled (section
6, `LaterUndone`, `NoneLeftRunning`). `InOrder` excludes them: steps depend on earlier steps
only, and where histories may be interrupted each also depends on the one before it. The
plans of the bundled agent and all those of the runs are of this kind. Under it `LineInv` is
inductive relative to `BooksInv`: what has begun waits for nothing, what a later step has
overtaken waits for something that has not succeeded (`Line`); at a failure nothing is under
way, and the saga has on its list all that is left to undo (`OnLine`).

*Overlapping requests.* Of the two invariants a request that acts on an old reading leaves
only part: a cancelled task may be revived, a decision overwritten. `OverlapInv` is that part:
what waits for a call has had none that took effect, an open session only adds to the effects
that are committed, the call in progress has no effect yet and the consent of the moment; and
nothing is under way for a task that has no row (`Underway`). It holds because a call is made
only from a step that the open session itself has found without an effect, and a step goes
back to waiting only through a reconciliation that counts even a revoked effect as found.

### The desk (`DiscountDeskProofs`)

Any number of tasks, any tables, any proposals, any limits.

| theorem | property |
|---|---|
| `DeskConsistent` | `DeskIsConsistent` |
| `ChainTable` | `ChainIsTable` |
| `OneActive` | `OneActiveDiscount` |
| `FourEyesHold` | `FourEyes` |

`DeskIsConsistent` is inductive: types, rows that agree, and a session whose facts are
still true. The table of the chain needs an invariant of the loop, `ChainInv`: what each
decision says of the policies that have run, and that the risk carried along is high
exactly for a reason an approver has to answer for. `Refusals`, `Reviews` and `Requests`
connect the policies with the words of the table, and `LastPolicy` is the one that reads
the risk. `FourEyes` and `OneActiveDiscount` follow from the table and from `DiscountsStay`:
whatever happens afterwards, the action, the discount and the approval of a task that has
had a discount stay what they were.

### The other programs

Any number of threads, messages, calls, tasks, players, transcripts.

| module | theorem | property |
|---|---|---|
| `DesktopProofs` | `FeedTypeCorrect` | `FeedTypeOK` |
| | `UniqueNumbers` | `NumbersAreUnique` |
| | `ReceiptInOrder` | `ReceivedInOrder` |
| | `OneOwner` | `UniqueIds` |
| | `NoDuplicates` | `StoredOnce` |
| | `AnsweredForGood` | `AnsweredOnce` |
| | `ModeIsInForce` | `SettingsInForce`, without `EarlyClients` |
| | `ProcessesAreTracked` | `NoLostProcess`, without `EarlyClients` |
| `AgentLoopProofs` | `AnswersAreGrounded` | `AnswersHaveBasis` |
| | `SettledForGood` | `SettledStays` |
| `SessionMemoryProofs` | `IndexFits` | `MemoryInv` |
| | `NothingIsForgotten` | `NothingForgotten` |
| | `TurnNumbersAgree` | `TurnsAgree` |
| | `PrunedStaysAway` | `ForgottenStays` |
| `DebugBridgeProofs` | `DebugCorrect` | `DebugInv` |
| | `RefusedIsNeverRun` | `RefusedNeverRuns` |
| | `WaitsHaveASession` | `NoWaiterWithoutSession` |
| `ResearchProofs` | `ScheduleCorrect` | `ScheduleInv` |
| | `ImplementsOrder` | `KeepsOrder`, the refinement of `TaskOrder` |
| `WerewolfProofs` | `GameTypeCorrect` | `Werewolf.TypeOK` |
| | `OneBadgeHolds` | `OneBadge` |
| | `HunterHasAnswered` | `HunterAnswers` |

*Events.* `NumbersInv`: the numbers in the file and in the hands of threads have been given,
and one that is still to be stored is in nobody else's hands. A restart goes on behind the
largest of a finite set of numbers, whose existence is proved from the least number principle
(`Greatest`). `OrderInv`: a handler at work stands where its page stands, and the page has
received nothing behind its last id.

*Processes.* `VerdictInv` follows the answer to a permission request to wherever it is: the
pump, the page, the hands of a thread, written; wherever it is, it has been decided once.
`HandleInv` is about the tracked process. Its two theorems suppose that no request names a
task before `create_task` has returned, as the page behaves: otherwise a second process may
be started before the first is registered, which then is in nobody's hands. Part of every
step is the same, that it starts nothing and moves no handle (`KeepsHandle`).

*Mail.* `ClaimInv` says of each repository whose list could always be parsed (`ListInv`) that
the list has the ID when an installation has entered it, that one at most has, and that nobody
who knows the list as it is found the ID in it. Every write makes the sha of the others old
(`OutdatedSetups`), and most steps leave the lists alone (`ListsKept`).
`OnceInv` says of a message that the capped list has not forgotten and that no two pollers
found unseen at once that one poller at most is about to mark or to store it, and that what
is in the history is in the list.

*Debugging.* `QueueInv`: a call that waits in the queue, or was given up there, has not
reached the extension, and one that waits for a stop has. The steps of the extension are
covered at once by what they have in common (`ServerStep`).

*Research.* `ScheduleInv`: a counter that has not come down counts the dependencies that have
not ended, of a task that has not begun; what is in one of the two queues is there once.
When a task ends, its children have as many fewer outstanding as they name it (`CountsDrop`).
That a set of tasks has an order at all (`InOrder`) is shown with the rank of each, the
number of those before it. Each step of the run is then a step of `TaskOrder` or a stutter
(`RunStep`).

*The game.* `BadgeInv`: game and agents agree on one holder, who may be among the dead only
between the night and the last words and when the game is over. `ShotInv`: outside the rounds
of shots a shot has been fired exactly when it was owed; within them one hunter at most is
aiming, because there is one at most, or nobody is left to be hit, which ends the game.

*Answers.* `AnswersHaveBasis` is not inductive: `Answer` reads `called`, which an empty search
sets too. `BasisInv` adds what the loop sees to: a run that has called a tool and has no basis
is about to say so, or over, since the turn with nothing but empty searches was its last
(`Over`). No other step, the user's and those of other runs included, takes a basis back
before the run is done.

*Settled orders.* What a tool has read may be stale when it writes; what makes the property true
is that a status has a past. `SettledInv` says that an order has the status it began with or
the one that its beginning leads to (`Reachable`: cancelled from pending, refunded from the
others), and that a call waiting to write has seen, and so began from, a status on the side of
its tool (`Passed`). A write then finds the order where it began, or already where it leads.

*Memory.* `MemoryInv` speaks of each session and of each run that has looked and is about to
write (`SessionFits`). What a row counts as read, the row of the table and the one in the hands
of a run alike, is in a chunk or excused (`Covered`); its turns are as many as the whole lines up
to it open, and each chunk has the number of the turn of its lines (`Counted`, `ChunkFits`),
unless the session has shifted. Without the rows of the other runs it is not inductive: a run
that writes later puts its own row in the place of a newer one, and what that row counts must
then be there. The lemmas below it say what `parse_turns` computes: the turns of a reading
are those of the lines that open one (`Parsed`), counted by cardinality (`Counting`,
`TurnsCounted`), a reading that goes on in the middle of a turn joins the turn before exactly
when that has a chunk (`PlacedTurns`, `PlacedLine`), and the chunks added cover every line
read but the skipped ones (`AddedCovers`). The attempt to prove it found the model wrong at
one place, where a run deletes the chunks of a smaller file under another one (section 6).

### Only model-checked

- Liveness under fairness, which is out of the prover's reach: `EventuallyTerminal`,
  `OpenedViewCatchesUp`, `Delivered`, `OldGameEnds`, `AnsweredOrLost`, `RunEnds` of both
  modules, `Answered`. So is whatever speaks of `ENABLED`.
- `BooksMatchWorld` and `SagaIsWhole` beyond the plans that `InOrder` describes, and the two
  properties of `TaskSessions` with `EarlyClients`, where they are false.
- The modules of rules. They compute by folds and recursive functions over sequences; what
  those do for every input needs induction over data, which the provers at hand cannot do,
  so that they are compared over small inputs only. Operators of the libraries with an
  operator for a parameter (`SelectSeq`, `SetToSortSeq`) are beyond the provers, too.

## 6. What the code does differently from what it says

Each statement below is a definition in the module named, kept after its properties as one
that does not hold. None is part of a run; each was found violated by TLC, as an invariant
or property of the instance of its run, or as an assumption where it is about a rule.
`PROJECT.json` quotes the words of the code under `findings`.

*Orchestrator and ConcurrentSessions*

- `ReadTimeoutRetried`: a read that times out fails at once. `_reconcile_step` schedules a
  retry on the row and passes the older step object on, which the retry policy refuses.
- `NotifyNeverRevokes`: a notification whose reconciliation finds nothing takes the discount
  back when its attempts are used up, because that path never looks at `critical`.
- `FailedIsSettled`: a rejected or expired approval of a later step ends the task `FAILED`
  with the effects of earlier steps in force.
- `NoneLeftRunning`: while an earlier step is `RUNNING` and not yet silent for long enough, a
  resume drives a later step that does not depend on it; when that one fails, the task ends
  `FAILED` with the earlier call unanswered, and nobody asks for it any more.
- `LaterUndone`: the saga looks only at steps with smaller numbers than the one that failed. A
  step of a larger number that a dependency has moved ahead stays in force, and the task
  is `FAILED`. (Both came out of the proof of the books, section 5.)
- `EveryKeyInBooks`: the key registered with a step is made of the proposed arguments, the
  executor's of the validated ones. When they differ, recovery asks for the wrong one and
  can end a task `FAILED` with an effect in force.
- `HiddenTaskEnds`: a decision that two hundred newer approvals hide is never seen, and the
  task waits for ever.
- `DecidedOnce`: of two decisions that overlap the second overwrites the first, on which the
  task has already acted.
- `NoRevival`: a cancellation that overtakes a resume is undone by it.

*PolicyEngine and DiscountDesk*

- `VipIsSelfService`: the three points more for a VIP change nothing: the risk policy rates
  whatever is beyond the ordinary limit as high, and what is high needs an approval.
- `DoubtIsReviewed`: a write proposed with confidence `0.0` is judged with `0.9`.

*Rules of the enterprise agent* (`MCDesk`)

- `UnassessedIsConservative`: a risk assessment that timed out changes nothing of the advice.
- `SequenceKeepsResults`: in a sequence an unexpected exception loses the earlier results.
- `NormalizedRuns`, `NormalizedRegisters`: the planner renames steps to their tools without
  renaming their dependencies, and two steps of one tool get one name, which the table refuses.
- `ZheIsKept`, `ParsersAgree`: one zhe and `85 zhe` are read as no discount; a refund as a
  query or a discount.
- `WaitsAreCapped`: the jitter comes after the limit.
- `AnyVariable`: a template variable called `name` makes the tool raise, and the step `UNKNOWN`.

*QQQQC* (`EventFeed`, `TaskSessions`, `NetChat`, `MCSessions`)

- `ReceivedIsShown`: after a reconnection the page skips as many new events as it had
  rendered. `LogInOrder`: two threads may write their lines in the other order.
- `NobodyEvicted`: the late exit of a process removes the handle of its successor.
  `StoppingEnds`, `RunningEnds`: a task may stay "stopping" or "running" without a process.
- `NeverTwice`, `NeverDropped`: two pollers after a change of the settings store a message
  twice; a crash between mark and store loses it, and so does an exception there, after which
  the next poll deletes what it finds seen.
- `IdsAreUnique`: an installation that keeps its ID and moves to another repository does not
  look into the list there; a list that does not parse is overwritten with the one ID that is
  entered next.
- `RemovedFriendsStayAway`: who removes every friend has the default ones again.
  `AppendedIsReadable`: the line appended after a torn one is lost with it. `LinesAreKept`:
  a description of two lines may rename its skill.

*The others*

- `OldTailSilent` (`Werewolf`): a replaced game lays its result over the one in progress.
- `CallsAnswered`, `StatusIsTrue`, `TerminationIsReported` (`McpBridge`, `DebugBridge`): a
  queued call that was sent and lost is never answered; "stopped" may be said of a program
  that runs; a wait that the end cuts short says `timedOut`.
- `DependenciesFirst`, `EveryTaskEnds`, `HistoryIsOwn`, `KeepsKnownDependencies` (`ResearchRun`,
  `ResearchPlan`): a task that takes longer than the stall timeout lets its dependents run
  before it; one whose tool raises stays in progress; a restored run takes in the events of
  another and is filed under its id; a dependency on a later item is dropped.
- `CacheIsFresh`, `DirectionsIgnoreFailed`, `OriginIsNoDestination`, `DistancesComplete`,
  `DeniedIsNotKept` (`MCResearch`): the memory's entries have no age; directions take places
  from failed tasks; another place of the same name is origin and destination; a distance
  matrix is always "skipped"; refusals are cached for a day.
- `OneRefundPerOrder`, `AddressOnlyPending`, `EscalationEndsService`, `EscalatedHasTicket`
  (`CustomerService`): two refunds of one order by two threads; an address changed after a
  cancellation; an agent that goes on after an escalation; an escalation without a ticket.
- `AnswersAfterSearch`, `StopFindsItsRun`, `RepliesStayStored`, `TimeoutFreesRun` (`AgentChat`),
  `TrimKeepsQuestion`, `EmptyBaseIsEmpty` (`MCAgent`): a list of the files, an error, or a search
  that came too late lets an answer through; a request whose connection was lost takes the flag
  of the next one with it; a reply stored while a handler saves is lost; a tool that takes too long
  blocks its request; a long last round is trimmed with its question; an empty knowledge
  base is told to be answered from.
- `LastLineIsFound`, `ShowFindsTurns`, `PrunedForGood` (`SessionMemory`), `PluralsMeet`
  (`MCMemory`): a line read half is lost; an answer indexed after its short prompt shifts
  the numbers; a hook that looked before a prune indexes after it; `files` is not `file`.

Seen while reading, without a statement of their own: an expired approval fails its task
where `core/state_machine.py:27-28` speaks of a human; a task in compensation cannot be
cancelled though line 32 says that tasks that are not terminal can; `TIMEOUT` stands among
the retryable codes of the enum and is never retried; a refused transition writes an audit
record, and an approval found expired is marked, in a transaction that the exception then
rolls back; approvals of type `COMPLIANCE` are never asked for; the saga goes on after a
failed compensation (`actions/compensation.py:154`); the windows of the rate limiter and of
the breaker are always empty; `eligibility` of an advice is read by nobody; a schedule that
was disabled after it was found due still fires (`QQQQC/backend/scheduler.py:193`), and one
whose firing raises ends the thread; deleting a task may leave a process for it; names of
skills without a Latin letter or digit all become one; a nearby search ignores its query;
overlapping rebuilds, a prune between two hooks and half-written lines leave the memory
without what it counts as read; so does a transcript that is replaced by a shorter one while
two runs are at it, since one deletes the chunks (`ccmem/ccmem.py:584-586`) and the other,
which had looked before, then writes a row that still counts the lines in them.

## 7. What is not modelled

- Language models, prompts, speech and context building: what a model answers is an input,
  any that the code accepts.
- Delays of retries: the code stores `next_retry_at` and does not wait for it.
- Audit, metrics, traces, logging, masking and administration: no state depends on them.
- Hashes of arguments: only whether two keys agree.
- Row locks of PostgreSQL: `ConcurrentSessions` is about the default database. Two agents
  under one `gather` share one database session, which is undefined there and left out.
- Several tasks in one scan, and its limit of a hundred: `Orchestrator` is about one task,
  `DiscountDesk` about several of one step each.
- An intent record that a crash takes back while a tool outside the database has acted
  (`actions/executor.py:142`): the bundled tools write through the same session, and
  `Interrupted` begins where such a tool would leave the task, record or none.
- QQQQC: upload, search, the desktop shell, rendering. In `NetChat`, two setups of one
  installation at a time, and what a move does to messages: those in the old repository are not
  fetched any more.
- maps: the adapters of model providers, rendering, what is left on the server of a run
  the page has left for another.
- ai-cs-agent: lookups, seeding, the admin pages; a turn that the model's limit of tokens cuts
  off in the middle of a tool call.
- agent: long-term memory, sub-agents (one kind of tool here), the loading of tool servers,
  several workers under gunicorn, which would keep flags and dialogs apart per process;
  whether a hit is about the question: what `AnswersHaveBasis` takes for a basis includes the
  answer of an empty base (`EmptyBaseIsEmpty`) and what came after `TOOL_TIMEOUT`;
  concurrent ingestion into the knowledge base and the races of rebuilding its text index.
- ccmem: statistics, redaction, migrations, transcripts that are deleted; document
  frequencies lost in a crash only change a ranking. The statements that drop all tables are
  one step, and so are the two commits of `cmd_prune`; a transcript is read in the step that
  commits what was found in it.
- scl-agent-debug-vscode: setup and the texts of results; the waiter that is left, until its
  timeout, when the debugger refuses a step. wolf-game: suspicion, claims and
  memory files, which steer choices only.
- youtube-subtitle downloads and converts a file; plugin-demo, blog and
  agent-team-fault-diagnosis are documents and scripts: nothing there keeps a state.

## 8. Plan

Done: the enterprise agent with its proofs; the state machines of the seven other programs,
all with proofs; the rules of both kinds; one refinement, model-checked and proved. Every
invariant and every action property that a run checks is stated by a theorem.

Next, in this order:

1. `BooksMatchWorld` and `SagaIsWhole` for a weaker hypothesis than `InOrder`: plans in which
   independent steps may overtake a parked one.
2. An abstract executor ("a key takes effect at most once") that `Orchestrator` implements,
   and an abstract task of `DiscountDesk` that `Orchestrator` refines.
3. A scan over several tasks with its limit, and row locks of PostgreSQL.
