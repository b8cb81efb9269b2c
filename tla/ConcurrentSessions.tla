------------------------- MODULE ConcurrentSessions -------------------------
(***************************************************************************)
(* Requests for one task that overlap.  The default database is SQLite: a  *)
(* transaction takes the write lock with its first write and keeps it      *)
(* until it commits, and what it reads before that is not part of any      *)
(* transaction.  So one session writes at a time, as in Orchestrator, but  *)
(* a request may have looked at the task before another session changed    *)
(* it, and then acts on what it has seen: nothing compares the version     *)
(* column that the tables carry.                                           *)
(*                                                                         *)
(* A request arrives (it reads the committed rows, even while another      *)
(* session is open), waits for the write lock, and is admitted or gives    *)
(* up.  Once admitted it reads again and is a session of Orchestrator.     *)
(***************************************************************************)
EXTENDS Orchestrator, FiniteSets

CONSTANT MaxEarly   \* bound on the requests that have read and not yet written
ASSUME EarlyAssumption == MaxEarly \in Nat

VARIABLE early      \* those requests, with what they have seen

cvars == <<vars, early>>

\* What a request keeps of its first read: the status of the task, and the steps it
\* will write to because of what it saw of them.
Seen == [kind : {"scan", "api", "approve", "reject", "cancel", "sweep"},
         status : TaskStatus, marks : SUBSET Steps]

-----------------------------------------------------------------------------
(* Arrivals.                                                                 *)

Arrive(kind, marks) ==
    /\ Cardinality(early) < MaxEarly
    /\ early' = early \cup {[kind |-> kind, status |-> db.task, marks |-> marks]}
    /\ UNCHANGED vars

\* resume_task: a terminal task is left alone; silent RUNNING steps are noted.
ArriveResume(who) ==
    /\ db.task # "ABSENT" /\ ~Terminal(db.task)
    /\ Arrive(who, {s \in Steps : db.step[s] = "RUNNING" /\ stale})

\* ApprovalGate.decide: the approval is found PENDING and not overdue.
ArriveDecide(s, verdict) ==
    /\ db.appr[s] = "PENDING" /\ ~overdue
    /\ Arrive(verdict, {s})

ArriveCancel ==
    /\ db.task # "ABSENT" /\ ~Terminal(db.task)
    /\ Arrive("cancel", {})

\* expire_overdue: the overdue approvals are selected.
ArriveSweep ==
    /\ overdue
    /\ Arrive("sweep", {s \in Steps : db.appr[s] = "PENDING"})

-----------------------------------------------------------------------------
(* Admissions: the lock is free when no session of Orchestrator is open.     *)

Admitted(r) == /\ pc = "idle"
               /\ r \in early
               /\ early' = early \ {r}

\* Mutant of AdmitResume: the silent step goes straight to a retry.
RetrySilent(r) ==
    /\ Admitted(r) /\ r.kind \in {"scan", "api"}
    /\ step' = [s \in Steps |-> IF s \in r.marks THEN "RETRY_SCHEDULED" ELSE step[s]]
    /\ by' = r.kind /\ pc' = "settle"
    /\ UNCHANGED <<task, retry, rec, effect, keyed, appr, db, world, back, cur, iter, todo, followup>>

\* resume_task: the steps seen silent are marked, whatever they have become.
AdmitResume(r) ==
    /\ Admitted(r) /\ r.kind \in {"scan", "api"}
    /\ step' = [s \in Steps |-> IF s \in r.marks THEN "UNKNOWN" ELSE step[s]]
    /\ by' = r.kind /\ pc' = "settle"
    /\ UNCHANGED <<task, retry, rec, effect, keyed, appr, db, world, back, cur, iter, todo, followup>>

\* ApprovalRepository.decide writes the verdict; the task is then read again.
Verdict(kind) == IF kind = "approve" THEN "APPROVED" ELSE "REJECTED"
AdmitDecide(r) ==
    /\ Admitted(r) /\ r.kind \in {"approve", "reject"}
    /\ appr' = [s \in Steps |-> IF s \in r.marks THEN Verdict(r.kind) ELSE appr[s]]
    /\ by' = "decide" /\ pc' = IF Terminal(task) THEN "commit" ELSE "stale"
    /\ UNCHANGED <<task, step, retry, rec, effect, keyed, db, world, back, cur, iter, todo, followup>>

\* cancel_task writes the target of the transition from the status it has seen.
AdmitCancel(r) ==
    /\ Admitted(r) /\ r.kind = "cancel"
    /\ task' \in TaskTarget(r.status, "CANCEL")
    /\ db' = [db EXCEPT !.task = task']
    /\ UNCHANGED <<step, retry, rec, effect, keyed, appr, world, local, pc>>

AdmitSweep(r) ==
    /\ Admitted(r) /\ r.kind = "sweep"
    /\ appr' = [s \in Steps |-> IF s \in r.marks THEN "EXPIRED" ELSE appr[s]]
    /\ db' = [db EXCEPT !.appr = appr']
    /\ overdue' = (overdue /\ \E s \in Steps : appr'[s] = "PENDING")
    /\ UNCHANGED <<task, step, retry, rec, effect, keyed, plan, buried, stale, faults, local, pc>>

\* The database stays locked for longer than the driver waits, or the process dies.
GiveUp(r) == r \in early /\ early' = early \ {r} /\ UNCHANGED vars

-----------------------------------------------------------------------------
\* A session that was admitted to a task that has ended asks for a transition that a
\* terminal status does not have.  The exception rolls the session back, except that
\* recover_one swallows it and commits what the session had done.
IllegalTransition ==
    /\ Terminal(task)
    /\ pc = "fail" \/ (pc = "reconcile" /\ SideEffect(cur) /\ ~plan[cur].sure)
    /\ pc' = "idle"
    /\ IF by = "scan"
       THEN db' = Image /\ UNCHANGED rows
       ELSE /\ task' = db.task /\ step' = db.step /\ retry' = db.retry /\ rec' = db.rec
            /\ effect' = db.effect /\ keyed' = db.keyed /\ appr' = db.appr
            /\ UNCHANGED db
    /\ UNCHANGED <<world, local, early>>

CInit == Init /\ early = {}

ArriveAny == \/ \E who \in {"scan", "api"} : ArriveResume(who)
             \/ \E s \in Steps, v \in {"approve", "reject"} : ArriveDecide(s, v)
             \/ ArriveCancel \/ ArriveSweep

Admit == \E r \in early : \/ AdmitResume(r) \/ AdmitDecide(r)
                          \/ AdmitCancel(r) \/ AdmitSweep(r) \/ GiveUp(r)

CNext == \/ ArriveAny \/ Admit \/ IllegalTransition
         \/ (StartTask \/ StartRefused \/ Session \/ World) /\ UNCHANGED early

CSpec == CInit /\ [][CNext]_cvars

-----------------------------------------------------------------------------
(* What overlapping requests cannot break.                                   *)

\* At the moment a gated step takes effect its approval stands APPROVED, whatever
\* decisions, sweeps and retries are under way (later ones may still overwrite it).
ConsentAtEffect ==
    [][\A s \in Steps : plan[s].gated /\ effect[s] = "none" /\ effect'[s] = "live"
                          => appr[s] = "APPROVED"]_cvars

-----------------------------------------------------------------------------
(* What the documents of the repository say, and overlapping requests break. *)

\* "A second delivery of a decision has no effect": what was decided stays decided.
DecidedOnce ==
    [][\A s \in Steps : db.appr[s] \in {"APPROVED", "REJECTED"} =>
            db'.appr[s] = db.appr[s]]_cvars

\* "A terminal status has no way out": a task that was cancelled or has failed does
\* not start to run again.
NoRevival == [][Terminal(db.task) => Terminal(db'.task)]_cvars
=============================================================================
