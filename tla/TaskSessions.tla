---------------------------- MODULE TaskSessions ----------------------------
(***************************************************************************)
(* QQQQC: the processes behind one task.  Threads of HTTP requests send    *)
(* messages, interrupt, switch the permission mode, answer permission      *)
(* requests and delete the task; for each process a pump thread reads what *)
(* it says and, at its end, its exit.  They meet in the service's tables,  *)
(* guarded by a lock, and in the row of the task, guarded by another; no   *)
(* lock spans an operation.  What is emitted is the matter of EventFeed.   *)
(***************************************************************************)
EXTENDS Naturals, Sequences, FiniteSets

CONSTANTS Clients,       \* threads of HTTP requests
          MaxProcs,      \* bound on the processes started
          MaxOps,        \* bound on the operations requested and the crashes together
          MaxCrashes,    \* bound on the crashes of the server
          EarlyClients   \* whether requests may name the task before create_task returns

ASSUME SessionAssumption == /\ MaxProcs \in Nat \ {0} /\ MaxOps \in Nat /\ MaxCrashes \in Nat
                            /\ EarlyClients \in BOOLEAN

Procs == 1..MaxProcs
None == 0
Modes == {"default", "bypassPermissions"}

VARIABLES
    row,        \* the row of the task: whether it exists, its permission mode and status
    handle,     \* _handles: the tracked process
    cancelled,  \* whether the task is in _cancelled
    allowance,  \* _perm_session_allow: whether the tool is allowed for the session
    pending,    \* _perm_pending; a process asks once, so its number names the request
    proc,       \* the processes and their pump threads
    creator,    \* where create_task is
    client,     \* where each request is, the process and the answer in its hands
    ops, crashes,
    verdicts,   \* history: what was decided about each request
    evicted     \* history: processes whose handle another's exit removed

vars == <<row, handle, cancelled, allowance, pending, proc, creator, client, ops, crashes, verdicts, evicted>>
tables == <<handle, cancelled, allowance, pending>>
counts == <<ops, crashes>>

Resting == [at |-> "rest", p |-> None, to |-> None, answer |-> "none"]

NoRow == [live |-> FALSE, mode |-> "default", status |-> "idle"]
Unused == [life |-> "none", mode |-> "default", pump |-> "read",
           request |-> "none", note |-> "none", to |-> None]

Init ==
    /\ row = [live |-> TRUE, mode |-> "bypassPermissions", status |-> "running"]
    /\ handle = None /\ cancelled = FALSE /\ allowance = FALSE /\ pending = {}
    /\ proc = [p \in Procs |-> Unused]
    /\ creator = "spawn"
    /\ client = [c \in Clients |-> Resting]
    /\ ops = 0 /\ crashes = 0
    /\ verdicts = [p \in Procs |-> << >>] /\ evicted = {}

IsAlive(p) == p # None /\ proc[p].life \in {"alive", "told"}

SetStatus(s) == row' = [row EXCEPT !.status = s]

\* SessionHandle.terminate on the process in hand, in the table of processes t.
Terminated(t, p) == IF p # None /\ t[p].life = "alive" THEN [t EXCEPT ![p].life = "told"] ELSE t

\* cli.start: the next process, in the mode of the row.
Fresh(p) == /\ \A q \in Procs : q < p <=> proc[q].life # "none"
            /\ proc' = [proc EXCEPT ![p].life = "alive", ![p].mode = row.mode]

\* send_control_response: the answer reaches a process that lives, and matters to it if the
\* request is its own.
Answered(t, p, to, answer) ==
    IF to = p /\ t[p].life \in {"alive", "told"}
    THEN [t EXCEPT ![p].request = IF answer = "allow" THEN "ran" ELSE "denied"] ELSE t

-----------------------------------------------------------------------------
(* create_task: the process runs before its handle is registered, and no     *)
(* lock is held in between.                                                  *)

CreateSpawn ==
    /\ creator = "spawn"
    /\ Fresh(1)
    /\ creator' = "register"
    /\ UNCHANGED <<row, tables, client, counts, verdicts, evicted>>

CreateRegister ==
    /\ creator = "register"
    /\ handle' = 1
    /\ creator' = "done"
    /\ UNCHANGED <<row, cancelled, allowance, pending, proc, client, counts, verdicts, evicted>>

-----------------------------------------------------------------------------
(* Requests.                                                                 *)

\* A request comes: the task exists (else it is answered 404).
Requested(c) == /\ client[c].at = "rest" /\ row.live
                /\ creator = "done" \/ EarlyClients
                /\ ops < MaxOps /\ ops' = ops + 1
                /\ UNCHANGED crashes

Goes(c, at) == client' = [client EXCEPT ![c].at = at]
Holds(c, at, p) == client' = [client EXCEPT ![c] = [Resting EXCEPT !.at = at, !.p = p]]
Ends(c) == client' = [client EXCEPT ![c] = Resting]

\* A mutation of a row that is gone raises: the request ends there.
Mutates(c, status, at) ==
    IF row.live THEN SetStatus(status) /\ Goes(c, at) ELSE Ends(c) /\ UNCHANGED row

\* Mutant: two requests may both find no process and start one.
SendUnlocked(c) ==
    \/ /\ Requested(c) /\ ~IsAlive(handle)
       /\ Holds(c, "send_spawn", None)
       /\ UNCHANGED <<row, tables, proc, creator, verdicts, evicted>>
    \/ /\ client[c].at = "send_spawn"
       /\ \E p \in Procs : Fresh(p) /\ handle' = p /\ Holds(c, "send_running", p)
       /\ cancelled' = FALSE
       /\ UNCHANGED <<row, allowance, pending, creator, counts, verdicts, evicted>>

SendMessage(c) ==
    /\ Requested(c)
    /\ \/ /\ IsAlive(handle)
          /\ Holds(c, "send_running", handle)
          /\ UNCHANGED <<handle, proc>>
       \/ /\ ~IsAlive(handle)
          /\ \E p \in Procs : Fresh(p) /\ handle' = p /\ Holds(c, "send_running", p)
    /\ cancelled' = FALSE
    /\ UNCHANGED <<row, allowance, pending, creator, verdicts, evicted>>

SendRunning(c) ==
    /\ client[c].at = "send_running"
    /\ Mutates(c, "running", "send_write")
    /\ UNCHANGED <<tables, proc, creator, counts, verdicts, evicted>>

\* The write to a process that has gone fails: with an error of the pipe the task is marked,
\* but once the pump has closed the stream a ValueError passes uncaught.
SendWrite(c) ==
    LET p == client[c].p
        unmarked == \/ IsAlive(p) \/ ~row.live
                    \/ proc[p].pump \notin {"read", "session", "ask", "answer", "reply"}
    IN /\ client[c].at = "send_write"
       /\ Ends(c)
       /\ IF unmarked THEN UNCHANGED row ELSE SetStatus("idle")
       /\ UNCHANGED <<tables, proc, creator, counts, verdicts, evicted>>

Interrupt(c) ==
    /\ Requested(c)
    /\ Holds(c, "int_stopping", handle)
    /\ cancelled' = TRUE
    /\ UNCHANGED <<row, handle, allowance, pending, proc, creator, verdicts, evicted>>

InterruptStopping(c) ==
    /\ client[c].at = "int_stopping"
    /\ Mutates(c, "stopping", "int_end")
    /\ UNCHANGED <<tables, proc, creator, counts, verdicts, evicted>>

InterruptEnd(c) ==
    /\ client[c].at = "int_end"
    /\ Ends(c)
    /\ proc' = Terminated(proc, client[c].p)
    /\ IF IsAlive(client[c].p) \/ ~row.live THEN UNCHANGED row ELSE SetStatus("idle")
    /\ UNCHANGED <<tables, creator, counts, verdicts, evicted>>

\* set_permission_mode; add_dir and remove_dir change the row and restart as well, in the
\* same mode.
SetPermissionMode(c) ==
    /\ Requested(c)
    /\ \E m \in Modes : row' = [row EXCEPT !.mode = m]
    /\ Goes(c, "mode_pop")
    /\ UNCHANGED <<tables, proc, creator, verdicts, evicted>>

\* Mutant: the handle is read and stays.
RestartGet(c) ==
    /\ client[c].at = "mode_pop"
    /\ Holds(c, "mode_idle", handle)
    /\ cancelled' = TRUE
    /\ UNCHANGED <<row, handle, allowance, pending, proc, creator, counts, verdicts, evicted>>

\* _restart_session.
RestartPop(c) ==
    /\ client[c].at = "mode_pop"
    /\ Holds(c, "mode_idle", handle)
    /\ handle' = None /\ cancelled' = TRUE
    /\ UNCHANGED <<row, allowance, pending, proc, creator, counts, verdicts, evicted>>

RestartIdle(c) ==
    /\ client[c].at = "mode_idle"
    /\ Mutates(c, "idle", "mode_end")
    /\ UNCHANGED <<tables, proc, creator, counts, verdicts, evicted>>

RestartEnd(c) ==
    /\ client[c].at = "mode_end"
    /\ proc' = Terminated(proc, client[c].p)
    /\ Ends(c)
    /\ UNCHANGED <<row, tables, creator, counts, verdicts, evicted>>

\* Mutant: the request stays pending until it is answered.
ResolvePeek(c) ==
    /\ Requested(c)
    /\ \E p \in pending, answer \in {"allow", "deny"} :
          /\ client' = [client EXCEPT ![c] = [Resting EXCEPT !.at = "res_look", !.p = p, !.answer = answer]]
          /\ verdicts' = [verdicts EXCEPT ![p] = Append(@, answer)]
    /\ UNCHANGED <<row, tables, proc, creator, evicted>>

\* resolve_permission; the card may be answered twice, on two pages.
ResolvePermission(c) ==
    /\ Requested(c)
    /\ \E p \in pending, answer \in {"allow", "deny"} :
          /\ pending' = pending \ {p}
          /\ allowance' \in {allowance, answer = "allow" \/ allowance}   \* once, for the session
          /\ client' = [client EXCEPT ![c] = [Resting EXCEPT !.at = "res_look", !.p = p, !.answer = answer]]
          /\ verdicts' = [verdicts EXCEPT ![p] = Append(@, answer)]
    /\ UNCHANGED <<row, handle, cancelled, proc, creator, evicted>>

\* _send_control: whichever process is tracked gets the answer.
ResolveLook(c) ==
    /\ client[c].at = "res_look"
    /\ client' = [client EXCEPT ![c].at = "res_write", ![c].to = handle]
    /\ UNCHANGED <<row, tables, proc, creator, counts, verdicts, evicted>>

ResolveWrite(c) ==
    /\ client[c].at = "res_write"
    /\ proc' = Answered(proc, client[c].p, client[c].to, client[c].answer)
    /\ Ends(c)
    /\ UNCHANGED <<row, tables, creator, counts, verdicts, evicted>>

DeleteTask(c) ==
    /\ Requested(c)
    /\ Holds(c, "del_end", handle)
    /\ handle' = None /\ cancelled' = TRUE /\ allowance' = FALSE /\ pending' = {}
    /\ UNCHANGED <<row, proc, creator, verdicts, evicted>>

DeleteEnd(c) ==
    /\ client[c].at = "del_end"
    /\ proc' = Terminated(proc, client[c].p)
    /\ Goes(c, "del_remove")
    /\ UNCHANGED <<row, tables, creator, counts, verdicts, evicted>>

DeleteRemove(c) ==
    /\ client[c].at = "del_remove"
    /\ row' = NoRow
    /\ Ends(c)
    /\ UNCHANGED <<tables, proc, creator, counts, verdicts, evicted>>

-----------------------------------------------------------------------------
(* A process and its pump.                                                   *)

Pump(p, from, to) == proc[p].pump = from /\ proc' = [proc EXCEPT ![p].pump = to]

\* The pump thread ends; of the process nothing is left but whether the tool ran.
Ended(p) == [Unused EXCEPT !.life = "gone", !.pump = "done", !.request = proc[p].request]
Leaves(p, from) == proc[p].pump = from /\ proc' = [proc EXCEPT ![p] = Ended(p)]

\* The process wants to use the tool: _on_control, up to the mode it reads in the row.
AskTool(p) ==
    /\ IsAlive(p) /\ proc[p].pump = "read" /\ proc[p].request = "none"
    /\ proc' = [proc EXCEPT ![p].pump = "session", ![p].request = "waits",
                  ![p].note = IF row.live /\ row.mode = "bypassPermissions" THEN "auto" ELSE "none"]
    /\ UNCHANGED <<row, tables, creator, client, counts, verdicts, evicted>>

CheckAllowance(p) ==
    LET auto == allowance \/ proc[p].note = "auto"
    IN /\ Pump(p, "session", IF auto THEN "answer" ELSE "ask")
       /\ verdicts' = IF auto THEN [verdicts EXCEPT ![p] = Append(@, "auto")] ELSE verdicts
       /\ UNCHANGED <<row, tables, creator, client, counts, evicted>>

AskUser(p) ==
    /\ Pump(p, "ask", "read")
    /\ pending' = pending \cup {p}
    /\ UNCHANGED <<row, handle, cancelled, allowance, creator, client, counts, verdicts, evicted>>

AnswerLook(p) ==
    /\ proc[p].pump = "answer"
    /\ proc' = [proc EXCEPT ![p].pump = "reply", ![p].to = handle]
    /\ UNCHANGED <<row, tables, creator, client, counts, verdicts, evicted>>

AnswerWrite(p) ==
    /\ proc[p].pump = "reply"
    /\ proc' = [Answered(proc, p, proc[p].to, "allow") EXCEPT ![p].pump = "read", ![p].to = None, ![p].note = "none"]
    /\ UNCHANGED <<row, tables, creator, client, counts, verdicts, evicted>>

\* A result ends the turn: _apply_event.
Result(p) ==
    /\ IsAlive(p) /\ proc[p].pump = "read"
    /\ row.live /\ row.status # "idle"
    /\ SetStatus("idle")
    /\ UNCHANGED <<tables, proc, creator, client, counts, verdicts, evicted>>

\* The process ends, told or not.
Exit(p) ==
    /\ IsAlive(p)
    /\ proc' = [proc EXCEPT ![p].life = "gone"]
    /\ UNCHANGED <<row, tables, creator, client, counts, verdicts, evicted>>

\* _on_cli_exit: whatever is tracked is no longer, and a cancellation is used up.
OnCliExit(p) ==
    /\ proc[p].life = "gone" /\ proc[p].pump = "read"
    /\ IF row.live
       THEN /\ proc' = [proc EXCEPT ![p].pump = "look", ![p].note = IF cancelled THEN "cancelled" ELSE "none"]
            /\ handle' = None /\ cancelled' = FALSE
            /\ evicted' = evicted \cup ({handle} \ {None, p})
       ELSE /\ Leaves(p, "read")
            /\ UNCHANGED <<handle, cancelled, evicted>>
    /\ UNCHANGED <<row, allowance, pending, creator, client, counts, verdicts>>

\* get_task, with a KeyError that ends the thread when the row is gone.
ExitLook(p) ==
    /\ \/ /\ row.live /\ proc[p].pump = "look"
          /\ proc' = [proc EXCEPT ![p].pump = "mark", ![p].note = IF @ = "cancelled" THEN @ ELSE row.status]
       \/ ~row.live /\ Leaves(p, "look")
    /\ UNCHANGED <<row, tables, creator, client, counts, verdicts, evicted>>

ExitMark(p) ==
    /\ Leaves(p, "mark")
    /\ IF row.live /\ proc[p].note \in {"cancelled", "running"} THEN SetStatus("idle") ELSE UNCHANGED row
    /\ UNCHANGED <<tables, creator, client, counts, verdicts, evicted>>

-----------------------------------------------------------------------------
\* The server dies and starts again: its tables and threads are gone, the processes lose
\* their stdin, and a row that was at work is idle (TaskStore.__init__).
Crash ==
    /\ crashes < MaxCrashes /\ crashes' = crashes + 1
    /\ ops < MaxOps /\ ops' = ops + 1
    /\ handle' = None /\ cancelled' = FALSE /\ allowance' = FALSE /\ pending' = {}
    /\ proc' = [p \in Procs |-> IF proc[p].life = "none" THEN proc[p]
                               ELSE [proc[p] EXCEPT !.pump = "done", !.life = IF @ = "alive" THEN "told" ELSE @]]
    /\ creator' = "done" /\ client' = [c \in Clients |-> Resting]
    /\ row' = [row EXCEPT !.status = IF @ \in {"running", "stopping"} THEN "idle" ELSE @]
    /\ UNCHANGED <<verdicts, evicted>>

Request(c) ==
    \/ SendMessage(c) \/ SendRunning(c) \/ SendWrite(c)
    \/ Interrupt(c) \/ InterruptStopping(c) \/ InterruptEnd(c)
    \/ SetPermissionMode(c) \/ RestartPop(c) \/ RestartIdle(c) \/ RestartEnd(c)
    \/ ResolvePermission(c) \/ ResolveLook(c) \/ ResolveWrite(c)
    \/ DeleteTask(c) \/ DeleteEnd(c) \/ DeleteRemove(c)

Process(p) ==
    \/ AskTool(p) \/ CheckAllowance(p) \/ AskUser(p) \/ AnswerLook(p) \/ AnswerWrite(p)
    \/ Result(p) \/ Exit(p) \/ OnCliExit(p) \/ ExitLook(p) \/ ExitMark(p)

Next == \/ CreateSpawn \/ CreateRegister \/ Crash
        \/ \E c \in Clients : Request(c)
        \/ \E p \in Procs : Process(p)

Spec == Init /\ [][Next]_vars

-----------------------------------------------------------------------------
(* Properties.                                                               *)

Places == {"rest", "send_running", "send_write", "int_stopping", "int_end", "mode_pop", "mode_idle",
           "mode_end", "res_look", "res_write", "del_end", "del_remove"}
Statuses == {"running", "idle", "stopping"}

ProcRecords ==
    [life : {"none", "alive", "told", "gone"}, mode : Modes,
     pump : {"read", "session", "ask", "answer", "reply", "look", "mark", "done"},
     request : {"none", "waits", "ran", "denied"},
     note : {"none", "auto", "cancelled"} \cup Statuses, to : Procs \cup {None}]
ClientRecords ==
    [at : Places, p : Procs \cup {None}, to : Procs \cup {None}, answer : {"none", "allow", "deny"}]

SessionTypeOK ==
    /\ row \in [live : BOOLEAN, mode : Modes, status : Statuses]
    /\ handle \in Procs \cup {None} /\ cancelled \in BOOLEAN /\ allowance \in BOOLEAN
    /\ pending \subseteq Procs /\ evicted \subseteq Procs
    /\ proc \in [Procs -> ProcRecords]
    /\ creator \in {"spawn", "register", "done"}
    /\ client \in [Clients -> ClientRecords]
    /\ verdicts \in [Procs -> {<< >>, <<"auto">>, <<"allow">>, <<"deny">>}]

SwitchInProgress == \E c \in Clients : client[c].at = "mode_pop"

\* The process that gets the next message runs in the mode the task is in, unless a switch
\* is under way: what a comment of _restart_session asks for, over every interleaving of
\* sends, switches, interrupts and late exits.
SettingsInForce ==
    row.live /\ IsAlive(handle) /\ ~SwitchInProgress => proc[handle].mode = row.mode

InHand(p) == \/ p = 1 /\ creator = "register"
             \/ \E c \in Clients : client[c].p = p /\ client[c].at \in {"mode_idle", "mode_end", "del_end"}

\* While the task exists, a process that runs is tracked, about to be terminated or
\* terminated, or the exit of its predecessor has removed its handle.
NoLostProcess ==
    row.live => \A p \in Procs : proc[p].life = "alive" => handle = p \/ InHand(p) \/ p \in evicted

\* A permission request is decided once, though two pages may answer its card and the mode
\* and the session's allowance decide as well, and a tool runs only if it was allowed.
AnsweredOnce ==
    \A p \in Procs : /\ Len(verdicts[p]) <= 1
                     /\ proc[p].request = "ran" => verdicts[p] \in {<<"auto">>, <<"allow">>}

\* The exit of a process leaves the handle of its successor alone.
NobodyEvicted == evicted = {}

\* A task that was being stopped is at rest once its processes have gone and no request is
\* under way.
AllOver == /\ \A c \in Clients : client[c].at = "rest"
           /\ \A p \in Procs : proc[p].life = "none" \/ proc[p].pump = "done"
StoppingEnds == creator = "done" /\ AllOver => row.status # "stopping"

\* So is one that was at work.
RunningEnds == creator = "done" /\ AllOver => row.status # "running"
=============================================================================
