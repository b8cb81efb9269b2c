------------------------------ MODULE DebugBridge ------------------------------
(***************************************************************************)
(* extension/src/debug-bridge.ts on top of the transport: what the         *)
(* extension believes of the program being debugged, which it learns from  *)
(* events of the debug adapter, and the calls that wait for a stop.        *)
(*                                                                         *)
(* The debugger is external.  It stops, goes on and exits, by itself, by   *)
(* the user's hand in the editor, or by a call; it reports every stop and  *)
(* every exit, but that the program goes on it may or may not report.      *)
(* A stop is a number.  It is taken in only after several requests to the  *)
(* debugger, and other events may arrive in between.                       *)
(***************************************************************************)
EXTENDS McpBridge

CONSTANTS MaxStops, MaxSteps,
    Asked       \* the ways the calls may be shared among the methods
NoStop == 0
Methods == {"continue", "waitForStop", "smartStepUntil", "inspect"}
ASSUME AskedAssumption == Asked \subseteq [Calls -> Methods]

VARIABLES
    method,         \* what each call asks for
    prog,           \* external: "none", "running", "stopped" or "exited"
    stops,          \* external: the number of stops so far
    activeSession,
    stoppedInfo,    \* the stop the extension believes the program is in
    handling,       \* the stops being taken in
    waitResolvers,  \* the calls that wait for a stop
    stage,          \* of a call: "idle", "waiting", "woken"
    steps           \* of smartStepUntil

session == <<method, prog, stops, activeSession, stoppedInfo, handling>>
waits == <<waitResolvers, stage, steps>>
vars == <<transport, session, waits>>

Init ==
    /\ TransportInit /\ method \in Asked
    /\ prog = "none" /\ stops = 0 /\ activeSession = FALSE /\ stoppedInfo = NoStop
    /\ handling = {} /\ waitResolvers = {}
    /\ stage = [c \in Calls |-> "idle"] /\ steps = [c \in Calls |-> 0]

Steppers == {c \in waitResolvers : method[c] = "smartStepUntil"}
Waiters == waitResolvers \ Steppers

\* What a wait that is cut short reports, by what the extension believes then.
Ended == IF activeSession' THEN "timedOut" ELSE "terminated"
RejectAllWaiters ==
    /\ Reply(waitResolvers, Ended)
    /\ waitResolvers' = {} /\ stage' = [c \in Calls |-> IF c \in waitResolvers THEN "idle" ELSE stage[c]]
    /\ UNCHANGED <<bridge, lost, drops, steps>>

-----------------------------------------------------------------------------
\* Events of the debugger.
StartSession ==
    /\ prog = "none" /\ prog' = "running" /\ activeSession' = TRUE
    /\ UNCHANGED <<method, transport, stops, stoppedInfo, handling, waits>>

ProgramStops ==
    /\ prog = "running" /\ stops < MaxStops
    /\ prog' = "stopped" /\ stops' = stops + 1 /\ handling' = handling \cup {stops'}
    /\ UNCHANGED <<method, transport, activeSession, stoppedInfo, waits>>

\* The end of handleStopped: it wakes every waiting call.
HandleStopped(n) ==
    /\ n \in handling /\ handling' = handling \ {n} /\ stoppedInfo' = n
    /\ Reply(Waiters, "stopped")
    /\ waitResolvers' = {}
    /\ stage' = [c \in Calls |-> CASE c \in Waiters -> "idle" [] c \in Steppers -> "woken" [] OTHER -> stage[c]]
    /\ UNCHANGED <<method, prog, stops, activeSession, bridge, lost, drops, steps>>

\* The user goes on in the editor.
UserContinues ==
    /\ prog = "stopped" /\ prog' = "running" /\ stoppedInfo' \in {stoppedInfo, NoStop}
    /\ UNCHANGED <<method, transport, stops, activeSession, handling, waits>>

\* The adapter reports the exit, if it lives, before the editor ends the session.
Terminated ==
    /\ prog \in {"running", "stopped"} /\ prog' = "exited" /\ activeSession' = activeSession
    /\ RejectAllWaiters
    /\ UNCHANGED <<method, stops, stoppedInfo, handling>>

\* Mutant: the calls that wait are not told of the end of the session.
SessionEndsSilent ==
    /\ prog # "none" /\ prog' = "none" /\ activeSession' = FALSE /\ stoppedInfo' = NoStop
    /\ UNCHANGED <<method, transport, stops, handling, waits>>

SessionEnds ==
    /\ prog # "none" /\ prog' = "none" /\ activeSession' = FALSE /\ stoppedInfo' = NoStop
    /\ RejectAllWaiters
    /\ UNCHANGED <<method, stops, handling>>

-----------------------------------------------------------------------------
\* Requests.
Begin(c, m) == request[c] = "wire" /\ method[c] = m
Answer(c, r) == Reply({c}, r) /\ UNCHANGED <<bridge, lost, drops>>
Park(c) ==
    /\ request' = [request EXCEPT ![c] = "running"] /\ UNCHANGED <<bridge, result, lost, drops>>
    /\ waitResolvers' = waitResolvers \cup {c} /\ stage' = [stage EXCEPT ![c] = "waiting"]

\* Requests that ask the debugger and change nothing here.
Inspect(c) ==
    /\ Begin(c, "inspect") /\ \E r \in {"ok", "error"} : Answer(c, r)
    /\ UNCHANGED <<session, waits>>

\* The debugger goes on and reports it or not; the extension leaves stoppedInfo alone.
Resumes == prog' = (IF prog = "stopped" THEN "running" ELSE prog) /\ stoppedInfo' \in {stoppedInfo, NoStop}

DoContinue(c) ==
    /\ Begin(c, "continue")
    /\ IF activeSession THEN Answer(c, "ok") /\ Resumes ELSE Answer(c, "error") /\ UNCHANGED <<prog, stoppedInfo>>
    /\ UNCHANGED <<method, stops, activeSession, handling, waits>>

WaitForStop(c) ==
    /\ Begin(c, "waitForStop")
    /\ \/ stoppedInfo # NoStop /\ Answer(c, "stopped") /\ UNCHANGED <<waitResolvers, stage>>
       \/ stoppedInfo = NoStop /\ ~activeSession /\ Answer(c, "terminated") /\ UNCHANGED <<waitResolvers, stage>>
       \/ stoppedInfo = NoStop /\ activeSession /\ Park(c)
    /\ UNCHANGED <<session, steps>>

\* A step of smartStepUntil: its waiter is placed before the debugger is asked.
Step(c) ==
    /\ Park(c) /\ Resumes /\ UNCHANGED <<method, stops, activeSession, handling>>
StepFails(c, r) ==
    /\ Answer(c, r) /\ stage' = [stage EXCEPT ![c] = "idle"] /\ UNCHANGED <<session, waitResolvers>>

SmartStepUntil(c) ==
    /\ Begin(c, "smartStepUntil") /\ UNCHANGED steps
    /\ \/ StepFails(c, "error")         \* no session, or the debugger refuses
       \/ activeSession /\ stoppedInfo = NoStop /\ StepFails(c, "notStopped")
       \/ activeSession /\ stoppedInfo # NoStop /\ Step(c)

\* After a stop: the predicate holds, fails to evaluate, or does not hold yet.
SmartStepGoesOn(c) ==
    /\ stage[c] = "woken" /\ steps' = [steps EXCEPT ![c] = @ + 1]
    /\ \/ stoppedInfo = NoStop /\ StepFails(c, "terminated")
       \/ stoppedInfo # NoStop /\ \E r \in {"matched", "error", "timedOut"} : StepFails(c, r)
       \/ steps[c] + 1 >= MaxSteps /\ StepFails(c, "maxSteps")
       \/ steps[c] + 1 < MaxSteps /\ stoppedInfo # NoStop /\ activeSession /\ Step(c)
       \/ steps[c] + 1 < MaxSteps /\ (stoppedInfo = NoStop \/ ~activeSession) /\ StepFails(c, "terminated")

WaitTimeout(c) ==
    /\ c \in waitResolvers /\ waitResolvers' = waitResolvers \ {c}
    /\ Answer(c, IF activeSession THEN "timedOut" ELSE "terminated")
    /\ stage' = [stage EXCEPT ![c] = "idle"] /\ UNCHANGED <<session, steps>>

-----------------------------------------------------------------------------
Quiet == UNCHANGED <<session, waits>>
Serve(c) == \/ (Paused(c) /\ Quiet)
            \/ DoContinue(c) \/ WaitForStop(c) \/ Inspect(c) \/ SmartStepUntil(c) \/ SmartStepGoesOn(c)
Timeout(c) == WaitTimeout(c) \/ ((QueueTimeout(c) \/ RequestTimeout(c)) /\ Quiet)
Network == TryConnect \/ ConnectFails \/ OnOpen \/ OnClose \/ \E c \in Calls : SendWs(c)
Debugger == \/ StartSession \/ ProgramStops \/ UserContinues \/ Terminated \/ SessionEnds
            \/ \E n \in handling : HandleStopped(n)
Next == \/ Network /\ Quiet
        \/ Debugger
        \/ \E c \in Calls : Serve(c) \/ Timeout(c) \/ (OnMessage(c) /\ Quiet)

\* Timers fire, what has been received is handled and answered.  Nothing obliges
\* the connection to come up, nor the program to stop.
Spec == /\ Init /\ [][Next]_vars
        /\ \A c \in Calls : WF_vars(Serve(c)) /\ WF_vars(Timeout(c)) /\ WF_vars(OnMessage(c) /\ Quiet)

-----------------------------------------------------------------------------
\* No call waits for a stop of a session that has ended, whichever order the
\* events of its end and the calls arrive in.
NoWaiterWithoutSession == waitResolvers # {} => activeSession

\* The extension says "stopped" only of a program that is stopped where it says.
\* The code does not keep this: it leaves stoppedInfo to an event that debuggers
\* need not send, and takes a stop in after the program may have gone on.
StatusIsTrue == stoppedInfo # NoStop /\ handling = {} => prog = "stopped" /\ stoppedInfo = stops

\* A wait that the end of the program cuts short says so.  The code does not keep
\* this: the session is not over yet when the wait is cut short.
TerminationIsReported ==
    [][prog # "exited" /\ prog' = "exited" => \A c \in waitResolvers : result'[c] = "terminated"]_vars
=============================================================================
