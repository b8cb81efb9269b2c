------------------------------ MODULE AgentChat ------------------------------
(***************************************************************************)
(* The desktop assistant (src/agent): chat requests that stream their      *)
(* events to a page (routes/chat.py), the loop of model and tools behind   *)
(* them (core/agent_runner.py), the stop flags, the permission to touch a  *)
(* path, and the file of sessions (core/session.py, routes/sessions.py).   *)
(*                                                                         *)
(* A request runs in a thread of its own and lives on when its connection  *)
(* is lost, until it next writes.  The handlers of the sessions read the   *)
(* file and write it back in two locked steps; only the reply of a chat is *)
(* added in one.                                                           *)
(*                                                                         *)
(* A turn of the model calls at most one file tool, then other tools at    *)
(* once (sub-agents among them); all paths are one.                        *)
(***************************************************************************)
EXTENDS Integers

CONSTANTS
    Sessions,
    Runs,           \* the requests, numbered; bounds how many there are
    RagRuns,        \* those that are on the knowledge base
    MaxToolLoops,
    MaxEdits        \* bound: the changes of sessions and paths by hand in a behaviour
ASSUME ChatAssumption == Runs \subseteq Nat \ {0} /\ RagRuns \subseteq Runs /\ MaxToolLoops \in Nat /\ MaxEdits \in Nat

Absent == 0 - 1
Nobody == "none"
VARIABLES
    store,          \* of a session: absent, or the last request whose reply is stored (0 at first)
    edit, edits,    \* the handler at work with the sessions it has loaded; how many there were
    flag,           \* cancel_flags: of a session, a request or 0
    stopped,        \* the requests whose event is set
    session,        \* of a request
    at,             \* where a request is
    loops,
    called,         \* of a request: tools_called, a tool of the knowledge base has returned JSON
    searched,       \* history: a search of a request has come back in time
    basis,          \* history: something else than an empty search has come back
    reply,          \* of a request: what it is about to reply: an answer, a notice, or an error that is not stored
    approval,       \* pending_approvals of a request: "none", "asked", "approved", "denied"
    allowed,        \* allowed_paths has the path
    open            \* the connection of a request holds

rag == <<called, searched, basis>>
request == <<session, at, loops, rag, reply>>
files == <<store, edit, edits>>
vars == <<files, flag, stopped, request, approval, allowed, open>>

NoEdit == [kind |-> "none"]
Init ==
    /\ store \in [Sessions -> {Absent, 0}] /\ edit = NoEdit /\ edits = 0
    /\ flag = [s \in Sessions |-> 0] /\ stopped = {} /\ allowed \in BOOLEAN
    /\ session = [r \in Runs |-> Nobody]
    /\ at = [r \in Runs |-> "new"] /\ loops = [r \in Runs |-> 0]
    /\ called = [r \in Runs |-> FALSE]
    /\ searched = [r \in Runs |-> FALSE] /\ basis = [r \in Runs |-> FALSE]
    /\ reply = [r \in Runs |-> "none"] /\ approval = [r \in Runs |-> "none"]
    /\ open = [r \in Runs |-> FALSE]

Go(r, where) == at' = [at EXCEPT ![r] = where]
Live(r) == at[r] \notin {"new", "done"}

-----------------------------------------------------------------------------
\* The handlers of sessions: load, then save what was loaded with one change.
Load(kind, s) ==
    /\ edit = NoEdit /\ edits < MaxEdits /\ edits' = edits + 1
    /\ kind = "create" => store[s] = Absent         \* a new identifier
    /\ edit' = [kind |-> kind, session |-> s, loaded |-> store]
    /\ UNCHANGED <<store, flag, stopped, request, approval, allowed, open>>

Save ==
    /\ edit # NoEdit /\ edit' = NoEdit
    /\ LET s == edit.session
       IN  store' = IF edit.kind = "create" THEN [edit.loaded EXCEPT ![s] = 0]
                    ELSE IF edit.loaded[s] = Absent THEN store
                    ELSE IF edit.kind = "delete" THEN [edit.loaded EXCEPT ![s] = Absent]
                    ELSE edit.loaded                \* the title
    /\ UNCHANGED <<edits, flag, stopped, request, approval, allowed, open>>

\* The page sends in a session it shows and waits for nothing in.
PageSends(s) == store[s] # Absent /\ \A q \in Runs : session[q] = s => ~open[q]
Chat(r, s) ==
    /\ at[r] = "new" /\ \A q \in Runs : q < r => at[q] # "new"
    /\ PageSends(s)
    /\ session' = [session EXCEPT ![r] = s]
    /\ flag' = [flag EXCEPT ![s] = r] /\ open' = [open EXCEPT ![r] = TRUE] /\ Go(r, "step")
    /\ UNCHANGED <<files, stopped, loops, rag, reply, approval, allowed>>

\* /api/stop finds the flag of the session, or says that nothing is in progress.
StopSession(s) ==
    /\ \E r \in Runs : session[r] = s /\ open[r]
    /\ flag[s] # 0 /\ stopped' = stopped \cup {flag[s]}
    /\ UNCHANGED <<files, flag, request, approval, allowed, open>>

\* The page is reloaded or loses the connection.
Disconnect(r) ==
    /\ open[r] /\ open' = [open EXCEPT ![r] = FALSE]
    /\ UNCHANGED <<files, flag, stopped, request, approval, allowed>>

-----------------------------------------------------------------------------
Replying(r, what) == Go(r, "reply") /\ reply' = [reply EXCEPT ![r] = what]

\* Mutant: the loop goes on as long as the model calls tools.
StepForever(r) ==
    /\ at[r] = "step"
    /\ IF r \in stopped THEN Replying(r, "notice") ELSE Go(r, "model") /\ UNCHANGED reply
    /\ UNCHANGED <<files, flag, stopped, session, loops, rag, approval, allowed, open>>
Step(r) ==
    /\ at[r] = "step"
    /\ \/ /\ loops[r] = MaxToolLoops /\ Replying(r, "notice") /\ UNCHANGED loops
       \/ /\ loops[r] < MaxToolLoops /\ r \in stopped /\ Replying(r, "notice") /\ UNCHANGED loops
       \/ /\ loops[r] < MaxToolLoops /\ r \notin stopped
          /\ loops' = [loops EXCEPT ![r] = @ + 1] /\ Go(r, "model") /\ UNCHANGED reply
    /\ UNCHANGED <<files, flag, stopped, session, rag, approval, allowed, open>>

\* A text with no call ends the run, except on the knowledge base before one of its tools has returned.
\* Mutant: the knowledge base need not be asked.
AnswerAtOnce(r) == Replying(r, "answer")
Answer(r) == IF r \in RagRuns /\ ~called[r] THEN Go(r, "step") /\ UNCHANGED reply ELSE Replying(r, "answer")

\* The call of the model fails, for good or after retries.
CallFails(r) == Replying(r, "error")
\* Its stream breaks off, says nothing, is stopped before it says anything, or brings a text (what
\* there is of it, when it is stopped then) and calls.
Stream(r) ==
    \/ Go(r, "broken") /\ UNCHANGED reply
    \/ Replying(r, IF r \in stopped THEN "notice" ELSE "error")
    \/ Answer(r)
    \/ \E where \in {"file", "others"} : Go(r, where) /\ UNCHANGED reply
Model(r) ==
    /\ at[r] = "model" /\ (CallFails(r) \/ Stream(r))
    /\ UNCHANGED <<files, flag, stopped, session, loops, rag, approval, allowed, open>>

\* A file tool needs a path that is allowed; otherwise the page is asked.
FileTool(r) ==
    /\ at[r] = "file"
    /\ \/ Go(r, "others") /\ UNCHANGED <<reply, approval>>          \* unknown, or an argument is missing
       \/ /\ ~allowed /\ approval' = [approval EXCEPT ![r] = "asked"] /\ Go(r, "permission") /\ UNCHANGED reply
       \/ /\ allowed /\ UNCHANGED approval
          /\ IF r \in stopped THEN Replying(r, "notice") ELSE Go(r, "running") /\ UNCHANGED reply
    /\ UNCHANGED <<files, flag, stopped, session, loops, rag, allowed, open>>

\* The dialog of the page is answered, in time or not.
ApproveTool(r, approved) ==
    /\ open[r] /\ approval[r] = "asked"
    /\ approval' = [approval EXCEPT ![r] = IF approved THEN "approved" ELSE "denied"]
    /\ allowed' = (allowed \/ approved)
    /\ UNCHANGED <<files, flag, stopped, request, open>>
\* The list of paths is changed by hand.
ChangeAllowedPaths ==
    /\ edits < MaxEdits /\ edits' = edits + 1
    /\ allowed' = ~allowed /\ UNCHANGED <<store, edit, flag, stopped, request, approval, open>>

\* The wait ends with the answer or with PERMISSION_TIMEOUT.
WaitEnds(r) ==
    /\ at[r] = "permission" /\ approval' = [approval EXCEPT ![r] = "none"]
    /\ IF approval[r] # "approved" THEN Go(r, "others") /\ UNCHANGED reply
       ELSE IF r \in stopped THEN Replying(r, "notice") ELSE Go(r, "running") /\ UNCHANGED reply
    /\ UNCHANGED <<files, flag, stopped, session, loops, rag, allowed, open>>

\* The tool ends: its executor waits for it, TOOL_TIMEOUT or not.  What it raises is not caught.
FileToolEnds(r) ==
    /\ at[r] = "running" /\ \E where \in {"others", "broken"} : Go(r, where)
    /\ UNCHANGED <<files, flag, stopped, session, loops, rag, reply, approval, allowed, open>>

\* What comes from the five tools of the knowledge base: a search that found nothing, one that the
\* hook takes for a hit, JSON without a count (a list, a deletion, an error), or anything after
\* TOOL_TIMEOUT, when its place is taken by an error.
RagResults == {"empty", "found", "other", "late"}
\* The hook sees them all; nobody asks it in a run that is not on the knowledge base.
RagHook(r, results) ==
    IF r \in RagRuns
    THEN /\ called' = [called EXCEPT ![r] = @ \/ results # {}]
         /\ searched' = [searched EXCEPT ![r] = @ \/ results \cap {"empty", "found"} # {}]
         /\ basis' = [basis EXCEPT ![r] = @ \/ results \ {"empty"} # {}]
    ELSE UNCHANGED rag
\* The results go to the model; when all that came in time in this turn were empty, the run ends.
Results(r, results) ==
    IF r \in stopped \/ (r \in RagRuns /\ results \ {"late"} = {"empty"}) THEN Replying(r, "notice")
    ELSE Go(r, "step") /\ UNCHANGED reply
\* The other tools end, tools of the knowledge base among them or not; what they raise is their result.
OtherToolsEnd(r) ==
    /\ at[r] = "others"
    /\ \E results \in SUBSET RagResults : RagHook(r, results) /\ Results(r, results)
    /\ UNCHANGED <<files, flag, stopped, session, loops, approval, allowed, open>>

-----------------------------------------------------------------------------
SaveMessage(s, r) == IF store[s] = Absent THEN store ELSE [store EXCEPT ![s] = r]

\* The reply is stored, unless it is empty or an error, and then sent, as the last event.
StoreReply(r) ==
    /\ at[r] = "reply" /\ Go(r, "finally")
    /\ store' = IF reply[r] = "error" THEN store ELSE SaveMessage(session[r], r)
    /\ UNCHANGED <<edit, edits, flag, stopped, session, loops, rag, reply, approval, allowed, open>>

\* The generator is closed, at its next event, when nobody listens.  A question for permission that
\* it was about to send stays in pending_approvals, where nobody will look it up.
Closed(r) ==
    /\ ~open[r] /\ at[r] \in {"step", "model", "file"}
    /\ Go(r, "finally")
    /\ UNCHANGED <<files, flag, stopped, session, loops, rag, reply, approval, allowed, open>>

\* The flag of the session is dropped, whoever set it; what the request kept goes with it.
Finally(r) ==
    /\ at[r] \in {"finally", "broken"} /\ Go(r, "done") /\ flag' = [flag EXCEPT ![session[r]] = 0]
    /\ open' = [open EXCEPT ![r] = FALSE] /\ stopped' = stopped \ {r}
    /\ called' = [called EXCEPT ![r] = FALSE]
    /\ searched' = [searched EXCEPT ![r] = FALSE] /\ basis' = [basis EXCEPT ![r] = FALSE]
    /\ loops' = [loops EXCEPT ![r] = 0] /\ reply' = [reply EXCEPT ![r] = "none"]
    /\ session' = [session EXCEPT ![r] = Nobody] /\ UNCHANGED <<files, approval, allowed>>

-----------------------------------------------------------------------------
\* So do sub-agents: theirs is a loop of model and tools with a bound.
ToolsEnd(r) == FileToolEnds(r) \/ OtherToolsEnd(r)
Serve(r) ==
    \/ Step(r) \/ Model(r) \/ FileTool(r) \/ WaitEnds(r) \/ StoreReply(r) \/ Finally(r)
User ==
    \/ \E kind \in {"create", "delete", "title"}, s \in Sessions : Load(kind, s)
    \/ ChangeAllowedPaths
    \/ \E s \in Sessions : StopSession(s) \/ \E r \in Runs : Chat(r, s)
    \/ \E r \in Runs : Disconnect(r) \/ \E approved \in BOOLEAN : ApproveTool(r, approved)
Next == User \/ Save \/ \E r \in Runs : Serve(r) \/ ToolsEnd(r) \/ Closed(r)

\* Tools come to an end, the client of the model has a timeout; nobody need answer or stop.
SpecSlow == Init /\ [][Next]_vars /\ \A r \in Runs : WF_vars(Serve(r))
Spec == SpecSlow /\ \A r \in Runs : WF_vars(ToolsEnd(r))

-----------------------------------------------------------------------------
\* Every request comes to its end, though nobody answers its dialog and the model calls tools without end.
RunEnds == \A r \in Runs : Live(r) ~> ~Live(r)

\* On the knowledge base an answer is sent only after something else than empty searches has come
\* from its tools in the same run, however often the run was told to search, stopped or went
\* through its tools in between.
AnswersHaveBasis == \A r \in RagRuns : reply[r] = "answer" => basis[r]

\* Not true: an answer follows a search (agent_runner.py); any tool of the knowledge base will do.
AnswersAfterSearch == \A r \in RagRuns : reply[r] = "answer" => searched[r]

\* Not true: changes of the sessions by several threads are all kept (core/session.py); a handler
\* writes back what it loaded before a reply was stored.
RepliesStayStored == [][\A s \in Sessions : store[s] # Absent /\ store'[s] # Absent => store'[s] >= store[s]]_vars

\* Not true: a session without a flag has nothing in progress (routes/chat.py); the end of a request
\* whose connection was lost drops the flag of the next one.
StopFindsItsRun == \A r \in Runs : open[r] /\ at[r] # "broken" => flag[session[r]] = r

\* Not true under SpecSlow: a tool that takes too long does not block its request for ever (config.py).
TimeoutFreesRun == \A r \in Runs : at[r] \in {"running", "others"} ~> at[r] \notin {"running", "others"}
=============================================================================
