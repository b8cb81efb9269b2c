--------------------------- MODULE AgentLoopProofs ---------------------------
(***************************************************************************)
(* Proofs about the two agents that answer a user in a loop of model calls *)
(* and tool calls: the desktop assistant (AgentChat) and the customer      *)
(* service (CustomerService).  They share no variable.                     *)
(***************************************************************************)
EXTENDS AgentChat, CustomerService, TLAPS

(***************************************************************************)
(* AgentChat: on the knowledge base no answer after nothing but empty      *)
(* searches, for any number of runs and sessions and any bound of the loop. *)
(***************************************************************************)

Places == {"new", "step", "model", "file", "permission", "running", "others", "reply", "broken", "finally", "done"}
Over == {"reply", "broken", "finally", "done"}

\* The types of what the theorem needs, and that the loop keeps its bound.
AssistantTypeOK ==
    /\ session \in [Runs -> Sessions \cup {Nobody}]
    /\ at \in [Runs -> Places]
    /\ loops \in [Runs -> 0 .. MaxToolLoops]
    /\ called \in [Runs -> BOOLEAN] /\ basis \in [Runs -> BOOLEAN]
    /\ reply \in [Runs -> {"none", "answer", "notice", "error"}]

\* A run that goes on after a tool of the knowledge base has returned has more than empty
\* searches: with empty searches alone its loop would be over.
BasisInv ==
    \A r \in RagRuns : (called[r] /\ at[r] \notin Over) \/ reply[r] = "answer" => basis[r]

AssistantInv == AssistantTypeOK /\ BasisInv

LEMMA InitAssistant == Init => AssistantInv
  BY ChatAssumption DEF Init, AssistantInv, AssistantTypeOK, BasisInv, Places

\* A step of a run that leaves the books of the knowledge base alone and does not give it an
\* answer.  Nothing comes back from where it is over.
LEMMA PlainStep ==
    ASSUME AssistantInv, NEW r \in Runs, NEW where \in Places, at[r] \notin Over \/ where \in Over,
           Go(r, where), UNCHANGED <<session, called, basis>>, loops' \in [Runs -> 0 .. MaxToolLoops],
           UNCHANGED reply \/ \E what \in {"notice", "error"} : reply' = [reply EXCEPT ![r] = what]
    PROVE  AssistantInv'
  <1>1. at' \in [Runs -> Places] /\ at'[r] = where /\ \A q \in Runs \ {r} : at'[q] = at[q]
    BY DEF AssistantInv, AssistantTypeOK, Go
  <1>2. /\ reply' \in [Runs -> {"none", "answer", "notice", "error"}]
        /\ \A q \in Runs : reply'[q] = "answer" => reply[q] = "answer"
    BY DEF AssistantInv, AssistantTypeOK
  <1>3. AssistantTypeOK'
    BY <1>1, <1>2 DEF AssistantInv, AssistantTypeOK
  <1>4. ASSUME NEW q \in RagRuns, (called'[q] /\ at'[q] \notin Over) \/ reply'[q] = "answer" PROVE basis'[q]
    <2>1. q \in Runs
      BY ChatAssumption
    <2>2. (called[q] /\ at[q] \notin Over) \/ reply[q] = "answer"
      BY <1>1, <1>2, <1>4, <2>1
    <2> QED BY <2>2 DEF AssistantInv, BasisInv
  <1> QED BY <1>3, <1>4 DEF AssistantInv, BasisInv

\* What the user and the handlers do: of what the invariant reads, a request begins and no more.
LEMMA UserSteps ==
    ASSUME User \/ Save, AssistantInv
    PROVE  AssistantInv'
  <1>1. ASSUME UNCHANGED request PROVE AssistantInv'
    BY <1>1 DEF AssistantInv, AssistantTypeOK, BasisInv, request, rag
  <1>2. ASSUME NEW r \in Runs, NEW s \in Sessions, Chat(r, s) PROVE AssistantInv'
    <2>1. /\ at[r] = "new" /\ at' = [at EXCEPT ![r] = "step"] /\ session' = [session EXCEPT ![r] = s]
          /\ UNCHANGED <<loops, called, basis, reply>>
      BY <1>2 DEF Chat, Go, rag
    <2>2. AssistantTypeOK'
      BY <2>1 DEF AssistantInv, AssistantTypeOK, Places
    <2>3. \A q \in Runs : at'[q] \notin Over => at[q] \notin Over
      BY <2>1 DEF AssistantInv, AssistantTypeOK, Over
    <2> QED BY <2>1, <2>2, <2>3, ChatAssumption DEF AssistantInv, BasisInv
  <1>3. ASSUME NEW s \in Sessions, StopSession(s) \/ \E kind \in {"create", "delete", "title"} : Load(kind, s)
        PROVE  UNCHANGED request
    BY <1>3 DEF StopSession, Load
  <1>4. ASSUME NEW r \in Runs, Disconnect(r) \/ \E approved \in BOOLEAN : ApproveTool(r, approved)
        PROVE  UNCHANGED request
    BY <1>4 DEF Disconnect, ApproveTool
  <1>5. ChangeAllowedPaths \/ Save => UNCHANGED request
    BY DEF ChangeAllowedPaths, Save
  <1> QED BY <1>1, <1>2, <1>3, <1>4, <1>5 DEF User

\* Of the steps of a run, one may give it an answer, one asks the hook, one takes both away.
LEMMA NextAnswers == AssistantInv /\ [Next]_vars => AssistantInv'
  <1> SUFFICES ASSUME AssistantInv, [Next]_vars PROVE AssistantInv'
    OBVIOUS
  <1> USE DEF rag
  <1>0. /\ session \in [Runs -> Sessions \cup {Nobody}] /\ at \in [Runs -> Places]
        /\ loops \in [Runs -> 0 .. MaxToolLoops]
        /\ called \in [Runs -> BOOLEAN] /\ basis \in [Runs -> BOOLEAN]
        /\ reply \in [Runs -> {"none", "answer", "notice", "error"}]
        /\ RagRuns \subseteq Runs
    BY ChatAssumption DEF AssistantInv, AssistantTypeOK
  <1>1. CASE User \/ Save
    BY <1>1, UserSteps
  <1>2. ASSUME NEW r \in Runs, at[r] \notin Over, NEW what \in {"notice", "error"}, Replying(r, what),
               UNCHANGED <<session, loops, called, basis>>
        PROVE  AssistantInv'
    <2>1. Go(r, "reply") /\ reply' = [reply EXCEPT ![r] = what] /\ "reply" \in Places
      BY <1>2 DEF Replying, Places
    <2> QED BY <1>0, <1>2, <2>1, PlainStep
  <1>3. ASSUME NEW r \in Runs, at[r] \notin Over, NEW where \in Places, Go(r, where),
               UNCHANGED <<session, loops, called, basis, reply>>
        PROVE  AssistantInv'
    BY <1>0, <1>3, PlainStep
  <1>4. ASSUME NEW r \in Runs, Step(r) PROVE AssistantInv'
    <2>1. at[r] \notin Over /\ UNCHANGED <<session, called, basis>>
      BY <1>4 DEF Step, Over
    <2>2. CASE Replying(r, "notice") /\ UNCHANGED loops
      BY <1>2, <2>1, <2>2
    <2>3. CASE loops[r] < MaxToolLoops /\ loops' = [loops EXCEPT ![r] = @ + 1] /\ Go(r, "model") /\ UNCHANGED reply
      <3>1. loops' \in [Runs -> 0 .. MaxToolLoops]
        BY <1>0, <2>3, ChatAssumption
      <3>2. "model" \in Places
        BY DEF Places
      <3> QED BY <2>1, <2>3, <3>1, <3>2, PlainStep
    <2> QED BY <1>4, <2>2, <2>3 DEF Step
  <1>5. ASSUME NEW r \in Runs, Model(r) PROVE AssistantInv'
    <2>1. at[r] = "model" /\ at[r] \notin Over /\ UNCHANGED <<session, loops, called, basis>>
      BY <1>5 DEF Model, Over
    <2>2. CASE \E what \in {"notice", "error"} : Replying(r, what)
      BY <1>2, <2>1, <2>2
    <2>3. CASE \E where \in {"broken", "step", "file", "others"} : Go(r, where) /\ UNCHANGED reply
      BY <1>3, <2>1, <2>3 DEF Places
    <2>4. CASE Replying(r, "answer") /\ (r \in RagRuns => called[r])
      <3>1. r \in RagRuns => basis[r]
        BY <2>1, <2>4 DEF AssistantInv, BasisInv
      <3>2. /\ at' \in [Runs -> Places] /\ at'[r] = "reply" /\ \A q \in Runs \ {r} : at'[q] = at[q]
            /\ reply' \in [Runs -> {"none", "answer", "notice", "error"}]
            /\ \A q \in Runs \ {r} : reply'[q] = reply[q]
        BY <1>0, <2>4 DEF Replying, Go, Places
      <3>3. AssistantTypeOK'
        BY <1>0, <2>1, <3>2 DEF AssistantTypeOK
      <3> QED BY <1>0, <2>1, <3>1, <3>2, <3>3 DEF AssistantInv, BasisInv
    <2>5. \/ \E what \in {"notice", "error"} : Replying(r, what)
          \/ \E where \in {"broken", "step", "file", "others"} : Go(r, where) /\ UNCHANGED reply
          \/ Replying(r, "answer") /\ (r \in RagRuns => called[r])
      BY <1>5 DEF Model, CallFails, Stream, Answer
    <2> QED BY <2>2, <2>3, <2>4, <2>5
  <1>6. ASSUME NEW r \in Runs, FileTool(r) PROVE AssistantInv'
    <2>1. at[r] \notin Over /\ UNCHANGED <<session, loops, called, basis>>
      BY <1>6 DEF FileTool, Over
    <2>2. \/ Replying(r, "notice")
          \/ \E where \in {"others", "permission", "running"} : Go(r, where) /\ UNCHANGED reply
      BY <1>6 DEF FileTool
    <2> QED BY <1>2, <1>3, <2>1, <2>2 DEF Places
  <1>7. ASSUME NEW r \in Runs, WaitEnds(r) PROVE AssistantInv'
    <2>1. at[r] \notin Over /\ UNCHANGED <<session, loops, called, basis>>
      BY <1>7 DEF WaitEnds, Over
    <2>2. \/ Replying(r, "notice")
          \/ \E where \in {"others", "running"} : Go(r, where) /\ UNCHANGED reply
      BY <1>7 DEF WaitEnds
    <2> QED BY <1>2, <1>3, <2>1, <2>2 DEF Places
  <1>8. ASSUME NEW r \in Runs, FileToolEnds(r) PROVE AssistantInv'
    <2>1. /\ at[r] \notin Over /\ UNCHANGED <<session, loops, called, basis, reply>>
          /\ \E where \in {"others", "broken"} : Go(r, where)
      BY <1>8 DEF FileToolEnds, Over
    <2> QED BY <1>3, <2>1 DEF Places
  <1>9. ASSUME NEW r \in Runs, OtherToolsEnd(r) PROVE AssistantInv'
    <2>1. PICK results \in SUBSET RagResults : RagHook(r, results) /\ Results(r, results)
      BY <1>9 DEF OtherToolsEnd
    <2>2. at[r] = "others" /\ UNCHANGED <<session, loops>>
      BY <1>9 DEF OtherToolsEnd
    <2>3. CASE r \notin RagRuns
      <3>1. UNCHANGED <<called, basis>> /\ at[r] \notin Over
        BY <2>1, <2>2, <2>3 DEF RagHook, Over
      <3>2. Replying(r, "notice") \/ (Go(r, "step") /\ UNCHANGED reply)
        BY <2>1 DEF Results
      <3> QED BY <1>2, <1>3, <2>2, <3>1, <3>2 DEF Places
    <2>4. CASE r \in RagRuns
      <3>1. /\ called' = [called EXCEPT ![r] = @ \/ results # {}]
            /\ basis' = [basis EXCEPT ![r] = @ \/ results \ {"empty"} # {}]
        BY <2>1, <2>4 DEF RagHook
      <3>2. /\ called' \in [Runs -> BOOLEAN] /\ basis' \in [Runs -> BOOLEAN]
            /\ \A q \in Runs \ {r} : called'[q] = called[q] /\ basis'[q] = basis[q]
        BY <1>0, <3>1
      <3>3. /\ called'[r] <=> called[r] \/ results # {}
            /\ basis'[r] <=> basis[r] \/ results \ {"empty"} # {}
        BY <1>0, <3>1
      <3>4. called[r] \/ reply[r] = "answer" => basis[r]
        BY <2>2, <2>4 DEF AssistantInv, BasisInv, Over
      <3>5. CASE Replying(r, "notice")
        <4>1. /\ at' \in [Runs -> Places] /\ at'[r] \in Over /\ \A q \in Runs \ {r} : at'[q] = at[q]
              /\ reply' \in [Runs -> {"none", "answer", "notice", "error"}]
              /\ reply'[r] # "answer" /\ \A q \in Runs \ {r} : reply'[q] = reply[q]
          BY <1>0, <3>5 DEF Replying, Go, Places, Over
        <4>2. AssistantTypeOK'
          BY <1>0, <2>2, <3>2, <4>1 DEF AssistantTypeOK
        <4> QED BY <1>0, <3>2, <4>1, <4>2 DEF AssistantInv, BasisInv
      <3>6. CASE Go(r, "step") /\ UNCHANGED reply /\ results \ {"late"} # {"empty"}
        <4>1. results # {} => results \ {"empty"} # {}
          BY <3>6
        <4>2. called'[r] \/ reply'[r] = "answer" => basis'[r]
          BY <3>3, <3>4, <3>6, <4>1
        <4>3. /\ at' \in [Runs -> Places] /\ \A q \in Runs \ {r} : at'[q] = at[q]
              /\ \A q \in Runs : reply'[q] = reply[q]
          BY <1>0, <3>6 DEF Go, Places
        <4>4. AssistantTypeOK'
          BY <1>0, <2>2, <3>2, <3>6, <4>3 DEF AssistantTypeOK
        <4> QED BY <1>0, <3>2, <4>2, <4>3, <4>4 DEF AssistantInv, BasisInv
      <3> QED BY <2>1, <2>4, <3>5, <3>6 DEF Results
    <2> QED BY <2>3, <2>4
  <1>10. ASSUME NEW r \in Runs, StoreReply(r) PROVE AssistantInv'
    <2>1. "finally" \in Places /\ "finally" \in Over /\ Go(r, "finally")
          /\ UNCHANGED <<session, loops, called, basis, reply>>
      BY <1>10 DEF StoreReply, Places, Over
    <2> QED BY <1>0, <2>1, PlainStep
  <1>11. ASSUME NEW r \in Runs, Closed(r) PROVE AssistantInv'
    <2>1. "finally" \in Places /\ "finally" \in Over /\ Go(r, "finally")
          /\ UNCHANGED <<session, loops, called, basis, reply>>
      BY <1>11 DEF Closed, Places, Over
    <2> QED BY <1>0, <2>1, PlainStep
  <1>12. ASSUME NEW r \in Runs, Finally(r) PROVE AssistantInv'
    <2>1. /\ at' = [at EXCEPT ![r] = "done"] /\ loops' = [loops EXCEPT ![r] = 0]
          /\ called' = [called EXCEPT ![r] = FALSE] /\ basis' = [basis EXCEPT ![r] = FALSE]
          /\ reply' = [reply EXCEPT ![r] = "none"] /\ session' = [session EXCEPT ![r] = Nobody]
      BY <1>12 DEF Finally, Go
    <2>2. AssistantTypeOK'
      BY <1>0, <2>1, ChatAssumption DEF AssistantTypeOK, Places
    <2>3. /\ at'[r] \in Over /\ reply'[r] # "answer"
          /\ \A q \in Runs \ {r} : /\ at'[q] = at[q] /\ called'[q] = called[q]
                                   /\ basis'[q] = basis[q] /\ reply'[q] = reply[q]
      BY <1>0, <2>1 DEF Over
    <2> QED BY <1>0, <2>2, <2>3 DEF AssistantInv, BasisInv
  <1>13. CASE UNCHANGED vars
    BY <1>13 DEF vars, request, AssistantInv, AssistantTypeOK, BasisInv
  <1> QED BY <1>1, <1>4, <1>5, <1>6, <1>7, <1>8, <1>9, <1>10, <1>11, <1>12, <1>13 DEF Next, Serve, ToolsEnd

\* On the knowledge base an answer is sent only after something else than empty searches has come
\* from its tools, whatever the model calls, the tools and the user did in between
\* (src/agent/core/agent_runner.py).
THEOREM AnswersAreGrounded == Spec => []AnswersHaveBasis
  <1>1. AssistantInv => AnswersHaveBasis
    BY DEF AssistantInv, BasisInv, AnswersHaveBasis
  <1> QED BY <1>1, InitAssistant, NextAnswers, PTL DEF Spec, SpecSlow

(***************************************************************************)
(* CustomerService: a settled order stays as it is, for any number of      *)
(* threads, sessions and orders and whatever the orders begin with.        *)
(***************************************************************************)

OrderTools == {"get_order_detail", "update_shipping_address", "cancel_order", "create_refund"}

LEMMA CallTypes ==
    ASSUME NEW c \in Calls
    PROVE  /\ c.tool \in OrderTools \cup {"verify_identity", "escalate_to_human"}
           /\ c.tool \in OrderTools => c.order \in Orders
           /\ c # NoCall
  BY DEF Calls, OrderTools, NoCall, None

\* A call that waits to be written has passed the guardrails: whatever the status is by now,
\* the order began from one that is on the side of the tool.
Passed(c) ==
    /\ c \in Calls /\ c.tool \notin {"get_order_detail", "verify_identity"}
    /\ c.tool \in {"update_shipping_address", "cancel_order"} => Status0[c.order] = "pending_shipment"
    /\ c.tool = "create_refund" => Status0[c.order] # "pending_shipment"

\* An order leaves the status it begins with for one other at most.
Reachable(o) == {Status0[o], IF Status0[o] = "pending_shipment" THEN "cancelled" ELSE "refunded"}

SettledInv ==
    /\ status \in [Orders -> Statuses]
    /\ stage \in [Threads -> {"idle", "ask", "read", "number", "write", "result", "reply"}]
    /\ call \in [Threads -> Calls \cup {NoCall}]
    /\ \A o \in Orders : status[o] \in Reachable(o)
    /\ \A t \in Threads : stage[t] = "read" => call[t] \in Calls
    /\ \A t \in Threads : stage[t] \in {"number", "write"} => Passed(call[t])

LEMMA InitSettled == ServiceInit => SettledInv
  BY ServiceAssumption DEF ServiceInit, SettledInv, Reachable, Statuses

\* A step that touches no order and lets no call pass.
Harmless(t) ==
    /\ UNCHANGED status
    /\ \E where \in {"idle", "ask", "result", "reply"} : stage' = [stage EXCEPT ![t] = where]
    /\ UNCHANGED call \/ call' = [call EXCEPT ![t] = NoCall]

LEMMA HarmlessKeeps ==
    ASSUME SettledInv, NEW t \in Threads, Harmless(t)
    PROVE  SettledInv'
  <1>1. PICK where \in {"idle", "ask", "result", "reply"} : stage' = [stage EXCEPT ![t] = where]
    BY DEF Harmless
  <1>2. /\ stage' \in [Threads -> {"idle", "ask", "read", "number", "write", "result", "reply"}]
        /\ stage'[t] = where /\ \A u \in Threads \ {t} : stage'[u] = stage[u]
    BY <1>1 DEF SettledInv
  <1>3. /\ call' \in [Threads -> Calls \cup {NoCall}]
        /\ \A u \in Threads \ {t} : call'[u] = call[u]
    BY DEF Harmless, SettledInv
  <1> QED BY <1>1, <1>2, <1>3 DEF Harmless, SettledInv, Reachable, Passed

\* The guardrail of a tool looks at the status, the status at what the order began with.
LEMMA AllowedPasses ==
    ASSUME SettledInv, NEW t \in Threads, call[t] \in Calls, Allowed(t, call[t]),
           call[t].tool \notin {"get_order_detail", "verify_identity"}
    PROVE  Passed(call[t])
  <1> DEFINE c == call[t]
  <1>1. c.tool \in OrderTools \cup {"escalate_to_human"} /\ (c.tool \in OrderTools => c.order \in Orders)
    BY CallTypes DEF OrderTools
  <1>2. CASE c.tool = "create_refund"
    <2>1. status[c.order] \notin {"refunded", "cancelled", "pending_shipment"}
      BY <1>2 DEF Allowed, CheckRefundBasic
    <2>2. status[c.order] \in Reachable(c.order)
      BY <1>1, <1>2 DEF SettledInv, OrderTools
    <2> QED BY <1>2, <2>1, <2>2 DEF Reachable, Passed
  <1>3. CASE c.tool \in {"update_shipping_address", "cancel_order"}
    <2>1. status[c.order] = "pending_shipment"
      BY <1>3 DEF Allowed
    <2>2. status[c.order] \in Reachable(c.order)
      BY <1>1, <1>3 DEF SettledInv, OrderTools
    <2> QED BY <1>3, <2>1, <2>2 DEF Reachable, Passed
  <1> QED BY <1>1, <1>2, <1>3 DEF OrderTools, Passed

\* What Write does to the status of the orders.
LEMMA WriteStatus ==
    ASSUME SettledInv, NEW t \in Threads, Write(t)
    PROVE  \/ UNCHANGED status
           \/ \E o \in Orders : /\ status' = [status EXCEPT ![o] = "cancelled"]
                                /\ Status0[o] = "pending_shipment"
           \/ \E o \in Orders : /\ status' = [status EXCEPT ![o] = "refunded"]
                                /\ Status0[o] # "pending_shipment"
  <1> DEFINE c == call[t]
  <1>1. Passed(c)
    BY DEF Write, SettledInv
  <1>2. c.tool \in {"update_shipping_address", "cancel_order", "create_refund", "escalate_to_human"}
        /\ (c.tool # "escalate_to_human" => c.order \in Orders)
    BY <1>1, CallTypes DEF OrderTools, Passed
  <1>3. CASE c.tool = "update_shipping_address"
    <2>1. UpdateShippingAddress(c)
      BY <1>3 DEF Write, NeedsTicket
    <2> QED BY <2>1 DEF UpdateShippingAddress
  <1>4. CASE c.tool = "cancel_order"
    <2>1. CancelOrder(c)
      BY <1>4 DEF Write, NeedsTicket
    <2>2. status' = [status EXCEPT ![c.order] = "cancelled"]
      BY <2>1 DEF CancelOrder
    <2> QED BY <1>1, <1>2, <1>4, <2>2 DEF Passed
  <1>5. CASE c.tool \in {"create_refund", "escalate_to_human"} /\ NeedsTicket(c)
    <2>1. EscalateToHuman(no[t], SessionOf[t])
      BY <1>5 DEF Write
    <2> QED BY <2>1 DEF EscalateToHuman
  <1>6. CASE c.tool \in {"create_refund", "escalate_to_human"} /\ ~NeedsTicket(c)
    <2>1. c.tool = "create_refund"
      BY <1>6 DEF NeedsTicket
    <2>2. CreateRefund(no[t], c)
      BY <1>6 DEF Write
    <2>3. UNCHANGED status \/ status' = [status EXCEPT ![c.order] = "refunded"]
      BY <2>2 DEF CreateRefund
    <2> QED BY <1>1, <1>2, <2>1, <2>3 DEF Passed
  <1> QED BY <1>2, <1>3, <1>4, <1>5, <1>6

\* One step keeps the invariant and leaves settled orders alone.
LEMMA NextSettled ==
    ASSUME SettledInv, [ServiceNext]_serviceVars
    PROVE  /\ SettledInv'
           /\ \A o \in Orders : status[o] \in {"cancelled", "refunded"} => status'[o] = status[o]
  <1> DEFINE Good == /\ SettledInv'
                     /\ \A o \in Orders : status[o] \in {"cancelled", "refunded"} => status'[o] = status[o]
  <1>1. ASSUME NEW t \in Threads, Harmless(t) PROVE Good
    BY <1>1, HarmlessKeeps DEF Harmless
  <1>2. ASSUME NEW t \in Threads, NEW s \in SessionIds, ChatWs(t, s) PROVE Good
    <2>1. Harmless(t)
      BY <1>2 DEF ChatWs, MoveOn, Harmless, database
    <2> QED BY <1>1, <2>1
  <1>3. ASSUME NEW t \in Threads, WebSocketDisconnect(t) PROVE Good
    BY <1>3 DEF WebSocketDisconnect, database, SettledInv, Reachable, Passed
  <1>4. ASSUME NEW t \in Threads, AskModel(t) PROVE Good
    <2>1. UNCHANGED status
      BY <1>4 DEF AskModel, database
    <2>2. CASE Harmless(t)
      BY <1>1, <2>2
    <2>3. CASE \E c \in Calls : call' = [call EXCEPT ![t] = c] /\ stage' = [stage EXCEPT ![t] = "read"]
      BY <2>1, <2>3 DEF SettledInv, Reachable, Passed
    <2>4. Harmless(t) \/ \E c \in Calls : call' = [call EXCEPT ![t] = c] /\ stage' = [stage EXCEPT ![t] = "read"]
      BY <1>4, <2>1 DEF AskModel, MoveOn, Harmless
    <2> QED BY <2>2, <2>3, <2>4
  <1>5. ASSUME NEW t \in Threads, LogMessageFails(t) \/ ToolResult(t) \/ Reply(t) \/ CommitFails(t) PROVE Good
    <2>1. Harmless(t)
      BY <1>5 DEF LogMessageFails, ToolResult, Reply, CommitFails, Finish, MoveOn, Harmless, database
    <2> QED BY <1>1, <2>1
  <1>6. ASSUME NEW t \in Threads, ReadAndCheck(t) PROVE Good
    <2>1. UNCHANGED status /\ call[t] \in Calls
      BY <1>6 DEF ReadAndCheck, database, SettledInv
    <2>2. CASE Harmless(t)
      BY <1>1, <2>2
    <2>3. CASE /\ Allowed(t, call[t]) /\ call[t].tool \notin {"get_order_detail", "verify_identity"}
               /\ \E where \in {"number", "write"} : stage' = [stage EXCEPT ![t] = where]
               /\ UNCHANGED call
      <3>1. Passed(call[t])
        BY <2>1, <2>3, AllowedPasses
      <3> QED BY <2>1, <2>3, <3>1 DEF SettledInv, Reachable, Passed
    <2>4. Harmless(t)
          \/ /\ Allowed(t, call[t]) /\ call[t].tool \notin {"get_order_detail", "verify_identity"}
             /\ \E where \in {"number", "write"} : stage' = [stage EXCEPT ![t] = where]
             /\ UNCHANGED call
      BY <1>6, <2>1 DEF ReadAndCheck, Finish, MoveOn, Harmless
    <2> QED BY <2>2, <2>3, <2>4
  <1>7. ASSUME NEW t \in Threads, TakeNumber(t) PROVE Good
    BY <1>7 DEF TakeNumber, MoveOn, database, SettledInv, Reachable, Passed
  <1>8. ASSUME NEW t \in Threads, Write(t) PROVE Good
    <2>1. /\ stage' = [stage EXCEPT ![t] = "result"] /\ call' = [call EXCEPT ![t] = NoCall]
      BY <1>8 DEF Write, Finish, MoveOn
    <2>2. /\ \A o \in Orders : status'[o] \in Reachable(o)
          /\ status' \in [Orders -> Statuses]
          /\ \A o \in Orders : status[o] \in {"cancelled", "refunded"} => status'[o] = status[o]
      BY <1>8, WriteStatus, ServiceAssumption DEF SettledInv, Reachable, Statuses
    <2> QED BY <2>1, <2>2 DEF SettledInv, Reachable, Passed
  <1>9. CASE UNCHANGED serviceVars
    BY <1>9 DEF serviceVars, database, SettledInv, Reachable, Passed
  <1> QED BY <1>2, <1>3, <1>4, <1>5, <1>6, <1>7, <1>8, <1>9 DEF ServiceNext, Run

\* A cancelled order is never refunded and a refunded one never cancelled, however long ago the
\* tool that writes has read the status: what it has read says where the order began.
THEOREM SettledForGood == ServiceSpec => SettledStays
  <1>1. SettledInv /\ [ServiceNext]_serviceVars => SettledInv'
    BY NextSettled
  <1>2. SettledInv /\ [ServiceNext]_serviceVars =>
            [\A o \in Orders : status[o] \in {"cancelled", "refunded"} => status'[o] = status[o]]_serviceVars
    BY NextSettled
  <1> QED BY <1>1, <1>2, InitSettled, PTL DEF ServiceSpec, SettledStays
=============================================================================
