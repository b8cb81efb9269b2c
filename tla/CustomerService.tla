---------------------------- MODULE CustomerService ----------------------------
(***************************************************************************)
(* The customer service agent of ai-cs-agent: chat sessions served by      *)
(* threads (api/chat.py), the tool use loop (agent/agent.py), and the      *)
(* tools that change the shop's database (tools/registry.py, services).    *)
(*                                                                         *)
(* A tool reads without a transaction and writes in one, at its end: what  *)
(* other threads have committed since it read is not looked at again.  The *)
(* numbers of refunds and tickets are unique in the database, so that the  *)
(* second of two equal ones makes its transaction fail.                    *)
(*                                                                         *)
(* A turn of the model asks for one tool.  Of the history of a session     *)
(* only its last message is kept, and whether the model would refuse it: a *)
(* request for a tool has to be followed by its result.                    *)
(***************************************************************************)
EXTENDS Naturals, FiniteSets

CONSTANTS
    Users, Orders, SessionIds,
    Threads,                    \* of the pool, numbered
    Owner, Amount, Status0,     \* of each order
    Threshold, MaxRounds,
    MaxMessages                 \* bound: the messages of a behaviour
None == "none"
Statuses == {"pending_shipment", "in_transit", "delivered", "refunded", "cancelled"}
ASSUME ServiceAssumption ==
    /\ Owner \in [Orders -> Users] /\ Amount \in [Orders -> Nat] /\ Threads \subseteq Nat
    /\ Status0 \in [Orders -> {"pending_shipment", "in_transit", "delivered"}]

VARIABLES
    status, address,        \* of the orders
    refunds, tickets,
    verified, escalated,    \* SessionState
    last, broken,           \* of the messages of a session
    stage,                     \* of a thread: "idle", "ask", "read", "number", "write", "result", "reply"
    call, no,               \* the tool a thread is asked for, and the number it is to use
    SessionOf,              \* of a thread
    rounds, connected,
    received                \* the messages so far

database == <<status, address, refunds, tickets>>
state == <<verified, escalated>>
talk == <<last, broken>>
serviceVars == <<database, state, talk, stage, call, no, SessionOf, rounds, connected, received>>

NoCall == [tool |-> None]
ServiceInit ==
    /\ status = Status0 /\ address = [o \in Orders |-> "old"] /\ refunds = {} /\ tickets = {}
    /\ verified = [s \in SessionIds |-> None] /\ escalated = [s \in SessionIds |-> FALSE]
    /\ last = [s \in SessionIds |-> "results"] /\ broken = [s \in SessionIds |-> FALSE]
    /\ stage = [t \in Threads |-> "idle"] /\ call = [t \in Threads |-> NoCall]
    /\ rounds = [t \in Threads |-> 0] /\ no = [t \in Threads |-> 0]
    /\ SessionOf = [t \in Threads |-> None] /\ connected = [t \in Threads |-> FALSE] /\ received = 0

Me(t) == verified[SessionOf[t]]
MoveOn(t, where) == stage' = [stage EXCEPT ![t] = where]
AppendMessage(s, kind) ==
    /\ last' = [last EXCEPT ![s] = kind]
    /\ broken' = [broken EXCEPT ![s] = @ \/ ((last[s] = "call") # (kind = "results"))]

-----------------------------------------------------------------------------
\* The page of a session sends one message at a time.
PageIsFree(s) == \A u \in Threads : SessionOf[u] = s => ~connected[u]

\* A message arrives by a new connection; a thread takes it up.
ChatWs(t, s) ==
    /\ stage[t] = "idle" /\ \A u \in Threads : stage[u] = "idle" => t <= u
    /\ received < MaxMessages /\ received' = received + 1
    /\ PageIsFree(s)
    /\ SessionOf' = [SessionOf EXCEPT ![t] = s] /\ connected' = [connected EXCEPT ![t] = TRUE]
    /\ AppendMessage(s, "user") /\ MoveOn(t, "ask") /\ UNCHANGED <<database, state, call, no, rounds>>

\* The connection is lost; the thread goes on.
WebSocketDisconnect(t) ==
    /\ connected[t] /\ connected' = [connected EXCEPT ![t] = FALSE]
    /\ UNCHANGED <<database, state, talk, stage, call, no, rounds, SessionOf, received>>

Calls ==
    [tool : {"verify_identity"}, user : Users]
    \cup [tool : {"get_order_detail", "update_shipping_address", "cancel_order"}, order : Orders]
    \cup [tool : {"create_refund"}, order : Orders, amount : 1..Threshold + 1]
    \cup [tool : {"escalate_to_human"}]

\* Mutant: the rounds are not counted.
AskModelForever(t) ==
    /\ stage[t] = "ask" /\ ~broken[SessionOf[t]]
    /\ \E c \in Calls : call' = [call EXCEPT ![t] = c]
    /\ AppendMessage(SessionOf[t], "call") /\ MoveOn(t, "read") /\ UNCHANGED <<database, state, rounds, no, connected, SessionOf, received>>
\* The answer of the model: a tool, a text, or an error, as to a history it refuses.
AskModel(t) ==
    /\ stage[t] = "ask"
    /\ \/ \* the tools asked for in one turn are taken one by one
          /\ ~broken[SessionOf[t]] /\ rounds[t] < MaxRounds
          /\ \E c \in Calls : call' = [call EXCEPT ![t] = c]
          /\ rounds' = [rounds EXCEPT ![t] = @ + 1] /\ AppendMessage(SessionOf[t], "call") /\ MoveOn(t, "read")
       \/ /\ ~broken[SessionOf[t]] /\ rounds[t] < MaxRounds
          /\ AppendMessage(SessionOf[t], "assistant") /\ MoveOn(t, "reply") /\ UNCHANGED <<call, rounds>>
       \/ MoveOn(t, "reply") /\ UNCHANGED <<talk, call, rounds>>
    /\ UNCHANGED <<database, state, no, connected, SessionOf, received>>

\* Writing the call or its result to the log fails: the exception ends the run.
LogMessageFails(t) ==
    /\ stage[t] \in {"read", "result"} /\ MoveOn(t, "reply")
    /\ UNCHANGED <<database, state, talk, call, rounds, no, connected, SessionOf, received>>

-----------------------------------------------------------------------------
\* The guardrails.
Own(t, c) == Me(t) = Owner[c.order]
\* Mutant: a cancelled order is not turned down.
CheckRefundOnlyRefunded(c) ==
    status[c.order] \notin {"refunded", "pending_shipment"} /\ c.amount <= Amount[c.order]
CheckRefundBasic(c) ==
    status[c.order] \notin {"refunded", "cancelled", "pending_shipment"} /\ c.amount <= Amount[c.order]
RefundNeedsEscalation(c) == c.amount > Threshold
Allowed(t, c) ==
    CASE c.tool = "create_refund" -> Own(t, c) /\ CheckRefundBasic(c)
      [] c.tool \in {"update_shipping_address", "cancel_order"} -> Own(t, c) /\ status[c.order] = "pending_shipment"
      [] c.tool = "get_order_detail" -> Own(t, c)
      [] OTHER -> TRUE
NeedsTicket(c) == c.tool = "escalate_to_human" \/ (c.tool = "create_refund" /\ RefundNeedsEscalation(c))

\* A tool reads what it needs and passes the guardrails, or gives up.
Finish(t) == MoveOn(t, "result") /\ call' = [call EXCEPT ![t] = NoCall] /\ no' = [no EXCEPT ![t] = 0]
ReadAndCheck(t) ==
    LET c == call[t]
    IN  /\ stage[t] = "read"
        /\ \/ /\ ~Allowed(t, c) \/ c.tool = "get_order_detail"
              /\ Finish(t) /\ UNCHANGED state
           \/ /\ c.tool = "verify_identity" /\ Finish(t) /\ UNCHANGED escalated
              /\ verified' \in {verified, [verified EXCEPT ![SessionOf[t]] = c.user]}    \* a known phone
           \/ /\ Allowed(t, c) /\ c.tool \notin {"get_order_detail", "verify_identity"}
              /\ MoveOn(t, IF c.tool = "create_refund" \/ NeedsTicket(c) THEN "number" ELSE "write")
              /\ UNCHANGED <<state, call, no>>
        /\ UNCHANGED <<database, talk, rounds, connected, SessionOf, received>>

\* next_refund_no, next_ticket_no: one more than the latest.
Numbers(table) == {x.no : x \in table}
NextNo(table) == IF table = {} THEN 1 ELSE 1 + CHOOSE n \in Numbers(table) : \A m \in Numbers(table) : n >= m
TakeNumber(t) ==
    /\ stage[t] = "number" /\ MoveOn(t, "write")
    /\ no' = [no EXCEPT ![t] = NextNo(IF NeedsTicket(call[t]) THEN tickets ELSE refunds)]
    /\ UNCHANGED <<database, state, talk, call, rounds, connected, SessionOf, received>>

\* What the tools write, each in its transaction.
UpdateShippingAddress(c) ==
    address' = [address EXCEPT ![c.order] = "new"] /\ UNCHANGED <<status, refunds, tickets, escalated>>
CancelOrder(c) ==
    status' = [status EXCEPT ![c.order] = "cancelled"] /\ UNCHANGED <<address, refunds, tickets, escalated>>
EscalateToHuman(n, s) ==
    /\ IF n \in Numbers(tickets) THEN UNCHANGED <<tickets, escalated>>
       ELSE /\ tickets' = tickets \cup {[no |-> n, session |-> s]}
            /\ escalated' = [escalated EXCEPT ![s] = TRUE]
    /\ UNCHANGED <<status, address, refunds>>
CreateRefund(n, c) ==
    /\ IF n \in Numbers(refunds) THEN UNCHANGED <<refunds, status>>
       ELSE /\ refunds' = refunds \cup {[no |-> n, order |-> c.order, amount |-> c.amount]}
            /\ status' = [status EXCEPT ![c.order] = "refunded"]
    /\ UNCHANGED <<address, tickets, escalated>>

Write(t) ==
    LET c == call[t]
    IN  /\ stage[t] = "write" /\ Finish(t)
        /\ CASE c.tool = "update_shipping_address" -> UpdateShippingAddress(c)
             [] c.tool = "cancel_order" -> CancelOrder(c)
             [] NeedsTicket(c) -> EscalateToHuman(no[t], SessionOf[t])
             [] OTHER -> CreateRefund(no[t], c)
        /\ UNCHANGED <<verified, talk, rounds, connected, SessionOf, received>>

\* The transaction is rolled back at its commit; what the tool has set in the session stays.
CommitFails(t) ==
    /\ stage[t] = "write" /\ Finish(t)
    /\ escalated' = [escalated EXCEPT ![SessionOf[t]] = @ \/ NeedsTicket(call[t])]
    /\ UNCHANGED <<database, verified, talk, rounds, connected, SessionOf, received>>

\* The result goes back to the model.
ToolResult(t) ==
    /\ stage[t] = "result" /\ AppendMessage(SessionOf[t], "results") /\ MoveOn(t, "ask")
    /\ UNCHANGED <<database, state, call, no, rounds, connected, SessionOf, received>>

\* The run is over: the connection, if it is still there, is told and waits again.
Reply(t) ==
    /\ stage[t] = "reply" /\ MoveOn(t, "idle") /\ connected' = [connected EXCEPT ![t] = FALSE]
    /\ call' = [call EXCEPT ![t] = NoCall] /\ no' = [no EXCEPT ![t] = 0]
    /\ rounds' = [rounds EXCEPT ![t] = 0] /\ SessionOf' = [SessionOf EXCEPT ![t] = None]
    /\ UNCHANGED <<database, state, talk, received>>

-----------------------------------------------------------------------------
Run(t) ==
    \/ AskModel(t) \/ LogMessageFails(t) \/ ReadAndCheck(t) \/ TakeNumber(t) \/ Write(t) \/ CommitFails(t)
    \/ ToolResult(t) \/ Reply(t)
ServiceNext == \E t \in Threads : (\E s \in SessionIds : ChatWs(t, s)) \/ WebSocketDisconnect(t) \/ Run(t)

\* The model answers or its client times out, and the thread goes on.
ServiceSpec == ServiceInit /\ [][ServiceNext]_serviceVars /\ \A t \in Threads : WF_serviceVars(Run(t))

-----------------------------------------------------------------------------
\* A cancelled order is never refunded and a refunded one never cancelled, whatever another thread
\* has committed since a tool read the status: the two begin from statuses that no tool leads to.
SettledStays == [][\A o \in Orders : status[o] \in {"cancelled", "refunded"} => status'[o] = status[o]]_serviceVars

\* Every message on a connection that holds gets its last event, "done".
Answered == \A t \in Threads : connected[t] ~> ~connected[t]

\* Not true: "no second refund" (guardrails.py); a thread that read the status before another
\* one refunded the order refunds it again.
OneRefundPerOrder == \A r, q \in refunds : r.order = q.order => r = q

\* Not true: the address of an order changes only before it is shipped or cancelled (tools/address.py).
AddressOnlyPending == [][\A o \in Orders : address'[o] # address[o] => status[o] = "pending_shipment"]_serviceVars

\* Not true: an escalated session is answered by a human only (tools/human.py).
EscalationEndsService == \A t \in Threads : stage[t] = "ask" /\ rounds[t] = 0 => ~escalated[SessionOf[t]]

\* Not true: a session that says it is with a human has a ticket (frontend/app.py).
EscalatedHasTicket == \A s \in SessionIds : escalated[s] => \E k \in tickets : k.session = s

\* Not true: a session can always be answered.
HistoryStaysValid == \A s \in SessionIds : ~broken[s]
=============================================================================
