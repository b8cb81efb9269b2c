------------------------------- MODULE McpBridge -------------------------------
(***************************************************************************)
(* MCP-Server/mcp-bridge.cjs with the WebSocket server of the extension    *)
(* (ws-server.ts): how the tool calls of the client reach the extension    *)
(* and how their answers come back, over a connection that may be down,    *)
(* come up, or be lost with everything on its way.                         *)
(*                                                                         *)
(* A call made while the connection is up is sent and watched by a timer.  *)
(* One made while it is down waits in a queue, watched by a timer that     *)
(* looks in the queue only, and is sent when the connection opens.  Timers *)
(* that find nothing to do are left out.                                   *)
(***************************************************************************)
EXTENDS Naturals, FiniteSets

CONSTANTS Calls, MaxDrops

VARIABLES
    conn,       \* ws and wsReady: "down", "connecting" or "up"
    msgQueue, pending,
    watched,    \* the pending calls that have a timer
    answer,     \* what the client was told: "none" while it waits
    called,     \* the calls made
    request,    \* how far a request is: "none", "wire", "running", "reply" or "over"
    result,     \* what the extension found
    lost,       \* the connection a request came by is gone
    drops

bridge == <<conn, msgQueue, pending, watched, answer, called>>
server == <<request, result, lost>>
transport == <<bridge, server, drops>>

TransportInit ==
    /\ conn = "down" /\ msgQueue = {} /\ pending = {} /\ called = {} /\ drops = 0
    /\ watched = {} /\ answer = [c \in Calls |-> "none"]
    /\ request = [c \in Calls |-> "none"] /\ result = [c \in Calls |-> "none"]
    /\ lost = [c \in Calls |-> FALSE]

-----------------------------------------------------------------------------
\* sendWs.  A queued call makes the bridge try to connect.
SendWs(c) ==
    /\ c \notin called /\ called' = called \cup {c}
    /\ \/ /\ conn = "up"
          /\ pending' = pending \cup {c} /\ watched' = watched \cup {c}
          /\ request' = [request EXCEPT ![c] = "wire"]
          /\ UNCHANGED <<conn, msgQueue>>
       \/ /\ conn # "up"
          /\ msgQueue' = msgQueue \cup {c}
          /\ conn' \in {"connecting"} \cup {conn}      \* down still, if there is no token
          /\ UNCHANGED <<pending, watched, request>>
    /\ UNCHANGED <<answer, result, lost, drops>>

\* Mutant: a call that is given up stays in the queue.
QueueTimeoutKeeps(c) ==
    /\ c \in msgQueue /\ answer[c] = "none" /\ answer' = [answer EXCEPT ![c] = "notConnected"]
    /\ UNCHANGED <<conn, msgQueue, pending, watched, called, server, drops>>

QueueTimeout(c) ==
    /\ c \in msgQueue /\ msgQueue' = msgQueue \ {c} /\ answer' = [answer EXCEPT ![c] = "notConnected"]
    /\ UNCHANGED <<conn, pending, watched, called, server, drops>>

\* Mutant: a request that times out is forgotten without an answer.
RequestTimeoutSilent(c) ==
    /\ c \in watched /\ watched' = watched \ {c} /\ pending' = pending \ {c}
    /\ UNCHANGED <<conn, msgQueue, answer, called, server, drops>>

RequestTimeout(c) ==
    /\ c \in watched /\ watched' = watched \ {c} /\ pending' = pending \ {c}
    /\ answer' = [answer EXCEPT ![c] = "timedOut"]
    /\ UNCHANGED <<conn, msgQueue, called, server, drops>>

\* The reconnect timer, an attempt that fails, one that succeeds.
TryConnect == conn = "down" /\ conn' = "connecting"
    /\ UNCHANGED <<msgQueue, pending, watched, answer, called, server, drops>>
ConnectFails == conn = "connecting" /\ conn' = "down"
    /\ UNCHANGED <<msgQueue, pending, watched, answer, called, server, drops>>
OnOpen ==
    /\ conn = "connecting" /\ conn' = "up"
    /\ msgQueue' = {} /\ pending' = pending \cup msgQueue
    /\ request' = [c \in Calls |-> IF c \in msgQueue THEN "wire" ELSE request[c]]
    /\ UNCHANGED <<watched, answer, called, result, lost, drops>>

\* The connection is lost with what is on its way; what runs, runs on.
OnClose ==
    /\ conn = "up" /\ conn' = "down" /\ drops < MaxDrops /\ drops' = drops + 1
    /\ request' = [c \in Calls |-> IF request[c] \in {"wire", "reply"} THEN "over" ELSE request[c]]
    /\ lost' = [c \in Calls |-> lost[c] \/ request[c] \in {"wire", "running", "reply"}]
    /\ UNCHANGED <<msgQueue, pending, watched, answer, called, result>>

-----------------------------------------------------------------------------
\* The server, while the user has paused the agent, which may be at any time.
Paused(c) ==
    /\ request[c] = "wire"
    /\ request' = [request EXCEPT ![c] = "reply"] /\ result' = [result EXCEPT ![c] = "paused"]
    /\ UNCHANGED <<bridge, lost, drops>>

\* The state of requests and results after the calls in set have been answered
\* with r by their handlers: an answer to a lost connection is dropped.
Reply(set, r) ==
    /\ request' = [c \in Calls |-> IF c \notin set THEN request[c] ELSE IF lost[c] THEN "over" ELSE "reply"]
    /\ result' = [c \in Calls |-> IF c \in set THEN r ELSE result[c]]

OnMessage(c) ==
    /\ request[c] = "reply" /\ request' = [request EXCEPT ![c] = "over"]
    /\ pending' = pending \ {c} /\ watched' = watched \ {c}
    /\ answer' = IF c \in pending THEN [answer EXCEPT ![c] = result[c]] ELSE answer
    /\ UNCHANGED <<conn, msgQueue, called, result, lost, drops>>

-----------------------------------------------------------------------------
\* A call that the client is told was not sent is never carried out, even if
\* the connection opens in the same moment.
RefusedNeverRuns == \A c \in Calls : answer[c] = "notConnected" => request[c] = "none"

\* Every call is answered in the end, but one that waited in the queue and whose
\* connection was lost after that.
AnsweredOrLost ==
    \A c \in Calls : c \in called ~> (answer[c] # "none" \/ (lost[c] /\ c \notin watched))

\* Every call is answered in the end.  The code does not keep this: the timer
\* of a queued call does not watch the call once it is sent.
CallsAnswered == \A c \in Calls : c \in called ~> answer[c] # "none"
=============================================================================
