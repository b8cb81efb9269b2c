--------------------------- MODULE DebugBridgeProofs ---------------------------
(***************************************************************************)
(* Proofs about the transport of tool calls and the calls that wait for a  *)
(* stop, for any set of calls, any number of stops and of lost connections.*)
(***************************************************************************)
EXTENDS DebugBridge, TLAPS

-----------------------------------------------------------------------------
(* Types.                                                                    *)

\* What the extension finds; "notConnected" is said by the bridge alone.
Results == {"none", "paused", "ok", "error", "stopped", "notStopped", "terminated",
            "matched", "timedOut", "maxSteps"}

DebugTypeOK ==
    /\ called \subseteq Calls /\ msgQueue \subseteq called
    /\ pending \subseteq called /\ watched \subseteq pending
    /\ answer \in [Calls -> Results \cup {"notConnected"}]
    /\ request \in [Calls -> {"none", "wire", "running", "reply", "over"}]
    /\ result \in [Calls -> Results]
    /\ lost \in [Calls -> BOOLEAN]
    /\ activeSession \in BOOLEAN
    /\ waitResolvers \subseteq Calls
    /\ stage \in [Calls -> {"idle", "waiting", "woken"}]

\* A call that waits in the queue, or was given up there, has not reached the
\* extension; one that waits for a stop has.
QueueInv ==
    /\ RefusedNeverRuns
    /\ \A c \in Calls : answer[c] = "notConnected" => c \in called \ (msgQueue \cup pending)
    /\ \A c \in msgQueue : request[c] = "none" /\ answer[c] = "none" /\ c \notin pending
    /\ \A c \in Calls \ called : request[c] = "none" /\ answer[c] = "none"
    /\ \A c \in Calls : c \in waitResolvers \/ stage[c] # "idle" => request[c] # "none"

DebugInv == DebugTypeOK /\ QueueInv /\ NoWaiterWithoutSession

-----------------------------------------------------------------------------
LEMMA InitDebug == Init => DebugInv
  <1> SUFFICES ASSUME Init PROVE DebugInv
    OBVIOUS
  <1> USE DEF Init, TransportInit
  <1>1. DebugTypeOK
    BY DEF DebugTypeOK, Results
  <1>2. QueueInv
    BY DEF QueueInv, RefusedNeverRuns
  <1>3. NoWaiterWithoutSession
    BY DEF NoWaiterWithoutSession
  <1> QED BY <1>1, <1>2, <1>3 DEF DebugInv

\* A step of the extension: it answers or parks calls that have reached it.
LEMMA ReplyType ==
    ASSUME DebugTypeOK, NEW set \in SUBSET Calls, NEW r \in Results, Reply(set, r)
    PROVE  /\ request' \in [Calls -> {"none", "wire", "running", "reply", "over"}]
           /\ result' \in [Calls -> Results]
           /\ \A c \in Calls \ set : request'[c] = request[c]
           /\ \A c \in set : request'[c] \in {"reply", "over"}
  BY DEF DebugTypeOK, Reply

\* What a step of the extension keeps.
ServerStep ==
    /\ UNCHANGED bridge
    /\ request' \in [Calls -> {"none", "wire", "running", "reply", "over"}]
    /\ result' \in [Calls -> Results]
    /\ lost' \in [Calls -> BOOLEAN]
    /\ activeSession' \in BOOLEAN
    /\ waitResolvers' \subseteq Calls
    /\ stage' \in [Calls -> {"idle", "waiting", "woken"}]
    /\ waitResolvers' # {} => activeSession'
    /\ \A c \in Calls : request'[c] = "none" <=> request[c] = "none"
    /\ \A c \in Calls : c \in waitResolvers' \/ stage'[c] # "idle" => request'[c] # "none"

LEMMA ServerKeeps == DebugInv /\ ServerStep => DebugInv'
  <1> SUFFICES ASSUME DebugInv, ServerStep PROVE DebugInv'
    OBVIOUS
  <1>1. DebugTypeOK'
    BY DEF DebugInv, DebugTypeOK, ServerStep, bridge
  <1>2. QueueInv'
    BY DEF DebugInv, DebugTypeOK, QueueInv, RefusedNeverRuns, ServerStep, bridge
  <1>3. NoWaiterWithoutSession'
    BY DEF NoWaiterWithoutSession, ServerStep
  <1> QED BY <1>1, <1>2, <1>3 DEF DebugInv

\* The connection and its timers.
LEMMA TransportKeeps ==
    ASSUME DebugInv, Quiet,
           Network \/ \E c \in Calls : QueueTimeout(c) \/ RequestTimeout(c) \/ OnMessage(c)
    PROVE  DebugInv'
  <1> USE DEF DebugInv, DebugTypeOK, Quiet, session, waits, server
  <1>1. NoWaiterWithoutSession'
    BY DEF NoWaiterWithoutSession
  <1>2. CASE TryConnect \/ ConnectFails
    BY <1>1, <1>2 DEF TryConnect, ConnectFails, QueueInv, RefusedNeverRuns
  <1>3. CASE OnOpen
    <2>1. DebugTypeOK'
      BY <1>3 DEF OnOpen
    <2>2. QueueInv'
      BY <1>3 DEF OnOpen, QueueInv, RefusedNeverRuns
    <2> QED BY <1>1, <2>1, <2>2
  <1>4. CASE OnClose
    <2>1. DebugTypeOK'
      BY <1>4 DEF OnClose
    <2>2. QueueInv'
      BY <1>4 DEF OnClose, QueueInv, RefusedNeverRuns
    <2> QED BY <1>1, <2>1, <2>2
  <1>5. ASSUME NEW d \in Calls, SendWs(d) PROVE DebugInv'
    <2>1. DebugTypeOK'
      BY <1>5 DEF SendWs
    <2>2. QueueInv'
      BY <1>5 DEF SendWs, QueueInv, RefusedNeverRuns
    <2> QED BY <1>1, <2>1, <2>2
  <1>6. ASSUME NEW c \in Calls, QueueTimeout(c) PROVE DebugInv'
    <2>1. DebugTypeOK'
      BY <1>6 DEF QueueTimeout
    <2>2. QueueInv'
      BY <1>6 DEF QueueTimeout, QueueInv, RefusedNeverRuns
    <2> QED BY <1>1, <2>1, <2>2
  <1>7. ASSUME NEW c \in Calls, RequestTimeout(c) PROVE DebugInv'
    <2>1. DebugTypeOK'
      BY <1>7 DEF RequestTimeout, Results
    <2>2. QueueInv'
      BY <1>7 DEF RequestTimeout, QueueInv, RefusedNeverRuns
    <2> QED BY <1>1, <2>1, <2>2
  <1>8. ASSUME NEW c \in Calls, OnMessage(c) PROVE DebugInv'
    <2>1. DebugTypeOK'
      BY <1>8 DEF OnMessage
    <2>2. QueueInv'
      BY <1>8 DEF OnMessage, QueueInv, RefusedNeverRuns, Results
    <2> QED BY <1>1, <2>1, <2>2
  <1> QED BY <1>2, <1>3, <1>4, <1>5, <1>6, <1>7, <1>8 DEF Network

\* Events of the debugger.
LEMMA DebuggerSteps == DebugInv /\ Debugger => ServerStep
  <1> SUFFICES ASSUME DebugInv, Debugger PROVE ServerStep
    OBVIOUS
  <1> USE DEF DebugInv, DebugTypeOK, ServerStep, transport, server
  <1>1. CASE StartSession \/ ProgramStops \/ UserContinues
    BY <1>1 DEF StartSession, ProgramStops, UserContinues, waits, QueueInv, NoWaiterWithoutSession
  <1>2. CASE Terminated \/ SessionEnds
    <2>1. Reply(waitResolvers, Ended) /\ Ended \in Results
      BY <1>2 DEF Terminated, SessionEnds, RejectAllWaiters, Ended, Results
    <2>2. activeSession' \in BOOLEAN /\ waitResolvers' = {}
          /\ UNCHANGED <<bridge, lost>>
          /\ stage' = [c \in Calls |-> IF c \in waitResolvers THEN "idle" ELSE stage[c]]
      BY <1>2 DEF Terminated, SessionEnds, RejectAllWaiters
    <2> QED BY <2>1, <2>2, ReplyType DEF QueueInv
  <1>3. ASSUME NEW n \in handling, HandleStopped(n) PROVE ServerStep
    <2>1. Reply(Waiters, "stopped") /\ "stopped" \in Results
          /\ Waiters \subseteq waitResolvers /\ Steppers \subseteq waitResolvers
      BY <1>3 DEF HandleStopped, Results, Waiters, Steppers
    <2>2. /\ UNCHANGED <<activeSession, bridge, lost>> /\ waitResolvers' = {}
          /\ stage' \in [Calls -> {"idle", "waiting", "woken"}]
          /\ \A c \in Calls : stage'[c] # "idle" => c \in Steppers \/ stage[c] # "idle"
      BY <1>3 DEF HandleStopped
    <2> QED BY <2>1, <2>2, ReplyType DEF QueueInv
  <1> QED BY <1>1, <1>2, <1>3 DEF Debugger

\* Requests and the timer of a wait.
LEMMA RequestSteps ==
    ASSUME DebugInv, NEW c \in Calls,
           \/ Paused(c) /\ Quiet
           \/ DoContinue(c) \/ WaitForStop(c) \/ Inspect(c) \/ SmartStepUntil(c) \/ SmartStepGoesOn(c)
           \/ WaitTimeout(c)
    PROVE  ServerStep
  <1> USE DEF DebugInv, DebugTypeOK
  <1>1. request[c] # "none"
    BY DEF Paused, DoContinue, WaitForStop, Inspect, SmartStepUntil, SmartStepGoesOn, WaitTimeout,
           Begin, QueueInv
  <1>2. ASSUME NEW r \in Results, Answer(c, r)
        PROVE  /\ UNCHANGED <<bridge, lost>>
               /\ request' \in [Calls -> {"none", "wire", "running", "reply", "over"}]
               /\ result' \in [Calls -> Results]
               /\ \A d \in Calls : request'[d] = "none" <=> request[d] = "none"
    <2>1. DebugTypeOK /\ {c} \in SUBSET Calls /\ Reply({c}, r) /\ UNCHANGED <<bridge, lost>>
      BY <1>2 DEF Answer
    <2>2. /\ request' \in [Calls -> {"none", "wire", "running", "reply", "over"}]
          /\ result' \in [Calls -> Results]
          /\ \A d \in Calls \ {c} : request'[d] = request[d]
          /\ \A d \in {c} : request'[d] \in {"reply", "over"}
      <3> HIDE DEF DebugTypeOK
      <3> QED BY <2>1, ReplyType
    <2> QED BY <1>1, <2>1, <2>2
  <1>3. ASSUME NEW r \in Results, Answer(c, r), activeSession' = activeSession,
               waitResolvers' \subseteq waitResolvers,
               \/ stage' = stage
               \/ stage' = [stage EXCEPT ![c] = "idle"]
        PROVE  ServerStep
    BY <1>2, <1>3 DEF ServerStep, QueueInv, NoWaiterWithoutSession
  <1>4. ASSUME Park(c), activeSession, activeSession' = activeSession
        PROVE  ServerStep
    BY <1>1, <1>4 DEF ServerStep, Park, QueueInv
  <1>5. CASE Paused(c) /\ Quiet
    BY <1>5 DEF Paused, Quiet, ServerStep, session, waits, QueueInv, NoWaiterWithoutSession, Results
  <1>6. CASE DoContinue(c)
    BY <1>3, <1>6 DEF DoContinue, waits, Results
  <1>7. CASE WaitForStop(c)
    BY <1>3, <1>4, <1>7 DEF WaitForStop, session, Results
  <1>8. CASE Inspect(c)
    BY <1>3, <1>8 DEF Inspect, session, waits, Results
  <1>9. CASE SmartStepUntil(c)
    BY <1>3, <1>4, <1>9 DEF SmartStepUntil, StepFails, Step, session, Results
  <1>10. CASE SmartStepGoesOn(c)
    BY <1>3, <1>4, <1>10 DEF SmartStepGoesOn, StepFails, Step, session, Results
  <1>11. CASE WaitTimeout(c)
    BY <1>3, <1>11 DEF WaitTimeout, session, Results
  <1> QED BY <1>5, <1>6, <1>7, <1>8, <1>9, <1>10, <1>11

LEMMA NextDebug == DebugInv /\ [Next]_vars => DebugInv'
  <1> SUFFICES ASSUME DebugInv, [Next]_vars PROVE DebugInv'
    OBVIOUS
  <1>1. CASE Network /\ Quiet
    BY <1>1, TransportKeeps
  <1>2. CASE Debugger
    BY <1>2, DebuggerSteps, ServerKeeps
  <1>3. ASSUME NEW c \in Calls, Serve(c) \/ Timeout(c) \/ (OnMessage(c) /\ Quiet)
        PROVE  DebugInv'
    BY <1>3, RequestSteps, ServerKeeps, TransportKeeps DEF Serve, Timeout
  <1>4. CASE UNCHANGED vars
    BY <1>4 DEF vars, transport, server, session, waits, bridge, DebugInv, DebugTypeOK, QueueInv,
                RefusedNeverRuns, NoWaiterWithoutSession
  <1> QED BY <1>1, <1>2, <1>3, <1>4 DEF Next

\* In every reachable state the queue, the requests and the waits agree.
THEOREM DebugCorrect == Spec => []DebugInv
  BY InitDebug, NextDebug, PTL DEF Spec

\* A call that the client is told was not sent is never carried out, neither before
\* nor after it is told so.
THEOREM RefusedIsNeverRun == Spec => []RefusedNeverRuns
  <1>1. DebugInv => RefusedNeverRuns
    BY DEF DebugInv, QueueInv
  <1> QED BY <1>1, DebugCorrect, PTL

\* No call waits for a stop of a session that has ended.
THEOREM WaitsHaveASession == Spec => []NoWaiterWithoutSession
  <1>1. DebugInv => NoWaiterWithoutSession
    BY DEF DebugInv
  <1> QED BY <1>1, DebugCorrect, PTL
=============================================================================
