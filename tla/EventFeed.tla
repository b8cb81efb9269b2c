----------------------------- MODULE EventFeed -----------------------------
(***************************************************************************)
(* QQQQC: the events of one conversation, from the threads that emit them  *)
(* to the page that shows them.  The thread that reads the process and the *)
(* threads of HTTP requests emit: each takes a number under a lock, stores *)
(* the event in the log, and hands it to the subscribers it finds, all of  *)
(* that without a lock around the whole.  A connection subscribes, replays *)
(* the log behind the number the browser names, and then forwards what     *)
(* arrives on its channel.  Connections drop and the server restarts.      *)
(***************************************************************************)
EXTENDS Naturals, Sequences, SequencesExt, FiniteSetsExt

CONSTANTS Emitters,     \* threads that call emit
          MaxEvents,    \* bound on the numbers given
          MaxBreaks     \* bound on opened views, drops and restarts, each

ASSUME FeedAssumption == MaxEvents \in Nat /\ MaxBreaks \in Nat

VARIABLES
    seq,       \* _event_seq: the last number given
    saved,     \* event_seq in the row of the task
    log,       \* the events file, as numbers
    emitter,   \* where each thread is in emit, with its number and its subscriber
    conn,      \* number of the newest connection
    link,      \* where its handler is; "closed" before the view is opened
    cursor,    \* the handler's cursor
    backlog,   \* events of the replay still to be written
    channel,   \* the subscriber's queue
    page,      \* the browser: last id, seen, renderedCount, numbers received and shown
    late,      \* history: numbers overtaken by a larger one in the log or on the way
    breaks     \* accidents so far, by kind

feedVars == <<seq, saved, log, emitter, conn, link, cursor, backlog, channel, page, late, breaks>>
server == <<seq, saved, log, emitter, late>>

Numbers == 0..MaxEvents
NotEmitting == [at |-> "rest", n |-> 0, to |-> 0]
FreshPage == [lastId |-> 0, seen |-> 0, rendered |-> 0, received |-> << >>, shown |-> << >>]

FeedTypeOK ==
    /\ seq \in Numbers /\ saved \in Numbers
    /\ late \subseteq Numbers
    /\ log \in Seq(Numbers) /\ backlog \in Seq(Numbers) /\ channel \in Seq(Numbers)
    /\ emitter \in [Emitters -> [at : {"rest", "numbered", "stored", "applied", "sending"},
                                 n : Numbers, to : Nat]]
    /\ conn \in Nat
    /\ link \in {"closed", "down", "connecting", "subscribed", "replaying", "live"}
    /\ cursor \in Numbers
    /\ page \in [lastId : Numbers, seen : Nat, rendered : Nat,
                 received : Seq(Numbers), shown : Seq(Numbers)]
    /\ breaks \in [{"open", "drop", "restart"} -> 0..MaxBreaks]

FeedInit ==
    /\ seq = 0 /\ saved = 0 /\ log = << >>
    /\ emitter = [e \in Emitters |-> NotEmitting]
    /\ conn = 0 /\ link = "closed" /\ cursor = 0 /\ backlog = << >> /\ channel = << >>
    /\ page = FreshPage
    /\ late = {}
    /\ breaks = [k \in {"open", "drop", "restart"} |-> 0]

-----------------------------------------------------------------------------
(* emit.                                                                     *)

Moves(e, from, to) == /\ emitter[e].at = from
                      /\ emitter' = [emitter EXCEPT ![e].at = to]

NextSeq(e) ==
    /\ emitter[e].at = "rest" /\ seq < MaxEvents
    /\ seq' = seq + 1
    /\ emitter' = [emitter EXCEPT ![e] = [at |-> "numbered", n |-> seq + 1, to |-> 0]]
    /\ UNCHANGED <<saved, log, conn, link, cursor, backlog, channel, page, late, breaks>>

\* EventStore.append.
Store(e) ==
    /\ Moves(e, "numbered", "stored")
    /\ log' = Append(log, emitter[e].n)
    /\ late' = IF \E m \in ToSet(log) : m > emitter[e].n THEN late \cup {emitter[e].n} ELSE late
    /\ UNCHANGED <<seq, saved, conn, link, cursor, backlog, channel, page, breaks>>

\* _apply_event: an init or a result writes the row, and with it the newest number.
ApplyEvent(e) ==
    /\ Moves(e, "stored", "applied")
    /\ saved' \in {saved, seq}
    /\ UNCHANGED <<seq, log, conn, link, cursor, backlog, channel, page, late, breaks>>

\* Whether the connection's channel is among the subscribers.
IsSubscribed == link \in {"subscribed", "replaying", "live"}

SnapshotSubscribers(e) ==
    /\ emitter[e].at = "applied"
    /\ emitter' = [emitter EXCEPT ![e].at = "sending", ![e].to = IF IsSubscribed THEN conn ELSE 0]
    /\ UNCHANGED <<seq, saved, log, conn, link, cursor, backlog, channel, page, late, breaks>>

\* channel.put, for whom the snapshot names: another connection's queue is nobody's.
Put(e) ==
    /\ Moves(e, "sending", "rest")
    /\ channel' = IF emitter[e].to = conn /\ IsSubscribed
                  THEN Append(channel, emitter[e].n) ELSE channel
    /\ late' = late \cup {emitter[f].n : f \in {g \in Emitters : emitter[g].at # "rest" /\ emitter[g].n < emitter[e].n}}
    /\ UNCHANGED <<seq, saved, log, conn, link, cursor, backlog, page, breaks>>

-----------------------------------------------------------------------------
(* The connection.                                                           *)

Breaks(kind) == /\ breaks[kind] < MaxBreaks
                /\ breaks' = [breaks EXCEPT ![kind] = @ + 1]

\* A new connection; the browser names the last id it has received.
Connects(lastId) == /\ link' = "connecting" /\ conn' = conn + 1 /\ cursor' = lastId
                    /\ backlog' = << >> /\ channel' = << >>

\* openTask: the page is emptied, and a new EventSource names no id.
OpenTask ==
    /\ Breaks("open")
    /\ Connects(0)
    /\ page' = FreshPage
    /\ UNCHANGED server

Reconnect ==
    /\ link = "down"
    /\ Connects(page.lastId)
    /\ UNCHANGED <<server, page, breaks>>

Subscribe ==
    /\ link = "connecting"
    /\ link' = "subscribed"
    /\ UNCHANGED <<server, conn, cursor, backlog, channel, page, breaks>>

\* replay_after reads the file; what is not behind the cursor, which it leaves out,
\* Forward drops as well.
Replay ==
    /\ link = "subscribed"
    /\ link' = "replaying"
    /\ backlog' = log
    /\ UNCHANGED <<server, conn, cursor, channel, page, breaks>>

\* es.onmessage: what was rendered before a reconnection is skipped, by counting.
Received(n) ==
    LET seen == page.seen + 1
        news == seen > page.rendered
    IN page' = [lastId |-> n, seen |-> seen,
                rendered |-> IF news THEN seen ELSE page.rendered,
                received |-> Append(page.received, n),
                shown |-> IF news THEN Append(page.shown, n) ELSE page.shown]

\* Mutant: whatever comes is written.
ForwardAll(n) == Received(n) /\ cursor' = n

\* An event behind the cursor is written, any other is dropped.
Forward(n) == IF n > cursor
              THEN /\ Received(n)
                   /\ cursor' = n
              ELSE UNCHANGED <<page, cursor>>

WriteReplayed ==
    /\ link = "replaying" /\ backlog # << >>
    /\ Forward(Head(backlog))
    /\ backlog' = Tail(backlog)
    /\ UNCHANGED <<server, conn, link, channel, breaks>>

GoLive ==
    /\ link = "replaying" /\ backlog = << >>
    /\ link' = "live"
    /\ UNCHANGED <<server, conn, cursor, backlog, channel, page, breaks>>

WriteLive ==
    /\ link = "live" /\ channel # << >>
    /\ Forward(Head(channel))
    /\ channel' = Tail(channel)
    /\ UNCHANGED <<server, conn, link, backlog, breaks>>

-----------------------------------------------------------------------------
(* Accidents.                                                                *)

\* Mutant: onerror closes the source.
LinkCloses == /\ link' = "closed"
              /\ page' = [page EXCEPT !.seen = 0]
              /\ backlog' = << >> /\ channel' = << >> /\ cursor' = 0
              /\ UNCHANGED conn

LinkBreaks == /\ link' = IF link = "closed" THEN "closed" ELSE "down"
              /\ page' = [page EXCEPT !.seen = 0]
              /\ backlog' = << >> /\ channel' = << >> /\ cursor' = 0
              /\ UNCHANGED conn

\* The connection drops: es.onerror.
Drop ==
    /\ link \notin {"closed", "down"}
    /\ Breaks("drop")
    /\ LinkBreaks
    /\ UNCHANGED server

\* Mutant: the row alone is read.
SavedSeq == saved

\* The number a new process starts from: TaskService.__init__, EventStore.max_seq.
RestoredSeq == Max({saved} \cup ToSet(log) \cup {0})

\* The server process ends and starts again: its threads and connections are gone.
Restart ==
    /\ Breaks("restart")
    /\ emitter' = [e \in Emitters |-> NotEmitting]
    /\ seq' = RestoredSeq
    /\ LinkBreaks
    /\ UNCHANGED <<saved, log, late>>

Emit(e) == NextSeq(e) \/ Store(e) \/ ApplyEvent(e) \/ SnapshotSubscribers(e) \/ Put(e)
Handle == Subscribe \/ Replay \/ WriteReplayed \/ GoLive \/ WriteLive

FeedNext ==
    \/ \E e \in Emitters : Emit(e)
    \/ Handle
    \/ OpenTask \/ Reconnect \/ Drop \/ Restart

FeedSpec == FeedInit /\ [][FeedNext]_feedVars

\* A thread in emit and the handler of a connection go on; EventSource reconnects.
FeedFairSpec ==
    /\ FeedSpec
    /\ \A e \in Emitters : WF_feedVars(Store(e) \/ ApplyEvent(e) \/ SnapshotSubscribers(e) \/ Put(e))
    /\ WF_feedVars(Handle) /\ WF_feedVars(Reconnect)

-----------------------------------------------------------------------------
(* Properties.                                                               *)

Ascending(s) == \A i, j \in DOMAIN s : i < j => s[i] < s[j]

\* The page receives events in the order of their numbers and none twice, though what
\* is stored while a connection subscribes arrives by the replay and by the channel
\* (the cursor in _sse).
ReceivedInOrder == Ascending(page.received)

\* No number is given to two events, though the server may stop between giving a number
\* and storing the event (TaskService.__init__ takes the maximum of row and file).
NumbersAreUnique == \A i, j \in DOMAIN log : log[i] = log[j] => i = j

CaughtUp == ToSet(log) \subseteq ToSet(page.received) \cup late

\* An opened view receives whatever is in the log, unless a larger number overtook it
\* between numbering and delivery: nothing falls between the replay and the channel
\* (_sse subscribes first), however often the connection drops or the server restarts.
OpenedViewCatchesUp == link # "closed" ~> CaughtUp

\* What the page receives it shows.  A comment of tasks.js says that a reconnection
\* replays and that the part already rendered is skipped; the server resumes behind the
\* last id, and so the page skips as many new events as it has shown old ones.
ReceivedIsShown == page.shown = page.received

\* The log is in the order of the numbers, as test_smoke.py expects of a replay.
LogInOrder == Ascending(log)
=============================================================================
