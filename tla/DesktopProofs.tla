---------------------------- MODULE DesktopProofs ----------------------------
(***************************************************************************)
(* Proofs about the three state machines of the QQQQC desktop: the event   *)
(* feed of a conversation (EventFeed), the mailbox of the network chat     *)
(* (NetChat) and the processes behind a task (TaskSessions).  They share   *)
(* no variable; the lemmas of a machine are below its header.              *)
(***************************************************************************)
EXTENDS EventFeed, NetChat, TaskSessions, FiniteSetTheorems, SequenceTheorems,
        WellFoundedInduction, TLAPS

(***************************************************************************)
(* EventFeed: for any number of threads, events, connections and accidents, *)
(* no number is given twice, and a page receives events in the order of    *)
(* their numbers.                                                          *)
(***************************************************************************)

-----------------------------------------------------------------------------
(* Bounded sets of numbers.                                                  *)

\* Every set of numbers has a least one.
LEMMA Least ==
    ASSUME NEW T \in SUBSET Nat, T # {}
    PROVE  \E x \in T : \A y \in T : x <= y
  <1> DEFINE R == {ss \in Nat \X Nat : ss[1] < ss[2]}
  <1>1. IsWellFoundedOn(R, Nat)
    BY NatLessThanWellFounded DEF OpToRel
  <1>2. PICK x \in T : \A y \in T : ~ (<<y, x>> \in R)
    <2> HIDE DEF R
    <2> QED BY <1>1, WFMin
  <1>3. ASSUME NEW y \in T PROVE x <= y
    <2>1. <<y, x>> \in Nat \X Nat /\ <<y, x>>[1] = y /\ <<y, x>>[2] = x
      BY <1>3
    <2>2. ~(y < x)
      BY <1>2, <1>3, <2>1
    <2> QED BY <2>1, <2>2
  <1> QED BY <1>3

\* A set of numbers below a bound has a greatest one, which Max returns.
LEMMA Greatest ==
    ASSUME NEW m \in Nat, NEW T \in SUBSET (0 .. m), T # {}
    PROVE  Max(T) \in T /\ \A y \in T : Max(T) >= y
  <1> DEFINE D == {m - x : x \in T}
  <1>1. PICK t \in T : TRUE
    OBVIOUS
  <1>2. D \in SUBSET Nat /\ m - t \in D
    BY <1>1
  <1>3. PICK d \in D : \A y \in D : d <= y
    <2> HIDE DEF D
    <2> QED BY <1>2, Least
  <1>4. PICK x \in T : d = m - x
    OBVIOUS
  <1>5. ASSUME NEW y \in T PROVE x >= y
    <2>1. m - y \in D
      OBVIOUS
    <2>2. m - x <= m - y /\ x \in 0 .. m /\ y \in 0 .. m
      BY <1>3, <1>4, <2>1
    <2> QED BY <2>2
  <1> QED BY <1>5 DEF Max

-----------------------------------------------------------------------------
(* Types.                                                                    *)

\* A new process goes on from a number that was given before, behind those of the file.
LEMMA Restored ==
    ASSUME FeedTypeOK
    PROVE  RestoredSeq \in Numbers /\ \A i \in DOMAIN log : log[i] <= RestoredSeq
  <1> DEFINE T == {saved} \cup ToSet(log) \cup {0}
  <1>1. /\ MaxEvents \in Nat /\ T \in SUBSET (0 .. MaxEvents) /\ T # {}
        /\ \A i \in DOMAIN log : log[i] \in T
    BY FeedAssumption, SMTT(30) DEF FeedTypeOK, Numbers, ToSet
  <1>2. Max(T) \in T /\ \A y \in T : Max(T) >= y
    <2> HIDE DEF T
    <2> QED BY <1>1, Greatest
  <1>3. RestoredSeq = Max(T)
    BY DEF RestoredSeq
  <1> QED BY <1>1, <1>2, <1>3 DEF Numbers

LEMMA InitFeedType == FeedInit => FeedTypeOK
  BY FeedAssumption DEF FeedInit, FeedTypeOK, Numbers, NotEmitting, FreshPage

LEMMA NextFeedType == FeedTypeOK /\ [FeedNext]_feedVars => FeedTypeOK'
  <1> SUFFICES ASSUME FeedTypeOK, [FeedNext]_feedVars PROVE FeedTypeOK'
    OBVIOUS
  <1> USE FeedAssumption DEF FeedTypeOK, Numbers, server
  <1>1. ASSUME NEW e \in Emitters, NextSeq(e) PROVE FeedTypeOK'
    <2>1. seq + 1 \in Numbers
      BY <1>1 DEF NextSeq
    <2>2. emitter' \in [Emitters -> [at : {"rest", "numbered", "stored", "applied", "sending"},
                                     n : Numbers, to : Nat]]
      <3>1. [at |-> "numbered", n |-> seq + 1, to |-> 0]
              \in [at : {"rest", "numbered", "stored", "applied", "sending"}, n : Numbers, to : Nat]
        BY <2>1
      <3> HIDE DEF Numbers
      <3> QED BY <1>1, <3>1 DEF NextSeq
    <2> HIDE DEF Numbers
    <2> QED BY <1>1, <2>1, <2>2 DEF NextSeq
  <1>2. ASSUME NEW e \in Emitters, Store(e) PROVE FeedTypeOK'
    <2>1. emitter[e].n \in Numbers /\ log' = Append(log, emitter[e].n)
      BY <1>2 DEF Store
    <2>2. log' \in Seq(Numbers) /\ late' \subseteq Numbers
      <3>1. log' \in Seq(Numbers)
        BY <2>1
      <3> QED BY <1>2, <2>1, <3>1 DEF Store
    <2>3. emitter' \in [Emitters -> [at : {"rest", "numbered", "stored", "applied", "sending"},
                                     n : Numbers, to : Nat]]
      BY <1>2 DEF Store, Moves
    <2> QED BY <1>2, <2>2, <2>3 DEF Store
  <1>3. ASSUME NEW e \in Emitters, ApplyEvent(e) PROVE FeedTypeOK'
    BY <1>3 DEF ApplyEvent, Moves
  <1>4. ASSUME NEW e \in Emitters, SnapshotSubscribers(e) PROVE FeedTypeOK'
    BY <1>4, ZenonT(60) DEF SnapshotSubscribers
  <1>5. ASSUME NEW e \in Emitters, Put(e) PROVE FeedTypeOK'
    <2>1. emitter[e].n \in Numbers /\ \A f \in Emitters : emitter[f].n \in Numbers
      OBVIOUS
    <2>2. channel' \in Seq(Numbers) /\ late' \subseteq Numbers
      <3>1. channel' \in Seq(Numbers)
        <4>1. channel' = Append(channel, emitter[e].n) \/ channel' = channel
          BY <1>5 DEF Put
        <4>2. channel \in Seq(Numbers) /\ Append(channel, emitter[e].n) \in Seq(Numbers)
          BY <2>1
        <4> QED BY <4>1, <4>2
      <3>2. late' = late \cup {emitter[f].n : f \in {g \in Emitters :
                                emitter[g].at # "rest" /\ emitter[g].n < emitter[e].n}}
        BY <1>5 DEF Put
      <3>3. late \subseteq Numbers
        OBVIOUS
      <3>4. ASSUME NEW x \in late' PROVE x \in Numbers
        <4>1. x \in late \/ \E f \in Emitters : x = emitter[f].n
          BY <3>2, Zenon
        <4> QED BY <4>1, <2>1, <3>3
      <3> QED BY <3>1, <3>4
    <2>3. emitter' \in [Emitters -> [at : {"rest", "numbered", "stored", "applied", "sending"},
                                     n : Numbers, to : Nat]]
      BY <1>5 DEF Put, Moves
    <2> QED BY <1>5, <2>2, <2>3 DEF Put
  <1>6. CASE Subscribe
    BY <1>6 DEF Subscribe
  <1>7. CASE Replay
    BY <1>7 DEF Replay
  <1>8. ASSUME NEW n \in Numbers, Forward(n)
        PROVE  /\ cursor' \in Numbers
               /\ page' \in [lastId : Numbers, seen : Nat, rendered : Nat,
                             received : Seq(Numbers), shown : Seq(Numbers)]
    <2>1. CASE n > cursor
      <3>1. Append(page.received, n) \in Seq(Numbers) /\ Append(page.shown, n) \in Seq(Numbers)
        OBVIOUS
      <3>2. page.seen + 1 \in Nat /\ page.rendered \in Nat /\ page.shown \in Seq(Numbers)
        OBVIOUS
      <3>3. Received(n) /\ cursor' = n
        BY <1>8, <2>1 DEF Forward
      <3>4. PICK r \in Nat, w \in Seq(Numbers) :
              page' = [lastId |-> n, seen |-> page.seen + 1, rendered |-> r,
                       received |-> Append(page.received, n), shown |-> w]
        <4> HIDE DEF FeedTypeOK, Numbers
        <4> QED BY <3>1, <3>2, <3>3 DEF Received
      <3> HIDE DEF FeedTypeOK, Numbers
      <3> QED BY <1>8, <3>1, <3>2, <3>3, <3>4
    <2>2. CASE ~(n > cursor)
      BY <1>8, <2>2 DEF Forward
    <2> QED BY <2>1, <2>2
  <1>9. CASE WriteReplayed
    <2>1. Head(backlog) \in Numbers /\ Tail(backlog) \in Seq(Numbers)
      BY <1>9, SMTT(30) DEF WriteReplayed
    <2> QED BY <1>8, <1>9, <2>1 DEF WriteReplayed
  <1>10. CASE GoLive
    BY <1>10 DEF GoLive
  <1>11. CASE WriteLive
    <2>1. Head(channel) \in Numbers /\ Tail(channel) \in Seq(Numbers)
      BY <1>11, SMTT(30) DEF WriteLive
    <2> QED BY <1>8, <1>11, <2>1 DEF WriteLive
  <1>12. CASE OpenTask
    BY <1>12 DEF OpenTask, Breaks, Connects, FreshPage
  <1>13. CASE Reconnect
    BY <1>13 DEF Reconnect, Connects
  <1>14. ASSUME LinkBreaks
         PROVE  /\ link' \in {"closed", "down"} /\ cursor' \in Numbers /\ conn' \in Nat
                /\ backlog' \in Seq(Numbers) /\ channel' \in Seq(Numbers)
                /\ page' \in [lastId : Numbers, seen : Nat, rendered : Nat,
                              received : Seq(Numbers), shown : Seq(Numbers)]
    <2>1. page \in [lastId : Numbers, seen : Nat, rendered : Nat,
                    received : Seq(Numbers), shown : Seq(Numbers)]
          /\ page' = [page EXCEPT !.seen = 0]
      BY <1>14 DEF LinkBreaks
    <2>2. page' \in [lastId : Numbers, seen : Nat, rendered : Nat,
                     received : Seq(Numbers), shown : Seq(Numbers)]
      <3> HIDE DEF FeedTypeOK, Numbers
      <3> QED BY <2>1
    <2>3. << >> \in Seq(Numbers) /\ 0 \in Numbers /\ conn \in Nat
      OBVIOUS
    <2> QED BY <1>14, <2>2, <2>3 DEF LinkBreaks
  <1>15. CASE Drop
    <2>1. breaks' \in [{"open", "drop", "restart"} -> 0 .. MaxBreaks] /\ LinkBreaks
          /\ UNCHANGED server
      BY <1>15 DEF Drop, Breaks
    <2> QED BY <1>14, <2>1
  <1>17. CASE Restart
    <2>1. seq' \in Numbers
      BY <1>17, Restored DEF Restart
    <2>2. emitter' \in [Emitters -> [at : {"rest", "numbered", "stored", "applied", "sending"},
                                     n : Numbers, to : Nat]]
      BY <1>17 DEF Restart, NotEmitting
    <2>3. breaks' \in [{"open", "drop", "restart"} -> 0 .. MaxBreaks]
      BY <1>17 DEF Restart, Breaks
    <2> QED BY <1>14, <1>17, <2>1, <2>2, <2>3 DEF Restart
  <1>16. CASE UNCHANGED feedVars
    BY <1>16 DEF feedVars
  <1> QED BY <1>1, <1>2, <1>3, <1>4, <1>5, <1>6, <1>7, <1>9, <1>10, <1>11, <1>12, <1>13, <1>15,
             <1>16, <1>17 DEF FeedNext, Emit, Handle

\* Every variable keeps its type.
THEOREM FeedTypeCorrect == FeedSpec => []FeedTypeOK
  BY InitFeedType, NextFeedType, PTL DEF FeedSpec

-----------------------------------------------------------------------------
(* Numbers.                                                                  *)

\* Numbers in the file and in the hands of threads have been given, and a number that
\* is still to be stored is in nobody else's hands and not in the file.
NumbersInv ==
    /\ NumbersAreUnique
    /\ \A i \in DOMAIN log : log[i] <= seq
    /\ \A e \in Emitters : emitter[e].at = "numbered" =>
         /\ emitter[e].n <= seq
         /\ \A i \in DOMAIN log : log[i] # emitter[e].n
         /\ \A f \in Emitters : emitter[f].at = "numbered" /\ emitter[f].n = emitter[e].n => f = e

LEMMA NextNumbers == FeedTypeOK /\ NumbersInv /\ [FeedNext]_feedVars => NumbersInv'
  <1> SUFFICES ASSUME FeedTypeOK, NumbersInv, [FeedNext]_feedVars PROVE NumbersInv'
    OBVIOUS
  <1>0. /\ seq \in Nat /\ log \in Seq(Nat)
        /\ \A i \in DOMAIN log : log[i] \in Nat
        /\ emitter \in [Emitters -> [at : {"rest", "numbered", "stored", "applied", "sending"},
                                     n : Numbers, to : Nat]]
        /\ \A e \in Emitters : emitter[e].n \in Nat
    <2>1. /\ seq \in Numbers /\ log \in Seq(Numbers)
          /\ emitter \in [Emitters -> [at : {"rest", "numbered", "stored", "applied", "sending"},
                                       n : Numbers, to : Nat]]
      BY DEF FeedTypeOK
    <2>2. \A n \in Numbers : n \in Nat
      BY FeedAssumption DEF Numbers
    <2>3. Len(log) \in Nat /\ log \in [1..Len(log) -> Numbers]
      BY <2>1
    <2>4. log \in [1..Len(log) -> Nat]
      BY <2>2, <2>3
    <2>5. log \in Seq(Nat)
      BY <2>3, <2>4
    <2>6. \A e \in Emitters : emitter[e].n \in Numbers
      BY <2>1
    <2> QED BY <2>1, <2>2, <2>4, <2>5, <2>6
  <1>1. ASSUME NEW e \in Emitters, NextSeq(e) PROVE NumbersInv'
    BY <1>0, <1>1 DEF NextSeq, NumbersInv, NumbersAreUnique
  <1>2. ASSUME NEW e \in Emitters, Store(e) PROVE NumbersInv'
    <2>1. /\ log' = Append(log, emitter[e].n) /\ seq' = seq /\ emitter[e].at = "numbered"
          /\ emitter' = [emitter EXCEPT ![e].at = "stored"]
      BY <1>2 DEF Store, Moves
    <2>2. /\ DOMAIN log = 1 .. Len(log) /\ DOMAIN log' = 1 .. Len(log) + 1 /\ Len(log) \in Nat
          /\ \A i \in DOMAIN log : log'[i] = log[i]
          /\ log'[Len(log) + 1] = emitter[e].n
      BY <1>0, <2>1
    <2>3. \A i \in DOMAIN log' : i \in DOMAIN log \/ i = Len(log) + 1
      BY <2>2
    <2>4. \A f \in Emitters : emitter'[f].at = "numbered" =>
             f # e /\ emitter[f].at = "numbered" /\ emitter'[f].n = emitter[f].n
      BY <1>0, <2>1
    <2>5. NumbersAreUnique'
      BY <2>1, <2>2, <2>3 DEF NumbersInv, NumbersAreUnique
    <2> QED BY <1>0, <2>1, <2>2, <2>3, <2>4, <2>5 DEF NumbersInv
  <1>3. ASSUME NEW e \in Emitters, ApplyEvent(e) \/ SnapshotSubscribers(e) \/ Put(e) PROVE NumbersInv'
    <2>1. /\ UNCHANGED <<seq, log>>
          /\ \A f \in Emitters : emitter'[f].at = "numbered" =>
               emitter[f].at = "numbered" /\ emitter'[f].n = emitter[f].n
      BY <1>0, <1>3 DEF ApplyEvent, SnapshotSubscribers, Put, Moves
    <2> QED BY <2>1 DEF NumbersInv, NumbersAreUnique
  <1>4. CASE Restart
    <2>1. /\ log' = log /\ seq' = RestoredSeq
          /\ \A e \in Emitters : emitter'[e].at = "rest"
      BY <1>4 DEF Restart, NotEmitting
    <2> QED BY <2>1, Restored DEF NumbersInv, NumbersAreUnique
  <1>5. CASE UNCHANGED <<seq, log, emitter>>
    BY <1>5 DEF NumbersInv, NumbersAreUnique
  <1>6. Handle \/ OpenTask \/ Reconnect \/ Drop \/ UNCHANGED feedVars => UNCHANGED <<seq, log, emitter>>
    BY DEF Handle, Subscribe, Replay, WriteReplayed, GoLive, WriteLive, OpenTask, Reconnect, Drop,
           server, feedVars
  <1> QED BY <1>1, <1>2, <1>3, <1>4, <1>5, <1>6 DEF FeedNext, Emit

\* No number is given to two events, whenever the server stops.
THEOREM UniqueNumbers == FeedSpec => []NumbersAreUnique
  <1>1. FeedInit => NumbersInv
    BY DEF FeedInit, NumbersInv, NumbersAreUnique, NotEmitting
  <1>2. NumbersInv => NumbersAreUnique
    BY DEF NumbersInv
  <1> QED BY <1>1, <1>2, InitFeedType, NextFeedType, NextNumbers, PTL DEF FeedSpec

-----------------------------------------------------------------------------
(* The page.                                                                 *)

\* A handler that is at work stands where its page stands, and the page has received
\* nothing behind its last id.
OrderInv ==
    /\ ReceivedInOrder
    /\ \A i \in DOMAIN page.received : page.received[i] <= page.lastId
    /\ link \notin {"closed", "down"} => cursor = page.lastId

LEMMA NextOrder == FeedTypeOK /\ OrderInv /\ [FeedNext]_feedVars => OrderInv'
  <1> SUFFICES ASSUME FeedTypeOK, OrderInv, [FeedNext]_feedVars PROVE OrderInv'
    OBVIOUS
  <1>0. /\ page \in [lastId : Numbers, seen : Nat, rendered : Nat,
                     received : Seq(Numbers), shown : Seq(Numbers)]
        /\ cursor \in Numbers /\ backlog \in Seq(Numbers) /\ channel \in Seq(Numbers)
    BY DEF FeedTypeOK
  <1>1. ASSUME NEW n \in Numbers, Forward(n), link \notin {"closed", "down"}, link' = link
        PROVE  OrderInv'
    <2>1. CASE ~(n > cursor)
      BY <1>1, <2>1 DEF Forward, OrderInv, ReceivedInOrder, Ascending
    <2>2. CASE n > cursor
      <3>1. /\ page'.received = Append(page.received, n) /\ page'.lastId = n /\ cursor' = n
        BY <1>1, <2>2 DEF Forward, Received
      <3>2. /\ Len(page.received) \in Nat /\ DOMAIN page.received = 1 .. Len(page.received)
            /\ DOMAIN page'.received = 1 .. Len(page.received) + 1
            /\ \A i \in DOMAIN page.received :
                 page'.received[i] = page.received[i] /\ page.received[i] \in Numbers
            /\ page'.received[Len(page.received) + 1] = n
        BY <1>0, <3>1
      <3>3. \A i \in DOMAIN page.received : page'.received[i] < n
        <4>1. cursor = page.lastId /\ page.lastId \in Nat /\ n \in Nat /\ n > cursor
          BY <1>0, <1>1, <2>2 DEF OrderInv, Numbers
        <4>2. \A i \in DOMAIN page.received : page.received[i] \in Nat /\ page.received[i] <= page.lastId
          BY <3>2 DEF OrderInv, Numbers
        <4> QED BY <3>2, <4>1, <4>2
      <3>4. \A i \in DOMAIN page'.received : i \in DOMAIN page.received \/ i = Len(page.received) + 1
        BY <3>2
      <3>5. ReceivedInOrder'
        <4> SUFFICES ASSUME NEW i \in DOMAIN page'.received, NEW j \in DOMAIN page'.received, i < j
                     PROVE  page'.received[i] < page'.received[j]
          BY DEF ReceivedInOrder, Ascending
        <4>1. i \in DOMAIN page.received
          BY <3>2
        <4> QED BY <3>2, <3>3, <3>4, <4>1 DEF OrderInv, ReceivedInOrder, Ascending
      <3>6. \A i \in DOMAIN page'.received : page'.received[i] <= page'.lastId
        BY <1>1, <3>1, <3>2, <3>3, <3>4, FeedAssumption DEF Numbers
      <3> QED BY <3>1, <3>5, <3>6 DEF OrderInv
    <2> QED BY <2>1, <2>2
  <1>2. CASE WriteReplayed
    <2>1. Head(backlog) \in Numbers
      BY <1>0, <1>2 DEF WriteReplayed
    <2> QED BY <1>1, <1>2, <2>1 DEF WriteReplayed
  <1>3. CASE WriteLive
    <2>1. Head(channel) \in Numbers
      BY <1>0, <1>3 DEF WriteLive
    <2> QED BY <1>1, <1>3, <2>1 DEF WriteLive
  <1>4. CASE OpenTask
    BY <1>4 DEF OpenTask, Connects, FreshPage, OrderInv, ReceivedInOrder, Ascending
  <1>5. CASE Reconnect
    BY <1>5 DEF Reconnect, Connects, OrderInv, ReceivedInOrder, Ascending
  <1>6. CASE Drop \/ Restart
    <2>1. page'.received = page.received /\ page'.lastId = page.lastId /\ link' \in {"closed", "down"}
      BY <1>0, <1>6 DEF Drop, Restart, LinkBreaks
    <2> QED BY <2>1 DEF OrderInv, ReceivedInOrder, Ascending
  <1>7. CASE UNCHANGED <<page, cursor>> /\ (link' = link \/ link \in {"connecting", "subscribed", "replaying"})
    BY <1>7 DEF OrderInv, ReceivedInOrder, Ascending
  <1>8. ASSUME NEW e \in Emitters, Emit(e) PROVE UNCHANGED <<page, cursor, link>>
    BY <1>8 DEF Emit, NextSeq, Store, ApplyEvent, SnapshotSubscribers, Put
  <1>9. Subscribe \/ Replay \/ GoLive \/ UNCHANGED feedVars =>
           UNCHANGED <<page, cursor>> /\ (link' = link \/ link \in {"connecting", "subscribed", "replaying"})
    BY DEF Subscribe, Replay, GoLive, feedVars
  <1> QED BY <1>2, <1>3, <1>4, <1>5, <1>6, <1>7, <1>8, <1>9 DEF FeedNext, Handle

\* A page receives the events in the order of their numbers and none twice, by the
\* replay and by the channel, over any number of connections.
THEOREM ReceiptInOrder == FeedSpec => []ReceivedInOrder
  <1>1. FeedInit => OrderInv
    BY DEF FeedInit, OrderInv, ReceivedInOrder, Ascending, FreshPage
  <1>2. OrderInv => ReceivedInOrder
    BY DEF OrderInv
  <1> QED BY <1>1, <1>2, InitFeedType, NextFeedType, NextOrder, PTL DEF FeedSpec

(***************************************************************************)
(* NetChat: a message is stored once and an ID has one owner, for any      *)
(* number of messages, poll threads, installations, crashes and failures,  *)
(* and for any cap of the list of seen messages.                           *)
(***************************************************************************)

Messages == Incoming \cup Outgoing

\* A set with at most one element.
LEMMA AtMostOne ==
    ASSUME NEW T, \A x, y \in T : x = y
    PROVE  Cardinality(T) \in {0, 1}
  <1>1. CASE T = {}
    BY <1>1, FS_EmptySet
  <1>2. ASSUME NEW x \in T PROVE Cardinality(T) \in {0, 1}
    <2>1. T = {x}
      BY <1>2
    <2> QED BY <2>1, FS_Singleton
  <1> QED BY <1>1, <1>2

-----------------------------------------------------------------------------
(* Identifiers.                                                              *)

\* Of the list of a repository that could always be parsed: whoever has read it as it is has
\* read it while the ID was not in it, and one installation at most has entered the ID.
ListInv(r) ==
    /\ members[r] # "unparsable"
    /\ entered[r] # {} => members[r] = "taken"
    /\ \A u \in Users : setup[u].repo = r /\ setup[u].sha = "current" => members[r] = "free"
    /\ \A u, v \in entered[r] : u = v

Setups == [at : {"none", "read", "registered"}, repo : Repos \cup {NoRepo}, sha : {"current", "old"}]

ClaimInv ==
    /\ members \in [Repos -> {"free", "taken", "unparsable"}]
    /\ setup \in [Users -> Setups]
    /\ entered \in [Repos -> SUBSET Users]
    /\ \A u \in Users : setup[u].at # "none" => setup[u].repo \in Repos
    /\ \A r \in Repos \ wiped : ListInv(r)

LEMMA InitClaim == ChatInit => ClaimInv
  BY DEF ChatInit, IdInit, NoSetup, ClaimInv, ListInv, Setups

\* A setup with an old sha has the type of a setup, and is where it was.
LEMMA OutdatedSetups ==
    ASSUME setup \in [Users -> Setups], NEW r
    PROVE  /\ Outdated(r) \in [Users -> Setups]
           /\ \A u \in Users : /\ Outdated(r)[u].at = setup[u].at /\ Outdated(r)[u].repo = setup[u].repo
                               /\ Outdated(r)[u].sha = "current" => setup[u].sha = "current" /\ setup[u].repo # r
  <1>1. \A u \in Users : setup[u] \in Setups
    OBVIOUS
  <1>2. ASSUME NEW u \in Users
        PROVE  LET old == [setup[u] EXCEPT !.sha = "old"]
               IN old \in Setups /\ old.at = setup[u].at /\ old.repo = setup[u].repo /\ old.sha = "old"
    BY <1>1 DEF Setups
  <1> QED BY <1>1, <1>2 DEF Outdated

\* A step that leaves lists alone and in which no setup comes to have read one.
LEMMA ListsKept ==
    ASSUME ClaimInv, UNCHANGED <<members, entered, wiped>>, setup' \in [Users -> Setups],
           \A u \in Users : setup'[u] = setup[u] \/ setup'[u] = NoSetup
    PROVE  ClaimInv'
  <1>1. \A u \in Users : setup'[u].at # "none" => setup'[u].repo \in Repos
    BY DEF ClaimInv, NoSetup
  <1>2. ASSUME NEW r \in Repos \ wiped PROVE ListInv(r)'
    BY DEF ClaimInv, ListInv, NoSetup
  <1> QED BY <1>1, <1>2 DEF ClaimInv

LEMMA NextClaim == ClaimInv /\ [MailNext \/ IdNext]_chatVars => ClaimInv'
  <1> SUFFICES ASSUME ClaimInv, [MailNext \/ IdNext]_chatVars PROVE ClaimInv'
    OBVIOUS
  <1>0. /\ members \in [Repos -> {"free", "taken", "unparsable"}]
        /\ setup \in [Users -> Setups]
        /\ entered \in [Repos -> SUBSET Users]
        /\ \A u \in Users : setup[u].at # "none" => setup[u].repo \in Repos
        /\ \A r \in Repos \ wiped : ListInv(r)
    BY DEF ClaimInv
  <1>1. NoSetup \in Setups
    BY DEF NoSetup, Setups
  <1>2. ASSUME NEW u \in Users, NEW r \in Repos, ReadMembers(u, r) PROVE ClaimInv'
    <2> DEFINE reader == [at |-> "read", repo |-> r, sha |-> "current"]
    <2>1. /\ members[r] # "taken" /\ setup' = [setup EXCEPT ![u] = reader]
          /\ UNCHANGED <<members, entered, wiped>>
      BY <1>2 DEF ReadMembers
    <2>2. reader \in Setups /\ reader.repo = r
      BY DEF Setups
    <2>3. setup' \in [Users -> Setups] /\ setup'[u] = reader /\ \A v \in Users \ {u} : setup'[v] = setup[v]
      BY <1>0, <2>1, <2>2
    <2> HIDE DEF reader
    <2>4. \A v \in Users : setup'[v].at # "none" => setup'[v].repo \in Repos
      BY <1>0, <2>2, <2>3
    <2>5. ASSUME NEW q \in Repos \ wiped PROVE ListInv(q)'
      <3>1. ListInv(q)
        BY <1>0
      <3>2. q = r => members[q] = "free"
        BY <1>0, <2>1, <3>1 DEF ListInv
      <3> QED BY <2>1, <2>2, <2>3, <3>1, <3>2 DEF ListInv
    <2> QED BY <1>0, <2>1, <2>3, <2>4, <2>5 DEF ClaimInv
  <1>3. ASSUME NEW u \in Users, setup[u].sha = "current", setup[u].at = "read", Enters(u, setup[u].repo), UNCHANGED wiped
        PROVE  ClaimInv'
    <2> DEFINE r == setup[u].repo
    <2>1. r \in Repos
      BY <1>0, <1>3
    <2>2. /\ members' = [members EXCEPT ![r] = "taken"] /\ entered' = [entered EXCEPT ![r] = @ \cup {u}]
          /\ setup' = [Outdated(r) EXCEPT ![u].at = "registered"]
      BY <1>3 DEF Enters
    <2>3. /\ Outdated(r) \in [Users -> Setups]
          /\ \A v \in Users : /\ Outdated(r)[v].at = setup[v].at /\ Outdated(r)[v].repo = setup[v].repo
                              /\ Outdated(r)[v].sha = "current" => setup[v].sha = "current" /\ setup[v].repo # r
      BY <1>0, OutdatedSetups
    <2>4. /\ setup' \in [Users -> Setups]
          /\ \A v \in Users : /\ setup'[v].repo = setup[v].repo
                              /\ setup'[v].sha = "current" => setup[v].sha = "current" /\ setup[v].repo # r
          /\ \A v \in Users \ {u} : setup'[v].at = setup[v].at
      <3> DEFINE old == Outdated(r)
      <3>1. old[u] \in Setups
        BY <2>3
      <3>2. /\ [old[u] EXCEPT !.at = "registered"] \in Setups
            /\ [old[u] EXCEPT !.at = "registered"].repo = old[u].repo
            /\ [old[u] EXCEPT !.at = "registered"].sha = old[u].sha
        BY <3>1 DEF Setups
      <3> HIDE DEF old
      <3>3. setup' = [old EXCEPT ![u] = [old[u] EXCEPT !.at = "registered"]]
        BY <2>2 DEF old
      <3>4. /\ old \in [Users -> Setups]
            /\ \A v \in Users : /\ old[v].at = setup[v].at /\ old[v].repo = setup[v].repo
                                /\ old[v].sha = "current" => setup[v].sha = "current" /\ setup[v].repo # r
        BY <2>3 DEF old
      <3> QED BY <3>2, <3>3, <3>4
    <2>5. \A v \in Users : setup'[v].at # "none" => setup'[v].repo \in Repos
      BY <1>0, <2>1, <2>4
    <2>6. /\ members' \in [Repos -> {"free", "taken", "unparsable"}]
          /\ entered' \in [Repos -> SUBSET Users]
      BY <1>0, <2>1, <2>2
    <2>7. ASSUME NEW q \in Repos \ wiped PROVE ListInv(q)'
      <3>1. ListInv(q)
        BY <1>0
      <3>2. CASE q = r
        <4>1. members[r] = "free" /\ entered[r] = {}
          BY <1>3, <3>1, <3>2 DEF ListInv
        <4>2. members'[r] = "taken" /\ entered'[r] = {u}
          BY <1>0, <2>1, <2>2, <4>1
        <4>3. \A v \in Users : ~(setup'[v].repo = r /\ setup'[v].sha = "current")
          BY <2>4
        <4> QED BY <3>2, <4>2, <4>3 DEF ListInv
      <3>3. CASE q # r
        <4>1. members'[q] = members[q] /\ entered'[q] = entered[q]
          BY <1>0, <2>2, <3>3
        <4> QED BY <2>4, <3>1, <4>1 DEF ListInv
      <3> QED BY <3>2, <3>3
    <2> QED BY <1>3, <2>4, <2>5, <2>6, <2>7 DEF ClaimInv
  <1>4. ASSUME NEW u \in Users, setup' = [setup EXCEPT ![u] = NoSetup], UNCHANGED <<members, entered, wiped>>
        PROVE  ClaimInv'
    BY <1>0, <1>1, <1>4, ListsKept
  <1>5. ASSUME NEW u \in Users, WriteMembers(u) PROVE ClaimInv'
    BY <1>3, <1>4, <1>5 DEF WriteMembers
  <1>6. ASSUME NEW u \in Users, SetConfig(u) \/ SetupFails(u) PROVE ClaimInv'
    BY <1>4, <1>6 DEF SetConfig, SetupFails
  <1>7. ASSUME NEW r \in Repos, setup' = Outdated(r), entered' = entered,
               NEW new \in {"free", "taken", "unparsable"}, members' = [members EXCEPT ![r] = new],
               \/ wiped' = wiped /\ (r \notin wiped => new = members[r])
               \/ wiped' = wiped \cup {r}
        PROVE  ClaimInv'
    <2>1. /\ setup' \in [Users -> Setups]
          /\ \A v \in Users : /\ setup'[v].at = setup[v].at /\ setup'[v].repo = setup[v].repo
                              /\ setup'[v].sha = "current" => setup[v].sha = "current" /\ setup[v].repo # r
      BY <1>0, <1>7, OutdatedSetups
    <2>2. members' \in [Repos -> {"free", "taken", "unparsable"}]
      BY <1>0, <1>7
    <2>3. ASSUME NEW q \in Repos \ wiped' PROVE ListInv(q)'
      <3>1. q \notin wiped /\ ListInv(q)
        BY <1>0, <1>7
      <3>2. members'[q] = members[q]
        BY <1>0, <1>7, <3>1
      <3> QED BY <1>7, <2>1, <3>1, <3>2 DEF ListInv
    <2> QED BY <1>0, <1>7, <2>1, <2>2, <2>3 DEF ClaimInv
  <1>8. ASSUME NEW r \in Repos, EnterOther(r) PROVE ClaimInv'
    <2> DEFINE new == IF members[r] = "unparsable" THEN "free" ELSE members[r]
    <2>1. r \notin wiped => new = members[r]
      BY <1>0 DEF ListInv
    <2>2. new \in {"free", "taken", "unparsable"}
      BY <1>0
    <2>3. /\ members' = [members EXCEPT ![r] = new] /\ setup' = Outdated(r)
          /\ entered' = entered /\ wiped' = wiped
      BY <1>8 DEF EnterOther
    <2> HIDE DEF new
    <2> QED BY <1>7, <2>1, <2>2, <2>3
  <1>9. ASSUME NEW r \in Repos, Garble(r) PROVE ClaimInv'
    <2>1. /\ members' = [members EXCEPT ![r] = "unparsable"] /\ setup' = Outdated(r)
          /\ entered' = entered /\ wiped' = wiped \cup {r}
      BY <1>9 DEF Garble
    <2> QED BY <1>7, <2>1
  <1>10. CASE UNCHANGED <<members, setup, entered, wiped>>
    BY <1>0, <1>10, ListsKept
  <1>11. ASSUME NEW u \in Users, GiveUp(u) \/ \E r \in Repos : KeepHandle(u, r) PROVE ClaimInv'
    BY <1>10, <1>11 DEF GiveUp, KeepHandle
  <1>12. MailNext \/ UNCHANGED chatVars => UNCHANGED <<members, setup, entered, wiped>>
    BY DEF MailNext, PeerPuts, Send, ListInbox, Poll, Fetch, FetchFails, CheckSeen, Mark, StoreMessage,
           StoreFails, Delete, RestartThread, ChatCrash, chatVars, ids
  <1> QED BY <1>2, <1>5, <1>6, <1>8, <1>9, <1>10, <1>11, <1>12 DEF IdNext

\* Of the installations that use the ID in a repository, one at most has entered it in the list
\* there, unless the list could not be parsed once.
THEOREM OneOwner == ChatSpec => []UniqueIds
  <1>1. ClaimInv => UniqueIds
    BY DEF ClaimInv, ListInv, UniqueIds, UsesEntered
  <1> QED BY <1>1, InitClaim, NextClaim, PTL DEF ChatSpec

-----------------------------------------------------------------------------
(* The list of seen messages.                                                *)

\* Marking enters the message, keeps the list below its cap, and forgets what it drops.
LEMMA Marked ==
    ASSUME seen \in Seq(Messages), NEW m \in Messages, MarkSeen(m)
    PROVE  /\ seen' \in Seq(Messages) /\ Len(seen') <= SeenCap
           /\ m \in ToSet(seen')
           /\ forgotten \subseteq forgotten'
           /\ ToSet(seen') \subseteq ToSet(seen) \cup {m}
           /\ ToSet(seen) \subseteq ToSet(seen') \cup forgotten'
  <1> DEFINE longer == Append(seen, m)
             n == Len(longer)
             drop == IF n > SeenCap THEN n - SeenCap ELSE 0
             kept == SubSeq(longer, drop + 1, n)
             gone == SubSeq(longer, 1, drop)
  <1>1. /\ longer \in Seq(Messages) /\ n = Len(seen) + 1 /\ n \in Nat /\ drop \in 0 .. (n - 1)
        /\ \A i \in 1 .. Len(seen) : longer[i] = seen[i]
        /\ longer[n] = m
        /\ n - drop <= SeenCap
    BY ChatAssumption
  <1>2. seen' = kept /\ forgotten' = forgotten \cup ToSet(gone)
    BY DEF MarkSeen
  <1> HIDE DEF longer, n, drop
  <1>3. /\ kept \in Seq(Messages) /\ Len(kept) = n - drop
        /\ \A i \in 1 .. (n - drop) : kept[i] = longer[drop + i]
    <2>1. \A i \in (drop + 1) .. n : longer[i] \in Messages
      BY <1>1 DEF longer, n
    <2> QED BY <1>1, <2>1, SubSeqProperties
  <1>4. /\ gone \in Seq(Messages) /\ Len(gone) = drop
        /\ \A i \in 1 .. drop : gone[i] = longer[i]
    <2>1. \A i \in 1 .. drop : longer[i] \in Messages
      BY <1>1 DEF longer, n
    <2> QED BY <1>1, <2>1, SubSeqProperties
  <1> HIDE DEF kept, gone
  <1>5. ToSet(kept) = {kept[i] : i \in 1 .. (n - drop)} /\ ToSet(gone) = {gone[i] : i \in 1 .. drop}
        /\ ToSet(seen) = {seen[i] : i \in 1 .. Len(seen)}
    BY <1>3, <1>4 DEF ToSet
  <1>6. m \in ToSet(kept)
    <2>1. n - drop \in 1 .. (n - drop) /\ kept[n - drop] = m
      BY <1>1, <1>3
    <2> QED BY <1>5, <2>1
  <1>7. ToSet(kept) \subseteq ToSet(seen) \cup {m}
    <2> SUFFICES ASSUME NEW i \in 1 .. (n - drop) PROVE kept[i] \in ToSet(seen) \cup {m}
      BY <1>5
    <2>1. drop + i \in 1 .. n /\ kept[i] = longer[drop + i]
      BY <1>1, <1>3
    <2>2. drop + i \in 1 .. Len(seen) \/ drop + i = n
      BY <1>1, <2>1
    <2> QED BY <1>1, <1>5, <2>1, <2>2
  <1>8. ToSet(seen) \subseteq ToSet(kept) \cup ToSet(gone)
    <2> SUFFICES ASSUME NEW i \in 1 .. Len(seen) PROVE seen[i] \in ToSet(kept) \cup ToSet(gone)
      BY <1>5
    <2>1. CASE i <= drop
      <3>1. i \in 1 .. drop /\ gone[i] = seen[i]
        BY <1>1, <1>4, <2>1
      <3> QED BY <1>5, <3>1
    <2>2. CASE i > drop
      <3>1. i - drop \in 1 .. (n - drop) /\ kept[i - drop] = longer[drop + (i - drop)]
        BY <1>1, <1>3, <2>2
      <3>2. drop + (i - drop) = i
        BY <1>1
      <3>3. kept[i - drop] = seen[i]
        BY <1>1, <3>1, <3>2
      <3> QED BY <1>5, <3>1, <3>3
    <2> QED BY <1>1, <2>1, <2>2
  <1> QED BY <1>1, <1>2, <1>3, <1>6, <1>7, <1>8

-----------------------------------------------------------------------------
(* Received messages.                                                        *)

Busy == {"check", "mark", "store", "delete"}

PollerInv ==
    /\ inbox \subseteq Incoming
    /\ seen \in Seq(Messages)
    /\ history \in Seq(Incoming)
    /\ \E L : poller \in [Pollers -> [at : {"off", "wait", "fetch"} \cup Busy, left : L]]
    /\ \A t \in Pollers : poller[t].at \in Busy => Current(t) \in Incoming

\* The poller has found the message unseen and has not stored it yet.
HasListed(t, m) == poller[t].at \in {"mark", "store"} /\ Current(t) = m

\* Of a message that the list has not forgotten and no two pollers found unseen at once:
\* one poller at most is about to mark it or has marked it and is about to store it, and
\* what is in the history is in the list.
MessageInv(m) ==
    /\ \A i, j \in DOMAIN history : history[i] = m /\ history[j] = m => i = j
    /\ \A i \in DOMAIN history : history[i] = m => IsSeen(m)
    /\ \A t \in Pollers : At(t, "mark") /\ Current(t) = m => ~IsSeen(m)
    /\ \A t \in Pollers : At(t, "store") /\ Current(t) = m =>
         IsSeen(m) /\ \A i \in DOMAIN history : history[i] # m
    /\ \A t, o \in Pollers : HasListed(t, m) /\ HasListed(o, m) => t = o

OnceInv == \A m \in Incoming \ (forgotten \cup raced) : MessageInv(m)

LEMMA InitPoller == ChatInit => PollerInv /\ OnceInv
  <1> SUFFICES ASSUME ChatInit PROVE PollerInv /\ OnceInv
    OBVIOUS
  <1>1. \A t \in Pollers : poller[t].at \in {"wait", "off"} /\ poller[t] \in {Idle, Off}
    BY DEF ChatInit, MailInit, Idle, Off
  <1>2. poller \in [Pollers -> [at : {"off", "wait", "fetch"} \cup Busy, left : {<< >>}]]
    BY DEF ChatInit, MailInit, Idle, Off
  <1>3. PollerInv
    <2>1. inbox \subseteq Incoming /\ seen \in Seq(Messages) /\ history \in Seq(Incoming)
      BY DEF ChatInit, MailInit
    <2>2. \E L : poller \in [Pollers -> [at : {"off", "wait", "fetch"} \cup Busy, left : L]]
      BY <1>2
    <2>3. \A t \in Pollers : poller[t].at \in Busy => Current(t) \in Incoming
      BY <1>1 DEF Busy
    <2> QED BY <2>1, <2>2, <2>3 DEF PollerInv
  <1>4. OnceInv
    BY <1>1 DEF ChatInit, MailInit, OnceInv, MessageInv, At, HasListed
  <1> QED BY <1>3, <1>4

\* A poller goes on with the file it is at, or to the next.
LEMMA PollerTurns ==
    ASSUME PollerInv, NEW t \in Pollers, NEW place \in {"off", "wait", "fetch"} \cup Busy,
           Turns(t, place)
    PROVE  /\ \E L : poller' \in [Pollers -> [at : {"off", "wait", "fetch"} \cup Busy, left : L]]
           /\ poller'[t].at = place /\ poller'[t].left = poller[t].left
           /\ \A o \in Pollers \ {t} : poller'[o] = poller[o]
  <1>1. PICK L : poller \in [Pollers -> [at : {"off", "wait", "fetch"} \cup Busy, left : L]]
    BY DEF PollerInv
  <1>2. /\ poller' \in [Pollers -> [at : {"off", "wait", "fetch"} \cup Busy, left : L]]
        /\ poller'[t].at = place /\ poller'[t].left = poller[t].left
        /\ \A o \in Pollers \ {t} : poller'[o] = poller[o]
    BY <1>1 DEF Turns
  <1> QED BY <1>2

LEMMA PollerAdvances ==
    ASSUME PollerInv, NEW t \in Pollers, NEW r, poller' = [poller EXCEPT ![t] = r],
           NEW at \in {"wait", "fetch"}, NEW left, r = [at |-> at, left |-> left]
    PROVE  /\ \E L : poller' \in [Pollers -> [at : {"off", "wait", "fetch"} \cup Busy, left : L]]
           /\ poller'[t].at \in {"wait", "fetch"}
           /\ \A o \in Pollers \ {t} : poller'[o] = poller[o]
  <1>1. PICK L : poller \in [Pollers -> [at : {"off", "wait", "fetch"} \cup Busy, left : L]]
    BY DEF PollerInv
  <1>2. r \in [at : {"off", "wait", "fetch"} \cup Busy, left : L \cup {left}] /\ r.at = at
    OBVIOUS
  <1>3. \A o \in Pollers : poller[o] \in [at : {"off", "wait", "fetch"} \cup Busy, left : L \cup {left}]
    BY <1>1
  <1>4. poller' \in [Pollers -> [at : {"off", "wait", "fetch"} \cup Busy, left : L \cup {left}]]
    BY <1>1, <1>2, <1>3
  <1> QED BY <1>1, <1>2, <1>4

\* A step after which no poller is about to mark or to store that was not before, and
\* which leaves the list and the history alone.
Calm ==
    /\ UNCHANGED <<seen, history>>
    /\ forgotten \subseteq forgotten' /\ raced \subseteq raced'
    /\ \A t \in Pollers : poller'[t].at \in {"mark", "store"} => poller'[t] = poller[t]

LEMMA CalmKeeps == OnceInv /\ Calm => OnceInv'
  <1> SUFFICES ASSUME OnceInv, Calm, NEW m \in Incoming \ (forgotten' \cup raced') PROVE MessageInv(m)'
    BY DEF OnceInv
  <1>1. MessageInv(m)
    BY DEF OnceInv, Calm
  <1> QED BY <1>1 DEF MessageInv, Calm, HasListed, At, Current, IsSeen

\* A message of somebody else is marked.
LEMMA OthersMarked ==
    ASSUME PollerInv, NEW k \in Messages, MarkSeen(k), NEW m \in Incoming \ forgotten', m # k
    PROVE  IsSeen(m)' <=> IsSeen(m)
  BY Marked DEF PollerInv, IsSeen, Messages

LEMMA NextPoller == PollerInv /\ OnceInv /\ [MailNext \/ IdNext]_chatVars => PollerInv' /\ OnceInv'
  <1> SUFFICES ASSUME PollerInv, OnceInv, [MailNext \/ IdNext]_chatVars PROVE PollerInv' /\ OnceInv'
    OBVIOUS
  <1> USE DEF chat, mail
  <1>0. /\ inbox \subseteq Incoming /\ seen \in Seq(Messages) /\ history \in Seq(Incoming)
        /\ \E L : poller \in [Pollers -> [at : {"off", "wait", "fetch"} \cup Busy, left : L]]
        /\ \A t \in Pollers : poller[t].at \in Busy => Current(t) \in Incoming
    BY DEF PollerInv
  <1>1. ASSUME NEW m \in Incoming, PeerPuts(m) PROVE PollerInv' /\ OnceInv'
    <2>1. Calm
      BY <1>1 DEF PeerPuts, Calm
    <2>2. PollerInv'
      BY <1>0, <1>1 DEF PeerPuts, PollerInv, Current
    <2> QED BY <2>1, <2>2, CalmKeeps
  <1>2. ASSUME NEW k \in Outgoing, Send(k) PROVE PollerInv' /\ OnceInv'
    <2>1. /\ k \in Messages /\ MarkSeen(k) /\ UNCHANGED <<inbox, history, poller, raced>>
          /\ seen' \in Seq(Messages) /\ forgotten \subseteq forgotten'
      BY <1>0, <1>2, Marked DEF Send, Messages
    <2>2. PollerInv'
      BY <1>0, <2>1 DEF PollerInv, Current
    <2>3. ASSUME NEW m \in Incoming \ (forgotten' \cup raced') PROVE MessageInv(m)'
      <3>1. IsSeen(m)' <=> IsSeen(m)
        BY <2>1, ChatAssumption, OthersMarked
      <3>2. MessageInv(m)
        BY <2>1 DEF OnceInv
      <3> QED BY <2>1, <3>1, <3>2 DEF MessageInv, HasListed, At, Current
    <2> QED BY <2>2, <2>3 DEF OnceInv
  <1>3. ASSUME NEW t \in Pollers, NEW at \in {"wait", "fetch"}, NEW left,
               poller' = [poller EXCEPT ![t] = [at |-> at, left |-> left]],
               UNCHANGED <<seen, history, forgotten, raced>>, inbox' \subseteq inbox
        PROVE  PollerInv' /\ OnceInv'
    <2>1. /\ \E L : poller' \in [Pollers -> [at : {"off", "wait", "fetch"} \cup Busy, left : L]]
          /\ poller'[t].at \in {"wait", "fetch"}
          /\ \A o \in Pollers \ {t} : poller'[o] = poller[o]
      BY <1>3, PollerAdvances
    <2>2. PollerInv'
      BY <1>0, <1>3, <2>1 DEF PollerInv, Current, Busy
    <2>3. Calm
      BY <1>3, <2>1 DEF Calm
    <2> QED BY <2>2, <2>3, CalmKeeps
  <1>4. ASSUME NEW t \in Pollers, Advances(t),
               UNCHANGED <<seen, history, forgotten, raced>>, inbox' \subseteq inbox
        PROVE  PollerInv' /\ OnceInv'
    BY <1>3, <1>4 DEF Advances, Idle
  <1>5. ASSUME NEW t \in Pollers, ListInbox(t) PROVE PollerInv' /\ OnceInv'
    BY <1>3, <1>5 DEF ListInbox
  <1>6. ASSUME NEW t \in Pollers, FetchFails(t) PROVE PollerInv' /\ OnceInv'
    BY <1>4, <1>6 DEF FetchFails
  <1>7. ASSUME NEW t \in Pollers, Delete(t) PROVE PollerInv' /\ OnceInv'
    BY <1>4, <1>7 DEF Delete
  <1>8. ASSUME NEW t \in Pollers, Fetch(t) PROVE PollerInv' /\ OnceInv'
    <2>1. Turns(t, "check") /\ Current(t) \in Incoming /\ UNCHANGED chat
      BY <1>0, <1>8 DEF Fetch
    <2>2. /\ \E L : poller' \in [Pollers -> [at : {"off", "wait", "fetch"} \cup Busy, left : L]]
          /\ poller'[t].at = "check" /\ poller'[t].left = poller[t].left
          /\ \A o \in Pollers \ {t} : poller'[o] = poller[o]
      BY <2>1, PollerTurns DEF Busy
    <2>3. PollerInv'
      BY <1>0, <2>1, <2>2 DEF PollerInv, Current
    <2>4. Calm
      BY <2>1, <2>2 DEF Calm
    <2> QED BY <2>3, <2>4, CalmKeeps
  <1>9. ASSUME NEW t \in Pollers, CheckSeen(t) PROVE PollerInv' /\ OnceInv'
    <2>1. /\ poller[t].at = "check" /\ Current(t) \in Incoming
          /\ UNCHANGED <<inbox, seen, history, forgotten>> /\ raced \subseteq raced'
      BY <1>0, <1>9 DEF CheckSeen, At, Busy
    <2>2. PICK place \in {"mark", "delete"} :
             /\ Turns(t, place)
             /\ place = "mark" => ~IsSeen(Current(t))
             /\ place = "mark" /\ (\E o \in Pollers \ {t} : At(o, "mark") /\ Current(o) = Current(t))
                  => Current(t) \in raced'
      BY <1>9 DEF CheckSeen
    <2>3. /\ \E L : poller' \in [Pollers -> [at : {"off", "wait", "fetch"} \cup Busy, left : L]]
          /\ poller'[t].at = place /\ poller'[t].left = poller[t].left
          /\ \A o \in Pollers \ {t} : poller'[o] = poller[o]
      BY <2>2, PollerTurns DEF Busy
    <2>4. PollerInv'
      BY <1>0, <2>1, <2>3 DEF PollerInv, Current
    <2>5. CASE place = "delete"
      <3>1. Calm
        BY <2>1, <2>3, <2>5 DEF Calm
      <3> QED BY <2>4, <3>1, CalmKeeps
    <2>6. CASE place = "mark"
      <3> SUFFICES ASSUME NEW m \in Incoming \ (forgotten' \cup raced') PROVE MessageInv(m)'
        BY <2>4 DEF OnceInv
      <3>1. MessageInv(m)
        BY <2>1 DEF OnceInv
      <3>2. /\ \A o \in Pollers \ {t} : Current(o)' = Current(o)
            /\ Current(t)' = Current(t)
        BY <2>3 DEF Current
      <3>3. CASE Current(t) = m
        <4>1. \A o \in Pollers \ {t} : ~HasListed(o, m)
          BY <2>1, <2>2, <2>6, <3>1, <3>3 DEF MessageInv, HasListed, At
        <4> QED BY <2>1, <2>2, <2>3, <2>6, <3>1, <3>2, <3>3, <4>1 DEF MessageInv, HasListed, At, IsSeen
      <3>4. CASE Current(t) # m
        BY <2>1, <2>3, <3>1, <3>2, <3>4 DEF MessageInv, HasListed, At, IsSeen
      <3> QED BY <3>3, <3>4
    <2> QED BY <2>5, <2>6
  <1>10. ASSUME NEW t \in Pollers, Mark(t) PROVE PollerInv' /\ OnceInv'
    <2>1. /\ poller[t].at = "mark" /\ Current(t) \in Incoming /\ Turns(t, "store")
          /\ MarkSeen(Current(t)) /\ UNCHANGED <<inbox, history, raced>>
      BY <1>0, <1>10 DEF Mark, At, Busy
    <2>2. /\ seen' \in Seq(Messages) /\ forgotten \subseteq forgotten' /\ Current(t) \in ToSet(seen')
          /\ Current(t) \in Messages
      <3>1. Current(t) \in Messages
        BY <2>1 DEF Messages
      <3>2. Current(t) \in ToSet(seen')
        BY <1>0, <2>1, <3>1, Marked
      <3> QED BY <1>0, <2>1, <3>1, <3>2, Marked
    <2>3. /\ \E L : poller' \in [Pollers -> [at : {"off", "wait", "fetch"} \cup Busy, left : L]]
          /\ poller'[t].at = "store" /\ poller'[t].left = poller[t].left
          /\ \A o \in Pollers \ {t} : poller'[o] = poller[o]
      BY <2>1, PollerTurns DEF Busy
    <2>4. PollerInv'
      BY <1>0, <2>1, <2>2, <2>3 DEF PollerInv, Current
    <2>5. ASSUME NEW m \in Incoming \ (forgotten' \cup raced') PROVE MessageInv(m)'
      <3>1. MessageInv(m)
        BY <2>1, <2>2 DEF OnceInv
      <3>2. /\ \A o \in Pollers \ {t} : Current(o)' = Current(o)
            /\ Current(t)' = Current(t)
        BY <2>3 DEF Current
      <3>3. CASE Current(t) = m
        <4>1. ~IsSeen(m) /\ \A o \in Pollers \ {t} : ~HasListed(o, m)
          BY <2>1, <3>1, <3>3 DEF MessageInv, HasListed, At
        <4>2. \A i \in DOMAIN history : history[i] # m
          BY <3>1, <4>1 DEF MessageInv
        <4> QED BY <2>1, <2>2, <2>3, <3>1, <3>2, <3>3, <4>1, <4>2 DEF MessageInv, HasListed, At, IsSeen
      <3>4. CASE Current(t) # m
        <4>1. IsSeen(m)' <=> IsSeen(m)
          BY <2>1, <2>2, <3>4, OthersMarked
        <4> QED BY <2>1, <2>3, <3>1, <3>2, <3>4, <4>1 DEF MessageInv, HasListed, At
      <3> QED BY <3>3, <3>4
    <2> QED BY <2>4, <2>5 DEF OnceInv
  <1>11. ASSUME NEW t \in Pollers, poller[t].at = "store", history' = Append(history, Current(t)),
                UNCHANGED <<seen, forgotten, raced>>, poller'[t].at \notin {"mark", "store"},
                \A o \in Pollers \ {t} : poller'[o] = poller[o]
         PROVE  history' \in Seq(Incoming) /\ OnceInv'
    <2>1. Current(t) \in Incoming
      BY <1>0, <1>11 DEF Busy
    <2>2. /\ history' \in Seq(Incoming) /\ Len(history) \in Nat
          /\ DOMAIN history = 1 .. Len(history) /\ DOMAIN history' = 1 .. Len(history) + 1
          /\ \A i \in DOMAIN history : history'[i] = history[i]
          /\ history'[Len(history) + 1] = Current(t)
      BY <1>0, <1>11, <2>1
    <2>3. ASSUME NEW m \in Incoming \ (forgotten' \cup raced') PROVE MessageInv(m)'
      <3>1. MessageInv(m)
        BY <1>11 DEF OnceInv
      <3>2. \A o \in Pollers \ {t} : Current(o)' = Current(o)
        BY <1>11 DEF Current
      <3>3. \A i \in DOMAIN history' : i \in DOMAIN history \/ i = Len(history) + 1
        BY <2>2
      <3>4. CASE Current(t) = m
        <4>1. /\ IsSeen(m) /\ \A i \in DOMAIN history : history[i] # m
              /\ \A o \in Pollers \ {t} : ~HasListed(o, m)
          BY <1>11, <3>1, <3>4 DEF MessageInv, HasListed, At
        <4>2. \A i \in DOMAIN history' : history'[i] = m => i = Len(history) + 1
          BY <2>2, <3>3, <4>1
        <4>3. \A o \in Pollers : ~HasListed(o, m)'
          BY <1>11, <3>2, <4>1 DEF HasListed
        <4> QED BY <1>11, <4>1, <4>2, <4>3 DEF MessageInv, HasListed, At, IsSeen
      <3>5. CASE Current(t) # m
        <4>1. \A i \in DOMAIN history' : history'[i] = m => i \in DOMAIN history /\ history[i] = m
          BY <2>2, <3>3, <3>5
        <4>2. \A o \in Pollers : HasListed(o, m)' => o # t /\ HasListed(o, m) /\ poller'[o] = poller[o]
          BY <1>11, <3>2 DEF HasListed
        <4> QED BY <1>11, <3>1, <3>2, <4>1, <4>2 DEF MessageInv, HasListed, At, IsSeen
      <3> QED BY <3>4, <3>5
    <2> QED BY <2>2, <2>3 DEF OnceInv
  <1>12. ASSUME NEW t \in Pollers, StoreMessage(t) PROVE PollerInv' /\ OnceInv'
    <2>1. /\ poller[t].at = "store" /\ Turns(t, "delete")
          /\ history' = Append(history, Current(t)) /\ UNCHANGED <<inbox, seen, forgotten, raced>>
      BY <1>12 DEF StoreMessage, At
    <2>2. /\ \E L : poller' \in [Pollers -> [at : {"off", "wait", "fetch"} \cup Busy, left : L]]
          /\ poller'[t].at = "delete" /\ poller'[t].left = poller[t].left
          /\ \A o \in Pollers \ {t} : poller'[o] = poller[o]
      BY <2>1, PollerTurns DEF Busy
    <2>3. history' \in Seq(Incoming) /\ OnceInv'
      BY <1>11, <2>1, <2>2
    <2>4. Current(t) \in Incoming
      BY <1>0, <2>1 DEF Busy
    <2>5. PollerInv'
      BY <1>0, <2>1, <2>2, <2>3, <2>4 DEF PollerInv, Current
    <2> QED BY <2>3, <2>5
  <1>13. ASSUME NEW t \in Pollers, StoreFails(t) PROVE PollerInv' /\ OnceInv'
    <2>1. /\ poller[t].at = "store" /\ UNCHANGED <<inbox, seen, forgotten, raced>>
          /\ poller' = [poller EXCEPT ![t] = [at |-> "wait", left |-> << >>]]
          /\ history' = Append(history, Current(t)) \/ UNCHANGED history
      BY <1>13 DEF StoreFails, At, Idle
    <2>2. CASE UNCHANGED history
      BY <1>3, <2>1, <2>2
    <2>3. CASE history' = Append(history, Current(t))
      <3>1. /\ \E L : poller' \in [Pollers -> [at : {"off", "wait", "fetch"} \cup Busy, left : L]]
            /\ poller'[t].at \in {"wait", "fetch"}
            /\ \A o \in Pollers \ {t} : poller'[o] = poller[o]
        BY <2>1, PollerAdvances
      <3>2. history' \in Seq(Incoming) /\ OnceInv'
        BY <1>11, <2>1, <2>3, <3>1
      <3>3. PollerInv'
        BY <1>0, <2>1, <3>1, <3>2 DEF PollerInv, Current, Busy
      <3> QED BY <3>2, <3>3
    <2> QED BY <2>1, <2>2, <2>3
  <1>14. ASSUME NEW f \in SUBSET Pollers,
                \A t \in f : poller'[t] \in {Idle, Off},
                poller' = [t \in Pollers |-> IF t \in f THEN poller'[t] ELSE poller[t]],
                UNCHANGED <<inbox, seen, history, forgotten, raced>>
         PROVE  PollerInv' /\ OnceInv'
    <2>1. PICK L : poller \in [Pollers -> [at : {"off", "wait", "fetch"} \cup Busy, left : L]]
      BY <1>0
    <2>2. \A t \in Pollers : poller'[t] \in [at : {"off", "wait", "fetch"} \cup Busy, left : L \cup {<< >>}]
      <3>1. Idle \in [at : {"off", "wait", "fetch"} \cup Busy, left : L \cup {<< >>}]
            /\ Off \in [at : {"off", "wait", "fetch"} \cup Busy, left : L \cup {<< >>}]
        BY DEF Idle, Off
      <3>2. \A t \in Pollers : poller[t] \in [at : {"off", "wait", "fetch"} \cup Busy, left : L \cup {<< >>}]
        BY <2>1
      <3> QED BY <1>14, <3>1, <3>2
    <2>3. poller' \in [Pollers -> [at : {"off", "wait", "fetch"} \cup Busy, left : L \cup {<< >>}]]
      BY <1>14, <2>2
    <2>4. \A t \in Pollers : poller'[t] = poller[t] \/ poller'[t].at \in {"wait", "off"}
      BY <1>14 DEF Idle, Off
    <2>5. PollerInv'
      BY <1>0, <1>14, <2>3, <2>4 DEF PollerInv, Current, Busy
    <2>6. Calm
      BY <1>14, <2>4 DEF Calm
    <2> QED BY <2>5, <2>6, CalmKeeps
  <1>15. CASE RestartThread
    <2>1. UNCHANGED chat
      BY <1>15 DEF RestartThread
    <2>2. PICK new \in Pollers, stopped \in SUBSET Pollers :
            poller' = [t \in Pollers |-> IF t = new THEN Idle ELSE IF t \in stopped THEN Off ELSE poller[t]]
      BY <1>15 DEF RestartThread
    <2>3. \A t \in stopped \cup {new} : poller'[t] \in {Idle, Off}
      BY <2>2
    <2>4. poller' = [t \in Pollers |-> IF t \in stopped \cup {new} THEN poller'[t] ELSE poller[t]]
      BY <2>2
    <2> QED BY <1>14, <2>1, <2>3, <2>4
  <1>16. CASE UNCHANGED mail
    BY <1>16, CalmKeeps DEF PollerInv, Calm, Current
  <1>17. CASE ChatCrash
    <2>1. poller' = [t \in Pollers |-> IF t = First THEN Idle ELSE Off]
          /\ UNCHANGED <<inbox, seen, history, forgotten, raced>>
      BY <1>17 DEF ChatCrash
    <2>2. \A t \in Pollers : poller'[t] \in {Idle, Off}
      BY <2>1
    <2>3. poller' = [t \in Pollers |-> IF t \in Pollers THEN poller'[t] ELSE poller[t]]
      BY <2>1
    <2> QED BY <1>14, <2>1, <2>2, <2>3
  <1>18. IdNext \/ UNCHANGED chatVars => UNCHANGED mail
    BY DEF IdNext, ReadMembers, WriteMembers, SetConfig, KeepHandle, SetupFails, EnterOther, GiveUp, Garble, chatVars
  <1>19. MailNext => PollerInv' /\ OnceInv'
    BY <1>1, <1>2, <1>5, <1>6, <1>7, <1>8, <1>9, <1>10, <1>12, <1>13, <1>15, <1>17 DEF MailNext, Poll
  <1> QED BY <1>16, <1>18, <1>19

\* A message is in the history once, unless the list has forgotten it or two pollers
\* found it unseen at the same time.
THEOREM NoDuplicates == ChatSpec => []StoredOnce
  <1>1. PollerInv /\ OnceInv => StoredOnce
    <2> SUFFICES ASSUME OnceInv, NEW m \in Incoming \ (forgotten \cup raced)
                 PROVE  ~(Occurrences(m) > 1)
      BY DEF StoredOnce
    <2>1. \A i, j \in {i \in DOMAIN history : history[i] = m} : i = j
      BY DEF OnceInv, MessageInv
    <2>2. Occurrences(m) \in {0, 1}
      BY <2>1, AtMostOne DEF Occurrences
    <2> QED BY <2>2
  <1> QED BY <1>1, InitPoller, NextPoller, PTL DEF ChatSpec

(***************************************************************************)
(* TaskSessions: the processes behind one task, for any number of          *)
(* requests, processes, operations and crashes of the server.              *)
(***************************************************************************)

-----------------------------------------------------------------------------
(* Types.                                                                    *)

LEMMA InitSession == Init => SessionTypeOK
  <1> SUFFICES ASSUME Init PROVE SessionTypeOK
    OBVIOUS
  <1>1. Unused \in ProcRecords /\ Resting \in ClientRecords
    BY DEF Unused, Resting, ProcRecords, ClientRecords, Places, Modes
  <1> QED BY <1>1, SessionAssumption DEF Init, SessionTypeOK, Procs, None, Modes, Statuses

\* What the parts of the actions return.
LEMMA ClientTypes ==
    ASSUME SessionTypeOK, NEW c \in Clients, NEW at \in Places, NEW p \in Procs \cup {None},
           Goes(c, at) \/ Holds(c, at, p) \/ Ends(c)
    PROVE  client' \in [Clients -> ClientRecords]
  <1>1. PICK r : client' = [client EXCEPT ![c] = r] /\ r \in ClientRecords
    <2>1. CASE Goes(c, at)
      <3>1. [client[c] EXCEPT !.at = at] \in ClientRecords
        BY DEF SessionTypeOK, ClientRecords
      <3> QED BY <2>1, <3>1 DEF Goes
    <2>2. CASE Holds(c, at, p)
      <3>1. [Resting EXCEPT !.at = at, !.p = p] \in ClientRecords
        BY DEF ClientRecords, Resting
      <3> QED BY <2>2, <3>1 DEF Holds
    <2>3. CASE Ends(c)
      <3>1. Resting \in ClientRecords
        BY DEF Resting, ClientRecords, Places
      <3> QED BY <2>3, <3>1 DEF Ends
    <2> QED BY <2>1, <2>2, <2>3
  <1> QED BY <1>1 DEF SessionTypeOK

LEMMA MutateTypes ==
    ASSUME SessionTypeOK, NEW c \in Clients, NEW at \in Places, NEW s \in Statuses, Mutates(c, s, at)
    PROVE  /\ row' \in [live : BOOLEAN, mode : Modes, status : Statuses]
           /\ client' \in [Clients -> ClientRecords]
  BY ClientTypes DEF Mutates, SetStatus, SessionTypeOK

LEMMA ProcUpdates ==
    ASSUME NEW r \in ProcRecords
    PROVE  /\ \A x \in {"none", "alive", "told", "gone"} : [r EXCEPT !.life = x] \in ProcRecords
           /\ \A x \in Modes : [r EXCEPT !.mode = x] \in ProcRecords
           /\ \A x \in {"read", "session", "ask", "answer", "reply", "look", "mark", "done"} :
                 [r EXCEPT !.pump = x] \in ProcRecords
           /\ \A x \in {"none", "waits", "ran", "denied"} : [r EXCEPT !.request = x] \in ProcRecords
           /\ \A x \in {"none", "auto", "cancelled"} \cup Statuses : [r EXCEPT !.note = x] \in ProcRecords
           /\ \A x \in Procs \cup {None} : [r EXCEPT !.to = x] \in ProcRecords
  BY DEF ProcRecords

LEMMA ProcUpdatePairs ==
    ASSUME NEW r \in ProcRecords
    PROVE  /\ \A l \in {"none", "alive", "told", "gone"}, m \in Modes :
                [r EXCEPT !.life = l, !.mode = m] \in ProcRecords
           /\ \A x \in {"session", "look", "mark", "read"},
                n \in {"none", "auto", "cancelled"} \cup Statuses :
                /\ [r EXCEPT !.pump = x, !.note = n] \in ProcRecords
                /\ [r EXCEPT !.pump = x, !.request = "waits", !.note = n] \in ProcRecords
                /\ [r EXCEPT !.pump = x, !.to = None, !.note = n] \in ProcRecords
           /\ \A t \in Procs \cup {None} : [r EXCEPT !.pump = "reply", !.to = t] \in ProcRecords
           /\ \A x \in {"read", "done"}, l \in {"none", "alive", "told", "gone"} :
                [r EXCEPT !.pump = x, !.life = l] \in ProcRecords
  <1>1. ASSUME NEW l \in {"none", "alive", "told", "gone"}, NEW m \in Modes
        PROVE  [r EXCEPT !.life = l, !.mode = m] \in ProcRecords
    BY DEF ProcRecords
  <1>2. ASSUME NEW x \in {"session", "look", "mark", "read"},
               NEW n \in {"none", "auto", "cancelled"} \cup Statuses
        PROVE  /\ [r EXCEPT !.pump = x, !.note = n] \in ProcRecords
               /\ [r EXCEPT !.pump = x, !.request = "waits", !.note = n] \in ProcRecords
               /\ [r EXCEPT !.pump = x, !.to = None, !.note = n] \in ProcRecords
    <2>1. [r EXCEPT !.pump = x] \in ProcRecords
      BY ProcUpdates
    <2>2. /\ [[r EXCEPT !.pump = x] EXCEPT !.request = "waits"] \in ProcRecords
          /\ [[r EXCEPT !.pump = x] EXCEPT !.to = None] \in ProcRecords
      BY <2>1, ProcUpdates
    <2> QED BY <2>1, <2>2, ProcUpdates
  <1>3. ASSUME NEW t \in Procs \cup {None} PROVE [r EXCEPT !.pump = "reply", !.to = t] \in ProcRecords
    BY DEF ProcRecords
  <1>4. ASSUME NEW x \in {"read", "done"}, NEW l \in {"none", "alive", "told", "gone"}
        PROVE  [r EXCEPT !.pump = x, !.life = l] \in ProcRecords
    BY DEF ProcRecords
  <1> QED BY <1>1, <1>2, <1>3, <1>4

LEMMA ProcTypes ==
    ASSUME SessionTypeOK, NEW p \in Procs \cup {None}
    PROVE  /\ Terminated(proc, p) \in [Procs -> ProcRecords]
           /\ \A to \in Procs \cup {None} : \A answer : Answered(proc, p, to, answer) \in [Procs -> ProcRecords]
           /\ p \in Procs => Ended(p) \in ProcRecords
  <1> USE DEF SessionTypeOK
  <1>1. ASSUME p \in Procs
        PROVE  /\ [proc[p] EXCEPT !.life = "told"] \in ProcRecords
               /\ [proc[p] EXCEPT !.request = "ran"] \in ProcRecords
               /\ [proc[p] EXCEPT !.request = "denied"] \in ProcRecords
               /\ Ended(p) \in ProcRecords
    <2>1. proc[p] \in ProcRecords
      BY <1>1
    <2>2. Unused \in ProcRecords /\ proc[p].request \in {"none", "waits", "ran", "denied"}
      BY <2>1 DEF ProcRecords, Unused, Modes
    <2> QED BY <2>1, <2>2, ProcUpdates DEF Ended, Unused
  <1>2. Terminated(proc, p) \in [Procs -> ProcRecords]
    BY <1>1 DEF Terminated
  <1>3. ASSUME NEW to \in Procs \cup {None}, NEW answer
        PROVE  Answered(proc, p, to, answer) \in [Procs -> ProcRecords]
    BY <1>1, <1>3 DEF Answered, None, Procs
  <1> QED BY <1>1, <1>2, <1>3

\* What has become of the request of each process, wherever its answer is: in the hands
\* of the pump, on the page, in the hands of a thread, or written.
ProcVerdict(p) ==
    /\ proc[p].life = "none" => proc[p] = Unused
    /\ proc[p].request = "none" =>
         verdicts[p] = << >> /\ p \notin pending /\ proc[p].pump \in {"read", "look", "mark", "done"}
    /\ proc[p].pump \in {"session", "ask"} =>
         verdicts[p] = << >> /\ proc[p].request = "waits" /\ p \notin pending
    /\ proc[p].pump \in {"answer", "reply"} => verdicts[p] = <<"auto">> /\ proc[p].request = "waits"
    /\ p \in pending => verdicts[p] = << >> /\ proc[p].request = "waits"
    /\ proc[p].request = "ran" => verdicts[p] \in {<<"auto">>, <<"allow">>}

ThreadVerdict(c) ==
    client[c].at \in {"res_look", "res_write"} =>
        /\ client[c].p \in Procs /\ proc[client[c].p].request # "none"
        /\ verdicts[client[c].p] = <<client[c].answer>>

VerdictInv == (\A p \in Procs : ProcVerdict(p)) /\ (\A c \in Clients : ThreadVerdict(c))

LEMMA NextSession ==
    ASSUME SessionTypeOK, VerdictInv, [Next]_vars
    PROVE  SessionTypeOK'
  <1> USE DEF SessionTypeOK, tables, counts
  <1>0. /\ Places = {"rest", "send_running", "send_write", "int_stopping", "int_end", "mode_pop",
                    "mode_idle", "mode_end", "res_look", "res_write", "del_end", "del_remove"}
        /\ Statuses = {"running", "idle", "stopping"} /\ Modes = {"default", "bypassPermissions"}
        /\ \A c \in Clients : client[c].p \in Procs \cup {None} /\ client[c].to \in Procs \cup {None}
        /\ \A p \in Procs : proc[p] \in ProcRecords /\ proc[p].to \in Procs \cup {None}
        /\ row.mode \in Modes /\ row.status \in Statuses /\ row.live \in BOOLEAN
        /\ handle \in Procs \cup {None} /\ None \in Procs \cup {None}
    BY DEF Places, Statuses, Modes, ClientRecords, ProcRecords
  <1>a. ASSUME NEW p \in Procs, Fresh(p) PROVE proc' \in [Procs -> ProcRecords]
    <2>1. [proc[p] EXCEPT !.life = "alive", !.mode = row.mode] \in ProcRecords
      BY <1>0, ProcUpdatePairs
    <2> QED BY <1>a, <2>1 DEF Fresh
  <1>1. CASE CreateSpawn
    BY <1>1, <1>a, SessionAssumption DEF CreateSpawn, Procs
  <1>2. CASE CreateRegister
    BY <1>2, SessionAssumption DEF CreateRegister, Procs
  <1>3. ASSUME NEW c \in Clients, SendMessage(c) PROVE SessionTypeOK'
    <2>1. client' \in [Clients -> ClientRecords]
      BY <1>3, <1>0, ClientTypes DEF SendMessage
    <2> QED BY <1>3, <1>a, <2>1 DEF SendMessage, Requested
  <1>4. ASSUME NEW c \in Clients, SendRunning(c) PROVE SessionTypeOK'
    BY <1>4, <1>0, MutateTypes DEF SendRunning
  <1>5. ASSUME NEW c \in Clients, SendWrite(c) PROVE SessionTypeOK'
    <2>1. client' \in [Clients -> ClientRecords]
      BY <1>5, <1>0, ClientTypes DEF SendWrite
    <2> QED BY <1>5, <1>0, <2>1 DEF SendWrite, SetStatus
  <1>6. ASSUME NEW c \in Clients, Interrupt(c) PROVE SessionTypeOK'
    <2>1. client' \in [Clients -> ClientRecords]
      BY <1>6, <1>0, ClientTypes DEF Interrupt
    <2> QED BY <1>6, <1>0, <2>1 DEF Interrupt, Requested
  <1>7. ASSUME NEW c \in Clients, InterruptStopping(c) PROVE SessionTypeOK'
    BY <1>7, <1>0, MutateTypes DEF InterruptStopping
  <1>8. ASSUME NEW c \in Clients, InterruptEnd(c) PROVE SessionTypeOK'
    <2>1. client' \in [Clients -> ClientRecords]
      BY <1>8, <1>0, ClientTypes DEF InterruptEnd
    <2>2. proc' \in [Procs -> ProcRecords]
      BY <1>8, <1>0, ProcTypes DEF InterruptEnd
    <2> QED BY <1>8, <1>0, <2>1, <2>2 DEF InterruptEnd, SetStatus
  <1>9. ASSUME NEW c \in Clients, SetPermissionMode(c) PROVE SessionTypeOK'
    <2>1. client' \in [Clients -> ClientRecords]
      BY <1>9, <1>0, ClientTypes DEF SetPermissionMode
    <2> QED BY <1>9, <1>0, <2>1 DEF SetPermissionMode, Requested
  <1>10. ASSUME NEW c \in Clients, RestartPop(c) PROVE SessionTypeOK'
    <2>1. client' \in [Clients -> ClientRecords]
      BY <1>10, <1>0, ClientTypes DEF RestartPop
    <2> QED BY <1>10, <1>0, <2>1 DEF RestartPop
  <1>11. ASSUME NEW c \in Clients, RestartIdle(c) PROVE SessionTypeOK'
    BY <1>11, <1>0, MutateTypes DEF RestartIdle
  <1>12. ASSUME NEW c \in Clients, RestartEnd(c) PROVE SessionTypeOK'
    <2>1. client' \in [Clients -> ClientRecords]
      BY <1>12, <1>0, ClientTypes DEF RestartEnd
    <2>2. proc' \in [Procs -> ProcRecords]
      BY <1>12, <1>0, ProcTypes DEF RestartEnd
    <2> QED BY <1>12, <1>0, <2>1, <2>2 DEF RestartEnd
  <1>13. ASSUME NEW c \in Clients, ResolvePermission(c) PROVE SessionTypeOK'
    <2>1. PICK p \in pending, answer \in {"allow", "deny"} :
             /\ client' = [client EXCEPT ![c] = [Resting EXCEPT !.at = "res_look", !.p = p, !.answer = answer]]
             /\ verdicts' = [verdicts EXCEPT ![p] = Append(@, answer)]
             /\ pending' = pending \ {p} /\ allowance' \in {allowance, answer = "allow" \/ allowance}
      BY <1>13 DEF ResolvePermission
    <2>2. verdicts[p] = << >>
      BY DEF VerdictInv, ProcVerdict
    <2>3. verdicts' \in [Procs -> {<< >>, <<"auto">>, <<"allow">>, <<"deny">>}]
      BY <2>1, <2>2
    <2>4. [Resting EXCEPT !.at = "res_look", !.p = p, !.answer = answer] \in ClientRecords
      BY <1>0 DEF Resting, ClientRecords
    <2>5. allowance' \in BOOLEAN
      BY <2>1
    <2> QED BY <1>13, <2>1, <2>3, <2>4, <2>5 DEF ResolvePermission
  <1>14. ASSUME NEW c \in Clients, ResolveLook(c) PROVE SessionTypeOK'
    <2>1. [client[c] EXCEPT !.at = "res_write", !.to = handle] \in ClientRecords
      <3>1. [client[c] EXCEPT !.at = "res_write"] \in ClientRecords
        BY <1>0 DEF ClientRecords
      <3> QED BY <1>0, <3>1 DEF ClientRecords
    <2>2. client' = [client EXCEPT ![c] = [client[c] EXCEPT !.at = "res_write", !.to = handle]]
      BY <1>14 DEF ResolveLook
    <2> QED BY <1>14, <2>1, <2>2 DEF ResolveLook
  <1>15. ASSUME NEW c \in Clients, ResolveWrite(c) PROVE SessionTypeOK'
    <2>1. proc' \in [Procs -> ProcRecords]
      BY <1>15, <1>0, ProcTypes DEF ResolveWrite
    <2>2. client' \in [Clients -> ClientRecords]
      BY <1>15, <1>0, ClientTypes DEF ResolveWrite
    <2> QED BY <1>15, <2>1, <2>2 DEF ResolveWrite
  <1>16. ASSUME NEW c \in Clients, DeleteTask(c) PROVE SessionTypeOK'
    <2>1. client' \in [Clients -> ClientRecords]
      BY <1>16, <1>0, ClientTypes DEF DeleteTask
    <2> QED BY <1>16, <1>0, <2>1 DEF DeleteTask, Requested
  <1>17. ASSUME NEW c \in Clients, DeleteEnd(c) PROVE SessionTypeOK'
    <2>1. client' \in [Clients -> ClientRecords]
      BY <1>17, <1>0, ClientTypes DEF DeleteEnd
    <2>2. proc' \in [Procs -> ProcRecords]
      BY <1>17, <1>0, ProcTypes DEF DeleteEnd
    <2> QED BY <1>17, <1>0, <2>1, <2>2 DEF DeleteEnd
  <1>18. ASSUME NEW c \in Clients, DeleteRemove(c) PROVE SessionTypeOK'
    <2>1. client' \in [Clients -> ClientRecords]
      BY <1>18, <1>0, ClientTypes DEF DeleteRemove
    <2> QED BY <1>18, <1>0, <2>1 DEF DeleteRemove, NoRow
  <1>19. ASSUME NEW p \in Procs, AskTool(p) PROVE SessionTypeOK'
    <2>1. [proc[p] EXCEPT !.pump = "session", !.request = "waits",
                      !.note = IF row.live /\ row.mode = "bypassPermissions" THEN "auto" ELSE "none"] \in ProcRecords
      BY <1>0, ProcUpdatePairs
    <2> QED BY <1>19, <2>1 DEF AskTool
  <1>20. ASSUME NEW p \in Procs, CheckAllowance(p) PROVE SessionTypeOK'
    <2>1. verdicts[p] = << >>
      BY <1>20 DEF CheckAllowance, Pump, VerdictInv, ProcVerdict
    <2>2. verdicts' \in [Procs -> {<< >>, <<"auto">>, <<"allow">>, <<"deny">>}]
      BY <1>20, <2>1 DEF CheckAllowance
    <2>3. PICK to \in {"answer", "ask"} : proc' = [proc EXCEPT ![p] = [proc[p] EXCEPT !.pump = to]]
      BY <1>20 DEF CheckAllowance, Pump
    <2>4. [proc[p] EXCEPT !.pump = to] \in ProcRecords
      BY DEF ProcRecords
    <2> QED BY <1>20, <2>2, <2>3, <2>4 DEF CheckAllowance
  <1>21. ASSUME NEW p \in Procs, AskUser(p) PROVE SessionTypeOK'
    <2>1. [proc[p] EXCEPT !.pump = "read"] \in ProcRecords
      BY DEF ProcRecords
    <2> QED BY <1>21, <2>1 DEF AskUser, Pump
  <1>22. ASSUME NEW p \in Procs, AnswerLook(p) PROVE SessionTypeOK'
    <2>1. [proc[p] EXCEPT !.pump = "reply", !.to = handle] \in ProcRecords
      BY <1>0, ProcUpdatePairs
    <2> QED BY <1>22, <2>1 DEF AnswerLook
  <1>23. ASSUME NEW p \in Procs, AnswerWrite(p) PROVE SessionTypeOK'
    <2>1. PICK f \in [Procs -> ProcRecords] :
             proc' = [f EXCEPT ![p] = [f[p] EXCEPT !.pump = "read", !.to = None, !.note = "none"]]
      BY <1>23, <1>0, ProcTypes DEF AnswerWrite
    <2>2. [f[p] EXCEPT !.pump = "read", !.to = None, !.note = "none"] \in ProcRecords
      BY <1>0, ProcUpdatePairs
    <2>3. proc' \in [Procs -> ProcRecords]
      BY <2>1, <2>2
    <2> QED BY <1>23, <2>3 DEF AnswerWrite
  <1>24. ASSUME NEW p \in Procs, Result(p) PROVE SessionTypeOK'
    BY <1>24, <1>0 DEF Result, SetStatus
  <1>25. ASSUME NEW p \in Procs, Exit(p) PROVE SessionTypeOK'
    <2>1. [proc[p] EXCEPT !.life = "gone"] \in ProcRecords
      BY DEF ProcRecords
    <2> QED BY <1>25, <2>1 DEF Exit
  <1>26. ASSUME NEW p \in Procs, OnCliExit(p) PROVE SessionTypeOK'
    <2>1. proc' \in [Procs -> ProcRecords]
      <3>1. /\ Ended(p) \in ProcRecords
            /\ \A m \in {"cancelled", "none"} : [proc[p] EXCEPT !.pump = "look", !.note = m] \in ProcRecords
        BY <1>0, ProcTypes, ProcUpdatePairs
      <3> QED BY <1>26, <3>1 DEF OnCliExit, Leaves
    <2> QED BY <1>26, <2>1 DEF OnCliExit
  <1>27. ASSUME NEW p \in Procs, ExitLook(p) PROVE SessionTypeOK'
    <2>1. proc' \in [Procs -> ProcRecords]
      <3>1. /\ Ended(p) \in ProcRecords
            /\ \A m \in {"cancelled", row.status} :
                 [proc[p] EXCEPT !.pump = "mark", !.note = m] \in ProcRecords
        BY <1>0, ProcTypes, ProcUpdatePairs
      <3> QED BY <1>27, <3>1, ZenonT(60) DEF ExitLook, Leaves
    <2> QED BY <1>27, <2>1 DEF ExitLook
  <1>28. ASSUME NEW p \in Procs, ExitMark(p) PROVE SessionTypeOK'
    <2>1. Ended(p) \in ProcRecords
      BY ProcTypes
    <2>2. row' \in [live : BOOLEAN, mode : Modes, status : Statuses]
      BY <1>28, <1>0 DEF ExitMark, SetStatus
    <2> QED BY <1>28, <2>1, <2>2 DEF ExitMark, Leaves
  <1>29. CASE Crash
    <2>1. Resting \in ClientRecords
      BY <1>0 DEF Resting, ClientRecords
    <2>2. \A p \in Procs : \A l \in {proc[p].life, "told"} :
            [proc[p] EXCEPT !.pump = "done", !.life = l] \in ProcRecords
      <3> TAKE p \in Procs
      <3>1. proc[p].life \in {"none", "alive", "told", "gone"}
        BY <1>0 DEF ProcRecords
      <3> QED BY <1>0, <3>1, ProcUpdatePairs
    <2>3. row' \in [live : BOOLEAN, mode : Modes, status : Statuses]
      BY <1>29, <1>0 DEF Crash
    <2> QED BY <1>29, <2>1, <2>2, <2>3 DEF Crash, None
  <1>30. CASE UNCHANGED vars
    BY <1>30 DEF vars
  <1> HIDE DEF SessionTypeOK
  <1> QED BY <1>1, <1>2, <1>3, <1>4, <1>5, <1>6, <1>7, <1>8, <1>9, <1>10, <1>11, <1>12, <1>13, <1>14, <1>15,
           <1>16, <1>17, <1>18, <1>19, <1>20, <1>21, <1>22, <1>23, <1>24, <1>25, <1>26, <1>27,
           <1>28, <1>29, <1>30 DEF Next, Request, Process

LEMMA InitVerdict == Init => VerdictInv
  BY DEF Init, VerdictInv, ProcVerdict, ThreadVerdict, Unused, Resting

\* What a step keeps that neither asks, decides nor answers.
KeepsVerdicts ==
    /\ verdicts' = verdicts /\ pending' \subseteq pending
    /\ \A p \in Procs : /\ proc'[p].request = proc[p].request
                        /\ proc'[p].pump \in {proc[p].pump, "read", "look", "mark", "done"}
                        /\ proc'[p].life = "none" => proc'[p] = proc[p]
    /\ \A c \in Clients : client'[c].at \in {"res_look", "res_write"} =>
         /\ client[c].at \in {"res_look", "res_write"}
         /\ client'[c].p = client[c].p /\ client'[c].answer = client[c].answer

LEMMA VerdictsKept == VerdictInv /\ KeepsVerdicts => VerdictInv'
  <1> SUFFICES ASSUME VerdictInv, KeepsVerdicts PROVE VerdictInv'
    OBVIOUS
  <1>1. ASSUME NEW p \in Procs PROVE ProcVerdict(p)'
    <2>1. /\ verdicts'[p] = verdicts[p] /\ (p \in pending' => p \in pending)
          /\ proc'[p].request = proc[p].request
          /\ proc'[p].pump \in {proc[p].pump, "read", "look", "mark", "done"}
          /\ proc'[p].life = "none" => proc'[p] = proc[p]
      BY DEF KeepsVerdicts
    <2>2. ProcVerdict(p)
      BY DEF VerdictInv
    <2> QED BY <2>1, <2>2 DEF ProcVerdict, Unused
  <1>2. ASSUME NEW c \in Clients PROVE ThreadVerdict(c)'
    <2>1. client'[c].at \in {"res_look", "res_write"} =>
            /\ client[c].at \in {"res_look", "res_write"}
            /\ client'[c].p = client[c].p /\ client'[c].answer = client[c].answer
      BY DEF KeepsVerdicts
    <2>2. verdicts' = verdicts /\ \A p \in Procs : proc'[p].request = proc[p].request
      BY DEF KeepsVerdicts
    <2>3. ThreadVerdict(c)
      BY DEF VerdictInv
    <2> QED BY <2>1, <2>2, <2>3 DEF ThreadVerdict
  <1> QED BY <1>1, <1>2 DEF VerdictInv

\* The steps of a request, but its decision and the writing of its answer.
LEMMA RequestKeeps ==
    ASSUME SessionTypeOK, VerdictInv, NEW c \in Clients,
           Request(c), ~ResolvePermission(c), ~ResolveWrite(c)
    PROVE  KeepsVerdicts
  <1> USE DEF KeepsVerdicts, tables, counts
  <1>0. /\ client \in [Clients -> ClientRecords] /\ proc \in [Procs -> ProcRecords]
        /\ \A d \in Clients : client[d] \in ClientRecords
        /\ \A p \in Procs : proc[p] \in ProcRecords
    BY DEF SessionTypeOK
  <1>1. ASSUME NEW p, proc' = Terminated(proc, p)
        PROVE  \A q \in Procs : /\ proc'[q].request = proc[q].request /\ proc'[q].pump = proc[q].pump
                                /\ proc'[q].life = "none" => proc'[q] = proc[q]
    BY <1>0, <1>1 DEF Terminated, ProcRecords
  <1> DEFINE Same == \A d \in Clients : client'[d].at \in {"res_look", "res_write"} =>
                       /\ client[d].at \in {"res_look", "res_write"}
                       /\ client'[d].p = client[d].p /\ client'[d].answer = client[d].answer
  <1>2. ASSUME NEW r, r.at \notin {"res_look", "res_write"}, client' = [client EXCEPT ![c] = r]
        PROVE  Same
    BY <1>0, <1>2
  <1>a. ASSUME NEW at \in Places \ {"res_look", "res_write"}, Goes(c, at) PROVE Same
    <2>1. [client[c] EXCEPT !.at = at].at = at
      BY <1>0 DEF ClientRecords
    <2>2. client' = [client EXCEPT ![c] = [client[c] EXCEPT !.at = at]]
      BY <1>a DEF Goes
    <2> QED BY <1>2, <1>a, <2>1, <2>2
  <1>b. ASSUME NEW at \in Places \ {"res_look", "res_write"}, NEW p, Holds(c, at, p) PROVE Same
    BY <1>2, <1>b DEF Holds, Resting
  <1>c. ASSUME Ends(c) PROVE Same
    BY <1>2, <1>c DEF Ends, Resting
  <1> HIDE DEF Same
  <1>d. {"send_running", "send_write", "int_stopping", "int_end", "mode_pop", "mode_idle",
         "mode_end", "del_end", "del_remove"} \subseteq Places \ {"res_look", "res_write"}
    BY DEF Places
  <1>e. Same /\ UNCHANGED <<proc, verdicts>> /\ pending' \subseteq pending => KeepsVerdicts
    BY DEF Same
  <1>3. CASE SendMessage(c)
    <2>1. PICK p \in Procs \cup {handle} : /\ proc' = proc \/ (p \in Procs /\ Fresh(p))
                                         /\ Holds(c, "send_running", p)
      BY <1>3 DEF SendMessage
    <2>2. \A q \in Procs : /\ proc'[q].request = proc[q].request /\ proc'[q].pump = proc[q].pump
                           /\ proc'[q].life = "none" => proc'[q] = proc[q]
      BY <1>0, <2>1 DEF Fresh, ProcRecords
    <2>3. Same
      BY <1>b, <1>d, <2>1
    <2> QED BY <1>3, <2>2, <2>3 DEF SendMessage, Same
  <1>4. CASE SendRunning(c) \/ InterruptStopping(c) \/ RestartIdle(c)
    <2>1. Same
      BY <1>a, <1>c, <1>d, <1>4 DEF SendRunning, InterruptStopping, RestartIdle, Mutates
    <2> QED BY <1>e, <1>4, <2>1 DEF SendRunning, InterruptStopping, RestartIdle
  <1>5. CASE SendWrite(c) \/ Interrupt(c) \/ SetPermissionMode(c) \/ RestartPop(c)
             \/ DeleteTask(c) \/ DeleteRemove(c)
    <2>1. Same
      BY <1>a, <1>b, <1>c, <1>d, <1>5 DEF SendWrite, Interrupt, SetPermissionMode, RestartPop,
                                          DeleteTask, DeleteRemove
    <2> QED BY <1>e, <1>5, <2>1 DEF SendWrite, Interrupt, SetPermissionMode, RestartPop,
                                    DeleteTask, DeleteRemove
  <1>6. CASE InterruptEnd(c) \/ RestartEnd(c) \/ DeleteEnd(c)
    <2>1. Same
      BY <1>a, <1>c, <1>d, <1>6 DEF InterruptEnd, RestartEnd, DeleteEnd
    <2>2. proc' = Terminated(proc, client[c].p) /\ UNCHANGED <<verdicts, pending>>
      BY <1>6 DEF InterruptEnd, RestartEnd, DeleteEnd
    <2> QED BY <1>1, <2>1, <2>2 DEF Same
  <1>7. CASE ResolveLook(c)
    BY <1>0, <1>7 DEF ResolveLook, ClientRecords
  <1> QED BY <1>3, <1>4, <1>5, <1>6, <1>7 DEF Request

\* A step that changes what one process asks and what is decided about it.
LEMMA OneProcess ==
    ASSUME VerdictInv, NEW p \in Procs, client' = client,
           \A q \in Procs \ {p} : /\ proc'[q] = proc[q] /\ verdicts'[q] = verdicts[q]
                                  /\ q \in pending' <=> q \in pending,
           verdicts[p] # << >> => verdicts'[p] = verdicts[p],
           proc[p].request # "none" => proc'[p].request # "none",
           ProcVerdict(p)'
    PROVE  VerdictInv'
  <1>1. ASSUME NEW q \in Procs \ {p} PROVE ProcVerdict(q)'
    BY <1>1 DEF VerdictInv, ProcVerdict
  <1>2. ASSUME NEW c \in Clients PROVE ThreadVerdict(c)'
    <2>1. \A a : <<a>> # << >>
      OBVIOUS
    <2> QED BY <2>1 DEF VerdictInv, ThreadVerdict
  <1> QED BY <1>1, <1>2 DEF VerdictInv

LEMMA NextVerdict == SessionTypeOK /\ VerdictInv /\ [Next]_vars => VerdictInv'
  <1> SUFFICES ASSUME SessionTypeOK, VerdictInv, [Next]_vars PROVE VerdictInv'
    OBVIOUS
  <1> USE DEF tables, counts
  <1>0. /\ client \in [Clients -> ClientRecords] /\ proc \in [Procs -> ProcRecords]
        /\ verdicts \in [Procs -> {<< >>, <<"auto">>, <<"allow">>, <<"deny">>}]
        /\ pending \subseteq Procs
    BY DEF SessionTypeOK
  <1>1. CASE CreateSpawn
    BY <1>0, <1>1, VerdictsKept DEF CreateSpawn, Fresh, KeepsVerdicts, ProcRecords
  <1>2. ASSUME NEW c \in Clients, ResolvePermission(c) PROVE VerdictInv'
    <2>1. PICK p \in pending, answer \in {"allow", "deny"} :
             /\ client' = [client EXCEPT ![c] = [Resting EXCEPT !.at = "res_look", !.p = p, !.answer = answer]]
             /\ verdicts' = [verdicts EXCEPT ![p] = Append(@, answer)]
             /\ pending' = pending \ {p}
      BY <1>2 DEF ResolvePermission
    <2>2. verdicts[p] = << >> /\ proc[p].request = "waits" /\ p \in Procs /\ proc' = proc
      BY <1>0, <1>2 DEF VerdictInv, ProcVerdict, ResolvePermission
    <2>3. verdicts' = [verdicts EXCEPT ![p] = <<answer>>]
      BY <2>1, <2>2
    <2>4. (\A q \in Procs \ {p} : verdicts'[q] = verdicts[q]) /\ verdicts'[p] = <<answer>>
      BY <1>0, <2>2, <2>3
    <2>5. ASSUME NEW q \in Procs PROVE ProcVerdict(q)'
      <3>1. CASE q = p
        <4>1. proc[p].pump \notin {"session", "ask", "answer", "reply"} /\ proc[p].life # "none"
          BY <2>1, <2>2 DEF VerdictInv, ProcVerdict, Unused
        <4> QED BY <2>1, <2>2, <3>1, <4>1 DEF ProcVerdict
      <3>2. CASE q # p
        BY <2>1, <2>2, <2>4, <3>2 DEF VerdictInv, ProcVerdict
      <3> QED BY <3>1, <3>2
    <2>6. ASSUME NEW d \in Clients PROVE ThreadVerdict(d)'
      <3>1. CASE d = c
        BY <1>0, <2>1, <2>2, <2>4, <3>1 DEF ThreadVerdict, Resting
      <3>2. CASE d # c
        <4>1. client'[d] = client[d] /\ \A a : <<a>> # << >>
          BY <1>0, <2>1, <3>2
        <4> QED BY <2>2, <2>4, <4>1 DEF VerdictInv, ThreadVerdict
      <3> QED BY <3>1, <3>2
    <2> QED BY <2>5, <2>6 DEF VerdictInv
  <1>3. ASSUME NEW c \in Clients, ResolveWrite(c) PROVE VerdictInv'
    <2> DEFINE p == client[c].p
    <2>1. p \in Procs /\ proc[p].request # "none" /\ verdicts[p] = <<client[c].answer>>
      BY <1>3 DEF ResolveWrite, VerdictInv, ThreadVerdict
    <2>2. /\ \A q \in Procs \ {p} : proc'[q] = proc[q]
          /\ proc'[p].life = proc[p].life /\ proc'[p].pump = proc[p].pump
          /\ \/ proc' = proc
             \/ /\ proc[p].life # "none" /\ proc'[p].request \in {"ran", "denied"}
                /\ proc'[p].request = "ran" => client[c].answer = "allow"
      BY <1>0, <1>3, <2>1 DEF ResolveWrite, Answered, ProcRecords
    <2>3. UNCHANGED <<verdicts, pending>>
          /\ \A d \in Clients : client'[d].at \in {"res_look", "res_write"} => client'[d] = client[d]
      BY <1>0, <1>3 DEF ResolveWrite, Ends, Resting
    <2>4. client[c].answer \in {"none", "allow", "deny"} /\ \A a, b : <<a>> # << >> /\ (<<a>> = <<b>> => a = b)
      BY <1>0 DEF ClientRecords
    <2>5. ASSUME NEW q \in Procs PROVE ProcVerdict(q)'
      <3>1. CASE q # p \/ proc' = proc
        BY <2>2, <2>3, <3>1 DEF VerdictInv, ProcVerdict
      <3>2. CASE q = p /\ proc' # proc
        <4>1. p \notin pending /\ proc[p].pump \notin {"session", "ask", "answer", "reply"}
          BY <2>1, <2>4 DEF VerdictInv, ProcVerdict
        <4> QED BY <2>1, <2>2, <2>3, <3>2, <4>1 DEF ProcVerdict
      <3> QED BY <3>1, <3>2
    <2>6. ASSUME NEW d \in Clients PROVE ThreadVerdict(d)'
      BY <2>1, <2>2, <2>3 DEF VerdictInv, ThreadVerdict
    <2> QED BY <2>5, <2>6 DEF VerdictInv
  <1>4. ASSUME NEW c \in Clients, Request(c) PROVE VerdictInv'
    BY <1>2, <1>3, <1>4, RequestKeeps, VerdictsKept
  <1>5. ASSUME NEW p \in Procs, AskTool(p) \/ AskUser(p) \/ AnswerLook(p) PROVE VerdictInv'
    <2>1. /\ client' = client /\ verdicts' = verdicts /\ ProcVerdict(p)
          /\ \A q \in Procs \ {p} : proc'[q] = proc[q] /\ (q \in pending' <=> q \in pending)
          /\ proc'[p].life = proc[p].life
      BY <1>0, <1>5 DEF AskTool, AskUser, AnswerLook, Pump, ProcRecords, VerdictInv
    <2>2. /\ proc[p].life # "none"
          /\ proc[p].request # "none" => proc'[p].request # "none"
      BY <1>0, <1>5, <2>1 DEF AskTool, AskUser, AnswerLook, Pump, ProcRecords, IsAlive, ProcVerdict, Unused
    <2>3. ProcVerdict(p)'
      BY <1>0, <1>5, <2>1, <2>2 DEF AskTool, AskUser, AnswerLook, Pump, ProcRecords, ProcVerdict
    <2> QED BY <2>1, <2>2, <2>3, OneProcess
  <1>6. ASSUME NEW p \in Procs, CheckAllowance(p) PROVE VerdictInv'
    <2>1. /\ client' = client /\ pending' = pending /\ ProcVerdict(p)
          /\ \A q \in Procs \ {p} : proc'[q] = proc[q] /\ verdicts'[q] = verdicts[q]
          /\ proc'[p].life = proc[p].life /\ proc'[p].request = proc[p].request
      BY <1>0, <1>6 DEF CheckAllowance, Pump, ProcRecords, VerdictInv
    <2>2. verdicts[p] = << >> /\ proc[p].request = "waits" /\ p \notin pending /\ proc[p].life # "none"
      BY <1>6, <2>1 DEF CheckAllowance, Pump, ProcVerdict, Unused
    <2>3. \/ proc'[p].pump = "answer" /\ verdicts'[p] = <<"auto">>
          \/ proc'[p].pump = "ask" /\ verdicts'[p] = << >>
      BY <1>0, <1>6, <2>2 DEF CheckAllowance, Pump, ProcRecords
    <2>4. ProcVerdict(p)'
      BY <2>1, <2>2, <2>3 DEF ProcVerdict
    <2> QED BY <2>1, <2>2, <2>4, OneProcess
  <1>7. ASSUME NEW p \in Procs, AnswerWrite(p) PROVE VerdictInv'
    <2>1. /\ client' = client /\ verdicts' = verdicts /\ pending' = pending /\ ProcVerdict(p)
          /\ \A q \in Procs \ {p} : proc'[q] = proc[q]
      BY <1>0, <1>7 DEF AnswerWrite, Answered, VerdictInv
    <2>2. /\ proc'[p].life = proc[p].life /\ proc'[p].pump = "read"
          /\ proc'[p].request \in {"ran", proc[p].request}
      BY <1>0, <1>7 DEF AnswerWrite, Answered, ProcRecords
    <2>3. verdicts[p] = <<"auto">> /\ proc[p].request = "waits" /\ p \notin pending /\ proc[p].life # "none"
      <3>1. <<"auto">> # << >>
        OBVIOUS
      <3> QED BY <1>7, <2>1, <3>1 DEF AnswerWrite, ProcVerdict, Unused
    <2>4. ProcVerdict(p)'
      BY <2>1, <2>2, <2>3 DEF ProcVerdict
    <2> QED BY <2>1, <2>2, <2>3, <2>4, OneProcess
  <1>8. ASSUME NEW p \in Procs, Result(p) \/ Exit(p) \/ OnCliExit(p) \/ ExitLook(p) \/ ExitMark(p)
        PROVE  VerdictInv'
    <2>1. UNCHANGED <<verdicts, pending, client>>
      BY <1>8 DEF Result, Exit, OnCliExit, ExitLook, ExitMark
    <2>2. \A q \in Procs \ {p} : proc'[q] = proc[q]
      BY <1>0, <1>8 DEF Result, Exit, OnCliExit, ExitLook, ExitMark, Leaves
    <2>3. /\ proc'[p].request = proc[p].request
          /\ proc'[p].pump \in {proc[p].pump, "read", "look", "mark", "done"}
          /\ proc'[p].life = "none" => proc'[p] = proc[p]
      <3>1. CASE Result(p)
        BY <3>1 DEF Result
      <3>2. CASE Exit(p)
        BY <1>0, <3>2 DEF Exit, ProcRecords
      <3>3. ASSUME NEW from, Leaves(p, from) PROVE /\ proc'[p].request = proc[p].request
                                                   /\ proc'[p].pump = "done" /\ proc'[p].life = "gone"
        BY <1>0, <3>3 DEF Leaves, Ended, Unused
      <3>4. CASE OnCliExit(p)
        BY <1>0, <3>3, <3>4 DEF OnCliExit, ProcRecords
      <3>5. CASE ExitLook(p)
        <4>1. CASE proc' = [proc EXCEPT ![p].pump = "mark", ![p].note = IF @ = "cancelled" THEN @ ELSE row.status]
          <5>1. proc[p] \in ProcRecords
            BY <1>0
          <5>2. proc'[p].pump = "mark" /\ proc'[p].request = proc[p].request
                /\ proc'[p].life = proc[p].life /\ proc[p].pump = "look"
            BY <1>0, <3>5, <4>1, <5>1 DEF ProcRecords, ExitLook, Leaves, Ended
          <5>3. proc[p].life # "none"
            BY <5>2 DEF VerdictInv, ProcVerdict, Unused
          <5> QED BY <5>2, <5>3
        <4> QED BY <3>3, <3>5, <4>1 DEF ExitLook
      <3>6. CASE ExitMark(p)
        BY <3>3, <3>6 DEF ExitMark
      <3> QED BY <1>8, <3>1, <3>2, <3>4, <3>5, <3>6
    <2>4. KeepsVerdicts
      BY <2>1, <2>2, <2>3 DEF KeepsVerdicts
    <2> QED BY <2>4, VerdictsKept
  <1>9. CASE Crash
    <2>1. \A p \in Procs : /\ proc'[p].request = proc[p].request
                           /\ proc'[p].pump \in {proc[p].pump, "done"}
                           /\ proc'[p].life = "none" => proc[p].life = "none"
      BY <1>0, <1>9 DEF Crash, ProcRecords
    <2>3. \A p \in Procs : proc'[p].life = "none" => proc'[p] = proc[p]
      BY <1>0, <1>9, <2>1 DEF Crash
    <2>4. verdicts' = verdicts /\ pending' = {} /\ \A c \in Clients : client'[c].at = "rest"
      BY <1>9 DEF Crash, Resting
    <2>5. KeepsVerdicts
      BY <2>1, <2>3, <2>4 DEF KeepsVerdicts
    <2> QED BY <2>5, VerdictsKept
  <1>10. CASE CreateRegister \/ UNCHANGED vars
    BY <1>10 DEF CreateRegister, vars, VerdictInv, ProcVerdict, ThreadVerdict
  <1> QED BY <1>1, <1>4, <1>5, <1>6, <1>7, <1>8, <1>9, <1>10 DEF Next, Process

\* A request is decided once, and a tool runs only if it was allowed.
THEOREM AnsweredForGood == Spec => []AnsweredOnce
  <1>1. SessionTypeOK /\ VerdictInv => AnsweredOnce
    <2>1. /\ Len(<< >>) <= 1
          /\ Len(<<"auto">>) <= 1 /\ Len(<<"allow">>) <= 1 /\ Len(<<"deny">>) <= 1
      OBVIOUS
    <2> QED BY <2>1 DEF SessionTypeOK, VerdictInv, ProcVerdict, AnsweredOnce
  <1>2. SessionTypeOK /\ VerdictInv /\ [Next]_vars => SessionTypeOK'
    BY NextSession
  <1> QED BY <1>1, <1>2, InitSession, InitVerdict, NextVerdict, PTL DEF Spec

-----------------------------------------------------------------------------
(* The tracked process.                                                      *)

\* Before create_task has registered its process nothing is tracked, and that process
\* runs in the mode the row has still.
HandleInv ==
    /\ creator # "done" => handle = None
    /\ creator = "register" /\ row.live /\ IsAlive(1) => proc[1].mode = row.mode
    /\ SettingsInForce
    /\ NoLostProcess

LEMMA InitHandle == Init => HandleInv
  BY DEF Init, HandleInv, SettingsInForce, NoLostProcess, IsAlive, Unused

\* Where a thread that is to terminate a process stands.
Terminating == {"mode_idle", "mode_end", "del_end"}

\* What a step keeps that neither starts a process nor moves the handle nor changes the mode.
KeepsHandle ==
    /\ handle' = handle /\ creator' = creator /\ evicted' = evicted
    /\ row'.live => row.live /\ row'.mode = row.mode
    /\ \A p \in Procs : /\ proc'[p].life = "alive" => proc[p].life = "alive"
                        /\ proc'[p].life \in {"alive", "told"} =>
                             proc[p].life \in {"alive", "told"} /\ proc'[p].mode = proc[p].mode
    /\ \A c \in Clients :
         /\ client[c].at = "mode_pop" => client'[c].at = "mode_pop"
         /\ client[c].at \in Terminating =>
              \/ client'[c].at \in Terminating /\ client'[c].p = client[c].p
              \/ client[c].p \in Procs => proc'[client[c].p].life # "alive"
              \/ ~row'.live

LEMMA HandleKept == SessionTypeOK /\ HandleInv /\ KeepsHandle => HandleInv'
  <1> SUFFICES ASSUME SessionTypeOK, HandleInv, KeepsHandle PROVE HandleInv'
    OBVIOUS
  <1>0. handle \in Procs \cup {None} /\ None \notin Procs /\ 1 \in Procs
    BY SessionAssumption DEF SessionTypeOK, Procs, None
  <1>1. SettingsInForce'
    BY <1>0 DEF HandleInv, KeepsHandle, SettingsInForce, SwitchInProgress, IsAlive
  <1>2. NoLostProcess'
    <2> SUFFICES ASSUME row'.live, NEW p \in Procs, proc'[p].life = "alive"
                 PROVE  handle' = p \/ InHand(p)' \/ p \in evicted'
      BY DEF NoLostProcess
    <2>1. handle = p \/ InHand(p) \/ p \in evicted
      BY DEF HandleInv, NoLostProcess, KeepsHandle
    <2>2. InHand(p) => InHand(p)'
      BY DEF InHand, KeepsHandle, Terminating
    <2> QED BY <2>1, <2>2 DEF KeepsHandle
  <1>3. creator' # "done" => handle' = None
    BY DEF HandleInv, KeepsHandle
  <1>4. creator' = "register" /\ row'.live /\ IsAlive(1)' => proc'[1].mode = row'.mode
    BY <1>0 DEF HandleInv, KeepsHandle, IsAlive
  <1> QED BY <1>1, <1>2, <1>3, <1>4 DEF HandleInv

\* The steps that keep it.
LEMMA RequestKeepsHandle ==
    ASSUME SessionTypeOK, NEW c \in Clients,
           Request(c), ~SendMessage(c), ~SetPermissionMode(c), ~RestartPop(c), ~DeleteTask(c)
    PROVE  KeepsHandle
  <1> USE DEF KeepsHandle, tables, counts
  <1>0. /\ client \in [Clients -> ClientRecords] /\ proc \in [Procs -> ProcRecords]
        /\ \A d \in Clients : client[d] \in ClientRecords
        /\ row \in [live : BOOLEAN, mode : Modes, status : Statuses]
    BY DEF SessionTypeOK
  <1> DEFINE Same == \A d \in Clients :
                       /\ client[d].at = "mode_pop" => client'[d].at = "mode_pop"
                       /\ client[d].at \in Terminating =>
                            \/ client'[d].at \in Terminating /\ client'[d].p = client[d].p
                            \/ client[d].p \in Procs => proc'[client[d].p].life # "alive"
                            \/ ~row'.live
  <1>1. ASSUME client[c].at \notin Terminating \cup {"mode_pop"},
               NEW r, client' = [client EXCEPT ![c] = r]
        PROVE  Same
    BY <1>0, <1>1
  <1>2. CASE SendRunning(c) \/ InterruptStopping(c) \/ SendWrite(c) \/ Interrupt(c) \/ DeleteRemove(c)
             \/ ResolvePermission(c) \/ ResolveLook(c)
    <2>1. client[c].at \notin Terminating \cup {"mode_pop"}
      BY <1>2 DEF SendRunning, InterruptStopping, SendWrite, Interrupt, DeleteRemove, ResolvePermission,
                  ResolveLook, Requested, Terminating
    <2>a. ASSUME NEW at, Goes(c, at) PROVE \E r : client' = [client EXCEPT ![c] = r]
      <3>1. client' = [client EXCEPT ![c] = [client[c] EXCEPT !.at = at]]
        BY <2>a DEF Goes
      <3> QED BY <3>1
    <2>b. ASSUME NEW at, NEW p, Holds(c, at, p) PROVE \E r : client' = [client EXCEPT ![c] = r]
      <3>1. client' = [client EXCEPT ![c] = [Resting EXCEPT !.at = at, !.p = p]]
        BY <2>b DEF Holds
      <3> QED BY <3>1
    <2>c. ASSUME Ends(c) PROVE \E r : client' = [client EXCEPT ![c] = r]
      BY <2>c DEF Ends
    <2>2. \E r : client' = [client EXCEPT ![c] = r]
      <3>1. CASE SendRunning(c) \/ InterruptStopping(c) \/ SendWrite(c) \/ Interrupt(c) \/ DeleteRemove(c)
        BY <2>a, <2>b, <2>c, <3>1 DEF SendRunning, InterruptStopping, SendWrite, Interrupt, DeleteRemove,
                                      Mutates
      <3>2. CASE ResolvePermission(c)
        <4>1. PICK p, answer :
                client' = [client EXCEPT ![c] = [Resting EXCEPT !.at = "res_look", !.p = p, !.answer = answer]]
          BY <3>2 DEF ResolvePermission
        <4> QED BY <4>1
      <3>3. CASE ResolveLook(c)
        <4>1. client' = [client EXCEPT ![c] = [client[c] EXCEPT !.at = "res_write", !.to = handle]]
          BY <3>3 DEF ResolveLook
        <4> QED BY <4>1
      <3> QED BY <1>2, <3>1, <3>2, <3>3
    <2>3. Same
      <3> HIDE DEF Same
      <3> QED BY <1>1, <2>1, <2>2
    <2>4. row'.live => row.live /\ row'.mode = row.mode
      <3>1. row' \in {row, NoRow, [row EXCEPT !.status = "running"], [row EXCEPT !.status = "stopping"],
                     [row EXCEPT !.status = "idle"]}
        BY <1>2 DEF SendRunning, InterruptStopping, SendWrite, Interrupt, DeleteRemove, ResolvePermission,
                    ResolveLook, Mutates, SetStatus
      <3> QED BY <1>0, <3>1 DEF NoRow
    <2>5. UNCHANGED <<handle, creator, evicted, proc>>
      BY <1>2 DEF SendRunning, InterruptStopping, SendWrite, Interrupt, DeleteRemove, ResolvePermission,
                  ResolveLook
    <2> QED BY <2>3, <2>4, <2>5
  <1>3. CASE RestartIdle(c)
    <2>1. CASE row.live
      BY <1>0, <1>3, <2>1 DEF RestartIdle, Mutates, SetStatus, Goes, Terminating, ClientRecords
    <2>2. CASE ~row.live
      BY <1>0, <1>3, <2>2 DEF RestartIdle, Mutates, Ends
    <2> QED BY <2>1, <2>2
  <1>4. CASE InterruptEnd(c) \/ RestartEnd(c) \/ DeleteEnd(c)
    <2>1. proc' = Terminated(proc, client[c].p) /\ UNCHANGED <<handle, creator, evicted>>
          /\ client[c].at # "mode_pop" /\ \A d \in Clients \ {c} : client'[d] = client[d]
      BY <1>0, <1>4 DEF InterruptEnd, RestartEnd, DeleteEnd, Ends, Goes
    <2>2. /\ \A p \in Procs :
               /\ proc'[p].life = "alive" => proc[p].life = "alive"
               /\ proc'[p].mode = proc[p].mode
               /\ proc'[p].life \in {"alive", "told"} => proc[p].life \in {"alive", "told"}
          /\ client[c].p \in Procs => proc'[client[c].p].life # "alive"
      BY <1>0, <2>1 DEF Terminated, ProcRecords, None, Procs
    <2>3. row'.live => row.live /\ row'.mode = row.mode
      BY <1>0, <1>4 DEF InterruptEnd, RestartEnd, DeleteEnd, SetStatus
    <2>4. Same
      <3> SUFFICES ASSUME NEW d \in Clients
                   PROVE  /\ client[d].at = "mode_pop" => client'[d].at = "mode_pop"
                          /\ client[d].at \in Terminating =>
                               \/ client'[d].at \in Terminating /\ client'[d].p = client[d].p
                               \/ client[d].p \in Procs => proc'[client[d].p].life # "alive"
        OBVIOUS
      <3>1. CASE d = c
        BY <2>1, <2>2, <3>1
      <3>2. CASE d # c
        BY <2>1, <3>2
      <3> QED BY <3>1, <3>2
    <2> QED BY <2>1, <2>2, <2>3, <2>4
  <1>5. CASE ResolveWrite(c)
    <2>1. client[c].at \notin Terminating \cup {"mode_pop"} /\ client' = [client EXCEPT ![c] = Resting]
          /\ UNCHANGED <<handle, creator, evicted, row>>
      BY <1>5 DEF ResolveWrite, Ends, Terminating
    <2>2. Same
      <3> HIDE DEF Same
      <3> QED BY <1>1, <2>1
    <2>3. \A p \in Procs : proc'[p].life = proc[p].life /\ proc'[p].mode = proc[p].mode
      BY <1>0, <1>5 DEF ResolveWrite, Answered, ProcRecords
    <2> QED BY <2>1, <2>2, <2>3
  <1> QED BY <1>2, <1>3, <1>4, <1>5 DEF Request

LEMMA ProcessKeepsHandle ==
    ASSUME SessionTypeOK, NEW p \in Procs, Process(p), OnCliExit(p) => ~row.live
    PROVE  KeepsHandle
  <1> USE DEF tables, counts
  <1>0. /\ proc \in [Procs -> ProcRecords]
        /\ row \in [live : BOOLEAN, mode : Modes, status : Statuses]
    BY DEF SessionTypeOK
  <1>1. UNCHANGED <<handle, creator, evicted, client>>
    BY DEF Process, AskTool, CheckAllowance, AskUser, AnswerLook, AnswerWrite, Result, Exit, OnCliExit,
           ExitLook, ExitMark
  <1>2. row'.live => row.live /\ row'.mode = row.mode
    BY <1>0 DEF Process, AskTool, CheckAllowance, AskUser, AnswerLook, AnswerWrite, Result, Exit, OnCliExit,
           ExitLook, ExitMark, SetStatus
  <1>3. \A q \in Procs : \/ proc'[q].life \in {proc[q].life, "gone"} /\ proc'[q].mode = proc[q].mode
                         \/ proc'[q].life = "gone"
    <2>1. ASSUME NEW from, Leaves(p, from)
          PROVE  proc'[p].life = "gone" /\ \A q \in Procs \ {p} : proc'[q] = proc[q]
      BY <1>0, <2>1 DEF Leaves, Ended, Unused
    <2>2. CASE AskTool(p) \/ CheckAllowance(p) \/ AskUser(p) \/ AnswerLook(p) \/ Result(p) \/ Exit(p)
      BY <1>0, <2>2 DEF AskTool, CheckAllowance, AskUser, AnswerLook, Result, Exit, Pump, ProcRecords
    <2>3. CASE AnswerWrite(p)
      BY <1>0, <2>3 DEF AnswerWrite, Answered, ProcRecords
    <2>4. CASE OnCliExit(p)
      BY <2>1, <2>4 DEF OnCliExit
    <2>5. CASE ExitLook(p)
      <3>1. CASE proc' = [proc EXCEPT ![p].pump = "mark", ![p].note = IF @ = "cancelled" THEN @ ELSE row.status]
        BY <1>0, <3>1 DEF ProcRecords
      <3> QED BY <2>1, <2>5, <3>1 DEF ExitLook
    <2>6. CASE ExitMark(p)
      BY <2>1, <2>6 DEF ExitMark
    <2> QED BY <2>2, <2>3, <2>4, <2>5, <2>6 DEF Process
  <1> QED BY <1>1, <1>2, <1>3 DEF KeepsHandle

LEMMA NextHandle ==
    ASSUME ~EarlyClients, SessionTypeOK, VerdictInv, HandleInv, [Next]_vars
    PROVE  HandleInv'
  <1> USE DEF tables, counts
  <1>0. /\ client \in [Clients -> ClientRecords] /\ proc \in [Procs -> ProcRecords]
        /\ row \in [live : BOOLEAN, mode : Modes, status : Statuses]
        /\ handle \in Procs \cup {None} /\ None \notin Procs /\ 1 \in Procs
    BY SessionAssumption DEF SessionTypeOK, Procs, None
  <1>1. ASSUME NEW p \in Procs, Fresh(p)
        PROVE  /\ proc'[p].life = "alive" /\ proc'[p].mode = row.mode
               /\ \A q \in Procs \ {p} : proc'[q] = proc[q]
    BY <1>0, <1>1 DEF Fresh, ProcRecords
  <1>2. CASE CreateSpawn
    <2>1. /\ proc'[1].life = "alive" /\ proc'[1].mode = row.mode
          /\ \A q \in Procs \ {1} : proc'[q] = proc[q]
      BY <1>0, <1>1, <1>2 DEF CreateSpawn
    <2>2. UNCHANGED <<row, handle, client, evicted>> /\ creator = "spawn" /\ creator' = "register"
          /\ handle = None
      BY <1>2 DEF CreateSpawn, HandleInv
    <2>3. NoLostProcess'
      <3> SUFFICES ASSUME row.live, NEW q \in Procs, proc'[q].life = "alive"
                   PROVE  handle' = q \/ InHand(q)' \/ q \in evicted'
        BY <2>2 DEF NoLostProcess
      <3>1. CASE q = 1
        BY <2>2, <3>1 DEF InHand
      <3>2. CASE q # 1
        BY <2>1, <2>2, <3>2 DEF HandleInv, NoLostProcess, InHand
      <3> QED BY <3>1, <3>2
    <2> QED BY <2>1, <2>2, <2>3 DEF HandleInv, SettingsInForce, IsAlive
  <1>3. CASE CreateRegister
    <2>1. /\ UNCHANGED <<row, proc, client, evicted>> /\ creator = "register" /\ creator' = "done"
          /\ handle = None /\ handle' = 1
      BY <1>3 DEF CreateRegister, HandleInv
    <2>2. NoLostProcess'
      BY <1>0, <2>1 DEF HandleInv, NoLostProcess, InHand
    <2> QED BY <2>1, <2>2 DEF HandleInv, SettingsInForce, IsAlive
  <1>4. ASSUME NEW c \in Clients, SendMessage(c) PROVE HandleInv'
    <2>1. /\ creator = "done" /\ client[c].at = "rest" /\ row.live
          /\ UNCHANGED <<row, creator, evicted>>
      BY <1>4 DEF SendMessage, Requested
    <2>2. PICK p : client' = [client EXCEPT ![c] = [Resting EXCEPT !.at = "send_running", !.p = p]]
      BY <1>4 DEF SendMessage, Holds
    <2>3. client'[c].at = "send_running" /\ \A d \in Clients \ {c} : client'[d] = client[d]
      BY <1>0, <2>2 DEF Resting
    <2>4. (SwitchInProgress => SwitchInProgress') /\ \A q \in Procs : InHand(q) => InHand(q)'
      BY <2>1, <2>3 DEF SwitchInProgress, InHand
    <2>5. CASE UNCHANGED <<handle, proc>>
      BY <2>1, <2>4, <2>5 DEF HandleInv, SettingsInForce, NoLostProcess, IsAlive
    <2>6. ASSUME ~IsAlive(handle), NEW q \in Procs, Fresh(q), handle' = q PROVE HandleInv'
      <3>1. SettingsInForce'
        BY <1>1, <2>1, <2>6 DEF SettingsInForce
      <3>2. NoLostProcess'
        <4> SUFFICES ASSUME NEW r \in Procs, proc'[r].life = "alive", r # q
                     PROVE  InHand(r)' \/ r \in evicted'
          BY <2>6 DEF NoLostProcess
        <4>1. proc[r].life = "alive" /\ r # handle
          BY <1>0, <1>1, <2>6 DEF IsAlive
        <4> QED BY <2>1, <2>4, <4>1 DEF HandleInv, NoLostProcess
      <3> QED BY <2>1, <3>1, <3>2 DEF HandleInv
    <2> QED BY <1>4, <2>5, <2>6 DEF SendMessage
  <1>5. ASSUME NEW c \in Clients, SetPermissionMode(c) PROVE HandleInv'
    <2>1. /\ creator = "done" /\ client[c].at = "rest" /\ row.live
          /\ UNCHANGED <<handle, proc, creator, evicted>>
          /\ client' = [client EXCEPT ![c].at = "mode_pop"]
      BY <1>5 DEF SetPermissionMode, Requested, Goes
    <2>2. client'[c].at = "mode_pop" /\ \A d \in Clients \ {c} : client'[d] = client[d]
      BY <1>0, <2>1 DEF ClientRecords
    <2>3. SwitchInProgress' /\ \A q \in Procs : InHand(q) => InHand(q)'
      BY <2>1, <2>2 DEF SwitchInProgress, InHand
    <2> QED BY <2>1, <2>3 DEF HandleInv, SettingsInForce, NoLostProcess
  <1>6. ASSUME NEW c \in Clients, RestartPop(c) \/ DeleteTask(c) PROVE HandleInv'
    <2>1. /\ client[c].at \in {"rest", "mode_pop"} /\ handle' = None
          /\ UNCHANGED <<row, proc, creator, evicted>>
      BY <1>6 DEF RestartPop, DeleteTask, Requested
    <2>2. PICK at \in {"mode_idle", "del_end"} :
             client' = [client EXCEPT ![c] = [Resting EXCEPT !.at = at, !.p = handle]]
      BY <1>6 DEF RestartPop, DeleteTask, Holds
    <2>3. /\ client'[c].at \in {"mode_idle", "del_end"} /\ client'[c].p = handle
          /\ \A d \in Clients \ {c} : client'[d] = client[d]
      BY <1>0, <2>2 DEF Resting
    <2>4. NoLostProcess'
      BY <2>1, <2>3 DEF HandleInv, NoLostProcess, InHand
    <2> QED BY <2>1, <2>4 DEF HandleInv, SettingsInForce, IsAlive
  <1>7. ASSUME NEW p \in Procs, OnCliExit(p), row.live PROVE HandleInv'
    <2>1. /\ UNCHANGED <<row, creator, client>> /\ handle' = None
          /\ evicted' = evicted \cup ({handle} \ {None, p}) /\ proc[p].life = "gone"
          /\ proc' = [proc EXCEPT ![p].pump = "look", ![p].note = IF cancelled THEN "cancelled" ELSE "none"]
      BY <1>7 DEF OnCliExit
    <2>2. \A q \in Procs : proc'[q].life = proc[q].life /\ proc'[q].mode = proc[q].mode
      BY <1>0, <2>1 DEF ProcRecords
    <2>3. NoLostProcess'
      BY <1>0, <2>1, <2>2 DEF HandleInv, NoLostProcess, InHand
    <2> QED BY <1>0, <2>1, <2>2, <2>3 DEF HandleInv, SettingsInForce, IsAlive
  <1>8. CASE Crash
    <2>1. handle' = None /\ creator' = "done" /\ \A p \in Procs : proc'[p].life # "alive"
      BY <1>0, <1>8 DEF Crash, ProcRecords
    <2> QED BY <2>1 DEF HandleInv, SettingsInForce, NoLostProcess, IsAlive
  <1>9. ASSUME NEW c \in Clients, Request(c) PROVE HandleInv'
    BY <1>4, <1>5, <1>6, <1>9, RequestKeepsHandle, HandleKept
  <1>10. ASSUME NEW p \in Procs, Process(p) PROVE HandleInv'
    BY <1>7, <1>10, ProcessKeepsHandle, HandleKept
  <1>11. CASE UNCHANGED vars
    BY <1>11 DEF vars, HandleInv, SettingsInForce, NoLostProcess, IsAlive, SwitchInProgress, InHand
  <1> QED BY <1>2, <1>3, <1>8, <1>9, <1>10, <1>11 DEF Next

\* Unless a request names the task before create_task has returned, the process that
\* gets the next message runs in the mode of the task.
THEOREM ModeIsInForce ==
    ASSUME ~EarlyClients
    PROVE  Spec => []SettingsInForce
  <1>1. HandleInv => SettingsInForce
    BY DEF HandleInv
  <1>2. /\ SessionTypeOK /\ VerdictInv /\ [Next]_vars => SessionTypeOK'
        /\ SessionTypeOK /\ VerdictInv /\ HandleInv /\ [Next]_vars => HandleInv'
    BY NextSession, NextHandle
  <1> QED BY <1>1, <1>2, InitSession, InitVerdict, InitHandle, NextVerdict, PTL DEF Spec

\* Under the same condition no process that runs is out of everybody's hands.
THEOREM ProcessesAreTracked ==
    ASSUME ~EarlyClients
    PROVE  Spec => []NoLostProcess
  <1>1. HandleInv => NoLostProcess
    BY DEF HandleInv
  <1>2. /\ SessionTypeOK /\ VerdictInv /\ [Next]_vars => SessionTypeOK'
        /\ SessionTypeOK /\ VerdictInv /\ HandleInv /\ [Next]_vars => HandleInv'
    BY NextSession, NextHandle
  <1> QED BY <1>1, <1>2, InitSession, InitVerdict, InitHandle, NextVerdict, PTL DEF Spec
=============================================================================
