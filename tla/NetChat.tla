------------------------------ MODULE NetChat ------------------------------
(***************************************************************************)
(* QQQQC: chat between people through a mailbox of files in a repository.  *)
(* A sender puts one file per message into the directory of the receiver;  *)
(* the receiver's service polls the directory, and for each file it reads  *)
(* marks the message seen, stores it in the history and deletes the file.  *)
(* The list of seen messages is capped, deletions fail, a change of the    *)
(* settings starts another poller beside the old one, the server crashes.  *)
(*                                                                         *)
(* An ID is claimed by entering it in members.json, a file of the          *)
(* repository that all installations read and write.  One ID is contended; *)
(* an installation that has it may take it along to another repository.    *)
(* Messages and IDs share no variable: the messages are those of one       *)
(* installation whose repository and ID stay as they are.                  *)
(***************************************************************************)
EXTENDS Naturals, Sequences, SequencesExt, FiniteSetsExt

CONSTANTS Incoming,      \* messages to this user, numbered in the order of their file names
          Outgoing,      \* messages of this user
          Pollers,       \* poll threads
          Users,         \* installations that want the same ID
          Repos,         \* repositories
          NoRepo,        \* of an installation that has not the ID
          SeenCap,       \* _SEEN_CAP
          MaxFailures,   \* bound on failed calls of the repository and failed writes of own files
          MaxSaves,      \* bound on how often the user saves the settings again
          MaxChatCrashes \* bound on crashes

ASSUME ChatAssumption == /\ Incoming \subseteq Nat /\ Outgoing \subseteq Nat
                         /\ Incoming \cap Outgoing = {} /\ NoRepo \notin Repos
                         /\ SeenCap \in Nat \ {0} /\ MaxFailures \in Nat /\ MaxSaves \in Nat
                         /\ MaxChatCrashes \in Nat

VARIABLES
    inbox,      \* files in the directory of this user
    posted,     \* messages put so far, of both directions
    seen,       \* seen_cids
    history,    \* received messages in net_msgs
    poller,     \* where each poll thread is, and what is left of its listing
    failures, saves, chatCrashes,
    forgotten,  \* history: messages the cap has dropped from the list
    raced,      \* history: messages two pollers found unseen at the same time
    dropped,    \* history: messages marked but not stored when the server crashed or the poll failed
    members,    \* members.json of each repository: without the ID, with it, or not to be parsed
    setup,      \* where the setup of each installation is, and whether the sha it has read is the file's
    home,       \* the repository where each installation is configured with the ID
    entered,    \* history: the installations that entered the ID in the list of each repository
    wiped       \* history: the repositories whose list could not be parsed once

chat == <<inbox, posted, seen, history, forgotten, raced, dropped>>
mail == <<chat, poller, failures, saves, chatCrashes>>
ids == <<members, setup, home, entered, wiped>>
chatVars == <<mail, ids>>

Off == [at |-> "off", left |-> << >>]
Idle == [at |-> "wait", left |-> << >>]
First == CHOOSE t \in Pollers : TRUE
NoSetup == [at |-> "none", repo |-> NoRepo, sha |-> "old"]

MailInit ==
    /\ inbox = {} /\ posted = {} /\ seen = << >> /\ history = << >>
    /\ poller = [t \in Pollers |-> IF t = First THEN Idle ELSE Off]
    /\ failures = 0 /\ saves = 0 /\ chatCrashes = 0
    /\ forgotten = {} /\ raced = {} /\ dropped = {}

IdInit ==
    /\ members = [r \in Repos |-> "free"]
    /\ setup = [u \in Users |-> NoSetup] /\ home = [u \in Users |-> NoRepo]
    /\ entered = [r \in Repos |-> {}] /\ wiped = {}

ChatInit == MailInit /\ IdInit

Fails == failures < MaxFailures /\ failures' = failures + 1

-----------------------------------------------------------------------------
(* Messages.                                                                 *)

\* put_message of a peer.
PeerPuts(m) ==
    /\ m \in Incoming \ posted
    /\ \A k \in Incoming : k < m => k \in posted
    /\ posted' = posted \cup {m} /\ inbox' = inbox \cup {m}
    /\ UNCHANGED <<seen, history, poller, ids, failures, saves, chatCrashes, forgotten, raced, dropped>>

IsSeen(m) == m \in ToSet(seen)

\* mark_seen: beyond the cap the oldest are forgotten.
MarkSeen(m) ==
    LET longer == Append(seen, m)
        drop == IF Len(longer) > SeenCap THEN Len(longer) - SeenCap ELSE 0
    IN /\ seen' = SubSeq(longer, drop + 1, Len(longer))
       /\ forgotten' = forgotten \cup ToSet(SubSeq(longer, 1, drop))

\* send, up to its upload, which changes nothing here whether it fails or not.
Send(m) ==
    /\ m \in Outgoing \ posted
    /\ posted' = posted \cup {m}
    /\ MarkSeen(m)
    /\ UNCHANGED <<inbox, history, poller, ids, failures, saves, chatCrashes, raced, dropped>>

-----------------------------------------------------------------------------
(* _poll_once.                                                               *)

At(t, place) == poller[t].at = place
Turns(t, place) == poller' = [poller EXCEPT ![t].at = place]
Current(t) == Head(poller[t].left)

\* The next file of the listing, or the wait until the next poll.
Advances(t) ==
    LET rest == Tail(poller[t].left)
    IN poller' = [poller EXCEPT ![t] = IF rest = << >> THEN Idle ELSE [at |-> "fetch", left |-> rest]]

\* list_inbox of the mailbox: file names begin with the time they were made.
Listing == SetToSortSeq(inbox, <)

ListInbox(t) ==
    /\ At(t, "wait") /\ inbox # {}
    /\ poller' = [poller EXCEPT ![t] = [at |-> "fetch", left |-> Listing]]
    /\ UNCHANGED <<chat, ids, failures, saves, chatCrashes>>

Fetch(t) ==
    /\ At(t, "fetch") /\ Current(t) \in inbox
    /\ Turns(t, "check")
    /\ UNCHANGED <<chat, ids, failures, saves, chatCrashes>>

\* Mutant: a file that could not be read is deleted like the others.
FetchDeletes(t) ==
    /\ At(t, "fetch")
    /\ Fails
    /\ Turns(t, "delete")
    /\ UNCHANGED <<chat, ids, saves, chatCrashes>>

\* The file is gone or the call fails: on to the next.
FetchFails(t) ==
    /\ At(t, "fetch")
    /\ \/ Current(t) \notin inbox /\ UNCHANGED failures
       \/ Fails
    /\ Advances(t)
    /\ UNCHANGED <<chat, ids, saves, chatCrashes>>

\* Mutant: deletion alone keeps messages from coming twice.
CheckNothing(t) ==
    /\ At(t, "check")
    /\ Turns(t, "mark")
    /\ UNCHANGED <<chat, ids, failures, saves, chatCrashes>>

CheckSeen(t) ==
    LET m == Current(t)
        unseen == ~IsSeen(m)
    IN /\ At(t, "check")
       /\ Turns(t, IF unseen THEN "mark" ELSE "delete")
       /\ raced' = IF unseen /\ \E o \in Pollers \ {t} : At(o, "mark") /\ Current(o) = m
                   THEN raced \cup {m} ELSE raced
       /\ UNCHANGED <<inbox, posted, seen, history, ids, failures, saves, chatCrashes, forgotten, dropped>>

Mark(t) ==
    /\ At(t, "mark")
    /\ MarkSeen(Current(t))
    /\ Turns(t, "store")
    /\ UNCHANGED <<inbox, posted, history, ids, failures, saves, chatCrashes, raced, dropped>>

\* append_history; the friends and the page learn of it.
StoreMessage(t) ==
    /\ At(t, "store")
    /\ history' = Append(history, Current(t))
    /\ Turns(t, "delete")
    /\ UNCHANGED <<inbox, posted, seen, ids, failures, saves, chatCrashes, forgotten, raced, dropped>>

\* What these calls and mark_seen raise ends the poll, with the message stored (add_friend) or
\* not; the next poll finds it seen.
StoreFails(t) ==
    /\ At(t, "store") /\ Fails
    /\ \/ history' = Append(history, Current(t)) /\ UNCHANGED dropped
       \/ dropped' = dropped \cup {Current(t)} /\ UNCHANGED history
    /\ poller' = [poller EXCEPT ![t] = Idle]
    /\ UNCHANGED <<inbox, posted, seen, ids, saves, chatCrashes, forgotten, raced>>

Delete(t) ==
    /\ At(t, "delete")
    /\ \/ inbox' = inbox \ {Current(t)} /\ UNCHANGED failures
       \/ UNCHANGED inbox /\ Fails
    /\ Advances(t)
    /\ UNCHANGED <<posted, seen, history, ids, saves, chatCrashes, forgotten, raced, dropped>>

Poll(t) ==
    \/ Fetch(t) \/ FetchFails(t) \/ CheckSeen(t) \/ Mark(t)
    \/ StoreMessage(t) \/ StoreFails(t) \/ Delete(t)

\* setup with the repository and the ID that are stored ends in _restart_thread: it sets the
\* stop flag and clears it at once, so that a poller that waits may have noticed or not, one at
\* work never does, and a new one starts.
RestartThread ==
    /\ saves < MaxSaves /\ saves' = saves + 1
    /\ \E new \in Pollers, stopped \in SUBSET {t \in Pollers : At(t, "wait")} :
         /\ At(new, "off")
         /\ poller' = [t \in Pollers |-> IF t = new THEN Idle ELSE IF t \in stopped THEN Off ELSE poller[t]]
    /\ UNCHANGED <<chat, ids, failures, chatCrashes>>

\* The server dies and starts again with one poller; its files are as they were.
ChatCrash ==
    /\ chatCrashes < MaxChatCrashes /\ chatCrashes' = chatCrashes + 1
    /\ poller' = [t \in Pollers |-> IF t = First THEN Idle ELSE Off]
    /\ dropped' = dropped \cup {Current(t) : t \in {t \in Pollers : At(t, "store")}}
    /\ UNCHANGED <<inbox, posted, seen, history, ids, failures, saves, forgotten, raced>>

-----------------------------------------------------------------------------
(* setup.                                                                    *)

\* After a write of the list of repository r, whoever has read it before has an old sha.
Outdated(r) == [u \in Users |-> IF setup[u].repo = r THEN [setup[u] EXCEPT !.sha = "old"] ELSE setup[u]]

\* read_json of members.json, when the ID is not the one that is stored: an ID in the list is
\* refused; a file that does not parse is an empty list with a sha.
ReadMembers(u, r) ==
    /\ setup[u].at = "none" /\ home[u] = NoRepo
    /\ members[r] # "taken"
    /\ setup' = [setup EXCEPT ![u] = [at |-> "read", repo |-> r, sha |-> "current"]]
    /\ UNCHANGED <<mail, members, home, entered, wiped>>

\* The list that was read is written back with the ID in it.
Enters(u, r) ==
    /\ members' = [members EXCEPT ![r] = "taken"]
    /\ entered' = [entered EXCEPT ![r] = @ \cup {u}]
    /\ setup' = [Outdated(r) EXCEPT ![u].at = "registered"]

\* Mutant: the file is written whatever has become of it.
OverwriteMembers(u) ==
    /\ setup[u].at = "read" /\ Enters(u, setup[u].repo)
    /\ UNCHANGED <<mail, home, wiped>>

\* write_json with the sha that was read: the repository refuses one that is out of date, and
\* a file that is new to the writer but exists.  A refusal ends the setup.
WriteMembers(u) ==
    /\ setup[u].at = "read"
    /\ \/ setup[u].sha = "current" /\ Enters(u, setup[u].repo)
       \/ setup[u].sha = "old" /\ setup' = [setup EXCEPT ![u] = NoSetup] /\ UNCHANGED <<members, entered>>
    /\ UNCHANGED <<mail, home, wiped>>

\* set_config with an ID that has been entered.
SetConfig(u) ==
    /\ setup[u].at = "registered"
    /\ home' = [home EXCEPT ![u] = setup[u].repo] /\ setup' = [setup EXCEPT ![u] = NoSetup]
    /\ UNCHANGED <<mail, members, entered, wiped>>

\* setup with the ID that is stored goes to set_config: no list is read or written, whatever
\* the repository.
KeepHandle(u, r) ==
    /\ setup[u].at = "none" /\ home[u] # NoRepo
    /\ home' = [home EXCEPT ![u] = r]
    /\ UNCHANGED <<mail, members, setup, entered, wiped>>

\* A call of the repository fails, its answer is lost, or the server dies.
SetupFails(u) ==
    /\ setup[u].at # "none" /\ setup' = [setup EXCEPT ![u] = NoSetup]
    /\ UNCHANGED <<mail, members, home, entered, wiped>>

\* Another ID is entered in a list, by whomever; all that a file held that did not parse is gone.
EnterOther(r) ==
    /\ members' = [members EXCEPT ![r] = IF @ = "unparsable" THEN "free" ELSE @]
    /\ setup' = Outdated(r)
    /\ UNCHANGED <<mail, home, entered, wiped>>

\* set_config with another ID, or the loss of the settings (_load): nothing leaves a list.
GiveUp(u) ==
    /\ setup[u].at = "none" /\ home[u] # NoRepo
    /\ home' = [home EXCEPT ![u] = NoRepo]
    /\ UNCHANGED <<mail, members, setup, entered, wiped>>

\* The file is changed by hand.
Garble(r) ==
    /\ members' = [members EXCEPT ![r] = "unparsable"] /\ wiped' = wiped \cup {r}
    /\ setup' = Outdated(r)
    /\ UNCHANGED <<mail, home, entered>>

-----------------------------------------------------------------------------
MailNext ==
    \/ \E m \in Incoming : PeerPuts(m)
    \/ \E m \in Outgoing : Send(m)
    \/ \E t \in Pollers : ListInbox(t) \/ Poll(t)
    \/ RestartThread \/ ChatCrash

IdNext ==
    \/ \E u \in Users : WriteMembers(u) \/ SetConfig(u) \/ SetupFails(u) \/ GiveUp(u)
    \/ \E u \in Users, r \in Repos : ReadMembers(u, r) \/ KeepHandle(u, r)
    \/ \E r \in Repos : EnterOther(r) \/ Garble(r)

ChatSpec == ChatInit /\ [][MailNext \/ IdNext]_chatVars

\* The poll loop goes on after every failure.
PollsGoOn == \A t \in Pollers : WF_chatVars(ListInbox(t)) /\ WF_chatVars(Poll(t))
ChatFairSpec == ChatSpec /\ PollsGoOn

\* For TLC: nothing is lost when messages and IDs, which share no variable, do not interleave.
ApartSpec == ChatInit /\ [][(IdInit /\ MailNext) \/ (MailInit /\ IdNext)]_chatVars /\ PollsGoOn

-----------------------------------------------------------------------------
(* Properties.                                                               *)

ChatTypeOK ==
    /\ inbox \subseteq Incoming /\ posted \subseteq Incoming \cup Outgoing
    /\ seen \in Seq(Incoming \cup Outgoing) /\ Len(seen) <= SeenCap
    /\ history \in Seq(Incoming)
    /\ \A t \in Pollers : /\ poller[t].at \in {"off", "wait", "fetch", "check", "mark", "store", "delete"}
                          /\ poller[t].left \in Seq(Incoming)
    /\ forgotten \cup raced \cup dropped \subseteq Incoming \cup Outgoing
    /\ members \in [Repos -> {"free", "taken", "unparsable"}]
    /\ setup \in [Users -> [at : {"none", "read", "registered"}, repo : Repos \cup {NoRepo}, sha : {"current", "old"}]]
    /\ home \in [Users -> Repos \cup {NoRepo}]
    /\ entered \in [Repos -> SUBSET Users] /\ wiped \subseteq Repos

Occurrences(m) == Cardinality({i \in DOMAIN history : history[i] = m})

\* A message is stored once, though files are deleted late or not at all and pollers overlap,
\* unless the cap has dropped it from the list or two pollers found it unseen at once
\* (docstring of netchat.py: deletion, with seen_cids behind it, keeps duplicates away).
StoredOnce == \A m \in Incoming : Occurrences(m) > 1 => m \in forgotten \cup raced

\* A message that was put is stored in the end, through failed reads and deletions, restarts
\* of the poller and crashes, unless a crash or an exception came between marking and storing it.
Delivered == \A m \in Incoming : (m \in posted) ~> (m \in ToSet(history) \cup dropped)

\* Of the installations that use the ID in a repository, one at most has entered it in the list
\* of that repository (comment in setup), though they claim it at the same time, fail half-way,
\* move to other repositories and come back: the sha decides.  The others have brought it along.
\* Nothing is said of a repository whose list could not be parsed once.
UsesEntered(u, r) == home[u] = r /\ u \in entered[r]
UniqueIds == \A r \in Repos \ wiped : \A u, v \in Users : UsesEntered(u, r) /\ UsesEntered(v, r) => u = v

\* Not true: an ID that is used in a repository is used by one installation there (comment in
\* setup).
IdsAreUnique == \A u, v \in Users : u # v /\ home[u] = home[v] => home[u] = NoRepo

\* Not true: the docstring without the exceptions.
NeverTwice == \A m \in Incoming : Occurrences(m) <= 1

\* Not true: no message is lost.
NeverDropped == dropped \subseteq ToSet(history)
=============================================================================
