----------------------------- MODULE MCSessions -----------------------------
(* Interchangeable requests for TaskSessions, and what Stores promises over  *)
(* small inputs, in assumptions that every run evaluates.                    *)
EXTENDS TaskSessions, Integers, Sequences, FiniteSets, TLC

\* Requests are interchangeable.
Pages == Permutations(Clients)

Seeds == <<[id |-> 1, name |-> "a", avatar |-> "smile"]>>
Me == [name |-> "me", avatar |-> "qq1"]
D == INSTANCE Stores WITH Day <- 10

-----------------------------------------------------------------------------
(* Schedules. *)

Now == 20..33
Items == [type : {"interval", "daily", "once"}, minutes : {0, 3, 7}, at : {0, 4, 9}, moment : {15, 25},
          enabled : BOOLEAN, created : {13, 20}, last : {0, 14}, next : {0, 16, 24}]
Repeats(item) == item.type # "once"

(* A repeated schedule runs next after now, no later than one interval or   *)
(* day, and an interval keeps its phase.                                    *)
NextIsSoon ==
    \A item \in Items, now \in Now : Repeats(item) =>
        LET next == D!compute_next(item, now)
            period == IF item.type = "daily" THEN 10 ELSE D!AtLeastOne(item.minutes)
        IN  /\ next > now /\ next <= now + period
            /\ item.type = "daily" => next % 10 = item.at
            /\ item.type = "interval" => (next - D!Base(item)) % period = 0
ASSUME NextIsSoon

(* However long the program was down, a schedule that is due is fired once, *)
(* not once for every time that was missed.                                 *)
NoBurst ==
    \A item \in Items, now \in Now :
        LET loaded == [i \in {1} |-> D!Loaded(item, now)]
            after == D!Fire(loaded, 1, now).items
        IN  1 \in D!Due(loaded, now) => 1 \notin D!Due(after, now)
ASSUME NoBurst

(* A schedule that is off is not due, one that was deleted is not brought   *)
(* back by a firing that had begun.                                         *)
OffStaysOff ==
    \A item \in Items, now \in Now :
        LET off == [i \in {1} |-> D!Toggled(item, FALSE, now)]
        IN  /\ 1 \notin D!Due(off, now + 10)
            /\ DOMAIN D!Fire(D!Deleted(off, 1), 1, now).items = {}
ASSUME OffStaysOff

(* Not true.  A schedule that runs once starts one task: it may be turned   *)
(* on again, and its moment is then in the past.                            *)
OnceIsOnce ==
    \A item \in Items, now \in Now : ~Repeats(item) =>
        LET ran == D!Fire([i \in {1} |-> item], 1, now).items[1]
        IN  1 \notin D!Due([i \in {1} |-> D!Toggled(ran, TRUE, now)], now)
(* Not true.  A schedule that is off has no next run: one that is run by    *)
(* hand, or turned off between the copy and the firing, gets one.           *)
OffHasNoNext ==
    \A item \in Items, now \in Now :
        D!Fire([i \in {1} |-> D!Toggled(item, FALSE, now)], 1, now).items[1].next = D!Never

-----------------------------------------------------------------------------
(* Documents. *)

Data == [name : {"", "x"}, avatar : {"", "img"}]
Friends == {<<>>, Seeds, <<[id |-> 2, name |-> "b", avatar |-> "hat"], [id |-> 3, name |-> "c", avatar |-> "hat"]>>}

(* A friend always has a name and an avatar, ids stay apart, an update      *)
(* changes one friend, and what is written is what the next start reads,    *)
(* as long as somebody is left.                                             *)
FriendsAreKept ==
    \A friends \in Friends, d \in Data, e \in Data, id \in {1, 2, 9} :
        LET more == D!AddFriend(friends, 9, d)
            changed == D!UpdateFriend(more, id, e)
            rest == D!Without(changed, id)
        IN  /\ \A i \in DOMAIN changed : changed[i].name # "" /\ changed[i].avatar # ""
            /\ \A i \in DOMAIN more : more[i].id # id => changed[i] = more[i]
            /\ Len(changed) = Len(more) /\ \A i \in DOMAIN rest : rest[i].id # id
            /\ D!Opened(D!File(more), Seeds) = more
            /\ \A i, j \in DOMAIN changed : changed[i].id = changed[j].id => i = j
ASSUME FriendsAreKept

(* The list of moments is in the order of time, and a start keeps it.       *)
MomentsInOrder ==
    \A friends \in Friends, d \in Data :
        LET seeded == D!Opened(D!Absent, D!SeedMoments(friends, 10))
            mine == D!Like(D!AddMine(seeded, 100, D!UpdateProfile(Me, d), 10), 100)
            shown == D!ListMoments(mine)
        IN  /\ Len(shown) = Len(mine) /\ shown[1].moment.mine /\ shown[1].moment.likes = 1
            /\ \A i \in 1..(Len(shown) - 1) : shown[i].moment.ts >= shown[i + 1].moment.ts
            /\ D!Opened(D!File(mine), <<>>) = mine
ASSUME MomentsInOrder

Projects == [name : {"p"}, path : {".", "dir"}, pinned : BOOLEAN, exists : BOOLEAN]
Lists == {<<>>} \cup {<<p>> : p \in Projects} \cup {<<p, [q EXCEPT !.name = "q"]>> : p, q \in Projects}
Names == {"p", "q", "here", "nobody"}

(* There is always the current directory, what exists comes first, and a    *)
(* CLAUDE.md that was saved for a project is the one that is read for it.   *)
ProjectsResolve ==
    \A configured \in Lists, name \in Names :
        LET projects == D!LoadProjects(configured)
            empty == [f \in {"."} |-> "base"]
            saved == D!SaveMd(empty, projects, name, "text")
        IN  /\ \E i \in DOMAIN projects : projects[i].path = "."
            /\ \A i, j \in DOMAIN projects : projects[i].exists /\ ~projects[j].exists => i < j
            /\ saved # empty => D!ReadMd(saved, projects, name) = "text"
            /\ D!Resolve(projects, name, TRUE) # "error"
ASSUME ProjectsResolve

(* A skill that was created can be read as it was written, saving it keeps  *)
(* its name and the other skills, and a name is not taken twice.            *)
Slug == [n \in {"Check It", "check-it", "first", "second"} |-> IF n \in {"first", "second"} THEN "skill" ELSE "check-it"]
Line(key, value) == [key |-> key, value |-> value]
OneLine == {<<Line("", "short")>>, <<Line("", "other")>>}
Bodies == {<<>>, <<Line("", "text")>>, <<D!Mark, Line("name", "quoted")>>}
Reads(skills, dir, name, description, body) ==
    LET read == D!Parse(skills[dir])
    IN  /\ read.metadata["name"] = name /\ read.body = body
        /\ read.metadata["description"] = description[1].value
SkillsAreKept ==
    \A name, more \in DOMAIN Slug, d, e \in OneLine, b, c \in Bodies :
        LET one == D!CreateSkill(<<>>, Slug, name, d, b)
            two == D!CreateSkill(one, Slug, more, e, c)
            saved == D!SaveSkill(one, Slug[name], e, c)
        IN  /\ Reads(one, Slug[name], Slug[name], d, b)
            /\ Reads(saved, Slug[name], Slug[name], e, c)
            /\ (two = one) = (Slug[more] = Slug[name])
            /\ two # one => two[Slug[name]] = one[Slug[name]] /\ D!DeleteSkill(two, Slug[more]) = one
            /\ D!SaveSkill(one, "none", d, b) = one
ASSUME SkillsAreKept

(* Whatever line an append left half-written, the numbers that can be read  *)
(* again are those of events that were appended, in their order.            *)
Files == [lines : {<<>>, <<1, 2>>}, torn : {FALSE}]
ReadableIsAppended ==
    \A file \in Files, last \in 0..2 :
        LET after == D!AppendEvent(D!AppendEvent(D!AppendDies(file), 4), 5)
        IN  /\ D!ReplayAfter(after, last) = D!ReplayAfter(file, last) \o <<5>>
            /\ D!MaxSeq(after) = 5
ASSUME ReadableIsAppended

(* Not true.  The friends are seeded only the first time (stores.py:279):   *)
(* who has removed all of them has the default ones after a restart.        *)
RemovedFriendsStayAway ==
    \A friends \in Friends : D!Opened(D!File(friends), Seeds) = friends
(* Not true.  An event that was appended whole can be read again: one that  *)
(* follows a half-written line is part of that line.                        *)
AppendedIsReadable ==
    \A file \in Files : D!ReplayAfter(D!AppendEvent(D!AppendDies(file), 4), 3) = <<4>>
(* Not true.  A description of several lines is read as it was written, and *)
(* saving keeps the name: the later lines are taken for metadata.           *)
LinesAreKept ==
    \A second \in {Line("", "more"), Line("name", "other")}, b \in Bodies :
        LET one == D!CreateSkill(<<>>, Slug, "first", <<Line("", "short"), second>>, b)
        IN  D!Parse(D!SaveSkill(one, "skill", <<Line("", "short")>>, b)["skill"]).metadata["name"] = "skill"
(* Not true.  Two skills with different names can be created: a name without *)
(* Latin letters or digits has the directory "skill" (stores.py:430).       *)
NamesAreKept ==
    \A name, more \in DOMAIN Slug : name # more =>
        LET one == D!CreateSkill(<<>>, Slug, name, <<Line("", "short")>>, <<>>)
        IN  D!CreateSkill(one, Slug, more, <<Line("", "short")>>, <<>>) # one
(* Not true.  A project that does not exist has no CLAUDE.md: the one of    *)
(* the current directory is shown for it.                                   *)
MissingProjectIsEmpty ==
    \A configured \in Lists, name \in Names :
        LET projects == D!LoadProjects(configured)
        IN  D!Resolve(projects, name, FALSE) = "error" => D!ReadMd([f \in {"."} |-> "base"], projects, name) = ""
=============================================================================
