------------------------------- MODULE Stores -------------------------------
(* The documents of QQQQC (backend/stores.py): each is a value in memory     *)
(* that every operation writes to its file at once, in one atomic            *)
(* replacement; a start of the program reads it back.                        *)
EXTENDS Naturals, SequencesExt, FiniteSetsExt

CONSTANTS Seeds,    \* the friends of DEFAULT_CONFIG
          Me,       \* the default profile
          Day       \* the length of a day, in the minutes of the schedules

(* A file: whether it is there and parses, and its value.                    *)
File(value) == [state |-> "whole", value |-> value]
Absent == [state |-> "absent", value |-> <<>>]
ReadJson(file, default) == IF file.state = "whole" THEN file.value ELSE default

\* A store that is seeded writes the seeds it starts with; one that is not reads only.
Opened(file, seeds) ==
    LET loaded == ReadJson(file, <<>>)
    IN  IF loaded # <<>> THEN loaded ELSE seeds

-----------------------------------------------------------------------------
(* FriendStore, MomentStore and ProfileStore: sequences of records with ids. *)

Or(value, default) == IF value = "" THEN default ELSE value

AddFriend(friends, id, data) ==
    Append(friends, [id |-> id, name |-> Or(data.name, "new"), avatar |-> Or(data.avatar, "smile")])
UpdateFriend(friends, id, data) ==
    [i \in DOMAIN friends |->
        IF i = Min({j \in DOMAIN friends : friends[j].id = id} \cup {Len(friends) + 1})
        THEN [friends[i] EXCEPT !.name = Or(data.name, Or(@, "new")), !.avatar = Or(data.avatar, Or(@, "smile"))]
        ELSE friends[i]]
Without(items, id) == SelectSeq(items, LAMBDA item : item.id # id)

UpdateProfile(profile, data) ==
    [name |-> Or(data.name, Or(profile.name, Me.name)),
     avatar |-> Or(data.avatar, Or(profile.avatar, Me.avatar))]

\* The first moments are the friends', an hour apart and older than now.
SeedMoments(friends, now) ==
    [i \in DOMAIN friends |->
        [id |-> i, author |-> friends[i].name, ts |-> now - i, likes |-> ((i - 1) * 3) % 7, mine |-> FALSE]]
AddMine(moments, id, profile, now) ==
    Append(moments, [id |-> id, author |-> profile.name, ts |-> now, likes |-> 0, mine |-> TRUE])
Like(moments, id) ==
    [i \in DOMAIN moments |-> IF moments[i].id = id THEN [moments[i] EXCEPT !.likes = @ + 1] ELSE moments[i]]
\* list: the newest first, those of the same time in the order they were added.
ListMoments(moments) ==
    SortSeq([i \in DOMAIN moments |-> [moment |-> moments[i], place |-> i]],
            LAMBDA x, y : x.moment.ts > y.moment.ts \/ (x.moment.ts = y.moment.ts /\ x.place < y.place))

-----------------------------------------------------------------------------
(* ConfigStore: the projects of the user's file, or the default ones.  A     *)
(* project has a name, a path, and whether it is pinned and exists.          *)

Here == [name |-> "here", path |-> ".", pinned |-> FALSE, exists |-> TRUE]
Rank(project) == (IF project.exists THEN 0 ELSE 2) + (IF project.pinned THEN 0 ELSE 1)
LoadProjects(configured) ==
    LET all == IF \E p \in ToSet(configured) : p.path = "." THEN configured ELSE Append(configured, Here)
        Of(rank) == SelectSeq(all, LAMBDA p : Rank(p) = rank)
    IN  Of(0) \o Of(1) \o Of(2) \o Of(3)

\* The path of the first project of the name; "error" is FileNotFoundError.
Resolve(projects, name, fallback) ==
    LET named == SelectSeq(projects, LAMBDA p : p.name = name)
    IN  IF named # <<>> /\ Head(named).exists THEN Head(named).path
        ELSE IF fallback THEN "." ELSE "error"

(* ClaudeMdStore: files is a function from paths to texts.                   *)
ReadMd(files, projects, name) ==
    LET path == Resolve(projects, name, TRUE)
    IN  IF path \in DOMAIN files THEN files[path] ELSE ""
SaveMd(files, projects, name, content) ==
    LET path == Resolve(projects, name, FALSE)
    IN  IF path = "error" THEN files
        ELSE [p \in DOMAIN files \cup {path} |-> IF p = path THEN content ELSE files[p]]

-----------------------------------------------------------------------------
(* SkillStore: skills is a function from the directories that hold a         *)
(* SKILL.md to its lines after the first ---.  A line has the key before its *)
(* colon, "" without one; the line Mark ends the metadata.                   *)

Mark == [key |-> "---", value |-> ""]
\* The description may have several lines, the first of which follows its key.
Render(name, description, body) ==
    <<[key |-> "name", value |-> name], [key |-> "description", value |-> description[1].value]>>
        \o Tail(description) \o <<Mark>> \o body
Parse(lines) ==
    LET end == Min({i \in DOMAIN lines : lines[i] = Mark})
        head == SubSeq(lines, 1, end - 1)
        keys == {head[i].key : i \in DOMAIN head} \ {""}
    IN  [metadata |-> [k \in keys |-> head[Max({i \in DOMAIN head : head[i].key = k})].value],
         body |-> SubSeq(lines, end + 1, Len(lines))]

\* Slug gives the directory of a name; what raises leaves the skills as they are.
CreateSkill(skills, Slug, name, description, body) ==
    IF Slug[name] \in DOMAIN skills THEN skills
    ELSE [s \in DOMAIN skills \cup {Slug[name]} |->
             IF s = Slug[name] THEN Render(s, description, body) ELSE skills[s]]
SaveSkill(skills, dir, description, body) ==
    IF dir \notin DOMAIN skills THEN skills
    ELSE [skills EXCEPT ![dir] = Render(Parse(@).metadata["name"], description, body)]
DeleteSkill(skills, dir) == [s \in DOMAIN skills \ {dir} |-> skills[s]]

-----------------------------------------------------------------------------
(* EventStore: the lines of a task's file.  A line is the number of its      *)
(* event, or 0 when it does not parse; torn when it has no end yet.          *)
AppendEvent(file, seq) ==
    IF file.torn THEN [lines |-> [file.lines EXCEPT ![Len(file.lines)] = 0], torn |-> FALSE]
    ELSE [lines |-> Append(file.lines, seq), torn |-> FALSE]
AppendDies(file) == [lines |-> Append(file.lines, 0), torn |-> TRUE]
ReplayAfter(file, last) == SelectSeq(file.lines, LAMBDA seq : seq > last)
MaxSeq(file) == Max(ToSet(file.lines) \cup {0})

-----------------------------------------------------------------------------
(* The schedules of QQQQC (backend/scheduler.py): when one runs next, the    *)
(* operations on it, and the loop that fires those that are due from copies  *)
(* it made before.  Times in minutes, 0 is none; Day is the length of a day. *)
Never == 0
\* type "interval" uses minutes, "daily" at (a time of day), "once" moment.
Item == [type : {"interval", "daily", "once"}, minutes : Nat, at : Nat, moment : Nat,
         enabled : BOOLEAN, created : Nat, last : Nat, next : Nat]

AtLeastOne(minutes) == IF minutes = 0 THEN 1 ELSE minutes
Base(item) == IF item.last = Never THEN item.created ELSE item.last

\* Whole intervals are skipped, so that a pause is not made up for.
NextInterval(item, now) ==
    LET minutes == AtLeastOne(item.minutes)
        base == Base(item)
    IN  IF base + minutes > now THEN base + minutes
        ELSE base + ((now - base) \div minutes + 1) * minutes

NextDaily(item, now) ==
    LET today == (now \div Day) * Day + item.at
    IN  IF today <= now THEN today + Day ELSE today

compute_next(item, now) ==
    CASE item.type = "interval" -> NextInterval(item, now)
      [] item.type = "daily" -> NextDaily(item, now)
      [] item.type = "once" -> item.moment

-----------------------------------------------------------------------------
(* items: a function from the schedules there are.                           *)

Created(item, now) ==
    LET new == [item EXCEPT !.enabled = TRUE, !.created = now, !.last = Never]
    IN  [new EXCEPT !.next = compute_next(new, now)]

Toggled(item, enabled, now) ==
    [item EXCEPT !.enabled = enabled, !.next = IF enabled THEN compute_next(item, now) ELSE Never]

\* After a restart.
Loaded(item, now) ==
    IF item.enabled /\ item.next = Never THEN [item EXCEPT !.next = compute_next(item, now)] ELSE item

Due(items, now) == {i \in DOMAIN items : items[i].enabled /\ items[i].next # Never /\ items[i].next <= now}

Ran(item, now) ==
    LET ran == [item EXCEPT !.last = now]
    IN  IF item.type = "once" THEN [ran EXCEPT !.enabled = FALSE, !.next = Never]
        ELSE [ran EXCEPT !.next = compute_next(ran, now)]

\* _fire: the task starts whatever has become of the schedule since it was copied.
Fire(items, i, now) ==
    [starts |-> i, items |-> [j \in DOMAIN items |-> IF j = i THEN Ran(items[j], now) ELSE items[j]]]

Deleted(items, i) == [j \in DOMAIN items \ {i} |-> items[j]]
=============================================================================
