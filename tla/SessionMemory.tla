--------------------------- MODULE SessionMemory ---------------------------
(* The index that ccmem keeps of Claude Code's transcripts (src/ccmem).     *)
(* The sessions append to their transcripts at any time; index runs (the    *)
(* Stop hook, `index`, `index --force`) are processes of their own that     *)
(* share one SQLite file, may overlap and may die between two commits;      *)
(* `prune` forgets a session or the oldest turns.                           *)
(*                                                                          *)
(* A transcript is a sequence of kinds of lines, the last of them perhaps   *)
(* half-written: "user" and "asst" are texts long enough to be indexed      *)
(* alone, "short" is a prompt that is not.  A line is known by its          *)
(* position, a chunk by the lines it shows; records without a text of the   *)
(* dialogue (tool results, injected tags, what ccmem itself injected), over *)
(* which parsing passes, are left out.  Copies of one chunk made by         *)
(* overlapping runs are one element of the set: search shows a content      *)
(* once.  SQLite's FTS5 is taken to support deletion (3.43 and later).      *)
EXTENDS Naturals, Sequences, FiniteSets, FiniteSetsExt

CONSTANTS Sessions,     \* transcripts, named by their session
          Runs,         \* slots for index runs under way at once
          MaxLines,     \* bound: lines of each transcript
          MaxWrites,    \* bound: lines written to all transcripts
          MaxRuns,      \* bound: index runs started
          MaxUpsets     \* bound: half-written lines, rewrites, rebuilds, prunes, deaths

VARIABLES transcript,   \* [Sessions -> lines, whether the last is half-written, generation]
          files,        \* the table of files: what the index has of a transcript
          chunks,       \* the table of chunks, by session
          excluded,     \* the sessions pruned by name
          current,      \* whether meta holds the present schema version
          run,          \* the index runs
          used,         \* how much of each bound is used up
          excused,      \* history: lines the index knowingly or silently passed over
          shifted       \* history: sessions whose numbering has left the transcript's

vars == <<transcript, files, chunks, excluded, current, run, used, excused, shifted>>

Kinds == {"user", "short", "asst"}
NoRow == [gen |-> 0, size |-> 0, lines |-> 0, turns |-> 0]
Idle == [step |-> "idle", full |-> FALSE, todo |-> {}, at |-> {}, row |-> NoRow,
         stale |-> FALSE, late |-> {}]

---------------------------------------------------------------------------
(* Parsing *)

Size(t) == 2 * Len(t.lines) - (IF t.half THEN 1 ELSE 0)
Whole(t) == {p \in 1..Len(t.lines) : t.half => p < Len(t.lines)}

(* The turns from line `start` on: a user line and the assistant lines that *)
(* follow it.  Assistant lines that come first are a turn without a user.   *)
ParseTurns(t, start, turn) ==
    LET P == {p \in Whole(t) : p > start}
        open == {p \in P : t.lines[p] # "asst" \/ \A q \in P : q >= p}
    IN  {[idx |-> turn + Cardinality({q \in open : q < p}),
          user |-> IF t.lines[p] = "asst" THEN 0 ELSE p,
          texts |-> {q \in P : /\ q >= p
                               /\ t.lines[q] = "asst"
                               /\ \A o \in open : o > p => q < o}] : p \in open}

TooShort(t, turn) == turn.texts = {} /\ turn.user # 0 /\ t.lines[turn.user] = "short"

(* One chunk for every part of the answer, or one for the prompt alone. *)
ChunksOf(t, turn, offset) ==
    IF TooShort(t, turn) THEN {}
    ELSE {[turn |-> turn.idx, user |-> turn.user, text |-> x, gen |-> t.gen,
           part |-> offset + Cardinality({q \in turn.texts : q < x})] :
             x \in IF turn.texts = {} THEN {0} ELSE turn.texts}

NextTurn(turns, turn, joined) ==
    turn + Cardinality(turns) - (IF joined THEN 1 ELSE 0)

---------------------------------------------------------------------------
(* An index of nothing: `index` was run when there was no transcript yet.  *)
Init == /\ transcript = [s \in Sessions |-> [lines |-> <<>>, half |-> FALSE, gen |-> 1]]
        /\ files = [s \in Sessions |-> NoRow]
        /\ chunks = [s \in Sessions |-> {}]
        /\ excluded = {}
        /\ current = TRUE
        /\ run = [r \in Runs |-> Idle]
        /\ used = [writes |-> 0, runs |-> 0, upsets |-> 0]
        /\ excused = [s \in Sessions |-> {}]
        /\ shifted = {}

Spend(what) == used' = [used EXCEPT ![what] = @ + 1]
Upset == used.upsets < MaxUpsets /\ Spend("upsets")

(* Claude Code appends a line, perhaps seen when only half of it is there. *)
Append1(s) ==
    /\ used.writes < MaxWrites
    /\ ~transcript[s].half /\ Len(transcript[s].lines) < MaxLines[s]
    /\ \E kind \in Kinds, half \in {h \in BOOLEAN : h => used.upsets < MaxUpsets} :
          /\ transcript' = [transcript EXCEPT ![s].lines = Append(@, kind), ![s].half = half]
          /\ used' = [used EXCEPT !.writes = @ + 1, !.upsets = @ + (IF half THEN 1 ELSE 0)]
    /\ UNCHANGED <<files, chunks, excluded, current, run, excused, shifted>>

CompleteLine(s) ==
    /\ transcript[s].half
    /\ transcript' = [transcript EXCEPT ![s].half = FALSE]
    /\ UNCHANGED <<files, chunks, excluded, current, run, used, excused, shifted>>

(* The transcript is replaced by a smaller one. *)
Rewrite(s) ==
    /\ Upset
    /\ Len(transcript[s].lines) > 1
    /\ \E kind \in Kinds :
          transcript' = [transcript EXCEPT ![s] =
              [lines |-> <<kind>>, half |-> FALSE, gen |-> @.gen + 1]]
    /\ excused' = [excused EXCEPT ![s] = {}]
    /\ UNCHANGED <<files, chunks, excluded, current, run, shifted>>

---------------------------------------------------------------------------
(* Index runs *)

Exists(s) == transcript[s].lines # <<>>
Become(r, state) == run' = [run EXCEPT ![r] = state]
(* A hook's run ends with its last file; `index` has its version to set.    *)
Onward(state) == IF state.todo = {} /\ ~state.full THEN Idle ELSE [state EXCEPT !.step = "look"]
(* Mutant: index_all lists the excluded sessions too. *)
ListedAll == {s \in Sessions : Exists(s)}
Listed == {s \in Sessions \ excluded : Exists(s)}
Free(r) == run[r].step = "idle" /\ used.runs < MaxRuns

(* Stop / SessionEnd hook: its own transcript, or all when that one is not  *)
(* to be indexed; nothing at all under another schema version.              *)
StartHook(r, s) ==
    /\ Free(r) /\ current /\ Exists(s) /\ Spend("runs")
    /\ Become(r, Onward([Idle EXCEPT !.todo = IF s \in excluded THEN Listed ELSE {s}]))
    /\ UNCHANGED <<transcript, files, chunks, excluded, current, excused, shifted>>

StartIndex(r) ==
    /\ Free(r) /\ current /\ Spend("runs")
    /\ Become(r, Onward([Idle EXCEPT !.todo = Listed, !.full = TRUE]))
    /\ UNCHANGED <<transcript, files, chunks, excluded, current, excused, shifted>>

(* `index --force`, or `index` over another schema version: drop_all.  Runs *)
(* under way keep what they read before.                                    *)
StartRebuild(r) ==
    /\ Free(r) /\ used.upsets < MaxUpsets
    /\ used' = [used EXCEPT !.runs = @ + 1, !.upsets = @ + 1]
    /\ run' = [q \in Runs |-> IF q = r THEN Onward([Idle EXCEPT !.todo = Listed, !.full = TRUE])
                              ELSE [run[q] EXCEPT !.stale = (run[q].step = "write")]]
    /\ files' = [s \in Sessions |-> NoRow]
    /\ chunks' = [s \in Sessions |-> {}]
    /\ current' = FALSE
    /\ excused' = [s \in Sessions |-> {}]
    /\ shifted' = {}
    /\ UNCHANGED <<transcript, excluded>>

(* Mutant: the rows of a file that became smaller are kept as its start. *)
StartOfAny(row, t) == row
(* Mutant: the lines of the row are passed over, but turns count from zero. *)
StartOfLines(row, t) == IF Size(t) >= row.size THEN [row EXCEPT !.turns = 0] ELSE NoRow
(* Where to go on: after the lines of the row while the file has grown, at  *)
(* the beginning when it has become smaller.                                *)
StartOf(row, t) == IF Size(t) >= row.size THEN row ELSE NoRow

(* index_file up to its first commit: an unchanged file is passed over, the *)
(* chunks of one that became smaller are deleted, those included that other *)
(* runs, with a row at hand, count on.                                      *)
Look(r, s) ==
    LET row == files[s]
        t == transcript[s]
        from == StartOf(row, t)
        smaller == Size(t) < row.size
    IN  /\ run[r].step = "look" /\ s \in run[r].todo
        /\ IF row.gen = t.gen /\ row.size = Size(t)
           THEN /\ Become(r, Onward([run[r] EXCEPT !.todo = @ \ {s}]))
                /\ UNCHANGED <<chunks, shifted>>
           ELSE /\ run' = [q \in Runs |->
                    IF q # r THEN [run[q] EXCEPT !.stale = @ \/ (smaller /\ run[q].at = {s})]
                    ELSE [run[r] EXCEPT !.todo = @ \ {s}, !.step = "write", !.at = {s},
                            !.row = [from EXCEPT !.gen = t.gen, !.size = Size(t)],
                            !.stale = row.gen \notin {0, t.gen} /\ ~smaller]]
                /\ chunks' = IF smaller THEN [chunks EXCEPT ![s] = {}] ELSE chunks
                /\ shifted' = shifted \ (IF smaller THEN {s} ELSE {})
        /\ UNCHANGED <<transcript, files, excluded, current, used, excused>>

(* What a reading adds after `row`, to the chunks `cs` of the session: an    *)
(* assistant text that comes first is joined to the turn before.            *)
TurnsRead(t, row) == ParseTurns(t, row.lines, row.turns)
FirstTurn(turns) == CHOOSE x \in turns : \A y \in turns : x.idx <= y.idx
Ownerless(t, row) ==
    row.turns > 0 /\ TurnsRead(t, row) # {} /\ FirstTurn(TurnsRead(t, row)).user = 0

TurnBefore(row, cs) == {c \in cs : c.turn = row.turns - 1}
LastPart(cs) == CHOOSE c \in cs : \A d \in cs : c.part >= d.part
Joins(t, row, cs) == Ownerless(t, row) /\ TurnBefore(row, cs) # {}

Placed(t, row, cs) ==
    LET turns == TurnsRead(t, row)
    IN  IF ~Joins(t, row, cs) THEN turns
        ELSE {[idx |-> x.idx - 1, texts |-> x.texts,
               user |-> IF x = FirstTurn(turns) THEN LastPart(TurnBefore(row, cs)).user
                        ELSE x.user] : x \in turns}
Offset(t, row, cs, x) ==
    IF Joins(t, row, cs) /\ x.idx = row.turns - 1 THEN LastPart(TurnBefore(row, cs)).part + 1 ELSE 0
Added(t, row, cs) == UNION {ChunksOf(t, x, Offset(t, row, cs, x)) : x \in Placed(t, row, cs)}

HalfRead(t, row) == {p \in 1..Len(t.lines) : p > row.lines /\ p \notin Whole(t)}
Skipped(t, row, cs) ==
    HalfRead(t, row) \cup {x.user : x \in {y \in Placed(t, row, cs) : TooShort(t, y)}}

(* The second commit: these chunks, and the row with the stat of Look and   *)
(* the lines and turns of this reading.                                     *)
Write(r, s) ==
    LET row == run[r].row
        t == transcript[s]
        cs == chunks[s]
        joined == Joins(t, row, cs)
        astray == row.lines > 0 /\ (run[r].stale \/ row.gen # t.gen)
    IN  /\ run[r].step = "write" /\ run[r].at = {s}
        /\ chunks' = [chunks EXCEPT ![s] = @ \cup Added(t, row, cs)]
        /\ files' = [files EXCEPT ![s] = [row EXCEPT !.lines = Len(t.lines),
                        !.turns = NextTurn(TurnsRead(t, row), row.turns, joined)]]
        /\ Become(r, Onward([run[r] EXCEPT !.at = {}, !.row = NoRow, !.stale = FALSE]))
        /\ excused' = [excused EXCEPT ![s] =
              Skipped(t, row, cs) \cup (IF row.lines = 0 THEN {} ELSE @)
                                 \cup (IF astray THEN 1..row.lines ELSE {})]
        /\ shifted' = IF HalfRead(t, row) # {} \/ (Ownerless(t, row) /\ ~joined) \/ astray
                      THEN shifted \cup {s} ELSE shifted
        /\ UNCHANGED <<transcript, excluded, current, used>>

Finish(r) ==
    /\ run[r].step = "look" /\ run[r].todo = {}
    /\ current' = (current \/ run[r].full)
    /\ Become(r, Idle)
    /\ UNCHANGED <<transcript, files, chunks, excluded, used, excused, shifted>>

(* The process is killed, or an error ends it (a hook swallows them all). *)
Die(r) ==
    /\ run[r].step # "idle" /\ Upset
    /\ Become(r, Idle)
    /\ UNCHANGED <<transcript, files, chunks, excluded, current, excused, shifted>>

---------------------------------------------------------------------------
(* prune *)

LinesOf(cs) == {c.user : c \in cs} \cup {c.text : c \in cs}

(* Rows of files without chunks are deleted, whichever session was pruned. *)
Pruned(left) ==
    /\ chunks' = left
    /\ files' = [q \in Sessions |-> IF left[q] = {} THEN NoRow ELSE files[q]]

PruneSession(s) ==
    /\ Upset
    /\ chunks[s] # {}
    /\ excluded' = excluded \cup {s}
    /\ Pruned([chunks EXCEPT ![s] = {}])
    /\ run' = [r \in Runs |->
          [run[r] EXCEPT !.late = @ \cup ({s} \cap (run[r].todo \cup run[r].at))]]
    /\ excused' = [excused EXCEPT ![s] = @ \cup LinesOf(chunks[s])]
    /\ UNCHANGED <<transcript, current, shifted>>

(* --older-than: the oldest turns of a session. *)
PruneOlder(s) ==
    /\ Upset
    /\ \E c \in chunks[s] :
         LET old == {d \in chunks[s] : d.turn <= c.turn}
         IN  /\ Pruned([chunks EXCEPT ![s] = @ \ old])
             /\ excused' = [excused EXCEPT ![s] = @ \cup LinesOf(old)]
    /\ UNCHANGED <<transcript, excluded, current, run, shifted>>

Next == \/ \E s \in Sessions :
              \/ Append1(s) \/ CompleteLine(s) \/ Rewrite(s)
              \/ PruneSession(s) \/ PruneOlder(s)
        \/ \E r \in Runs :
              \/ StartIndex(r) \/ StartRebuild(r) \/ Finish(r) \/ Die(r)
              \/ \E s \in Sessions : StartHook(r, s) \/ Look(r, s) \/ Write(r, s)

Spec == Init /\ [][Next]_vars

---------------------------------------------------------------------------
(* cmd_show: the turns are parsed anew from the transcript, two on either   *)
(* side of the one asked for.                                               *)
Show(s, around) ==
    {x \in ParseTurns(transcript[s], 0, 0) : x.idx + 2 >= around /\ x.idx <= around + 2}

(* The line p of session s is in some chunk. *)
Found(s, p) == \E c \in chunks[s] : c.gen = transcript[s].gen /\ p \in {c.user, c.text}

(* A line the index counts as read can be found, unless it was half-written *)
(* when read, too short to be indexed, pruned, or the transcript or the     *)
(* index was replaced while a run held an older row (index_file).           *)
NothingForgotten ==
    \A s \in Sessions :
        files[s].gen = transcript[s].gen =>
            \A p \in (1..files[s].lines) \cap Whole(transcript[s]) :
                Found(s, p) \/ p \in excused[s]

(* The turn of a chunk is the turn under which `show` finds its lines in    *)
(* the transcript (parse_turns: "the numbers agree with the index"), unless *)
(* the session is known to have shifted.                                    *)
TurnsAgree ==
    \A s \in Sessions \ shifted : \A c \in chunks[s] :
        c.gen = transcript[s].gen =>
            \E x \in Show(s, c.turn) :
                x.idx = c.turn /\ {c.user, c.text} \subseteq {x.user, 0} \cup x.texts

(* A session pruned by name never comes back, but for a run that had chosen *)
(* its files before (cmd_prune, "a later index will not index it again").   *)
ForgottenStays ==
    [][\A s \in excluded : chunks'[s] \subseteq chunks[s]
          \/ \E r \in Runs : s \in run[r].late]_vars

(* Not true: see the README. *)
(* The last line that the index counts as read can be found unless it is a  *)
(* short prompt: false, one read while half-written is counted and lost.    *)
LastLineIsFound ==
    \A s \in Sessions :
        LET p == files[s].lines
        IN  files[s].gen = transcript[s].gen /\ p \in Whole(transcript[s]) =>
                Found(s, p) \/ transcript[s].lines[p] = "short"

(* The turns of the index are those of `show` while nothing was pruned, no  *)
(* line half-read, nothing rewritten: false, a short prompt read before its *)
(* answer leaves no chunk, and the answer opens a turn of its own.          *)
ShowFindsTurns ==
    used.upsets = 0 =>
    \A s \in Sessions : \A c \in chunks[s] :
        \E x \in Show(s, c.turn) : x.idx = c.turn /\ c.user \in {0, x.user}

(* A session pruned by name is never indexed again: false for a hook that   *)
(* checked before.                                                          *)
PrunedForGood == [][\A s \in excluded : chunks'[s] \subseteq chunks[s]]_vars
=============================================================================
