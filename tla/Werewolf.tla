------------------------------- MODULE Werewolf -------------------------------
(***************************************************************************)
(* One game of wolf-game/web/game.js, from the first night to the result,  *)
(* and what becomes of it when the page starts another game meanwhile.     *)
(* game.js is one thread of asynchronous functions: a step of the model    *)
(* is what runs between two waits (for the animation, a language model or  *)
(* a voice), and the user may pause or restart at every one of them.       *)
(*                                                                         *)
(* What a player decides (by model or by rule) is any choice the calling   *)
(* code accepts.  Suspicion, claims, speeches, the checks of the seer and  *)
(* the memory files steer those choices only and are left out.  Seats are  *)
(* interchangeable, so the deal is a constant.                             *)
(***************************************************************************)
EXTENDS Naturals, FiniteSets, Sequences, SequencesExt

CONSTANTS Players, Role, NoOne, MaxDay
RoleNames == {"wolf", "seer", "witch", "hunter", "guard", "villager"}
Gods == {"seer", "witch", "hunter", "guard"}

ASSUME DealAssumption ==
    /\ IsFiniteSet(Players) /\ NoOne \notin Players /\ MaxDay \in Nat \ {0}
    /\ Role \in [Players -> RoleNames]
    /\ \A r \in Gods : Cardinality({p \in Players : Role[p] = r}) <= 1

VARIABLES
    pc,          \* where run() stands
    day, alive,
    lastGuarded, potions,                \* of the guard and of the witch
    kill, saved, poisoned, guarded,      \* tonight's choices
    history,                             \* the deaths of this day, with their causes
    sheriffIdx, isSheriff,               \* the badge in the game and in the agents
    exploded, exiled, guns,              \* guns: the hunters that are yet to shoot
    winner, running, paused,
    current,     \* this game is currentGame
    overlay      \* the page shows the result of this game

night == <<kill, saved, poisoned, guarded>>
badge == <<sheriffIdx, isSheriff>>
page == <<paused, current, overlay>>
vars == <<pc, day, alive, lastGuarded, potions, night, history,
          badge, exploded, exiled, guns, winner, running, page>>

-----------------------------------------------------------------------------
Of(role) == {p \in alive : Role[p] = role}

\* Ballots in half votes, of which the sheriff has three: a voter names a
\* candidate or abstains (NoOne).
Tally(ballot, sheriffs, c) ==
    MapThenSumSet(LAMBDA v : IF v \in sheriffs THEN 3 ELSE 2, {v \in DOMAIN ballot : ballot[v] = c})
FindVoteWinners(ballot, sheriffs, candidates) ==
    LET tally == [c \in candidates |-> Tally(ballot, sheriffs, c)]
    IN {c \in candidates : tally[c] > 0 /\ \A d \in candidates : tally[d] <= tally[c]}

\* The winners some ballot can have.  A tie never rests on the sheriff, whose
\* one and a half votes no whole number of others equals.
WinnerSets(voters, sheriffs, candidates) ==
    {w \in SUBSET candidates :
        \/ Cardinality(w) <= Cardinality(voters \ sheriffs)
        \/ Cardinality(w) = 1 /\ voters # {}}

\* Who leaves a vote with a run-off that the tied candidates do not vote in.
Voted(voters, candidates, sheriffs, electorate) ==
    UNION {CASE w = {} -> {NoOne}
             [] Cardinality(w) = 1 -> w
             [] OTHER -> LET others == electorate \ w IN
                  {NoOne} \cup UNION {v \in WinnerSets(others, sheriffs, w) : Cardinality(v) = 1} :
           w \in WinnerSets(voters, sheriffs, candidates)}

Verdict(living) ==
    CASE \A p \in living : Role[p] # "wolf" -> "good"
      [] \/ \A p \in living : Role[p] \notin Gods
         \/ \A p \in living : Role[p] # "villager" -> "wolf"
      [] OTHER -> "none"

\* Mutant: a pause stops the game even when it has been replaced.
UnblockedIfRunning == ~paused

\* wait() returns at once for a game that is not current or not running.
IsCurrent == current /\ running
Unblocked == ~(IsCurrent /\ paused)
Goto(from, to) == pc = from /\ pc' = to /\ Unblocked

Init ==
    /\ pc = "loop" /\ day = 0 /\ alive = Players
    /\ lastGuarded = NoOne /\ potions = {"save", "poison"}
    /\ kill = NoOne /\ saved = FALSE /\ poisoned = NoOne /\ guarded = NoOne
    /\ history = {}
    /\ sheriffIdx = NoOne /\ isSheriff = {}
    /\ exploded = FALSE /\ exiled = NoOne /\ guns = <<>>
    /\ winner = "none" /\ running = TRUE
    /\ paused = FALSE /\ current = TRUE /\ overlay = FALSE

-----------------------------------------------------------------------------
\* Deaths and the badge.
SetSheriff(p) == sheriffIdx' = p /\ isSheriff' = (isSheriff \ {sheriffIdx}) \cup {p}

\* The leaving sheriff names another living player, or tears the badge up.
Heirs(p, living) == living \ {p}
PassBadge(p, living) ==
    IF p \notin isSheriff THEN UNCHANGED badge
    ELSE LET idx == IF sheriffIdx = p THEN NoOne ELSE sheriffIdx IN
         \/ sheriffIdx' = idx /\ isSheriff' = isSheriff \ {p}
         \/ \E heir \in Heirs(p, living) :
               sheriffIdx' = heir /\ isSheriff' = (isSheriff \ {p, idx}) \cup {heir}

\* Mutant: the badge of a sheriff that is shot stays where it was.
KillKeepsBadge(p, cause) ==
    IF p \notin alive THEN UNCHANGED <<alive, history, badge>>
    ELSE /\ alive' = alive \ {p}
         /\ history' = history \cup {[who |-> p, cause |-> cause]}
         /\ IF cause = "explode" THEN PassBadge(p, alive') ELSE UNCHANGED badge

Kill(p, cause) ==
    IF p \notin alive THEN UNCHANGED <<alive, history, badge>>
    ELSE /\ alive' = alive \ {p}
         /\ history' = history \cup {[who |-> p, cause |-> cause]}
         /\ IF cause \in {"shot", "explode"} THEN PassBadge(p, alive') ELSE UNCHANGED badge

\* The shot of the first waiting hunter; one that is hit shoots next.
HunterShoot ==
    /\ pc \in {"shots", "lastshot"} /\ guns # <<>> /\ Unblocked
    /\ IF alive \ {Head(guns)} = {} THEN guns' = Tail(guns) /\ UNCHANGED <<alive, history, badge>>
       ELSE \E t \in alive \ {Head(guns)} :
               /\ Kill(t, "shot")
               /\ guns' = (IF Role[t] = "hunter" THEN <<t>> ELSE <<>>) \o Tail(guns)
    /\ UNCHANGED <<pc, day, lastGuarded, potions, night, exploded, exiled, winner, running, page>>

-----------------------------------------------------------------------------
\* The night.
NightFalls ==
    /\ running /\ day < MaxDay /\ Goto("loop", "guard")
    /\ day' = day + 1 /\ poisoned' = NoOne /\ history' = {}
    /\ UNCHANGED <<alive, lastGuarded, potions, kill, saved, guarded, badge, exploded, exiled, guns, winner, running, page>>

\* Anyone alive but the player guarded last night, the guard included, or nobody.
GuardTargets == (alive \cup {NoOne}) \ ({lastGuarded} \ {NoOne})

GuardProtect ==
    /\ Goto("guard", "wolves")
    /\ \/ Of("guard") = {} /\ UNCHANGED <<lastGuarded, guarded>>
       \/ /\ Of("guard") # {}
          /\ \E t \in GuardTargets : lastGuarded' = t /\ guarded' = t
    /\ UNCHANGED <<day, alive, potions, kill, saved, poisoned, history, badge, exploded, exiled, guns, winner, running, page>>

\* A wolf proposes a player that is no wolf, or nobody; some proposal wins.
WolfTargets == (alive \ Of("wolf")) \cup {NoOne}

WolfKill ==
    /\ Goto("wolves", "witch")
    /\ \/ Of("wolf") = {} /\ UNCHANGED kill
       \/ Of("wolf") # {} /\ \E t \in WolfTargets : kill' = t
    /\ UNCHANGED <<day, alive, lastGuarded, potions, saved, poisoned, guarded, history, badge, exploded, exiled, guns, winner, running, page>>

CanSave(w) == "save" \in potions /\ kill # NoOne /\ (kill # w \/ day = 1)
CanPoison == "poison" \in potions /\ day >= 2

WitchAct ==
    /\ Goto("witch", "settle")
    /\ \/ UNCHANGED <<potions, saved, poisoned>>
       \/ \E w \in Of("witch") :
             /\ CanSave(w) /\ saved' = TRUE /\ potions' = potions \ {"save"} /\ UNCHANGED poisoned
       \/ \E w \in Of("witch") :
             /\ CanPoison /\ potions' = potions \ {"poison"} /\ UNCHANGED saved
             /\ \E t \in alive \ {w} : poisoned' = t
    /\ UNCHANGED <<day, alive, lastGuarded, kill, guarded, history, badge, exploded, exiled, guns, winner, running, page>>

\* A victim both guarded and saved dies; the poison adds its own.
Deaths == ((IF (kill = guarded) <=> saved THEN {kill} ELSE {}) \cup {poisoned}) \ {NoOne}

\* Nothing reads tonight's other choices again before nightfall resets them.
Settle ==
    /\ pc = "settle" /\ Unblocked
    /\ alive' = alive \ Deaths
    /\ history' = {[who |-> p, cause |-> "night"] : p \in Deaths}
    /\ kill' = NoOne /\ saved' = FALSE /\ guarded' = NoOne
    /\ winner' = Verdict(alive')
    /\ pc' = IF winner' = "none" THEN "words" ELSE "over"
    /\ UNCHANGED <<day, lastGuarded, potions, poisoned, badge, exploded, exiled, guns, running, page>>

-----------------------------------------------------------------------------
\* The day.  checkWin either ends the day or lets it go on.
CheckWin(on) ==
    /\ winner' = Verdict(alive)
    /\ pc' = IF Verdict(alive) = "none" THEN on ELSE "over"

\* The last words of the night's dead: one that was sheriff leaves the badge.
Fallen == {h.who : h \in {x \in history : x.cause = "night"}}
\* Mutant: a poisoned hunter shoots.
LastWordsPoison ==
    /\ Goto("words", "shots")
    /\ IF Fallen \cap isSheriff = {} THEN UNCHANGED badge
       ELSE \E p \in Fallen \cap isSheriff : PassBadge(p, alive)
    /\ guns' = SetToSeq({p \in Fallen : Role[p] = "hunter"})
    /\ UNCHANGED <<day, alive, lastGuarded, potions, night, history, exploded, exiled, winner, running, page>>

LastWords ==
    /\ Goto("words", "shots")
    /\ IF Fallen \cap isSheriff = {} THEN UNCHANGED badge
       ELSE \E p \in Fallen \cap isSheriff : PassBadge(p, alive)
    /\ guns' = SetToSeq({p \in Fallen : Role[p] = "hunter" /\ p # poisoned})
    /\ UNCHANGED <<day, alive, lastGuarded, potions, night, history, exploded, exiled, winner, running, page>>

Morning ==
    /\ pc = "shots" /\ guns = <<>> /\ Unblocked
    /\ CheckWin(IF day = 1 THEN "elect" ELSE "speech")
    /\ UNCHANGED <<day, alive, lastGuarded, potions, night, history, badge, exploded, exiled, guns, running, page>>

\* Any of the living may run.
Candidacies == SUBSET alive

\* A single runner is elected unopposed; otherwise those who do not run vote.
SheriffElection ==
    /\ Goto("elect", "speech")
    /\ \E runners \in Candidacies :
         \E w \in IF Cardinality(runners) <= 1 THEN runners \cup ({NoOne} \ runners)
                  ELSE Voted(alive \ runners, runners, {}, alive) :
            IF w = NoOne THEN UNCHANGED badge ELSE SetSheriff(w)
    /\ UNCHANGED <<day, alive, lastGuarded, potions, night, history, exploded, exiled, guns, winner, running, page>>

\* At its turn to speak a wolf, not the last one, may expose itself, once in a game.
MayExplode(w) ==
    /\ w \in Of("wolf") /\ ~exploded /\ Cardinality(Of("wolf")) > 1
    /\ ~(day = 1 /\ alive = Players)

WolfSelfExplode ==
    /\ pc = "speech" /\ Unblocked
    /\ \E w \in alive : MayExplode(w) /\ Kill(w, "explode")
    /\ exploded' = TRUE
    /\ winner' = Verdict(alive')
    /\ pc' = IF winner' = "none" THEN "loop" ELSE "over"
    /\ UNCHANGED <<day, lastGuarded, potions, night, exiled, guns, running, page>>

Speeches ==
    /\ pc = "speech" /\ Unblocked /\ CheckWin("vote")
    /\ UNCHANGED <<day, alive, lastGuarded, potions, night, history, badge, exploded, exiled, guns, running, page>>

VotePhase ==
    /\ pc = "vote" /\ Unblocked
    /\ \E p \in Voted(alive, alive, isSheriff, alive) :
         exiled' = p /\ pc' = IF p = NoOne THEN "dusk" ELSE "will"
    /\ UNCHANGED <<day, alive, lastGuarded, potions, night, history, badge, exploded, guns, winner, running, page>>

\* The exiled player speaks, and leaves the badge, before dying.
ExileWill ==
    /\ Goto("will", "exile") /\ PassBadge(exiled, alive)
    /\ UNCHANGED <<day, alive, lastGuarded, potions, night, history, exploded, exiled, guns, winner, running, page>>

Exile ==
    /\ Goto("exile", "lastshot") /\ Kill(exiled, "voted")
    /\ guns' = IF Role[exiled] = "hunter" THEN <<exiled>> ELSE <<>>
    /\ exiled' = NoOne
    /\ UNCHANGED <<day, lastGuarded, potions, night, exploded, winner, running, page>>

Dusk ==
    /\ pc \in {"dusk", "lastshot"} /\ guns = <<>> /\ Unblocked /\ CheckWin("loop")
    /\ UNCHANGED <<day, alive, lastGuarded, potions, night, history, badge, exploded, exiled, guns, running, page>>

\* run() after its loop: the result is shown whoever is current.
End ==
    /\ pc = "over" \/ (pc = "loop" /\ ~running)
    /\ pc' = "done" /\ overlay' = TRUE /\ running' = FALSE
    /\ UNCHANGED <<day, alive, lastGuarded, potions, night, history, badge, exploded, exiled, guns, winner, paused, current>>

-----------------------------------------------------------------------------
\* The page.
PressPause ==
    /\ IsCurrent /\ paused' = ~paused
    /\ UNCHANGED <<pc, day, alive, lastGuarded, potions, night, history, badge, exploded, exiled, guns, winner, running, current, overlay>>

StartNewGame ==
    /\ current
    /\ current' = FALSE /\ running' = FALSE /\ overlay' = FALSE
    /\ UNCHANGED <<pc, day, alive, lastGuarded, potions, night, history, badge, exploded, exiled, guns, winner, paused>>

Run ==
    \/ NightFalls \/ GuardProtect \/ WolfKill \/ WitchAct \/ Settle
    \/ LastWords \/ HunterShoot \/ Morning \/ SheriffElection \/ WolfSelfExplode \/ Speeches
    \/ VotePhase \/ ExileWill \/ Exile \/ Dusk \/ End
Next == Run \/ PressPause \/ StartNewGame

\* Animation frames, voices and the calls of the models all end: the calls by
\* the timeout of llm-adapter.js.  Nobody has to press anything.
Spec == Init /\ [][Next]_vars /\ WF_vars(Run)

-----------------------------------------------------------------------------
TypeOK ==
    /\ pc \in {"loop", "guard", "wolves", "witch", "settle", "words", "shots", "elect", "speech",
               "vote", "will", "exile", "lastshot", "dusk", "over", "done"}
    /\ day \in 0..MaxDay /\ alive \subseteq Players /\ potions \subseteq {"save", "poison"}
    /\ {lastGuarded, kill, poisoned, guarded, sheriffIdx, exiled} \subseteq Players \cup {NoOne}
    /\ {saved, exploded, running, paused, current, overlay} \subseteq BOOLEAN
    /\ isSheriff \subseteq Players /\ guns \in Seq(Players)
    /\ history \subseteq [who : Players, cause : {"night", "shot", "voted", "explode"}]
    /\ winner \in {"none", "good", "wolf"}

\* The game and the agents agree on who holds the badge, through election, will
\* and sudden death; and whenever players speak or vote the holder is alive.
OneBadge ==
    /\ isSheriff = {sheriffIdx} \ {NoOne}
    /\ pc \in {"elect", "speech", "vote", "loop", "guard", "wolves", "witch"} => isSheriff \subseteq alive

\* A hunter that the wolves or the vote remove shoots on that day, one that is
\* poisoned does not, and nobody else ever shoots (unless the night decided the game).
HunterAnswers ==
    pc \in {"elect", "speech", "vote", "loop", "dusk"} /\ day > 0 =>
        ((\E h \in history : h.cause = "shot") <=>
         \E h \in history : /\ Role[h.who] = "hunter"
                            /\ \/ h.cause = "voted"
                               \/ h.cause = "night" /\ h.who # poisoned)

\* A finished game names the side that its survivors say has won; only a game
\* that was replaced ends without a winner.
ResultIsRight ==
    pc = "done" => winner = Verdict(alive) /\ (winner = "none" => ~current)

\* A replaced game comes to its end, though it was paused when it was replaced.
OldGameEnds == ~current ~> pc = "done"

\* The page shows the result of the newest game only.  The code does not keep
\* this: a replaced game runs on to its end and shows its result.
OldTailSilent == ~current => ~overlay

=============================================================================
