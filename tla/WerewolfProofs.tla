--------------------------- MODULE WerewolfProofs ---------------------------
(***************************************************************************)
(* Proofs about Werewolf, for every deal and any number of players and     *)
(* days: who holds the badge, and when a hunter shoots.                    *)
(***************************************************************************)
EXTENDS Werewolf, FiniteSetTheorems, SequenceTheorems, TLAPS

-----------------------------------------------------------------------------
(* The deal, votes and results.                                              *)

\* There is one hunter at most.
LEMMA OneHunter ==
    ASSUME NEW p \in Players, NEW q \in Players, Role[p] = "hunter", Role[q] = "hunter"
    PROVE  p = q
  <1> DEFINE S == {x \in Players : Role[x] = "hunter"}
  <1>1. IsFiniteSet(S) /\ Cardinality(S) <= 1
    BY DealAssumption, FS_Subset DEF Gods
  <1>2. IsFiniteSet({p}) /\ Cardinality({p}) = 1
    BY FS_Singleton
  <1>3. {p} \subseteq S /\ Cardinality(S) \in Nat
    BY <1>1, FS_CardinalityType
  <1>4. Cardinality({p}) <= Cardinality(S) /\ (Cardinality({p}) = Cardinality(S) => {p} = S)
    BY <1>1, <1>3, FS_Subset
  <1> QED BY <1>1, <1>2, <1>3, <1>4

\* Whoever leaves a vote was a candidate in it.
LEMMA VotedIn ==
    ASSUME NEW V, NEW C, NEW B, NEW E, NEW x \in Voted(V, C, B, E)
    PROVE  x \in C \cup {NoOne}
  <1>1. PICK w \in WinnerSets(V, B, C) :
            x \in CASE w = {} -> {NoOne}
                    [] Cardinality(w) = 1 -> w
                    [] OTHER -> {NoOne} \cup UNION {v \in WinnerSets(E \ w, B, w) : Cardinality(v) = 1}
    BY DEF Voted
  <1>2. w \subseteq C /\ \A v \in WinnerSets(E \ w, B, w) : v \subseteq w
    BY DEF WinnerSets
  <1>3. x \in {NoOne} \/ x \in w \/ x \in UNION {v \in WinnerSets(E \ w, B, w) : Cardinality(v) = 1}
    BY <1>1
  <1> QED BY <1>2, <1>3

\* When nobody is left the game is decided.
LEMMA NobodyLeft == Verdict({}) # "none"
  BY DEF Verdict

LEMMA VerdictType == \A living : Verdict(living) \in {"none", "good", "wolf"}
  BY DEF Verdict

\* Two hunters cannot fall: the sequence of those that shoot is empty, or has one element.
LEMMA HuntersInTurn ==
    ASSUME NEW S \in SUBSET Players, \A p \in S : Role[p] = "hunter"
    PROVE  \/ S = {} /\ SetToSeq(S) = <<>>
           \/ \E h \in S : SetToSeq(S) = <<h>>
  <1>1. CASE S = {}
    <2>1. Cardinality(S) = 0 /\ 1..0 = {}
      BY <1>1, FS_EmptySet
    <2>2. [i \in 1..0 |-> i] \in [1..0 -> S] /\ IsInjective([i \in 1..0 |-> i])
      BY <2>1 DEF IsInjective
    <2>3. SetToSeq(S) \in [1..0 -> S]
      BY <2>1, <2>2 DEF SetToSeq
    <2>4. SetToSeq(S) \in Seq(S) /\ Len(SetToSeq(S)) = 0
      BY <2>3
    <2> QED BY <1>1, <2>4, EmptySeq
  <1>2. CASE S # {}
    <2> PICK h \in S : TRUE
      BY <1>2
    <2>0. S = {h}
      BY OneHunter
    <2>1. S = {h} /\ Cardinality(S) = 1
      BY <2>0, FS_Singleton
    <2>2. [i \in 1..1 |-> h] \in [1..1 -> S] /\ IsInjective([i \in 1..1 |-> h])
      BY DEF IsInjective
    <2>3. SetToSeq(S) \in [1..1 -> S]
      BY <2>1, <2>2 DEF SetToSeq
    <2>4. \A f \in [1..1 -> S] : f = <<f[1]>>
      OBVIOUS
    <2>5. SetToSeq(S)[1] = h
      BY <2>1, <2>3
    <2>6. SetToSeq(S) = <<h>>
      BY <2>3, <2>4, <2>5
    <2> QED BY <2>6
  <1> QED BY <1>1, <1>2

-----------------------------------------------------------------------------
(* What a death and a will do.                                               *)

\* The part of the type invariant that the proofs below need.
Seated ==
    /\ alive \subseteq Players /\ sheriffIdx \in Players \cup {NoOne} /\ isSheriff \subseteq Players
    /\ history \subseteq [who : Players, cause : {"night", "shot", "voted", "explode"}]
    /\ {kill, poisoned, guarded, exiled} \subseteq Players \cup {NoOne}

OneHolder == isSheriff = {sheriffIdx} \ {NoOne}

\* A will leaves one badge at most, and not with the one who made it.
LEMMA Will ==
    ASSUME Seated, OneHolder, NEW p, NEW living \in SUBSET Players, PassBadge(p, living)
    PROVE  /\ OneHolder' /\ p \notin isSheriff'
           /\ isSheriff' \subseteq (isSheriff \ {p}) \cup living
           /\ sheriffIdx' \in Players \cup {NoOne} /\ isSheriff' \subseteq Players
  <1>1. CASE p \notin isSheriff
    BY <1>1 DEF PassBadge, badge, OneHolder, Seated
  <1>2. CASE p \in isSheriff
    <2>1. sheriffIdx = p /\ isSheriff = {p} /\ p # NoOne
      BY <1>2 DEF OneHolder
    <2>2. \/ sheriffIdx' = NoOne /\ isSheriff' = {}
          \/ \E heir \in living \ {p} : sheriffIdx' = heir /\ isSheriff' = {heir}
      BY <1>2, <2>1 DEF PassBadge, Heirs
    <2> QED BY <2>1, <2>2, DealAssumption DEF OneHolder
  <1> QED BY <1>1, <1>2

\* A death is booked with its cause; whoever is shot, or explodes, leaves no badge behind.
LEMMA Death ==
    ASSUME Seated, OneHolder, NEW p \in alive, NEW c \in {"shot", "voted", "explode"}, Kill(p, c)
    PROVE  /\ alive' = alive \ {p} /\ history' = history \cup {[who |-> p, cause |-> c]}
           /\ history' \subseteq [who : Players, cause : {"night", "shot", "voted", "explode"}]
           /\ OneHolder' /\ sheriffIdx' \in Players \cup {NoOne} /\ isSheriff' \subseteq Players
           /\ IF c = "voted" THEN UNCHANGED badge
              ELSE p \notin isSheriff' /\ isSheriff' \subseteq isSheriff \cup alive'
  <1>1. alive' = alive \ {p} /\ history' = history \cup {[who |-> p, cause |-> c]}
    BY DEF Kill
  <1>2. history' \subseteq [who : Players, cause : {"night", "shot", "voted", "explode"}]
    BY <1>1 DEF Seated
  <1>3. CASE c = "voted"
    <2>1. UNCHANGED badge
      BY <1>3 DEF Kill
    <2> QED BY <1>1, <1>2, <1>3, <2>1 DEF badge, OneHolder, Seated
  <1>4. CASE c # "voted"
    <2>1. PassBadge(p, alive')
      BY <1>4 DEF Kill
    <2>2. alive' \in SUBSET Players
      BY <1>1 DEF Seated
    <2> QED BY <1>1, <1>2, <1>4, <2>1, <2>2, Will
  <1> QED BY <1>3, <1>4

-----------------------------------------------------------------------------
(* Type correctness.                                                         *)

LEMMA InitSeats == Init => TypeOK
  <1> SUFFICES ASSUME Init PROVE TypeOK
    OBVIOUS
  <1>1. /\ day \in 0..MaxDay /\ alive \subseteq Players /\ potions \subseteq {"save", "poison"}
        /\ {lastGuarded, kill, poisoned, guarded, sheriffIdx, exiled} \subseteq Players \cup {NoOne}
        /\ isSheriff \subseteq Players /\ winner \in {"none", "good", "wolf"} /\ pc = "loop"
        /\ history \subseteq [who : Players, cause : {"night", "shot", "voted", "explode"}]
    BY DealAssumption DEF Init
  <1>2. {saved, exploded, running, paused, current, overlay} \subseteq BOOLEAN
    BY DEF Init
  <1>3. guns \in Seq(Players)
    BY EmptySeq DEF Init
  <1> QED BY <1>1, <1>2, <1>3 DEF TypeOK


\* Who holds the badge, and where the holder may be among the dead: between the night and
\* the last words, and when the game is over.
BadgeInv ==
    /\ OneHolder
    /\ pc \notin {"words", "over", "done"} => isSheriff \subseteq alive
    /\ pc = "words" => isSheriff \subseteq alive \cup Fallen
    /\ pc \in {"will", "exile"} => exiled \in alive
    /\ pc = "exile" => exiled \notin isSheriff

\* Every step of the game, and whatever the user presses, keeps the types and the badge.
LEMMA NextBadge == TypeOK /\ BadgeInv /\ [Next]_vars => TypeOK' /\ BadgeInv'
  <1> SUFFICES ASSUME TypeOK, BadgeInv, [Next]_vars PROVE TypeOK' /\ BadgeInv'
    OBVIOUS
  <1>0. Seated
    BY DEF TypeOK, Seated
  <1> USE DealAssumption DEF Goto, night, badge, page, TypeOK, BadgeInv, OneHolder
  <1>1. CASE NightFalls
    BY <1>1 DEF NightFalls
  <1>2. CASE GuardProtect
    BY <1>2 DEF GuardProtect, GuardTargets
  <1>3. CASE WolfKill
    BY <1>3 DEF WolfKill, WolfTargets
  <1>4. CASE WitchAct
    BY <1>4 DEF WitchAct, Of
  <1>5. CASE Settle
    <2>1. Deaths \subseteq Players
      BY DEF Deaths
    <2>2. /\ alive' = alive \ Deaths /\ history' = {[who |-> p, cause |-> "night"] : p \in Deaths}
          /\ pc = "settle" /\ pc' \in {"words", "over"} /\ winner' \in {"none", "good", "wolf"}
      BY <1>5, VerdictType DEF Settle
    <2>3. history' \subseteq [who : Players, cause : {"night", "shot", "voted", "explode"}]
      BY <2>1, <2>2
    <2>4. Deaths \subseteq Fallen'
      <3> SUFFICES ASSUME NEW p \in Deaths PROVE p \in Fallen'
        OBVIOUS
      <3>1. [who |-> p, cause |-> "night"] \in history'
        BY <2>2
      <3> QED BY <3>1 DEF Fallen
    <2> QED BY <1>5, <2>1, <2>2, <2>3, <2>4 DEF Settle
  <1>6. CASE LastWords
    <2> DEFINE hunters == {p \in Fallen : Role[p] = "hunter" /\ p # poisoned}
    <2>1. Fallen \subseteq Players
      BY DEF Fallen
    <2>2. guns' \in Seq(Players)
      <3>1. SetToSeq(hunters) = <<>> \/ \E h \in hunters : SetToSeq(hunters) = <<h>>
        BY <2>1, HuntersInTurn
      <3>2. guns' = SetToSeq(hunters)
        BY <1>6 DEF LastWords
      <3>3. <<>> \in Seq(Players) /\ \A h \in Players : <<h>> \in Seq(Players)
        BY EmptySeq
      <3> QED BY <2>1, <3>1, <3>2, <3>3
    <2>3. /\ OneHolder' /\ isSheriff' \subseteq alive
          /\ sheriffIdx' \in Players \cup {NoOne} /\ isSheriff' \subseteq Players
      <3>1. CASE Fallen \cap isSheriff = {}
        BY <1>6, <3>1 DEF LastWords
      <3>2. CASE Fallen \cap isSheriff # {}
        <4>1. PICK p \in Fallen \cap isSheriff : PassBadge(p, alive)
          BY <1>6, <3>2 DEF LastWords
        <4>2. isSheriff \ {p} = {}
          BY <4>1
        <4> QED BY <1>0, <4>1, <4>2, Will
      <3> QED BY <3>1, <3>2
    <2> QED BY <1>6, <2>2, <2>3 DEF LastWords
  <1>7. CASE HunterShoot
    <2>1. CASE alive \ {Head(guns)} = {}
      BY <1>7, <2>1 DEF HunterShoot
    <2>2. CASE alive \ {Head(guns)} # {}
      <3>1. PICK t \in alive \ {Head(guns)} :
                /\ Kill(t, "shot")
                /\ guns' = (IF Role[t] = "hunter" THEN <<t>> ELSE <<>>) \o Tail(guns)
        BY <1>7, <2>2 DEF HunterShoot
      <3>2. guns' \in Seq(Players)
        BY <1>7, <3>1 DEF HunterShoot
      <3>3. /\ alive' = alive \ {t} /\ t \notin isSheriff' /\ isSheriff' \subseteq isSheriff \cup alive'
            /\ history' \subseteq [who : Players, cause : {"night", "shot", "voted", "explode"}]
            /\ OneHolder' /\ sheriffIdx' \in Players \cup {NoOne} /\ isSheriff' \subseteq Players
        BY <1>0, <3>1, Death
      <3> QED BY <1>7, <3>2, <3>3 DEF HunterShoot
    <2> QED BY <2>1, <2>2
  <1>8. CASE Morning
    BY <1>8, VerdictType DEF Morning, CheckWin
  <1>9. CASE SheriffElection
    <2>1. PICK runners \in SUBSET alive :
              \E w \in runners \cup {NoOne} : IF w = NoOne THEN UNCHANGED badge ELSE SetSheriff(w)
      <3>1. PICK runners \in SUBSET alive :
                \E w \in IF Cardinality(runners) <= 1 THEN runners \cup ({NoOne} \ runners)
                         ELSE Voted(alive \ runners, runners, {}, alive) :
                   IF w = NoOne THEN UNCHANGED badge ELSE SetSheriff(w)
        BY <1>9 DEF SheriffElection, Candidacies
      <3>2. Voted(alive \ runners, runners, {}, alive) \subseteq runners \cup {NoOne}
        BY VotedIn
      <3> HIDE DEF badge
      <3> QED BY <3>1, <3>2
    <2>2. /\ OneHolder' /\ isSheriff' \subseteq alive
          /\ sheriffIdx' \in Players \cup {NoOne}
      BY <1>9, <2>1 DEF SetSheriff, SheriffElection
    <2> QED BY <1>9, <2>2 DEF SheriffElection
  <1>10. CASE WolfSelfExplode
    <2>1. PICK w \in alive : Kill(w, "explode")
      BY <1>10 DEF WolfSelfExplode
    <2>2. /\ alive' = alive \ {w} /\ w \notin isSheriff' /\ isSheriff' \subseteq isSheriff \cup alive'
          /\ history' \subseteq [who : Players, cause : {"night", "shot", "voted", "explode"}]
          /\ OneHolder' /\ sheriffIdx' \in Players \cup {NoOne} /\ isSheriff' \subseteq Players
      BY <1>0, <2>1, Death
    <2> QED BY <1>10, <2>2, VerdictType DEF WolfSelfExplode
  <1>11. CASE Speeches
    BY <1>11, VerdictType DEF Speeches, CheckWin
  <1>12. CASE VotePhase
    <2>1. exiled' \in alive \cup {NoOne} /\ pc' = IF exiled' = NoOne THEN "dusk" ELSE "will"
      BY <1>12, VotedIn DEF VotePhase
    <2> QED BY <1>12, <2>1 DEF VotePhase
  <1>13. CASE ExileWill
    <2>1. /\ OneHolder' /\ exiled \notin isSheriff' /\ isSheriff' \subseteq (isSheriff \ {exiled}) \cup alive
          /\ sheriffIdx' \in Players \cup {NoOne} /\ isSheriff' \subseteq Players
      BY <1>0, <1>13, Will DEF ExileWill
    <2> QED BY <1>13, <2>1 DEF ExileWill
  <1>14. CASE Exile
    <2>1. /\ alive' = alive \ {exiled} /\ UNCHANGED badge
          /\ history' \subseteq [who : Players, cause : {"night", "shot", "voted", "explode"}]
      BY <1>0, <1>14, Death DEF Exile
    <2>2. guns' \in Seq(Players)
      BY <1>14, EmptySeq DEF Exile
    <2> QED BY <1>14, <2>1, <2>2 DEF Exile
  <1>15. CASE Dusk
    BY <1>15, VerdictType DEF Dusk, CheckWin
  <1>16. CASE End \/ PressPause \/ StartNewGame
    <2>1. CASE End
      BY <2>1 DEF End
    <2>2. CASE PressPause
      BY <2>2 DEF PressPause, Fallen
    <2>3. CASE StartNewGame
      BY <2>3 DEF StartNewGame, Fallen
    <2> QED BY <1>16, <2>1, <2>2, <2>3
  <1>17. CASE UNCHANGED vars
    BY <1>17 DEF vars, Fallen
  <1> HIDE DEF TypeOK, BadgeInv
  <1> QED BY <1>1, <1>2, <1>3, <1>4, <1>5, <1>6, <1>7, <1>8, <1>9, <1>10, <1>11, <1>12, <1>13,
             <1>14, <1>15, <1>16, <1>17 DEF Next, Run


LEMMA InitBadge == Init => TypeOK /\ BadgeInv
  <1>1. Init => BadgeInv
    BY DealAssumption DEF Init, BadgeInv, OneHolder
  <1> QED BY <1>1, InitSeats

\* Every variable keeps its type, for every deal.
THEOREM GameTypeCorrect == Spec => []TypeOK
  BY InitBadge, NextBadge, PTL DEF Spec

\* The game and the agents always agree on one holder of the badge, and whenever players
\* speak, vote or act at night the holder is alive: no order of night deaths, shots,
\* explosions, wills and votes loses or doubles it.
THEOREM OneBadgeHolds == Spec => []OneBadge
  <1>1. BadgeInv => OneBadge
    BY DEF BadgeInv, OneHolder, OneBadge
  <1> QED BY <1>1, InitBadge, NextBadge, PTL DEF Spec

-----------------------------------------------------------------------------
(* The hunter.                                                               *)

Shot == \E h \in history : h.cause = "shot"
Owed == \E h \in history : /\ Role[h.who] = "hunter"
                           /\ h.cause = "voted" \/ (h.cause = "night" /\ h.who # poisoned)

\* A hunter with a shot to fire is dead, owes it, and nobody has shot since nightfall.
Aiming(h) == guns = <<h>> /\ Role[h] = "hunter" /\ h \notin alive /\ Owed /\ ~Shot

\* Who is in the day's history is dead.  Outside the two rounds of shots a shot has been
\* fired exactly when it was owed; within them it may still be to come, or there is nobody
\* left to be hit, which ends the game.
ShotInv ==
    /\ \A h \in history : h.who \notin alive
    /\ pc \in {"elect", "speech", "vote", "will", "exile", "dusk", "loop"} => (Shot <=> Owed)
    /\ pc = "words" => \A h \in history : h.cause = "night"
    /\ pc \in {"shots", "lastshot"} =>
         (guns = <<>> /\ ((Shot <=> Owed) \/ alive = {})) \/ \E h \in Players : Aiming(h)

\* Every step keeps it: since there is one hunter at most, a hunter that is hit by a shot
\* was not waiting to shoot.
LEMMA NextShot == TypeOK /\ BadgeInv /\ ShotInv /\ [Next]_vars => ShotInv'
  <1> SUFFICES ASSUME TypeOK, BadgeInv, ShotInv, [Next]_vars PROVE ShotInv'
    OBVIOUS
  <1>0. Seated /\ OneHolder
    BY DEF TypeOK, Seated, BadgeInv
  <1>a. alive \subseteq Players /\ guns \in Seq(Players)
        /\ history \subseteq [who : Players, cause : {"night", "shot", "voted", "explode"}]
    BY DEF TypeOK
  <1> USE <1>a DEF Goto, night, badge, page, ShotInv
  <1>1. CASE NightFalls
    BY <1>1 DEF NightFalls
  <1>2. CASE GuardProtect
    BY <1>2 DEF GuardProtect
  <1>3. CASE WolfKill
    BY <1>3 DEF WolfKill
  <1>4. CASE WitchAct
    BY <1>4 DEF WitchAct
  <1>5. CASE Settle
    BY <1>5 DEF Settle
  <1>6. CASE LastWords
    <2> DEFINE hunters == {p \in Fallen : Role[p] = "hunter" /\ p # poisoned}
    <2>1. /\ pc = "words" /\ pc' = "shots" /\ guns' = SetToSeq(hunters)
          /\ UNCHANGED <<alive, history, poisoned>>
      BY <1>6 DEF LastWords
    <2>2. ~Shot /\ (Owed <=> hunters # {}) /\ hunters \subseteq Players
          /\ \A p \in hunters : p \notin alive
      BY <2>1 DEF Shot, Owed, Fallen
    <2>3. (hunters = {} /\ guns' = <<>>) \/ \E h \in hunters : guns' = <<h>>
      BY <2>1, <2>2, HuntersInTurn
    <2>4. Shot' = Shot /\ Owed' = Owed
      BY <2>1 DEF Shot, Owed
    <2> QED BY <2>1, <2>2, <2>3, <2>4 DEF Aiming
  <1>7. CASE HunterShoot
    <2>1. /\ pc \in {"shots", "lastshot"} /\ pc' = pc /\ guns # <<>> /\ poisoned' = poisoned
      BY <1>7 DEF HunterShoot
    <2>2. PICK h \in Players : Aiming(h)
      BY <2>1
    <2>3. Head(guns) = h /\ Tail(guns) = <<>>
      BY <2>2 DEF Aiming
    <2>4. CASE alive \ {h} = {}
      <3>1. alive = {} /\ alive' = alive /\ history' = history /\ guns' = <<>>
        BY <1>7, <2>2, <2>3, <2>4 DEF HunterShoot, Aiming
      <3> QED BY <2>1, <3>1
    <2>5. CASE alive \ {h} # {}
      <3>1. PICK t \in alive :
                /\ Kill(t, "shot")
                /\ guns' = (IF Role[t] = "hunter" THEN <<t>> ELSE <<>>) \o <<>>
        BY <1>7, <2>3, <2>5 DEF HunterShoot
      <3>2. Role[t] # "hunter"
        BY <2>2, OneHunter DEF Aiming
      <3>3. alive' = alive \ {t} /\ history' = history \cup {[who |-> t, cause |-> "shot"]}
        BY <1>0, <3>1, Death
      <3>4. guns' = <<>>
        BY <3>1, <3>2
      <3>5. Shot'
        <4>1. [who |-> t, cause |-> "shot"] \in history'
          BY <3>3
        <4> QED BY <4>1 DEF Shot
      <3>6. Owed'
        BY <2>1, <2>2, <3>3 DEF Aiming, Owed
      <3>7. \A x \in history' : x.who \notin alive'
        BY <3>3
      <3> QED BY <2>1, <3>4, <3>5, <3>6, <3>7
    <2> QED BY <2>4, <2>5
  <1>8. CASE Morning
    <2>1. pc = "shots" /\ guns = <<>> /\ (pc' = "over" \/ Verdict(alive) = "none")
          /\ pc' \in {"over", "elect", "speech"} /\ UNCHANGED <<alive, history, poisoned>>
      BY <1>8 DEF Morning, CheckWin
    <2>2. Shot' = Shot /\ Owed' = Owed
      BY <2>1 DEF Shot, Owed
    <2> QED BY <2>1, <2>2, NobodyLeft DEF Aiming
  <1>9. CASE SheriffElection
    BY <1>9 DEF SheriffElection, Shot, Owed
  <1>10. CASE WolfSelfExplode
    <2>1. PICK w \in alive : Kill(w, "explode")
      BY <1>10 DEF WolfSelfExplode
    <2>2. alive' = alive \ {w} /\ history' = history \cup {[who |-> w, cause |-> "explode"]}
      BY <1>0, <2>1, Death
    <2>3. pc = "speech" /\ pc' \in {"loop", "over"} /\ poisoned' = poisoned
      BY <1>10 DEF WolfSelfExplode
    <2>4. Shot' = Shot /\ Owed' = Owed
      BY <2>2, <2>3 DEF Shot, Owed
    <2>5. \A x \in history' : x.who \notin alive'
      BY <2>2
    <2> QED BY <2>3, <2>4, <2>5
  <1>11. CASE Speeches
    BY <1>11 DEF Speeches, CheckWin, Shot, Owed
  <1>12. CASE VotePhase
    BY <1>12 DEF VotePhase, Shot, Owed
  <1>13. CASE ExileWill
    BY <1>13 DEF ExileWill, Shot, Owed
  <1>14. CASE Exile
    <2>1. /\ pc = "exile" /\ pc' = "lastshot" /\ poisoned' = poisoned /\ exiled \in alive
          /\ guns' = IF Role[exiled] = "hunter" THEN <<exiled>> ELSE <<>>
      BY <1>14 DEF Exile, BadgeInv
    <2>2. alive' = alive \ {exiled} /\ history' = history \cup {[who |-> exiled, cause |-> "voted"]}
      BY <1>0, <1>14, <2>1, Death DEF Exile
    <2>3. (\A x \in history' : x.who \notin alive') /\ Shot' = Shot
      BY <2>2 DEF Shot
    <2>4. CASE Role[exiled] = "hunter"
      <3>1. ~Owed
        <4>1. ASSUME NEW x \in history, Role[x.who] = "hunter" PROVE FALSE
          <5>1. x.who \in Players /\ x.who \notin alive
            OBVIOUS
          <5> QED BY <2>1, <2>4, <4>1, <5>1, OneHunter
        <4> QED BY <4>1 DEF Owed
      <3>2. Owed'
        <4>1. [who |-> exiled, cause |-> "voted"] \in history'
          BY <2>2
        <4> QED BY <2>4, <4>1 DEF Owed
      <3> QED BY <2>1, <2>2, <2>3, <2>4, <3>1, <3>2 DEF Aiming
    <2>5. CASE Role[exiled] # "hunter"
      <3>1. Owed' = Owed
        BY <2>1, <2>2, <2>5 DEF Owed
      <3> QED BY <2>1, <2>3, <2>5, <3>1
    <2> QED BY <2>4, <2>5
  <1>15. CASE Dusk
    <2>1. pc \in {"dusk", "lastshot"} /\ guns = <<>> /\ (pc' = "over" \/ Verdict(alive) = "none")
          /\ pc' \in {"over", "loop"} /\ UNCHANGED <<alive, history, poisoned>>
      BY <1>15 DEF Dusk, CheckWin
    <2>2. Shot' = Shot /\ Owed' = Owed
      BY <2>1 DEF Shot, Owed
    <2> QED BY <2>1, <2>2, NobodyLeft DEF Aiming
  <1>16. CASE End \/ PressPause \/ StartNewGame \/ UNCHANGED vars
    <2>1. UNCHANGED <<alive, history, poisoned, guns>> /\ (pc' = pc \/ pc' = "done")
      BY <1>16 DEF End, PressPause, StartNewGame, vars
    <2> QED BY <2>1 DEF Aiming, Shot, Owed
  <1> HIDE DEF ShotInv
  <1> QED BY <1>1, <1>2, <1>3, <1>4, <1>5, <1>6, <1>7, <1>8, <1>9, <1>10, <1>11, <1>12, <1>13,
             <1>14, <1>15, <1>16 DEF Next, Run

LEMMA InitShot == Init => ShotInv
  BY DEF Init, ShotInv, Shot, Owed

\* Whatever the deal and the choices of the players: a hunter that the wolves or the vote
\* remove has shot before the day goes on, one that was poisoned has not, and nobody else.
THEOREM HunterHasAnswered == Spec => []HunterAnswers
  <1>1. ShotInv => HunterAnswers
    BY DEF ShotInv, HunterAnswers, Shot, Owed
  <1> QED BY <1>1, InitBadge, InitShot, NextBadge, NextShot, PTL DEF Spec
=============================================================================
