------------------------------ MODULE MCWerewolf ------------------------------
(* Six players, one of each role but the seer, who changes no outcome, and *)
(* a second wolf.                                                          *)
EXTENDS Werewolf

MCPlayers == 1..6
MCRole == <<"wolf", "wolf", "guard", "witch", "hunter", "villager">>

\* The winners WinnerSets allows are those FindVoteWinners finds, over every
\* ballot of up to four voters, with and without a sheriff among them.
ASSUME \A voters \in SUBSET (1..4), sheriffs \in {{}, {1}}, n \in 0..3 :
    LET candidates == 1..n IN
    WinnerSets(voters, sheriffs \cap voters, candidates) =
        {FindVoteWinners(b, sheriffs, candidates) : b \in [voters -> candidates \cup {0}]}
=============================================================================
