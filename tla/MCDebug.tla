-------------------------------- MODULE MCDebug --------------------------------
\* Pairs of calls that meet: two waits, a wait and what makes the program go on.
EXTENDS DebugBridge
CONSTANTS c1, c2
MCAsked == {[c \in {c1, c2} |-> IF c = c1 THEN a ELSE b] :
                <<a, b>> \in {<<"smartStepUntil", "waitForStop">>, <<"smartStepUntil", "continue">>, <<"waitForStop", "inspect">>}}
=============================================================================
