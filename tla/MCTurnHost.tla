----------------------------- MODULE MCTurnHost -----------------------------
(* Instances of TurnHost for TLC: which conversation each turn belongs to,  *)
(* and the symmetry of turns that differ in nothing but their name.         *)
EXTENDS TurnHost, TLC

CONSTANTS t1, t2, t3, c1, c2

MCOneConv  == [t \in Turns |-> c1]
MCTwoConvs == [t \in Turns |-> IF t = t3 THEN c2 ELSE c1]

\* Sound where every turn belongs to one conversation and streams alike.
MCTurnSymmetry == Permutations(Turns)
=============================================================================
