---------------------------- MODULE MCRootGraph ----------------------------
(* Three domains of which two can ask (the account domain has no fields),  *)
(* at most two of them per turn, a few questions, two model rounds, and    *)
(* two turns.                                                              *)
EXTENDS RootGraph, TLC

MCAskable == {1, 2}
============================================================================
