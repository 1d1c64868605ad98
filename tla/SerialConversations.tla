------------------------ MODULE SerialConversations ------------------------
(***************************************************************************)
(* What the turn host promises about the turns of a conversation, without  *)
(* locks, registry or pool: a turn is inside its conversation at most      *)
(* once, and a conversation has at most one turn inside.  Conversations do *)
(* not wait for each other.                                                *)
(***************************************************************************)
CONSTANTS Turns, Convs, ConvOf, NoTurn

VARIABLES
  inside,  \* the turn inside each conversation
  begun    \* the turns that have been inside

serialVars == <<inside, begun>>

SerialInit ==
  /\ inside = [c \in Convs |-> NoTurn]
  /\ begun = {}

Begin(t) ==
  /\ t \notin begun
  /\ inside[ConvOf[t]] = NoTurn
  /\ inside' = [inside EXCEPT ![ConvOf[t]] = t]
  /\ begun' = begun \cup {t}

End(t) ==
  /\ inside[ConvOf[t]] = t
  /\ inside' = [inside EXCEPT ![ConvOf[t]] = NoTurn]
  /\ UNCHANGED begun

\* The process dies with whatever was inside.
Abort ==
  /\ inside' = [c \in Convs |-> NoTurn]
  /\ UNCHANGED begun

SerialNext == (\E t \in Turns : Begin(t) \/ End(t)) \/ Abort

SerialSpec == SerialInit /\ [][SerialNext]_serialVars
=============================================================================
