-------------------------- MODULE TurnHost_proofs --------------------------
(***************************************************************************)
(* Theorems about the turn host.  The inductive invariant is GuardInv: the *)
(* registry names the lock object of every turn of a conversation, its     *)
(* reference count is the number of those turns, and no lock object is     *)
(* shared or reused.  Type correctness needs it too: only an entry that    *)
(* counts its users is never decremented below zero.  What the turns leave *)
(* behind rests on the guard: while a turn is inside its conversation, no  *)
(* other turn of it writes there.                                          *)
(***************************************************************************)
EXTENDS TurnHost, FiniteSetTheorems, TLAPS

-----------------------------------------------------------------------------
(* What storing a message does to the type of the stores.                  *)

\* A bounded window of entries is a sequence of entries.
LEMMA LastNType ==
  ASSUME NEW S, NEW s \in Seq(S), NEW n \in Nat \ {0}
  PROVE  LastN(s, n) \in Seq(S)
<1>1. CASE Len(s) <= n
  BY <1>1 DEF LastN
<1>2. CASE ~(Len(s) <= n)
  <2>1. Len(s) - n + 1 \in 1..(Len(s) + 1) /\ Len(s) \in Nat
    BY <1>2
  <2>2. SubSeq(s, Len(s) - n + 1, Len(s)) \in Seq(S)
    BY <2>1
  <2>. QED BY <1>2, <2>2 DEF LastN
<1>. QED BY <1>1, <1>2

LEMMA StoredType ==
  ASSUME NEW m \in [Convs -> Seq(Entries)], NEW t \in Turns, NEW r \in Roles, NEW c \in Convs
  PROVE  /\ [m EXCEPT ![c] = Append(@, <<t, r>>)] \in [Convs -> Seq(Entries)]
         /\ [m EXCEPT ![c] = LastN(Append(@, <<t, r>>), WindowSize)] \in [Convs -> Seq(Entries)]
<1>1. <<t, r>> \in Entries
  BY DEF Entries
<1>2. Append(m[c], <<t, r>>) \in Seq(Entries)
  BY <1>1
<1>3. LastN(Append(m[c], <<t, r>>), WindowSize) \in Seq(Entries)
  BY <1>2, LastNType, SizesAssumption
<1>. QED BY <1>2, <1>3

-----------------------------------------------------------------------------
(* Type correctness.                                                       *)

LEMMA InitTyping == Init => TypeOK
BY TurnsAssumption, ConvsAssumption, SizesAssumption
   DEF Init, TypeOK, Everywhere, InWorker, InGuard, Locked, InGraph, Terminal,
       Results, Entries, Roles, StopCalls, DeleteCalls

\* A turn that leaves is one of the users its entry counts.
LEMMA LeaverCounted ==
  ASSUME TypeOK, GuardConsistent, NEW t \in Turns, pc[t] = "leaving"
  PROVE  /\ lockOf[t] \in Turns
         /\ refs[lockOf[t]] = Cardinality(Users(lockOf[t]))
         /\ IsFiniteSet(Users(lockOf[t]))
         /\ t \in Users(lockOf[t])
         /\ refs[lockOf[t]] >= 1
<1>1. pc[t] \in InGuard
  BY DEF InGuard
<1>2. lockOf[t] \in Turns /\ t \in Users(lockOf[t])
  BY <1>1 DEF GuardConsistent, Users
<1>3. IsFiniteSet(Users(lockOf[t]))
  BY TurnsAssumption, FS_Subset DEF Users
<1>4. Cardinality(Users(lockOf[t])) \in Nat /\ Cardinality(Users(lockOf[t])) # 0
  BY <1>2, <1>3, FS_EmptySet, FS_CardinalityType
<1>5. refs[lockOf[t]] = Cardinality(Users(lockOf[t]))
  BY <1>2 DEF GuardConsistent
<1>. QED BY <1>2, <1>3, <1>4, <1>5

\* Moving a call forward keeps its type.
LEMMA CallTypes ==
  /\ \A r \in StopCalls : [r EXCEPT !.at = "done"] \in StopCalls
  /\ \A r \in DeleteCalls : \A p \in {"memory", "refused", "deleted"} :
        [r EXCEPT !.at = p] \in DeleteCalls
BY DEF StopCalls, DeleteCalls

LEMMA NextTyping == TypeOK /\ GuardConsistent /\ [Next]_vars => TypeOK'
<1>0. SUFFICES ASSUME TypeOK, GuardConsistent, [Next]_vars PROVE TypeOK'
  OBVIOUS
<1>. USE TurnsAssumption, ConvsAssumption, SizesAssumption
     DEF Everywhere, InWorker, InGuard, Locked, InGraph, Terminal, Results, Goto,
         lockVars, flagVars, storeVars, callVars
<1>1. ASSUME NEW t \in Turns, StartWorker(t) PROVE TypeOK'
  BY <1>0, <1>1 DEF TypeOK, StartWorker
<1>2. ASSUME NEW t \in Turns, RejectInput(t) PROVE TypeOK'
  BY <1>0, <1>2 DEF TypeOK, RejectInput
<1>3. ASSUME NEW t \in Turns, EnterGuard(t) PROVE TypeOK'
  BY <1>0, <1>3 DEF TypeOK, EnterGuard
<1>4. ASSUME NEW t \in Turns, AcquireLock(t) PROVE TypeOK'
  BY <1>0, <1>4 DEF TypeOK, AcquireLock
<1>5. ASSUME NEW t \in Turns, ClearStop(t) PROVE TypeOK'
  BY <1>0, <1>5 DEF TypeOK, ClearStop
<1>6. ASSUME NEW t \in Turns, RegisterRun(t) PROVE TypeOK'
  BY <1>0, <1>6 DEF TypeOK, RegisterRun
<1>7. ASSUME NEW t \in Turns, CreateRun(t) PROVE TypeOK'
  <2>1. messages \in [Convs -> Seq(Entries)] /\ ConvOf[t] \in Convs /\ "user" \in Roles
    BY <1>0 DEF TypeOK, Roles
  <2>2. [messages EXCEPT ![ConvOf[t]] = Append(@, <<t, "user">>)] \in [Convs -> Seq(Entries)]
    BY <2>1, StoredType
  <2>3. messages' \in [Convs -> Seq(Entries)]
    BY <1>7, <2>1, <2>2 DEF CreateRun
  <2>4. pc' \in [Turns -> Everywhere]
    BY <1>0, <1>7 DEF TypeOK, CreateRun
  <2>5. rows' \subseteq Convs
    BY <1>0, <1>7, <2>1 DEF TypeOK, CreateRun
  <2>6. runRow' \in [Turns -> {"none", "running"} \cup Results]
    BY <1>0, <1>7 DEF TypeOK, CreateRun
  <2>. QED BY <1>0, <1>7, <2>3, <2>4, <2>5, <2>6 DEF TypeOK, CreateRun
<1>8. ASSUME NEW t \in Turns, Superstep(t) PROVE TypeOK'
  BY <1>0, <1>8 DEF TypeOK, Superstep
<1>9. ASSUME NEW t \in Turns, ObserveStop(t) PROVE TypeOK'
  BY <1>0, <1>9 DEF TypeOK, ObserveStop
<1>10. ASSUME NEW t \in Turns, GraphEnds(t) PROVE TypeOK'
  BY <1>0, <1>10 DEF TypeOK, GraphEnds
<1>11. ASSUME NEW t \in Turns, GraphFails(t) PROVE TypeOK'
  BY <1>0, <1>11 DEF TypeOK, GraphFails
<1>12. ASSUME NEW t \in Turns, Cleanup(t) PROVE TypeOK'
  BY <1>0, <1>12 DEF TypeOK, Cleanup
<1>13. ASSUME NEW t \in Turns, CompleteRun(t) PROVE TypeOK'
  <2>1. messages \in [Convs -> Seq(Entries)] /\ ConvOf[t] \in Convs /\ "assistant" \in Roles
    BY <1>0 DEF TypeOK, Roles
  <2>2. [messages EXCEPT ![ConvOf[t]] = Append(@, <<t, "assistant">>)] \in [Convs -> Seq(Entries)]
    BY <2>1, StoredType
  <2>3. messages' \in [Convs -> Seq(Entries)]
    BY <1>13, <2>1, <2>2 DEF CompleteRun
  <2>4. pc' \in [Turns -> Everywhere]
    BY <1>0, <1>13 DEF TypeOK, CompleteRun
  <2>5. rows' \subseteq Convs
    BY <1>0, <1>13, <2>1 DEF TypeOK, CompleteRun
  <2>6. runRow' \in [Turns -> {"none", "running"} \cup Results]
    BY <1>0, <1>13 DEF TypeOK, CompleteRun
  <2>. QED BY <1>0, <1>13, <2>3, <2>4, <2>5, <2>6 DEF TypeOK, CompleteRun
<1>14. ASSUME NEW t \in Turns, SaveUser(t) PROVE TypeOK'
  <2>1. messages \in [Convs -> Seq(Entries)] /\ ConvOf[t] \in Convs /\ "user" \in Roles
    BY <1>0 DEF TypeOK, Roles
  <2>2. [messages EXCEPT ![ConvOf[t]] = Append(@, <<t, "user">>)] \in [Convs -> Seq(Entries)]
    BY <2>1, StoredType
  <2>3. messages' \in [Convs -> Seq(Entries)]
    BY <1>14, <2>1, <2>2 DEF SaveUser
  <2>4. pc' \in [Turns -> Everywhere]
    BY <1>0, <1>14, ZenonT(30) DEF TypeOK, SaveUser
  <2>. QED BY <1>0, <1>14, <2>3, <2>4 DEF TypeOK, SaveUser
<1>15. ASSUME NEW t \in Turns, SaveReply(t) PROVE TypeOK'
  <2>1. messages \in [Convs -> Seq(Entries)] /\ ConvOf[t] \in Convs /\ "assistant" \in Roles
    BY <1>0 DEF TypeOK, Roles
  <2>2. [messages EXCEPT ![ConvOf[t]] = Append(@, <<t, "assistant">>)] \in [Convs -> Seq(Entries)]
    BY <2>1, StoredType
  <2>3. messages' \in [Convs -> Seq(Entries)]
    BY <1>15, <2>1, <2>2 DEF SaveReply
  <2>4. pc' \in [Turns -> Everywhere]
    BY <1>0, <1>15 DEF TypeOK, SaveReply
  <2>. QED BY <1>0, <1>15, <2>3, <2>4 DEF TypeOK, SaveReply
<1>16. ASSUME NEW t \in Turns, RememberUser(t) PROVE TypeOK'
  <2>1. window \in [Convs -> Seq(Entries)] /\ ConvOf[t] \in Convs /\ "user" \in Roles
    BY <1>0 DEF TypeOK, Roles
  <2>2. [window EXCEPT ![ConvOf[t]] = LastN(Append(@, <<t, "user">>), WindowSize)] \in [Convs -> Seq(Entries)]
    BY <2>1, StoredType
  <2>3. window' \in [Convs -> Seq(Entries)]
    BY <1>16, <2>1, <2>2 DEF RememberUser
  <2>4. pc' \in [Turns -> Everywhere]
    BY <1>0, <1>16, ZenonT(30) DEF TypeOK, RememberUser
  <2>. QED BY <1>0, <1>16, <2>3, <2>4 DEF TypeOK, RememberUser
<1>17. ASSUME NEW t \in Turns, RememberReply(t) PROVE TypeOK'
  <2>1. window \in [Convs -> Seq(Entries)] /\ ConvOf[t] \in Convs /\ "assistant" \in Roles
    BY <1>0 DEF TypeOK, Roles
  <2>2. [window EXCEPT ![ConvOf[t]] = LastN(Append(@, <<t, "assistant">>), WindowSize)] \in [Convs -> Seq(Entries)]
    BY <2>1, StoredType
  <2>3. window' \in [Convs -> Seq(Entries)]
    BY <1>17, <2>1, <2>2 DEF RememberReply
  <2>4. pc' \in [Turns -> Everywhere]
    BY <1>0, <1>17 DEF TypeOK, RememberReply
  <2>. QED BY <1>0, <1>17, <2>3, <2>4 DEF TypeOK, RememberReply
<1>18. ASSUME NEW t \in Turns, ReleaseLock(t) PROVE TypeOK'
  BY <1>0, <1>18 DEF TypeOK, ReleaseLock
<1>19. ASSUME NEW t \in Turns, LeaveGuard(t) PROVE TypeOK'
  <2>1. pc[t] = "leaving" /\ refs' = [refs EXCEPT ![lockOf[t]] = @ - 1]
    BY <1>19 DEF LeaveGuard
  <2>2. refs' \in [Turns -> Nat]
    BY <1>0, <2>1, LeaverCounted DEF TypeOK
  <2>. QED BY <1>0, <1>19, <2>2 DEF TypeOK, LeaveGuard
<1>20. ASSUME NEW t \in Turns, GiveUp(t) PROVE TypeOK'
  BY <1>0, <1>20 DEF TypeOK, GiveUp
<1>21. ASSUME NEW t \in Turns, GiveUpQueued(t) PROVE TypeOK'
  BY <1>0, <1>21 DEF TypeOK, GiveUpQueued
<1>22. ASSUME NEW s \in Stoppers, StopLookup(s) PROVE TypeOK'
  BY <1>0, <1>22 DEF TypeOK, StopCalls, StopLookup
<1>23. ASSUME NEW s \in Stoppers, StopConversation(s) PROVE TypeOK'
  BY <1>0, <1>23 DEF TypeOK, StopCalls, StopConversation
<1>24. ASSUME NEW s \in Stoppers, RequestStop(s) PROVE TypeOK'
  <2>1. stopper[s] \in StopCalls /\ stopper[s].at = "found" /\ stopper[s].conv \in Convs
    BY <1>0, <1>24 DEF TypeOK, RequestStop
  <2>2. stops' \subseteq Convs /\ marked' \subseteq Turns
    BY <1>0, <1>24, <2>1 DEF TypeOK, RequestStop
  <2>3. [stopper[s] EXCEPT !.at = "done"] \in StopCalls
    BY <2>1 DEF StopCalls
  <2>4. stopper' \in [Stoppers -> StopCalls]
    BY <1>0, <1>24, <2>3 DEF TypeOK, RequestStop
  <2>5. \A q \in Stoppers : stopper'[q].at = "found" => stopper'[q].conv \in Convs
    BY <1>0, <1>24 DEF TypeOK, RequestStop, StopCalls
  <2>. QED BY <1>0, <1>24, <2>2, <2>4, <2>5 DEF TypeOK, RequestStop
<1>25. ASSUME NEW d \in Deleters, DeleteRows(d) PROVE TypeOK'
  BY <1>0, <1>25 DEF TypeOK, DeleteCalls, DeleteRows
<1>26. ASSUME NEW d \in Deleters, DeleteCheckpoint(d) PROVE TypeOK'
  <2>1. \A p \in {"memory", "refused", "deleted"} : [deleter[d] EXCEPT !.at = p] \in DeleteCalls
    BY <1>0, CallTypes DEF TypeOK
  <2>2. deleter' \in [Deleters -> DeleteCalls]
    BY <1>0, <1>26, <2>1 DEF TypeOK, DeleteCheckpoint
  <2>3. <<>> \in Seq(Entries) /\ deleter[d].at \in {"checkpoint", "memory"}
    BY <1>26 DEF DeleteCheckpoint
  <2>4. window' \in [Convs -> Seq(Entries)]
    BY <1>0, <1>26, <2>3 DEF TypeOK, DeleteCheckpoint
  <2>. QED BY <1>0, <1>26, <2>2, <2>4 DEF TypeOK, DeleteCheckpoint
<1>27. ASSUME NEW d \in Deleters, DeleteMemory(d) PROVE TypeOK'
  <2>1. \A p \in {"memory", "refused", "deleted"} : [deleter[d] EXCEPT !.at = p] \in DeleteCalls
    BY <1>0, CallTypes DEF TypeOK
  <2>2. deleter' \in [Deleters -> DeleteCalls]
    BY <1>0, <1>27, <2>1 DEF TypeOK, DeleteMemory
  <2>3. <<>> \in Seq(Entries) /\ deleter[d].at \in {"checkpoint", "memory"}
    BY <1>27 DEF DeleteMemory
  <2>4. window' \in [Convs -> Seq(Entries)]
    BY <1>0, <1>27, <2>3 DEF TypeOK, DeleteMemory
  <2>. QED BY <1>0, <1>27, <2>2, <2>4 DEF TypeOK, DeleteMemory
<1>28. ASSUME Crash PROVE TypeOK'
  <2>1. pc' \in [Turns -> Everywhere] /\ client' \in [Turns -> {"waiting", "answered", "gaveUp"}]
    BY <1>0, <1>28 DEF TypeOK, Crash
  <2>2. \A s \in Stoppers : [stopper[s] EXCEPT !.at = "done"] \in StopCalls
    BY <1>0, CallTypes DEF TypeOK
  <2>3. stopper' \in [Stoppers -> StopCalls]
    BY <1>0, <1>28, <2>2 DEF TypeOK, Crash
  <2>4. \A q \in Stoppers : stopper'[q].at # "found"
    BY <1>0, <1>28 DEF TypeOK, Crash, StopCalls
  <2>5. \A d \in Deleters, p \in {"deleted", "refused"} : [deleter[d] EXCEPT !.at = p] \in DeleteCalls
    BY <1>0, CallTypes DEF TypeOK
  <2>6. deleter' \in [Deleters -> DeleteCalls]
    BY <1>0, <1>28, <2>5 DEF TypeOK, Crash
  <2>. QED BY <1>0, <1>28, <2>1, <2>3, <2>4, <2>6 DEF TypeOK, Crash
<1>29. CASE UNCHANGED vars
  BY <1>0, <1>29 DEF TypeOK, vars
<1>. QED
  BY <1>0, <1>1, <1>2, <1>3, <1>4, <1>5, <1>6, <1>7, <1>8, <1>9, <1>10, <1>11, <1>12, <1>13, <1>14, <1>15, <1>16, <1>17, <1>18, <1>19, <1>20, <1>21, <1>22, <1>23, <1>24, <1>25, <1>26, <1>27, <1>28, <1>29
     DEF Next, Worker, StopCall, DeleteCall

-----------------------------------------------------------------------------
(* The guard.                                                              *)

LEMMA InitGuard == Init => GuardInv
<1>. SUFFICES ASSUME Init PROVE GuardInv
  OBVIOUS
<1>. USE TurnsAssumption, ConvsAssumption
     DEF Init, InGuard, Locked, InGraph
<1>1. \A l \in Turns : Users(l) = {}
  BY DEF Users
<1>2. Cardinality({}) = 0
  BY FS_EmptySet
<1>3. GuardConsistent
  BY <1>1, <1>2 DEF GuardConsistent
<1>4. RegistryReclaimed /\ LocksDistinct
  BY DEF RegistryReclaimed, LocksDistinct
<1>. QED BY <1>3, <1>4 DEF GuardInv

\* The turns that are or have been inside their conversation.
Begun == Locked \cup {"leaving", "done", "killed"}

\* A step that takes no turn across a border of the guard.
Quiet ==
  /\ UNCHANGED lockVars
  /\ \A u \in Turns : /\ pc'[u] \in Locked <=> pc[u] \in Locked
                      /\ pc'[u] \in InGuard <=> pc[u] \in InGuard
                      /\ pc'[u] \in Begun <=> pc[u] \in Begun
                      /\ pc'[u] \in {"queued", "started"} => pc[u] \in {"queued", "started"}

\* Every step crosses a border of the guard in one of four ways, is a crash, or
\* is quiet.
LEMMA StepKinds ==
  ASSUME TypeOK, [Next]_vars
  PROVE  \/ Quiet
         \/ \E t \in Turns : \/ EnterGuard(t) \/ AcquireLock(t)
                             \/ ReleaseLock(t) \/ LeaveGuard(t)
         \/ Crash
<1> DEFINE Move(t, from, to) == /\ pc[t] \in from /\ \E p \in to : pc' = [pc EXCEPT ![t] = p]
                                /\ UNCHANGED lockVars
<1>. USE DEF Quiet, Goto
<1>1. ASSUME NEW t \in Turns,
             \/ Move(t, {"queued"}, {"started", "dropped"})
             \/ Move(t, {"started"}, {"rejected"})
             \/ Move(t, Locked \ {"releasing"}, Locked)
      PROVE  Quiet
  BY <1>1 DEF TypeOK, Begun, Locked, InGuard, InGraph
<1>2. ASSUME UNCHANGED <<pc, lockVars>> PROVE Quiet
  BY <1>2
<1>3. ASSUME NEW t \in Turns, Worker(t)
      PROVE  \/ Quiet
             \/ EnterGuard(t) \/ AcquireLock(t) \/ ReleaseLock(t) \/ LeaveGuard(t)
  <2>1. CASE StartWorker(t) \/ RejectInput(t)
    BY <1>1, <2>1 DEF StartWorker, RejectInput
  <2>2. CASE ClearStop(t) \/ RegisterRun(t) \/ CreateRun(t) \/ Cleanup(t) \/ CompleteRun(t)
    BY <1>1, <2>2 DEF ClearStop, RegisterRun, CreateRun, Cleanup, CompleteRun, Locked, InGraph
  <2>3. CASE ObserveStop(t) \/ GraphEnds(t) \/ GraphFails(t)
    BY <1>1, <2>3 DEF ObserveStop, GraphEnds, GraphFails, Locked, InGraph
  <2>4. CASE SaveUser(t) \/ SaveReply(t) \/ RememberUser(t) \/ RememberReply(t)
    BY <1>1, <2>4 DEF SaveUser, SaveReply, RememberUser, RememberReply, Locked, InGraph
  <2>5. CASE Superstep(t)
    BY <1>2, <2>5 DEF Superstep
  <2>. QED BY <1>3, <2>1, <2>2, <2>3, <2>4, <2>5 DEF Worker
<1>4. ASSUME NEW t \in Turns, GiveUp(t) \/ GiveUpQueued(t) PROVE Quiet
  BY <1>1, <1>2, <1>4 DEF GiveUp, GiveUpQueued
<1>5. ASSUME NEW s \in Stoppers, StopCall(s) PROVE Quiet
  BY <1>2, <1>5 DEF StopCall, StopLookup, StopConversation, RequestStop
<1>6. ASSUME NEW d \in Deleters, DeleteCall(d) PROVE Quiet
  BY <1>2, <1>6 DEF DeleteCall, DeleteRows, DeleteCheckpoint, DeleteMemory
<1>7. CASE UNCHANGED vars
  BY <1>2, <1>7 DEF vars
<1>. QED BY <1>3, <1>4, <1>5, <1>6, <1>7 DEF Next

LEMMA QuietKeepsGuard ==
  ASSUME TypeOK, GuardInv, Quiet
  PROVE  GuardInv'
<1>. USE TurnsAssumption DEF TypeOK, lockVars, Quiet
<1>1. GuardConsistent'
  <2>1. \A l \in Turns : Users(l)' = Users(l)
    BY DEF Users
  <2>. QED BY <2>1 DEF GuardInv, GuardConsistent
<1>2. RegistryReclaimed'
  BY DEF GuardInv, RegistryReclaimed
<1>3. LocksDistinct'
  BY DEF GuardInv, LocksDistinct
<1>. QED BY <1>1, <1>2, <1>3 DEF GuardInv

LEMMA EnterKeepsGuard ==
  ASSUME TypeOK, GuardInv, NEW t \in Turns, EnterGuard(t)
  PROVE  GuardInv'
<1> DEFINE c == ConvOf[t]
           entry == IF registry[c] = NoTurn THEN t ELSE registry[c]
<1>. USE TurnsAssumption, ConvsAssumption
<1>1. /\ pc[t] = "started"
      /\ c \in Convs /\ entry \in Turns
      /\ lockOf[t] = NoTurn
      /\ pc' = [pc EXCEPT ![t] = "waiting"]
      /\ lockOf' = [lockOf EXCEPT ![t] = entry]
      /\ registry' = [registry EXCEPT ![c] = entry]
      /\ refs' = [refs EXCEPT ![entry] = @ + 1]
      /\ holder' = holder
  <2>1. pc[t] = "started" /\ pc[t] \notin InGuard
    BY DEF EnterGuard, InGuard, Locked, InGraph
  <2>2. lockOf[t] = NoTurn
    BY <2>1 DEF GuardInv, GuardConsistent
  <2>3. c \in Convs /\ entry \in Turns
    BY DEF TypeOK
  <2>. QED BY <2>1, <2>2, <2>3 DEF EnterGuard, Goto
<1>2. entry = t \/ pc[entry] \notin {"queued", "started"}
  BY <1>1 DEF TypeOK, GuardInv, LocksDistinct
<1>3. \A u \in Turns \ {t} : pc[u] \in InGuard /\ ConvOf[u] = c => lockOf[u] = entry
  BY <1>1 DEF GuardInv, GuardConsistent
<1>4. \A u \in Turns : lockOf[u] = entry => pc[u] \in InGuard /\ ConvOf[u] = c
  <2>1. CASE registry[c] = NoTurn
    BY <1>1, <2>1 DEF TypeOK, GuardInv, GuardConsistent, LocksDistinct
  <2>2. CASE registry[c] # NoTurn
    BY <1>1, <2>2 DEF TypeOK, GuardInv, GuardConsistent, LocksDistinct
  <2>. QED BY <2>1, <2>2
<1>5. GuardConsistent'
  <2>1. \A u \in Turns : pc'[u] \in InGuard => /\ lockOf'[u] \in Turns
                                              /\ registry'[ConvOf[u]] = lockOf'[u]
    BY <1>1, <1>3 DEF TypeOK, GuardInv, GuardConsistent
  <2>2. \A u \in Turns : pc'[u] \notin InGuard => lockOf'[u] = NoTurn
    BY <1>1 DEF TypeOK, GuardInv, GuardConsistent, InGuard, Locked
  <2>3. \A l \in Turns : refs'[l] = Cardinality(Users(l)')
    <3>1. \A l \in Turns \ {entry} : Users(l)' = Users(l) /\ refs'[l] = refs[l]
      BY <1>1 DEF TypeOK, Users
    <3>2. Users(entry)' = Users(entry) \cup {t} /\ t \notin Users(entry)
      BY <1>1 DEF TypeOK, Users
    <3>3. IsFiniteSet(Users(entry))
      BY FS_Subset DEF Users
    <3>4. Cardinality(Users(entry)') = Cardinality(Users(entry)) + 1
      BY <3>2, <3>3, FS_AddElement
    <3>5. refs'[entry] = refs[entry] + 1
      BY <1>1 DEF TypeOK
    <3>. QED BY <1>1, <3>1, <3>4, <3>5 DEF GuardInv, GuardConsistent
  <2>4. \A u \in Turns : pc'[u] \in Locked <=> lockOf'[u] \in Turns /\ holder'[lockOf'[u]] = u
    <3>1. "waiting" \notin Locked /\ "started" \notin Locked
      BY DEF Locked, InGraph
    <3>2. holder[entry] # t
      BY <1>1, <3>1 DEF TypeOK, GuardInv, LocksDistinct
    <3>. QED BY <1>1, <3>1, <3>2 DEF TypeOK, GuardInv, GuardConsistent
  <2>. QED BY <2>1, <2>2, <2>3, <2>4 DEF GuardConsistent
<1>6. RegistryReclaimed'
  <2>1. pc'[t] \in InGuard /\ registry'[c] # NoTurn
    BY <1>1 DEF TypeOK, InGuard
  <2>2. \A u \in Turns \ {t} : pc'[u] = pc[u]
    BY <1>1 DEF TypeOK
  <2>3. \A e \in Convs \ {c} : registry'[e] = registry[e]
    BY <1>1 DEF TypeOK
  <2>. QED BY <2>1, <2>2, <2>3 DEF GuardInv, RegistryReclaimed
<1>7. LocksDistinct'
  <2>1. \A e \in Convs \ {c} : registry[e] # entry
    BY <1>1, <1>2 DEF TypeOK, GuardInv, LocksDistinct
  <2>2. \A e, f \in Convs : registry'[e] = registry'[f] /\ registry'[e] # NoTurn => e = f
    BY <1>1, <2>1 DEF TypeOK, GuardInv, LocksDistinct
  <2>3. pc'[entry] \notin {"queued", "started"}
    BY <1>1, <1>2 DEF TypeOK
  <2>4. \A u \in Turns : pc[u] \notin {"queued", "started"} => pc'[u] \notin {"queued", "started"}
    BY <1>1 DEF TypeOK
  <2>5. \A e \in Convs : registry'[e] \in Turns => pc'[registry'[e]] \notin {"queued", "started"}
    BY <1>1, <2>3, <2>4 DEF TypeOK, GuardInv, LocksDistinct
  <2>6. \A u \in Turns : lockOf'[u] \in Turns => pc'[lockOf'[u]] \notin {"queued", "started"}
    BY <1>1, <2>3, <2>4 DEF TypeOK, GuardInv, LocksDistinct
  <2>7. \A l \in Turns : holder'[l] \in Turns => /\ pc'[holder'[l]] \in Locked
                                                 /\ lockOf'[holder'[l]] = l
    <3>1. \A l \in Turns : holder[l] # t
      BY <1>1 DEF TypeOK, GuardInv, LocksDistinct, Locked, InGraph
    <3>. QED BY <1>1, <3>1 DEF TypeOK, GuardInv, LocksDistinct
  <2>. QED BY <2>2, <2>5, <2>6, <2>7 DEF LocksDistinct
<1>. QED BY <1>5, <1>6, <1>7 DEF GuardInv

LEMMA AcquireKeepsGuard ==
  ASSUME TypeOK, GuardInv, NEW t \in Turns, AcquireLock(t)
  PROVE  GuardInv'
<1> DEFINE l == lockOf[t]
<1>. USE TurnsAssumption, ConvsAssumption
<1>1. /\ pc[t] \in InGuard /\ pc[t] \notin Locked /\ pc[t] \notin {"queued", "started"}
      /\ l \in Turns /\ holder[l] = NoTurn
      /\ pc' = [pc EXCEPT ![t] = "locked"]
      /\ holder' = [holder EXCEPT ![l] = t]
      /\ UNCHANGED <<lockOf, registry, refs>>
  <2>1. pc[t] = "waiting" /\ pc[t] \in InGuard /\ pc[t] \notin Locked
    BY DEF AcquireLock, InGuard, Locked, InGraph
  <2>2. l \in Turns
    BY <2>1 DEF GuardInv, GuardConsistent
  <2>. QED BY <2>1, <2>2 DEF AcquireLock, Goto
<1>2. "locked" \in Locked /\ "locked" \in InGuard /\ "locked" \notin {"queued", "started"}
  BY DEF Locked, InGuard
<1>3. GuardConsistent'
  <2>1. \A k \in Turns : Users(k)' = Users(k)
    BY <1>1 DEF Users
  <2>2. \A u \in Turns : pc'[u] \in Locked <=> lockOf'[u] \in Turns /\ holder'[lockOf'[u]] = u
    BY <1>1, <1>2 DEF TypeOK, GuardInv, GuardConsistent
  <2>3. \A u \in Turns : pc'[u] \in InGuard <=> pc[u] \in InGuard
    BY <1>1, <1>2 DEF TypeOK
  <2>. QED BY <1>1, <2>1, <2>2, <2>3 DEF GuardInv, GuardConsistent
<1>4. RegistryReclaimed'
  BY <1>1, <1>2 DEF TypeOK, GuardInv, RegistryReclaimed
<1>5. LocksDistinct'
  <2>1. \A u \in Turns : pc[u] \notin {"queued", "started"} => pc'[u] \notin {"queued", "started"}
    BY <1>1, <1>2 DEF TypeOK
  <2>2. \A k \in Turns : holder'[k] \in Turns => /\ pc'[holder'[k]] \in Locked
                                                 /\ lockOf'[holder'[k]] = k
    BY <1>1, <1>2 DEF TypeOK, GuardInv, LocksDistinct
  <2>. QED BY <1>1, <2>1, <2>2 DEF TypeOK, GuardInv, LocksDistinct
<1>. QED BY <1>3, <1>4, <1>5 DEF GuardInv

LEMMA ReleaseKeepsGuard ==
  ASSUME TypeOK, GuardInv, NEW t \in Turns, ReleaseLock(t)
  PROVE  GuardInv'
<1> DEFINE l == lockOf[t]
<1>. USE TurnsAssumption, ConvsAssumption
<1>1. /\ pc[t] \in InGuard /\ pc[t] \in Locked
      /\ l \in Turns /\ holder[l] = t
      /\ pc' = [pc EXCEPT ![t] = "leaving"]
      /\ holder' = [holder EXCEPT ![l] = NoTurn]
      /\ UNCHANGED <<lockOf, registry, refs>>
  <2>1. pc[t] = "releasing" /\ pc[t] \in InGuard /\ pc[t] \in Locked
    BY DEF ReleaseLock, InGuard, Locked, InGraph
  <2>2. l \in Turns /\ holder[l] = t
    BY <2>1 DEF GuardInv, GuardConsistent
  <2>. QED BY <2>1, <2>2 DEF ReleaseLock, Goto
<1>2. "leaving" \notin Locked /\ "leaving" \in InGuard /\ "leaving" \notin {"queued", "started"}
  BY DEF Locked, InGuard, InGraph
<1>3. GuardConsistent'
  <2>1. \A k \in Turns : Users(k)' = Users(k)
    BY <1>1 DEF Users
  <2>2. \A u \in Turns : pc'[u] \in Locked <=> lockOf'[u] \in Turns /\ holder'[lockOf'[u]] = u
    BY <1>1, <1>2 DEF TypeOK, GuardInv, GuardConsistent
  <2>3. \A u \in Turns : pc'[u] \in InGuard <=> pc[u] \in InGuard
    BY <1>1, <1>2 DEF TypeOK
  <2>. QED BY <1>1, <2>1, <2>2, <2>3 DEF GuardInv, GuardConsistent
<1>4. RegistryReclaimed'
  BY <1>1, <1>2 DEF TypeOK, GuardInv, RegistryReclaimed
<1>5. LocksDistinct'
  <2>1. \A u \in Turns : pc[u] \notin {"queued", "started"} => pc'[u] \notin {"queued", "started"}
    BY <1>1, <1>2 DEF TypeOK
  <2>2. \A k \in Turns : holder'[k] \in Turns => /\ holder'[k] # t
                                                 /\ holder'[k] = holder[k]
    BY <1>1 DEF TypeOK, GuardInv, LocksDistinct
  <2>3. \A k \in Turns : holder'[k] \in Turns => /\ pc'[holder'[k]] \in Locked
                                                 /\ lockOf'[holder'[k]] = k
    BY <1>1, <2>2 DEF TypeOK, GuardInv, LocksDistinct
  <2>. QED BY <1>1, <2>1, <2>3 DEF TypeOK, GuardInv, LocksDistinct
<1>. QED BY <1>3, <1>4, <1>5 DEF GuardInv

\* The step the reference count is there for: when the last user leaves there is
\* no other turn of the conversation in the guard, so the entry may go.
LEMMA LeaveKeepsGuard ==
  ASSUME TypeOK, GuardInv, NEW t \in Turns, LeaveGuard(t)
  PROVE  GuardInv'
<1> DEFINE c == ConvOf[t]
<1>. USE TurnsAssumption, ConvsAssumption
<1>0. PICK l \in Turns : l = lockOf[t]
  BY LeaverCounted DEF GuardInv, LeaveGuard
<1>1. /\ pc[t] = "leaving" /\ pc[t] \in InGuard /\ pc[t] \notin Locked
      /\ c \in Convs /\ registry[c] = l
      /\ pc' = [pc EXCEPT ![t] = "done"]
      /\ lockOf' = [lockOf EXCEPT ![t] = NoTurn]
      /\ refs' = [refs EXCEPT ![l] = @ - 1]
      /\ registry' = IF refs[l] = 1 THEN [registry EXCEPT ![c] = NoTurn] ELSE registry
      /\ holder' = holder
  <2>1. pc[t] = "leaving" /\ pc[t] \in InGuard /\ pc[t] \notin Locked
    BY DEF LeaveGuard, InGuard, Locked, InGraph
  <2>2. c \in Convs /\ registry[c] = l
    BY <1>0, <2>1 DEF TypeOK, GuardInv, GuardConsistent
  <2>. QED BY <1>0, <2>1, <2>2 DEF LeaveGuard, Goto
<1>2. /\ lockOf[t] = l
      /\ refs[l] = Cardinality(Users(l))
      /\ IsFiniteSet(Users(l))
      /\ t \in Users(l)
  BY <1>0, <1>1, LeaverCounted DEF GuardInv
<1>3. "done" \notin Locked /\ "done" \notin InGuard /\ "done" \notin {"queued", "started"}
  BY DEF Locked, InGuard, InGraph
<1>4. Users(l)' = Users(l) \ {t}
  BY <1>1, <1>2 DEF TypeOK, Users
<1>5. Cardinality(Users(l)') = refs[l] - 1
  BY <1>2, <1>4, FS_RemoveElement
<1>6. \A u \in Turns : pc[u] \in InGuard /\ ConvOf[u] = c <=> lockOf[u] = l
  BY <1>1, <1>2 DEF TypeOK, GuardInv, GuardConsistent, LocksDistinct
<1>7. refs[l] = 1 <=> \A u \in Turns \ {t} : lockOf[u] # l
  <2>1. IsFiniteSet(Users(l) \ {t})
    BY <1>2, FS_RemoveElement
  <2>2. Cardinality(Users(l) \ {t}) = 0 <=> Users(l) \ {t} = {}
    BY <2>1, FS_EmptySet
  <2>3. refs[l] \in Nat
    BY <1>2 DEF TypeOK
  <2>4. Users(l) \ {t} = {} <=> \A u \in Turns \ {t} : lockOf[u] # l
    BY DEF Users
  <2>. QED BY <1>4, <1>5, <2>2, <2>3, <2>4
<1>8. \A u \in Turns \ {t} : pc'[u] = pc[u] /\ lockOf'[u] = lockOf[u]
  BY <1>1 DEF TypeOK
<1>9. \A e \in Convs \ {c} : registry'[e] = registry[e]
  BY <1>1 DEF TypeOK
<1>10. \A u \in Turns \ {t} : pc[u] \in InGuard => registry'[ConvOf[u]] = registry[ConvOf[u]]
  BY <1>1, <1>6, <1>7, <1>9
<1>11. GuardConsistent'
  <2>1. \A u \in Turns : pc'[u] \in InGuard => /\ lockOf'[u] \in Turns
                                              /\ registry'[ConvOf[u]] = lockOf'[u]
    BY <1>1, <1>3, <1>8, <1>10 DEF TypeOK, GuardInv, GuardConsistent
  <2>2. \A u \in Turns : pc'[u] \notin InGuard => lockOf'[u] = NoTurn
    BY <1>1, <1>8 DEF TypeOK, GuardInv, GuardConsistent
  <2>3. \A k \in Turns : refs'[k] = Cardinality(Users(k)')
    <3>1. \A k \in Turns \ {l} : Users(k)' = Users(k) /\ refs'[k] = refs[k]
      BY <1>1, <1>2 DEF TypeOK, Users
    <3>2. refs'[l] = refs[l] - 1
      BY <1>1, <1>2 DEF TypeOK
    <3>. QED BY <1>5, <3>1, <3>2 DEF GuardInv, GuardConsistent
  <2>4. \A u \in Turns : pc'[u] \in Locked <=> lockOf'[u] \in Turns /\ holder'[lockOf'[u]] = u
    BY <1>1, <1>3, <1>8 DEF TypeOK, GuardInv, GuardConsistent
  <2>. QED BY <2>1, <2>2, <2>3, <2>4 DEF GuardConsistent
<1>12. RegistryReclaimed'
  <2>1. registry'[c] # NoTurn <=> \E u \in Turns : pc'[u] \in InGuard /\ ConvOf[u] = c
    BY <1>1, <1>2, <1>3, <1>6, <1>7, <1>8 DEF TypeOK
  <2>2. \A e \in Convs \ {c} :
           registry'[e] # NoTurn <=> \E u \in Turns : pc'[u] \in InGuard /\ ConvOf[u] = e
    BY <1>8, <1>9 DEF GuardInv, RegistryReclaimed
  <2>. QED BY <2>1, <2>2 DEF RegistryReclaimed
<1>13. LocksDistinct'
  <2>1. \A e \in Convs : registry'[e] # NoTurn => registry'[e] = registry[e]
    BY <1>1 DEF TypeOK
  <2>2. \A u \in Turns : pc[u] \notin {"queued", "started"} => pc'[u] \notin {"queued", "started"}
    BY <1>1, <1>3 DEF TypeOK
  <2>3. \A e, f \in Convs : registry'[e] = registry'[f] /\ registry'[e] # NoTurn => e = f
    BY <2>1 DEF GuardInv, LocksDistinct
  <2>4. \A e \in Convs : registry'[e] \in Turns => pc'[registry'[e]] \notin {"queued", "started"}
    BY <2>1, <2>2 DEF GuardInv, LocksDistinct
  <2>5. \A u \in Turns : lockOf'[u] \in Turns => pc'[lockOf'[u]] \notin {"queued", "started"}
    BY <1>1, <2>2 DEF TypeOK, GuardInv, LocksDistinct
  <2>6. \A k \in Turns : holder'[k] \in Turns => /\ pc'[holder'[k]] \in Locked
                                                 /\ lockOf'[holder'[k]] = k
    BY <1>1, <1>8 DEF TypeOK, GuardInv, LocksDistinct
  <2>. QED BY <2>3, <2>4, <2>5, <2>6 DEF LocksDistinct
<1>. QED BY <1>11, <1>12, <1>13 DEF GuardInv

\* After a crash nothing is left of the guard, and no turn is in it.
LEMMA CrashKeepsGuard ==
  ASSUME TypeOK, GuardInv, Crash
  PROVE  GuardInv'
<1>. USE TurnsAssumption, ConvsAssumption
<1>1. \A u \in Turns : pc'[u] \in Terminal
  BY DEF Crash, Terminal
<1>2. \A u \in Turns : pc'[u] \notin InGuard /\ pc'[u] \notin Locked
  BY <1>1 DEF InGuard, Locked, InGraph, Terminal
<1>3. /\ \A u \in Turns : lockOf'[u] = NoTurn /\ refs'[u] = 0 /\ holder'[u] = NoTurn
      /\ \A e \in Convs : registry'[e] = NoTurn
  BY DEF Crash
<1>4. \A k \in Turns : Users(k)' = {}
  BY <1>3 DEF Users
<1>5. Cardinality({}) = 0
  BY FS_EmptySet
<1>6. GuardConsistent'
  BY <1>2, <1>3, <1>4, <1>5 DEF GuardConsistent
<1>7. RegistryReclaimed' /\ LocksDistinct'
  BY <1>2, <1>3 DEF RegistryReclaimed, LocksDistinct
<1>. QED BY <1>6, <1>7 DEF GuardInv

-----------------------------------------------------------------------------
(* The theorems.                                                           *)

\* The host's state is well typed and its guard consistent in every state of
\* every behaviour, for any number of turns, conversations and calls.
THEOREM GuardCorrect == Spec => [](TypeOK /\ GuardInv)
<1>1. Init => TypeOK /\ GuardInv
  BY InitTyping, InitGuard
<1>2. TypeOK /\ GuardInv /\ [Next]_vars => (TypeOK /\ GuardInv)'
  <2>. SUFFICES ASSUME TypeOK, GuardInv, [Next]_vars PROVE TypeOK' /\ GuardInv'
    OBVIOUS
  <2>1. TypeOK'
    BY NextTyping DEF GuardInv
  <2>2. GuardInv'
    BY StepKinds, QuietKeepsGuard, EnterKeepsGuard, AcquireKeepsGuard,
       ReleaseKeepsGuard, LeaveKeepsGuard, CrashKeepsGuard
  <2>. QED BY <2>1, <2>2
<1>. QED BY <1>1, <1>2, PTL DEF Spec

LEMMA GuardExcludes == GuardInv => MutualExclusion
<1>. SUFFICES ASSUME GuardInv, NEW t \in Turns, NEW u \in Turns,
                     pc[t] \in Locked, pc[u] \in Locked, ConvOf[t] = ConvOf[u]
              PROVE  t = u
  BY DEF MutualExclusion
<1>1. lockOf[t] = lockOf[u]
  BY DEF GuardInv, GuardConsistent, InGuard
<1>. QED BY <1>1 DEF GuardInv, GuardConsistent

\* Turns of one conversation exclude each other.
THEOREM Exclusion == Spec => []MutualExclusion
BY GuardCorrect, GuardExcludes, PTL

\* The lock registry holds exactly the conversations that are in use.
THEOREM Reclaimed == Spec => []RegistryReclaimed
<1>1. GuardInv => RegistryReclaimed
  BY DEF GuardInv
<1>. QED BY <1>1, GuardCorrect, PTL

-----------------------------------------------------------------------------
(* The host implements the serial executor.                                *)

\* What the refinement mapping shows: a conversation's turn inside, if any.
InsideShown ==
  \A c \in Convs :
     /\ \A t \in Turns : pc[t] \in Locked /\ ConvOf[t] = c => InsideOf(c) = t
     /\ (\A t \in Turns : ~(pc[t] \in Locked /\ ConvOf[t] = c)) => InsideOf(c) = NoTurn

LEMMA InsideIs == MutualExclusion => InsideShown
<1>. SUFFICES ASSUME MutualExclusion, NEW c \in Convs
              PROVE  /\ \A t \in Turns : pc[t] \in Locked /\ ConvOf[t] = c => InsideOf(c) = t
                     /\ (\A t \in Turns : ~(pc[t] \in Locked /\ ConvOf[t] = c))
                           => InsideOf(c) = NoTurn
  BY DEF InsideShown
<1>1. ASSUME NEW t \in Turns, pc[t] \in Locked, ConvOf[t] = c PROVE InsideOf(c) = t
  <2>1. InsideOf(c) = CHOOSE u \in Turns : pc[u] \in Locked /\ ConvOf[u] = c
    BY <1>1 DEF InsideOf
  <2>2. \A u \in Turns : pc[u] \in Locked /\ ConvOf[u] = c <=> u = t
    BY <1>1 DEF MutualExclusion
  <2>. QED BY <2>1, <2>2
<1>. QED BY <1>1 DEF InsideOf

LEMMA SerialStep ==
  ASSUME TypeOK, GuardInv, InsideShown, InsideShown', [Next]_vars
  PROVE  [Serial!SerialNext]_(Serial!serialVars)
<1> DEFINE ins == [c \in Convs |-> InsideOf(c)]
           bgn == {t \in Turns : pc[t] \in Locked \cup {"leaving", "done", "killed"}}
<1>. USE TurnsAssumption, ConvsAssumption
<1>conv. \A t \in Turns : ConvOf[t] \in Convs
  OBVIOUS
<1>1. CASE Quiet
  <2>1. \A c \in Convs : InsideOf(c)' = InsideOf(c)
    BY <1>1 DEF Quiet, InsideShown
  <2>2. ins' = ins
    BY <2>1
  <2>3. bgn' = bgn
    BY <1>1 DEF Quiet, Begun
  <2>. QED BY <2>2, <2>3 DEF Serial!serialVars
<1>2. ASSUME NEW t \in Turns, EnterGuard(t) \/ LeaveGuard(t)
      PROVE  UNCHANGED <<ins, bgn>>
  <2>1. /\ \A u \in Turns : pc'[u] \in Locked <=> pc[u] \in Locked
        /\ \A u \in Turns : pc'[u] \in Begun <=> pc[u] \in Begun
    <3>1. CASE EnterGuard(t)
      BY <3>1, SMTT(20) DEF EnterGuard, Goto, TypeOK, Begun, Locked, InGraph
    <3>2. CASE LeaveGuard(t)
      BY <3>2, SMTT(20) DEF LeaveGuard, Goto, TypeOK, Begun, Locked, InGraph
    <3>. QED BY <1>2, <3>1, <3>2
  <2>2. \A c \in Convs : InsideOf(c)' = InsideOf(c)
    BY <2>1 DEF InsideShown
  <2>3. ins' = ins
    BY <2>2
  <2>4. bgn' = bgn
    BY <2>1 DEF Begun
  <2>. QED BY <2>3, <2>4
<1>3. ASSUME NEW t \in Turns, AcquireLock(t) PROVE Serial!Begin(t)
  <2>1. /\ pc[t] = "waiting" /\ pc' = [pc EXCEPT ![t] = "locked"]
        /\ lockOf[t] \in Turns /\ holder[lockOf[t]] = NoTurn
    BY <1>3 DEF AcquireLock, Goto, GuardInv, GuardConsistent, InGuard
  <2>2. "waiting" \notin Begun /\ "waiting" \notin Locked /\ "locked" \in Locked
    BY DEF Begun, Locked, InGraph
  <2>3. \A u \in Turns : ~(pc[u] \in Locked /\ ConvOf[u] = ConvOf[t])
    BY <2>1 DEF GuardInv, GuardConsistent, InGuard
  <2>4. InsideOf(ConvOf[t]) = NoTurn
    BY <1>conv, <2>3 DEF InsideShown
  <2>5. \A u \in Turns : pc'[u] \in Locked <=> pc[u] \in Locked \/ u = t
    BY <2>1, <2>2 DEF TypeOK
  <2>6. InsideOf(ConvOf[t])' = t
    BY <1>conv, <2>5 DEF InsideShown
  <2>7. \A c \in Convs \ {ConvOf[t]} : InsideOf(c)' = InsideOf(c)
    BY <2>5 DEF InsideShown
  <2>8. ins' = [ins EXCEPT ![ConvOf[t]] = t]
    BY <1>conv, <2>6, <2>7
  <2>9. t \notin bgn /\ bgn' = bgn \cup {t}
    BY <2>1, <2>2 DEF TypeOK, Begun
  <2>. QED BY <1>conv, <2>4, <2>8, <2>9 DEF Serial!Begin
<1>4. ASSUME NEW t \in Turns, ReleaseLock(t) PROVE Serial!End(t)
  <2>1. /\ pc[t] = "releasing" /\ pc' = [pc EXCEPT ![t] = "leaving"]
    BY <1>4 DEF ReleaseLock, Goto
  <2>2. "releasing" \in Locked /\ "leaving" \notin Locked /\ "leaving" \in Begun /\ "releasing" \in Begun
    BY DEF Begun, Locked, InGraph
  <2>3. \A u \in Turns : pc'[u] \in Locked <=> pc[u] \in Locked /\ u # t
    BY <2>1, <2>2 DEF TypeOK
  <2>4. InsideOf(ConvOf[t]) = t
    BY <1>conv, <2>1, <2>2 DEF InsideShown
  <2>5. \A u \in Turns : pc[u] \in Locked /\ ConvOf[u] = ConvOf[t] => u = t
    BY <1>conv, <2>4 DEF InsideShown
  <2>6. InsideOf(ConvOf[t])' = NoTurn
    BY <1>conv, <2>3, <2>5 DEF InsideShown
  <2>7. \A c \in Convs \ {ConvOf[t]} : InsideOf(c)' = InsideOf(c)
    BY <2>3 DEF InsideShown
  <2>8. ins' = [ins EXCEPT ![ConvOf[t]] = NoTurn]
    BY <1>conv, <2>6, <2>7
  <2>9. bgn' = bgn
    BY <2>1, <2>2 DEF TypeOK, Begun
  <2>. QED BY <1>conv, <2>4, <2>8, <2>9 DEF Serial!End
<1>5. CASE Crash
  <2>1. \A u \in Turns : pc'[u] \notin Locked
    BY <1>5 DEF Crash, Terminal, Locked, InGraph
  <2>2. \A c \in Convs : InsideOf(c)' = NoTurn
    BY <2>1 DEF InsideShown
  <2>3. ins' = [c \in Convs |-> NoTurn]
    BY <2>2
  <2>4. \A u \in Turns : pc'[u] \in Begun <=> pc[u] \in Begun
    BY <1>5 DEF Crash, Terminal, Begun, Locked, InGraph
  <2>5. bgn' = bgn
    BY <2>4 DEF Begun
  <2>. QED BY <2>3, <2>5 DEF Serial!Abort, Serial!SerialNext
<1>. QED
  BY StepKinds, <1>1, <1>2, <1>3, <1>4, <1>5 DEF Serial!SerialNext, Serial!serialVars

\* Every behaviour of the host is one of the serial executor.
THEOREM Refinement == Spec => SerialSpec
<1>1. Init => Serial!SerialInit
  BY TurnsAssumption DEF Init, Serial!SerialInit, InsideOf, Locked, InGraph
<1>2. Spec => [](TypeOK /\ GuardInv /\ InsideShown)
  BY GuardCorrect, GuardExcludes, InsideIs, PTL
<1>3. TypeOK /\ GuardInv /\ InsideShown /\ InsideShown' /\ [Next]_vars
        => [Serial!SerialNext]_(Serial!serialVars)
  BY SerialStep
<1>. QED BY <1>1, <1>2, <1>3, PTL DEF Spec, SerialSpec, Serial!SerialSpec

-----------------------------------------------------------------------------
(* Stop marks.                                                             *)

\* Where a mark on the conversation is a mark on the turn.
Stoppable == {"cleared", "active", "running"}

\* While a run goes on, a mark on its conversation was made for it.
MarkInv ==
  \A t \in Turns : pc[t] \in Stoppable /\ ConvOf[t] \in stops => t \in marked

\* What a worker's step does to the marks and to the outcomes.
MarkStep(t) ==
  /\ stops' \subseteq stops /\ marked' = marked
  /\ \A u \in Turns \ {t} : pc'[u] = pc[u] /\ result'[u] = result[u]
  /\ pc'[t] \in Stoppable => pc[t] \in Stoppable \/ ConvOf[t] \notin stops'
  /\ result'[t] = "cancelled" =>
       result[t] = "cancelled" \/ (pc[t] = "running" /\ ConvOf[t] \in stops)

LEMMA WorkerMarks ==
  ASSUME TypeOK, NEW t \in Turns, Worker(t)
  PROVE  MarkStep(t)
<1>. USE DEF MarkStep, TypeOK, Goto, Stoppable, flagVars
<1>1. CASE StartWorker(t) \/ RejectInput(t) \/ EnterGuard(t) \/ AcquireLock(t)
  BY <1>1 DEF StartWorker, RejectInput, EnterGuard, AcquireLock
<1>2. CASE ClearStop(t) \/ RegisterRun(t) \/ CreateRun(t) \/ Superstep(t)
  BY <1>2 DEF ClearStop, RegisterRun, CreateRun, Superstep
<1>3. CASE ObserveStop(t)
  BY <1>3 DEF ObserveStop
<1>4. CASE GraphEnds(t) \/ GraphFails(t) \/ Cleanup(t)
  BY <1>4 DEF GraphEnds, GraphFails, Cleanup
<1>5. CASE CompleteRun(t) \/ SaveUser(t) \/ SaveReply(t) \/ RememberUser(t) \/ RememberReply(t)
  BY <1>5 DEF CompleteRun, SaveUser, SaveReply, RememberUser, RememberReply
<1>6. CASE ReleaseLock(t) \/ LeaveGuard(t)
  BY <1>6 DEF ReleaseLock, LeaveGuard
<1>. QED BY <1>1, <1>2, <1>3, <1>4, <1>5, <1>6 DEF Worker

LEMMA NextMarks ==
  ASSUME TypeOK, MarkInv, NoStaleCancel, [Next]_vars
  PROVE  MarkInv' /\ NoStaleCancel'
<1>1. ASSUME NEW t \in Turns, Worker(t) PROVE MarkInv' /\ NoStaleCancel'
  <2>1. MarkStep(t)
    BY <1>1, WorkerMarks
  <2>. QED BY <2>1 DEF MarkStep, MarkInv, NoStaleCancel, Stoppable
<1>2. ASSUME NEW t \in Turns, GiveUp(t) \/ GiveUpQueued(t) PROVE MarkInv' /\ NoStaleCancel'
  BY <1>2 DEF GiveUp, GiveUpQueued, Goto, TypeOK, MarkInv, NoStaleCancel, Stoppable, flagVars
<1>3. ASSUME NEW s \in Stoppers, StopLookup(s) \/ StopConversation(s)
      PROVE  MarkInv' /\ NoStaleCancel'
  BY <1>3 DEF StopLookup, StopConversation, MarkInv, NoStaleCancel, flagVars
<1>4. ASSUME NEW s \in Stoppers, RequestStop(s) PROVE MarkInv' /\ NoStaleCancel'
  BY <1>4 DEF RequestStop, MarkInv, NoStaleCancel, Stoppable
<1>5. ASSUME NEW d \in Deleters, DeleteCall(d) PROVE MarkInv' /\ NoStaleCancel'
  BY <1>5 DEF DeleteCall, DeleteRows, DeleteCheckpoint, DeleteMemory, MarkInv,
              NoStaleCancel, flagVars
<1>6. CASE Crash
  BY <1>6 DEF Crash, MarkInv, NoStaleCancel
<1>7. CASE UNCHANGED vars
  BY <1>7 DEF vars, flagVars, MarkInv, NoStaleCancel
<1>. QED BY <1>1, <1>2, <1>3, <1>4, <1>5, <1>6, <1>7 DEF Next, StopCall

\* A run is cancelled only on a mark that was set while it was going on, for any
\* number of turns, stop calls and crashes.
THEOREM CancelsAreFresh == Spec => []NoStaleCancel
<1>1. Init => MarkInv /\ NoStaleCancel
  BY DEF Init, MarkInv, NoStaleCancel
<1>2. TypeOK /\ MarkInv /\ NoStaleCancel /\ [Next]_vars => (MarkInv /\ NoStaleCancel)'
  BY NextMarks
<1>. QED BY <1>1, <1>2, GuardCorrect, PTL DEF Spec

LEMMA MarksStay ==
  ASSUME TypeOK, MutualExclusion, [Next]_vars
  PROVE  \A t \in Turns : pc[t] \in InGraph /\ pc'[t] \in InGraph /\ ConvOf[t] \in stops
            => ConvOf[t] \in stops'
<1>1. SUFFICES ASSUME NEW t \in Turns, pc[t] \in InGraph, pc'[t] \in InGraph,
                      ConvOf[t] \in stops, ConvOf[t] \notin stops'
               PROVE  FALSE
  OBVIOUS
<1>2. pc[t] = "running" /\ pc'[t] = "running" /\ pc[t] \in Locked
  BY <1>1 DEF InGraph, Locked
<1>3. ASSUME NEW u \in Turns, Worker(u) PROVE FALSE
  <2>1. ClearStop(u) \/ Cleanup(u)
    BY <1>1, <1>3 DEF Worker, StartWorker, RejectInput, EnterGuard, AcquireLock, RegisterRun,
       CreateRun, Superstep, ObserveStop, GraphEnds, GraphFails, CompleteRun, SaveUser,
       SaveReply, RememberUser, RememberReply, ReleaseLock, LeaveGuard, flagVars
  <2>2. pc[u] \in {"locked", "ended"} /\ ConvOf[u] = ConvOf[t]
    BY <1>1, <2>1 DEF ClearStop, Cleanup
  <2>3. pc[u] \in Locked /\ u # t
    BY <1>2, <2>2 DEF Locked
  <2>. QED BY <1>2, <2>2, <2>3 DEF MutualExclusion
<1>4. ASSUME NEW u \in Turns, GiveUp(u) \/ GiveUpQueued(u) PROVE FALSE
  BY <1>1, <1>4 DEF GiveUp, GiveUpQueued, flagVars
<1>5. ASSUME NEW s \in Stoppers, StopCall(s) PROVE FALSE
  BY <1>1, <1>5 DEF StopCall, StopLookup, StopConversation, RequestStop, flagVars
<1>6. ASSUME NEW d \in Deleters, DeleteCall(d) PROVE FALSE
  BY <1>1, <1>6 DEF DeleteCall, DeleteRows, DeleteCheckpoint, DeleteMemory, flagVars
<1>7. ASSUME Crash PROVE FALSE
  <2>1. pc'[t] \in Terminal
    BY <1>7 DEF Crash, Terminal
  <2>. QED BY <1>2, <2>1 DEF Terminal
<1>8. CASE UNCHANGED vars
  BY <1>1, <1>8 DEF vars, flagVars
<1>. QED BY <1>3, <1>4, <1>5, <1>6, <1>7, <1>8 DEF Next

\* A mark on a conversation whose run goes on stays until the run has seen it or
\* ended: no waiting or finishing turn takes it away.
THEOREM MarksAreKept == Spec => StopMarkKept
<1>1. TypeOK /\ MutualExclusion /\ [Next]_vars
        => [\A t \in Turns : pc[t] \in InGraph /\ pc'[t] \in InGraph /\ ConvOf[t] \in stops
               => ConvOf[t] \in stops']_vars
  BY MarksStay
<1>. QED BY <1>1, GuardCorrect, GuardExcludes, PTL DEF Spec, StopMarkKept

-----------------------------------------------------------------------------
(* The window.                                                             *)

\* Every reply in w that has something before it follows its own message.
Paired(w) ==
  \A i \in 2..Len(w) : w[i][2] = "assistant" => w[i-1] = <<w[i][1], "user">>

\* While a turn is about to append its reply, the window ends with its message,
\* unless a delete call has emptied it meanwhile.
AnswerPending ==
  \A t \in Turns : pc[t] = "memReply" =>
     LET w == window[ConvOf[t]] IN w = <<>> \/ w[Len(w)] = <<t, "user">>

WindowInv == ReplyFollowsItsMessage /\ AnswerPending

LEMMA PairedAppend ==
  ASSUME NEW w \in Seq(Entries), NEW t \in Turns, NEW r \in Roles, Paired(w),
         r = "assistant" => w = <<>> \/ w[Len(w)] = <<t, "user">>
  PROVE  Paired(Append(w, <<t, r>>))
<1> DEFINE v == Append(w, <<t, r>>)
<1>1. /\ <<t, r>> \in Entries /\ Len(w) \in Nat /\ Len(v) = Len(w) + 1
      /\ v[Len(v)] = <<t, r>>
      /\ \A i \in 1..Len(w) : v[i] = w[i]
  BY DEF Entries
<1>2. SUFFICES ASSUME NEW i \in 2..Len(v), v[i][2] = "assistant"
               PROVE  v[i-1] = <<v[i][1], "user">>
  BY DEF Paired
<1>3. CASE i = Len(v)
  <2>1. r = "assistant" /\ Len(w) \in 1..Len(w) /\ w # <<>>
    BY <1>1, <1>2, <1>3
  <2>. QED BY <1>1, <1>3, <2>1
<1>4. CASE i # Len(v)
  <2>1. i \in 2..Len(w) /\ i - 1 \in 1..Len(w) /\ i \in 1..Len(w)
    BY <1>1, <1>4
  <2>. QED BY <1>1, <1>2, <2>1 DEF Paired
<1>. QED BY <1>3, <1>4

\* Trimming keeps the pairs and the last entry.
LEMMA PairedLastN ==
  ASSUME NEW w \in Seq(Entries), NEW n \in Nat \ {0}, Paired(w), w # <<>>
  PROVE  /\ Paired(LastN(w, n))
         /\ LastN(w, n) # <<>> /\ LastN(w, n)[Len(LastN(w, n))] = w[Len(w)]
<1>1. CASE Len(w) <= n
  BY <1>1 DEF LastN
<1>2. CASE ~(Len(w) <= n)
  <2> DEFINE m == Len(w) - n
             v == LastN(w, n)
  <2>1. m \in Nat /\ m >= 1 /\ Len(w) \in Nat /\ v = SubSeq(w, m + 1, Len(w))
    BY <1>2 DEF LastN
  <2>2. Len(v) = n /\ \A i \in 1..n : v[i] = w[m + i]
    BY <2>1
  <2>3. Paired(v)
    <3>1. SUFFICES ASSUME NEW i \in 2..n, v[i][2] = "assistant"
                   PROVE  v[i-1] = <<v[i][1], "user">>
      BY <2>2 DEF Paired
    <3>2. m + i \in 2..Len(w) /\ v[i] = w[m + i] /\ v[i-1] = w[(m + i) - 1]
      BY <2>1, <2>2
    <3>. QED BY <3>1, <3>2 DEF Paired
  <2>4. v # <<>> /\ v[Len(v)] = w[Len(w)]
    <3>1. Len(v) # 0 /\ v[n] = w[m + n] /\ m + n = Len(w)
      BY <2>1, <2>2
    <3>. QED BY <2>2, <3>1
  <2>. QED BY <2>3, <2>4
<1>. QED BY <1>1, <1>2

\* What the append of one entry to the window of t's conversation does.
Remembers(t, r) ==
  window' = [window EXCEPT ![ConvOf[t]] = LastN(Append(@, <<t, r>>), WindowSize)]

\* A step writes a window in one of three ways or leaves all windows alone.
LEMMA WindowSteps ==
  ASSUME TypeOK, [Next]_vars
  PROVE  \/ /\ window' = window
            /\ \A u \in Turns : pc'[u] = "memReply" => pc[u] = "memReply"
         \/ \E t \in Turns : /\ pc[t] = "memUser" /\ Remembers(t, "user")
                             /\ pc' = [pc EXCEPT ![t] = "memReply"]
         \/ \E t \in Turns : /\ pc[t] = "memReply" /\ Remembers(t, "assistant")
                             /\ pc' = [pc EXCEPT ![t] = "releasing"]
         \/ pc' = pc /\ \E c \in Convs : window' = [window EXCEPT ![c] = <<>>]
<1> DEFINE Idle == /\ window' = window
                   /\ \A u \in Turns : pc'[u] = "memReply" => pc[u] = "memReply"
<1>. USE DEF TypeOK, Goto, storeVars, Remembers
<1>1. ASSUME NEW t \in Turns,
             \/ StartWorker(t) \/ RejectInput(t) \/ EnterGuard(t) \/ AcquireLock(t)
             \/ ClearStop(t) \/ RegisterRun(t) \/ CreateRun(t) \/ Superstep(t)
      PROVE  Idle
  BY <1>1 DEF StartWorker, RejectInput, EnterGuard, AcquireLock, ClearStop, RegisterRun,
              CreateRun, Superstep
<1>2. ASSUME NEW t \in Turns,
             \/ ObserveStop(t) \/ GraphEnds(t) \/ GraphFails(t) \/ Cleanup(t) \/ CompleteRun(t)
             \/ SaveUser(t) \/ SaveReply(t) \/ ReleaseLock(t) \/ LeaveGuard(t)
      PROVE  Idle
  BY <1>2 DEF ObserveStop, GraphEnds, GraphFails, Cleanup, CompleteRun, SaveUser, SaveReply,
              ReleaseLock, LeaveGuard
<1>3. ASSUME NEW t \in Turns, RememberUser(t)
      PROVE  \/ Idle
             \/ /\ pc[t] = "memUser" /\ Remembers(t, "user")
                /\ pc' = [pc EXCEPT ![t] = "memReply"]
  BY <1>3 DEF RememberUser
<1>4. ASSUME NEW t \in Turns, RememberReply(t)
      PROVE  \/ Idle
             \/ /\ pc[t] = "memReply" /\ Remembers(t, "assistant")
                /\ pc' = [pc EXCEPT ![t] = "releasing"]
  BY <1>4 DEF RememberReply
<1>5. ASSUME NEW t \in Turns, GiveUp(t) \/ GiveUpQueued(t) PROVE Idle
  BY <1>5 DEF GiveUp, GiveUpQueued
<1>6. ASSUME NEW s \in Stoppers, StopCall(s) PROVE Idle
  BY <1>6 DEF StopCall, StopLookup, StopConversation, RequestStop
<1>7. ASSUME NEW d \in Deleters, DeleteCall(d)
      PROVE  Idle \/ (pc' = pc /\ \E c \in Convs : window' = [window EXCEPT ![c] = <<>>])
  <2>1. CASE DeleteRows(d) \/ DeleteCheckpoint(d)
    BY <2>1 DEF DeleteRows, DeleteCheckpoint
  <2>2. CASE DeleteMemory(d)
    <3>1. pc' = pc /\ (window' = window \/ window' = [window EXCEPT ![deleter[d].conv] = <<>>])
      BY <2>2 DEF DeleteMemory
    <3>2. CASE deleter[d].conv \in Convs
      BY <3>1, <3>2
    <3>3. CASE deleter[d].conv \notin Convs
      BY <3>1, <3>3
    <3>. QED BY <3>2, <3>3
  <2>. QED BY <1>7, <2>1, <2>2 DEF DeleteCall
<1>8. ASSUME Crash PROVE Idle
  <2>1. \A u \in Turns : pc'[u] \in Terminal
    BY <1>8 DEF Crash, Terminal
  <2>. QED BY <1>8, <2>1 DEF Crash, Terminal
<1>9. ASSUME UNCHANGED vars PROVE Idle
  BY <1>9 DEF vars
<1>. HIDE DEF Idle, Remembers, TypeOK, Goto
<1>10. \/ Idle
       \/ \E t \in Turns : /\ pc[t] = "memUser" /\ Remembers(t, "user")
                           /\ pc' = [pc EXCEPT ![t] = "memReply"]
       \/ \E t \in Turns : /\ pc[t] = "memReply" /\ Remembers(t, "assistant")
                           /\ pc' = [pc EXCEPT ![t] = "releasing"]
       \/ pc' = pc /\ \E c \in Convs : window' = [window EXCEPT ![c] = <<>>]
  BY <1>1, <1>2, <1>3, <1>4, <1>5, <1>6, <1>7, <1>8, <1>9 DEF Next, Worker
<1>. QED BY <1>10 DEF Idle

\* The window of t's conversation after t's append; the others are as before.
LEMMA Remembered ==
  ASSUME TypeOK, NEW t \in Turns, NEW r \in Roles, Remembers(t, r), ReplyFollowsItsMessage,
         r = "assistant" => LET w == window[ConvOf[t]] IN w = <<>> \/ w[Len(w)] = <<t, "user">>
  PROVE  /\ \A c \in Convs \ {ConvOf[t]} : window'[c] = window[c]
         /\ window'[ConvOf[t]][Len(window'[ConvOf[t]])] = <<t, r>>
         /\ ReplyFollowsItsMessage'
<1>. USE ConvsAssumption, SizesAssumption
<1>1. PICK c \in Convs : c = ConvOf[t]
  OBVIOUS
<1>2. PICK w \in Seq(Entries) : w = window[c]
  BY DEF TypeOK
<1>3. Paired(w)
  BY <1>1, <1>2 DEF ReplyFollowsItsMessage, Paired
<1>4. PICK v \in Seq(Entries) : v = Append(w, <<t, r>>)
  <2>1. <<t, r>> \in Entries
    BY DEF Entries
  <2>2. Append(w, <<t, r>>) \in Seq(Entries)
    BY <2>1
  <2>. QED BY <2>2
<1>5. Paired(v)
  BY <1>1, <1>2, <1>3, <1>4, PairedAppend
<1>6. v # <<>> /\ v[Len(v)] = <<t, r>>
  BY <1>4 DEF Entries
<1>7. Paired(LastN(v, WindowSize)) /\ LastN(v, WindowSize)[Len(LastN(v, WindowSize))] = <<t, r>>
  BY <1>5, <1>6, PairedLastN
<1>8. /\ window'[c] = LastN(v, WindowSize)
      /\ \A e \in Convs \ {c} : window'[e] = window[e]
  BY <1>1, <1>2, <1>4 DEF Remembers, TypeOK
<1>9. \A e \in Convs : Paired(window'[e])
  <2>1. \A e \in Convs \ {c} : Paired(window[e])
    BY DEF ReplyFollowsItsMessage, Paired
  <2>. QED BY <1>7, <1>8, <2>1
<1>10. ReplyFollowsItsMessage'
  BY <1>9 DEF ReplyFollowsItsMessage, Paired
<1>. QED BY <1>1, <1>7, <1>8, <1>10

LEMMA NextWindow ==
  ASSUME TypeOK, MutualExclusion, WindowInv, [Next]_vars
  PROVE  WindowInv'
<1>. USE ConvsAssumption
<1>1. CASE /\ window' = window
           /\ \A u \in Turns : pc'[u] = "memReply" => pc[u] = "memReply"
  BY <1>1 DEF WindowInv, ReplyFollowsItsMessage, AnswerPending
<1>2. ASSUME NEW t \in Turns, pc[t] = "memUser", Remembers(t, "user"),
             pc' = [pc EXCEPT ![t] = "memReply"]
      PROVE  WindowInv'
  <2>1. "user" \in Roles /\ "user" # "assistant" /\ pc[t] \in Locked
    BY <1>2 DEF Roles, Locked
  <2>2. /\ \A c \in Convs \ {ConvOf[t]} : window'[c] = window[c]
        /\ window'[ConvOf[t]][Len(window'[ConvOf[t]])] = <<t, "user">>
        /\ ReplyFollowsItsMessage'
    BY <1>2, <2>1, Remembered DEF WindowInv
  <2>3. \A u \in Turns \ {t} : pc'[u] = "memReply" => pc[u] = "memReply" /\ ConvOf[u] # ConvOf[t]
    BY <1>2, <2>1 DEF TypeOK, MutualExclusion, Locked
  <2>. QED BY <2>2, <2>3 DEF WindowInv, AnswerPending
<1>3. ASSUME NEW t \in Turns, pc[t] = "memReply", Remembers(t, "assistant"),
             pc' = [pc EXCEPT ![t] = "releasing"]
      PROVE  WindowInv'
  <2>1. "assistant" \in Roles /\ pc[t] \in Locked /\ pc'[t] # "memReply"
    BY <1>3 DEF Roles, Locked, TypeOK
  <2>2. /\ \A c \in Convs \ {ConvOf[t]} : window'[c] = window[c]
        /\ ReplyFollowsItsMessage'
    BY <1>3, <2>1, Remembered DEF WindowInv, AnswerPending
  <2>3. \A u \in Turns \ {t} : pc'[u] = "memReply" => pc[u] = "memReply" /\ ConvOf[u] # ConvOf[t]
    BY <1>3, <2>1 DEF TypeOK, MutualExclusion, Locked
  <2>. QED BY <2>1, <2>2, <2>3 DEF WindowInv, AnswerPending
<1>4. ASSUME NEW c \in Convs, pc' = pc, window' = [window EXCEPT ![c] = <<>>]
      PROVE  WindowInv'
  <2>1. window'[c] = <<>> /\ \A e \in Convs \ {c} : window'[e] = window[e]
    BY <1>4 DEF TypeOK
  <2>2. ReplyFollowsItsMessage'
    BY <2>1 DEF WindowInv, ReplyFollowsItsMessage
  <2>3. AnswerPending'
    BY <1>4, <2>1 DEF WindowInv, AnswerPending
  <2>. QED BY <2>2, <2>3 DEF WindowInv
<1>. QED BY WindowSteps, <1>1, <1>2, <1>3, <1>4

\* In every window, whatever its size and whatever fails, is deleted or crashes,
\* a reply stands right behind the message it answers.
THEOREM RepliesFollow == Spec => []ReplyFollowsItsMessage
<1>1. Init => WindowInv
  <2>1. SUFFICES ASSUME Init PROVE WindowInv
    OBVIOUS
  <2>. QED BY <2>1 DEF Init, WindowInv, ReplyFollowsItsMessage, AnswerPending
<1>2. TypeOK /\ MutualExclusion /\ WindowInv /\ [Next]_vars => WindowInv'
  BY NextWindow
<1>3. WindowInv => ReplyFollowsItsMessage
  BY DEF WindowInv
<1>. QED BY <1>1, <1>2, <1>3, GuardCorrect, GuardExcludes, PTL DEF Spec

-----------------------------------------------------------------------------
(* The transcript.                                                         *)

\* A turn that has not stored anything yet.
Early == {"queued", "started", "waiting", "locked", "cleared", "active"}

\* The entries of turn t in s, if any, are the last ones.
AtTheEnd(s, t) ==
  \A i, j \in 1..Len(s) : i < j /\ s[i][1] = t => s[j][1] = t

\* What each turn stored in s is one block.
InBlocks(s) ==
  \A i, j, k \in 1..Len(s) : i < j /\ j < k /\ s[i][1] = s[k][1] => s[j][1] = s[i][1]

\* Before its run is created a turn has no entry, and while it is inside its
\* conversation its entries are the last ones there.
EntriesInv ==
  \A t \in Turns :
     LET s == messages[ConvOf[t]]
     IN  /\ pc[t] \in Early => \A i \in 1..Len(s) : s[i][1] # t
         /\ pc[t] \in Locked => AtTheEnd(s, t)

TranscriptInv == TranscriptContiguous /\ EntriesInv

LEMMA BlocksAppend ==
  ASSUME NEW s \in Seq(Entries), NEW t \in Turns, NEW r \in Roles, AtTheEnd(s, t), InBlocks(s)
  PROVE  /\ InBlocks(Append(s, <<t, r>>)) /\ AtTheEnd(Append(s, <<t, r>>), t)
         /\ Len(Append(s, <<t, r>>)) = Len(s) + 1
         /\ \A i \in 1..Len(s) : Append(s, <<t, r>>)[i] = s[i]
         /\ Append(s, <<t, r>>)[Len(s) + 1] = <<t, r>>
<1> DEFINE v == Append(s, <<t, r>>)
<1>1. /\ Len(s) \in Nat /\ Len(v) = Len(s) + 1
      /\ \A i \in 1..Len(s) : v[i] = s[i]
      /\ v[Len(s) + 1] = <<t, r>>
  <2>1. <<t, r>> \in Entries
    BY DEF Entries
  <2>. QED BY <2>1
<1>2. v[Len(s) + 1][1] = t
  BY <1>1
<1>. HIDE DEF v
<1>3. AtTheEnd(v, t)
  <2>1. SUFFICES ASSUME NEW i \in 1..Len(v), NEW j \in 1..Len(v), i < j, v[i][1] = t
                 PROVE  v[j][1] = t
    BY DEF AtTheEnd
  <2>2. i \in 1..Len(s) /\ (j \in 1..Len(s) \/ j = Len(s) + 1)
    BY <1>1, <2>1
  <2>. QED BY <1>1, <1>2, <2>1, <2>2 DEF AtTheEnd
<1>4. InBlocks(v)
  <2>1. SUFFICES ASSUME NEW i \in 1..Len(v), NEW j \in 1..Len(v), NEW k \in 1..Len(v),
                        i < j, j < k, v[i][1] = v[k][1]
                 PROVE  v[j][1] = v[i][1]
    BY DEF InBlocks
  <2>2. /\ i \in 1..Len(s) /\ j \in 1..Len(s)
        /\ k \in 1..Len(s) \/ k = Len(s) + 1
    BY <1>1, <2>1
  <2>3. CASE k \in 1..Len(s)
    BY <1>1, <2>1, <2>2, <2>3 DEF InBlocks
  <2>4. CASE k = Len(s) + 1
    <3>1. s[i][1] = t
      BY <1>1, <1>2, <2>1, <2>2, <2>4
    <3>. QED BY <1>1, <2>1, <2>2, <3>1 DEF AtTheEnd
  <2>. QED BY <2>2, <2>3, <2>4
<1>. QED BY <1>1, <1>3, <1>4 DEF v

\* What storing one entry of turn t does to the transcript of its conversation.
Stores(t, r) ==
  messages' = [messages EXCEPT ![ConvOf[t]] = Append(@, <<t, r>>)]

\* A step stores an entry of a turn inside its conversation, deletes a
\* conversation, or leaves the transcripts alone; no turn becomes early again.
LEMMA MessageSteps ==
  ASSUME TypeOK, [Next]_vars
  PROVE  \/ /\ messages' = messages
            /\ \A u \in Turns : /\ pc'[u] \in Early => pc[u] \in Early
                                /\ pc'[u] \in Locked => pc[u] \in Locked \cup Early
         \/ \E t \in Turns, r \in Roles, p \in Locked \ Early :
               /\ pc[t] \in Locked /\ Stores(t, r) /\ pc' = [pc EXCEPT ![t] = p]
         \/ pc' = pc /\ \E c \in Convs : messages' = [messages EXCEPT ![c] = <<>>]
<1> DEFINE Idle == /\ messages' = messages
                   /\ \A u \in Turns : /\ pc'[u] \in Early => pc[u] \in Early
                                       /\ pc'[u] \in Locked => pc[u] \in Locked \cup Early
           Store(t) == \E r \in Roles, p \in Locked \ Early :
                          pc[t] \in Locked /\ Stores(t, r) /\ pc' = [pc EXCEPT ![t] = p]
<1>1. ASSUME NEW t \in Turns,
             \/ StartWorker(t) \/ RejectInput(t) \/ EnterGuard(t) \/ AcquireLock(t)
             \/ ClearStop(t) \/ RegisterRun(t) \/ Superstep(t)
      PROVE  Idle
  BY <1>1 DEF StartWorker, RejectInput, EnterGuard, AcquireLock, ClearStop, RegisterRun,
              Superstep, TypeOK, Goto, storeVars, Early, Locked, InGraph
<1>2. ASSUME NEW t \in Turns,
             \/ ObserveStop(t) \/ GraphEnds(t) \/ GraphFails(t) \/ Cleanup(t)
             \/ RememberUser(t) \/ RememberReply(t) \/ ReleaseLock(t) \/ LeaveGuard(t)
      PROVE  Idle
  BY <1>2 DEF ObserveStop, GraphEnds, GraphFails, Cleanup, RememberUser, RememberReply,
              ReleaseLock, LeaveGuard, TypeOK, Goto, storeVars, Early, Locked, InGraph
<1>3. ASSUME NEW t \in Turns, CreateRun(t) \/ CompleteRun(t) \/ SaveUser(t) \/ SaveReply(t)
      PROVE  Idle \/ Store(t)
  <2>1. PICK p \in {"running", "saveUser", "saveReply", "memUser"} : pc' = [pc EXCEPT ![t] = p]
    BY <1>3 DEF CreateRun, CompleteRun, SaveUser, SaveReply, Goto
  <2>2. pc[t] \in Locked /\ p \in Locked \ Early
    BY <1>3, <2>1 DEF CreateRun, CompleteRun, SaveUser, SaveReply, Locked, InGraph, Early
  <2>3. messages' = messages \/ \E r \in Roles : Stores(t, r)
    BY <1>3 DEF CreateRun, CompleteRun, SaveUser, SaveReply, Stores, Roles
  <2>4. CASE messages' = messages
    BY <2>1, <2>2, <2>4 DEF TypeOK
  <2>5. CASE \E r \in Roles : Stores(t, r)
    BY <2>1, <2>2, <2>5
  <2>. QED BY <2>3, <2>4, <2>5
<1>4. ASSUME NEW t \in Turns, GiveUp(t) \/ GiveUpQueued(t) PROVE Idle
  BY <1>4 DEF GiveUp, GiveUpQueued, TypeOK, Goto, storeVars, Early, Locked, InGraph
<1>5. ASSUME NEW s \in Stoppers, StopCall(s) PROVE Idle
  BY <1>5 DEF StopCall, StopLookup, StopConversation, RequestStop, storeVars
<1>6. ASSUME NEW d \in Deleters, DeleteCall(d)
      PROVE  Idle \/ (pc' = pc /\ \E c \in Convs : messages' = [messages EXCEPT ![c] = <<>>])
  <2>1. CASE DeleteMemory(d) \/ DeleteCheckpoint(d)
    BY <2>1 DEF DeleteMemory, DeleteCheckpoint
  <2>2. CASE DeleteRows(d)
    BY <2>2 DEF DeleteRows, TypeOK
  <2>. QED BY <1>6, <2>1, <2>2 DEF DeleteCall
<1>7. ASSUME Crash PROVE Idle
  <2>1. \A u \in Turns : pc'[u] \in Terminal
    BY <1>7 DEF Crash, Terminal
  <2>2. messages' = messages
    BY <1>7 DEF Crash, storeVars
  <2>. QED BY <2>1, <2>2 DEF Terminal, Early, Locked, InGraph
<1>8. ASSUME UNCHANGED vars PROVE Idle
  BY <1>8 DEF vars, storeVars
<1>. HIDE DEF Idle, Store
<1>9. \/ Idle \/ \E t \in Turns : Store(t)
      \/ pc' = pc /\ \E c \in Convs : messages' = [messages EXCEPT ![c] = <<>>]
  BY <1>1, <1>2, <1>3, <1>4, <1>5, <1>6, <1>7, <1>8 DEF Next, Worker
<1>. QED BY <1>9 DEF Idle, Store

LEMMA NextTranscript ==
  ASSUME TypeOK, MutualExclusion, TranscriptInv, [Next]_vars
  PROVE  TranscriptInv'
<1>. USE ConvsAssumption
<1>1. CASE /\ messages' = messages
           /\ \A u \in Turns : /\ pc'[u] \in Early => pc[u] \in Early
                               /\ pc'[u] \in Locked => pc[u] \in Locked \cup Early
  <2>1. \A u \in Turns : pc[u] \in Early => AtTheEnd(messages[ConvOf[u]], u)
    BY DEF TranscriptInv, EntriesInv, AtTheEnd
  <2>2. EntriesInv'
    BY <1>1, <2>1 DEF TranscriptInv, EntriesInv, AtTheEnd
  <2>3. TranscriptContiguous'
    BY <1>1 DEF TranscriptInv, TranscriptContiguous
  <2>. QED BY <2>2, <2>3 DEF TranscriptInv
<1>2. ASSUME NEW t \in Turns, NEW r \in Roles, NEW p \in Locked \ Early,
             pc[t] \in Locked, Stores(t, r), pc' = [pc EXCEPT ![t] = p]
      PROVE  TranscriptInv'
  <2>1. PICK c \in Convs : c = ConvOf[t]
    OBVIOUS
  <2>2. PICK s \in Seq(Entries) : s = messages[c]
    BY DEF TypeOK
  <2>3. PICK v : v = Append(s, <<t, r>>)
    OBVIOUS
  <2>4. messages'[c] = v /\ \A e \in Convs \ {c} : messages'[e] = messages[e]
    BY <1>2, <2>1, <2>2, <2>3 DEF Stores, TypeOK
  <2>5. AtTheEnd(s, t) /\ InBlocks(s)
    BY <1>2, <2>1, <2>2 DEF TranscriptInv, EntriesInv, TranscriptContiguous, InBlocks
  <2>6. /\ InBlocks(v) /\ AtTheEnd(v, t)
        /\ Len(s) \in Nat /\ Len(v) = Len(s) + 1
        /\ \A i \in 1..Len(s) : v[i] = s[i]
        /\ v[Len(s) + 1] = <<t, r>>
    BY <2>3, <2>5, BlocksAppend
  <2>7. \A e \in Convs : InBlocks(messages'[e])
    <3>1. \A e \in Convs : InBlocks(messages[e])
      BY DEF TranscriptInv, TranscriptContiguous, InBlocks
    <3>. QED BY <2>4, <2>6, <3>1
  <2>8. \A u \in Turns \ {t} : pc[u] \in Locked => ConvOf[u] # c
    BY <1>2, <2>1 DEF MutualExclusion
  <2>9. ASSUME NEW u \in Turns, u # t
        PROVE  LET q == messages'[ConvOf[u]]
               IN  /\ pc'[u] \in Early => \A i \in 1..Len(q) : q[i][1] # u
                   /\ pc'[u] \in Locked => AtTheEnd(q, u)
    <3>1. pc'[u] = pc[u]
      BY <1>2, <2>9 DEF TypeOK
    <3>2. CASE ConvOf[u] # c
      BY <2>4, <3>1, <3>2 DEF TranscriptInv, EntriesInv
    <3>3. CASE ConvOf[u] = c
      <4>1. pc'[u] \notin Locked
        BY <2>8, <2>9, <3>1, <3>3
      <4>2. ASSUME pc[u] \in Early PROVE \A i \in 1..Len(v) : v[i][1] # u
        <5>1. \A i \in 1..Len(s) : s[i][1] # u
          BY <2>2, <3>3, <4>2 DEF TranscriptInv, EntriesInv
        <5>2. \A i \in 1..Len(v) : i \in 1..Len(s) \/ i = Len(s) + 1
          BY <2>6
        <5>. QED BY <2>6, <2>9, <5>1, <5>2
      <4>. QED BY <2>4, <3>1, <3>3, <4>1, <4>2
    <3>. QED BY <3>2, <3>3
  <2>10. pc'[t] \notin Early /\ AtTheEnd(messages'[ConvOf[t]], t)
    BY <1>2, <2>1, <2>4, <2>6 DEF TypeOK
  <2>11. EntriesInv'
    <3>1. \A u \in Turns : 
             LET q == messages'[ConvOf[u]]
             IN  /\ pc'[u] \in Early => \A i \in 1..Len(q) : q[i][1] # u
                 /\ pc'[u] \in Locked => AtTheEnd(q, u)
      BY <2>9, <2>10
    <3>. QED BY <3>1 DEF EntriesInv, AtTheEnd
  <2>12. TranscriptContiguous'
    BY <2>7 DEF TranscriptContiguous, InBlocks
  <2>. QED BY <2>11, <2>12 DEF TranscriptInv
<1>3. ASSUME NEW c \in Convs, pc' = pc, messages' = [messages EXCEPT ![c] = <<>>]
      PROVE  TranscriptInv'
  <2>1. messages'[c] = <<>> /\ \A e \in Convs \ {c} : messages'[e] = messages[e]
    BY <1>3 DEF TypeOK
  <2>2. TranscriptContiguous'
    <3>1. ASSUME NEW e \in Convs PROVE InBlocks(messages'[e])
      <4>1. CASE e = c
        BY <2>1, <4>1 DEF InBlocks
      <4>2. CASE e # c
        BY <2>1, <4>2 DEF TranscriptInv, TranscriptContiguous, InBlocks
      <4>. QED BY <4>1, <4>2
    <3>. QED BY <3>1 DEF TranscriptContiguous, InBlocks
  <2>3. EntriesInv'
    BY <1>3, <2>1 DEF TranscriptInv, EntriesInv, AtTheEnd
  <2>. QED BY <2>2, <2>3 DEF TranscriptInv
<1>. QED BY MessageSteps, <1>1, <1>2, <1>3

\* What a turn stored in the transcript is one block, whatever fails, is deleted
\* or crashes.
THEOREM TranscriptInBlocks == Spec => []TranscriptContiguous
<1>1. Init => TranscriptInv
  <2>1. SUFFICES ASSUME Init PROVE TranscriptInv
    OBVIOUS
  <2>2. \A t \in Turns : messages[ConvOf[t]] = <<>>
    BY <2>1, ConvsAssumption DEF Init
  <2>3. EntriesInv
    BY <2>2 DEF EntriesInv, AtTheEnd
  <2>. QED BY <2>1, <2>3 DEF Init, TranscriptInv, TranscriptContiguous
<1>2. TypeOK /\ MutualExclusion /\ TranscriptInv /\ [Next]_vars => TranscriptInv'
  BY NextTranscript
<1>3. TranscriptInv => TranscriptContiguous
  BY DEF TranscriptInv
<1>. QED BY <1>1, <1>2, <1>3, GuardCorrect, GuardExcludes, PTL DEF Spec

-----------------------------------------------------------------------------
(* Run rows and stored turns, where no write fails and nothing is deleted. *)

\* A turn whose run row is open, and one whose run row was completed.
Opened == {"running", "ended", "completing"}
Closed == {"saveUser", "saveReply", "memUser", "memReply", "releasing", "leaving", "done"}

Has(c, e) == \E i \in 1..Len(messages[c]) : messages[c][i] = e

\* What the stores hold of turn t where it stands.
StoredOf(t) ==
  /\ pc[t] \in Opened => runRow[t] = "running"
  /\ pc[t] \in Opened \cup Closed => Has(ConvOf[t], <<t, "user">>)
  /\ pc[t] \in Closed /\ result[t] # "raised" => /\ runRow[t] = result[t]
                                                /\ Has(ConvOf[t], <<t, "assistant">>)
  /\ pc[t] \in Closed /\ result[t] = "raised" => runRow[t] = "running"
  /\ pc[t] = "completing" => result[t] # "raised"

RowInv == rows = Convs /\ \A t \in Turns : StoredOf(t)

\* Storing one entry adds it and loses none.
LEMMA HasStored ==
  ASSUME TypeOK, NEW t \in Turns, NEW r \in Roles, Stores(t, r)
  PROVE  /\ Has(ConvOf[t], <<t, r>>)'
         /\ \A u \in Turns, q \in Roles : Has(ConvOf[u], <<u, q>>) => Has(ConvOf[u], <<u, q>>)'
<1>. USE ConvsAssumption
<1>1. PICK c \in Convs : c = ConvOf[t]
  OBVIOUS
<1>2. PICK s \in Seq(Entries) : s = messages[c]
  BY DEF TypeOK
<1>3. PICK v : v = Append(s, <<t, r>>)
  OBVIOUS
<1>4. /\ Len(s) \in Nat /\ Len(v) = Len(s) + 1
      /\ \A i \in 1..Len(s) : v[i] = s[i]
      /\ v[Len(s) + 1] = <<t, r>>
  <2>1. <<t, r>> \in Entries
    BY DEF Entries
  <2>. QED BY <1>3, <2>1
<1>5. messages'[c] = v /\ \A e \in Convs \ {c} : messages'[e] = messages[e]
  BY <1>1, <1>2, <1>3 DEF Stores, TypeOK
<1>6. Has(ConvOf[t], <<t, r>>)'
  <2>1. Len(v) \in 1..Len(v) /\ v[Len(v)] = <<t, r>>
    BY <1>4
  <2>. QED BY <1>1, <1>5, <2>1 DEF Has
<1>7. ASSUME NEW u \in Turns, NEW q \in Roles, Has(ConvOf[u], <<u, q>>)
      PROVE  Has(ConvOf[u], <<u, q>>)'
  <2>1. CASE ConvOf[u] # c
    BY <1>5, <1>7, <2>1 DEF Has
  <2>2. CASE ConvOf[u] = c
    <3>1. PICK i \in 1..Len(s) : s[i] = <<u, q>>
      BY <1>2, <1>7, <2>2 DEF Has
    <3>2. i \in 1..Len(v) /\ v[i] = <<u, q>>
      BY <1>4, <3>1
    <3>. QED BY <1>5, <2>2, <3>2 DEF Has
  <2>. QED BY <2>1, <2>2
<1>. QED BY <1>6, <1>7

\* Without faults and deletes a step stores what its turn claims afterwards.
LEMMA NextRows ==
  ASSUME TypeOK, RowInv, [Next]_vars, Faulty = FALSE, Deleters = {}
  PROVE  RowInv'
<1>. USE ConvsAssumption
<1> DEFINE Kept == \A u \in Turns, q \in Roles :
                      Has(ConvOf[u], <<u, q>>) => Has(ConvOf[u], <<u, q>>)'
           Others(t) == \A u \in Turns \ {t} : /\ pc'[u] = pc[u] /\ result'[u] = result[u]
                                               /\ runRow'[u] = runRow[u]
<1>roles. "user" \in Roles /\ "assistant" \in Roles
  BY DEF Roles
<1>same. ASSUME messages' = messages PROVE Kept
  BY <1>same DEF Has
<1>others. ASSUME NEW t \in Turns, Kept, Others(t) PROVE \A u \in Turns \ {t} : StoredOf(u)'
  BY <1>roles, <1>others DEF RowInv, StoredOf
<1>1. ASSUME UNCHANGED <<pc, result, rows, runRow, messages>> PROVE RowInv'
  BY <1>1 DEF RowInv, StoredOf, Has
<1>2. ASSUME NEW t \in Turns,
             \/ StartWorker(t) \/ RejectInput(t) \/ EnterGuard(t) \/ AcquireLock(t)
             \/ ClearStop(t) \/ RegisterRun(t) \/ GiveUpQueued(t)
      PROVE  RowInv'
  <2>1. /\ UNCHANGED <<result, rows, runRow, messages>> /\ Others(t)
        /\ pc'[t] \notin Opened \cup Closed
    BY <1>2 DEF StartWorker, RejectInput, EnterGuard, AcquireLock, ClearStop, RegisterRun,
       GiveUpQueued, TypeOK, Goto, storeVars, Opened, Closed
  <2>2. Kept
    BY <1>same, <2>1
  <2>3. StoredOf(t)'
    BY <2>1 DEF StoredOf, Opened
  <2>. QED BY <1>others, <2>1, <2>2, <2>3 DEF RowInv
<1>3. ASSUME NEW t \in Turns, CreateRun(t) PROVE RowInv'
  <2>1. /\ Stores(t, "user") /\ result' = result /\ rows' = rows \cup {ConvOf[t]}
        /\ pc'[t] = "running" /\ runRow'[t] = "running" /\ Others(t)
    BY <1>3 DEF CreateRun, Stores, TypeOK, Goto
  <2>2. Has(ConvOf[t], <<t, "user">>)' /\ Kept
    BY <1>roles, <2>1, HasStored
  <2>3. StoredOf(t)'
    BY <2>1, <2>2 DEF StoredOf, Opened, Closed
  <2>4. rows' = Convs
    BY <2>1 DEF RowInv
  <2>. QED BY <1>others, <2>1, <2>2, <2>3, <2>4 DEF RowInv
<1>4. ASSUME NEW t \in Turns, ObserveStop(t) \/ GraphEnds(t) \/ GraphFails(t) PROVE RowInv'
  <2>1. /\ UNCHANGED <<rows, runRow, messages>> /\ Others(t)
        /\ pc[t] = "running" /\ pc'[t] = "ended"
    BY <1>4 DEF ObserveStop, GraphEnds, GraphFails, TypeOK, Goto, storeVars
  <2>2. Kept
    BY <1>same, <2>1
  <2>3. StoredOf(t)'
    BY <1>roles, <2>1, <2>2 DEF RowInv, StoredOf, Opened, Closed
  <2>. QED BY <1>others, <2>1, <2>2, <2>3 DEF RowInv
<1>5. ASSUME NEW t \in Turns, Cleanup(t) PROVE RowInv'
  <2>1. /\ UNCHANGED <<result, rows, runRow, messages>> /\ Others(t) /\ pc[t] = "ended"
        /\ pc'[t] = IF result[t] = "raised" THEN "releasing" ELSE "completing"
    BY <1>5 DEF Cleanup, TypeOK, Goto, storeVars
  <2>2. Kept
    BY <1>same, <2>1
  <2>3. StoredOf(t)'
    BY <1>roles, <2>1, <2>2 DEF RowInv, StoredOf, Opened, Closed
  <2>. QED BY <1>others, <2>1, <2>2, <2>3 DEF RowInv
<1>6. ASSUME NEW t \in Turns, CompleteRun(t) PROVE RowInv'
  <2>1. pc[t] = "completing" /\ runRow[t] = "running" /\ ConvOf[t] \in rows
    BY <1>6 DEF CompleteRun, RowInv, StoredOf, Opened
  <2>2. /\ Stores(t, "assistant") /\ UNCHANGED <<result, rows>>
        /\ pc'[t] = "saveUser" /\ runRow'[t] = result[t] /\ Others(t)
    BY <1>6, <2>1 DEF CompleteRun, Stores, TypeOK, Goto
  <2>3. Has(ConvOf[t], <<t, "assistant">>)' /\ Kept
    BY <1>roles, <2>2, HasStored
  <2>4. StoredOf(t)'
    BY <1>roles, <2>1, <2>2, <2>3 DEF RowInv, StoredOf, Opened, Closed
  <2>. QED BY <1>others, <2>2, <2>3, <2>4 DEF RowInv
<1>7. ASSUME NEW t \in Turns,
             \/ SaveUser(t) \/ SaveReply(t) \/ RememberUser(t) \/ RememberReply(t)
             \/ ReleaseLock(t) \/ LeaveGuard(t)
      PROVE  RowInv'
  <2>1. /\ UNCHANGED <<result, rows, runRow>> /\ Others(t)
        /\ pc[t] \in Closed /\ pc'[t] \in Closed
    BY <1>7 DEF SaveUser, SaveReply, RememberUser, RememberReply, ReleaseLock, LeaveGuard,
                TypeOK, Goto, storeVars, Closed
  <2>2. Kept
    <3>1. messages' = messages \/ \E r \in Roles : Stores(t, r)
      BY <1>roles, <1>7 DEF SaveUser, SaveReply, RememberUser, RememberReply, ReleaseLock,
         LeaveGuard, Stores, storeVars
    <3>. QED BY <1>same, <3>1, HasStored
  <2>3. StoredOf(t)'
    <3>1. pc'[t] \notin Opened /\ result'[t] = result[t] /\ runRow'[t] = runRow[t]
      BY <2>1 DEF Opened, Closed
    <3>. QED BY <1>roles, <2>1, <2>2, <3>1 DEF RowInv, StoredOf, Opened
  <2>. QED BY <1>others, <2>1, <2>2, <2>3 DEF RowInv
<1>8. ASSUME Crash PROVE RowInv'
  <2>1. UNCHANGED <<result, rows, runRow, messages>>
    BY <1>8 DEF Crash, storeVars
  <2>2. \A u \in Turns : /\ pc'[u] \in Terminal
                         /\ pc'[u] = "done" => pc[u] \in {"done", "leaving"}
    BY <1>8 DEF Crash, Terminal
  <2>3. \A u \in Turns : pc'[u] \notin Opened /\ (pc'[u] \in Closed => pc[u] \in Closed)
    BY <2>2 DEF Terminal, Opened, Closed
  <2>. QED BY <2>1, <2>3 DEF RowInv, StoredOf, Has, Opened
<1>9. ASSUME NEW t \in Turns, Superstep(t) \/ GiveUp(t) PROVE RowInv'
  BY <1>1, <1>9 DEF Superstep, GiveUp, storeVars
<1>10. ASSUME NEW s \in Stoppers, StopCall(s) PROVE RowInv'
  BY <1>1, <1>10 DEF StopCall, StopLookup, StopConversation, RequestStop, storeVars
<1>11. CASE UNCHANGED vars
  BY <1>1, <1>11 DEF vars, storeVars
<1>. QED BY <1>2, <1>3, <1>4, <1>5, <1>6, <1>7, <1>8, <1>9, <1>10, <1>11 DEF Next, Worker

LEMMA InitRows == Init => RowInv
<1>1. SUFFICES ASSUME Init PROVE RowInv
  OBVIOUS
<1>2. \A t \in Turns : pc[t] \notin Opened \cup Closed
  BY <1>1 DEF Init, Opened, Closed
<1>. QED BY <1>1, <1>2 DEF Init, RowInv, StoredOf

\* Where no write fails and no conversation is deleted, every run row is closed
\* with the outcome of its run before the turn leaves the guard, crashes included, or was
\* left open by an exception that passed the finally block.
THEOREM RunRowsAreClosed ==
  ASSUME Faulty = FALSE, Deleters = {}
  PROVE  Spec => []RunRowClosed
<1>1. TypeOK /\ RowInv /\ [Next]_vars => RowInv'
  BY NextRows
<1>2. RowInv => RunRowClosed
  BY DEF RowInv, StoredOf, Closed, RunRowClosed
<1>. QED BY <1>1, <1>2, InitRows, GuardCorrect, PTL DEF Spec

\* With a thread for every turn and no crash, a turn is never dropped or cut off.
NoneCutOff == \A t \in Turns : pc[t] \notin {"dropped", "lost", "killed"}

LEMMA RoomForAll ==
  ASSUME NEW t \in Turns, pc[t] = "queued", Cardinality(Turns) <= PoolSize
  PROVE  ~PoolFull
<1> DEFINE Busy == {u \in Turns : pc[u] \in InWorker}
<1>1. Busy \subseteq Turns \ {t}
  BY DEF InWorker, InGuard, Locked, InGraph
<1>2. /\ IsFiniteSet(Turns \ {t}) /\ Cardinality(Turns \ {t}) = Cardinality(Turns) - 1
      /\ Cardinality(Turns) \in Nat
  BY TurnsAssumption, FS_RemoveElement, FS_CardinalityType
<1>3. Cardinality(Busy) <= Cardinality(Turns \ {t}) /\ IsFiniteSet(Busy)
  BY <1>1, <1>2, FS_Subset
<1>4. Cardinality(Busy) \in Nat
  BY <1>3, FS_CardinalityType
<1>. QED BY <1>2, <1>3, <1>4, SizesAssumption DEF PoolFull

LEMMA NextCutOff ==
  ASSUME TypeOK, NoneCutOff, [Next]_vars, MaxCrashes = 0, Cardinality(Turns) <= PoolSize
  PROVE  NoneCutOff'
<1>1. ASSUME NEW t \in Turns, NEW p \in Everywhere \ {"dropped", "lost", "killed"},
             pc' = [pc EXCEPT ![t] = p]
      PROVE  NoneCutOff'
  BY <1>1 DEF TypeOK, NoneCutOff
<1>2. ASSUME pc' = pc PROVE NoneCutOff'
  BY <1>2 DEF NoneCutOff
<1>. USE DEF Goto, Everywhere, InWorker, InGuard, Locked, InGraph, Terminal
<1>3. ASSUME NEW t \in Turns, Worker(t) PROVE NoneCutOff'
  <2>1. CASE StartWorker(t) \/ RejectInput(t) \/ EnterGuard(t) \/ AcquireLock(t) \/ ClearStop(t)
    BY <1>1, <2>1 DEF StartWorker, RejectInput, EnterGuard, AcquireLock, ClearStop
  <2>2. CASE RegisterRun(t) \/ CreateRun(t) \/ ObserveStop(t) \/ GraphEnds(t) \/ GraphFails(t)
    BY <1>1, <2>2 DEF RegisterRun, CreateRun, ObserveStop, GraphEnds, GraphFails
  <2>3. CASE Superstep(t)
    BY <1>2, <2>3 DEF Superstep
  <2>4. CASE Cleanup(t) \/ CompleteRun(t) \/ SaveUser(t) \/ SaveReply(t)
    BY <1>1, <2>4 DEF Cleanup, CompleteRun, SaveUser, SaveReply
  <2>5. CASE RememberUser(t) \/ RememberReply(t) \/ ReleaseLock(t) \/ LeaveGuard(t)
    BY <1>1, <2>5 DEF RememberUser, RememberReply, ReleaseLock, LeaveGuard
  <2>. QED BY <1>3, <2>1, <2>2, <2>3, <2>4, <2>5 DEF Worker
<1>4. ASSUME NEW t \in Turns, GiveUp(t) \/ GiveUpQueued(t) PROVE NoneCutOff'
  <2>1. ~GiveUpQueued(t)
    BY RoomForAll DEF GiveUpQueued
  <2>. QED BY <1>2, <1>4, <2>1 DEF GiveUp
<1>5. ASSUME NEW s \in Stoppers, StopCall(s) PROVE NoneCutOff'
  BY <1>2, <1>5 DEF StopCall, StopLookup, StopConversation, RequestStop
<1>6. ASSUME NEW d \in Deleters, DeleteCall(d) PROVE NoneCutOff'
  BY <1>2, <1>6 DEF DeleteCall, DeleteRows, DeleteCheckpoint, DeleteMemory
<1>7. ~Crash
  BY DEF Crash, TypeOK
<1>8. CASE UNCHANGED vars
  BY <1>2, <1>8 DEF vars
<1>. QED BY <1>3, <1>4, <1>5, <1>6, <1>7, <1>8 DEF Next

\* With a thread for every turn and without faults, deletes and crashes, a turn
\* ends with its message and its reply stored, also when its client gave up.
THEOREM AbandonedAreRecorded ==
  ASSUME Faulty = FALSE, Deleters = {}, MaxCrashes = 0, Cardinality(Turns) <= PoolSize
  PROVE  Spec => []AbandonedTurnRecorded
<1>1. Init => NoneCutOff
  BY DEF Init, NoneCutOff
<1>2. TypeOK /\ RowInv /\ NoneCutOff /\ [Next]_vars => RowInv' /\ NoneCutOff'
  BY NextRows, NextCutOff
<1>3. RowInv /\ NoneCutOff => AbandonedTurnRecorded
  <2>1. SUFFICES ASSUME RowInv, NoneCutOff, NEW t \in Turns, pc[t] \in Terminal \ {"rejected"},
                        result[t] # "raised", NEW r \in Roles
                 PROVE  Has(ConvOf[t], <<t, r>>)
    BY DEF AbandonedTurnRecorded, Has
  <2>2. pc[t] = "done"
    BY <2>1 DEF NoneCutOff, Terminal
  <2>. QED BY <2>1, <2>2 DEF RowInv, StoredOf, Closed, Roles
<1>. QED BY <1>1, <1>2, <1>3, InitRows, GuardCorrect, PTL DEF Spec

-----------------------------------------------------------------------------
(* Why every turn ends.  That threads are scheduled is for the runs; what   *)
(* is proved here is the part of it that the locks and the pool could spoil *)
(* for any number of turns: nobody waits for somebody who waits, and no     *)
(* turn goes back.                                                          *)

\* The turn has a step of its own: a thread that takes it up, the lock it waits
\* for, or simply the next line of its worker.
CanGoOn(t) ==
  \/ pc[t] = "queued" /\ ~PoolFull
  \/ pc[t] = "waiting" /\ holder[lockOf[t]] = NoTurn
  \/ pc[t] \in InWorker \ {"waiting"}

SomeTurnCanGoOn == (\A t \in Turns : pc[t] \in Terminal) \/ \E t \in Turns : CanGoOn(t)

\* How many places of the worker are still ahead of a place.
Ahead(place) ==
  CASE place = "queued" -> 15    [] place = "started" -> 14    [] place = "waiting" -> 13
    [] place = "locked" -> 12    [] place = "cleared" -> 11    [] place = "active" -> 10
    [] place = "running" -> 9    [] place = "ended" -> 8       [] place = "completing" -> 7
    [] place = "saveUser" -> 6   [] place = "saveReply" -> 5   [] place = "memUser" -> 4
    [] place = "memReply" -> 3   [] place = "releasing" -> 2   [] place = "leaving" -> 1
    [] OTHER -> 0

\* A full pool holds at least one turn.
LEMMA FullPoolWorks == PoolFull => \E t \in Turns : pc[t] \in InWorker
<1>. DEFINE Busy == {t \in Turns : pc[t] \in InWorker}
<1>1. SUFFICES ASSUME PoolFull, Busy = {} PROVE FALSE
  OBVIOUS
<1>2. Cardinality(Busy) = 0
  BY <1>1, FS_EmptySet, Zenon
<1>. QED BY <1>1, <1>2, SizesAssumption DEF PoolFull

\* The turn that holds a lock is past the waiting.
LEMMA HolderGoesOn ==
  ASSUME TypeOK, GuardInv, NEW t \in Turns, pc[t] = "waiting"
  PROVE  \E u \in Turns : CanGoOn(u)
<1>1. lockOf[t] \in Turns
  BY DEF GuardInv, GuardConsistent, InGuard
<1>2. CASE holder[lockOf[t]] = NoTurn
  BY <1>2 DEF CanGoOn
<1>3. CASE holder[lockOf[t]] # NoTurn
  <2>1. PICK u \in Turns : holder[lockOf[t]] = u
    BY <1>1, <1>3 DEF TypeOK
  <2>2. pc[u] \in Locked
    BY <1>1, <2>1 DEF GuardInv, LocksDistinct
  <2>. QED BY <2>2 DEF CanGoOn, InWorker, InGuard, Locked, InGraph
<1>. QED BY <1>2, <1>3

LEMMA SomeTurnFree == TypeOK /\ GuardInv => SomeTurnCanGoOn
<1>. SUFFICES ASSUME TypeOK, GuardInv, NEW t \in Turns, pc[t] \notin Terminal
              PROVE  \E u \in Turns : CanGoOn(u)
  BY DEF SomeTurnCanGoOn
<1>1. ASSUME NEW u \in Turns, pc[u] \in InWorker PROVE \E v \in Turns : CanGoOn(v)
  <2>1. CASE pc[u] = "waiting"
    BY <2>1, HolderGoesOn
  <2>2. CASE pc[u] # "waiting"
    BY <1>1, <2>2 DEF CanGoOn
  <2>. QED BY <2>1, <2>2
<1>2. CASE pc[t] \in InWorker
  BY <1>1, <1>2
<1>3. CASE pc[t] = "queued"
  <2>1. CASE PoolFull
    BY <1>1, <2>1, FullPoolWorks
  <2>2. CASE ~PoolFull
    BY <1>3, <2>2 DEF CanGoOn
  <2>. QED BY <2>1, <2>2
<1>. QED BY <1>2, <1>3 DEF TypeOK, Everywhere

\* No step takes a turn back to a place it has been at.
Forward == \A t \in Turns : pc'[t] = pc[t] \/ Ahead(pc'[t]) < Ahead(pc[t])

LEMMA NextForward == ASSUME TypeOK, [Next]_vars PROVE Forward
<1>1. ASSUME NEW t \in Turns, NEW p, Goto(t, p), Ahead(p) < Ahead(pc[t]) PROVE Forward
  BY <1>1 DEF TypeOK, Goto, Forward
<1>2. ASSUME pc' = pc PROVE Forward
  BY <1>2 DEF Forward
<1>3. ASSUME NEW t \in Turns, Worker(t) PROVE Forward
  <2>1. CASE Superstep(t)
    BY <1>2, <2>1 DEF Superstep
  <2>2. CASE ~Superstep(t)
    <3>1. \E p : Goto(t, p) /\ Ahead(p) < Ahead(pc[t])
      <4>1. CASE StartWorker(t) \/ RejectInput(t) \/ EnterGuard(t)
        BY <4>1 DEF StartWorker, RejectInput, EnterGuard, Ahead
      <4>2. CASE AcquireLock(t) \/ ClearStop(t) \/ RegisterRun(t)
        BY <4>2 DEF AcquireLock, ClearStop, RegisterRun, Ahead
      <4>3. CASE CreateRun(t) \/ ObserveStop(t) \/ GraphEnds(t)
        BY <4>3 DEF CreateRun, ObserveStop, GraphEnds, Ahead
      <4>4. CASE GraphFails(t) \/ Cleanup(t) \/ CompleteRun(t)
        BY <4>4 DEF GraphFails, Cleanup, CompleteRun, Ahead
      <4>5. CASE SaveUser(t) \/ SaveReply(t)
        BY <4>5 DEF SaveUser, SaveReply, Ahead
      <4>6. CASE RememberUser(t) \/ RememberReply(t)
        BY <4>6 DEF RememberUser, RememberReply, Ahead
      <4>7. CASE ReleaseLock(t) \/ LeaveGuard(t)
        BY <4>7 DEF ReleaseLock, LeaveGuard, Ahead
      <4>. QED BY <1>3, <2>2, <4>1, <4>2, <4>3, <4>4, <4>5, <4>6, <4>7 DEF Worker
    <3>. QED BY <1>1, <3>1
  <2>. QED BY <2>1, <2>2
<1>4. ASSUME NEW t \in Turns, GiveUp(t) \/ GiveUpQueued(t) PROVE Forward
  <2>1. CASE GiveUp(t)
    BY <1>2, <2>1 DEF GiveUp
  <2>2. CASE GiveUpQueued(t)
    <3>1. Goto(t, "dropped") /\ Ahead("dropped") < Ahead(pc[t])
      BY <2>2 DEF GiveUpQueued, Ahead
    <3>. QED BY <1>1, <3>1
  <2>. QED BY <1>4, <2>1, <2>2
<1>5. ASSUME NEW s \in Stoppers, StopCall(s) PROVE Forward
  BY <1>2, <1>5 DEF StopCall, StopLookup, StopConversation, RequestStop
<1>6. ASSUME NEW d \in Deleters, DeleteCall(d) PROVE Forward
  BY <1>2, <1>6 DEF DeleteCall, DeleteRows, DeleteCheckpoint, DeleteMemory
<1>7. CASE Crash
  <2>. SUFFICES ASSUME NEW t \in Turns PROVE pc'[t] = pc[t] \/ Ahead(pc'[t]) < Ahead(pc[t])
    BY DEF Forward
  <2>1. CASE pc[t] \in Terminal
    BY <1>7, <2>1 DEF Crash, Terminal, Locked, InGraph
  <2>2. CASE pc[t] \notin Terminal
    <3>1. pc'[t] \in {"killed", "done", "lost"}
      BY <1>7, <2>2 DEF Crash
    <3>2. Ahead(pc'[t]) = 0
      BY <3>1 DEF Ahead
    <3>3. pc[t] \in {"queued", "started", "waiting", "leaving", "locked", "cleared", "active",
                     "running", "ended", "completing", "saveUser", "saveReply", "memUser",
                     "memReply", "releasing"}
      BY <2>2 DEF TypeOK, Everywhere, InWorker, InGuard, Locked, InGraph
    <3>4. Ahead(pc[t]) > 0
      BY <3>3 DEF Ahead
    <3>. QED BY <3>2, <3>4
  <2>. QED BY <2>1, <2>2
<1>8. CASE UNCHANGED vars
  BY <1>2, <1>8 DEF vars
<1>. QED BY <1>3, <1>4, <1>5, <1>6, <1>7, <1>8 DEF Next

\* Nothing that blocks keeps a turn for ever: however small the pool and however many of
\* its threads wait for a conversation lock, some turn that is not over can take a step, and
\* each turn passes a place of its worker at most once - even through a crash
\* (_conversation_guard, asyncio.to_thread).
THEOREM TurnsNeverBlock == Spec => [](SomeTurnCanGoOn) /\ [][Forward]_vars
<1>1. TypeOK /\ GuardInv => SomeTurnCanGoOn
  BY SomeTurnFree
<1>2. TypeOK /\ [Next]_vars => [Forward]_vars
  BY NextForward
<1>. QED BY <1>1, <1>2, GuardCorrect, PTL DEF Spec
=============================================================================
