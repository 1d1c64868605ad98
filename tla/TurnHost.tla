------------------------------ MODULE TurnHost ------------------------------
(***************************************************************************)
(* The turn host of FinanceAgent: application/advisor.py (AdvisorSystem),  *)
(* application/turn_coordinator.py (TurnCoordinator.handle_message) and    *)
(* application/run_persistence.py (RunPersistence.persist).                *)
(*                                                                         *)
(* A turn is one chat request.  It is handed to the thread pool of the     *)
(* event loop, takes the lock of its conversation, runs the root graph and *)
(* stores its messages, step by step, in the business database and in the  *)
(* Redis window.  Beside it run the stop handler, the delete handler, the  *)
(* client that stops waiting, and a crash of the process.                  *)
(*                                                                         *)
(* A lock object is named by the turn that created it: a turn creates at   *)
(* most one, so the names are never used twice.                            *)
(***************************************************************************)
EXTENDS Naturals, FiniteSets, Sequences

CONSTANTS
  Turns,        \* chat requests, each executed at most once
  Convs,        \* conversation ids
  ConvOf,       \* the conversation each turn names
  Impatient,    \* the turns whose client may stop waiting
  Streaming,    \* the turns that come with a progress callback (SSE route)
  Stoppers,     \* calls of POST /api/chat/stop
  Deleters,     \* calls of DELETE /api/conversations/{customer}/{conversation}
  NoTurn,       \* "None": no turn, no lock object
  NoConv,       \* "": no conversation
  PoolSize,     \* threads of the event loop's default executor
  WindowSize,   \* messages the Redis window keeps
  Faulty,       \* whether a best-effort write may fail
  MaxCrashes    \* bound on process crashes

ASSUME TurnsAssumption == IsFiniteSet(Turns) /\ NoTurn \notin Turns
ASSUME ConvsAssumption == NoConv \notin Convs /\ ConvOf \in [Turns -> Convs]
ASSUME SizesAssumption ==
  /\ Streaming \subseteq Turns
  /\ Impatient \subseteq Turns
  /\ PoolSize \in Nat \ {0}
  /\ WindowSize \in Nat \ {0}
  /\ Faulty \in BOOLEAN
  /\ MaxCrashes \in Nat

VARIABLES
  pc,          \* where each turn's worker is
  result,      \* how the turn's graph ended
  client,      \* whether the HTTP client still waits for the turn
  lockOf,      \* `entry`, the lock object the turn holds a reference to
  registry,    \* _conversation_locks: conversation -> lock object
  refs,        \* entry[1]: reference count of a lock object
  holder,      \* entry[0]: the turn inside `with entry[0]`
  stops,       \* _stop_requests: conversations marked to stop
  activeRuns,  \* _active_runs: turns a run_id can be looked up for
  callbacks,   \* _progress_callbacks: whose SSE stream a conversation feeds
  rows,        \* finance.conversations
  messages,    \* finance.conversation_messages of each conversation
  runRow,      \* finance.agent_runs.status of each turn's run
  window,      \* Redis sliding window of each conversation
  checkpoints, \* conversations with a LangGraph checkpoint
  stopper,     \* progress of each stop call
  deleter,     \* progress of each delete call
  marked,      \* history: turns whose conversation was marked while they ran
  crashes      \* number of crashes so far

lockVars   == <<lockOf, registry, refs, holder>>
flagVars   == <<stops, activeRuns, callbacks, marked>>
storeVars  == <<rows, messages, runRow, window, checkpoints>>
callVars   == <<stopper, deleter>>
vars == <<pc, result, client, lockVars, flagVars, storeVars, callVars, crashes>>

-----------------------------------------------------------------------------
(* The regions of a turn's control flow.                                   *)

InGraph    == {"running"}
Locked     == {"locked", "cleared", "active"} \cup InGraph
                \cup {"ended", "completing", "saveUser", "saveReply",
                      "memUser", "memReply", "releasing"}
InGuard    == {"waiting", "leaving"} \cup Locked
InWorker   == {"started"} \cup InGuard
Terminal   == {"dropped", "rejected", "done", "lost", "killed"}
Everywhere == {"queued"} \cup InWorker \cup Terminal
Results    == {"none", "returned", "cancelled", "failed", "raised"}
Roles      == {"user", "assistant"}
Entries    == Turns \X Roles

PoolFull == Cardinality({t \in Turns : pc[t] \in InWorker}) >= PoolSize

Goto(t, place) == pc' = [pc EXCEPT ![t] = place]

LastN(s, n) == IF Len(s) <= n THEN s ELSE SubSeq(s, Len(s) - n + 1, Len(s))

Init ==
  /\ pc = [t \in Turns |-> "queued"]
  /\ result = [t \in Turns |-> "none"]
  /\ client = [t \in Turns |-> "waiting"]
  /\ lockOf = [t \in Turns |-> NoTurn]
  /\ registry = [c \in Convs |-> NoTurn]
  /\ refs = [l \in Turns |-> 0]
  /\ holder = [l \in Turns |-> NoTurn]
  /\ stops = {}
  /\ activeRuns = {}
  /\ callbacks = [c \in Convs |-> NoTurn]
  /\ rows = Convs
  /\ messages = [c \in Convs |-> <<>>]
  /\ runRow = [t \in Turns |-> "none"]
  /\ window = [c \in Convs |-> <<>>]
  /\ checkpoints = {}
  /\ stopper = [s \in Stoppers |-> [at |-> "idle", conv |-> NoConv, target |-> NoTurn]]
  /\ deleter = [d \in Deleters |-> [at |-> "idle", conv |-> NoConv]]
  /\ marked = {}
  /\ crashes = 0

-----------------------------------------------------------------------------
(* The worker of a turn.                                                   *)

\* A pool thread picks the request up (asyncio.to_thread).
StartWorker(t) ==
  /\ pc[t] = "queued"
  /\ ~PoolFull
  /\ Goto(t, "started")
  /\ UNCHANGED <<result, client, lockVars, flagVars, storeVars, callVars, crashes>>

\* Blocked input and trade requests return before the guard is taken.
RejectInput(t) ==
  /\ pc[t] = "started"
  /\ Goto(t, "rejected")
  /\ client' = [client EXCEPT ![t] = IF @ = "waiting" THEN "answered" ELSE @]
  /\ UNCHANGED <<result, lockVars, flagVars, storeVars, callVars, crashes>>

\* Mutant: every turn makes a lock of its own, the registry is not consulted.
EnterGuardOwnLock(t) ==
  /\ pc[t] = "started"
  /\ registry' = [registry EXCEPT ![ConvOf[t]] = t]
  /\ refs' = [refs EXCEPT ![t] = @ + 1]
  /\ lockOf' = [lockOf EXCEPT ![t] = t]
  /\ Goto(t, "waiting")
  /\ UNCHANGED <<result, client, holder, flagVars, storeVars, callVars, crashes>>

\* Mutant: the stop mark is popped on entry, before the lock is held.
EnterGuardPopsStop(t) ==
  LET c == ConvOf[t]
      entry == IF registry[c] = NoTurn THEN t ELSE registry[c]
  IN  /\ pc[t] = "started"
      /\ registry' = [registry EXCEPT ![c] = entry]
      /\ refs' = [refs EXCEPT ![entry] = @ + 1]
      /\ lockOf' = [lockOf EXCEPT ![t] = entry]
      /\ stops' = stops \ {c}
      /\ Goto(t, "waiting")
      /\ UNCHANGED <<result, client, holder, activeRuns, callbacks, marked, storeVars,
                     callVars, crashes>>

\* First half of _conversation_guard, under _RUNTIME_STATE_GUARD: find or
\* create the entry and count this turn before it waits for the lock.
EnterGuard(t) ==
  LET c == ConvOf[t]
      entry == IF registry[c] = NoTurn THEN t ELSE registry[c]
  IN  /\ pc[t] = "started"
      /\ registry' = [registry EXCEPT ![c] = entry]
      /\ refs' = [refs EXCEPT ![entry] = @ + 1]
      /\ lockOf' = [lockOf EXCEPT ![t] = entry]
      /\ Goto(t, "waiting")
      /\ UNCHANGED <<result, client, holder, flagVars, storeVars, callVars, crashes>>

AcquireLock(t) ==
  /\ pc[t] = "waiting"
  /\ holder[lockOf[t]] = NoTurn
  /\ holder' = [holder EXCEPT ![lockOf[t]] = t]
  /\ Goto(t, "locked")
  /\ UNCHANGED <<result, client, lockOf, registry, refs, flagVars, storeVars,
                 callVars, crashes>>

\* Mutant: the mark an earlier turn left is not removed.
ClearStopKeepsMark(t) ==
  /\ pc[t] = "locked"
  /\ callbacks' = IF t \in Streaming THEN [callbacks EXCEPT ![ConvOf[t]] = t] ELSE callbacks
  /\ Goto(t, "cleared")
  /\ UNCHANGED <<result, client, lockVars, stops, activeRuns, marked, storeVars,
                 callVars, crashes>>

\* Forget the stop mark an earlier turn left, then register the callback.
ClearStop(t) ==
  LET c == ConvOf[t]
  IN  /\ pc[t] = "locked"
      /\ stops' = stops \ {c}
      /\ callbacks' = IF t \in Streaming THEN [callbacks EXCEPT ![c] = t] ELSE callbacks
      /\ Goto(t, "cleared")
      /\ UNCHANGED <<result, client, lockVars, activeRuns, marked, storeVars,
                     callVars, crashes>>

RegisterRun(t) ==
  /\ pc[t] = "cleared"
  /\ activeRuns' = activeRuns \cup {t}
  /\ Goto(t, "active")
  /\ UNCHANGED <<result, client, lockVars, stops, callbacks, marked, storeVars,
                 callVars, crashes>>

\* audit.create_run: ensure_conversation re-creates a missing conversation row,
\* then the user message and the run row are inserted in one transaction.
CreateRun(t) ==
  LET c == ConvOf[t]
  IN  /\ pc[t] = "active"
      /\ \/ /\ rows' = rows \cup {c}
            /\ messages' = [messages EXCEPT ![c] = Append(@, <<t, "user">>)]
            /\ runRow' = [runRow EXCEPT ![t] = "running"]
         \/ Faulty /\ UNCHANGED <<rows, messages, runRow>>
      /\ Goto(t, "running")
      /\ UNCHANGED <<result, client, lockVars, flagVars, window, checkpoints,
                     callVars, crashes>>

\* One superstep of the root graph: it checkpoints and finds no stop mark.
Superstep(t) ==
  /\ pc[t] = "running"
  /\ ConvOf[t] \notin stops
  /\ checkpoints' = checkpoints \cup {ConvOf[t]}
  /\ UNCHANGED <<pc, result, client, lockVars, flagVars, rows, messages, runRow,
                 window, callVars, crashes>>

\* A superstep sees the stop mark of its conversation and winds the run down.
ObserveStop(t) ==
  /\ pc[t] = "running"
  /\ ConvOf[t] \in stops
  /\ result' = [result EXCEPT ![t] = "cancelled"]
  /\ checkpoints' = checkpoints \cup {ConvOf[t]}
  /\ Goto(t, "ended")
  /\ UNCHANGED <<client, lockVars, flagVars, rows, messages, runRow, window,
                 callVars, crashes>>

\* The graph returns, with an answer or paused on an interrupt; "raised" is an
\* exception after it returned, in the branch that projects its state.
GraphEnds(t) ==
  /\ pc[t] = "running"
  /\ \E r \in {"returned", "raised"} :
        /\ result' = [result EXCEPT ![t] = r]
        /\ checkpoints' = checkpoints \cup {ConvOf[t]}
  /\ Goto(t, "ended")
  /\ UNCHANGED <<client, lockVars, flagVars, rows, messages, runRow, window,
                 callVars, crashes>>

GraphFails(t) ==
  /\ pc[t] = "running"
  /\ result' = [result EXCEPT ![t] = "failed"]
  /\ Goto(t, "ended")
  /\ UNCHANGED <<client, lockVars, flagVars, storeVars, callVars, crashes>>

\* The finally block: callback, active run and stop mark go together.  After
\* "raised" the variable `output` is unbound and nothing is persisted.
Cleanup(t) ==
  LET c == ConvOf[t]
  IN  /\ pc[t] = "ended"
      /\ callbacks' = [callbacks EXCEPT ![c] = NoTurn]
      /\ activeRuns' = activeRuns \ {t}
      /\ stops' = stops \ {c}
      /\ Goto(t, IF result[t] = "raised" THEN "releasing" ELSE "completing")
      /\ UNCHANGED <<result, client, lockVars, marked, storeVars, callVars, crashes>>

\* Mutant: only a run that returned an answer is completed.
CompleteRunIfReturned(t) ==
  LET c == ConvOf[t]
  IN  /\ pc[t] = "completing"
      /\ IF c \in rows /\ result[t] = "returned"
         THEN /\ messages' = [messages EXCEPT ![c] = Append(@, <<t, "assistant">>)]
              /\ runRow' = [runRow EXCEPT ![t] = result[t]]
         ELSE UNCHANGED <<messages, runRow>>
      /\ Goto(t, "saveUser")
      /\ UNCHANGED <<result, client, lockVars, flagVars, rows, window, checkpoints,
                     callVars, crashes>>

\* audit.complete_run: the reply and the final status in one transaction; the
\* foreign key refuses it when the conversation row is gone.
CompleteRun(t) ==
  LET c == ConvOf[t]
  IN  /\ pc[t] = "completing"
      /\ \/ /\ c \in rows
            /\ messages' = [messages EXCEPT ![c] = Append(@, <<t, "assistant">>)]
            /\ runRow' = [runRow EXCEPT ![t] = IF @ = "none" THEN @ ELSE result[t]]
         \/ (Faulty \/ c \notin rows) /\ UNCHANGED <<messages, runRow>>
      /\ Goto(t, "saveUser")
      /\ UNCHANGED <<result, client, lockVars, flagVars, rows, window, checkpoints,
                     callVars, crashes>>

\* persist_conversation, first transaction; a failure skips the second.
SaveUser(t) ==
  LET c == ConvOf[t]
  IN  /\ pc[t] = "saveUser"
      /\ \/ /\ c \in rows
            /\ messages' = [messages EXCEPT ![c] = Append(@, <<t, "user">>)]
            /\ Goto(t, "saveReply")
         \/ (Faulty \/ c \notin rows) /\ Goto(t, "memUser") /\ UNCHANGED messages
      /\ UNCHANGED <<result, client, lockVars, flagVars, rows, runRow, window,
                     checkpoints, callVars, crashes>>

SaveReply(t) ==
  LET c == ConvOf[t]
  IN  /\ pc[t] = "saveReply"
      /\ \/ /\ c \in rows
            /\ messages' = [messages EXCEPT ![c] = Append(@, <<t, "assistant">>)]
         \/ (Faulty \/ c \notin rows) /\ UNCHANGED messages
      /\ Goto(t, "memUser")
      /\ UNCHANGED <<result, client, lockVars, flagVars, rows, runRow, window,
                     checkpoints, callVars, crashes>>

\* Mutant: the reply is appended although the message it answers was not.
RememberUserGoesOn(t) ==
  LET c == ConvOf[t]
  IN  /\ pc[t] = "memUser"
      /\ \/ window' = [window EXCEPT ![c] = LastN(Append(@, <<t, "user">>), WindowSize)]
         \/ Faulty /\ UNCHANGED window
      /\ Goto(t, "memReply")
      /\ UNCHANGED <<result, client, lockVars, flagVars, rows, messages, runRow,
                     checkpoints, callVars, crashes>>

\* persist_memory: the `and` chain stops at the first append that fails.
RememberUser(t) ==
  LET c == ConvOf[t]
  IN  /\ pc[t] = "memUser"
      /\ \/ /\ window' = [window EXCEPT ![c] = LastN(Append(@, <<t, "user">>), WindowSize)]
            /\ Goto(t, "memReply")
         \/ Faulty /\ Goto(t, "releasing") /\ UNCHANGED window
      /\ UNCHANGED <<result, client, lockVars, flagVars, rows, messages, runRow,
                     checkpoints, callVars, crashes>>

RememberReply(t) ==
  LET c == ConvOf[t]
  IN  /\ pc[t] = "memReply"
      /\ \/ window' = [window EXCEPT ![c] = LastN(Append(@, <<t, "assistant">>), WindowSize)]
         \/ Faulty /\ UNCHANGED window
      /\ Goto(t, "releasing")
      /\ UNCHANGED <<result, client, lockVars, flagVars, rows, messages, runRow,
                     checkpoints, callVars, crashes>>

\* Mutant: the lock is not released when the graph raised.
ReleaseLockOnSuccess(t) ==
  /\ pc[t] = "releasing"
  /\ holder' = IF result[t] = "failed" THEN holder ELSE [holder EXCEPT ![lockOf[t]] = NoTurn]
  /\ Goto(t, "leaving")
  /\ UNCHANGED <<result, client, lockOf, registry, refs, flagVars, storeVars,
                 callVars, crashes>>

ReleaseLock(t) ==
  /\ pc[t] = "releasing"
  /\ holder' = [holder EXCEPT ![lockOf[t]] = NoTurn]
  /\ Goto(t, "leaving")
  /\ UNCHANGED <<result, client, lockOf, registry, refs, flagVars, storeVars,
                 callVars, crashes>>

\* Mutant: the entry is popped although other turns still wait on its lock.
LeaveGuardAlwaysPops(t) ==
  /\ pc[t] = "leaving"
  /\ refs' = [refs EXCEPT ![lockOf[t]] = @ - 1]
  /\ registry' = [registry EXCEPT ![ConvOf[t]] = NoTurn]
  /\ lockOf' = [lockOf EXCEPT ![t] = NoTurn]
  /\ client' = [client EXCEPT ![t] = IF @ = "waiting" THEN "answered" ELSE @]
  /\ Goto(t, "done")
  /\ UNCHANGED <<result, holder, flagVars, storeVars, callVars, crashes>>

\* Second half of _conversation_guard: uncount; the last one removes the entry.
LeaveGuard(t) ==
  LET c == ConvOf[t]
      l == lockOf[t]
  IN  /\ pc[t] = "leaving"
      /\ refs' = [refs EXCEPT ![l] = @ - 1]
      /\ registry' = IF refs[l] = 1 THEN [registry EXCEPT ![c] = NoTurn] ELSE registry
      /\ lockOf' = [lockOf EXCEPT ![t] = NoTurn]
      /\ client' = [client EXCEPT ![t] = IF @ = "waiting" THEN "answered" ELSE @]
      /\ Goto(t, "done")
      /\ UNCHANGED <<result, holder, flagVars, storeVars, callVars, crashes>>

Worker(t) ==
  \/ StartWorker(t) \/ RejectInput(t) \/ EnterGuard(t) \/ AcquireLock(t)
  \/ ClearStop(t) \/ RegisterRun(t) \/ CreateRun(t)
  \/ Superstep(t) \/ ObserveStop(t) \/ GraphEnds(t) \/ GraphFails(t)
  \/ Cleanup(t) \/ CompleteRun(t) \/ SaveUser(t) \/ SaveReply(t)
  \/ RememberUser(t) \/ RememberReply(t) \/ ReleaseLock(t) \/ LeaveGuard(t)

-----------------------------------------------------------------------------
(* The client, the stop route, the delete route and the crash.             *)

\* Mutant: the timeout interrupts the worker as well.
GiveUpKillsWorker(t) ==
  /\ t \in Impatient
  /\ client[t] = "waiting"
  /\ pc[t] \in Locked
  /\ client' = [client EXCEPT ![t] = "gaveUp"]
  /\ Goto(t, "releasing")
  /\ UNCHANGED <<result, lockVars, flagVars, storeVars, callVars, crashes>>

\* The turn timeout ends the wait; a thread that runs is not interrupted.
GiveUp(t) ==
  /\ t \in Impatient
  /\ client[t] = "waiting"
  /\ pc[t] \in InWorker
  /\ client' = [client EXCEPT ![t] = "gaveUp"]
  /\ UNCHANGED <<pc, result, lockVars, flagVars, storeVars, callVars, crashes>>

\* Cancelling the future of a request no pool thread has picked up removes it.
GiveUpQueued(t) ==
  /\ t \in Impatient
  /\ client[t] = "waiting"
  /\ pc[t] = "queued"
  /\ PoolFull
  /\ client' = [client EXCEPT ![t] = "gaveUp"]
  /\ Goto(t, "dropped")
  /\ UNCHANGED <<result, lockVars, flagVars, storeVars, callVars, crashes>>

\* chat_stop with a run_id: ownership is read from _active_runs, and the
\* conversation of that run is what the mark will be set on.
StopLookup(s) ==
  /\ stopper[s].at = "idle"
  /\ \E t \in activeRuns :
        /\ ConvOf[t] \in rows
        /\ stopper' = [stopper EXCEPT
                         ![s] = [at |-> "found", conv |-> ConvOf[t], target |-> t]]
  /\ UNCHANGED <<pc, result, client, lockVars, flagVars, storeVars, deleter, crashes>>

\* chat_stop with a conversation_id only, which is what the frontend sends.
StopConversation(s) ==
  /\ stopper[s].at = "idle"
  /\ \E c \in rows :
        stopper' = [stopper EXCEPT
                      ![s] = [at |-> "found", conv |-> c, target |-> NoTurn]]
  /\ UNCHANGED <<pc, result, client, lockVars, flagVars, storeVars, deleter, crashes>>

\* request_stop: set the mark of the conversation, whatever runs there now.
RequestStop(s) ==
  LET c == stopper[s].conv
  IN  /\ stopper[s].at = "found"
      /\ stops' = stops \cup {c}
      /\ marked' = marked \cup {t \in Turns : ConvOf[t] = c
                                   /\ pc[t] \in {"cleared", "active", "running"}}
      /\ stopper' = [stopper EXCEPT ![s].at = "done"]
      /\ UNCHANGED <<pc, result, client, lockVars, activeRuns, callbacks, storeVars,
                     deleter, crashes>>

\* delete_checkpoint_conversation, step 1: the row, its messages by cascade.
DeleteRows(d) ==
  /\ deleter[d].at = "idle"
  /\ \E c \in rows :
        /\ rows' = rows \ {c}
        /\ messages' = [messages EXCEPT ![c] = <<>>]
        /\ deleter' = [deleter EXCEPT ![d] = [at |-> "checkpoint", conv |-> c]]
  /\ UNCHANGED <<pc, result, client, lockVars, flagVars, runRow, window,
                 checkpoints, stopper, crashes>>

\* Step 2; an exception answers "not found" although the rows are gone.
DeleteCheckpoint(d) ==
  LET c == deleter[d].conv
  IN  /\ deleter[d].at = "checkpoint"
      /\ \/ /\ checkpoints' = checkpoints \ {c}
            /\ deleter' = [deleter EXCEPT ![d].at = "memory"]
         \/ /\ Faulty
            /\ deleter' = [deleter EXCEPT ![d].at = "refused"]
            /\ UNCHANGED checkpoints
      /\ UNCHANGED <<pc, result, client, lockVars, flagVars, rows, messages, runRow,
                     window, stopper, crashes>>

\* Step 3; clear_conversation swallows a Redis error, the answer stays True.
DeleteMemory(d) ==
  LET c == deleter[d].conv
  IN  /\ deleter[d].at = "memory"
      /\ \/ window' = [window EXCEPT ![c] = <<>>]
         \/ Faulty /\ UNCHANGED window
      /\ deleter' = [deleter EXCEPT ![d].at = "deleted"]
      /\ UNCHANGED <<pc, result, client, lockVars, flagVars, rows, messages, runRow,
                     checkpoints, stopper, crashes>>

\* The process dies: what it held in memory is gone, the stores stay.
Crash ==
  /\ crashes < MaxCrashes
  /\ crashes' = crashes + 1
  /\ pc' = [t \in Turns |-> CASE pc[t] \in Terminal -> pc[t]
                              [] pc[t] \in Locked   -> "killed"
                              [] pc[t] = "leaving"  -> "done"
                              [] OTHER              -> "lost"]
  /\ client' = [t \in Turns |-> IF client[t] = "waiting" THEN "gaveUp" ELSE client[t]]
  /\ lockOf' = [t \in Turns |-> NoTurn]
  /\ registry' = [c \in Convs |-> NoTurn]
  /\ refs' = [l \in Turns |-> 0]
  /\ holder' = [l \in Turns |-> NoTurn]
  /\ stops' = {}
  /\ activeRuns' = {}
  /\ callbacks' = [c \in Convs |-> NoTurn]
  /\ stopper' = [s \in Stoppers |-> [stopper[s] EXCEPT !.at = "done"]]
  /\ deleter' = [d \in Deleters |->
                   [deleter[d] EXCEPT !.at = IF @ = "deleted" THEN @ ELSE "refused"]]
  /\ UNCHANGED <<result, marked, storeVars>>

StopCall(s) == StopLookup(s) \/ StopConversation(s) \/ RequestStop(s)
DeleteCall(d) == DeleteRows(d) \/ DeleteCheckpoint(d) \/ DeleteMemory(d)

Next ==
  \/ \E t \in Turns : Worker(t)
  \/ \E t \in Turns : GiveUp(t) \/ GiveUpQueued(t)
  \/ \E s \in Stoppers : StopCall(s)
  \/ \E d \in Deleters : DeleteCall(d)
  \/ Crash

Spec == Init /\ [][Next]_vars

\* The threads of the pool are scheduled; nothing obliges a client to give up,
\* to stop or to delete, nor the process to crash.
Fairness == \A t \in Turns : WF_vars(Worker(t))

FairSpec == Spec /\ Fairness

-----------------------------------------------------------------------------
(* Correctness.                                                            *)

StopCalls == [at : {"idle", "found", "done"},
              conv : Convs \cup {NoConv}, target : Turns \cup {NoTurn}]

DeleteCalls == [at : {"idle", "checkpoint", "memory", "deleted", "refused"},
                conv : Convs \cup {NoConv}]

\* The type invariant of the host's state.
TypeOK ==
  /\ pc \in [Turns -> Everywhere]
  /\ result \in [Turns -> Results]
  /\ client \in [Turns -> {"waiting", "answered", "gaveUp"}]
  /\ lockOf \in [Turns -> Turns \cup {NoTurn}]
  /\ registry \in [Convs -> Turns \cup {NoTurn}]
  /\ refs \in [Turns -> Nat]
  /\ holder \in [Turns -> Turns \cup {NoTurn}]
  /\ stops \subseteq Convs
  /\ activeRuns \subseteq Turns
  /\ callbacks \in [Convs -> Turns \cup {NoTurn}]
  /\ rows \subseteq Convs
  /\ messages \in [Convs -> Seq(Entries)]
  /\ runRow \in [Turns -> {"none", "running"} \cup Results]
  /\ window \in [Convs -> Seq(Entries)]
  /\ checkpoints \subseteq Convs
  /\ stopper \in [Stoppers -> StopCalls]
  /\ \A s \in Stoppers : stopper[s].at = "found" => stopper[s].conv \in Convs
  /\ deleter \in [Deleters -> DeleteCalls]
  /\ marked \subseteq Turns
  /\ crashes \in 0..MaxCrashes

\* Two turns of one conversation are never inside the guarded region together
\* (test_conversation_guard_serializes_same_conversation).
MutualExclusion ==
  \A t, u \in Turns : pc[t] \in Locked /\ pc[u] \in Locked /\ ConvOf[t] = ConvOf[u]
                        => t = u

\* The users of lock object l, waiting turns included.
Users(l) == {t \in Turns : lockOf[t] = l}

\* The registry maps a conversation to the one lock object all its turns use,
\* an entry counts its users, and the lock's holder is the turn inside.
GuardConsistent ==
  /\ \A t \in Turns : pc[t] \in InGuard => /\ lockOf[t] \in Turns
                                           /\ registry[ConvOf[t]] = lockOf[t]
  /\ \A t \in Turns : pc[t] \notin InGuard => lockOf[t] = NoTurn
  /\ \A l \in Turns : refs[l] = Cardinality(Users(l))
  /\ \A t \in Turns : pc[t] \in Locked <=> /\ lockOf[t] \in Turns
                                           /\ holder[lockOf[t]] = t

\* An entry is there as long as some turn of the conversation needs it, and no
\* longer (test_conversation_guard_cleans_up_registry).
RegistryReclaimed ==
  \A c \in Convs :
     registry[c] # NoTurn <=> \E t \in Turns : pc[t] \in InGuard /\ ConvOf[t] = c

\* Lock objects are not mixed up: two conversations never share one, a turn that
\* has not entered the guard has created none, and a held lock is its holder's.
LocksDistinct ==
  /\ \A c, d \in Convs : registry[c] = registry[d] /\ registry[c] # NoTurn => c = d
  /\ \A c \in Convs : registry[c] \in Turns => pc[registry[c]] \notin {"queued", "started"}
  /\ \A t \in Turns : lockOf[t] \in Turns => pc[lockOf[t]] \notin {"queued", "started"}
  /\ \A l \in Turns : holder[l] \in Turns => /\ pc[holder[l]] \in Locked
                                              /\ lockOf[holder[l]] = l

\* The inductive invariant of the guard.
GuardInv == GuardConsistent /\ RegistryReclaimed /\ LocksDistinct

\* A run is cancelled only on a mark made while that run was going on: a mark
\* left from an earlier turn never stops a later one.
NoStaleCancel == \A t \in Turns : result[t] = "cancelled" => t \in marked

\* A mark on a conversation whose run is going on is not taken away before the
\* run has ended: no other turn of the conversation consumes it.
StopMarkKept ==
  [][\A t \in Turns : pc[t] \in InGraph /\ pc'[t] \in InGraph /\ ConvOf[t] \in stops
        => ConvOf[t] \in stops']_vars

\* In the window a reply stands right behind the message it answers; it has
\* nothing before it only where the window was trimmed or deleted.
ReplyFollowsItsMessage ==
  \A c \in Convs : \A i \in 2..Len(window[c]) :
     window[c][i][2] = "assistant" => window[c][i-1] = <<window[c][i][1], "user">>

\* The stored transcript never mixes two turns: what one turn stored is one block.
TranscriptContiguous ==
  \A c \in Convs : \A i, j, k \in 1..Len(messages[c]) :
     i < j /\ j < k /\ messages[c][i][1] = messages[c][k][1]
        => messages[c][j][1] = messages[c][i][1]

\* A turn has closed its run row with its own outcome by the time it leaves the guard, however
\* the graph ended and whoever gave up on it; only an exception between the graph and the
\* finally block leaves the row open, for good (faults and deletes aside; a turn that a crash
\* ends does not leave the guard).
RunRowClosed ==
  \A t \in Turns : pc[t] \in {"leaving", "done"}
                      => runRow[t] = IF result[t] = "raised" THEN "running" ELSE result[t]

\* "超时后放弃等待（工作线程仍在跑完并落库）" (advisor.py:626): with a thread for
\* every turn, and without faults, deletes and crashes, a turn whose client gave up ends with its messages stored.
AbandonedTurnRecorded ==
  \A t \in Turns :
     client[t] = "gaveUp" /\ pc[t] \in Terminal \ {"rejected"} /\ result[t] # "raised"
        => \A r \in Roles : \E i \in 1..Len(messages[ConvOf[t]]) :
              messages[ConvOf[t]][i] = <<t, r>>

\* "删除指定会话的业务行、checkpoint 与记忆" (advisor.py:676): once the delete call has
\* answered True, no turn accepted before it leaves any of them behind.
DeletedStaysGone ==
  \A d \in Deleters : LET c == deleter[d].conv IN
     deleter[d].at = "deleted" =>
        c \notin rows /\ c \notin checkpoints /\ window[c] = <<>>

\* Every request handed to the pool comes to an end, whatever clients do.
EveryTurnEnds == \A t \in Turns : <>(pc[t] \in Terminal)

-----------------------------------------------------------------------------
(* The host implements the serial executor of SerialConversations.         *)

InsideOf(c) ==
  IF \E t \in Turns : pc[t] \in Locked /\ ConvOf[t] = c
  THEN CHOOSE t \in Turns : pc[t] \in Locked /\ ConvOf[t] = c
  ELSE NoTurn

Serial == INSTANCE SerialConversations
            WITH inside <- [c \in Convs |-> InsideOf(c)],
                 begun  <- {t \in Turns : pc[t] \in Locked \cup {"leaving", "done", "killed"}}

\* Whatever the guard, the registry and the crash do, a conversation sees its
\* turns one at a time and each of them at most once.
SerialSpec == Serial!SerialSpec
=============================================================================
