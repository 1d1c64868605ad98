----------------------- MODULE QuantRecovery_proofs -----------------------
(***************************************************************************)
(* Proofs about QuantRecovery, for any number of tasks, jobs and customers, *)
(* jobs that several tasks submit included.                                *)
(***************************************************************************)
EXTENDS QuantRecovery, FiniteSetTheorems, TLAPS

USE TaskAssumption, JobAssumption, BoundAssumption, CustomerAssumption
USE DEF TaskAssumption, JobAssumption, BoundAssumption, CustomerAssumption

-----------------------------------------------------------------------------
(* The inductive invariant. *)

TurnType == [at : {"running", "answered", "dead"}, submit : SUBSET Jobs,
             link : SUBSET Jobs, save : SUBSET Jobs]
RefType == [owner : Customers \cup {NoCustomer}, thread : Tasks \cup {NoTask}]

BrokerType == {"PENDING", "STARTED", "SUCCESS", "EMPTY", "FAILURE", "REVOKED", "EXPIRED"}

USE DEF TurnType, RefType, BrokerType

\* The type invariant, with the poll and the recovered messages in full.
Typed ==
    /\ TypeOK
    /\ poll \in [at : {"idle", "snapshot", "load", "merge", "delete"}, job : Jobs \cup {""},
                 who : Customers \cup {NoCustomer}, task : Tasks \cup {NoTask},
                 all : SUBSET Jobs, left : SUBSET Jobs, reading : SUBSET Jobs,
                 merged : SUBSET Jobs, warned : SUBSET Jobs, pending : BOOLEAN]
    /\ recovered \in [Tasks -> Seq(SUBSET Jobs)]
    /\ poll.at # "idle" => poll.job \in Jobs /\ poll.who \in Customers

\* A row names a task that submitted the job and has saved it.
RowInv ==
    /\ \A t \in Tasks : turn[t].save \subseteq JobsOf[t]
    /\ \A j \in Jobs : rows[j] \in Tasks => j \in JobsOf[rows[j]] \ turn[rows[j]].save

Resuming == poll.at \in {"merge", "delete"}

\* What the request under way has done about a row that it is through with.
Accounted(j) == \/ j \in poll.merged
                \/ broker[j] = "REVOKED"
                \/ j \in poll.warned /\ Unreadable(j)

\* What the request under way knows of the rows it loaded.
PollInv ==
    /\ Resuming =>
          /\ poll.task \in Tasks
          /\ poll.all \subseteq JobsOf[poll.task] \ turn[poll.task].save
          /\ poll.merged \subseteq poll.all
    /\ ~Resuming => poll.merged = {}
    /\ \A j \in poll.reading : /\ poll.at = "merge" /\ poll.reading = {j} /\ j \in poll.all
                               /\ Readable(j) \/ Unreadable(j)
    /\ poll.at = "merge" /\ ~poll.pending =>
          \A j \in poll.all \ (poll.left \cup poll.reading) : Accounted(j)
    /\ poll.at = "delete" =>
          /\ \A j \in poll.all : Accounted(j)
          /\ \A j \in poll.all \ poll.left : rows[j] # poll.task

\* Where the result of a saved job is.
KeptInv ==
    \A t \in Tasks \ lost : \A j \in Sole(t) :
        \/ rows[j] = t
        \/ Delivering(t) /\ j \in poll.all
        \/ Told(t, j) # {}
        \/ broker[j] = "REVOKED"
        \/ Unreadable(j) /\ WarnedOf(t, j)

\* A result that was told has no row any more, and no request is about to tell it.
OnceInv ==
    \A t \in Tasks, j \in Jobs : \A n \in Told(t, j) :
        /\ rows[j] # t /\ j \notin turn[t].save
        /\ ~(Resuming /\ poll.task = t /\ j \in poll.all)
        /\ \A m \in Told(t, j) : m = n

IInv == Typed /\ RowInv /\ PollInv /\ SnapshotKept /\ KeptInv /\ OnceInv

-----------------------------------------------------------------------------
LEMMA InitIInv == Init => IInv
<1> SUFFICES ASSUME Init PROVE IInv
  OBVIOUS
<1> USE DEF Init
<1>1. Typed
  <2>1. turn \in [Tasks -> TurnType]
    OBVIOUS
  <2>2. /\ broker \in [Jobs -> BrokerType]
        /\ known \subseteq Jobs /\ revoked \subseteq Jobs
        /\ ref \in [Jobs -> RefType]
        /\ rows \in [Jobs -> Tasks \cup {NoTask}]
        /\ shown \subseteq [who : Customers, task : Tasks, warned : SUBSET Jobs]
        /\ crashes \in 0..MaxCrashes
    OBVIOUS
  <2>3. recovered \in [Tasks -> Seq(SUBSET Jobs)]
    OBVIOUS
  <2>4. QED
    BY <2>1, <2>2, <2>3 DEF Typed, TypeOK, NoPoll
<1>2. RowInv
  BY DEF RowInv
<1>3. PollInv
  BY DEF PollInv, Resuming, NoPoll
<1>4. \A t \in Tasks : Sole(t) = {} /\ \A j \in Jobs : Told(t, j) = {}
  BY DEF Sole, Told
<1>5. QED
  BY <1>1, <1>2, <1>3, <1>4 DEF IInv, SnapshotKept, KeptInv, OnceInv

\* A job that was cancelled stays so, and a result that cannot be read does not come back.
Ebbs == \A j \in Jobs : /\ broker[j] = "REVOKED" => broker'[j] = "REVOKED"
                        /\ Unreadable(j) => Unreadable(j)'
                        /\ Readable(j) => Readable(j)' \/ Unreadable(j)'

\* A step that leaves rows, poll and messages alone, and brings no result back.
LEMMA QuietKeeps ==
    ASSUME IInv, Typed', UNCHANGED <<rows, poll, recovered, lost, shown>>,
           \A t \in Tasks : turn'[t].save = turn[t].save, Ebbs
    PROVE  IInv'
<1>1. \A t \in Tasks : Sole(t)' = Sole(t) /\ Delivering(t)' = Delivering(t)
  BY DEF Sole, Delivering
<1>2. \A t \in Tasks, j \in Jobs : Told(t, j)' = Told(t, j) /\ WarnedOf(t, j)' = WarnedOf(t, j)
  BY DEF Told, WarnedOf
<1>3. \A t \in Tasks : Sole(t) \subseteq Jobs
  BY DEF Sole
<1>4. RowInv'
  BY DEF IInv, RowInv
<1>5. PollInv'
  <2>1. poll.all \subseteq Jobs /\ poll.reading \subseteq Jobs
    BY DEF IInv, Typed, TypeOK
  <2>2. \A j \in Jobs : Accounted(j) => Accounted(j)'
    BY DEF Accounted, Ebbs
  <2>3. \A j \in poll.reading : Readable(j)' \/ Unreadable(j)'
    BY <2>1 DEF IInv, PollInv, Ebbs
  <2>4. QED
    BY <2>1, <2>2, <2>3 DEF IInv, PollInv, Resuming
<1>6. SnapshotKept'
  BY <1>1 DEF IInv, SnapshotKept
<1>7. KeptInv'
  BY <1>1, <1>2, <1>3 DEF IInv, KeptInv, Ebbs
<1>8. OnceInv'
  BY <1>2 DEF IInv, OnceInv, Resuming
<1>9. QED
  BY <1>4, <1>5, <1>6, <1>7, <1>8 DEF IInv

\* What a turn's step leaves alone keeps its type.
LEMMA TurnTyped ==
    ASSUME IInv, UNCHANGED <<poll, rows, recovered, shown, crashes, revoked>>,
           broker' = broker, known' \subseteq Jobs,
           ref' \in [Jobs -> RefType],
           NEW t \in Tasks, NEW row,
           row \in TurnType,
           row.save = turn[t].save,
           turn' = [turn EXCEPT ![t] = row]
    PROVE  Typed' /\ \A u \in Tasks : turn'[u].save = turn[u].save
<1>1. turn' \in [Tasks -> TurnType]
  BY DEF IInv, Typed, TypeOK
<1>2. Typed'
  BY <1>1 DEF IInv, Typed, TypeOK
<1>3. \A u \in Tasks : turn'[u].save = turn[u].save
  BY DEF IInv, Typed, TypeOK
<1>4. QED
  BY <1>2, <1>3

LEMMA SubmitKeeps == ASSUME IInv, NEW t \in Tasks, NEW j \in Jobs, Submit(t, j) PROVE IInv'
<1>1. turn[t] \in TurnType
  BY DEF IInv, Typed, TypeOK
<1>2. known \subseteq Jobs /\ ref \in [Jobs -> RefType]
  BY DEF IInv, Typed, TypeOK
<1>3. PICK row :
          /\ row \in TurnType
          /\ row.save = turn[t].save
          /\ turn' = [turn EXCEPT ![t] = row]
  <2>1. CASE j \in known
    BY <1>1, <2>1 DEF Submit
  <2>2. CASE j \notin known
    BY <1>1, <2>2 DEF Submit
  <2>3. QED
    BY <2>1, <2>2
<1>4. Typed' /\ \A u \in Tasks : turn'[u].save = turn[u].save
  <2>1. known' \subseteq Jobs
    BY <1>2 DEF Submit
  <2>2. QED
    BY <1>2, <1>3, <2>1, TurnTyped DEF Submit
<1>5. QED
  BY <1>4, QuietKeeps DEF Submit, Ebbs, Readable, Unreadable

LEMMA LinkKeeps == ASSUME IInv, NEW t \in Tasks, NEW j \in Jobs, Link(t, j) PROVE IInv'
<1>1. /\ turn[t] \in TurnType
      /\ known \subseteq Jobs
  BY DEF IInv, Typed, TypeOK
<1>2. ref' \in [Jobs -> RefType]
  <2>1. CustomerOf[t] \in Customers
    OBVIOUS
  <2>2. ref \in [Jobs -> RefType]
    BY DEF IInv, Typed, TypeOK
  <2>3. QED
    BY <2>1, <2>2 DEF Link
<1>3. PICK row :
          /\ row \in TurnType
          /\ row.save = turn[t].save
          /\ turn' = [turn EXCEPT ![t] = row]
  BY <1>1 DEF Link
<1>4. Typed' /\ \A u \in Tasks : turn'[u].save = turn[u].save
  BY <1>1, <1>2, <1>3, TurnTyped, ZenonT(30) DEF Link
<1>5. QED
  BY <1>4, QuietKeeps DEF Link, Ebbs, Readable, Unreadable

LEMMA ReplyKeeps == ASSUME IInv, NEW t \in Tasks, Reply(t) PROVE IInv'
<1>1. /\ turn[t] \in TurnType
      /\ known \subseteq Jobs
      /\ ref \in [Jobs -> RefType]
  BY DEF IInv, Typed, TypeOK
<1>2. PICK row :
          /\ row \in TurnType
          /\ row.save = turn[t].save
          /\ turn' = [turn EXCEPT ![t] = row]
  BY <1>1 DEF Reply
<1>3. Typed' /\ \A u \in Tasks : turn'[u].save = turn[u].save
  BY <1>1, <1>2, TurnTyped DEF Reply
<1>4. QED
  BY <1>3, QuietKeeps DEF Reply, Ebbs, Readable, Unreadable

LEMMA StopKeeps == ASSUME IInv, NEW t \in Tasks, Stop(t) PROVE IInv'
<1>1. Typed'
  <2>1. revoked' \subseteq Jobs
    BY DEF IInv, Typed, TypeOK, Stop, RefsOf
  <2>2. QED
    BY <2>1 DEF IInv, Typed, TypeOK, Stop
<1>2. QED
  BY <1>1, QuietKeeps DEF Stop, Ebbs, Readable, Unreadable

LEMMA BrokerKeeps == ASSUME IInv, NEW j \in Jobs, Works(j) \/ Expire(j) PROVE IInv'
<1>1. PICK state \in BrokerType :
          /\ broker' = [broker EXCEPT ![j] = state] /\ broker[j] \notin {"REVOKED", "EXPIRED"}
          /\ broker[j] \in {"SUCCESS", "EMPTY"} => state = "EXPIRED"
  BY DEF Works, Ends, Expire
<1>2. broker \in [Jobs -> BrokerType]
  BY DEF IInv, Typed, TypeOK
<1>3. broker' \in [Jobs -> BrokerType] /\ Ebbs
  BY <1>1, <1>2 DEF Ebbs, Readable, Unreadable
<1>4. UNCHANGED <<known, ref, rows, turn, poll, recovered, shown, revoked, lost, crashes>>
  BY DEF Works, Ends, Expire
<1>5. Typed'
  BY <1>3, <1>4 DEF IInv, Typed, TypeOK
<1>6. QED
  BY <1>3, <1>4, <1>5, QuietKeeps

\* A row is saved by the turn that submitted its job, and only once.
LEMMA SaveKeeps == ASSUME IInv, NEW t \in Tasks, NEW j \in Jobs, SaveOutcome(t, j) PROVE IInv'
<1>1. /\ turn \in [Tasks -> TurnType] /\ rows \in [Jobs -> Tasks \cup {NoTask}]
      /\ j \in turn[t].save /\ rows' = [rows EXCEPT ![j] = t]
      /\ turn' = [turn EXCEPT ![t].save = @ \ {j}]
      /\ UNCHANGED <<broker, known, ref, poll, recovered, shown, revoked, lost, crashes>>
  BY DEF IInv, Typed, TypeOK, SaveOutcome
<1>2. turn[t] \in TurnType
  BY <1>1
<1>3. /\ turn'[t].save = turn[t].save \ {j} /\ turn'[t] \in TurnType
      /\ \A u \in Tasks \ {t} : turn'[u] = turn[u]
      /\ turn' \in [Tasks -> TurnType]
  BY <1>1, <1>2
<1>4. /\ rows'[j] = t /\ \A i \in Jobs \ {j} : rows'[i] = rows[i]
      /\ rows' \in [Jobs -> Tasks \cup {NoTask}]
  BY <1>1
<1>5. Typed'
  BY <1>1, <1>3, <1>4 DEF IInv, Typed, TypeOK
<1>6. RowInv'
  <2>1. \A u \in Tasks : turn'[u].save \subseteq JobsOf[u]
    BY <1>3 DEF IInv, RowInv
  <2>2. ASSUME NEW i \in Jobs, rows'[i] \in Tasks
        PROVE  i \in JobsOf[rows'[i]] \ turn'[rows'[i]].save
    <3>1. CASE i = j
      BY <1>1, <1>3, <1>4, <3>1 DEF IInv, RowInv
    <3>2. CASE i # j
      BY <1>3, <1>4, <2>2, <3>2 DEF IInv, RowInv
    <3>3. QED
      BY <3>1, <3>2
  <2>3. QED
    BY <2>1, <2>2 DEF RowInv
<1>7. \A u \in Tasks : turn'[u].save \subseteq turn[u].save
  BY <1>3
<1>8. PollInv'
  <2>1. poll.all \subseteq Jobs
    BY DEF IInv, Typed, TypeOK
  <2>2. ASSUME poll.at = "delete", NEW i \in poll.all \ poll.left
        PROVE  rows'[i] # poll.task
    <3>1. rows[i] # poll.task /\ poll.task \in Tasks /\ i \notin turn[poll.task].save
      BY <2>2 DEF IInv, PollInv, Resuming
    <3>2. CASE i = j
      BY <1>1, <1>4, <3>1, <3>2
    <3>3. CASE i # j
      BY <1>4, <2>1, <2>2, <3>1, <3>3
    <3>4. QED
      BY <3>2, <3>3
  <2>3. Resuming' => poll.all \subseteq JobsOf[poll.task] \ turn'[poll.task].save
    BY <1>1, <1>7 DEF IInv, PollInv, Resuming
  <2>4. \A i \in Jobs : /\ Accounted(i)' = Accounted(i)
                        /\ Readable(i)' = Readable(i) /\ Unreadable(i)' = Unreadable(i)
    BY <1>1 DEF Accounted, Readable, Unreadable
  <2>5. poll.reading \subseteq Jobs
    BY DEF IInv, Typed
  <2>6. QED
    BY <1>1, <2>1, <2>2, <2>3, <2>4, <2>5 DEF IInv, PollInv, Resuming
<1>9. \A u \in Tasks, i \in Jobs : /\ Told(u, i)' = Told(u, i) /\ Delivering(u)' = Delivering(u)
                                   /\ WarnedOf(u, i)' = WarnedOf(u, i)
                                   /\ Unreadable(i)' = Unreadable(i)
  BY <1>1 DEF Told, Delivering, WarnedOf, Unreadable
<1>10. \A u \in Tasks : \A i \in Sole(u)' :
           i \in Jobs /\ (i = j => u = t) /\ (i # j => i \in Sole(u))
  <2>1. j \in JobsOf[t]
    BY <1>1 DEF IInv, RowInv
  <2>2. QED
    BY <1>3, <2>1 DEF Sole
<1>11. SnapshotKept'
  BY <1>1, <1>4, <1>9, <1>10 DEF IInv, SnapshotKept
<1>12. KeptInv'
  BY <1>1, <1>4, <1>9, <1>10 DEF IInv, KeptInv
<1>13. OnceInv'
  <2> SUFFICES ASSUME NEW u \in Tasks, NEW i \in Jobs, NEW n \in Told(u, i)
               PROVE  /\ rows'[i] # u /\ i \notin turn'[u].save
                      /\ ~(Resuming /\ poll.task = u /\ i \in poll.all)
                      /\ \A m \in Told(u, i) : m = n
    BY <1>1, <1>9 DEF OnceInv, Resuming
  <2>1. /\ rows[i] # u /\ i \notin turn[u].save
        /\ ~(Resuming /\ poll.task = u /\ i \in poll.all)
        /\ \A m \in Told(u, i) : m = n
    BY DEF IInv, OnceInv
  <2>2. i = j => u # t
    BY <1>1, <2>1
  <2>3. QED
    BY <1>4, <1>7, <2>1, <2>2
<1>14. QED
  BY <1>5, <1>6, <1>8, <1>11, <1>12, <1>13 DEF IInv

\* A step of the request that touches neither rows nor messages.
LEMMA PollKeeps ==
    ASSUME IInv, Typed', PollInv',
           UNCHANGED <<broker, rows, turn, recovered, lost, shown>>,
           \A t \in Tasks : Delivering(t) => Delivering(t)' /\ poll'.all = poll.all,
           Resuming' => \A j \in poll'.all :
                            \/ rows[j] = poll'.task
                            \/ Resuming /\ poll.task = poll'.task /\ j \in poll.all
    PROVE  IInv'
<1>1. /\ \A t \in Tasks : Sole(t)' = Sole(t)
      /\ \A t \in Tasks, j \in Jobs : /\ Told(t, j)' = Told(t, j)
                                      /\ WarnedOf(t, j)' = WarnedOf(t, j)
                                      /\ Unreadable(j)' = Unreadable(j)
  BY DEF Sole, Told, WarnedOf, Unreadable
<1>2. \A t \in Tasks : Sole(t) \subseteq Jobs
  BY DEF Sole
<1>3. RowInv'
  BY DEF IInv, RowInv
<1>4. SnapshotKept'
  BY <1>1 DEF IInv, SnapshotKept
<1>5. KeptInv'
  BY <1>1, <1>2 DEF IInv, KeptInv
<1>6. OnceInv'
  <2> SUFFICES ASSUME NEW t \in Tasks, NEW j \in Jobs, NEW n \in Told(t, j)
               PROVE  /\ rows[j] # t /\ j \notin turn[t].save
                      /\ ~(Resuming' /\ poll'.task = t /\ j \in poll'.all)
                      /\ \A m \in Told(t, j) : m = n
    BY <1>1 DEF OnceInv
  <2>1. /\ rows[j] # t /\ j \notin turn[t].save
        /\ ~(Resuming /\ poll.task = t /\ j \in poll.all)
        /\ \A m \in Told(t, j) : m = n
    BY DEF IInv, OnceInv
  <2>2. QED
    BY <2>1
<1>7. QED
  BY <1>3, <1>4, <1>5, <1>6 DEF IInv

LEMMA LookKeeps ==
    ASSUME IInv, NEW who \in Customers, NEW j \in Jobs, Look(who, j) PROVE IInv'
<1>1. /\ poll.at = "idle" /\ poll'.at = "snapshot"
      /\ poll' = [NoPoll EXCEPT !.at = "snapshot", !.job = j, !.who = who]
      /\ UNCHANGED <<broker, known, ref, rows, turn, recovered, shown, revoked, lost, crashes>>
  BY DEF Look, NoPoll
<1>2. Typed'
  BY <1>1 DEF IInv, Typed, TypeOK, NoPoll
<1>3. PollInv'
  BY <1>1 DEF PollInv, Resuming, NoPoll
<1>4. QED
  BY <1>1, <1>2, <1>3, PollKeeps DEF Delivering, Resuming

LEMMA OwnedKeeps == ASSUME IInv, Owned PROVE IInv'
<1>1. /\ poll.at = "snapshot" /\ poll' \in {[poll EXCEPT !.at = "load"], NoPoll}
      /\ UNCHANGED <<broker, known, ref, rows, turn, recovered, shown, revoked, lost, crashes>>
  BY DEF Owned
<1>2. CASE poll' = NoPoll
  <2>1. Typed' /\ PollInv' /\ ~Resuming'
    BY <1>1, <1>2 DEF IInv, Typed, TypeOK, NoPoll, PollInv, Resuming
  <2>2. QED
    BY <1>1, <2>1, PollKeeps DEF Delivering
<1>3. CASE poll' = [poll EXCEPT !.at = "load"]
  <2>1. /\ poll'.at = "load" /\ poll'.job = poll.job /\ poll'.who = poll.who
        /\ poll'.task = poll.task /\ poll'.all = poll.all /\ poll'.left = poll.left
        /\ poll'.merged = poll.merged /\ poll'.reading = poll.reading
    BY <1>3 DEF IInv, Typed
  <2>2. Typed'
    BY <1>1, <1>3, <2>1 DEF IInv, Typed, TypeOK
  <2>3. PollInv'
    BY <1>1, <2>1 DEF IInv, PollInv, Resuming
  <2>4. QED
    BY <1>1, <2>1, <2>2, <2>3, PollKeeps DEF Delivering, Resuming
<1>4. QED
  BY <1>1, <1>2, <1>3

LEMMA LoadKeeps == ASSUME IInv, Load PROVE IInv'
<1> DEFINE t == rows[poll.job]
<1>1. /\ poll.at = "load" /\ poll.job \in Jobs /\ t \in Tasks \cup {NoTask}
      /\ UNCHANGED <<broker, known, ref, rows, turn, recovered, shown, revoked, lost, crashes>>
  BY DEF Load, IInv, Typed, TypeOK
<1>2. CASE t = NoTask
  <2>1. poll' = NoPoll
    BY <1>2 DEF Load, Snapshot
  <2>2. Typed' /\ PollInv' /\ ~Resuming'
    BY <1>1, <2>1 DEF IInv, Typed, TypeOK, NoPoll, PollInv, Resuming
  <2>3. QED
    BY <1>1, <2>2, PollKeeps DEF Delivering
<1>3. CASE t \in Tasks
  <2>1. poll' = [poll EXCEPT !.at = "merge", !.task = t, !.all = Siblings(t), !.left = Siblings(t)]
    BY <1>3 DEF Load, Snapshot
  <2>2. Siblings(t) \subseteq Jobs /\ \A j \in Siblings(t) : rows[j] = t
    BY DEF Siblings
  <2>3. /\ poll'.at = "merge" /\ poll'.task = t
        /\ poll'.all = Siblings(t) /\ poll'.left = Siblings(t)
        /\ poll'.merged = poll.merged /\ poll'.reading = poll.reading
    BY <2>1 DEF IInv, Typed
  <2>4. Typed'
    BY <1>1, <1>3, <2>1, <2>2 DEF IInv, Typed, TypeOK
  <2>5. PollInv'
    BY <1>1, <1>3, <2>2, <2>3 DEF IInv, PollInv, Resuming, RowInv
  <2>6. QED
    BY <1>1, <2>2, <2>3, <2>4, <2>5, PollKeeps DEF Delivering, Resuming
<1>4. QED
  BY <1>1, <1>2, <1>3

\* A row that is asked about is read next, skipped because it was revoked, or waited for.
LEMMA AskKeeps == ASSUME IInv, NEW j \in Jobs, Ask(j) PROVE IInv'
<1> DEFINE next == IF Status(j) = "completed" THEN {j} ELSE {}
<1>1. /\ poll.at = "merge" /\ poll.reading = {} /\ j \in poll.left
      /\ poll' = [poll EXCEPT !.left = @ \ {j}, !.reading = next, !.pending = @ \/ Blocks(j)]
      /\ UNCHANGED <<broker, known, ref, rows, turn, recovered, shown, revoked, lost, crashes>>
  BY DEF Ask
<1>2. Blocks(j) \in BOOLEAN /\ next \subseteq Jobs
  BY DEF Blocks
<1> HIDE DEF next
<1>3. /\ poll'.at = "merge" /\ poll'.task = poll.task /\ poll'.all = poll.all
      /\ poll'.left = poll.left \ {j} /\ poll'.job = poll.job /\ poll'.who = poll.who
      /\ poll'.merged = poll.merged /\ poll'.warned = poll.warned /\ poll'.reading = next
  BY <1>1 DEF IInv, Typed
<1>4. ~poll'.pending => ~poll.pending /\ ~Blocks(j)
  BY <1>1 DEF IInv, Typed
<1>5. poll' \in [at : {"idle", "snapshot", "load", "merge", "delete"}, job : Jobs \cup {""},
                 who : Customers \cup {NoCustomer}, task : Tasks \cup {NoTask},
                 all : SUBSET Jobs, left : SUBSET Jobs, reading : SUBSET Jobs,
                 merged : SUBSET Jobs, warned : SUBSET Jobs, pending : BOOLEAN]
  BY <1>1, <1>2 DEF IInv, Typed
<1>6. Typed'
  BY <1>1, <1>3, <1>5 DEF IInv, Typed, TypeOK
<1>7. PollInv'
  <2>1. j \in poll.all
    BY <1>1 DEF IInv, Typed, TypeOK
  <2>2. /\ ~Blocks(j) => j \in next \/ broker[j] = "REVOKED"
        /\ \A i \in next : i = j /\ next = {j} /\ (Readable(j) \/ Unreadable(j))
    BY DEF next, Blocks, Status, StatusOf, Readable, Unreadable
  <2>3. \A i \in Jobs : Accounted(i)' = Accounted(i)
    BY <1>1, <1>3 DEF Accounted, Unreadable
  <2>4. ASSUME ~poll'.pending, NEW i \in poll'.all \ (poll'.left \cup poll'.reading)
        PROVE  Accounted(i)
    <3>1. CASE i = j
      BY <1>3, <1>4, <2>2, <2>4, <3>1 DEF Accounted
    <3>2. CASE i # j
      BY <1>1, <1>3, <1>4, <2>4, <3>2 DEF IInv, PollInv
    <3>3. QED
      BY <3>1, <3>2
  <2>5. ASSUME NEW i \in poll'.reading
        PROVE  /\ poll'.reading = {i} /\ i \in poll'.all
               /\ Readable(i)' \/ Unreadable(i)'
    BY <1>1, <1>3, <2>1, <2>2, <2>5 DEF Readable, Unreadable
  <2>6. \A i \in poll'.all : i \in Jobs
    BY <1>5
  <2>7. QED
    BY <1>1, <1>3, <2>3, <2>4, <2>5, <2>6 DEF IInv, PollInv, Resuming
<1>8. QED
  BY <1>1, <1>3, <1>6, <1>7, PollKeeps DEF Delivering, Resuming

\* A result that was completed when it was asked about is merged or warned of.
LEMMA ReadKeeps == ASSUME IInv, NEW j \in Jobs, Read(j) PROVE IInv'
<1>1. /\ poll.at = "merge" /\ j \in poll.reading
      /\ poll' = [poll EXCEPT !.reading = {},
                              !.merged = IF Readable(j) THEN @ \cup {j} ELSE @,
                              !.warned = IF Readable(j) THEN @ ELSE @ \cup {j}]
      /\ UNCHANGED <<broker, known, ref, rows, turn, recovered, shown, revoked, lost, crashes>>
  BY DEF Read
<1>2. /\ poll'.at = "merge" /\ poll'.task = poll.task /\ poll'.all = poll.all
      /\ poll'.left = poll.left /\ poll'.job = poll.job /\ poll'.who = poll.who
      /\ poll'.reading = {} /\ poll'.pending = poll.pending
      /\ poll'.merged = IF Readable(j) THEN poll.merged \cup {j} ELSE poll.merged
      /\ poll'.warned = IF Readable(j) THEN poll.warned ELSE poll.warned \cup {j}
  BY <1>1 DEF IInv, Typed
<1>3. poll' \in [at : {"idle", "snapshot", "load", "merge", "delete"}, job : Jobs \cup {""},
                 who : Customers \cup {NoCustomer}, task : Tasks \cup {NoTask},
                 all : SUBSET Jobs, left : SUBSET Jobs, reading : SUBSET Jobs,
                 merged : SUBSET Jobs, warned : SUBSET Jobs, pending : BOOLEAN]
  BY <1>1 DEF IInv, Typed
<1>4. Typed'
  BY <1>1, <1>2, <1>3 DEF IInv, Typed, TypeOK
<1>5. PollInv'
  <2>1. poll.reading = {j} /\ j \in poll.all /\ (Readable(j) \/ Unreadable(j))
    BY <1>1 DEF IInv, PollInv
  <2>2. ASSUME NEW i \in Jobs, Accounted(i) \/ i = j PROVE Accounted(i)'
    BY <1>1, <1>2, <2>1, <2>2 DEF Accounted, Unreadable
  <2>3. ASSUME ~poll'.pending, NEW i \in poll'.all \ (poll'.left \cup poll'.reading)
        PROVE  Accounted(i)'
    <3>1. i \in Jobs /\ (i = j \/ i \in poll.all \ (poll.left \cup poll.reading))
      BY <1>2, <1>3, <2>1, <2>3
    <3>2. Accounted(i) \/ i = j
      BY <1>1, <1>2, <2>3, <3>1 DEF IInv, PollInv
    <3>3. QED
      BY <2>2, <3>1, <3>2
  <2>4. poll'.merged \subseteq poll'.all
    BY <1>1, <1>2, <2>1 DEF IInv, PollInv, Resuming
  <2>5. QED
    BY <1>1, <1>2, <2>3, <2>4 DEF IInv, PollInv, Resuming
<1>6. QED
  BY <1>1, <1>2, <1>4, <1>5, PollKeeps DEF Delivering, Resuming

LEMMA SettleKeeps == ASSUME IInv, Settle PROVE IInv'
<1>1. /\ poll.at = "merge" /\ poll.left = {} /\ poll.reading = {}
      /\ UNCHANGED <<broker, known, ref, rows, turn, recovered, shown, revoked, lost, crashes>>
  BY DEF Settle
<1>2. CASE poll.pending
  <2>1. poll' = NoPoll
    BY <1>2 DEF Settle
  <2>2. Typed' /\ PollInv' /\ ~Resuming'
    BY <1>1, <2>1 DEF IInv, Typed, TypeOK, NoPoll, PollInv, Resuming
  <2>3. QED
    BY <1>1, <2>2, PollKeeps DEF Delivering
<1>3. CASE ~poll.pending
  <2>1. poll' = [poll EXCEPT !.at = "delete", !.left = poll.all]
    BY <1>3 DEF Settle
  <2>2. /\ poll'.at = "delete" /\ poll'.task = poll.task /\ poll'.all = poll.all
        /\ poll'.left = poll.all /\ poll'.merged = poll.merged
        /\ poll'.reading = {} /\ poll'.warned = poll.warned
        /\ poll'.job = poll.job /\ poll'.who = poll.who
    BY <1>1, <2>1 DEF IInv, Typed
  <2>3. Typed'
    BY <1>1, <2>1, <2>2 DEF IInv, Typed, TypeOK
  <2>4. PollInv'
    <3>1. \A i \in poll.all : Accounted(i) /\ Accounted(i)' = Accounted(i)
      BY <1>1, <1>3, <2>2 DEF IInv, PollInv, Accounted, Unreadable
    <3>2. QED
      BY <1>1, <2>2, <3>1 DEF IInv, PollInv, Resuming
  <2>5. QED
    BY <1>1, <2>2, <2>3, <2>4, PollKeeps DEF Delivering, Resuming
<1>4. QED
  BY <1>2, <1>3

\* The row that goes is one of the task being delivered.
LEMMA DeleteKeeps == ASSUME IInv, NEW j \in Jobs, Delete(j) PROVE IInv'
<1>1. /\ poll.at = "delete" /\ j \in poll.left
      /\ poll' = [poll EXCEPT !.left = @ \ {j}]
      /\ rows' = [rows EXCEPT ![j] = NoTask]
      /\ UNCHANGED <<broker, known, ref, turn, recovered, shown, revoked, lost, crashes>>
  BY DEF Delete, DropRow
<1>2. /\ poll'.at = "delete" /\ poll'.task = poll.task /\ poll'.all = poll.all
      /\ poll'.left = poll.left \ {j} /\ poll'.merged = poll.merged
      /\ poll'.reading = poll.reading /\ poll'.warned = poll.warned
      /\ poll'.job = poll.job /\ poll'.who = poll.who
  BY <1>1 DEF IInv, Typed
<1>3. /\ rows'[j] = NoTask /\ \A i \in Jobs \ {j} : rows'[i] = rows[i]
      /\ rows' \in [Jobs -> Tasks \cup {NoTask}]
  BY <1>1 DEF IInv, Typed, TypeOK
<1>4. /\ poll.task \in Tasks /\ j \in poll.all /\ poll.all \subseteq JobsOf[poll.task]
      /\ poll.all \subseteq Jobs
  BY <1>1 DEF IInv, Typed, TypeOK, PollInv, Resuming
<1>5. Typed'
  BY <1>1, <1>2, <1>3 DEF IInv, Typed, TypeOK
<1>6. RowInv'
  BY <1>1, <1>3 DEF IInv, RowInv
<1>7. PollInv'
  <2>1. \A i \in poll'.all \ poll'.left : rows'[i] # poll'.task
    BY <1>1, <1>2, <1>3, <1>4 DEF IInv, PollInv
  <2>2. \A i \in Jobs : Accounted(i)' = Accounted(i)
    BY <1>1, <1>2 DEF Accounted, Unreadable
  <2>3. QED
    BY <1>1, <1>2, <1>4, <2>1, <2>2 DEF IInv, PollInv, Resuming
<1>8. \A u \in Tasks, i \in Jobs : /\ Told(u, i)' = Told(u, i) /\ Delivering(u)' = Delivering(u)
                                   /\ Sole(u)' = Sole(u)
                                   /\ WarnedOf(u, i)' = WarnedOf(u, i)
                                   /\ Unreadable(i)' = Unreadable(i)
  BY <1>1, <1>2 DEF Told, Delivering, Sole, WarnedOf, Unreadable
<1>9. \A u \in Tasks : \A i \in Sole(u) : /\ i \in Jobs
                                          /\ i = j => Delivering(u) /\ i \in poll.all
  BY <1>1, <1>4 DEF Sole, Delivering
<1>10. SnapshotKept'
  BY <1>1, <1>3, <1>8, <1>9 DEF IInv, SnapshotKept
<1>11. KeptInv'
  BY <1>1, <1>2, <1>3, <1>8, <1>9 DEF IInv, KeptInv
<1>12. OnceInv'
  BY <1>1, <1>2, <1>3, <1>8 DEF IInv, OnceInv, Resuming
<1>13. QED
  BY <1>5, <1>6, <1>7, <1>10, <1>11, <1>12 DEF IInv

\* All rows are gone, and what is appended was in none of the earlier messages.
LEMMA DeliverKeeps == ASSUME IInv, Deliver PROVE IInv'
<1>0. PICK t \in Tasks : poll.task = t
  BY DEF Deliver, IInv, PollInv, Resuming
<1> DEFINE before == recovered[t]
<1>1. /\ poll.at = "delete" /\ poll.left = {} /\ poll' = NoPoll
      /\ recovered' = [recovered EXCEPT ![t] = Append(@, poll.merged)]
      /\ shown' = shown \cup {Answered}
      /\ UNCHANGED <<broker, known, ref, rows, turn, revoked, lost, crashes>>
  BY <1>0 DEF Deliver
<1>2. /\ poll.merged \subseteq poll.all
      /\ poll.all \subseteq JobsOf[t] \ turn[t].save
      /\ \A j \in poll.all : rows[j] # t /\ Accounted(j)
  BY <1>0, <1>1 DEF IInv, PollInv, Resuming
<1>3. /\ recovered \in [Tasks -> Seq(SUBSET Jobs)] /\ poll.merged \in SUBSET Jobs
      /\ poll.who \in Customers
  BY <1>1 DEF IInv, Typed
<1>4. before \in Seq(SUBSET Jobs)
  BY <1>3
<1>5. /\ recovered'[t] = Append(before, poll.merged)
      /\ \A u \in Tasks \ {t} : recovered'[u] = recovered[u]
      /\ recovered' \in [Tasks -> Seq(SUBSET Jobs)]
  BY <1>1, <1>3, <1>4
<1>6. /\ DOMAIN recovered'[t] = (DOMAIN before) \cup {Len(before) + 1}
      /\ Len(before) + 1 \notin DOMAIN before
      /\ \A n \in DOMAIN before : recovered'[t][n] = before[n]
      /\ recovered'[t][Len(before) + 1] = poll.merged
      /\ recovered'[t] # <<>>
  BY <1>3, <1>4, <1>5
<1>7. \A j \in Jobs : Told(t, j)' = IF j \in poll.merged THEN Told(t, j) \cup {Len(before) + 1}
                                                         ELSE Told(t, j)
  BY <1>6 DEF Told
<1>8. \A u \in Tasks \ {t}, j \in Jobs : Told(u, j)' = Told(u, j)
  BY <1>5 DEF Told
<1>9. \A u \in Tasks : /\ Sole(u)' = Sole(u) /\ Sole(u) \subseteq Jobs
                       /\ u # t => ~Delivering(u)
  BY <1>0, <1>1 DEF Sole, Delivering
<1>10. Typed'
  <2>1. Answered \in [who : Customers, task : Tasks, warned : SUBSET Jobs]
    BY <1>0, <1>3 DEF Answered, IInv, Typed
  <2>2. shown' \subseteq [who : Customers, task : Tasks, warned : SUBSET Jobs]
    BY <1>0, <1>1, <2>1 DEF IInv, Typed, TypeOK
  <2>3. QED
    BY <1>1, <1>5, <2>2 DEF IInv, Typed, TypeOK, NoPoll
<1>11. RowInv'
  BY <1>1 DEF IInv, RowInv
<1>12. PollInv' /\ ~Resuming'
  BY <1>1 DEF PollInv, Resuming, NoPoll
<1>13. SnapshotKept'
  BY <1>1, <1>5, <1>6, <1>9 DEF IInv, SnapshotKept
<1>14. KeptInv'
  <2> SUFFICES ASSUME NEW u \in Tasks \ lost, NEW j \in Sole(u)
               PROVE  \/ rows[j] = u
                      \/ Told(u, j)' # {}
                      \/ broker[j] = "REVOKED"
                      \/ Unreadable(j) /\ WarnedOf(u, j)'
    BY <1>1, <1>9 DEF KeptInv, Unreadable
  <2>1. \/ rows[j] = u
        \/ Delivering(u) /\ j \in poll.all
        \/ Told(u, j) # {}
        \/ broker[j] = "REVOKED"
        \/ Unreadable(j) /\ WarnedOf(u, j)
    BY DEF IInv, KeptInv
  <2>2. WarnedOf(u, j) => WarnedOf(u, j)'
    BY <1>1 DEF WarnedOf
  <2>3. CASE u = t
    <3>1. j \in poll.warned => WarnedOf(t, j)'
      <4>1. Answered \in shown' /\ Answered.task = t /\ Answered.warned = poll.warned
        BY <1>0, <1>1 DEF Answered
      <4>2. QED
        BY <4>1 DEF WarnedOf
    <3>2. QED
      BY <1>2, <1>7, <1>9, <2>1, <2>2, <2>3, <3>1 DEF Accounted
  <2>4. CASE u # t
    BY <1>8, <1>9, <2>1, <2>2, <2>4
  <2>5. QED
    BY <2>3, <2>4
<1>15. OnceInv'
  <2> SUFFICES ASSUME NEW u \in Tasks, NEW j \in Jobs, NEW n \in Told(u, j)'
               PROVE  /\ rows[j] # u /\ j \notin turn[u].save
                      /\ \A m \in Told(u, j)' : m = n
    BY <1>1, <1>12 DEF OnceInv
  <2>1. CASE u = t /\ j \in poll.merged
    <3>1. Told(t, j) = {}
      BY <1>0, <1>1, <1>2, <2>1 DEF IInv, OnceInv, Resuming
    <3>2. QED
      BY <1>2, <1>7, <2>1, <3>1
  <2>2. CASE u # t \/ j \notin poll.merged
    <3>1. Told(u, j)' = Told(u, j)
      BY <1>7, <1>8, <2>2
    <3>2. QED
      BY <3>1 DEF IInv, OnceInv
  <2>3. QED
    BY <2>1, <2>2
<1>16. QED
  BY <1>10, <1>11, <1>12, <1>13, <1>14, <1>15 DEF IInv

\* The request under way ends without a message: its task, if it was being delivered, is lost.
LEMMA BreakOffKeeps ==
    ASSUME IInv, Typed', poll' = NoPoll, UNCHANGED <<broker, rows, recovered>>,
           \A t \in Tasks : turn'[t].save = turn[t].save,
           \A t \in Tasks : Delivering(t) => t \in lost',
           lost \subseteq lost', shown \subseteq shown'
    PROVE  IInv'
<1>1. \A t \in Tasks : /\ Sole(t)' = Sole(t)
                       /\ \A j \in Jobs : /\ Told(t, j)' = Told(t, j)
                                          /\ WarnedOf(t, j) => WarnedOf(t, j)'
                                          /\ Unreadable(j)' = Unreadable(j)
  BY DEF Sole, Told, WarnedOf, Unreadable
<1>2. \A t \in Tasks : Sole(t) \subseteq Jobs
  BY DEF Sole
<1>3. RowInv'
  BY DEF IInv, RowInv
<1>4. PollInv' /\ ~Resuming'
  BY DEF PollInv, Resuming, NoPoll
<1>5. SnapshotKept'
  BY <1>1 DEF IInv, SnapshotKept
<1>6. KeptInv'
  BY <1>1, <1>2 DEF IInv, KeptInv
<1>7. OnceInv'
  BY <1>1, <1>4 DEF IInv, OnceInv
<1>8. QED
  BY <1>3, <1>4, <1>5, <1>6, <1>7 DEF IInv

LEMMA DeliverFailsKeeps == ASSUME IInv, DeliverFails PROVE IInv'
<1>1. /\ poll.at = "delete" /\ poll' = NoPoll
      /\ shown' = shown \cup {Answered}
      /\ lost' = lost \cup {poll.task}
      /\ UNCHANGED <<broker, known, ref, rows, turn, recovered, revoked, crashes>>
  BY DEF DeliverFails
<1>2. Answered \in [who : Customers, task : Tasks, warned : SUBSET Jobs]
  BY <1>1 DEF Answered, IInv, Typed, PollInv, Resuming
<1>3. shown' \subseteq [who : Customers, task : Tasks, warned : SUBSET Jobs]
  BY <1>1, <1>2 DEF IInv, Typed, TypeOK
<1>4. Typed'
  BY <1>1, <1>3 DEF IInv, Typed, TypeOK, NoPoll
<1>5. QED
  BY <1>1, <1>4, BreakOffKeeps DEF Delivering

LEMMA CrashKeeps == ASSUME IInv, Crash PROVE IInv'
<1>1. /\ crashes < MaxCrashes /\ crashes' = crashes + 1 /\ known' = {} /\ poll' = NoPoll
      /\ turn' = [t \in Tasks |-> [turn[t] EXCEPT !.at = IF @ = "running" THEN "dead" ELSE @]]
      /\ lost' = lost \cup {t \in Tasks : poll.at = "delete" /\ poll.task = t}
      /\ UNCHANGED <<broker, ref, rows, recovered, shown, revoked>>
  BY DEF Crash
<1>2. ASSUME NEW t \in Tasks
      PROVE  turn'[t] \in TurnType /\ turn'[t].save = turn[t].save
  <2>1. turn[t] \in TurnType
    BY DEF IInv, Typed, TypeOK
  <2>2. QED
    BY <1>1, <2>1
<1>3. turn' \in [Tasks -> TurnType]
  BY <1>1, <1>2
<1>4. crashes' \in 0..MaxCrashes
  <2>1. MaxCrashes \in Nat /\ crashes \in 0..MaxCrashes
    BY DEF IInv, Typed, TypeOK
  <2>2. QED
    BY <1>1, <2>1, SMT
<1>5. Typed'
  BY <1>1, <1>3, <1>4 DEF IInv, Typed, TypeOK, NoPoll
<1>6. QED
  BY <1>1, <1>2, <1>5, BreakOffKeeps DEF Delivering

-----------------------------------------------------------------------------
(* The theorems. *)

LEMMA NextKeeps == IInv /\ [Next]_vars => IInv'
<1> SUFFICES ASSUME IInv, [Next]_vars PROVE IInv'
  OBVIOUS
<1>1. CASE Next
  <2>1. ASSUME NEW t \in Tasks, Reply(t) \/ Stop(t) PROVE IInv'
    BY <2>1, ReplyKeeps, StopKeeps
  <2>2. ASSUME NEW t \in Tasks, NEW j \in Jobs, Submit(t, j) \/ Link(t, j) \/ SaveOutcome(t, j)
        PROVE  IInv'
    BY <2>2, SubmitKeeps, LinkKeeps, SaveKeeps
  <2>3. ASSUME NEW j \in Jobs, Works(j) \/ Expire(j) PROVE IInv'
    BY <2>3, BrokerKeeps
  <2>4. ASSUME NEW who \in Customers, NEW j \in Jobs, Look(who, j) PROVE IInv'
    BY <2>4, LookKeeps
  <2>5. CASE Answer
    BY <2>5, OwnedKeeps, LoadKeeps, AskKeeps, ReadKeeps, DeleteKeeps, SettleKeeps, DeliverKeeps
       DEF Answer
  <2>6. QED
    BY <1>1, <2>1, <2>2, <2>3, <2>4, <2>5, DeliverFailsKeeps, CrashKeeps DEF Next
<1>2. CASE UNCHANGED vars
  <2>1. Typed'
    BY <1>2 DEF vars, IInv, Typed, TypeOK
  <2>2. QED
    BY <1>2, <2>1, QuietKeeps DEF vars, Ebbs, Readable, Unreadable
<1>3. QED
  BY <1>1, <1>2

LEMMA InvariantHolds == Spec => []IInv
BY InitIInv, NextKeeps, PTL DEF Spec

\* Whatever the order of saves, polls, crashes and failures, the tables and the request under
\* way stay well-formed (async_recovery.py, async_run_repository.py).
THEOREM RecoveryTyped == Spec => []TypeOK
<1>1. IInv => TypeOK
  BY DEF IInv, Typed
<1>2. QED
  BY <1>1, InvariantHolds, PTL

\* A saved snapshot is deleted by the delivery of its own task only (async_recovery.py:188-205).
THEOREM SnapshotsAreKept == Spec => []SnapshotKept
<1>1. IInv => SnapshotKept
  BY DEF IInv
<1>2. QED
  BY <1>1, InvariantHolds, PTL

\* A job's result is in at most one recovered message of a task, shared or not.  A task that
\* was answered without it still has the row or is being delivered, had the job cancelled, or
\* had a result that could not be read when it was read, which its poller was warned of
\* (async_recovery.py:146-189).
THEOREM ResultsAreToldOnce == Spec => []ToldOnce
<1>1. ASSUME IInv PROVE ToldOnce
  <2> USE <1>1
  <2>1. ASSUME NEW t \in Tasks, NEW j \in Jobs PROVE Cardinality(Told(t, j)) <= 1
    <3>1. CASE Told(t, j) = {}
      <4>1. Cardinality(Told(t, j)) = 0
        BY <3>1, FS_EmptySet, Zenon
      <4>2. QED
        BY <4>1
    <3>2. CASE Told(t, j) # {}
      <4>1. PICK n : Told(t, j) = {n}
        BY <3>2 DEF IInv, OnceInv
      <4>2. QED
        <5>1. Cardinality(Told(t, j)) = 1
          BY <4>1, FS_Singleton, Zenon
        <5>2. QED
          BY <5>1
    <3>3. QED
      BY <3>1, <3>2
  <2>2. ASSUME NEW t \in Tasks, NEW j \in Sole(t),
               t \notin lost, recovered[t] # <<>>, Told(t, j) = {}
        PROVE  \/ rows[j] = t \/ Delivering(t) \/ broker[j] = "REVOKED"
               \/ Unreadable(j) /\ WarnedOf(t, j)
    BY <2>2 DEF IInv, KeptInv
  <2>3. QED
    BY <2>1, <2>2 DEF ToldOnce
<1>2. QED
  BY <1>1, InvariantHolds, PTL

-----------------------------------------------------------------------------
(* The work a request has left.  That the client polls and the event loop   *)
(* answers is for the runs; what is proved here is that a request under way *)
(* has no endless path, however many siblings its task has.                 *)

\* The order of resolve_run_status, recover_completed_job and resume_quant_job.
Stage == CASE poll.at = "snapshot" -> 4
           [] poll.at = "load" -> 3
           [] poll.at = "merge" -> 2
           [] poll.at = "delete" -> 1
           [] OTHER -> 0

\* The looks the loop under way has left: two at a row it has not come to, one at a row whose
\* status it has.
RowsLeft == IF Resuming
            THEN 2 * Cardinality(poll.left) + (IF poll.reading = {} THEN 0 ELSE 1)
            ELSE 0

\* A later stage, or a look less at the stage.
Nearer == Stage' < Stage \/ (Stage' = Stage /\ RowsLeft' < RowsLeft)

\* The rows a request loads are those of one task, which submits finitely many jobs.
LEMMA LeftFinite == IInv /\ Resuming => IsFiniteSet(poll.left)
<1> SUFFICES ASSUME IInv, Resuming PROVE IsFiniteSet(poll.left)
  OBVIOUS
<1>1. poll.task \in Tasks /\ poll.left \subseteq JobsOf[poll.task]
  BY DEF IInv, PollInv, Typed, TypeOK
<1>2. QED
  BY <1>1, FiniteAssumption, FS_Subset DEF FiniteAssumption

\* A loop that has come to a row has two looks less, or one where it reads the result next.
LEMMA RowDone ==
    ASSUME IInv, Resuming, Resuming', NEW j \in poll.left, poll'.left = poll.left \ {j}
    PROVE  RowsLeft' < RowsLeft
<1>1. IsFiniteSet(poll.left)
  BY LeftFinite
<1>2. Cardinality(poll.left) \in Nat /\ Cardinality(poll.left \ {j}) = Cardinality(poll.left) - 1
  BY <1>1, FS_RemoveElement, FS_CardinalityType
<1>3. PICK before \in {0, 1}, after \in {0, 1} :
          /\ RowsLeft = 2 * Cardinality(poll.left) + before
          /\ RowsLeft' = 2 * Cardinality(poll.left \ {j}) + after
          /\ poll.reading = poll'.reading => before = after
          /\ poll.reading = {} => before = 0
  BY DEF RowsLeft
<1>4. QED
  BY <1>2, <1>3

LEMMA AnswerNearer == ASSUME IInv, Answer PROVE Nearer
<1>1. CASE Owned
  <2>1. poll.at = "snapshot" /\ poll'.at \in {"load", "idle"}
    BY <1>1 DEF Owned, NoPoll, IInv, Typed
  <2>2. QED
    BY <2>1 DEF Nearer, Stage
<1>2. CASE Load
  <2>1. poll.at = "load" /\ poll'.at \in {"merge", "idle"}
    BY <1>2 DEF Load, NoPoll, IInv, Typed
  <2>2. QED
    BY <2>1 DEF Nearer, Stage
<1>3. CASE Settle
  <2>1. poll.at = "merge" /\ poll'.at \in {"delete", "idle"}
    BY <1>3 DEF Settle, NoPoll, IInv, Typed
  <2>2. QED
    BY <2>1 DEF Nearer, Stage
<1>4. CASE Deliver
  <2>1. poll.at = "delete" /\ poll'.at = "idle"
    BY <1>4 DEF Deliver, NoPoll
  <2>2. QED
    BY <2>1 DEF Nearer, Stage
<1>5. ASSUME NEW j \in Jobs, Ask(j) \/ Delete(j) PROVE Nearer
  <2>1. /\ poll.at \in {"merge", "delete"} /\ poll'.at = poll.at /\ j \in poll.left
        /\ poll'.left = poll.left \ {j}
    BY <1>5 DEF Ask, Delete, IInv, Typed
  <2>2. QED
    BY <2>1, RowDone DEF Nearer, Stage, Resuming
<1>6. ASSUME NEW j \in Jobs, Read(j) PROVE Nearer
  <2>1. /\ poll.at = "merge" /\ poll'.at = "merge" /\ poll.reading # {} /\ poll'.reading = {}
        /\ poll'.left = poll.left
    BY <1>6 DEF Read, IInv, Typed
  <2>2. Cardinality(poll.left) \in Nat
    BY <2>1, LeftFinite, FS_CardinalityType DEF Resuming
  <2>3. RowsLeft' < RowsLeft
    BY <2>1, <2>2 DEF RowsLeft, Resuming
  <2>4. QED
    BY <2>1, <2>3 DEF Nearer, Stage
<1>7. QED
  BY <1>1, <1>2, <1>3, <1>4, <1>5, <1>6 DEF Answer

\* A status request ends, whatever the broker, the turns and the customers do meanwhile: each
\* of its steps leads to a later stage or past one more look at one of finitely many rows, and
\* nothing but its own steps, a failed write or a crash touches it (async_recovery.py:42-206).
THEOREM RequestsEnd ==
  Spec => /\ [](Stage \in 0..4 /\ RowsLeft \in Nat)
          /\ [][poll' = poll \/ poll.at = "idle" \/ Nearer]_vars
<1>1. IInv => Stage \in 0..4 /\ RowsLeft \in Nat
  BY LeftFinite, FS_CardinalityType DEF Stage, RowsLeft
<1>2. ASSUME IInv, Next, poll' # poll, poll.at # "idle" PROVE Nearer
  <2>1. CASE Answer
    BY <1>2, <2>1, AnswerNearer
  <2>2. CASE DeliverFails \/ Crash
    <3>1. poll'.at = "idle" /\ poll.at \in {"snapshot", "load", "merge", "delete"}
      <4>1. poll' = NoPoll
        BY <2>2 DEF DeliverFails, Crash
      <4>2. poll'.at = "idle"
        BY <4>1 DEF NoPoll
      <4>3. poll.at \in {"idle", "snapshot", "load", "merge", "delete"}
        BY <1>2 DEF IInv, Typed, TypeOK
      <4>4. QED
        BY <1>2, <4>2, <4>3
    <3>2. QED
      BY <3>1 DEF Nearer, Stage
  <2>3. QED
    BY <1>2, <2>1, <2>2 DEF Next, Reply, Stop, Submit, Link, SaveOutcome, Works, Ends, Expire, Look
<1>3. IInv /\ [Next]_vars => [poll' = poll \/ poll.at = "idle" \/ Nearer]_vars
  BY <1>2
<1>4. QED
  BY <1>1, <1>3, InvariantHolds, PTL DEF Spec
=============================================================================
