--------------------------- MODULE QuantRecovery ---------------------------
(***************************************************************************)
(* Quantitative jobs: the turn that submits them and saves a snapshot of   *)
(* the waiting conclusion for each, the Celery worker, and the status      *)
(* endpoint that merges the results when all jobs of a task are done and   *)
(* appends the recovered answer to the conversation (async_recovery.py,    *)
(* infrastructure/jobs, async_run_repository.py).                          *)
(*                                                                         *)
(* A job stands for its stock: the idempotency key, and so the job id, is  *)
(* made of the stock code alone, and two customers share a job.            *)
(***************************************************************************)
EXTENDS Naturals, Sequences, FiniteSets

CONSTANTS Tasks,        \* domain tasks, one conversation each
          Jobs,         \* job ids
          Customers,
          CustomerOf,   \* the customer a task belongs to
          JobsOf,       \* the jobs a task submits
          NoTask, NoCustomer,
          Expires,      \* results of the broker expire (CELERY_RESULT_EXPIRES)
          MaxCrashes

ASSUME TaskAssumption == NoTask \notin Tasks /\ \A t \in Tasks : CustomerOf[t] \in Customers
ASSUME JobAssumption == \A t \in Tasks : JobsOf[t] \subseteq Jobs
ASSUME FiniteAssumption == \A t \in Tasks : IsFiniteSet(JobsOf[t])
ASSUME BoundAssumption == MaxCrashes \in Nat /\ Expires \in BOOLEAN
ASSUME CustomerAssumption == NoCustomer \notin Customers

VARIABLES
    broker,     \* Celery's state of each job
    known,      \* _by_key of the gateway of this process
    ref,        \* async_jobs: owner and thread of a job
    rows,       \* pending_outcomes: the task whose snapshot a job's row holds
    turn,       \* the turn of each task: what it still has to submit and save
    poll,       \* the status request the event loop is answering
    recovered,  \* per task, the merged results of each recovered message
    shown,      \* who was shown the answer of which task, and the warnings beside it
    revoked,    \* jobs a stop call reported as revoked
    lost,       \* tasks whose delivery a crash or a failed write cut short
    crashes

vars == <<broker, known, ref, rows, turn, poll, recovered, shown, revoked, lost, crashes>>

NoPoll == [at |-> "idle", job |-> "", who |-> NoCustomer, task |-> NoTask,
           all |-> {}, left |-> {}, reading |-> {}, merged |-> {}, warned |-> {},
           pending |-> FALSE]

\* CeleryQuantGateway.status: what is not reported counts as queued.  EMPTY is a job that
\* succeeded, but without indicators that can be used, or whose row names no stock.
StatusOf(state) == CASE state = "STARTED" -> "running"
                     [] state \in {"SUCCESS", "EMPTY"} -> "completed"
                     [] state = "FAILURE" -> "failed"
                     [] state = "REVOKED" -> "cancelled"
                     [] OTHER -> "queued"

Status(j) == StatusOf(broker[j])

Init ==
    /\ broker = [j \in Jobs |-> "PENDING"]
    /\ known = {}
    /\ ref = [j \in Jobs |-> [owner |-> NoCustomer, thread |-> NoTask]]
    /\ rows = [j \in Jobs |-> NoTask]
    /\ turn = [t \in Tasks |-> [at |-> "running", submit |-> JobsOf[t],
                                link |-> {}, save |-> JobsOf[t]]]
    /\ poll = NoPoll
    /\ recovered = [t \in Tasks |-> <<>>]
    /\ shown = {}
    /\ revoked = {}
    /\ lost = {}
    /\ crashes = 0

-----------------------------------------------------------------------------
(* What the repository returns. *)

\* get_job_ref is scoped to the customer; list_job_refs to the thread.
HasRef(j, who) == ref[j].owner = who
RefsOf(t) == {j \in Jobs : ref[j].thread = t}

\* get_pending_outcome_by_job is not scoped; get_pending_outcome is.
Snapshot(j) == rows[j]
SnapshotFor(j, who) == IF rows[j] # NoTask /\ CustomerOf[rows[j]] = who THEN rows[j] ELSE NoTask

AllRows(t) == {j \in Jobs : rows[j] # NoTask}                  \* mutant
Siblings(t) == {j \in Jobs : rows[j] = t}

\* resume_job goes on only while the job is completed.
Resumable(j) == Status(j) = "completed"

-----------------------------------------------------------------------------
(* The turn. *)

\* The expert submits a job: send_task, unless this process has sent it before.
Submit(t, j) ==
    /\ turn[t].at = "running" /\ j \in turn[t].submit
    /\ IF j \in known
       THEN /\ turn' = [turn EXCEPT ![t].submit = @ \ {j}]
            /\ UNCHANGED <<known, broker>>
       ELSE /\ turn' = [turn EXCEPT ![t].submit = @ \ {j}, ![t].link = @ \cup {j}]
            /\ known' = known \cup {j}
            /\ UNCHANGED broker
    /\ UNCHANGED <<ref, rows, poll, recovered, shown, revoked, lost, crashes>>

\* save_job_ref: on a conflict the row keeps its customer.
Link(t, j) ==
    /\ turn[t].at = "running" /\ j \in turn[t].link
    /\ turn' = [turn EXCEPT ![t].link = @ \ {j}]
    /\ ref' = [ref EXCEPT ![j] =
                  [owner |-> IF @.owner = NoCustomer THEN CustomerOf[t] ELSE @.owner,
                   thread |-> t]]
    /\ UNCHANGED <<broker, known, rows, poll, recovered, shown, revoked, lost, crashes>>

\* persist_pending_outcomes: a transaction per job of the task.
SaveOutcome(t, j) ==
    /\ turn[t].at = "running" /\ turn[t].submit = {} /\ turn[t].link = {}
    /\ j \in turn[t].save
    /\ turn' = [turn EXCEPT ![t].save = @ \ {j}]
    /\ rows' = [rows EXCEPT ![j] = t]
    /\ UNCHANGED <<broker, known, ref, poll, recovered, shown, revoked, lost, crashes>>

\* The reply leaves with the job ids; the saving may have stopped at a failure.
Reply(t) ==
    /\ turn[t].at = "running" /\ turn[t].submit = {} /\ turn[t].link = {}
    /\ turn' = [turn EXCEPT ![t].at = "answered"]
    /\ UNCHANGED <<broker, known, ref, rows, poll, recovered, shown, revoked, lost, crashes>>

-----------------------------------------------------------------------------
(* Celery: a worker runs the job it was sent; a result may expire. *)

Ends(j, state) ==
    /\ \E t \in Tasks : j \in JobsOf[t] /\ j \notin turn[t].submit
    /\ broker[j] \in {"PENDING", "STARTED"}
    /\ broker' = [broker EXCEPT ![j] = state]
    /\ UNCHANGED <<known, ref, rows, turn, poll, recovered, shown, revoked, lost, crashes>>

\* Bound: a job is run once, so an expired result is a state of its own.
Works(j) == \E state \in {"SUCCESS", "EMPTY", "FAILURE", "REVOKED"} : Ends(j, state)

Expire(j) ==
    /\ Expires /\ broker[j] \in {"SUCCESS", "EMPTY", "FAILURE"}
    /\ broker' = [broker EXCEPT ![j] = "EXPIRED"]
    /\ UNCHANGED <<known, ref, rows, turn, poll, recovered, shown, revoked, lost, crashes>>

\* request_stop of a running turn: ResumeCoordinator.cancel lists the queued and
\* running jobs of the thread, and calls revoke, which neither gateway has.
Stop(t) ==
    /\ turn[t].at = "running"
    /\ revoked' = revoked \cup
          {j \in RefsOf(t) : Status(j) \in {"queued", "running"}}
    /\ UNCHANGED <<broker, known, ref, rows, turn, poll, recovered, shown, lost, crashes>>

-----------------------------------------------------------------------------
(* GET /api/runs/{job}: one request at a time, it runs on the event loop. *)

\* The client knows the ids its own reply carried.
KnowsJob(who, j) == \E t \in Tasks : /\ CustomerOf[t] = who /\ j \in JobsOf[t]
                                     /\ turn[t].at = "answered"

\* resolve_run_status: goes on only with a completed job of this customer.
Look(who, j) ==
    /\ poll.at = "idle" /\ KnowsJob(who, j)
    /\ HasRef(j, who) /\ Status(j) = "completed"
    /\ poll' = [NoPoll EXCEPT !.at = "snapshot", !.job = j, !.who = who]
    /\ UNCHANGED <<broker, known, ref, rows, turn, recovered, shown, revoked, lost, crashes>>

\* recover_completed_job: the customer's snapshot; resume_job looks at the status
\* again.  Without either the request is answered as done.
Owned ==
    /\ poll.at = "snapshot"
    /\ poll' = IF SnapshotFor(poll.job, poll.who) # NoTask /\ Resumable(poll.job)
               THEN [poll EXCEPT !.at = "load"] ELSE NoPoll
    /\ UNCHANGED <<broker, known, ref, rows, turn, recovered, shown, revoked, lost, crashes>>

\* resume_quant_job reads the snapshot by the job alone, and its siblings' rows.
Load ==
    /\ poll.at = "load"
    /\ LET t == Snapshot(poll.job) IN
       poll' = IF t = NoTask THEN NoPoll
               ELSE [poll EXCEPT !.at = "merge", !.task = t,
                                 !.all = Siblings(t), !.left = Siblings(t)]
    /\ UNCHANGED <<broker, known, ref, rows, turn, recovered, shown, revoked, lost, crashes>>

BlocksIfRunning(j) == Status(j) = "running"                   \* mutant
BlocksIfCancelled(j) == Status(j) # "completed"                \* mutant
Blocks(j) == Status(j) \notin {"completed", "cancelled"}

\* Of each sibling the status is asked for first: a cancelled one is skipped, the result
\* of a completed one is read next, any other is waited for.
Ask(j) ==
    /\ poll.at = "merge" /\ poll.reading = {} /\ j \in poll.left
    /\ poll' = [poll EXCEPT !.left = @ \ {j},
                            !.reading = IF Status(j) = "completed" THEN {j} ELSE {},
                            !.pending = @ \/ Blocks(j)]
    /\ UNCHANGED <<broker, known, ref, rows, turn, recovered, shown, revoked, lost, crashes>>

\* CeleryQuantGateway.result, a second look at the broker.
Readable(j) == broker[j] = "SUCCESS"

\* merge_quant_indicators: a result that has expired meanwhile, or has nothing to merge,
\* leaves a warning and is not waited for.
Read(j) ==
    /\ poll.at = "merge" /\ j \in poll.reading
    /\ poll' = [poll EXCEPT !.reading = {},
                            !.merged = IF Readable(j) THEN @ \cup {j} ELSE @,
                            !.warned = IF Readable(j) THEN @ ELSE @ \cup {j}]
    /\ UNCHANGED <<broker, known, ref, rows, turn, recovered, shown, revoked, lost, crashes>>

\* Nobody is waited for: the rows go, in a transaction each.  Otherwise: processing.
Settle ==
    /\ poll.at = "merge" /\ poll.left = {} /\ poll.reading = {}
    /\ poll' = IF poll.pending THEN NoPoll
               ELSE [poll EXCEPT !.at = "delete", !.left = poll.all]
    /\ UNCHANGED <<broker, known, ref, rows, turn, recovered, shown, revoked, lost, crashes>>

DropRow(j) == rows' = [rows EXCEPT ![j] = NoTask]

Delete(j) ==
    /\ poll.at = "delete" /\ j \in poll.left
    /\ poll' = [poll EXCEPT !.left = @ \ {j}]
    /\ DropRow(j)
    /\ UNCHANGED <<broker, known, ref, turn, recovered, shown, revoked, lost, crashes>>

\* The answer to the poller, with the warnings about the results it leaves out.
Answered == [who |-> poll.who, task |-> poll.task, warned |-> poll.warned]

\* append_recovered_message, and the answer to the poller, screened or not.
Deliver ==
    /\ poll.at = "delete" /\ poll.left = {}
    /\ recovered' = [recovered EXCEPT ![poll.task] = Append(@, poll.merged)]
    /\ shown' = shown \cup {Answered}
    /\ poll' = NoPoll
    /\ UNCHANGED <<broker, known, ref, rows, turn, revoked, lost, crashes>>

\* The write of the message fails; the poller has its answer all the same.
DeliverFails ==
    /\ poll.at = "delete" /\ poll.left = {}
    /\ shown' = shown \cup {Answered}
    /\ lost' = lost \cup {poll.task}
    /\ poll' = NoPoll
    /\ UNCHANGED <<broker, known, ref, rows, turn, recovered, revoked, crashes>>

\* The process ends: its turns, the request and the gateway's memory are gone.
Crash ==
    /\ crashes < MaxCrashes
    /\ crashes' = crashes + 1
    /\ known' = {}
    /\ poll' = NoPoll
    /\ turn' = [t \in Tasks |-> [turn[t] EXCEPT !.at = IF @ = "running" THEN "dead" ELSE @]]
    /\ lost' = lost \cup {t \in Tasks : poll.at = "delete" /\ poll.task = t}
    /\ UNCHANGED <<broker, ref, rows, recovered, shown, revoked>>

Answer ==
    \/ Owned \/ Load \/ Settle \/ Deliver
    \/ \E j \in Jobs : Ask(j) \/ Read(j) \/ Delete(j)

Next ==
    \/ \E t \in Tasks : Reply(t) \/ Stop(t)
    \/ \E t \in Tasks, j \in Jobs : Submit(t, j) \/ Link(t, j) \/ SaveOutcome(t, j)
    \/ \E j \in Jobs : Works(j) \/ Expire(j)
    \/ \E who \in Customers, j \in Jobs : Look(who, j)
    \/ Answer
    \/ DeliverFails
    \/ Crash

Spec == Init /\ [][Next]_vars

\* Clients poll again and again, and the event loop answers.
FairSpec == /\ Spec
            /\ WF_vars(Answer)
            /\ \A who \in Customers, j \in Jobs : SF_vars(Look(who, j))

-----------------------------------------------------------------------------
(* What recovery promises. *)

TypeOK ==
    /\ broker \in [Jobs -> {"PENDING", "STARTED", "SUCCESS", "EMPTY", "FAILURE", "REVOKED",
                           "EXPIRED"}]
    /\ known \subseteq Jobs /\ revoked \subseteq Jobs
    /\ ref \in [Jobs -> [owner : Customers \cup {NoCustomer}, thread : Tasks \cup {NoTask}]]
    /\ rows \in [Jobs -> Tasks \cup {NoTask}]
    /\ turn \in [Tasks -> [at : {"running", "answered", "dead"}, submit : SUBSET Jobs,
                           link : SUBSET Jobs, save : SUBSET Jobs]]
    /\ poll.at \in {"idle", "snapshot", "load", "merge", "delete"}
    /\ poll.task \in Tasks \cup {NoTask}
    /\ poll.left \subseteq poll.all /\ poll.all \subseteq Jobs
    /\ shown \subseteq [who : Customers, task : Tasks, warned : SUBSET Jobs]
    /\ crashes \in 0..MaxCrashes

Delivering(t) == poll.at = "delete" /\ poll.task = t

\* Jobs of a task that no other task submits, and whose snapshot was saved.
Sole(t) == {j \in JobsOf[t] \ turn[t].save : \A u \in Tasks \ {t} : j \notin JobsOf[u]}

\* A snapshot stays until the answer of its task is being delivered: only a crash or a
\* failed write between the first delete and the append lose one (async_recovery.py:188-205).
SnapshotKept ==
    \A t \in Tasks \ lost : \A j \in Sole(t) :
        rows[j] = t \/ Delivering(t) \/ recovered[t] # <<>>

Told(t, j) == {n \in DOMAIN recovered[t] : j \in recovered[t][n]}

\* An answer of the task told its poller that this result is missing.
WarnedOf(t, j) == \E s \in shown : s.task = t /\ j \in s.warned

\* A result that is not there to be read any more, or never was.
Unreadable(j) == broker[j] \in {"EMPTY", "EXPIRED"}

\* What a job computed is told once, however often and by whom its siblings are polled.  An
\* answered task leaves it out only where the job was cancelled, or where the result could
\* not be read although the status was completed - it had nothing usable, or it expired
\* between the two reads - and then the poller was warned (async_recovery.py:146-189).
ToldOnce ==
    \A t \in Tasks :
        /\ \A j \in Jobs : Cardinality(Told(t, j)) <= 1
        /\ \A j \in Sole(t) :
               t \notin lost /\ recovered[t] # <<>> /\ Told(t, j) = {}
               => \/ rows[j] = t \/ Delivering(t)
                  \/ broker[j] = "REVOKED"
                  \/ Unreadable(j) /\ WarnedOf(t, j)

\* All saved jobs have ended, none failed or expired, and the customer can see one.
Ready(t) ==
    /\ turn[t].at = "answered"
    /\ \E j \in Jobs : rows[j] = t /\ HasRef(j, CustomerOf[t]) /\ Status(j) = "completed"
    /\ \A j \in Jobs : rows[j] = t => Status(j) \in {"completed", "cancelled"}

\* A task whose jobs are done does not wait for ever while its customer polls.
ReadyIsDelivered == \A t \in Tasks : []<>~Ready(t)

=============================================================================
