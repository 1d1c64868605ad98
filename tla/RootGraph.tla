------------------------------ MODULE RootGraph ------------------------------
(***************************************************************************)
(* The root graph of one conversation: orchestration/graphs/supervisor.py, *)
(* the LLM supervisor of llm_supervisor.py, the expert loop of             *)
(* experts/base.py, and the way advisor.py enters the graph (a new turn,   *)
(* an answer to a suspended question, a new message that abandons it).     *)
(*                                                                         *)
(* pc is the node about to run, or "idle", "suspended" (an interrupt of    *)
(* the ask node is pending in the checkpoint) or "end" (a reply is out).   *)
(* run and results are the checkpointed state keys `run' and               *)
(* `task_results'; they outlive a turn and a crash.  Texts are kinds: what *)
(* matters is whether compliance has screened the text.  A failure action  *)
(* stands for a node whose second and last attempt raised.                 *)
(*                                                                         *)
(* Left out: `processing' outcomes (no assembler of the repository makes   *)
(* one), an outcome that asks for no registered field (need_input refuses  *)
(* it) and a missing conversation or domain runner (never wired so).       *)
(***************************************************************************)
EXTENDS Naturals, FiniteSets

CONSTANTS NDomains,      \* domains, numbered as in DOMAIN_ORDER
          Askable,       \* the domains with fields in EXPERT_FIELDS
          MaxDomains,    \* RunBudgets.max_domains
          ClarifyLimit,  \* RunBudgets.clarify_rounds
          Steps,         \* RunBudgets.react_steps
          Checkpointed,  \* whether the graph has a checkpointer
          MaxTurns       \* bound: turns of the conversation

Domains == 1..NDomains

ASSUME RootGraphAssumption ==
    /\ NDomains \in Nat \ {0} /\ MaxDomains \in Nat \ {0}
    /\ ClarifyLimit \in Nat \ {0} /\ Steps \in Nat \ {0}
    /\ Askable \subseteq Domains /\ Checkpointed \in BOOLEAN /\ MaxTurns \in Nat

VARIABLES pc,        \* the node about to run
          mode,      \* ORCHESTRATION_SUPERVISOR_MODE
          run,       \* RunState
          results,   \* task_results, by domain
          sent,      \* the domains of the Sends under way
          writes,    \* the outcomes of the Sends that returned
          rounds,    \* model rounds of each expert under way
          stopped,   \* the conversation's stop request
          late,      \* deadline_monotonic has passed
          queued,    \* a new message waits for the abandoned run to close
          turn,      \* the turn under way
          asks       \* questions the user was shown in this turn

vars == <<pc, mode, run, results, sent, writes, rounds, stopped, late, queued, turn, asks>>
work == <<sent, writes, rounds>>
host == <<mode, queued, turn>>

Active == {"classify", "conversation", "clarify", "supervisor", "decide", "scope",
           "workers", "converge", "asking", "synthesize", "compliance"}

Halts == {"run_cancelled", "turn_deadline"}
Degradations == Halts \cup {"classification_error", "classification_failed_node",
    "node_failed", "domains_truncated", "needs_input_unresolved",
    "compliance_blocked", "compliance_unavailable"}
Statuses == {"success", "partial", "failed", "needs_input"}
Replies == {"none", "draft", "question", "notice", "screened", "withheld"}

NoOutcome == [status |-> "none", halt |-> "none", turn |-> 0]
Outcome == [status : Statuses, halt : Halts \cup {"none"}, turn : 0..MaxTurns]

Runs == [domains : SUBSET Domains, error : BOOLEAN, degradations : SUBSET Degradations,
         final_response : Replies,
         run_status : {"none", "completed", "partial", "failed", "cancelled"},
         expert_tasks : SUBSET Domains, param_missing : SUBSET Domains,
         param_blocked : BOOLEAN, param_cancelled : BOOLEAN,
         clarify_rounds : 0..ClarifyLimit, halted : BOOLEAN]

\* Every component has its type.
TypeOK ==
    /\ pc \in Active \cup {"idle", "suspended", "end"}
    /\ mode \in {"llm", "legacy"}
    /\ run \in Runs
    /\ results \in [Domains -> Outcome \cup {NoOutcome}]
    /\ sent \subseteq Domains
    /\ writes \in [Domains -> Outcome \cup {NoOutcome}]
    /\ rounds \in [Domains -> 0..Steps]
    /\ stopped \in BOOLEAN /\ late \in BOOLEAN /\ queued \in BOOLEAN
    /\ turn \in 0..MaxTurns
    /\ asks \in 0..ClarifyLimit

Nothing == [d \in Domains |-> NoOutcome]

Present(r) == {d \in Domains : r[d] # NoOutcome}
Pending(r) == {d \in Domains : r[d].status = "needs_input"}

\* The run classify writes with Overwrite.
Fresh(domains, error) ==
    [domains |-> domains, error |-> error, degradations |-> {},
     final_response |-> "none", run_status |-> "none", expert_tasks |-> {},
     param_missing |-> {}, param_blocked |-> FALSE, param_cancelled |-> FALSE,
     clarify_rounds |-> 0, halted |-> FALSE]

Init == /\ pc = "idle" /\ mode \in {"llm", "legacy"}
        /\ run = Fresh({}, FALSE) /\ results = Nothing
        /\ sent = {} /\ writes = Nothing /\ rounds = [d \in Domains |-> 0]
        /\ stopped = FALSE /\ late = FALSE /\ queued = FALSE
        /\ turn = 0 /\ asks = 0

---------------------------------------------------------------------------
(* Entering the graph: handle_message and _invoke_with_resume.             *)

\* A new turn; a turn of its own takes the stop request away, one that
\* follows an abandoned run is still the same handle_message.
Start == /\ turn < MaxTurns
         /\ pc' = "classify" /\ turn' = turn + 1 /\ asks' = 0
         /\ stopped' = (queued /\ stopped)
         /\ late' = FALSE /\ queued' = FALSE
         /\ UNCHANGED <<mode, run, results, work>>

Begin == pc \in {"idle", "end"} /\ Start

SendTo(domains) ==
    /\ sent' = domains
    /\ writes' = Nothing
    /\ rounds' = [d \in Domains |-> 0]

CloseQuestion == [run EXCEPT
    !.final_response = "notice", !.run_status = "completed",
    !.param_blocked = TRUE, !.param_cancelled = TRUE, !.param_missing = {}]

RerunAll(pending) == run.expert_tasks                        \* mutant

\* What is run again: the domains that asked and whose task is known.
Rerun(pending) == pending \cap run.expert_tasks

\* The answer holds a usable value: the deadline starts anew and every
\* domain that asked runs again.
Answer ==
    /\ pc = "suspended"
    /\ run' = [run EXCEPT !.param_missing = {}, !.halted = FALSE]
    /\ late' = FALSE
    /\ LET again == Rerun(Pending(results)) IN
          /\ SendTo(again)
          /\ pc' = IF again = {} THEN "converge" ELSE "workers"
    /\ UNCHANGED <<host, results, stopped, asks>>

\* The answer holds nothing usable: the question becomes the reply.
AnswerNothing ==
    /\ pc = "suspended"
    /\ run' = [run EXCEPT !.final_response = "question", !.run_status = "partial",
                          !.param_blocked = TRUE]
    /\ pc' = "compliance"
    /\ UNCHANGED <<host, results, work, stopped, late, asks>>

\* The user cancels the form.
Decline ==
    /\ pc = "suspended"
    /\ run' = CloseQuestion /\ pc' = "compliance"
    /\ UNCHANGED <<host, results, work, stopped, late, asks>>

\* A new message: the pending run is resumed with the cancel sentinel first.
Abandon ==
    /\ pc = "suspended" /\ turn < MaxTurns
    /\ run' = CloseQuestion /\ pc' = "compliance" /\ queued' = TRUE
    /\ UNCHANGED <<mode, turn, results, work, stopped, late, asks>>

\* Closing the pending run raised: the new turn starts all the same.
AbandonFails == pc = "suspended" /\ Start

---------------------------------------------------------------------------
(* The nodes.                                                              *)

\* _halt_reason, asked in the thread that runs the turn.
Halt == IF stopped THEN "run_cancelled" ELSE IF late THEN "turn_deadline" ELSE "none"

DegradeToEnd ==                                              \* mutant
    /\ run' = [run EXCEPT !.final_response = "notice", !.run_status = "failed",
                          !.degradations = {"node_failed"}]
    /\ pc' = "end"

\* degradation_error_handler.
Degrade == /\ run' = [run EXCEPT !.final_response = "notice", !.run_status = "failed",
                                 !.degradations = {"node_failed"}]
           /\ pc' = "compliance"

FreshOverStale(r) == r                                       \* mutant

\* task_results after Overwrite({}).
Forget(r) == Nothing

Routes == [node : {"conversation", "clarify"}, domains : {{}}, error : {FALSE}]
             \cup [node : {"clarify"}, domains : {{}}, error : {TRUE}]
             \cup [node : {IF mode = "llm" THEN "supervisor" ELSE "scope"},
                   domains : (SUBSET Domains) \ {{}}, error : {FALSE}]

\* classify_node and route.
Classify ==
    /\ pc = "classify"
    /\ \E r \in Routes : /\ run' = Fresh(r.domains, r.error)
                         /\ pc' = r.node
    /\ results' = Forget(results)
    /\ late' = FALSE
    /\ UNCHANGED <<host, work, stopped, asks>>

\* classification_error_handler: the run and the outcomes of the turn before
\* stay as they were.
ClassifyFails ==
    /\ pc = "classify"
    /\ run' = [run EXCEPT !.final_response = "notice", !.run_status = "failed",
                          !.degradations = {"classification_failed_node"}]
    /\ pc' = "compliance"
    /\ UNCHANGED <<host, results, work, stopped, late, asks>>

\* conversation_node: a halt seen at the end makes the answer partial.
Conversation ==
    /\ pc = "conversation"
    /\ \E status \in {"completed", "partial"} :
          /\ status = "completed" => Halt = "none"
          /\ run' = [run EXCEPT !.final_response = "draft", !.run_status = status]
    /\ pc' = "converge"
    /\ UNCHANGED <<host, results, work, stopped, late, asks>>

ConversationFails ==
    /\ pc = "conversation" /\ Degrade
    /\ UNCHANGED <<host, results, work, stopped, late, asks>>

Clarify ==
    /\ pc = "clarify"
    /\ run' = [run EXCEPT !.final_response = "notice",
                 !.run_status = IF run.error THEN "failed" ELSE "completed",
                 !.degradations = IF run.error THEN {"classification_error"} ELSE @]
    /\ pc' = "converge"
    /\ UNCHANGED <<host, results, work, stopped, late, asks>>

\* The first n of a set of domains, in DOMAIN_ORDER.
FirstOf(domains, n) == {d \in domains : Cardinality({e \in domains : e < d}) < n}

\* supervisor_node asks for a halt before the model decides ...
Supervise ==
    /\ pc = "supervisor"
    /\ pc' = IF Halt = "none" THEN "decide" ELSE "converge"
    /\ UNCHANGED <<host, run, results, work, stopped, late, asks>>

\* ... and after it did, when it sends the domains that were handed off, all
\* candidates if none was.
Decide ==
    /\ pc = "decide"
    /\ \/ /\ Halt # "none"
          /\ pc' = "converge" /\ UNCHANGED <<run, work>>
       \/ /\ Halt = "none"
          /\ \E chosen \in (SUBSET FirstOf(run.domains, MaxDomains)) \ {{}} :
                /\ run' = [run EXCEPT !.expert_tasks = chosen]
                /\ SendTo(chosen)
          /\ pc' = "workers"
    /\ UNCHANGED <<host, results, stopped, late, asks>>

DecideFails ==
    /\ pc = "decide" /\ Degrade
    /\ UNCHANGED <<host, results, work, stopped, late, asks>>

\* scope_tasks_node and route_after_scope (the legacy mode).
Scope ==
    /\ pc = "scope"
    /\ LET chosen == FirstOf(run.domains, MaxDomains) IN
          /\ run' = [run EXCEPT !.expert_tasks = chosen, !.degradations =
                        IF chosen = run.domains THEN {} ELSE {"domains_truncated"}]
          /\ IF Halt = "none" THEN pc' = "workers" /\ SendTo(chosen)
                              ELSE pc' = "converge" /\ UNCHANGED work
    /\ UNCHANGED <<host, results, stopped, late, asks>>

---------------------------------------------------------------------------
(* The experts: domain_worker and the ReAct loop of build_expert_graph.    *)

Working(d) == pc = "workers" /\ d \in sent /\ writes[d] = NoOutcome

\* The stop request is looked up through a thread-local conversation id: a
\* lone Send runs in the thread of the turn, several run in a pool.
SeesStop == Cardinality(sent) = 1

\* The stop_check an expert is given.
ExpertHalt == IF stopped /\ SeesStop THEN "run_cancelled"
              ELSE IF late THEN "turn_deadline" ELSE "none"

Write(d, status, halt) ==
    /\ status = "needs_input" => d \in Askable
    /\ writes' = [writes EXCEPT ![d] = [status |-> status, halt |-> halt, turn |-> turn]]
    /\ UNCHANGED <<pc, host, run, results, sent, rounds, stopped, late, asks>>

AnyRound(d) == TRUE                                          \* mutant

\* ModelCallLimitMiddleware lets the model run again.
RoundLeft(d) == rounds[d] < Steps

\* One model call, with the tools it asks for; before_model found no halt.
\* (The count wraps only so that it would stay finite without the limit.)
ModelRound(d) ==
    /\ Working(d) /\ ExpertHalt = "none" /\ RoundLeft(d)
    /\ rounds' = [rounds EXCEPT ![d] = (@ % Steps) + 1]
    /\ UNCHANGED <<pc, host, run, results, sent, writes, stopped, late, asks>>

\* The loop ended and the outcome is assembled.
Finish(d) == /\ Working(d) /\ rounds[d] > 0
             /\ \E status \in Statuses : Write(d, status, "none")

\* before_model found a halt: the reason becomes a limitation, so the
\* outcome is no success.
CooperativeStop(d) == /\ Working(d) /\ ExpertHalt # "none"
                      /\ \E status \in Statuses \ {"success"} : Write(d, status, ExpertHalt)

\* The model, a tool or the runner raised.
ExpertFails(d) == Working(d) /\ Write(d, "failed", "none")

\* The superstep of the Sends ends when all have returned; only then are the
\* outcomes merged into task_results.
Gather ==
    /\ pc = "workers" /\ \A d \in sent : writes[d] # NoOutcome
    /\ results' = [d \in Domains |-> IF d \in sent THEN writes[d] ELSE results[d]]
    /\ SendTo({})
    /\ pc' = "converge"
    /\ UNCHANGED <<host, run, stopped, late, asks>>

---------------------------------------------------------------------------
(* converge, ask, synthesize, compliance.                                  *)

ReduceOutcomes(statuses, degradations) ==                    \* mutant
    IF statuses = {"success"} THEN "completed"
    ELSE IF statuses = {"failed"} THEN "failed" ELSE "partial"

Reduce(statuses, degradations) ==
    IF "run_cancelled" \in degradations THEN "cancelled"
    ELSE IF statuses = {"success"} /\ degradations = {} THEN "completed"
    ELSE IF statuses = {"failed"} THEN "failed" ELSE "partial"

\* run-level limitations of the outcomes (collect_outcome_notes) and the halt.
Noted(halt) == (run.degradations \cup {results[d].halt : d \in Domains} \cup {halt})
                   \ {"none"}

AskAfterHalt(halt) == run.clarify_rounds < ClarifyLimit /\ Checkpointed     \* mutant

\* converge may put its question to the user.
MayAsk(halt) == halt = "none" /\ run.clarify_rounds < ClarifyLimit /\ Checkpointed

\* The run after the outcomes and a halt have been folded in.
Converged(halt) ==
    LET present == Present(results)
    IN  [run EXCEPT
            !.degradations = Noted(halt),
            !.halted = @ \/ halt # "none",
            !.run_status = IF present # {} \/ halt # "none"
                           THEN Reduce({results[d].status : d \in present}, Noted(halt))
                           ELSE @,
            !.final_response = IF present # {} THEN "draft"
                               ELSE IF halt # "none" /\ @ = "none" THEN "notice" ELSE @]

\* converge_node: nobody asked for parameters.
Conclude ==
    /\ pc = "converge" /\ Pending(results) = {}
    /\ run' = [Converged(Halt) EXCEPT !.param_missing = {}, !.param_blocked = FALSE]
    /\ pc' = IF Cardinality(Present(results)) >= 2 THEN "synthesize" ELSE "compliance"
    /\ UNCHANGED <<host, results, work, stopped, late, asks>>

\* converge_node: a question is left, and another may be put.
PlanQuestion ==
    /\ pc = "converge" /\ Pending(results) # {} /\ MayAsk(Halt)
    /\ run' = [Converged(Halt) EXCEPT !.param_missing = Pending(results),
                                      !.param_blocked = FALSE, !.clarify_rounds = @ + 1]
    /\ pc' = "asking"
    /\ UNCHANGED <<host, results, work, stopped, late, asks>>

\* converge_node: a question is left, and it becomes the reply.
GiveUpAsking ==
    /\ pc = "converge" /\ Pending(results) # {} /\ ~MayAsk(Halt)
    /\ run' = [Converged(Halt) EXCEPT
                  !.param_missing = Pending(results), !.param_blocked = TRUE,
                  !.final_response = "question",
                  !.degradations = @ \cup {"needs_input_unresolved"}]
    /\ pc' = "compliance"
    /\ UNCHANGED <<host, results, work, stopped, late, asks>>

\* ask_node interrupts; handle_message returns the form and drops the stop
\* request.
Interrupt ==
    /\ pc = "asking"
    /\ pc' = "suspended" /\ asks' = asks + 1 /\ stopped' = FALSE
    /\ UNCHANGED <<host, run, results, work, late>>

\* synthesize_node: with a synthesis or, when the model fails, the joined
\* summaries, the reply is still a draft.
Synthesize ==
    /\ pc = "synthesize" /\ pc' = "compliance"
    /\ UNCHANGED <<host, run, results, work, stopped, late, asks>>

\* compliance_node: passed, rewritten or audited; handle_message ends.
Screen ==
    /\ pc = "compliance"
    /\ run' = [run EXCEPT !.final_response = "screened"]
    /\ pc' = "end" /\ stopped' = (queued /\ stopped)
    /\ UNCHANGED <<host, results, work, late, asks>>

\* compliance_node: blocked.
Withhold ==
    /\ pc = "compliance"
    /\ run' = [run EXCEPT !.final_response = "withheld", !.run_status = "failed",
                          !.degradations = @ \cup {"compliance_blocked"}]
    /\ pc' = "end" /\ stopped' = (queued /\ stopped)
    /\ UNCHANGED <<host, results, work, late, asks>>

\* compliance_error_handler: what could not be screened is not sent.
ComplianceFails ==
    /\ pc = "compliance"
    /\ run' = [run EXCEPT !.final_response = "withheld", !.run_status = "failed",
                          !.degradations = {"compliance_unavailable"}]
    /\ pc' = "end" /\ stopped' = (queued /\ stopped)
    /\ UNCHANGED <<host, results, work, late, asks>>

---------------------------------------------------------------------------
(* The surroundings: the user, the clock, the process.                     *)

PressStop ==
    /\ pc \in Active /\ ~stopped /\ stopped' = TRUE
    /\ UNCHANGED <<pc, host, run, results, work, late, asks>>

DeadlinePasses ==
    /\ pc \in Active \ {"classify"} /\ ~late /\ late' = TRUE
    /\ UNCHANGED <<pc, host, run, results, work, stopped, asks>>

\* The process dies.  The checkpoint stays; the host never continues it, a
\* later message enters at START.
Crash ==
    /\ pc \in Active
    /\ pc' = "idle" /\ SendTo({})
    /\ stopped' = FALSE /\ late' = FALSE /\ queued' = FALSE
    /\ UNCHANGED <<mode, run, results, turn, asks>>

Expert(d) == ModelRound(d) \/ Finish(d) \/ CooperativeStop(d) \/ ExpertFails(d)

\* A step the runtime takes by itself.
GraphStep ==
    \/ Classify \/ ClassifyFails \/ Conversation \/ ConversationFails \/ Clarify
    \/ Supervise \/ Decide \/ DecideFails \/ Scope
    \/ \E d \in Domains : Expert(d)
    \/ Gather \/ Conclude \/ PlanQuestion \/ GiveUpAsking \/ Interrupt
    \/ Synthesize \/ Screen \/ Withhold \/ ComplianceFails

Next == \/ Begin \/ Answer \/ AnswerNothing \/ Decline \/ Abandon \/ AbandonFails
        \/ GraphStep \/ PressStop \/ DeadlinePasses \/ Crash

Spec == Init /\ [][Next]_vars

\* Every node returns: each model call and each tool has a timeout.
\* A message that abandoned a question is taken up when the run is closed.
FairSpec == Spec /\ WF_vars(GraphStep) /\ WF_vars(queued /\ Begin)

---------------------------------------------------------------------------
(* Properties.                                                             *)

\* No reply leaves the graph unscreened, whichever node failed on the way:
\* it went through compliance, or compliance withheld it and the turn is
\* reported as failed.
EveryReplyIsScreened ==
    pc = "end" => \/ run.final_response = "screened"
                  \/ run.final_response = "withheld" /\ run.run_status = "failed"

\* project_supervisor_state reads an empty status as completed.
Reported == IF run.run_status = "none" THEN "completed" ELSE run.run_status

\* A turn the user did not decline is reported as completed only if nothing
\* degraded it and every domain it was routed to work on succeeded.
CompletedIsTrue ==
    pc = "end" /\ Reported = "completed" /\ ~run.param_cancelled =>
        /\ run.degradations = {}
        /\ run.domains # {} => run.expert_tasks # {}
        /\ \A d \in run.expert_tasks : results[d].status = "success"

\* A stop that was noticed is reported as cancelled, unless the reply was
\* withheld.
StopIsReported ==
    pc = "end" /\ "run_cancelled" \in run.degradations
        => run.run_status = "cancelled" \/ run.final_response = "withheld"

\* run_status tells the truth about the turn (reduce_run_status).
HonestStatus == CompletedIsTrue /\ StopIsReported

\* The user is asked at most clarify_rounds times in a turn, over however
\* many calls, and never by a turn that was stopped or ran out of time.
AsksAreBounded ==
    /\ asks <= ClarifyLimit
    /\ pc \in {"asking", "suspended"} => /\ run.param_missing # {} /\ ~run.halted
                                         /\ run.degradations \cap Halts = {}

\* What a turn concludes from is its own: no outcome of an earlier turn, of a
\* crashed run or of a domain nobody was sent to is folded into the reply.
FreshOutcomes ==
    pc \in {"converge", "asking", "suspended", "synthesize"} =>
        \A d \in Present(results) : results[d].turn = turn /\ d \in run.expert_tasks

\* Within a turn an outcome is replaced only if it asked for input: a domain
\* that has concluded is not run again when the user answers.
ConcludedDomainsStay ==
    [][\A d \in Domains :
          results[d].status \notin {"none", "needs_input"} /\ pc # "classify"
              => results'[d] = results[d]]_vars

\* Every turn ends, suspends on a question or dies with its process, however
\* often the models call their tools; a message that abandons a question is
\* taken up.
EveryTurnEnds == /\ (pc \in Active) ~> (pc \notin Active)
                 /\ queued ~> ~queued

\* Once a stop was requested no expert starts another round of its model.
StopReachesExperts ==
    [][\A d \in Domains : rounds'[d] > rounds[d] => ~stopped]_vars
==============================================================================
