# FinanceAgent in TLA+

A verification development for FinanceAgent: TLA+ models of its turn host, its
agent graph and experts, its quantitative jobs, its simulated trading service,
its research kernel, market data, product shelf, profile memory and accounts,
TLC configurations that check them on small instances, and TLAPS proofs of the
properties that matter most.

Paths are relative to `src/finance_agent/` unless they start with `docs/`,
`tests/`, `frontend/`, `migrations/` (under `src/`) or `README.md` (the
program's own README).

1. [Inventory](#1-inventory)
2. [Modules](#2-modules)
3. [Runs](#3-runs)
4. [Findings](#4-findings)
5. [Theorems](#5-theorems)
6. [What is not modelled](#6-what-is-not-modelled)
7. [Plan](#7-plan)

## 1. Inventory

A chat request enters over HTTP or SSE (`api/routers/chat.py`). `AdvisorSystem`
(`application/advisor.py`) hands it to a thread of the event loop's pool, where
`TurnCoordinator.handle_message` takes the lock of the conversation, runs the
root graph (`orchestration/graphs/supervisor.py`) and stores what came of it.
The graph classifies the message, sends the domains it concerns to experts that
run in parallel, each a model with tools in a loop, folds their outcomes into a
status and a draft, may interrupt to ask the user for parameters, and lets
compliance screen the text. The trading pages, the administration console and
the account pages use other entries: services over Postgres, with neither graph
nor lock of a conversation in between.

| Component | State it keeps | Operations | What is hard | What makes it correct |
|---|---|---|---|---|
| **Turn host** (`application/advisor.py`, `turn_coordinator.py`, `run_persistence.py`) | lock registry with reference counts, stop marks, active runs, progress callbacks; rows, window and checkpoint of a conversation | run a turn, stop, delete, time out | threads of one pool, locks created and dropped on demand, marks that outlive their run, best-effort writes, a crash | one turn of a conversation at a time; the registry neither leaks nor loses a lock; a stop reaches the run it was meant for and no other; what was said is stored in order |
| **Root graph** (`orchestration/graphs/supervisor.py`) | checkpointed `run` and `task_results`, pending interrupt | classify, route, supervise, fan out, converge, ask, resume, synthesize, screen | every node may fail, experts run in parallel, an interrupt spans calls, state outlives turns | a reply is screened, its status is true, questions are bounded, outcomes belong to the turn, a turn ends |
| **LLM supervisor** (`llm_supervisor.py`) | messages of one loop | choose domains | the model decides | at most `max_domains`, and never none without a word |
| **Expert loop** (`experts/base.py`, `needs_input.py`) | the sink: payloads, traces, limitations, a request for input | model round, tool round, finish, ask, rerun | a request shows up in the middle of a round, is followed by other rounds, or by an exception | what is asked comes back; a cut or failed run says so and is no success |
| **Compliance** (`graphs/compliance.py`, `safety/`) | none | check, rewrite, recheck, fall back | a failing check in the middle of a rewrite; words that a removal brings together | what leaves it is clean outside supported text, and a rewrite loses no fact |
| **Routing** (`routing/intent.py`, `task_rewrite.py`) | none | classify, parse slots | text | outside a model checker's interest, except as a choice |
| **Quantitative jobs** (`application/async_recovery.py`, `infrastructure/jobs/`) | job references, snapshots of waiting outcomes, Celery's states | submit, poll, merge, deliver, stop | sibling jobs, jobs of two customers that share an id, expiry, a crash between delete and append | a snapshot is not lost; a result is told once, and some time |
| **Trading** (`domains/portfolio/service.py`, `portfolio_store.py`) | account, positions, orders, cash ledger | deposit, buy, sell, liquidate | concurrent requests, resent requests, a thread that dies in a transaction | no overdraft, one booking per key, all tables tell the same story, nobody waits for ever |
| **Fees** (`domains/portfolio/fees.py`) | none | subscription, redemption, cost release | two roundings that meet | round trips gain only roundings |
| **Account panel** (`get_account`) | none | three reads | trades commit between them | the panel adds up when undisturbed |
| **Allocation** (`domains/portfolio/allocation.py`) | none | weights, tiers, plan, review | a projection that iterates, limits that cannot be met | targets add up to one within the limits |
| **Research** (`domains/research/`) | facts and results of a turn, the audit tables | build snapshot, gate, score, decide, screen, record, replay | missing, stale, mixed data; a partial failure of a batch; a replay that must not use the clock | conclusions rest on data that passed the gates; a record reproduces its conclusions |
| **Market data** (`infrastructure/market_data/`) | breakers, quote cache, one BaoStock session, metadata per thread | fetch with fallback, page a board list | parallel tools, abandoned threads, hosts that end or fail half way | an answer names its source and its degradation; a breaker opens on failures only; an outage is not "nothing found" |
| **Products** (`application/admin_service.py`, `product_store.py`) | products, performance rows | save, switch, read, list | an edit is three transactions, two administrators edit at once | no edit takes away what it does not send |
| **Memory and profile** (`orchestration/memory.py`) | window (Redis), profile card with confirmed facts | append, extract, merge, answer a form, clear | read-modify-write of one card by several turns; a model's guess beside the user's words | nothing stands on the card that the user has not said |
| **Accounts** (`auth_store.py`, `api/routers/auth.py`, `api/rate_limit.py`, `cli/bootstrap_admin.py`) | users, sessions, attempts | register, log in, verify, log out, close, make an administrator | a closing of many steps, beside turns and after a failed one | a closed account leaves nothing behind |
| **FAQ** (`domains/faq/`) | vector index | index, retrieve | re-index beside reads | old or new index, never a mix |
| **Persistence base, checkpoint** (`infrastructure/`) | schema flag, pool, LangGraph saver | transaction, migrate | lazy set-up under a lock | set-up happens once |
| **HTTP, SSE, frontend, command line, migrations** | none of their own | | | |

How they interact: HTTP calls the host; the host calls the graph under the
conversation's lock; the graph calls back into the host for stop requests
(`stop_check`, through a thread-local conversation id) and progress; graph and
host share the checkpoint; the host writes to Postgres and Redis after the graph
returned, and the profile card before and after it; experts call tools, tools
call the research kernel and the provider manager, all tools of a process share
that manager and one BaoStock session; the kernel's conclusions are stored by
the host; the status endpoint appends to the conversation what a job found;
trades and the shelf share the products and nothing with turns but the database;
the closing of an account calls the host's deletion for each conversation.

`PROJECT.json` lists every component with its sources and status, and under
`hazards` the places where something can go wrong that a test hardly reaches,
each with the properties that would notice.

## 2. Modules

### TurnHost, SerialConversations

`TurnHost` models the host. An action is one step of the code that other
threads can see before the next one: a section under `_state_lock`, an
acquisition or release of the conversation's lock, one write to a store.

| State | Code |
|---|---|
| `pc`, `client`, `result` | where a worker thread is; whether its client still waits; how its graph ended |
| `registry`, `refs`, `holder`, `lockOf` | `_conversation_locks`: entry, reference count, `threading.Lock` and the turns that hold a reference |
| `stops`, `activeRuns`, `callbacks` | `_stop_requests`, `_active_runs`, `_progress_callbacks` |
| `rows`, `messages`, `runRow`, `window`, `checkpoints` | `finance.conversations`, `conversation_messages`, `agent_runs`, the Redis list, the LangGraph tables |
| `stopper`, `deleter` | the stop and delete calls under way |

`EnterGuard`, `AcquireLock`, `ReleaseLock`, `LeaveGuard` are
`_conversation_guard`; `ClearStop` to `Cleanup` are `handle_message`;
`CompleteRun` to `RememberReply` are `RunPersistence.persist`; `StopLookup`,
`StopConversation`, `RequestStop` the stop routes; `DeleteRows`, `DeleteCheckpoint`, `DeleteMemory`
`delete_checkpoint_conversation`; `GiveUp`, `GiveUpQueued` the timeout of
`run_turn_async`, which abandons a running thread and drops a queued one.
The graph of a turn is one `Superstep` that looks for a stop, any number of
times; `RootGraph` has its inside.

`SerialConversations` is the abstract promise: a conversation has at most one
turn inside, a turn is inside at most once, the process may die. `TurnHost`
implements it with `inside` and `begun` defined from the program counters.

### RootGraph

One conversation's graph over several turns. `pc` is the node about to run, or
`idle`, `suspended` (an interrupt is pending) or `end`. `run` is `RunState`,
`results` is `task_results`; both are what the checkpointer keeps, so they
survive a turn, a suspension and a crash. A LangGraph superstep is one action, except
for the fan-out: the `Send`s run in parallel and each expert takes its own
steps; their writes are merged by `Gather` when all have returned, as the
reducer does.

| Actions | Code |
|---|---|
| `Begin`, `Answer`, `AnswerNothing`, `Decline`, `Abandon`, `AbandonFails` | how `handle_message` enters the graph: new turn, answer to a form, form without a usable value, cancelled form, new message that first closes the pending run, and that closing failing |
| `Classify`, `ClassifyFails`, `Conversation`, `ConversationFails`, `Clarify` | the first nodes with their error handlers |
| `Supervise`, `Decide`, `DecideFails` / `Scope` | the two supervisor modes |
| `ModelRound`, `Finish`, `CooperativeStop`, `ExpertFails`, `Gather` | the experts |
| `Conclude`, `PlanQuestion`, `GiveUpAsking` | the three ways out of `converge_node` |
| `Interrupt`, `Synthesize`, `Screen`, `Withhold`, `ComplianceFails` | the rest of the graph |
| `PressStop`, `DeadlinePasses`, `Crash` | the surroundings |

Texts are kinds (`draft`, `question`, `notice`, `screened`, `withheld`), a form
is the set of domains that asked, an outcome is its status, the halt it noted
and the turn that made it (the last is history, for `FreshOutcomes`). Left out: `processing`
outcomes (no assembler makes one), outcomes that ask for no registered field
(`need_input` refuses them) and missing runners (the composition never leaves one
out). The merging of answers is in `Experts`.

### Experts

The same turn from the inside. Each domain has a loop whose actions are the
model's rounds: `CallTool` (a payload with figures, a limitation, a failure, or
a request for input), `Write` (the final text), `CutOff` (the round limit),
`Stop`, `Raise`. `Assembled` is what `base.py` makes of the sink: status,
limitations, the figures of the text that no payload supports within 0.1 %.
`Ask` puts the missing fields of the asking domains on one form, `Resume` reads
what was sent (values outside the options are dropped, a bare key serves every
domain that asked, a qualified one its own) and runs the asking domains again
with the answers, `GiveUp` is the cancelled form. A text is the set of the
figures in it.

### Compliance

The exit of the graph as a small state machine over a draft of segments, each a
sequence of kinds of tokens: `MarkTrusted`, `Check`, `RewriteWhole` or
`RewriteSegments`, `Recheck` or `RecheckNothing`, `Deliver`; `Unavailable` is the
model of the semantic check that fails, with the retry of the node and its error
handler. `AuditOnly` is the path of reviewed text. Words are kinds: a sensitive word, a variant of it that
only normalisation finds, its two halves (so that a removal may put a word
together), a phrase only the model objects to, digits, ends.

### QuantRecovery

Turns submit jobs and save a snapshot for each (`Submit`, `Link`,
`SaveOutcome`, `Reply`), workers end them, results expire, and the status
request reads, merges, deletes and appends in separate steps (`Look`, `Owned`,
`Load`, `Ask`, `Read`, `Settle`, `Delete`, `Deliver`, `DeliverFails`), as the code
does it with a transaction each. Of each sibling the broker is asked twice:
`Ask` for its status, `Read` for its result. A result that has expired in
between, or in which nothing can be used (`EMPTY`), leaves a warning to the
poller (`warned`) and is not waited for. A job stands for its stock: its id is made of
the stock code alone, so two customers share a job and its row. In the
application as it is composed no tool passes a thread to the gateway, so the
tests of the closed loop (`tests/integration/test_quant_closed_loop.py`) define
how it is meant to run.

### Portfolio, TradeBook, Fees, FlatPosition, AccountPanel

`Fees` has the arithmetic of `fees.py` in integers: money in cents, shares in
hundredths. Money is rounded to the nearest cent, shares down. The code
computes in binary floating point, so an amount exactly half way between two
cents may go to either; every breakdown is therefore a set of outcomes.
`FlatPosition` buys and sells one position with it while the NAV stands still.

`Portfolio` runs any set of requests of one customer concurrently. A call looks
its key up, prices the trade, opens the transaction that locks the account row
(`SELECT ... FOR UPDATE`), checks, writes and commits; `Refuse` and `Die` roll
back, `Collide` is the unique index, `ReplayConflict` the look-up after it. A liquidation
sells a list it read before its first sale. A transaction commits in one step:
its intermediate states are invisible to the others, and dying inside it leaves
nothing behind.

`TradeBook` is the abstract promise of the program's README (lines 622-625):
atomic bookings, each key at most once, within the customer's means.
`Portfolio` implements it. `AccountPanel` adds the three reads of `get_account`.

### Allocation

`ReviewPortfolio` is `review_portfolio`: priced holdings, their weights, the
tiers and bands of a risk preference, the reference weights (equal, inverse
volatility, risk parity) and the optimisation plan with its target weights.
Weights are integers, `Scale` parts of one. The projection onto the limits is a
recursive function over `Rounds` iterations, as in the code: `Reclip` is one of them, `Clipped` and
`AddsUp` its two halves. The code iterates 100 times and the run 22 times; for
their holdings that is past the round that settles.

### Research

The path of one request: raw data of a security become a fact with quality
gates (`Build`: freshness in trading days, adjustment, length of the series,
report periods, consistency of sources), scores (one table per figure), and a
decision in which risk comes first (`Assess`, `Evaluate`). `EvaluateResearch` and
`ScreenBoard` are the tools, `Audit` the two tables of a turn, `Replay` the
recomputation from facts, `ReplayStoredRun` what the command line does with a
stored run.

### Vendors, Market, Boards

`Vendors` says what each of the three adapters makes of a request, given what
the endpoints answer: rows, nothing, unsupported, an error. `Market` runs tools
in threads through the provider manager: `SkipUnavailable`, `SkipOpen`,
`TryNext`, `Adapter` in a daemon thread, `Collect`, `Timeout` (the daemon thread goes on as `late`),
`Judge` for the breaker, `CoolDown` for its clock, `Publish` for the metadata,
then the tool's own steps until the payload is in the sink. `Boards` is the
board search: the paging over hosts with a deadline, the salvage of what was
read, the fallback and the answer of the tool.

### Shelf, Profile, Accounts

`Shelf`: an edit saves the columns of a product, reads its latest performance
row, appends the merged one, and reads the product back, each a transaction;
`Switch`, `ReadOne` and `List` are the other routes.

`Profile`: turns read the whole card and write it whole, for the answers of a
form (`ReadForForm`, `SaveForm`) and for what the message said (`ReadForFacts`,
`SaveFacts`). A message is a set of phrases; a phrase is its words, what it
means and whether it says so explicitly. A guess of the classifier carries the
phrase it quotes, or a stretch of one, and is believed only when the quote is
in the message and says what the guess says.

`Accounts`: handlers run one at a time on the event loop. `StartTurn` is the part of a
turn that does too, the look at the token; the rest is done by a thread beside the
loop, also between two steps of a closing: `InsertRow` gives the conversation
its row, unless the user is gone (`create_run`), `SaveCheckpoint` is the graph,
`EndTurn` the persistence. A row inserted while its account is being closed is
noted in `closing.late`: the closing does not have it on its list. `Close`, `CloseConversation`, `DeleteUser`, `CloseFails` are the steps of
`DELETE /api/account`; `BootFind` to `BootDemote` the script that makes an
administrator, in a process of its own.

### MC modules

`MCTurnHost`, `MCRootGraph`, `MCPortfolio` and `MCQuantRecovery` give the
constants their values. `MCReviews` instantiates the ten modules that share no
state with the others (`Flat == INSTANCE FlatPosition`, and so on): each
behaviour is of one `subject`, drawn initially from `Subjects`, and the
variables of the other subjects stay `Off`. Its inputs (holdings, drafts, raw
data, messages, requests) are definitions of that module. Definitions marked
`mutant` in the models are plausible bugs, each used to confirm that a property
would notice it; they take no part in the specifications.

## 3. Runs

| Run | Instance | What it shows |
|---|---|---|
| `turnhost_guard` | 3 turns of one conversation, all may time out, 1 stop call, 3 threads | mutual exclusion, stop marks neither stale nor stolen, every run row closed, or left open by an exception alone, and every started turn stored although its client left |
| `turnhost_crash` | 2 turns, 1 delete call, failing writes, 1 crash | the transcript stays contiguous, the window pairs a reply with its own message |
| `turnhost_liveness` | 3 turns of 2 conversations on 2 threads | every request ends; `SerialSpec` is implemented |
| `turnhost_resurrect` | 2 turns, 1 delete call | finding: a deleted conversation comes back |
| `quant_recovery` | 2 tasks of 2 customers, 2 jobs, one of them shared, expiry, 1 crash | snapshots are kept until delivery, results told once or reported as missing, finished tasks delivered |
| `root_graph` | 3 domains of which 2 may run, 2 questions, 2 rounds, 2 turns, both modes | screened replies, honest status, bounded questions, fresh outcomes, concluded domains not run again, every turn ends |
| `root_graph_stop` | 1 turn | finding: a stop does not reach several experts |
| `portfolio` | scene 1: a liquidation, a deposit, two buys and a sale of 2 products; scene 2: two deposits and a buy raced by its own retry, with a panel read | money, positions, orders and ledger agree; an answer names the row of its key; a key books once; never do all requests wait; an undisturbed panel adds up; `TradeBook` is implemented |
| `reviews` | the ten subjects of `MCReviews` | see below |
| `research_stored_replay` | subject `research` | finding: a stored run is not reproduced by the command line |
| `research_screening` | subject `research` | finding: the screening tool raises |
| `shelf_columns` | subject `shelf` | finding: an edit empties the columns it does not send |

What `reviews` checks, by subject:

| Subject | Instance | Property |
|---|---|---|
| `flat` | amounts, NAVs and rates of real size, 4 orders | `RoundTripNeverPays`: buying and redeeming everything gains at most half a cent an order |
| `allocation` | all reviews of 1 and 2 holdings of 48 kinds, some of 3, two limits, three preferences | `KeepsLimits`: target and reference weights sum to one, within the limits when these can be met |
| `exit` | drafts of 1 to 3 segments, with and without sources, budgets 0 and 1, 2 attempts | `UntrustedIsClean`, `RewriteKeepsFacts` |
| `research` | 2 securities, each with 14 kinds of data, 12 requests, 2 calls | `ReplayReproduces`, `ConclusionsAreFounded` |
| `market` | 2 threads, 12 tool calls in 6 pairs, 2 sets of sources, threshold 2 | `HonestPayloads`, `OpensOnFailuresOnly` |
| `boards` | 2 hosts, up to 4 pages with a limit of 3, 2 rounds, 5 requests | `NotFoundIsNoOutage` |
| `shelf` | 2 administrators, 2 products, 3 calls | `NavLostOnlyToOverlap` (an action property) |
| `profile` | 2 turns, 4 messages, 4 sets of guesses, 3 forms | `OnlyStatedFacts` |
| `experts` | 2 domains with a field in common, 2 rounds each, 2 forms | `ExpertsKeepTheirWord` |
| `accounts` | 2 names that differ in case, 2 accounts, 1 conversation, turns, the script | `ClosingLeavesNothing` |

### Bounds

*Turns and calls.* A lock registry goes wrong when an entry is popped while
another turn is about to use it: that takes a turn that leaves, one that waits
and one that arrives, so three turns of one conversation. Every other hazard of
the host needs two. `MaxCrashes` is 1 because a crash resets all that a second
one could interact with, except the stores, which a crash does not touch.

*Domains.* `MaxDomains = 2` of 3 makes truncation, one `Send`, two `Send`s and
a partial re-run all happen; one of the domains can ask for nothing.
`ClarifyLimit = 2` is the least bound under which a second question of the same
turn exists. Two turns are enough for anything left over from the first one to
be read by the second.

*Jobs.* `SameStock` gives one task two jobs and the other one of them: the
smallest case in which siblings, a job of one's own and a shared job all exist.

*Trades.* `MCPortfolio` chooses five calls so that a liquidation meets two buys and
two calls under one key that differ in what they ask. The second scene has the deposit
that is refused, which is one step and touches nothing. The NAV scale is 2 and rates are percentages so that roundings happen
at small numbers, and whether the money pays both buys depends on one of them; the real sizes are those of
`FlatPosition`.

*Market.* A breaker with threshold 2 opens within the calls of two tools, one of
which asks twice (a quote asks for its name as well); an abandoned thread and a running one
are enough for each race on the manager.

*Shelf, profile.* The races are between two read-modify-write sequences; a third
edit shows what the first two left behind.

*Accounts.* One conversation makes the steps of a closing and a turn beside it;
the second account shows what the first one's removal must not touch. The clock
has two values: before and after a session or a rate limit window runs out.

Deadlock is not checked by TLC: each instance has finitely many turns and calls and
stops when they are used up. That something does end is a liveness property
(`EveryTurnEnds`), and that requests for locks never wait for one another is
the invariant `SomeoneCanGoOn`: some call can go on (`SomeoneIsFree`), and what can go on has a
step (`GuardsTell`).

### Fairness

`TurnHost.Fairness` is weak fairness of each worker's steps: the pool's threads
are scheduled. The lock is granted to some waiting turn, not to a
particular one; since an instance has finitely many turns weak fairness is
enough. No fairness is assumed of clients, stop and delete calls, or crashes.

`RootGraph.FairSpec` has weak fairness of `GraphStep`, the steps the runtime
takes by itself: every model and tool call has a timeout, so every node
returns. The expert loop's end comes from its call limit, not from fairness.
`queued /\ Begin` is fair because a message that abandoned a question is the
same `handle_message` call, which goes on when the closing run returns. A
suspended turn is not obliged to be answered.

`QuantRecovery.FairSpec` has weak fairness of the steps of the status request,
which runs on the event loop, and strong fairness of each customer's poll of
each job: the property is about a client that asks for `GET /api/runs/{task_id}`
again and again, which is how that route is meant to be used; a poll is not
always possible, because requests take turns. Workers, turns, expiry and
crashes are not fair: `ReadyIsDelivered` speaks only of tasks whose jobs have
ended.

## 4. Findings

Runs that TLC refutes, each against a sentence of the repository:

* **A deleted conversation comes back** (`turnhost_resurrect`).
  `delete_checkpoint_conversation` does not take the conversation's lock; a
  turn in flight writes its checkpoint, window or row after the call answered
  True. `application/advisor.py:676`: "删除指定会话的业务行、checkpoint 与记忆".
* **A stop does not reach several experts** (`root_graph_stop`). The lookup at
  `advisor.py:290` uses a `threading.local` set by the turn's thread; with more
  than one `Send` the experts run in pool threads and go on calling their
  models. `docs/architecture/orchestration-revision.md:21` and
  `tests/integration/test_root_fanout_graph.py:10` say the stop takes effect at
  the model round.
* **A stored run is not reproduced by the command line**
  (`research_stored_replay`). `save_many` stores the facts under a key of the
  manifest, the script passes `list(manifest)`, the list of its keys, so every
  conclusion is reported without evidence (`cli/replay_research_run.py:29`,
  against `domains/research/replay.py:188`).
* **The screening tool raises** (`research_screening`). `_evaluate_one` returns a
  list and a set of facts where its caller reads one conclusion
  (`domains/research/expert/screening.py:305`, 311; the module's line 11 says what it is to do).
* **An edit empties the columns it does not send** (`shelf_columns`).
  `upsert_product` assigns every column (`product_store.py:156-166`);
  `application/admin_service.py:123` says only the columns sent are overwritten. The console's own form
  does not send three of them.

Disagreements and surprises met while reading, for which no run was added:

*Host and graph*

* Turns that wait for a conversation's lock occupy threads of the shared pool,
  so one busy conversation can hold up the others; `advisor.py:83-84` says
  different conversations should not block each other. `EveryTurnEnds` still holds.
* A turn that times out in the queue is dropped, not finished and stored as
  `advisor.py:626` says of every timed-out turn.
* `request_stop` looks the run up in one lock section and marks its conversation
  in another (`advisor.py:345`): if the run ends in between and the next turn has started, the mark
  stops that one. `README.md:593` says the named run is stopped. (A mark set
  before a turn starts never reaches it: `NoStaleCancel`.)
* If the classify node raises for good, the previous turn's `run` and
  `task_results` are still in the reply's state (`supervisor.py:1192`);
  `supervisor.py:100-103` and `docs/architecture/orchestration.md:43-44` rule such a
  leak out. `FreshOutcomes` is
  therefore stated of the nodes that conclude from outcomes.
* A halt overwrites the status of a conversation or clarify turn in
  `converge_node`, whose comment says their status is kept.
* In LLM mode candidates beyond `max_domains` are cut without a degradation
  (`llm_supervisor.py:205`), unlike in legacy mode.
* A second answer replaces `rerun_answers` (`supervisor.py:927`): with the two
  questions a turn may ask by default, the second rerun of an expert no longer
  has the first answers.

*Experts*

* Limitations found by the grounding are added after the status was computed, so
  a "success" may carry them; `base.py:468-472` says otherwise.
* An empty final text falls back to an interim one, and counts as success.
* An exception drops a request for input that was already made.
* With qualified keys the value of the first domain in the form serves both.

*Compliance*

* The recheck leaves out the caller's semantic check (`compliance.py:510`, 449,
  against lines 10-11), so `UntrustedIsClean` asks for the word list, and for the
  built-in check only where a source supports some segment.
* Redaction strips newlines between segments; a rewrite that removes everything
  is delivered as an empty "rewritten" reply.

*Jobs*

* If a sibling job ends as failed, its task is never delivered: "failed" counts as
  not yet completed (`async_recovery.py:152`).
* A job's id is made of its stock alone: a second task that submits it overwrites the
  snapshot row of the first, whose result is then not told. `SnapshotKept` and
  the second half of `ToldOnce` are therefore stated of jobs of one task.
* A result that expires between the look at its status and the reading, or has nothing
  that can be merged, is dropped with its row (`async_recovery.py:157-162`, 188-189). The
  poller gets a `quant_result_unavailable` warning; the message in the conversation says
  that the indicators are complete all the same, and its status is "success" if
  another result was merged. `ToldOnce` asks for the warning.
* `request_stop` asks the gateway to revoke, and neither gateway can.

*Trading*

* A subscription may charge a cent more than asked: fee and invested amount are
  rounded separately (`fees.py:104`, against lines 96-97).
* A duplicate sale that overtakes the key look-up is answered with 409 instead of
  the first result (`service.py:624-629`, against lines 11-12). A key reused for another
  product or side is answered with the old order (`service.py:747`).
* Liquidation ignores the idempotency key its route takes
  (`api/routers/portfolio.py:172`), although `README.md:623-624` gives all
  trades one; sent again after new buys, it sells those as well.
* The NAV and the shelf are read before the lock (`service.py:513`): a trade may
  fill at a NAV that has just been replaced.
* A trade that commits between the panel's reads makes the panel not add up;
  `tests/integration/test_portfolio_service.py:620` asserts that it does, without concurrency.

*Research and market data*

* `evaluated_at` is the wall clock when no fetch time is known
  (`snapshot_builder.py:237`); `ReplayReproduces` therefore asks for one such time.
* Two calls of the evaluation tool in a turn overwrite each other's result for the
  same code; only the last is recorded.
* Two tools of one round copy the payloads of a kind and put their copies back
  (`expert/stockdata.py:75`): one payload is lost. The steps are in `Market` (`ReadBucket`,
  `WriteBucket`).
* BaoStock has one session per process: the logout of another, or an abandoned,
  thread fails a query and counts toward the breaker.
* After cooling down, a source that fails again does not open its breaker at once,
  since the count was dropped (`provider_manager.py:70` says it does).
* An answer from a lower source while the better one cools down is not marked as
  degraded, which is why `HonestPayloads` excepts skipped sources; a cached
  answer carries the time of the reading, not of the fetch.
* A table of which one host's page came back empty and the other hosts failed
  ends short without a word (`em_board.py`).

*Shelf, profile, accounts*

* Two overlapping edits lose the figures of one of them (`admin_service.py:145-155`);
  `NavLostOnlyToOverlap` says that nothing else does.
* A form answer changes the field of the card but not its confirmed facts.
* If reading the card fails, the save that follows starts from an empty card and
  replaces the stored one; the later of two turns takes back what the first wrote.
* The profile of a turn is not updated when appending to its window fails
  (`run_persistence.py:195-221`).
* A fact of the model that quotes "高风险" out of "中高风险" passes the gate and
  changes R4 to R5 (`memory.py:357-366`): the quote is in the message, so
  `OnlyStatedFacts` accepts it. "风险偏好不是高风险" reads as R5, "2024年" as a holding period.
* `users.username` is unique case-sensitively while look-ups compare `LOWER`: "Ann" and
  "ann" can both register, and a look-up takes either row.
* Checkpoint and window of a conversation whose row is gone (a clean-up that
  failed, a closing that broke off, a turn that outlived the row) are never
  found again: an exception in `ClosingLeavesNothing`.
* A turn that begins before its account is closed inserts the row of its conversation
  from its thread, possibly after the closing has listed the conversations (`auth.py:76`)
  and before the user goes (`auth.py:80`): the row goes with the user, checkpoint
  and window stay. This is the other exception.
* Changing a password leaves the sessions valid.

## 5. Theorems

The proofs hold for every value of the constants that satisfies the named
assumptions of each module (finitely many turns, a pool of at least one thread,
positive budgets, positive NAVs, finitely many jobs to a task and so on). TLC evaluates those assumptions in
every run. The theorems are in the eight modules whose names end in `_proofs`.

### TurnHost_proofs

`GuardInv` is inductive together with `TypeOK`: the registry maps a conversation
to the one lock its turns use, an entry's count is the number of its users, a
lock is held exactly by the turn inside it, and two conversations never share a
lock. Mutual exclusion by itself is not inductive: if the registry could lose
an entry while a turn still waits on it, the next turn would make a second lock.
`GuardCorrect` proves the invariant, one lemma per kind of step
(`EnterKeepsGuard`, `AcquireKeepsGuard`, `ReleaseKeepsGuard`, `LeaveKeepsGuard`,
`CrashKeepsGuard`, and `QuietKeepsGuard` for all steps that leave the guard
alone); `Exclusion` and `Reclaimed` follow, and `Refinement` shows that the host
implements `SerialConversations`.

What a turn leaves behind rests on `GuardCorrect`: inside its conversation a
turn is alone. `MarkInv` (a mark on a conversation with a run going on was made
for that run) gives `CancelsAreFresh`; `MarksAreKept` needs mutual exclusion
only, because the turns that could take the mark are outside. `AnswerPending`
says that the window ends with the message of the turn about to reply, unless a
delete emptied it meanwhile, and gives `RepliesFollow`; `EntriesInv` says that
the entries of a turn inside its conversation are the last of the transcript,
and gives `TranscriptInBlocks`. These four hold under failing writes, deletes
and crashes. `RowInv` follows the rows of a turn through its steps;
`RunRowsAreClosed` and `AbandonedAreRecorded` follow from it where no write
fails and nothing is deleted, the latter with a thread for every turn and
without a crash (`NoneCutOff`), the assumptions of the run that checks them.

`TurnsNeverBlock` is the part of the host's `EveryTurnEnds` that needs no fairness.
Some turn that is not over can always take a step: a pool that is full has a
turn that works (`FullPoolWorks`), and if all of its threads wait for a lock, the
turn that holds that lock does not (`HolderGoesOn`). And every turn only moves
forward through the places of its worker (`Ahead`), so it passes each at most once.

### RootGraph_proofs

`IInv` has six parts besides the type invariant, and one lemma for each:
`AskInv` (every question shown was counted by `converge`), `HaltInv` (until
`converge` has run, a halt an expert noted is still there to be seen),
`FreshInv` (outcomes belong to this turn and to the domains sent),
`CoverInv` (every domain sent has an outcome or is under way), `TruthInv` (what
a status claims, from `converge` to the end) and `EveryReplyIsScreened`. They
need each other: `HonestStatus` rests on `CoverInv`, because a domain that was
sent and left no outcome would not show in the statuses that `Reduce` folds,
and `AsksAreBounded` on `HaltInv`, because `converge` decides about a question
before it knows what the experts noted. `TypeCorrect`, `RepliesAreScreened`,
`StatusIsHonest`, `AsksBounded`, `OutcomesAreFresh` and `ConcludedStay` are its
consequences, for every number of domains and every budget.

`TurnsWindDown` is the part of `EveryTurnEnds` that needs no fairness: `Effort`
counts what a turn may still do - questions, expert rounds, nodes ahead, a
stop, a deadline - and is bounded by the budgets; every step of the turn lowers it, so a turn
takes at most `EffortLimit` steps.

### Portfolio_proofs

`Solvent` (types, `LockInv`, `NoOverdraft`) is inductive: between the check of
the balance and the commit the account row is locked, so the balance a call
read is still the balance. `NeverOverdrawn` and `LedgerExact` follow;
`BookedOnce` and `AnsweredRight` add what the unique index and the look-up
guarantee; `TradesAreAtomic` is the step simulation that `Portfolio` implements
`TradeBook`. The arithmetic lemmas bound the roundings for every amount, NAV
and rate.

`ProfitCountedOnce` (`BooksBalance`) and `OneStory` (`TablesAgree`) are about sums
over tables that grow. A sum is a fold, and a fold is a recursion over sets: the
lemmas show by well-founded recursion that it has a solution (`PartialSumsAt`),
and everything else about it by a smallest set on which it would fail
(`SmallestSet`): any entry may be taken first (`TakeAny`), an appended row
adds its amount (`SumAppend`), a replaced entry the difference (`SumReplaced`),
and the difference of two sums is the sum of the differences (`SumDifference`).
The invariant `Books` needs `CostlessWhenEmpty` besides the two properties: a
position sold out must have released its whole cost, which is why a full
redemption takes the cost that is left and not a rounded part of it.
`TradeBooks` is the argument for one booking, whatever it books.

`PanelAddsUp` (`UndisturbedPanelAddsUp`) says what each of the three reads of the
panel saw while no trade has committed since the first (`PanelInv`), and
then is arithmetic: the profit of the positions is the difference of the sums of
values and of costs, and `BooksBalance` relates costs to realized profit.

`NobodyIsStuck` is `SomeoneCanGoOn` without ENABLED: the holder of the row lock
can always write or refuse, since its amounts resolve (`Resolvable`), a call that
collided finds the row it collided with, and if nobody holds the lock, whoever waits may take it.
`GuardsTell` is the hypothesis left to the run.

The same module has the weights of `Allocation`, which need the same sums.
`WeightsAddUp`: a sum of quotients, each rounded to the nearest part, is off by at most
half a part for each (`PartsNear`), and each round of the projection returns a list that
adds up, or normalises one that does not (`ReclipAddsUp`, `EveryRoundAddsUp`). It
holds for any holdings, any limits, feasible or not, and any number of rounds; it
assumes that `Scale` and `Rounds` are natural numbers. `SettledTargetsKeepLimits`:
weights that are within the limits and add up are a fixed point of a round
(`ReclipSettles`), so once a round settles every target is within the limits
exactly.

### QuantRecovery_proofs

`SnapshotKept` is not inductive: to know that a delivery deletes its own rows
only, one needs what the request knows of the rows it loaded (`PollInv`: they
are of jobs its task submitted and has saved, so nobody saves them again) and what a row says (`RowInv`).
`KeptInv` says where the result of a saved job is: in its row, in the delivery
under way, told, or nowhere because the job was cancelled or its result could not be
read; of the latter a poller was warned, or the request under way is about to warn
(`Accounted`). It rests on what a broker never takes back (`Ebbs`): a result that cannot
be read will not be readable later. `OnceInv` says that a job
that was told has no row any more, and that no request under way is about to tell it
again. `QuietKeeps`, `PollKeeps` and `BreakOffKeeps` take the steps that leave
rows, messages, or both alone; saving, deleting and delivering have lemmas of
their own. `RecoveryTyped`, `SnapshotsAreKept` and `ResultsAreToldOnce` follow,
for jobs shared by any number of tasks.

`RequestsEnd` is the part of `ReadyIsDelivered` that needs no fairness: `Stage` and the
looks left (`RowsLeft`: two for each row not come to, one for a row whose status is
known) fall with each step of a status request
(`Nearer`), whatever brokers, turns and customers do meanwhile. It needs a task to have finitely many jobs
(`FiniteAssumption`).

### Profile_proofs, Accounts_proofs, Market_proofs

Each states the property of its component for the component alone;
`Reviews_proofs` carries them over to the composition that the runs check.

`CardIsStated`: that the card holds only what was said is not inductive, since
turns write back copies they read before; the invariant says it of the copies too,
of the answers a form brought and of every quote of a message (`TurnInv`). It
assumes what a message and a form are made of (`WellFormed`), and nothing of
the classifier.

`ClosedIsGone`: ids are given out once, a closed id has no row and gets none
(`RowInv`), what it lost stays lost (`GoneInv`), the handler under way has every
conversation of its account on its list, or it came late (`ClosingInv`), and a checkpoint or
window without a row was left beside (`KeptInv`).

`BreakersOpenOnFailures`: the failures a breaker counts are errors in a row, up to the
threshold (`BreakerInv`); an abandoned call never changes the counts, because
its outcome is not judged a second time. `PayloadsAreHonest`: every configured source
before the one a call is at has failed, lacks such a request or was left out
(`Going`); what was published about an answered call is what that call did
(`CallInv`), because only its own thread publishes there; what a tool took over is that
(`ToolInv`), and a payload copied back and forth between sink and bucket does not change
(`Honest`). It assumes nothing of the sources, not even that their order has no repetition.

### Reviews_proofs

`MCReviews` instantiates ten modules. A step of it is a step of its subject
(`StepOfSubject`), so `subject = "x" => Inv` is an invariant of the suite when
`Inv` is one of the module; the four theorems called `Suite...` carry those of
the three modules above over in this way. What a theorem needs to know of the
inputs is a named assumption of `MCReviews` (`FlatAssumption`,
`DraftsAssumption`, `ResearchAssumption` and so on), which says of which kind
they are and nothing of their number: NAVs are positive, a draft is a sequence of
sequences of tokens, a day is an integer, a message is made of phrases.

`NoRoundTripPays` (`FlatInv`): received less paid, plus the value of what is still
held, is at most half a cent per order. The bound on what was received alone would not
be inductive, because a sale pays what an earlier purchase put aside.

`NavIsLostToOverlapOnly` (`ShelfInv`): the property is about a step, and only an
append touches the newest rows; what it writes is what it read with what was
sent, so a NAV can only get lost if it came in between.

`NoOutageIsNotFound` (`BoardInv`): a lost page leaves a table without rows, a table
without rows is listed as unavailable, and the answer "nothing matches" is given
only where that list is empty or the answer is called degraded.

`ExpertsAreAsGoodAsTheirWord` (`ExpertInv`): until a run is over, every mishap is among the
limits it will state (`RunInv`); the form shown has the fields of every
domain that asks (`FormInv`), so an answer given under the bare name of a
field reaches every domain that registered it (`Reached`, `BareAnswersReach`).

`ReplayGivesTheRun` and `ConclusionsRestOnGoodData` (`KernelInv`): results and
facts come from one evaluation (`Evaluated`). What is built depends on the data,
the moment and the kind of the moment only (`BuildIsBuiltAt`), and the moment of
the evaluation is the latest one the facts carry, so the replay builds the same facts
(`RebuildsTheSame`) and finds no difference (`NothingDiffers`). For the second, `GatesAreOpen` and
`OpenGatesMean` say which data pass the gates, `OneMoreDay` and `OnePeriod` what the
dates among them are.

`NoSensitiveWordLeaves` and `RewriteDropsNoFact` (`ExitInv`): what was rewritten keeps
the numbers of what it replaces, was checked once more, and is what is sent. That
a supported segment stands in the answer word for word goes through each operator
on the way: flattening (`Joined`, `PartsStand`), removal of words (`Kept`,
`StripKeeps`), the disclaimer (`DisclaimerKeeps`) and the trimming of space
(`StrippedStands`). Flattening and removal are folds; `JoinedAt` and `KeptAt`
show that their recursions have solutions, as for the sums above.

### Only model-checked

Liveness needs ENABLED and fairness: `EveryTurnEnds` of the host and of the graph, and
`ReadyIsDelivered`. What is proved of each is its safety half, that progress is
possible and cannot go on for ever (`TurnsNeverBlock`, `TurnsWindDown`, `RequestsEnd`); that the
steps are taken is for the runs. `GuardsTell`, the other half of `SomeoneCanGoOn`,
speaks of what is enabled.

`KeepsLimits` has two parts. That the weights add up is `WeightsAddUp`. That they are within the
limits is proved from the round that settles (`SettledTargetsKeepLimits`); that
some round does is checked for the holdings enumerated: it would be an
induction over data, and nothing in the code guarantees it for every input within its
100 iterations, which its docstring calls an approximate projection.

## 6. What is not modelled

*Text:* routing by keywords and models, slot parsing, name matching, rendering,
prompts, the reading of a model's message. Their results are choices.

*Numbers in floating point:* the technical series (`technical.py`), similarity
scores of the FAQ, weighted return, drawdown, Sharpe and diversification ratio
of the allocation.

*Parts without behaviour of their own:* configuration, construction of clients,
wiring, the frontend (the user is an environment that may send, stop, answer,
delete at any time), one-shot scripts except the two named above, migrations,
the suitability rules and the resolving of product names (pure look-ups).

*FAQ:* a new index is inserted and published in one transaction; what is left is
a nearest-neighbour search.

*The inside of Postgres, Redis, LangGraph and Celery:* what the code relies on (a
transaction is atomic, a row lock excludes, a list append is atomic, a superstep
writes when it ends) is built into the actions that use it. `async` handlers are
one step between two awaits.

## 7. Plan

Done, in order of what the system stands or falls with: `TurnHost`, `Portfolio`
with `Fees`, `RootGraph` and their theorems; `QuantRecovery` and its theorems;
`Compliance`, `Allocation`, `Research`; `Vendors`, `Market`, `Boards`; `Shelf`,
`Profile`, `Experts`, `Accounts`.

What would come next:

1. The refinement of an abstract profile card (a register per field that only
   the user's words write), and of the market gateway.
2. Bounds on the distance that `Rounds` iterations of the projection leave to the
   limits, in place of the hypothesis of `SettledTargetsKeepLimits` that a round settles.
3. The FAQ index beside its readers, and the suitability rules of products.
