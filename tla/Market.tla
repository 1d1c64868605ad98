------------------------------- MODULE Market -------------------------------
(***************************************************************************)
(* Market data under concurrent tool calls: the provider manager with its  *)
(* circuit breakers and call timeout (provider_manager.py), the one        *)
(* BaoStock session of the process, the quote cache, and the stock tools   *)
(* that put their payloads into the sink of the expert (stockdata.py).     *)
(*                                                                         *)
(* Each thread runs one tool; an adapter runs in a daemon thread, which a  *)
(* timeout abandons but does not end.                                      *)
(***************************************************************************)
EXTENDS Integers, Sequences, FiniteSets, Vendors

CONSTANTS Threads,        \* the threads tools run in
          ToolRounds,     \* the tool calls of a round, one per thread: tool, code, kind of code
          Order,          \* DATA_PROVIDER_ORDER
          Configurations, \* sets of sources that were enabled and could be built
          Threshold,      \* DATA_PROVIDER_FAILURE_THRESHOLD, 0 for no breaker
          NoSource

VARIABLES configured,     \* the sources the manager was built with
          tool,           \* what each thread's tool does
          call,           \* the manager call it waits for
          job, late,      \* the daemon thread of that call, and the abandoned one
          failures,       \* _consecutive_failures
          breaker,        \* _open_until: closed, cooling, cooled
          session,        \* whether BaoStock is logged in
          cache,          \* requests answered from the quote cache
          meta,           \* last_metadata, one per thread
          sink,           \* structured data of the expert
          streak          \* errors of a source since it last answered

marketVars == <<configured, tool, call, job, late, failures, breaker, session, cache, meta, sink, streak>>

Sources == {Order[i] : i \in DOMAIN Order}

\* The first request of a tool, and the second one of a quote.
First(t) ==
    LET c == tool[t].asked
    IN [method |-> CASE c.kind \in {"quote", "history"} -> "daily" [] OTHER -> c.kind,
        of |-> c.of,
        adjustment |-> IF c.kind = "history" THEN "forward" ELSE "raw"]

Valuation(t) == [method |-> "valuation", of |-> tool[t].asked.of, adjustment |-> "raw"]

NoJob == [step |-> "none", source |-> NoSource, request |-> <<>>, code |-> <<>>, outcome |-> "none"]

NewCall(request) == [at |-> "choosing", request |-> request, i |-> 1, failed |-> {},
                     gaps |-> {}, skipped |-> {}, from |-> NoSource]

NoMeta == [source |-> NoSource, degraded |-> FALSE]

Init ==
    /\ configured \in Configurations
    /\ \E asked \in ToolRounds :
         tool = [t \in Threads |-> [asked |-> asked[t], at |-> "asking", answer |-> <<>>,
                                    named |-> NoMeta, bucket |-> {}]]
    /\ call = [t \in Threads |-> NewCall(First(t))]
    /\ job = [t \in Threads |-> NoJob] /\ late = NoJob
    /\ failures = [s \in Sources |-> 0]
    /\ breaker = [s \in Sources |-> "closed"]
    /\ session = FALSE
    /\ cache = {}
    /\ meta = [t \in Threads |-> NoMeta]
    /\ sink = {}
    /\ streak = [s \in Sources |-> 0]

-----------------------------------------------------------------------------
(* The manager: one call tries the sources in order. *)

Choosing(t) == call[t].at = "choosing"
Current(t) == Order[call[t].i]

Onward(c) == [c EXCEPT !.i = @ + 1, !.at = "choosing"]

\* The call of t after it left out s, found that s has no such request, or failed with it.
LeftOut(t, s) == Onward([call[t] EXCEPT !.skipped = @ \cup {s}])
Missing(t, s) == Onward([call[t] EXCEPT !.gaps = @ \cup {s}])
FailedWith(t, s) == Onward([call[t] EXCEPT !.failed = @ \cup {s}])

SkipUnavailable(t) ==
    /\ Choosing(t) /\ call[t].i <= Len(Order) /\ Current(t) \notin configured
    /\ call' = [call EXCEPT ![t] = Onward(@)]
    /\ UNCHANGED <<configured, tool, job, late, failures, breaker, session, cache, meta, sink, streak>>

SkipOpen(t) ==
    /\ Choosing(t) /\ call[t].i <= Len(Order) /\ Current(t) \in configured
    /\ breaker[Current(t)] = "cooling"
    /\ call' = [call EXCEPT ![t] = LeftOut(t, Current(t))]
    /\ UNCHANGED <<configured, tool, job, late, failures, breaker, session, cache, meta, sink, streak>>

\* A breaker whose time is over is closed and its count dropped.
TryNext(t) ==
    /\ Choosing(t) /\ call[t].i <= Len(Order) /\ Current(t) \in configured
    /\ breaker[Current(t)] # "cooling"
    /\ IF breaker[Current(t)] = "cooled"
         THEN /\ breaker' = [breaker EXCEPT ![Current(t)] = "closed"]
              /\ failures' = [failures EXCEPT ![Current(t)] = 0]
         ELSE UNCHANGED <<breaker, failures>>
    /\ job' = [job EXCEPT ![t] = [step |-> "started", source |-> Current(t),
                                  request |-> call[t].request, code |-> tool[t].asked.code,
                                  outcome |-> "none"]]
    /\ call' = [call EXCEPT ![t].at = "waiting"]
    /\ UNCHANGED <<configured, tool, late, session, cache, meta, sink, streak>>

RecordFailure(s) ==
    /\ failures' = [failures EXCEPT ![s] = @ + 1]
    /\ breaker' = IF Threshold > 0 /\ failures[s] + 1 >= Threshold
                    THEN [breaker EXCEPT ![s] = "cooling"] ELSE breaker
    /\ streak' = [streak EXCEPT ![s] = IF @ < Threshold THEN @ + 1 ELSE @]

RecordSuccess(s) ==
    /\ failures' = [failures EXCEPT ![s] = 0]
    /\ breaker' = [breaker EXCEPT ![s] = "closed"]
    /\ streak' = [streak EXCEPT ![s] = 0]

JudgeEmptyAsFault(s, outcome) ==                                     \* mutant
    CASE outcome = "raises" -> RecordFailure(s)
      [] outcome = "empty" -> /\ failures' = [failures EXCEPT ![s] = @ + 1]
                              /\ breaker' = IF failures[s] + 1 >= Threshold
                                              THEN [breaker EXCEPT ![s] = "cooling"]
                                              ELSE breaker
                              /\ UNCHANGED streak
      [] outcome = "rows" -> RecordSuccess(s)
      [] OTHER -> UNCHANGED <<failures, breaker, streak>>

\* The breaker's state after a result: a gap and an empty answer are no fault.
Judge(s, outcome) ==
    CASE outcome = "raises" -> RecordFailure(s)
      [] outcome = "rows" -> RecordSuccess(s)
      [] OTHER -> UNCHANGED <<failures, breaker, streak>>

PublishForAll(t, m) == meta' = [u \in Threads |-> m]                 \* mutant

\* last_metadata belongs to the calling thread.
Publish(t, m) == meta' = [meta EXCEPT ![t] = m]

Collect(t) ==
    LET s == job[t].source  outcome == job[t].outcome
    IN /\ call[t].at = "waiting" /\ job[t].step = "finished"
       /\ job' = [job EXCEPT ![t] = NoJob]
       /\ Judge(s, outcome)
       /\ call' = [call EXCEPT ![t] =
                     CASE outcome = "unsupported" -> Missing(t, s)
                       [] outcome \in {"raises", "empty"} -> FailedWith(t, s)
                       [] OTHER -> [@ EXCEPT !.at = "answered", !.from = s]]
       /\ IF outcome = "rows"
            THEN Publish(t, [source |-> s, degraded |-> call[t].failed # {}])
            ELSE UNCHANGED meta
       /\ UNCHANGED <<configured, tool, late, session, cache, sink>>

\* The wait is over; the daemon thread goes on and its answer is dropped.
Timeout(t) ==
    LET s == job[t].source
    IN /\ call[t].at = "waiting" /\ job[t].step # "finished"
       /\ late = NoJob                        \* bound: one abandoned thread at a time
       /\ late' = job[t]
       /\ job' = [job EXCEPT ![t] = NoJob]
       /\ RecordFailure(s)
       /\ call' = [call EXCEPT ![t] = FailedWith(t, s)]
       /\ UNCHANGED <<configured, tool, session, cache, meta, sink>>

GiveUp(t) ==
    /\ Choosing(t) /\ call[t].i > Len(Order)
    /\ Publish(t, [source |-> NoSource, degraded |-> call[t].failed # {}])
    /\ call' = [call EXCEPT ![t].at = "refused"]
    /\ UNCHANGED <<configured, tool, job, late, failures, breaker, session, cache, sink, streak>>

\* The monotonic clock passes the end of a cooldown.
CoolDown(s) ==
    /\ breaker[s] = "cooling"
    /\ breaker' = [breaker EXCEPT ![s] = "cooled"]
    /\ UNCHANGED <<configured, tool, call, job, late, failures, session, cache, meta, sink, streak>>

-----------------------------------------------------------------------------
(* The adapters, in daemon threads: j is a thread's current or late job. *)

Key(j) == <<j.source, j.request, j.code>>

Finished(j, outcome) == [j EXCEPT !.step = "finished", !.outcome = outcome]

\* Only an answer with rows is stored.
Stored(j, outcome) ==
    IF outcome = "rows" /\ Caches(j.source, j.request) THEN cache \cup {Key(j)} ELSE cache

\* What a step of an adapter's thread leaves: the job, the session and the cache.
Result(j, loggedIn, stored) == [job |-> j, session |-> loggedIn, cache |-> stored]

Ends(j, outcome) == Result(Finished(j, outcome), session, Stored(j, outcome))

\* Whether the cache may answer: an entry may be older than its time to live.
MayHit(j) == IF Key(j) \in cache THEN {TRUE, FALSE} ELSE {FALSE}

AsksVendor(j) ==
    {Ends(j, Ask(j.source, j.request, v, cached)) :
       v \in VendorStates(j.source, j.request.method), cached \in MayHit(j)}

LogsIn(j) ==
    IF BaostockRefuses(j.request) THEN {Ends(j, "unsupported")}
    ELSE {Ends(j, "rows") : hit \in MayHit(j) \cap {TRUE}}
         \cup {Ends(j, "raises"), Result([j EXCEPT !.step = "loggedIn"], TRUE, cache)}

\* A query fails when another thread has logged the process out.
Queries(j) ==
    {Result([j EXCEPT !.step = "queried", !.outcome = BaostockAnswer(j.request, answer)],
            session, cache) :
       answer \in IF session THEN {"rows", "none", "fails"} ELSE {"fails"}}

LogsOut(j) == {Result(Finished(j, j.outcome), FALSE, Stored(j, j.outcome))}

Results(j) ==
    CASE j.step = "started" /\ j.source # "baostock" -> AsksVendor(j)
      [] j.step = "started" /\ j.source = "baostock" -> LogsIn(j)
      [] j.step = "loggedIn" -> Queries(j)
      [] j.step = "queried" -> LogsOut(j)
      [] OTHER -> {}

Adapter(t) ==
    \E w \in Results(job[t]) :
       /\ job' = [job EXCEPT ![t] = w.job]
       /\ session' = w.session
       /\ cache' = w.cache
       /\ UNCHANGED <<configured, tool, call, late, failures, breaker, meta, sink, streak>>

LateAdapter ==
    \E w \in Results(late) :
       /\ late' = IF w.job.step = "finished" THEN NoJob ELSE w.job
       /\ session' = w.session
       /\ cache' = w.cache
       /\ UNCHANGED <<configured, tool, call, job, failures, breaker, meta, sink, streak>>

-----------------------------------------------------------------------------
(* The stock tools. *)

ToolRaises(t) ==
    /\ tool[t].at = "asking" /\ call[t].at = "refused"
    /\ tool' = [tool EXCEPT ![t].at = "raised"]
    /\ UNCHANGED <<configured, call, job, late, failures, breaker, session, cache, meta, sink, streak>>

\* The source is read right after the rows; a quote then asks for valuations.
NameSource(t) ==
    /\ tool[t].at = "asking" /\ call[t].at = "answered"
    /\ IF tool[t].asked.kind = "quote"
         THEN /\ tool' = [tool EXCEPT ![t] = [@ EXCEPT !.at = "valuing", !.answer = call[t],
                                                       !.named = meta[t]]]
              /\ call' = [call EXCEPT ![t] = NewCall(Valuation(t))]
         ELSE /\ tool' = [tool EXCEPT ![t] = [@ EXCEPT !.at = "named", !.answer = call[t],
                                                       !.named = meta[t]]]
              /\ UNCHANGED call
    /\ UNCHANGED <<configured, job, late, failures, breaker, session, cache, meta, sink, streak>>

\* A quote without valuations is still a quote.
Valued(t) ==
    /\ tool[t].at = "valuing" /\ call[t].at \in {"answered", "refused"}
    /\ tool' = [tool EXCEPT ![t].at = "named"]
    /\ UNCHANGED <<configured, call, job, late, failures, breaker, session, cache, meta, sink, streak>>

Payload(t) == [kind |-> tool[t].asked.kind, code |-> tool[t].asked.code,
               named |-> tool[t].named, answer |-> tool[t].answer]

\* _record_code copies the payloads of its kind, adds its own, puts them back.
ReadBucket(t) ==
    /\ tool[t].at = "named"
    /\ tool' = [tool EXCEPT ![t] = [@ EXCEPT !.at = "copied",
                   !.bucket = {p \in sink : p.kind = tool[t].asked.kind}]]
    /\ UNCHANGED <<configured, call, job, late, failures, breaker, session, cache, meta, sink, streak>>

WriteBucket(t) ==
    LET mine == Payload(t)
    IN /\ tool[t].at = "copied"
       /\ sink' = {p \in sink : p.kind # mine.kind}
                  \cup {p \in tool[t].bucket : p.code # mine.code} \cup {mine}
       /\ tool' = [tool EXCEPT ![t].at = "kept"]
       /\ UNCHANGED <<configured, call, job, late, failures, breaker, session, cache, meta, streak>>

-----------------------------------------------------------------------------

Step(t) ==
    \/ SkipUnavailable(t) \/ SkipOpen(t) \/ TryNext(t) \/ Collect(t) \/ Timeout(t) \/ GiveUp(t)
    \/ Adapter(t)
    \/ ToolRaises(t) \/ NameSource(t) \/ Valued(t) \/ ReadBucket(t) \/ WriteBucket(t)

Next == LateAdapter \/ (\E t \in Threads : Step(t)) \/ (\E s \in Sources : CoolDown(s))

Spec == Init /\ [][Next]_marketVars

-----------------------------------------------------------------------------

\* Sources configured before the one that answered call c.
Before(c) == {Order[i] : i \in {n \in 1 .. c.i - 1 : Order[n] \in configured}}

\* A payload names the source its rows came from, however many threads read
\* at once, and is called undegraded only when every better source cannot
\* serve such a request or was left out by its breaker (stockdata.py:88).
HonestPayloads ==
    \A p \in sink :
       /\ p.named.source = p.answer.from
       /\ ~p.named.degraded => Before(p.answer) \subseteq p.answer.gaps \cup p.answer.skipped

\* A source is left out only after Threshold errors with no answer in between:
\* neither a missing capability nor an empty answer, a success of another
\* thread or an abandoned one shortens that (provider_manager.py:178-189).
OpensOnFailuresOnly == \A s \in Sources : breaker[s] = "cooling" => streak[s] >= Threshold

=============================================================================
