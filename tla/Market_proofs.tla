---------------------------- MODULE Market_proofs ----------------------------
(***************************************************************************)
(* The circuit breakers and the provenance of market data, for any order   *)
(* and set of sources, any number of threads and any threshold, whatever   *)
(* the vendors answer.                                                     *)
(***************************************************************************)
EXTENDS Market, TLAPS

\* Order lists names of sources.
Sizes(SourceNames) == Order \in Seq(SourceNames) /\ Threshold \in Nat

-----------------------------------------------------------------------------
(* Circuit breakers.                                                       *)

\* The failures a breaker counts are errors in a row, as far as those are counted.
BreakerInv ==
    /\ failures \in [Sources -> Nat] /\ streak \in [Sources -> Nat]
    /\ breaker \in [Sources -> {"closed", "cooling", "cooled"}]
    /\ \A s \in Sources : failures[s] <= streak[s] \/ streak[s] >= Threshold
    /\ OpensOnFailuresOnly

LEMMA FailureCounted ==
    ASSUME Threshold \in Nat, BreakerInv, NEW s, RecordFailure(s)
    PROVE  BreakerInv'
<1>1. CASE s \in Sources
  <2>1. PICK n \in Nat, k \in Nat : n = failures[s] /\ k = streak[s]
    BY <1>1 DEF BreakerInv
  <2>2. /\ n <= k \/ k >= Threshold
        /\ breaker[s] = "cooling" => k >= Threshold
    BY <1>1, <2>1 DEF BreakerInv, OpensOnFailuresOnly
  <2>3. /\ failures' = [failures EXCEPT ![s] = n + 1]
        /\ streak' = [streak EXCEPT ![s] = IF k < Threshold THEN k + 1 ELSE k]
        /\ breaker' = IF Threshold > 0 /\ n + 1 >= Threshold
                      THEN [breaker EXCEPT ![s] = "cooling"] ELSE breaker
    BY <1>1, <2>1 DEF RecordFailure, BreakerInv
  <2>4. /\ failures' \in [Sources -> Nat] /\ streak' \in [Sources -> Nat]
        /\ breaker' \in [Sources -> {"closed", "cooling", "cooled"}]
    <3>1. n + 1 \in Nat /\ (IF k < Threshold THEN k + 1 ELSE k) \in Nat
      OBVIOUS
    <3>2. failures' \in [Sources -> Nat]
      BY <2>3, <3>1 DEF BreakerInv
    <3>3. streak' \in [Sources -> Nat]
      BY <2>3, <3>1 DEF BreakerInv
    <3>4. breaker' \in [Sources -> {"closed", "cooling", "cooled"}]
      BY <2>3 DEF BreakerInv
    <3>. QED BY <3>2, <3>3, <3>4
  <2>5. /\ failures'[s] = n + 1
        /\ streak'[s] = IF k < Threshold THEN k + 1 ELSE k
        /\ \A u \in Sources \ {s} : /\ failures'[u] = failures[u] /\ streak'[u] = streak[u]
                                    /\ breaker'[u] = breaker[u]
    BY <1>1, <2>3 DEF BreakerInv
  <2>6. breaker'[s] = "cooling" => n + 1 >= Threshold \/ k >= Threshold
    BY <1>1, <2>2, <2>3 DEF BreakerInv
  <2>7. failures'[s] <= streak'[s] \/ streak'[s] >= Threshold
    BY <2>2, <2>5
  <2>8. breaker'[s] = "cooling" => streak'[s] >= Threshold
    BY <2>2, <2>5, <2>6
  <2>. QED BY <2>4, <2>5, <2>7, <2>8 DEF BreakerInv, OpensOnFailuresOnly
<1>2. CASE s \notin Sources
  <2>1. UNCHANGED <<failures, streak, breaker>>
    BY <1>2 DEF RecordFailure, BreakerInv
  <2>. QED BY <2>1 DEF BreakerInv, OpensOnFailuresOnly
<1>. QED BY <1>1, <1>2

LEMMA SuccessCounted ==
    ASSUME Threshold \in Nat, BreakerInv, NEW s, RecordSuccess(s)
    PROVE  BreakerInv'
<1>1. /\ failures' = [failures EXCEPT ![s] = 0] /\ streak' = [streak EXCEPT ![s] = 0]
      /\ breaker' = [breaker EXCEPT ![s] = "closed"]
  BY DEF RecordSuccess
<1>2. failures' \in [Sources -> Nat] /\ streak' \in [Sources -> Nat]
  BY <1>1 DEF BreakerInv
<1>3. breaker' \in [Sources -> {"closed", "cooling", "cooled"}]
  BY <1>1 DEF BreakerInv
<1>4. \A u \in Sources :
         \/ /\ failures'[u] = failures[u] /\ streak'[u] = streak[u] /\ breaker'[u] = breaker[u]
         \/ failures'[u] = 0 /\ streak'[u] = 0 /\ breaker'[u] = "closed"
  BY <1>1 DEF BreakerInv
<1>. QED BY <1>2, <1>3, <1>4 DEF BreakerInv, OpensOnFailuresOnly

LEMMA StepBreakers ==
    ASSUME Threshold \in Nat, BreakerInv, [Next]_marketVars
    PROVE  BreakerInv'
<1>1. ASSUME UNCHANGED <<failures, streak, breaker>> PROVE BreakerInv'
  BY <1>1 DEF BreakerInv, OpensOnFailuresOnly
<1>2. ASSUME NEW t \in Threads, TryNext(t) PROVE BreakerInv'
  <2>1. \/ UNCHANGED <<failures, breaker>>
        \/ \E s : /\ breaker' = [breaker EXCEPT ![s] = "closed"]
                  /\ failures' = [failures EXCEPT ![s] = 0]
    BY <1>2 DEF TryNext
  <2>2. streak' = streak
    BY <1>2 DEF TryNext
  <2>3. ASSUME NEW s, breaker' = [breaker EXCEPT ![s] = "closed"],
               failures' = [failures EXCEPT ![s] = 0]
        PROVE  BreakerInv'
    <3>1. failures' \in [Sources -> Nat]
      BY <2>3 DEF BreakerInv
    <3>2. breaker' \in [Sources -> {"closed", "cooling", "cooled"}]
      BY <2>3 DEF BreakerInv
    <3>3. \A u \in Sources : /\ failures'[u] = failures[u] \/ failures'[u] = 0
                             /\ breaker'[u] = breaker[u] \/ breaker'[u] = "closed"
      BY <2>3 DEF BreakerInv
    <3>. QED BY <2>2, <3>1, <3>2, <3>3 DEF BreakerInv, OpensOnFailuresOnly
  <2>. QED BY <1>1, <2>1, <2>2, <2>3
<1>3. ASSUME NEW t \in Threads, Collect(t) PROVE BreakerInv'
  <2>1. Judge(job[t].source, job[t].outcome)
    BY <1>3 DEF Collect
  <2>. QED BY <1>1, <2>1, FailureCounted, SuccessCounted DEF Judge
<1>4. ASSUME NEW t \in Threads, Timeout(t) PROVE BreakerInv'
  BY <1>4, FailureCounted DEF Timeout
<1>5. ASSUME NEW s \in Sources, CoolDown(s) PROVE BreakerInv'
  BY <1>5 DEF CoolDown, BreakerInv, OpensOnFailuresOnly
<1>6. ASSUME NEW t \in Threads,
             \/ SkipUnavailable(t) \/ SkipOpen(t) \/ GiveUp(t) \/ Adapter(t) \/ ToolRaises(t)
             \/ NameSource(t) \/ Valued(t) \/ ReadBucket(t) \/ WriteBucket(t)
      PROVE  BreakerInv'
  BY <1>1, <1>6 DEF SkipUnavailable, SkipOpen, GiveUp, Adapter, ToolRaises, NameSource, Valued,
                    ReadBucket, WriteBucket
<1>7. CASE LateAdapter \/ UNCHANGED marketVars
  BY <1>1, <1>7 DEF LateAdapter, marketVars
<1>. QED BY <1>2, <1>3, <1>4, <1>5, <1>6, <1>7 DEF Next, Step

\* A breaker opens on Threshold errors of its source in a row and on nothing else,
\* however threads, timeouts and abandoned calls interleave.
THEOREM BreakersOpenOnFailures ==
    ASSUME Threshold \in Nat
    PROVE  Spec => []OpensOnFailuresOnly
<1>1. Init => BreakerInv
  BY DEF Init, BreakerInv, OpensOnFailuresOnly
<1>2. BreakerInv /\ [Next]_marketVars => BreakerInv'
  BY StepBreakers
<1>3. BreakerInv => OpensOnFailuresOnly
  BY DEF BreakerInv
<1>. QED BY <1>1, <1>2, <1>3, PTL DEF Spec

-----------------------------------------------------------------------------
(* What an adapter answers.                                                *)

Outcomes == {"rows", "empty", "raises", "unsupported"}

\* A job is a record, and one that was asked has one of the four outcomes.
IsJob(j) ==
    /\ j \in [step : {j.step}, source : {j.source}, request : {j.request}, code : {j.code},
              outcome : {j.outcome}]
    /\ j.step \in {"queried", "finished"} => j.outcome \in Outcomes

LEMMA AskedAnswers ==
    ASSUME NEW s, NEW r, NEW v, NEW cached
    PROVE  Ask(s, r, v, cached) \in Outcomes /\ \A a : BaostockAnswer(r, a) \in Outcomes
<1>. USE DEF Outcomes, Delivered, Insist, Cached
<1>1. Akshare(r, v, cached) \in Outcomes
  BY DEF Akshare, AkshareDaily, AkshareBasic, AkshareValuation, AkshareFinancial, AkshareIncome,
         AkshareIndex, AkshareSnapshot, AkshareNews
<1>2. Fuyao(r, v) \in Outcomes
  BY DEF Fuyao, FuyaoDaily, FuyaoValuation, FuyaoFinancial, FuyaoIncome, FuyaoCalendar, FuyaoIndex,
         FuyaoCall
<1>3. \A a : BaostockAnswer(r, a) \in Outcomes
  BY DEF BaostockAnswer
<1>. QED BY <1>1, <1>2, <1>3 DEF Ask

\* An adapter goes on with the job it was given.
LEMMA ResultsKeepJob ==
    ASSUME NEW j, IsJob(j), NEW w \in Results(j)
    PROVE  IsJob(w.job) /\ w.job.source = j.source
<1>1. \A o \in Outcomes : /\ IsJob(Finished(j, o)) /\ Finished(j, o).source = j.source
  <2>1. SUFFICES ASSUME NEW o \in Outcomes, NEW k, k = Finished(j, o)
                 PROVE  IsJob(k) /\ k.source = j.source
    OBVIOUS
  <2>. QED BY <2>1 DEF IsJob, Finished
<1>2. CASE j.step = "started" /\ j.source # "baostock"
  <2>1. w \in AsksVendor(j)
    BY <1>2 DEF Results
  <2>2. PICK v, cached : w = Ends(j, Ask(j.source, j.request, v, cached))
    BY <2>1 DEF AsksVendor
  <2>3. w.job = Finished(j, Ask(j.source, j.request, v, cached))
    BY <2>2 DEF Ends, Result
  <2>. QED BY <1>1, <2>3, AskedAnswers
<1>3. CASE j.step = "started" /\ j.source = "baostock"
  <2>1. w \in LogsIn(j)
    BY <1>3 DEF Results
  <2>2. \/ \E o \in {"rows", "raises", "unsupported"} : w = Ends(j, o)
        \/ w = Result([j EXCEPT !.step = "loggedIn"], TRUE, cache)
    BY <2>1 DEF LogsIn
  <2>3. ASSUME NEW o \in {"rows", "raises", "unsupported"}, w = Ends(j, o)
        PROVE  IsJob(w.job) /\ w.job.source = j.source
    <3>1. o \in Outcomes /\ w.job = Finished(j, o)
      BY <2>3 DEF Ends, Result, Outcomes
    <3>. QED BY <3>1, <1>1
  <2>4. ASSUME NEW k, k = [j EXCEPT !.step = "loggedIn"] PROVE IsJob(k) /\ k.source = j.source
    BY <2>4 DEF IsJob
  <2>5. CASE w = Result([j EXCEPT !.step = "loggedIn"], TRUE, cache)
    <3>1. w.job = [j EXCEPT !.step = "loggedIn"]
      BY <2>5 DEF Result
    <3>. QED BY <3>1, <2>4
  <2>. QED BY <2>2, <2>3, <2>5
<1>4. CASE j.step = "loggedIn"
  <2>1. w \in Queries(j)
    BY <1>4 DEF Results
  <2> DEFINE Queried(a) == [j EXCEPT !.step = "queried", !.outcome = BaostockAnswer(j.request, a)]
  <2>2. Queries(j) = {Result(Queried(a), session, cache) :
                        a \in IF session THEN {"rows", "none", "fails"} ELSE {"fails"}}
    BY DEF Queries
  <2>3. PICK a : w.job = Queried(a)
    <3> HIDE DEF Queried
    <3>1. PICK a : w = Result(Queried(a), session, cache)
      BY <2>1, <2>2, Zenon
    <3>. QED BY <3>1 DEF Result
  <2>4. PICK o \in Outcomes : o = BaostockAnswer(j.request, a)
    BY AskedAnswers
  <2>5. ASSUME NEW k, k = [j EXCEPT !.step = "queried", !.outcome = o]
        PROVE  IsJob(k) /\ k.source = j.source
    BY <2>5 DEF IsJob
  <2>. QED BY <2>3, <2>4, <2>5
<1>5. CASE j.step = "queried"
  <2>1. w \in LogsOut(j)
    BY <1>5 DEF Results
  <2>2. w.job = Finished(j, j.outcome) /\ j.outcome \in Outcomes
    BY <1>5, <2>1 DEF LogsOut, Result, IsJob
  <2>. QED BY <1>1, <2>2
<1>6. CASE j.step \notin {"started", "loggedIn", "queried"}
  BY <1>6 DEF Results
<1>. QED BY <1>2, <1>3, <1>4, <1>5, <1>6

-----------------------------------------------------------------------------
(* Calls of the manager.                                                   *)

IsCall(c) ==
    /\ c \in [at : {"choosing", "waiting", "answered", "refused"}, request : {c.request}, i : Nat,
              failed : {c.failed}, gaps : {c.gaps}, skipped : {c.skipped}, from : {c.from}]
    /\ c.i >= 1

\* Every source of S that came before is accounted for: it failed, cannot serve
\* such a request, or was left out by its breaker.
Accounted(c, S) ==
    {Order[k] : k \in {n \in 1 .. c.i - 1 : Order[n] \in S}} \subseteq c.failed \cup c.gaps \cup c.skipped

Going(c, S) == IsCall(c) /\ Accounted(c, S)

Tries(c, S) == Going(c, S) /\ c.at = "choosing"

\* A source that was passed over is accounted for.
LEMMA PassedOver ==
    ASSUME NEW S, NEW c, NEW d, Going(c, S), IsCall(d), d.i = c.i + 1,
           c.failed \subseteq d.failed, c.gaps \subseteq d.gaps, c.skipped \subseteq d.skipped,
           Order[c.i] \in S => Order[c.i] \in d.failed \cup d.gaps \cup d.skipped
    PROVE  Going(d, S)
<1>1. \A n \in 1 .. d.i - 1 : n \in 1 .. c.i - 1 \/ n = c.i
  BY DEF IsCall, Going
<1>2. ASSUME NEW n \in 1 .. d.i - 1, Order[n] \in S
      PROVE  Order[n] \in d.failed \cup d.gaps \cup d.skipped
  <2>1. CASE n \in 1 .. c.i - 1
    <3>1. Order[n] \in c.failed \cup c.gaps \cup c.skipped
      BY <1>2, <2>1 DEF Going, Accounted
    <3>. QED BY <3>1
  <2>. QED BY <1>1, <1>2, <2>1
<1>. QED BY <1>2 DEF Going, Accounted

\* The four ways on to the next source: it is not configured, its breaker is open,
\* it has no such request, it failed.
LEMMA OnwardGoes ==
    ASSUME NEW S, NEW c, Going(c, S)
    PROVE  /\ Order[c.i] \notin S => Tries(Onward(c), S)
           /\ Tries(Onward([c EXCEPT !.skipped = @ \cup {Order[c.i]}]), S)
           /\ Tries(Onward([c EXCEPT !.gaps = @ \cup {Order[c.i]}]), S)
           /\ Tries(Onward([c EXCEPT !.failed = @ \cup {Order[c.i]}]), S)
<1>1. ASSUME NEW b, IsCall(b), NEW d, d = Onward(b)
      PROVE  /\ IsCall(d) /\ d.i = b.i + 1 /\ d.at = "choosing" /\ d.failed = b.failed
             /\ d.gaps = b.gaps /\ d.skipped = b.skipped
  <2>1. PICK n \in Nat : n = b.i /\ n >= 1
    BY <1>1 DEF IsCall
  <2>2. d = [at |-> "choosing", request |-> b.request, i |-> n + 1, failed |-> b.failed,
             gaps |-> b.gaps, skipped |-> b.skipped, from |-> b.from]
    BY <1>1, <2>1 DEF Onward, IsCall
  <2>3. n + 1 \in Nat /\ n + 1 >= 1
    OBVIOUS
  <2>. QED BY <2>1, <2>2, <2>3 DEF IsCall
<1>2. Order[c.i] \notin S => Tries(Onward(c), S)
  <2>1. IsCall(c)
    BY DEF Going
  <2>2. PICK d : d = Onward(c)
    OBVIOUS
  <2>. QED BY <1>1, <2>1, <2>2, PassedOver DEF Tries
<1>3. Tries(Onward([c EXCEPT !.skipped = @ \cup {Order[c.i]}]), S)
  <2>1. PICK b : b = [c EXCEPT !.skipped = c.skipped \cup {Order[c.i]}]
    OBVIOUS
  <2>2. /\ IsCall(b) /\ b.i = c.i /\ b.failed = c.failed /\ b.gaps = c.gaps
        /\ b.skipped = c.skipped \cup {Order[c.i]}
    BY <2>1 DEF Going, IsCall
  <2>3. PICK d : d = Onward(b)
    OBVIOUS
  <2>4. Going(d, S)
    BY <1>1, <2>2, <2>3, PassedOver
  <2>. QED BY <1>1, <2>1, <2>2, <2>3, <2>4 DEF Tries
<1>4. Tries(Onward([c EXCEPT !.gaps = @ \cup {Order[c.i]}]), S)
  <2>1. PICK b : b = [c EXCEPT !.gaps = c.gaps \cup {Order[c.i]}]
    OBVIOUS
  <2>2. /\ IsCall(b) /\ b.i = c.i /\ b.failed = c.failed /\ b.skipped = c.skipped
        /\ b.gaps = c.gaps \cup {Order[c.i]}
    BY <2>1 DEF Going, IsCall
  <2>3. PICK d : d = Onward(b)
    OBVIOUS
  <2>4. Going(d, S)
    BY <1>1, <2>2, <2>3, PassedOver
  <2>. QED BY <1>1, <2>1, <2>2, <2>3, <2>4 DEF Tries
<1>5. Tries(Onward([c EXCEPT !.failed = @ \cup {Order[c.i]}]), S)
  <2>1. PICK b : b = [c EXCEPT !.failed = c.failed \cup {Order[c.i]}]
    OBVIOUS
  <2>2. /\ IsCall(b) /\ b.i = c.i /\ b.gaps = c.gaps /\ b.skipped = c.skipped
        /\ b.failed = c.failed \cup {Order[c.i]}
    BY <2>1 DEF Going, IsCall
  <2>3. PICK d : d = Onward(b)
    OBVIOUS
  <2>4. Going(d, S)
    BY <1>1, <2>2, <2>3, PassedOver
  <2>. QED BY <1>1, <2>1, <2>2, <2>3, <2>4 DEF Tries
<1>. QED BY <1>2, <1>3, <1>4, <1>5

-----------------------------------------------------------------------------
(* Calls, jobs, metadata and payloads together.                            *)

\* What the manager publishes about an answered call.
MetaOf(c) == [source |-> c.from, degraded |-> c.failed # {}]

\* Of one thread: its call c, its job j, its metadata m.
CallInv(c, j, m, S) ==
    /\ Going(c, S) /\ IsJob(j)
    /\ c.at = "waiting" => j.source = Order[c.i]
    /\ c.at = "answered" => m = MetaOf(c)

\* A source named with the answer of a call.
Told(answer, named, S) == Going(answer, S) /\ named = MetaOf(answer)

Honest(p, S) == Told(p.answer, p.named, S)

ToolInv(w, S) ==
    /\ w \in [asked : {w.asked}, at : {w.at}, answer : {w.answer}, named : {w.named},
              bucket : {w.bucket}]
    /\ w.at \in {"valuing", "named", "copied", "kept"} => Told(w.answer, w.named, S)
    /\ \A p \in w.bucket : Honest(p, S)

IsPerThread(f) == f = [t \in Threads |-> f[t]]

IInv ==
    /\ IsPerThread(call) /\ IsPerThread(job) /\ IsPerThread(meta) /\ IsPerThread(tool)
    /\ \A t \in Threads : /\ CallInv(call[t], job[t], meta[t], configured)
                          /\ ToolInv(tool[t], configured)
    /\ \A p \in sink : Honest(p, configured)

LEMMA InvIsHonest == IInv => HonestPayloads
<1>1. SUFFICES ASSUME IInv, NEW p \in sink
               PROVE  /\ p.named.source = p.answer.from
                      /\ ~p.named.degraded => Before(p.answer) \subseteq p.answer.gaps \cup p.answer.skipped
  BY DEF HonestPayloads
<1>2. p.named = MetaOf(p.answer) /\ Accounted(p.answer, configured)
  BY <1>1 DEF IInv, Honest, Told, Going
<1>3. p.named.source = p.answer.from /\ (~p.named.degraded => p.answer.failed = {})
  <2>1. p.named.source = p.answer.from /\ p.named.degraded = (p.answer.failed # {})
    BY <1>2 DEF MetaOf
  <2>. QED BY <2>1, Zenon
<1>. QED BY <1>2, <1>3 DEF Accounted, Before

LEMMA NewCallGoes ==
    ASSUME NEW r, NEW S
    PROVE  Going(NewCall(r), S) /\ NewCall(r).at = "choosing"
BY DEF NewCall, Going, IsCall, Accounted

LEMMA NoJobIsJob == IsJob(NoJob)
BY DEF NoJob, IsJob

LEMMA InitHonest == Init => IInv
<1>1. SUFFICES ASSUME Init PROVE IInv
  OBVIOUS
<1>2. PICK asked \in ToolRounds :
         tool = [t \in Threads |-> [asked |-> asked[t], at |-> "asking", answer |-> <<>>,
                                    named |-> NoMeta, bucket |-> {}]]
  BY <1>1 DEF Init
<1>3. ASSUME NEW t \in Threads PROVE ToolInv(tool[t], configured)
  BY <1>2 DEF ToolInv
<1>4. ASSUME NEW t \in Threads PROVE CallInv(call[t], job[t], meta[t], configured)
  <2>1. call[t] = NewCall(First(t)) /\ job[t] = NoJob
    BY <1>1 DEF Init
  <2>. QED BY <2>1, NewCallGoes, NoJobIsJob DEF CallInv
<1>5. IsPerThread(call) /\ IsPerThread(job) /\ IsPerThread(meta) /\ IsPerThread(tool) /\ sink = {}
  BY <1>1, <1>2 DEF Init, IsPerThread
<1>. QED BY <1>3, <1>4, <1>5 DEF IInv

\* Only what belongs to thread t changes.
OnlyOf(t) ==
    /\ IsPerThread(call)' /\ IsPerThread(job)' /\ IsPerThread(meta)' /\ IsPerThread(tool)'
    /\ configured' = configured
    /\ \A u \in Threads \ {t} : /\ call'[u] = call[u] /\ job'[u] = job[u]
                                /\ meta'[u] = meta[u] /\ tool'[u] = tool[u]

LEMMA OneThread ==
    ASSUME IInv, NEW t \in Threads, OnlyOf(t),
           CallInv(call'[t], job'[t], meta'[t], configured), ToolInv(tool'[t], configured),
           \A p \in sink' : Honest(p, configured)
    PROVE  IInv'
<1>1. ASSUME NEW u \in Threads
      PROVE  /\ CallInv(call'[u], job'[u], meta'[u], configured)
             /\ ToolInv(tool'[u], configured)
  BY <1>1 DEF OnlyOf, IInv
<1>2. configured' = configured
  BY DEF OnlyOf
<1>3. \A u \in Threads : /\ CallInv(call[u], job[u], meta[u], configured)'
                         /\ ToolInv(tool[u], configured)'
  BY <1>1, <1>2
<1>. QED BY <1>2, <1>3 DEF IInv, OnlyOf

\* A step of the manager or of an adapter for thread t.
LEMMA CallSteps ==
    ASSUME IInv, NEW t \in Threads,
           \/ SkipUnavailable(t) \/ SkipOpen(t) \/ TryNext(t) \/ Collect(t) \/ Timeout(t)
           \/ GiveUp(t) \/ Adapter(t)
    PROVE  /\ OnlyOf(t) /\ UNCHANGED <<tool, sink>>
           /\ CallInv(call'[t], job'[t], meta'[t], configured)
<1> DEFINE c == call[t]  j == job[t]
<1>1. CallInv(c, j, meta[t], configured)
  BY DEF IInv
<1>2. Going(c, configured) /\ IsCall(c) /\ IsJob(j)
  BY <1>1 DEF CallInv, Going
<1>3. CASE SkipUnavailable(t)
  <2>1. call' = [call EXCEPT ![t] = Onward(c)] /\ Order[c.i] \notin configured
    BY <1>3 DEF SkipUnavailable, Current
  <2>2. UNCHANGED <<configured, tool, job, meta, sink>>
    BY <1>3 DEF SkipUnavailable
  <2>3. OnlyOf(t) /\ call'[t] = Onward(c)
    BY <2>1, <2>2 DEF OnlyOf, IInv, IsPerThread
  <2>4. Tries(Onward(c), configured)
    BY <1>2, <2>1, OnwardGoes
  <2>. QED BY <1>2, <2>2, <2>3, <2>4 DEF CallInv, Tries
<1>4. CASE SkipOpen(t)
  <2> DEFINE d == Onward([c EXCEPT !.skipped = @ \cup {Order[c.i]}])
  <2>1. call' = [call EXCEPT ![t] = d]
    BY <1>4 DEF SkipOpen, Current, LeftOut
  <2>2. UNCHANGED <<configured, tool, job, meta, sink>>
    BY <1>4 DEF SkipOpen
  <2>3. Tries(d, configured)
    BY <1>2, OnwardGoes
  <2> HIDE DEF d
  <2>4. OnlyOf(t) /\ call'[t] = d
    BY <2>1, <2>2 DEF OnlyOf, IInv, IsPerThread
  <2>. QED BY <1>2, <2>2, <2>3, <2>4 DEF CallInv, Tries
<1>5. CASE TryNext(t)
  <2>1. PICK k : /\ job' = [job EXCEPT ![t] = k]
                 /\ k = [step |-> "started", source |-> Order[c.i], request |-> c.request,
                         code |-> tool[t].asked.code, outcome |-> "none"]
    BY <1>5 DEF TryNext, Current
  <2>2. PICK d : d = [c EXCEPT !.at = "waiting"]
    OBVIOUS
  <2>3. call' = [call EXCEPT ![t] = d]
    BY <1>5, <2>2 DEF TryNext, IInv
  <2>4. UNCHANGED <<configured, tool, meta, sink>>
    BY <1>5 DEF TryNext
  <2>5. OnlyOf(t) /\ call'[t] = d /\ job'[t] = k
    BY <2>1, <2>3, <2>4 DEF OnlyOf, IInv, IsPerThread
  <2>6. IsJob(k) /\ k.source = Order[c.i]
    BY <2>1 DEF IsJob
  <2>7. /\ IsCall(d) /\ d.i = c.i /\ d.at = "waiting" /\ d.failed = c.failed /\ d.gaps = c.gaps
        /\ d.skipped = c.skipped
    BY <1>2, <2>2 DEF IsCall
  <2>8. Going(d, configured)
    BY <1>2, <2>7 DEF Going, Accounted
  <2>. QED BY <2>4, <2>5, <2>6, <2>7, <2>8 DEF CallInv
<1>6. CASE Timeout(t)
  <2>1. j.source = Order[c.i]
    BY <1>1, <1>6 DEF Timeout, CallInv
  <2> DEFINE d == Onward([c EXCEPT !.failed = @ \cup {Order[c.i]}])
  <2>2. call' = [call EXCEPT ![t] = d] /\ job' = [job EXCEPT ![t] = NoJob]
    BY <1>6, <2>1 DEF Timeout, FailedWith
  <2>3. UNCHANGED <<configured, tool, meta, sink>>
    BY <1>6 DEF Timeout
  <2>4. Tries(d, configured)
    BY <1>2, OnwardGoes
  <2> HIDE DEF d
  <2>5. OnlyOf(t) /\ call'[t] = d /\ job'[t] = NoJob
    BY <2>2, <2>3 DEF OnlyOf, IInv, IsPerThread
  <2>. QED BY <2>3, <2>4, <2>5, NoJobIsJob DEF CallInv, Tries
<1>7. CASE GiveUp(t)
  <2>1. PICK d : d = [c EXCEPT !.at = "refused"]
    OBVIOUS
  <2>2. call' = [call EXCEPT ![t] = d]
    BY <1>7, <2>1 DEF GiveUp, IInv
  <2>3. PICK m : meta' = [meta EXCEPT ![t] = m]
    BY <1>7 DEF GiveUp, Publish
  <2>4. UNCHANGED <<configured, tool, job, sink>>
    BY <1>7 DEF GiveUp
  <2>5. OnlyOf(t) /\ call'[t] = d /\ job'[t] = j
    BY <2>2, <2>3, <2>4 DEF OnlyOf, IInv, IsPerThread
  <2>6. /\ IsCall(d) /\ d.i = c.i /\ d.at = "refused" /\ d.failed = c.failed /\ d.gaps = c.gaps
        /\ d.skipped = c.skipped
    BY <1>2, <2>1 DEF IsCall
  <2>7. Going(d, configured)
    BY <1>2, <2>6 DEF Going, Accounted
  <2>. QED BY <1>2, <2>4, <2>5, <2>6, <2>7 DEF CallInv
<1>8. CASE Adapter(t)
  <2>1. PICK w \in Results(j) : job' = [job EXCEPT ![t] = w.job]
    BY <1>8 DEF Adapter
  <2>2. UNCHANGED <<configured, tool, call, meta, sink>>
    BY <1>8 DEF Adapter
  <2>3. OnlyOf(t) /\ job'[t] = w.job
    BY <2>1, <2>2 DEF OnlyOf, IInv, IsPerThread
  <2>4. IsJob(w.job) /\ w.job.source = j.source
    BY <1>2, ResultsKeepJob
  <2>. QED BY <1>1, <2>2, <2>3, <2>4 DEF CallInv
<1>9. CASE Collect(t)
  <2>1. /\ c.at = "waiting" /\ j.step = "finished" /\ j.source = Order[c.i]
        /\ j.outcome \in Outcomes
    BY <1>1, <1>9 DEF Collect, CallInv, IsJob
  <2>2. UNCHANGED <<configured, tool, sink>> /\ job' = [job EXCEPT ![t] = NoJob]
    BY <1>9 DEF Collect
  <2>3. CASE j.outcome = "unsupported"
    <3> DEFINE d == Onward([c EXCEPT !.gaps = @ \cup {Order[c.i]}])
    <3>1. call' = [call EXCEPT ![t] = d] /\ UNCHANGED meta
      BY <1>9, <2>1, <2>3 DEF Collect, Missing
    <3>2. Tries(d, configured)
      BY <1>2, OnwardGoes
    <3> HIDE DEF d
    <3>3. OnlyOf(t) /\ call'[t] = d /\ job'[t] = NoJob
      BY <2>2, <3>1 DEF OnlyOf, IInv, IsPerThread
    <3>. QED BY <2>2, <3>2, <3>3, NoJobIsJob DEF CallInv, Tries
  <2>4. CASE j.outcome \in {"raises", "empty"}
    <3> DEFINE d == Onward([c EXCEPT !.failed = @ \cup {Order[c.i]}])
    <3>1. call' = [call EXCEPT ![t] = d] /\ UNCHANGED meta
      BY <1>9, <2>1, <2>4 DEF Collect, FailedWith
    <3>2. Tries(d, configured)
      BY <1>2, OnwardGoes
    <3> HIDE DEF d
    <3>3. OnlyOf(t) /\ call'[t] = d /\ job'[t] = NoJob
      BY <2>2, <3>1 DEF OnlyOf, IInv, IsPerThread
    <3>. QED BY <2>2, <3>2, <3>3, NoJobIsJob DEF CallInv, Tries
  <2>5. CASE j.outcome = "rows"
    <3>1. PICK d : d = [c EXCEPT !.at = "answered", !.from = Order[c.i]]
      OBVIOUS
    <3>2. call' = [call EXCEPT ![t] = d]
      BY <1>9, <2>1, <2>5, <3>1 DEF Collect
    <3>3. PICK m : m = [source |-> Order[c.i], degraded |-> c.failed # {}]
      OBVIOUS
    <3>4. meta' = [meta EXCEPT ![t] = m]
      BY <1>9, <2>1, <2>5, <3>3 DEF Collect, Publish
    <3>5. OnlyOf(t) /\ call'[t] = d /\ job'[t] = NoJob /\ meta'[t] = m
      BY <2>2, <3>2, <3>4 DEF OnlyOf, IInv, IsPerThread
    <3>6. /\ IsCall(d) /\ d.i = c.i /\ d.at = "answered" /\ d.from = Order[c.i]
          /\ d.failed = c.failed /\ d.gaps = c.gaps /\ d.skipped = c.skipped
      BY <1>2, <3>1 DEF IsCall
    <3>7. Going(d, configured)
      BY <1>2, <3>6 DEF Going, Accounted
    <3>8. m = MetaOf(d)
      BY <3>3, <3>6 DEF MetaOf
    <3>. QED BY <2>2, <3>5, <3>6, <3>7, <3>8, NoJobIsJob DEF CallInv
  <2>. QED BY <2>1, <2>3, <2>4, <2>5 DEF Outcomes
<1>. QED BY <1>3, <1>4, <1>5, <1>6, <1>7, <1>8, <1>9

\* A tool that goes from one step to the next, as far as nothing is put in the sink.
LEMMA ToolSteps ==
    ASSUME IInv, NEW t \in Threads,
           ToolRaises(t) \/ NameSource(t) \/ Valued(t) \/ ReadBucket(t)
    PROVE  /\ OnlyOf(t) /\ UNCHANGED sink
           /\ CallInv(call'[t], job'[t], meta'[t], configured)
           /\ ToolInv(tool'[t], configured)
<1> DEFINE c == call[t]  w == tool[t]
<1>1. CallInv(c, job[t], meta[t], configured) /\ ToolInv(w, configured)
  BY DEF IInv
<1>2. ASSUME NEW at, NEW v, v = [w EXCEPT !.at = at],
             at \in {"valuing", "named", "copied", "kept"}
                => w.at \in {"valuing", "named", "copied", "kept"}
      PROVE  ToolInv(v, configured)
  <2>1. /\ v \in [asked : {v.asked}, at : {v.at}, answer : {v.answer}, named : {v.named},
                  bucket : {v.bucket}]
        /\ v.at = at /\ v.answer = w.answer /\ v.named = w.named /\ v.bucket = w.bucket
    BY <1>1, <1>2 DEF ToolInv
  <2>. QED BY <1>1, <1>2, <2>1 DEF ToolInv
<1>3. ASSUME NEW at, tool' = [tool EXCEPT ![t].at = at], UNCHANGED <<configured, call, job, meta>>,
             at \in {"valuing", "named", "copied", "kept"}
                => w.at \in {"valuing", "named", "copied", "kept"}
      PROVE  /\ OnlyOf(t) /\ CallInv(call'[t], job'[t], meta'[t], configured)
             /\ ToolInv(tool'[t], configured)
  <2>1. PICK v : v = [w EXCEPT !.at = at]
    OBVIOUS
  <2>2. tool' = [tool EXCEPT ![t] = v]
    BY <1>3, <2>1 DEF IInv
  <2>3. OnlyOf(t) /\ tool'[t] = v
    BY <1>3, <2>2 DEF OnlyOf, IInv, IsPerThread
  <2>. QED BY <1>1, <1>2, <1>3, <2>1, <2>3
<1>4. CASE ToolRaises(t)
  BY <1>3, <1>4 DEF ToolRaises
<1>5. CASE Valued(t)
  BY <1>3, <1>5 DEF Valued
<1>6. CASE ReadBucket(t)
  <2>1. PICK v : v = [w EXCEPT !.at = "copied", !.bucket = {p \in sink : p.kind = w.asked.kind}]
    OBVIOUS
  <2>2. w.at = "named" /\ tool' = [tool EXCEPT ![t] = v] /\ UNCHANGED <<configured, call, job, meta, sink>>
    BY <1>6, <2>1 DEF ReadBucket
  <2>3. OnlyOf(t) /\ tool'[t] = v
    BY <2>2 DEF OnlyOf, IInv, IsPerThread
  <2>4. /\ v \in [asked : {v.asked}, at : {v.at}, answer : {v.answer}, named : {v.named},
                  bucket : {v.bucket}]
        /\ v.answer = w.answer /\ v.named = w.named
        /\ v.bucket = {p \in sink : p.kind = w.asked.kind}
    BY <1>1, <2>1 DEF ToolInv
  <2>5. \A p \in v.bucket : Honest(p, configured)
    BY <2>4 DEF IInv
  <2>6. Told(w.answer, w.named, configured)
    BY <1>1, <2>2 DEF ToolInv
  <2>7. ToolInv(v, configured)
    BY <2>4, <2>5, <2>6 DEF ToolInv
  <2>. QED BY <1>1, <2>2, <2>3, <2>7
<1>7. CASE NameSource(t)
  <2> DEFINE Named(at) == [w EXCEPT !.at = at, !.answer = c, !.named = meta[t]]
  <2>1. PICK v :
             /\ v = Named("valuing") \/ v = Named("named")
             /\ tool' = [tool EXCEPT ![t] = v]
             /\ \/ call' = [call EXCEPT ![t] = NewCall(Valuation(t))]
                \/ UNCHANGED call
    <3>1. \/ /\ tool' = [tool EXCEPT ![t] = Named("valuing")]
             /\ call' = [call EXCEPT ![t] = NewCall(Valuation(t))]
          \/ tool' = [tool EXCEPT ![t] = Named("named")] /\ UNCHANGED call
      BY <1>7 DEF NameSource
    <3> HIDE DEF Named
    <3>. QED BY <3>1
  <2>2. c.at = "answered" /\ UNCHANGED <<configured, job, meta, sink>>
    BY <1>7 DEF NameSource
  <2>3. OnlyOf(t) /\ tool'[t] = v /\ (call'[t] = NewCall(Valuation(t)) \/ call'[t] = c)
    BY <2>1, <2>2 DEF OnlyOf, IInv, IsPerThread
  <2>4. /\ v \in [asked : {v.asked}, at : {v.at}, answer : {v.answer}, named : {v.named},
                  bucket : {v.bucket}]
        /\ v.answer = c /\ v.named = meta[t] /\ v.bucket = w.bucket
    BY <1>1, <2>1 DEF ToolInv
  <2>5. Told(c, meta[t], configured)
    BY <1>1, <2>2 DEF CallInv, Told
  <2>6. ToolInv(v, configured)
    BY <1>1, <2>4, <2>5 DEF ToolInv
  <2>7. CallInv(call'[t], job[t], meta[t], configured)
    <3>1. CASE call'[t] = c
      BY <1>1, <3>1
    <3>2. CASE call'[t] = NewCall(Valuation(t))
      BY <1>1, <3>2, NewCallGoes DEF CallInv
    <3>. QED BY <2>3, <3>1, <3>2
  <2>. QED BY <2>2, <2>3, <2>6, <2>7
<1>. QED BY <1>4, <1>5, <1>6, <1>7 DEF ToolRaises, Valued

LEMMA WriteKeepsHonest ==
    ASSUME IInv, NEW t \in Threads, WriteBucket(t)
    PROVE  IInv'
<1> DEFINE w == tool[t]
<1>1. PICK v : v = [w EXCEPT !.at = "kept"]
  OBVIOUS
<1>2. /\ w.at = "copied" /\ tool' = [tool EXCEPT ![t] = v]
      /\ UNCHANGED <<configured, call, job, meta>>
  BY <1>1 DEF WriteBucket, IInv
<1>3. OnlyOf(t) /\ tool'[t] = v
  BY <1>2 DEF OnlyOf, IInv, IsPerThread
<1>4. CallInv(call'[t], job'[t], meta'[t], configured) /\ ToolInv(w, configured)
  BY <1>2 DEF IInv
<1>5. /\ v \in [asked : {v.asked}, at : {v.at}, answer : {v.answer}, named : {v.named},
                bucket : {v.bucket}]
      /\ v.answer = w.answer /\ v.named = w.named /\ v.bucket = w.bucket
  BY <1>1, <1>4 DEF ToolInv
<1>6. Told(w.answer, w.named, configured)
  BY <1>2, <1>4 DEF ToolInv
<1>7. ToolInv(v, configured)
  BY <1>4, <1>5, <1>6 DEF ToolInv
<1>8. Honest(Payload(t), configured)
  <2>1. Payload(t).answer = w.answer /\ Payload(t).named = w.named
    BY DEF Payload
  <2>. QED BY <1>6, <2>1 DEF Honest
<1>9. \A p \in sink' : p \in sink \/ p \in w.bucket \/ p = Payload(t)
  BY DEF WriteBucket
<1>10. \A p \in sink' : Honest(p, configured)
  BY <1>4, <1>8, <1>9 DEF IInv, ToolInv
<1>. QED BY <1>3, <1>4, <1>7, <1>10, OneThread

LEMMA NextHonest == IInv /\ [Next]_marketVars => IInv'
<1>1. SUFFICES ASSUME IInv, [Next]_marketVars PROVE IInv'
  OBVIOUS
<1>2. ASSUME UNCHANGED <<configured, call, job, meta, tool, sink>> PROVE IInv'
  BY <1>1, <1>2 DEF IInv, IsPerThread
<1>3. CASE LateAdapter \/ (\E s \in Sources : CoolDown(s)) \/ UNCHANGED marketVars
  BY <1>2, <1>3 DEF LateAdapter, CoolDown, marketVars
<1>4. ASSUME NEW t \in Threads,
             \/ SkipUnavailable(t) \/ SkipOpen(t) \/ TryNext(t) \/ Collect(t) \/ Timeout(t)
             \/ GiveUp(t) \/ Adapter(t)
      PROVE  IInv'
  <2>1. /\ OnlyOf(t) /\ UNCHANGED <<tool, sink>>
        /\ CallInv(call'[t], job'[t], meta'[t], configured)
    BY <1>1, <1>4, CallSteps
  <2>2. ToolInv(tool'[t], configured) /\ \A p \in sink' : Honest(p, configured)
    BY <1>1, <2>1 DEF IInv
  <2>. QED BY <1>1, <2>1, <2>2, OneThread
<1>5. ASSUME NEW t \in Threads, ToolRaises(t) \/ NameSource(t) \/ Valued(t) \/ ReadBucket(t)
      PROVE  IInv'
  <2>1. /\ OnlyOf(t) /\ UNCHANGED sink
        /\ CallInv(call'[t], job'[t], meta'[t], configured)
        /\ ToolInv(tool'[t], configured)
    BY <1>1, <1>5, ToolSteps
  <2>2. \A p \in sink' : Honest(p, configured)
    BY <1>1, <2>1 DEF IInv
  <2>. QED BY <1>1, <2>1, <2>2, OneThread
<1>6. ASSUME NEW t \in Threads, WriteBucket(t) PROVE IInv'
  BY <1>1, <1>6, WriteKeepsHonest
<1>. QED BY <1>1, <1>3, <1>4, <1>5, <1>6 DEF Next, Step

\* A payload names the source that answered, and one that is not called degraded
\* passed over no configured source that failed: for any number of threads, any
\* order of sources and whatever the vendors answer, early, late or not at all.
THEOREM PayloadsAreHonest == Spec => []HonestPayloads
BY InitHonest, NextHonest, InvIsHonest, PTL DEF Spec

=============================================================================
