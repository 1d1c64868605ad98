------------------------------ MODULE Research ------------------------------
(***************************************************************************)
(* The research kernel of domains/research: raw market data of a request   *)
(* become a snapshot with quality gates, scores and a risk-first decision; *)
(* the conclusions of a turn and the facts they cite are persisted and can *)
(* be recomputed from the audit record.                                    *)
(*                                                                         *)
(* Days are integers, 0 a Monday; ratios are percentages, PB is in tenths, *)
(* scores are in hundredths of a point.                                    *)
(***************************************************************************)
EXTENDS Integers, Sequences, FiniteSets, SequencesExt

CONSTANTS Codes,          \* securities a request may name
          NoValue,        \* what the source did not deliver
          Raws,           \* what the gateway may return for a security
          Asks,           \* arguments of evaluate_research: [codes, dimension]
          Today,          \* the day of the wall clock
          MinEligible,    \* MIN_ELIGIBLE_MEMBERS of the screening
          MaxCalls        \* tool calls of one turn

VARIABLES
    raws,       \* [Codes -> Raws], the data of this turn
    profiled,   \* whether the user's profile is complete
    calls,
    results,    \* sink.structured["analysis_results"]
    facts,      \* sink.structured["facts"]
    screened,   \* how the last screening of a board ended
    stage,      \* "tools", "failed", "stored", then how the record was replayed
    record,     \* the audit tables
    verdict     \* the outcome of the replay

vars == <<raws, profiled, calls, results, facts, screened, stage, record, verdict>>

-----------------------------------------------------------------------------
(* Scores: one table per figure. *)

\* The second component of the first row whose bound x reaches.
AtLeast(x, table, otherwise) ==
    LET row == SelectInSeq(table, LAMBDA r : x >= r[1])
    IN IF row = 0 THEN otherwise ELSE table[row][2]

AtMost(x, table, otherwise) ==
    LET row == SelectInSeq(table, LAMBDA r : x <= r[1])
    IN IF row = 0 THEN otherwise ELSE table[row][2]

RoeScore(x) == AtLeast(x, <<<<20, 95>>, <<15, 85>>, <<10, 70>>, <<5, 50>>, <<1, 30>>>>, 10)
GrowthScore(x) == AtLeast(x, <<<<25, 95>>, <<10, 80>>, <<0, 60>>, <<-10, 35>>>>, 15)
PeScore(x) ==
    IF x <= 0 THEN NoValue ELSE AtMost(x, <<<<15, 90>>, <<25, 80>>, <<40, 60>>, <<60, 40>>>>, 20)
PbScore(x) == IF x <= 0 THEN NoValue ELSE AtMost(x, <<<<15, 90>>, <<30, 75>>, <<50, 55>>>>, 30)
TrendScore(x) == AtLeast(x, <<<<10, 90>>, <<3, 75>>, <<0, 60>>, <<-5, 40>>>>, 20)
MomentumScore(x) == AtLeast(x, <<<<15, 90>>, <<5, 75>>, <<0, 60>>, <<-10, 35>>>>, 15)
VolatilityScore(x) == AtMost(x, <<<<20, 90>>, <<35, 70>>, <<50, 45>>>>, 20)
DrawdownScore(x) == AtLeast(x, <<<<-10, 90>>, <<-20, 70>>, <<-35, 40>>>>, 15)

Known(scores) == SelectSeq(scores, LAMBDA s : s # NoValue)

Bounded(x) == IF x < 0 THEN 0 ELSE IF x > 10000 THEN 10000 ELSE x

Average(scores) ==
    LET sum == FoldLeft(LAMBDA a, s : a + s, 0, scores) IN
    IF scores = <<>> THEN NoValue
    ELSE Bounded((200 * sum + Len(scores)) \div (2 * Len(scores)))

FundamentalInputs == <<"roe", "revenue", "profit", "pe", "pb">>

FundamentalScores(raw) ==
    Known(<<IF raw.roe = NoValue THEN NoValue ELSE RoeScore(raw.roe),
            IF raw.revenue = NoValue THEN NoValue ELSE GrowthScore(raw.revenue),
            IF raw.profit = NoValue THEN NoValue ELSE GrowthScore(raw.profit),
            IF raw.pe = NoValue THEN NoValue ELSE PeScore(raw.pe),
            IF raw.pb = NoValue THEN NoValue ELSE PbScore(raw.pb)>>)

Shrinks(x) == x # NoValue /\ x < 0

\* Shrinking business and an extreme valuation cost risk points.
Penalty(raw) ==
    (IF Shrinks(raw.profit) \/ Shrinks(raw.revenue) THEN 2000 ELSE 0)
    + (IF raw.pe # NoValue /\ raw.pe > 60 THEN 1500 ELSE 0)

\* build_scores: the scores of one security and what could not be computed.
BuildScores(raw) ==
    LET fundamental == Average(FundamentalScores(raw))
        absent == {f \in ToSet(FundamentalInputs) : raw[f] = NoValue}
        priced == raw.closes >= 60
        risk == Average(<<VolatilityScore(raw.vol), DrawdownScore(raw.drawdown)>>)
    IN [fundamental |-> fundamental,
        technical |-> IF priced THEN Average(<<TrendScore(raw.trend), MomentumScore(raw.momentum),
                                               VolatilityScore(raw.swing)>>)
                      ELSE NoValue,
        risk |-> IF priced THEN Bounded(risk - Penalty(raw)) ELSE NoValue,
        gaps |-> (IF fundamental = NoValue THEN {<<"fundamental", "metrics">>}
                  ELSE {<<"fundamental", f>> : f \in absent})
                 \cup (IF priced THEN {} ELSE {<<"price", "history">>, <<"risk", "history">>})]

-----------------------------------------------------------------------------
(* Quality gates. *)

TradingDays(start, end) == Cardinality({d \in start + 1 .. end : d % 7 < 5})

\* What is wrong with the age of a figure on the day of the evaluation.
Freshness(day, evaluatedAt, missing, stale) ==
    IF day = NoValue THEN {missing}
    ELSE IF TradingDays(day, evaluatedAt) > 1 THEN {stale} ELSE {}

FundamentalProvenance(raw, evaluatedAt) ==
    (IF raw.end = NoValue THEN {"report_period_missing"}
     ELSE IF evaluatedAt - raw.end > 240 THEN {"stale_report_period"} ELSE {})
    \cup (IF raw.ann = NoValue THEN {"disclosure_date_missing"}
          ELSE (IF raw.end # NoValue /\ raw.ann < raw.end THEN {"disclosure_before_period"} ELSE {})
               \cup (IF raw.ann > evaluatedAt THEN {"disclosure_in_future"} ELSE {}))
    \cup (IF raw.pe = NoValue THEN {"valuation_metrics_missing"}
          ELSE IF raw.basis = "static" THEN {"valuation_not_ttm"} ELSE {})

SourceConsistency(raw) == IF raw.mixed THEN {"mixed_sources"} ELSE {}

Missing(raw, evaluatedAt) ==
    (IF raw.error THEN {"stock_data"} ELSE {})
    \cup (IF raw.adjusted THEN {} ELSE {"adjusted_history"})
    \cup (IF raw.quote = NoValue THEN {"quote"} ELSE {})
    \cup Freshness(raw.quote, evaluatedAt, "quote_as_of_missing", "stale_quote")
    \cup Freshness(raw.lastBar, evaluatedAt, "history_as_of_missing", "stale_history")

Warnings(raw, evaluatedAt) == FundamentalProvenance(raw, evaluatedAt) \cup SourceConsistency(raw)

Status(missing, warnings) ==
    IF missing # {} THEN "critical_missing" ELSE IF warnings # {} THEN "warning" ELSE "complete"

\* Securities of one request must report on the same period to be compared.
MixedReportPeriods(data) ==
    IF Cardinality({data[c].end : c \in DOMAIN data} \ {NoValue}) > 1
    THEN {"mixed_report_period"} ELSE {}

-----------------------------------------------------------------------------
(* The snapshot of a request. *)

\* The record the gateway's failure, or a replay without inputs, amounts to.
Nothing(failed) ==
    [error |-> failed, adjusted |-> FALSE, quote |-> NoValue, lastBar |-> NoValue,
     bars |-> 0, closes |-> 0, end |-> NoValue, ann |-> NoValue, basis |-> "ttm",
     mixed |-> FALSE, roe |-> NoValue, revenue |-> NoValue, profit |-> NoValue,
     pe |-> NoValue, pb |-> NoValue, trend |-> 0, momentum |-> 0, swing |-> 0,
     vol |-> 0, drawdown |-> 0, fetched |-> NoValue]

\* The request and its data as the builder sees them; a moment is injected on replay.
EvaluatedAt(data, injected) ==
    LET fetched == {data[c].fetched : c \in DOMAIN data} \ {NoValue} IN
    CASE injected # NoValue -> [moment |-> injected, source |-> "injected"]
      [] injected = NoValue /\ fetched # {} -> [moment |-> Max(fetched), source |-> "fetch"]
      [] OTHER -> [moment |-> Today, source |-> "wallclock"]

Build(request, data, injected) ==
    LET evaluated == EvaluatedAt(data, injected)
        moment == evaluated.moment
        cross == MixedReportPeriods(data)
        missing == cross \cup UNION {Missing(data[c], moment) : c \in DOMAIN data}
        warnings == UNION {Warnings(data[c], moment) : c \in DOMAIN data}
                    \cup (IF evaluated.source = "wallclock" THEN {"evaluated_at_unavailable"} ELSE {})
        status == Status(missing, warnings)
    IN [missing |-> missing, warnings |-> warnings, status |-> status,
        facts |-> [c \in DOMAIN data |->
            [id |-> <<c, moment, request, cross, data[c]>>,
             code |-> c, evaluatedAt |-> moment, request |-> request, inputs |-> data[c],
             status |-> status, missing |-> Missing(data[c], moment),
             warnings |-> Warnings(data[c], moment)]]]

-----------------------------------------------------------------------------
(* The rule engine. *)

Selected(dimension) ==
    CASE dimension = "fundamental" -> {"fundamental", "risk"}
      [] dimension = "technical" -> {"technical", "risk"}
      [] OTHER -> {"fundamental", "technical", "risk"}

Weight == [fundamental |-> 45, technical |-> 25, risk |-> 20]

WeightedTotal(scores, selected) ==
    LET Sum(f) == FoldLeft(LAMBDA a, d : IF d \in selected THEN a + f[d] ELSE a, 0,
                           <<"fundamental", "technical", "risk">>)
    IN IF \E d \in selected : scores[d] = NoValue THEN NoValue
       ELSE (2 * Sum([d \in selected |-> scores[d] * Weight[d]]) + Sum(Weight)) \div (2 * Sum(Weight))

Conflict(scores, selected) ==
    /\ {"fundamental", "technical"} \subseteq selected
    /\ scores.fundamental # NoValue /\ scores.technical # NoValue
    /\ \/ scores.fundamental - scores.technical >= 2500
       \/ scores.technical - scores.fundamental >= 2500

\* Risk first: no score outweighs a low risk score.
DecideAction(scores, selected) ==
    LET total == WeightedTotal(scores, selected) IN
    IF scores.risk = NoValue THEN "insufficient_data"
    ELSE IF scores.risk <= 4000 THEN "avoid"
    ELSE IF Conflict(scores, selected) THEN "wait"
    ELSE IF total = NoValue THEN "insufficient_data"
    ELSE IF total >= 7000 THEN "watch"
    ELSE IF total <= 4000 THEN "avoid" ELSE "wait"

NoScores == [fundamental |-> NoValue, technical |-> NoValue, risk |-> NoValue, total |-> NoValue]

\* Gaps of a dimension the user excluded are not shown.
Visible(gaps, selected) ==
    {g \in gaps : g[1] \in {"fundamental", "technical"} => g[1] \in selected}

OwnQuality(built, code) ==                                               \* mutant
    Status(built.facts[code].missing, built.facts[code].warnings)
BatchQuality(built, code) == built.status

\* RuleEngine.evaluate on the snapshot of the whole request, narrowed to one security.
Assess(built, code, dimension) ==
    LET raw == built.facts[code].inputs
        selected == Selected(dimension)
        scores == BuildScores(raw)
        shown == [d \in {"fundamental", "technical", "risk"} |->
                     IF d \in selected THEN scores[d] ELSE NoValue]
        quality == built.missing \cup built.warnings
        Refused(reasons) == [action |-> "insufficient_data", scores |-> NoScores,
                             reasons |-> reasons, gaps |-> {}]
    IN IF BatchQuality(built, code) = "critical_missing" THEN Refused(quality)
       ELSE IF raw.bars < 60 THEN Refused(quality \cup {"minimum_history_bars"})
       ELSE [action |-> DecideAction(shown, selected),
             scores |-> [d \in DOMAIN NoScores |->
                            IF d = "total" THEN WeightedTotal(shown, selected) ELSE shown[d]],
             reasons |-> quality, gaps |-> Visible(scores.gaps, selected)]

\* evaluation.evaluate: one conclusion per security, citing that security's facts.
Evaluate(request, data) ==
    LET built == Build(request, data, NoValue) IN
    [facts |-> built.facts,
     results |-> [c \in DOMAIN data |->
         [code |-> c, quality |-> built.status, dimension |-> request.dimension,
          factIds |-> {built.facts[c].id}, assessment |-> Assess(built, c, request.dimension)]]]

Conclusive(result) == result.assessment.action # "insufficient_data"

-----------------------------------------------------------------------------
(* The tools of one turn. *)

Empty == [c \in {} |-> NoValue]

Init ==
    /\ raws \in [Codes -> Raws]
    /\ profiled \in BOOLEAN
    /\ calls = 0 /\ results = Empty /\ facts = Empty /\ screened = "none"
    /\ stage = "tools" /\ record = <<>> /\ verdict = {}

\* A tool that raises fails the expert, and with it all the tools have recorded.
Raise == stage' = "failed" /\ results' = Empty /\ facts' = Empty

\* evaluate_research.  A comparison of fewer than two different securities raises
\* before the tool's try.
EvaluateResearch ==
    /\ stage = "tools" /\ calls < MaxCalls
    /\ \E ask \in Asks :
         LET codes == ToSet(ask.codes)
             request == [codes |-> codes, dimension |-> ask.dimension, profiled |-> profiled]
             done == Evaluate(request, [c \in codes |-> raws[c]])
         IN IF Len(ask.codes) >= 2 /\ Cardinality(codes) < 2 THEN Raise
            ELSE results' = done.results /\ facts' = done.facts /\ UNCHANGED stage
    /\ calls' = calls + 1
    /\ UNCHANGED <<raws, profiled, screened, record, verdict>>

\* screen_board_candidates: too few members, a stop before the first, or no member that
\* can be evaluated give no list.  The evaluation of a member is a list of conclusions,
\* of which the tool asks the action as if it were the conclusion: that raises.
ScreenBoard ==
    /\ stage = "tools" /\ calls < MaxCalls
    /\ \E eligible \in SUBSET Codes, halted \in BOOLEAN :
         \E refused \in SUBSET eligible :
           IF Cardinality(eligible) < MinEligible
           THEN screened' = "insufficient_coverage" /\ UNCHANGED <<stage, results, facts>>
           ELSE IF halted \/ refused = eligible
           THEN screened' = "unavailable" /\ UNCHANGED <<stage, results, facts>>
           ELSE screened' = "raised" /\ Raise
    /\ calls' = calls + 1
    /\ UNCHANGED <<raws, profiled, record, verdict>>

-----------------------------------------------------------------------------
(* The audit record and its replay. *)

\* The results of a turn with the facts they cite.
Cited(rs, fs) ==
    {fs[c] : c \in {d \in DOMAIN fs : \E r \in DOMAIN rs : fs[d].id \in rs[r].factIds}}

\* audit_research_results and save_many: one run per turn, the results replaced.
Audit ==
    /\ stage = "tools" /\ DOMAIN results # {}
    /\ record' = [results |-> {results[c] : c \in DOMAIN results},
                  manifest |-> [snapshots |-> Cited(results, facts)]]
    /\ stage' = "stored"
    /\ UNCHANGED <<raws, profiled, calls, results, facts, screened, verdict>>

GroupsByCode(entries) == {{e} : e \in entries}                           \* mutant

\* Facts of one request were built together and are rebuilt together.
Groups(entries) == {{e \in entries : e.request = r} : r \in {e.request : e \in entries}}

Rebuilt(group) ==
    LET request == (CHOOSE e \in group : TRUE).request
        inputs == [c \in request.codes |->
                      IF \E e \in group : e.code = c
                      THEN (CHOOSE e \in group : e.code = c).inputs ELSE Nothing(FALSE)]
    IN Build(request, inputs, Max({e.evaluatedAt : e \in group}))

\* What differs between a stored conclusion and the one recomputed from its group.
Differences(result, entry, built) ==
    LET code == result.code
        again == Assess(built, code, entry.request.dimension)
        fact == built.facts[code]
    IN (IF again.action # result.assessment.action THEN {<<code, "action">>} ELSE {})
       \cup (IF again.scores # result.assessment.scores THEN {<<code, "scores">>} ELSE {})
       \cup (IF fact.id \notin result.factIds THEN {<<code, "fact_id">>} ELSE {})
       \cup (IF entry.status # built.status THEN {<<code, "data_quality">>} ELSE {})
       \cup (IF entry.missing # fact.missing THEN {<<code, "missing_critical">>} ELSE {})
       \cup (IF entry.warnings # fact.warnings THEN {<<code, "warnings">>} ELSE {})

\* A conclusion's fact: by the ids it cites, else by its code.
EntryFor(result, entries) ==
    LET cited == {e \in entries : e.id \in result.factIds} IN
    IF cited # {} THEN cited ELSE {e \in entries : e.code = result.code}

\* replay_research_run: the mismatches of a run; none means matched.
Replay(stored, entries) ==
    UNION {IF {e \in EntryFor(r, entries) : e.inputs # Nothing(FALSE)} = {}
           THEN {<<r.code, "evidence_incomplete">>}
           ELSE UNION {UNION {Differences(r, e, Rebuilt(g)) :
                                g \in {h \in Groups(entries) : e \in h}} :
                         e \in EntryFor(r, entries)} :
             r \in stored}

\* What list() makes of the manifest: the keys of an object.
Keys(manifest) == DOMAIN manifest

\* The entries of a list that are facts.
Facts(list) == {e \in list : e \notin STRING}

\* A caller that hands the facts themselves to the replay.
ReplayFacts ==
    /\ stage = "stored"
    /\ verdict' = Replay(record.results, record.manifest.snapshots)
    /\ stage' = "replayed"
    /\ UNCHANGED <<raws, profiled, calls, results, facts, screened, record>>

\* The command line: load_research_run returns the manifest as it was stored, an object,
\* and list() of an object is its keys, which are no facts.
ReplayStoredRun ==
    /\ stage = "stored"
    /\ verdict' = Replay(record.results, Facts(Keys(record.manifest)))
    /\ stage' = "replayed_by_cli"
    /\ UNCHANGED <<raws, profiled, calls, results, facts, screened, record>>

Next == \/ EvaluateResearch \/ ScreenBoard
        \/ Audit \/ ReplayFacts \/ ReplayStoredRun

Spec == Init /\ [][Next]_vars

-----------------------------------------------------------------------------
(* What the kernel promises. *)

\* When at least one figure of the request carries its fetch time, the moment of the
\* evaluation does not depend on the clock.
Timed(entries) == \E e \in entries : e.inputs.fetched # NoValue

\* A run recomputed from its facts gives the conclusions, scores, evidence ids and
\* quality it was stored with; only a security of which nothing at all was delivered
\* has no evidence (replay.py:1-12, 215-217, 319).
ReplayReproduces ==
    stage = "replayed" /\ Timed(record.manifest.snapshots) =>
        verdict = {<<c, "evidence_incomplete">> : c \in {d \in DOMAIN results : raws[d] = Nothing(FALSE)}}

\* The command line reproduces a stored run as well (replay.py:188).
StoredRunReplays ==
    stage = "replayed_by_cli" /\ (\A e \in record.manifest.snapshots : e.inputs.fetched # NoValue)
        => verdict = {}

\* No conclusion rests on data that a gate should have stopped: every security of the
\* request is fresh, adjusted and long enough, all report on one period, and what its
\* own scores lack is named (rule_engine.py:134-207, scoring.py:168-175).
ConclusionsAreFounded ==
    \A c \in DOMAIN results : Conclusive(results[c]) =>
        LET moment == facts[c].evaluatedAt IN
        /\ \A d \in DOMAIN results :
             /\ raws[d].adjusted /\ ~raws[d].error
             /\ {raws[d].quote, raws[d].lastBar} \cap {NoValue} = {}
             /\ \A day \in {raws[d].quote, raws[d].lastBar} :
                  Cardinality({x \in day .. moment : x % 7 < 5}) <= 2
             /\ {raws[c].end, raws[d].end} \cap {NoValue} = {} => raws[c].end = raws[d].end
        /\ raws[c].closes >= 60
        /\ results[c].dimension # "technical" =>
             \A f \in ToSet(FundamentalInputs) : raws[c][f] = NoValue =>
                 {<<"fundamental", f>>, <<"fundamental", "metrics">>}
                     \cap results[c].assessment.gaps # {}

\* Screening a board with enough members lists candidates or says why not
\* (screening.py:10-13, 240-242).
ScreeningAnswers == screened # "raised"
=============================================================================
