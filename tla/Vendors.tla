------------------------------ MODULE Vendors ------------------------------
(***************************************************************************)
(* The data source adapters of infrastructure/market_data: what each of    *)
(* the three answers to a request, given what the vendor's endpoints       *)
(* answer.  An endpoint answers with rows, with none, it fails, or the     *)
(* installed library lacks it.  Rows, a code and a window are abstracted   *)
(* to kinds: a request is of a listed share, of one of the Beijing         *)
(* exchange, of an abolished code, of an index or of neither.              *)
(***************************************************************************)
EXTENDS Sequences, FiniteSets

Answers == {"rows", "none", "fails", "absent"}

Stocks == {"listed", "beijing", "legacy"}

\* ensure_current_code and baostock_symbol refuse a code before any request.
CurrentCode(r) == r.of # "legacy"
BaostockSymbol(r) == r.of \notin {"legacy", "beijing"}
CanonicalIndex(r) == r.of = "index"
Adjustable(r) == r.adjustment \in {"raw", "forward", "backward"}

\* Rows under unified names, ascending; an empty list counts as no answer.
Delivered(answer) == IF answer = "fails" THEN "raises" ELSE IF answer = "none" THEN "empty" ELSE "rows"

\* An adapter that turns both a failure and an empty answer into an error.
Insist(answer) == IF answer = "rows" THEN "rows" ELSE "raises"

\* The cache is asked first; it holds answers with rows only.
Cached(cached, outcome) == IF cached THEN "rows" ELSE outcome

FirstWithRows(answers) == \E i \in DOMAIN answers : answers[i] = "rows"

-----------------------------------------------------------------------------
(* AKShare.  An answer of a retried endpoint is that of its best attempt.   *)

AkshareDaily(r, v, cached) ==
    IF ~Adjustable(r) \/ ~CurrentCode(r) THEN "unsupported"
    ELSE Cached(cached, IF FirstWithRows(<<v["sina"], v["eastmoney"]>>) THEN "rows" ELSE "raises")

\* Industry and announcement date come from a snapshot that never fails a request.
AkshareBasic(r, v) == Delivered(v["code_name"])

AkshareValuation(r, v, cached) ==
    IF ~CurrentCode(r) \/ v["value_em"] = "absent" THEN "unsupported"
    ELSE Cached(cached, Insist(v["value_em"]))

AkshareFinancial(r, v) ==
    IF v["analysis"] = "absent" THEN "unsupported" ELSE Delivered(v["analysis"])

AkshareIncome(r, v) == Delivered(v["profit_sheet"])

AkshareIndex(r, v, cached) ==
    IF ~CanonicalIndex(r) THEN "unsupported"
    ELSE Cached(cached, IF v["index_daily"] = "absent" THEN "unsupported" ELSE Insist(v["index_daily"]))

\* Breadth, margin and northbound figures: one snapshot each.
AkshareSnapshot(endpoint, v, cached) ==
    IF v[endpoint] = "absent" THEN "unsupported" ELSE Cached(cached, Insist(v[endpoint]))

\* General news of the first of three sources, and the official bulletin.
NewsGeneral(v) == FirstWithRows(<<v["sina_news"], v["ths_news"], v["futu_news"]>>)
NewsCctv(v) == v["cctv"] = "rows"
AkshareNews(v, cached) ==
    Cached(cached, IF NewsGeneral(v) \/ NewsCctv(v) THEN "rows" ELSE "raises")

-----------------------------------------------------------------------------
(* Fuyao: codes "not found" and "not ready" are an empty answer, any other  *)
(* code or transport failure an error.                                      *)

FuyaoCall(answer) == Delivered(answer)

FuyaoDaily(r, v) ==
    IF ~Adjustable(r) \/ ~CurrentCode(r) THEN "unsupported" ELSE FuyaoCall(v["prices"])

FuyaoValuation(r, v) == IF ~CurrentCode(r) THEN "unsupported" ELSE FuyaoCall(v["valuation"])

\* The last four report periods, each by a call of its own.
FuyaoFinancial(r, v) == IF ~CurrentCode(r) THEN "unsupported" ELSE FuyaoCall(v["indicators"])

FuyaoIncome(r, v) == IF ~CurrentCode(r) THEN "unsupported" ELSE FuyaoCall(v["statements"])

FuyaoCalendar(v) == FuyaoCall(v["trading_days"])

FuyaoIndex(r, v) == IF ~CanonicalIndex(r) THEN "unsupported" ELSE FuyaoCall(v["index_prices"])

-----------------------------------------------------------------------------
(* BaoStock answers inside a session only; the session is Market's.          *)

BaostockRefuses(r) ==
    \/ r.method \notin {"daily", "basic", "valuation", "calendar", "index"}
    \/ r.method = "daily" /\ ~Adjustable(r)
    \/ r.method \in {"daily", "valuation"} /\ ~BaostockSymbol(r)
    \/ r.method = "basic" /\ r.of \in Stocks /\ ~BaostockSymbol(r)
    \/ r.method = "index" /\ ~CanonicalIndex(r)

\* Valuations and index bars that are empty are an error, other lists are not.
BaostockAnswer(r, answer) ==
    IF r.method \in {"valuation", "index"} THEN Insist(answer) ELSE Delivered(answer)

-----------------------------------------------------------------------------

\* The endpoints a request of a method can reach at a source.
Reaches(source, method) ==
    CASE source = "akshare" /\ method = "daily" -> {"sina", "eastmoney"}
      [] source = "akshare" /\ method = "basic" -> {"code_name"}
      [] source = "akshare" /\ method = "valuation" -> {"value_em"}
      [] source = "akshare" /\ method = "financial" -> {"analysis"}
      [] source = "akshare" /\ method = "income" -> {"profit_sheet"}
      [] source = "akshare" /\ method = "index" -> {"index_daily"}
      [] source = "akshare" /\ method \in {"breadth", "margin", "northbound"} -> {method}
      [] source = "akshare" /\ method = "news" -> {"sina_news", "ths_news", "futu_news", "cctv"}
      [] source = "fuyao_mcp" /\ method = "daily" -> {"prices"}
      [] source = "fuyao_mcp" /\ method = "valuation" -> {"valuation"}
      [] source = "fuyao_mcp" /\ method = "financial" -> {"indicators"}
      [] source = "fuyao_mcp" /\ method = "income" -> {"statements"}
      [] source = "fuyao_mcp" /\ method = "calendar" -> {"trading_days"}
      [] source = "fuyao_mcp" /\ method = "index" -> {"index_prices"}
      [] OTHER -> {}

\* A library without the optional endpoint is met only where the code looks.
CanLack == {"sina", "eastmoney", "value_em", "analysis", "index_daily", "breadth", "margin",
            "northbound", "sina_news", "ths_news", "futu_news", "cctv"}

VendorStates(source, method) ==
    {v \in [Reaches(source, method) -> Answers] :
       \A e \in DOMAIN v : v[e] = "absent" => e \in CanLack}

Akshare(r, v, cached) ==
    CASE r.method = "daily" -> AkshareDaily(r, v, cached)
      [] r.method = "basic" -> AkshareBasic(r, v)
      [] r.method = "valuation" -> AkshareValuation(r, v, cached)
      [] r.method = "financial" -> AkshareFinancial(r, v)
      [] r.method = "income" -> AkshareIncome(r, v)
      [] r.method = "index" -> AkshareIndex(r, v, cached)
      [] r.method \in {"breadth", "margin", "northbound"} -> AkshareSnapshot(r.method, v, cached)
      [] r.method = "news" -> AkshareNews(v, cached)
      [] OTHER -> "unsupported"

Fuyao(r, v) ==
    CASE r.method = "daily" -> FuyaoDaily(r, v)
      [] r.method = "valuation" -> FuyaoValuation(r, v)
      [] r.method = "financial" -> FuyaoFinancial(r, v)
      [] r.method = "income" -> FuyaoIncome(r, v)
      [] r.method = "calendar" -> FuyaoCalendar(v)
      [] r.method = "index" -> FuyaoIndex(r, v)
      [] OTHER -> "unsupported"

\* What a source answers to a request when its endpoints are in state v.
Ask(source, r, v, cached) == IF source = "akshare" THEN Akshare(r, v, cached) ELSE Fuyao(r, v)

\* Whether the answer is stored for the next request.
Caches(source, r) ==
    \/ source = "akshare" /\ r.method \in {"daily", "valuation", "index", "breadth", "margin",
                                           "northbound", "news"}
    \/ source = "baostock" /\ r.method \in {"valuation", "index"}
=============================================================================
