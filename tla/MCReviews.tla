----------------------------- MODULE MCReviews -----------------------------
(***************************************************************************)
(* Instances of the parts that share no state with the host, the graph or  *)
(* the trades: the position under one quote, the allocation review, the    *)
(* compliance exit, the research kernel, market data and board search, the *)
(* product shelf, the profile card, the experts and the accounts.  Each    *)
(* behaviour is of one subject; the variables of the others stay off.      *)
(***************************************************************************)
EXTENDS Integers, Sequences, FiniteSets, TLC

CONSTANTS Subjects, Off,
          \* FlatPosition: values in 1/100 of a cent per 1/100 of a share, rates in 1/1000
          NavScale, RateScale, Navs, SubscriptionRates, RedemptionRates, Amounts, Lots,
          MIN_ORDER_AMOUNT, MaxOrders,
          \* Allocation
          Scale, NoVol, Rounds,
          \* Compliance
          Drafts, Budgets, MaxAttempts,
          \* Research
          A, B, Codes, NoValue, Raws, Asks, Today, MinEligible, MaxCalls,
          \* Market
          T1, T2, Threads, ToolRounds, Order, Configurations, Threshold, NoSource,
          \* Boards
          Hosts, MaxRounds, MaxPages, MaxTotal, MaxRequests,
          \* Shelf
          ShelfCodes, Columns, Figures, Requests, Admins, MaxEdits, NoProduct, Null, FreshFrom,
          \* Profile
          Turns, Messages, Guesses, Forms, Options, Unset,
          \* Experts
          Domains, Registered, ChoiceFields, Wishes, Readings, Asides, Texts, Submissions,
          Bare, Junk, NoDialog, Abandoned, MaxSteps, ClarifyRounds,
          \* Accounts
          Names, Folded, Conversations, Nobody, MaxAccounts, AuthAttempts, AuthWindow, TokenTtl, MaxClock

VARIABLES subject,
          nav, subscriptionRate, redemptionRate, shares, costAmount, paid, received,
          orders,
          holdings, preference, limits, review,
          draft, sourced, auditOnly, budget, semantic, trusted, at, attempts, reasons,
          rewritten, result,
          raws, profiled, calls, results, facts, screened, stage, record, verdict,
          configured, tool, call, job, late, failures, breaker, session, cache, meta, sink, streak,
          kinds, fetch, tables, listing,
          products, latest, edits, begun,
          card, turn, said,
          expert, dialog, reply, shownForms,
          users, serial, sessions, ownRows, studied, kept, turnsOn, closing, closed, beside, hits, clock, boot

flatVars == <<nav, subscriptionRate, redemptionRate, shares, costAmount, paid, received,
              orders>>
reviewVars == <<holdings, preference, limits, review>>
exitVars == <<draft, sourced, auditOnly, budget, semantic, trusted, at, attempts, reasons,
              rewritten, result>>
researchVars == <<raws, profiled, calls, results, facts, screened, stage, record, verdict>>
marketVars == <<configured, tool, call, job, late, failures, breaker, session, cache, meta,
                sink, streak>>
boardVars == <<kinds, fetch, tables, listing>>
shelfVars == <<products, latest, edits, begun>>
profileVars == <<card, turn, said>>
expertVars == <<expert, dialog, reply, shownForms>>
accountVars == <<users, serial, sessions, ownRows, studied, kept, turnsOn, closing, closed, beside, hits, clock, boot>>

Flat == INSTANCE FlatPosition
Allocation == INSTANCE Allocation
Exit == INSTANCE Compliance
Kernel == INSTANCE Research
Market == INSTANCE Market_proofs
Boards == INSTANCE Boards
Shelf == INSTANCE Shelf
Profile == INSTANCE Profile_proofs
Experts == INSTANCE Experts
Accounts == INSTANCE Accounts_proofs

FlatOff ==
    /\ nav = Off /\ subscriptionRate = Off /\ redemptionRate = Off /\ shares = Off
    /\ costAmount = Off /\ paid = Off /\ received = Off
    /\ orders = Off

ReviewOff == holdings = Off /\ preference = Off /\ limits = Off /\ review = Off

ExitOff ==
    /\ draft = Off /\ sourced = Off /\ auditOnly = Off /\ budget = Off /\ semantic = Off
    /\ trusted = Off /\ at = Off /\ attempts = Off /\ reasons = Off
    /\ rewritten = Off /\ result = Off

ResearchOff ==
    /\ raws = Off /\ profiled = Off /\ calls = Off /\ results = Off /\ facts = Off
    /\ screened = Off /\ stage = Off /\ record = Off /\ verdict = Off

MarketOff ==
    /\ configured = Off /\ tool = Off /\ call = Off /\ job = Off /\ late = Off
    /\ failures = Off /\ breaker = Off /\ session = Off /\ cache = Off /\ meta = Off
    /\ sink = Off /\ streak = Off

BoardsOff == kinds = Off /\ fetch = Off /\ tables = Off /\ listing = Off

ShelfOff ==
    /\ products = Off /\ latest = Off /\ edits = Off /\ begun = Off

ProfileOff ==
    /\ card = Off /\ turn = Off /\ said = Off

ExpertsOff ==
    /\ expert = Off /\ dialog = Off /\ reply = Off /\ shownForms = Off

AccountsOff ==
    /\ users = Off /\ serial = Off /\ sessions = Off /\ ownRows = Off /\ studied = Off /\ kept = Off /\ turnsOn = Off /\ closing = Off /\ closed = Off /\ beside = Off /\ hits = Off /\ clock = Off /\ boot = Off

-----------------------------------------------------------------------------
(* The inputs of an allocation review. *)

Holding == [risk : {"R1", "R3", "R5", "unclear"}, value : {0, 1, 7}, vol : {NoVol, 0, 4, 20}]

ThreeOfATier ==
    {<<[risk |-> "R1", value |-> 3, vol |-> v1], [risk |-> "R2", value |-> x, vol |-> v2],
       [risk |-> r, value |-> 2, vol |-> v3]>> :
       v1 \in {4, 20}, v2 \in {5, NoVol}, v3 \in {3, 9}, x \in {1, 40}, r \in {"R1", "R4"}}

SomeHoldings == UNION {[1 .. n -> Holding] : n \in 1 .. 2} \cup ThreeOfATier

\* PORTFOLIO_MIN_WEIGHT and PORTFOLIO_MAX_WEIGHT: the defaults, and no limits.
SomeLimits == {[low |-> 500, high |-> 6000], [low |-> 0, high |-> 10000]}

ReviewInit ==
    /\ holdings \in SomeHoldings
    /\ preference \in {"R2", "R5", "none"}
    /\ limits \in SomeLimits
    /\ review = <<>>

Review ==
    /\ review = <<>>
    /\ review' = Allocation!ReviewPortfolio(holdings, preference, limits)
    /\ UNCHANGED <<holdings, preference, limits>>

Planned == subject = "allocation" /\ review # <<>> /\ review.priced # <<>>

-----------------------------------------------------------------------------
(* Drafts for the compliance exit: each body may be closed as a segment. *)

Bodies == {<<"text">>, <<"word">>, <<"1">>, <<"pitch">>, <<"left">>, <<"right">>,
           <<"variant">>, <<"1", "word", "2">>, <<"left", "word", "right">>}
Closed == {b \o <<e>> : b \in Bodies, e \in {"stop", "newline"}}
MCDrafts == {<<b>> : b \in Bodies} \cup {<<x, b>> : x \in Closed, b \in Bodies}
            \cup {<<x, y, b>> : x \in {<<"1", "stop">>, <<"left", "newline">>, <<"word", "stop">>},
                                y \in Closed, b \in Bodies}

-----------------------------------------------------------------------------
(* Data of two securities on day 301, a Tuesday, or later. *)

Sound == [error |-> FALSE, adjusted |-> TRUE, quote |-> 301, lastBar |-> 301,
          bars |-> 60, closes |-> 60, end |-> 200, ann |-> 250, basis |-> "ttm", mixed |-> FALSE,
          roe |-> 20, revenue |-> 12, profit |-> 3, pe |-> 20, pb |-> 14,
          trend |-> 4, momentum |-> 6, swing |-> 15, vol |-> 30, drawdown |-> -12,
          fetched |-> 301]

Missing(failed) ==
    [error |-> failed, adjusted |-> FALSE, quote |-> NoValue, lastBar |-> NoValue,
     bars |-> 0, closes |-> 0, end |-> NoValue, ann |-> NoValue, basis |-> "ttm",
     mixed |-> FALSE, roe |-> NoValue, revenue |-> NoValue, profit |-> NoValue,
     pe |-> NoValue, pb |-> NoValue, trend |-> 0, momentum |-> 0, swing |-> 0,
     vol |-> 0, drawdown |-> 0, fetched |-> NoValue]

MCRaws ==
    {Sound, Missing(FALSE), Missing(TRUE),
     [Sound EXCEPT !.quote = 299, !.fetched = 302],
     [Sound EXCEPT !.lastBar = NoValue],
     [Sound EXCEPT !.adjusted = FALSE],
     [Sound EXCEPT !.end = 61, !.ann = 50],
     [Sound EXCEPT !.closes = 59, !.mixed = TRUE],
     [Sound EXCEPT !.bars = 59, !.closes = 59, !.ann = 302],
     [Sound EXCEPT !.pe = NoValue, !.pb = NoValue, !.fetched = 302],
     [Sound EXCEPT !.roe = NoValue, !.revenue = NoValue, !.profit = NoValue, !.pe = -3,
                   !.pb = NoValue, !.basis = "static"],
     [Sound EXCEPT !.profit = -20, !.pe = 61, !.vol = 55],
     [Sound EXCEPT !.profit = -2, !.pe = 45, !.trend = -9, !.momentum = -20, !.swing = 60],
     [Sound EXCEPT !.fetched = NoValue, !.ann = NoValue, !.end = NoValue]}

MCAsks == {[codes |-> s, dimension |-> d] :
             s \in {<<A>>, <<B>>, <<A, B>>, <<A, A>>}, d \in {"both", "fundamental", "technical"}}

-----------------------------------------------------------------------------
(* Tool calls of two threads, and the sources that are configured.          *)

Asked(kind, code, of) == [kind |-> kind, code |-> code, of |-> of]

MCToolRounds ==
    {T1 :> Asked("quote", A, "listed") @@ T2 :> Asked("valuation", B, "beijing"),
     T1 :> Asked("history", A, "listed") @@ T2 :> Asked("history", B, "listed"),
     T1 :> Asked("financial", A, "listed") @@ T2 :> Asked("basic", B, "legacy"),
     T1 :> Asked("quote", A, "beijing") @@ T2 :> Asked("income", B, "listed"),
     T1 :> Asked("calendar", A, "listed") @@ T2 :> Asked("index", B, "index"),
     T1 :> Asked("news", A, "listed") @@ T2 :> Asked("breadth", B, "listed")}

MCOrder == <<"fuyao_mcp", "akshare", "baostock">>
MCConfigurations == {{"akshare", "baostock"}, {"fuyao_mcp", "akshare"}}

MCHosts == <<"first", "second">>

-----------------------------------------------------------------------------
(* What administrators and customers ask of the shelf: day 7 is still fresh. *)

MCColumns == {"risk_level", "custody_fee"}
MCFigures == {"nav", "return_1y"}

Edit(code, name, risk, custody, price, return, date) ==
    [kind |-> "save", code |-> code, name |-> name, nav_date |-> date,
     columns |-> ("risk_level" :> risk @@ "custody_fee" :> custody),
     figures |-> ("nav" :> price @@ "return_1y" :> return)]

MCRequests ==
    {Edit(A, "fund", "R1", 1, 385, Null, 7), Edit(A, "fund", "R4", Null, Null, 12, 0),
     Edit(A, "fund", Null, Null, Null, Null, 0), Edit(A, "fund", "R1", Null, Null, Null, 3),
     Edit(B, Null, "R1", 1, 100, Null, 7), Edit(B, "fund", "R2", 1, Null, Null, 0)}
    \cup [kind : {"switch"}, code : {A, B}, active : BOOLEAN]
    \cup [kind : {"read"}, code : {B}]
    \cup [kind : {"list"}, code : {Null}, include_inactive : BOOLEAN]

-----------------------------------------------------------------------------
(* What a customer says in a turn, and what the classifier makes of it.     *)

Phrase(field, words, means, explicit) ==
    [field |-> field, words |-> words, means |-> means, explicit |-> explicit]

MidHigh == Phrase("risk_preference", {"mid-high", "high"}, "R4", TRUE)
MaybeLow == Phrase("risk_preference", {"low"}, "R1", FALSE)
Never == Phrase("risk_preference", {"high"}, "R5", TRUE)
Budget == Phrase("budget_amount", {}, "50000", FALSE)
Goal == Phrase("investment_goal", {}, "growth", TRUE)
Follow == Phrase("stock_code", {}, "A", FALSE)

MCMessages == {{}, {MidHigh, Budget}, {MaybeLow, Follow}, {Goal}}

Guess(field, value, quote) == [field |-> field, value |-> value, quote |-> quote]

MCGuesses == {{}, {Guess("risk_preference", "R1", MaybeLow), Guess("budget_amount", "90000", Budget)},
              {Guess("risk_preference", "R5", Never), Guess("risk_preference", "R4", MidHigh)},
              {Guess("risk_preference", "R5", [MidHigh EXCEPT !.words = {"high"}])}}

MCForms == {{}, {<<"risk_preference", "steady">>}, {<<"holding_period", "for ever">>}}
MCOptions == [risk_preference |-> {"steady", "daring"}, holding_period |-> {"short", "long"}]

-----------------------------------------------------------------------------
(* What two experts may ask for, read and write, and what the user sends.   *)

MCRegistered == [stock |-> {"stock_target", "risk_preference"},
                 product |-> {"product_reference", "risk_preference"}]

MCSubmissions ==
    {{<<Bare, "stock_target", "text">>, <<Bare, "risk_preference", "steady">>,
      <<Bare, "product_reference", "text">>},
     {<<"stock", "risk_preference", "steady">>, <<"product", "risk_preference", "daring">>,
      <<Bare, "product_reference", "text">>},
     {<<Bare, "risk_preference", Junk>>}}

-----------------------------------------------------------------------------
(* Two names that differ in case only.                                      *)

MCFolded == [name \in {"ann", "Ann"} |-> "ann"]

-----------------------------------------------------------------------------
(* What the theorems need to know of the inputs.                            *)

\* Values, rates and amounts are natural numbers of their units.
ASSUME FlatAssumption ==
    /\ NavScale \in Nat \ {0} /\ RateScale \in Nat \ {0}
    /\ Navs \subseteq Nat \ {0} /\ SubscriptionRates \subseteq Nat /\ RedemptionRates \subseteq Nat
    /\ Amounts \subseteq Nat /\ Lots \subseteq Nat

\* A draft is a sequence of segments, a segment one of tokens.
ASSUME DraftsAssumption == Drafts \subseteq Seq(Seq(STRING))

\* Days are numbers, flags are flags, and what is missing is no day.
ASSUME ResearchAssumption ==
    /\ IsFiniteSet(Codes) /\ NoValue \notin Int /\ Today \in Int
    /\ \A ask \in Asks : Kernel!ToSet(ask.codes) \subseteq Codes
    /\ \A raw \in Raws : /\ {raw.fetched, raw.quote, raw.lastBar} \subseteq Int \cup {NoValue}
                         /\ raw.error \in BOOLEAN /\ raw.adjusted \in BOOLEAN

ASSUME ThresholdAssumption == Threshold \in Nat

\* The NAV is one of the figures of an edit.
ASSUME FiguresAssumption == "nav" \in Figures

\* Messages are made of phrases, and a form answers fields with values.
SpokenWords == UNION {p.words : p \in UNION Messages}
MeantValues == {p.means : p \in UNION Messages} \cup {answer[2] : answer \in UNION Forms}
ASSUME MessagesAssumption == Profile!WellFormed(SpokenWords, MeantValues)

\* Domains are finite, and what models and tools name are figures.
ASSUME FiguresNamedAssumption ==
    /\ IsFiniteSet(Domains)
    /\ \A words \in Asides \cup Texts \cup Readings : words \subseteq Int

ASSUME AccountsAssumption == MaxAccounts \in Nat

-----------------------------------------------------------------------------

Init ==
    /\ subject \in Subjects
    /\ IF subject = "flat" THEN Flat!Init ELSE FlatOff
    /\ IF subject = "allocation" THEN ReviewInit ELSE ReviewOff
    /\ IF subject = "exit" THEN Exit!Init ELSE ExitOff
    /\ IF subject = "research" THEN Kernel!Init ELSE ResearchOff
    /\ IF subject = "market" THEN Market!Init ELSE MarketOff
    /\ IF subject = "boards" THEN Boards!Init ELSE BoardsOff
    /\ IF subject = "shelf" THEN Shelf!Init ELSE ShelfOff
    /\ IF subject = "profile" THEN Profile!Init ELSE ProfileOff
    /\ IF subject = "experts" THEN Experts!Init ELSE ExpertsOff
    /\ IF subject = "accounts" THEN Accounts!Init ELSE AccountsOff

FlatStep ==
    /\ subject = "flat" /\ Flat!Next
    /\ UNCHANGED <<subject, reviewVars, exitVars, researchVars, marketVars, boardVars, shelfVars, profileVars, expertVars, accountVars>>
ReviewStep ==
    /\ subject = "allocation" /\ Review
    /\ UNCHANGED <<subject, flatVars, exitVars, researchVars, marketVars, boardVars, shelfVars, profileVars, expertVars, accountVars>>
ExitStep ==
    /\ subject = "exit" /\ Exit!Next
    /\ UNCHANGED <<subject, flatVars, reviewVars, researchVars, marketVars, boardVars, shelfVars, profileVars, expertVars, accountVars>>
ResearchStep ==
    /\ subject = "research" /\ Kernel!Next
    /\ UNCHANGED <<subject, flatVars, reviewVars, exitVars, marketVars, boardVars, shelfVars, profileVars, expertVars, accountVars>>
MarketStep ==
    /\ subject = "market" /\ Market!Next
    /\ UNCHANGED <<subject, flatVars, reviewVars, exitVars, researchVars, boardVars, shelfVars, profileVars, expertVars, accountVars>>
BoardsStep ==
    /\ subject = "boards" /\ Boards!Next
    /\ UNCHANGED <<subject, flatVars, reviewVars, exitVars, researchVars, marketVars, shelfVars, profileVars, expertVars, accountVars>>
ShelfStep ==
    /\ subject = "shelf" /\ Shelf!Next
    /\ UNCHANGED <<subject, flatVars, reviewVars, exitVars, researchVars, marketVars, boardVars, profileVars, expertVars, accountVars>>
ProfileStep ==
    /\ subject = "profile" /\ Profile!Next
    /\ UNCHANGED <<subject, flatVars, reviewVars, exitVars, researchVars, marketVars, boardVars, shelfVars, expertVars, accountVars>>
ExpertsStep ==
    /\ subject = "experts" /\ Experts!Next
    /\ UNCHANGED <<subject, flatVars, reviewVars, exitVars, researchVars, marketVars, boardVars, shelfVars, profileVars, accountVars>>
AccountsStep ==
    /\ subject = "accounts" /\ Accounts!Next
    /\ UNCHANGED <<subject, flatVars, reviewVars, exitVars, researchVars, marketVars, boardVars, shelfVars, profileVars, expertVars>>

Next == FlatStep \/ ReviewStep \/ ExitStep \/ ResearchStep \/ MarketStep \/ BoardsStep \/ ShelfStep \/ ProfileStep \/ ExpertsStep \/ AccountsStep

vars == <<subject, flatVars, reviewVars, exitVars, researchVars, marketVars, boardVars, shelfVars, profileVars, expertVars, accountVars>>

Spec == Init /\ [][Next]_vars

-----------------------------------------------------------------------------
(* The properties of the modules, each of behaviours of its subject. *)

\* FlatPosition: buying and redeeming everything pays at most the roundings.
RoundTripNeverPays == subject = "flat" => Flat!RoundTripNeverPays

\* Allocation: target weights add up to one within the configured limits.
KeepsLimits == Planned => Allocation!KeepsLimits(review, limits)

\* Compliance: no sensitive word is delivered outside supported segments.
UntrustedIsClean == subject = "exit" => Exit!UntrustedIsClean

\* Compliance: a rewrite drops no number and no supported sentence.
RewriteKeepsFacts == subject = "exit" => Exit!RewriteKeepsFacts

\* Research: a run recomputed from its facts gives what was stored.
ReplayReproduces == subject = "research" => Kernel!ReplayReproduces

\* Research: no conclusion rests on data that a gate should have stopped.
ConclusionsAreFounded == subject = "research" => Kernel!ConclusionsAreFounded

\* Market: a payload names its source and whether a better one failed.
HonestPayloads == subject = "market" => Market!HonestPayloads

\* Market: a breaker opens on Threshold errors in a row only.
OpensOnFailuresOnly == subject = "market" => Market!OpensOnFailuresOnly

\* Boards: an outage is never reported as "no board matches".
NotFoundIsNoOutage == subject = "boards" => Boards!NotFoundIsNoOutage

\* Research: the command line reproduces a stored run.
StoredRunReplays == subject = "research" => Kernel!StoredRunReplays

\* Research: a screening lists candidates or says why not.
ScreeningAnswers == subject = "research" => Kernel!ScreeningAnswers

\* Shelf: an edit takes no NAV away unless another edit came in between.
NavLostOnlyToOverlap == [][subject = "shelf" => Shelf!LosesNavToOverlapOnly]_vars

\* Shelf: an edit leaves the columns it does not send as they were.
UnsentColumnsStay == [][subject = "shelf" => Shelf!LeavesUnsentColumns]_vars

\* Profile: nothing stands on the card that the user has not said.
OnlyStatedFacts == subject = "profile" => Profile!OnlyStatedFacts

\* Experts: what an expert asks for comes back to it, and what it lacks is told.
ExpertsKeepTheirWord == subject = "experts" => Experts!ExpertsKeepTheirWord

\* Accounts: a closed account leaves nothing but what was written beside the closing.
ClosingLeavesNothing == subject = "accounts" => Accounts!ClosingLeavesNothing
=============================================================================
