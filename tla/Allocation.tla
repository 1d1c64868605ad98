----------------------------- MODULE Allocation -----------------------------
(***************************************************************************)
(* The allocation review of domains/portfolio/allocation.py: weights of    *)
(* the holdings, their risk tiers against the reference bands of the       *)
(* customer's risk preference, and the target weights of the optimisation  *)
(* plan.                                                                   *)
(*                                                                         *)
(* Weights are integers, Scale parts of one; every division rounds to the  *)
(* nearest part, which stands for the rounding of floating point.  A       *)
(* holding is a record of its risk level, market value (0: no price) and   *)
(* volatility (NoVol: unknown; 0: of no use).                              *)
(***************************************************************************)
EXTENDS Integers, Sequences, FiniteSets, Functions, FiniteSetsExt

CONSTANTS Scale,
          NoVol,
          Rounds          \* iterations of the projection (100 in the code)

-----------------------------------------------------------------------------
(* Weights. *)

Parts(x, total) == (x * Scale + total \div 2) \div total

EqualWeight(n) == [i \in 1 .. n |-> Parts(1, n)]

\* Amounts that are not positive count as nothing; nothing at all is shared equally.
NormalizeWeights(w) ==
    LET kept == [i \in DOMAIN w |-> IF w[i] > 0 THEN w[i] ELSE 0]
        total == SumFunction(kept)
    IN IF total = 0 THEN EqualWeight(Len(w))
                    ELSE [i \in DOMAIN w |-> Parts(kept[i], total)]

Usable(vol) == vol # NoVol /\ vol > 0

InverseVolatility(vols) ==
    NormalizeWeights([i \in DOMAIN vols |-> IF Usable(vols[i]) THEN Scale \div vols[i] ELSE 0])

\* risk_budget_weights without budgets.
RiskParity(vols) == InverseVolatility(vols)

Clip(x, low, high) == IF x < low THEN low ELSE IF x > high THEN high ELSE x

\* Whether n weights between low and high can add up to one.
Feasible(n, low, high) == low <= high /\ low * n <= Scale /\ high * n >= Scale

\* (SubSeq has TLC evaluate the weights of a round once.)
Clipped(w, low, high) == SubSeq([i \in DOMAIN w |-> Clip(w[i], low, high)], 1, Len(w))

AddsUp(v) == SumFunction(v) - Scale \in -Len(v) .. Len(v)

\* A round: the clipped weights if they add up to one, and else in proportion to them.
Reclip(v, low, high) ==
    LET next == Clipped(v, low, high) IN
    IF AddsUp(next) THEN next ELSE NormalizeWeights(next)

\* Rounds times at most; limits that cannot be kept are not tried.
ConstrainedWeights(w, low, high) ==
    LET step[k \in 0 .. Rounds] ==
            IF k = 0 THEN NormalizeWeights(w) ELSE Reclip(step[k - 1], low, high)
    IN IF Feasible(Len(w), low, high) THEN step[Rounds] ELSE NormalizeWeights(w)

-----------------------------------------------------------------------------
(* Risk tiers and reference bands, the bands in percent. *)

TierKeys == {"low", "mid", "high"}

TierOf(risk) == CASE risk \in {"R1", "R2"} -> "low"
                  [] risk = "R3" -> "mid"
                  [] risk \in {"R4", "R5"} -> "high"
                  [] OTHER -> "unknown"

Band(low, high) == [low |-> low, high |-> high]

ReferenceBands ==
    [R1 |-> [low |-> Band(70, 90), mid |-> Band(10, 25), high |-> Band(0, 5)],
     R2 |-> [low |-> Band(55, 75), mid |-> Band(20, 35), high |-> Band(5, 15)],
     R3 |-> [low |-> Band(35, 55), mid |-> Band(25, 45), high |-> Band(15, 30)],
     R4 |-> [low |-> Band(20, 35), mid |-> Band(25, 45), high |-> Band(30, 45)],
     R5 |-> [low |-> Band(5, 20), mid |-> Band(20, 40), high |-> Band(45, 65)]]

Percent(p) == (Scale \div 100) * p

BandStatus(weight, band) == CASE weight < Percent(band.low) -> "below"
                              [] weight > Percent(band.high) -> "above"
                              [] OTHER -> "within"

\* The review compares the tiers' totals with the bands, tier by tier.
BandDeviation(weightByTier, bands) ==
    [t \in TierKeys |-> BandStatus(weightByTier[t], bands[t])]

\* Twice the midpoint of a band; a tier without a band has none.
TierMidpoint(bands, t) == IF t \in TierKeys THEN bands[t].low + bands[t].high ELSE 0

-----------------------------------------------------------------------------
(* The optimisation plan. *)

TiersOf(rows) == [i \in DOMAIN rows |-> TierOf(rows[i].risk)]

TierTotal(tiers, w, t) == SumFunctionOnSet(w, {i \in DOMAIN w : tiers[i] = t})

Within(rows, group) ==
    LET inverse == [i \in group |-> Scale \div rows[i].vol] IN
    IF \A i \in group : Usable(rows[i].vol)
    THEN [i \in group |-> Parts(inverse[i], SumFunction(inverse))]
    ELSE [i \in group |-> Parts(1, Cardinality(group))]

\* What each tier that is held gets: its midpoint, or the same for all if none has one.
TierShare(tiers, bands, t) ==
    IF \E u \in Range(tiers) : TierMidpoint(bands, u) > 0 THEN TierMidpoint(bands, t) ELSE 1

\* Targets before the limits: the tier's share, split within the tier.
BandTarget(rows, bands) ==
    LET tiers == TiersOf(rows)
        group(t) == {i \in DOMAIN rows : tiers[i] = t}
        share == [t \in Range(tiers) |-> TierShare(tiers, bands, t)]
    IN [i \in DOMAIN rows |->
           (share[tiers[i]] * Within(rows, group(tiers[i]))[i]) \div SumFunction(share)]

Target(rows, bands, limits) ==
    ConstrainedWeights(IF bands = <<>> THEN Within(rows, DOMAIN rows) ELSE BandTarget(rows, bands),
                       limits.low, limits.high)

Direction(delta) == CASE delta > Percent(2) -> "raise"
                      [] delta < -Percent(2) -> "lower"
                      [] OTHER -> "keep"

\* The plan compares the tiers with the bands itself, and names those not held.
TierGaps(tiers, current, bands) ==
    [t \in TierKeys |-> IF t \notin Range(tiers) THEN "absent"
                        ELSE BandStatus(TierTotal(tiers, current, t), bands[t])]

OptimizationPlan(rows, weights, bands, limits) ==
    LET current == NormalizeWeights(weights)
        target == Target(rows, bands, limits)
        tiers == TiersOf(rows)
    IN [target |-> target,
        direction |-> [i \in DOMAIN rows |-> Direction(target[i] - current[i])],
        tierTargets |-> [t \in Range(tiers) |-> TierTotal(tiers, target, t)],
        gaps |-> IF bands = <<>> THEN <<>> ELSE TierGaps(tiers, current, bands),
        unrealizable |-> IF bands = <<>> THEN {} ELSE TierKeys \ Range(tiers),
        uncovered |-> {i \in DOMAIN rows : ~Usable(rows[i].vol)}]

-----------------------------------------------------------------------------
(* The review. *)

\* Holdings without a price are reported, never counted.
PricedHoldings(holdings) == SelectSeq(holdings, LAMBDA h : h.value > 0)

\* Each holding's part of the variance, without correlation.
Variance(weights, vols) ==
    LET square(x) == x * x
    IN [i \in DOMAIN vols |-> square((weights[i] * vols[i]) \div 1000)]

\* Its share of the whole; <<>> if the portfolio has no risk.
RiskContribution(weights, vols) ==
    LET part == Variance(weights, vols) IN
    IF SumFunction(part) = 0 THEN <<>>
    ELSE [i \in DOMAIN vols |-> Parts(part[i], SumFunction(part))]

Concentration(w) ==
    [top |-> Max(Range(w)), hhi |-> SumFunction([i \in DOMAIN w |-> (w[i] * w[i]) \div Scale])]

\* A volatility of zero is a known one to the statistics, and none to the plan.
Measured(priced) == SelectSeq(priced, LAMBDA h : h.vol # NoVol)

Covered(weights, priced) ==
    LET kept == SelectSeq([i \in DOMAIN priced |-> i], LAMBDA i : priced[i].vol # NoVol)
    IN [k \in DOMAIN kept |-> weights[kept[k]]]

\* Weights to compare with, over the measured holdings and within the limits.
ReferenceWeights(vols, limits) ==
    LET kept(w) == ConstrainedWeights(w, limits.low, limits.high) IN
    IF vols = <<>> THEN {}
    ELSE {kept(EqualWeight(Len(vols))), kept(InverseVolatility(vols)), kept(RiskParity(vols))}

ReviewPortfolio(holdings, preference, limits) ==
    LET priced == PricedHoldings(holdings)
        weights == NormalizeWeights([i \in DOMAIN priced |-> priced[i].value])
        bands == IF preference \in DOMAIN ReferenceBands THEN ReferenceBands[preference] ELSE <<>>
        tiers == TiersOf(priced)
        totals == [t \in TierKeys \cup {"unknown"} |-> TierTotal(tiers, weights, t)]
        measured == Measured(priced)
        vols == [i \in DOMAIN measured |-> measured[i].vol]
    IN IF priced = <<>>
       THEN [priced |-> priced, limitations |-> {"no_priced_holdings"}]
       ELSE [priced |-> priced,
             weights |-> weights,
             tiers |-> totals,
             deviations |-> IF bands = <<>> THEN <<>> ELSE BandDeviation(totals, bands),
             concentration |-> Concentration(weights),
             contribution |-> RiskContribution(NormalizeWeights(Covered(weights, priced)), vols),
             reference |-> ReferenceWeights(vols, limits),
             plan |-> OptimizationPlan(priced, weights, bands, limits),
             limitations |->
                (IF Len(measured) < Len(priced) THEN {"partial_risk_metrics"} ELSE {})
                \cup (IF bands = <<>> THEN {"profile_missing"} ELSE {})]

-----------------------------------------------------------------------------
(* What a review promises; r is the review of holdings under a preference.  *)

\* The targets and the reference weights keep the configured limits whenever that is possible, and add up to
\* one: an iteration that stops too early shows a customer 63% where 60% is the limit.
KeepsLimits(r, limits) ==
    \A target \in {r.plan.target} \cup r.reference :
        /\ AddsUp(target)
        /\ Feasible(Len(target), limits.low, limits.high)
           => \A i \in DOMAIN target : target[i] \in limits.low - 2 .. limits.high + 2

=============================================================================
