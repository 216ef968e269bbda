-------------------------------- MODULE GasFee --------------------------------
(***************************************************************************)
(* One fee suggestion of the gas estimator (src/gas_adjuster.go):          *)
(* GetSuggestedEIP1559Fees and GetSuggestedLegacyFees with every early     *)
(* return, and their arithmetic as operators.  Fees are integers (wei);   *)
(* the congestion metric is a percentage, the adjustment factor is in      *)
(* tenths and the buffer in percent, so the float products of the code     *)
(* become exact products truncated the way big.Float.Int truncates.       *)
(***************************************************************************)
EXTENDS Integers

CONSTANTS
    Priorities,   \* the priorities validateConfig lets through
    FeeLevels,    \* values a fee RPC or a fee-history percentile may take
    Metrics,      \* congestion metrics (percent) the window may yield
    TipCaps,      \* Network.GasEsimationMaxGasTipCap
    PriceCaps     \* Network.GasEsimationMaxGasPrice

VARIABLES
    mode,      \* "eip" or "legacy": which of the two functions runs
    prio,      \* Network.GasEstimationTxPriority
    tipCap,    \* the configured maximum tip
    priceCap,  \* the configured maximum gas price
    step,      \* where the function is
    live,      \* SuggestGasTipCap / SuggestGasPrice
    stats,     \* fee history percentiles: [base, tip] each [p25,p50,p99,max]
    metric,    \* CalculateNetworkCongestionMetric
    tip,       \* adjustedTipCap returned
    fee,       \* maxFeeCap (eip) or adjustedGasPrice (legacy) returned
    errs,      \* entries appended to m.Errors, a nil error included
    err        \* the error returned

vars == <<mode, prio, tipCap, priceCap, step, live, stats, metric, tip, fee, errs, err>>

Percentiles == {"p25", "p50", "p99", "max"}

\* Percentiles of one sample are ordered.
StatsOf(S) == {s \in [Percentiles -> S] : s.p25 <= s.p50 /\ s.p50 <= s.p99 /\ s.p99 <= s.max}

NoStats == [b \in {"base", "tip"} |-> [q \in Percentiles |-> 0]]

Larger(a, b) == IF a >= b THEN a ELSE b
Smaller(a, b) == IF a <= b THEN a ELSE b

\* getAdjustmentFactor, in tenths; a priority outside its domain is the
\* "Unknown priority" error.
AdjustmentFactor == [ultra |-> 15, fast |-> 12, standard |-> 10, slow |-> 8]

KnownPriorities == DOMAIN AdjustmentFactor

\* Mutant: the fast and standard percentiles swapped.
HistoricalPickSwapped(s, p) ==
    CASE p = "ultra"    -> s.max
      [] p = "fast"     -> s.p50
      [] p = "standard" -> s.p99
      [] p = "slow"     -> s.p25

\* HistoricalFeeData's switch: which percentile a priority reads.
HistoricalPick(s, p) ==
    CASE p = "ultra"    -> s.max
      [] p = "fast"     -> s.p99
      [] p = "standard" -> s.p50
      [] p = "slow"     -> s.p25

\* classifyCongestion.
ClassifyCongestion(m) ==
    CASE m < 33  -> "low"
      [] m <= 66 -> "medium"
      [] m <= 75 -> "high"
      [] OTHER   -> "ultra"

\* getBufferPercent, in percent.
BufferPercent == [low |-> 5, medium |-> 10, high |-> 15, ultra |-> 20]

\* big.Float(metric * factor) * float64(x), truncated by .Int(nil).
CongestionAdjustment(m, f, x) == (m * f * x) \div 1000

\* x plus its congestion buffer, truncated.
WithBuffer(x, m) == x + (x * BufferPercent[ClassifyCongestion(m)]) \div 100

\* suggestedGasTip := max(current, int64(historical)); add the congestion
\* adjustment; clamp to the configured maximum tip.
AdjustedTip(p, current, s, m, cap) ==
    LET suggested == Larger(current, HistoricalPick(s.tip, p))
    IN  Smaller(suggested + CongestionAdjustment(m, AdjustmentFactor[p], suggested), cap)

\* baseMaxFeeCap := int64(historical base fee) + adjustedTipCap, buffered.
MaxFeeCap(p, current, s, m, cap) ==
    WithBuffer(HistoricalPick(s.base, p) + AdjustedTip(p, current, s, m, cap), m)

\* The legacy price: adjusted, clamped to the maximum price, then buffered.
LegacyPrice(p, price, m, cap) ==
    WithBuffer(Smaller(price + CongestionAdjustment(m, AdjustmentFactor[p], price), cap), m)

-----------------------------------------------------------------------------
Fail(e) == step' = "failed" /\ err' = e

(* SuggestGasTipCap / SuggestGasPrice: an RPC error returns it.            *)
Suggest ==
    /\ step = "suggest"
    /\ \/ \E l \in FeeLevels :
            /\ live' = l
            /\ step' = IF mode = "eip" THEN "historical" ELSE "factor"
            /\ UNCHANGED err
       \/ Fail("rpc") /\ UNCHANGED live
    /\ UNCHANGED <<mode, prio, tipCap, priceCap, stats, metric, tip, fee, errs>>

(* HistoricalFeeData: a Stats error returns; an unknown priority logs,    *)
(* appends the still-nil err to m.Errors and returns zero fees, no error. *)
Historical ==
    /\ step = "historical"
    /\ \/ /\ prio \in KnownPriorities
          /\ \E sb \in StatsOf(FeeLevels), st \in StatsOf(FeeLevels) :
                stats' = [base |-> sb, tip |-> st]
          /\ step' = "factor"
          /\ UNCHANGED <<errs, err>>
       \/ /\ prio \notin KnownPriorities
          /\ errs' = errs + 1
          /\ step' = "factor"
          /\ UNCHANGED <<stats, err>>
       \/ Fail("stats") /\ UNCHANGED <<stats, errs>>
    /\ UNCHANGED <<mode, prio, tipCap, priceCap, live, metric, tip, fee>>

(* getAdjustmentFactor: an unknown priority returns its error.            *)
Factor ==
    /\ step = "factor"
    /\ \/ prio \in KnownPriorities /\ step' = "congestion" /\ UNCHANGED err
       \/ prio \notin KnownPriorities /\ Fail("priority")
    /\ UNCHANGED <<mode, prio, tipCap, priceCap, live, stats, metric, tip, fee, errs>>

(* CalculateNetworkCongestionMetric (CongestionWindow): an error returns. *)
Congestion ==
    /\ step = "congestion"
    /\ \/ \E m \in Metrics : metric' = m /\ step' = "plan" /\ UNCHANGED err
       \/ Fail("window") /\ UNCHANGED metric
    /\ UNCHANGED <<mode, prio, tipCap, priceCap, live, stats, tip, fee, errs>>

(* The arithmetic; getBufferPercent cannot fail on a classifyCongestion   *)
(* result.                                                                 *)
Plan ==
    /\ step = "plan"
    /\ \/ /\ mode = "eip"
          /\ tip' = AdjustedTip(prio, live, stats, metric, tipCap)
          /\ fee' = MaxFeeCap(prio, live, stats, metric, tipCap)
       \/ /\ mode = "legacy"
          /\ fee' = LegacyPrice(prio, live, metric, priceCap)
          /\ UNCHANGED tip
    /\ step' = "done"
    /\ UNCHANGED <<mode, prio, tipCap, priceCap, live, stats, metric, errs, err>>

Init ==
    /\ mode \in {"eip", "legacy"}
    /\ prio \in Priorities
    /\ tipCap \in TipCaps
    /\ priceCap \in PriceCaps
    /\ step = "suggest"
    /\ live = 0 /\ stats = NoStats /\ metric = 0
    /\ tip = 0 /\ fee = 0
    /\ errs = 0 /\ err = "none"

Next == Suggest \/ Historical \/ Factor \/ Congestion \/ Plan

Spec == Init /\ [][Next]_vars

-----------------------------------------------------------------------------
Rank == [slow |-> 1, standard |-> 2, fast |-> 3, ultra |-> 4]

TypeOK ==
    /\ mode \in {"eip", "legacy"}
    /\ prio \in Priorities
    /\ step \in {"suggest", "historical", "factor", "congestion", "plan", "done", "failed"}
    /\ live \in FeeLevels \cup {0}
    /\ metric \in Metrics \cup {0}
    /\ tip \in Nat /\ fee \in Nat /\ errs \in 0..1
    /\ err \in {"none", "rpc", "stats", "priority", "window"}

(* The spec: with the same live fee, fee history and congestion, a higher  *)
(* priority never yields a lower tip, max fee or legacy price.  This ties  *)
(* HistoricalFeeData's percentile switch to getAdjustmentFactor and the    *)
(* clamp.                                                                  *)
MonotoneInPriority ==
    step = "done" =>
        \A p, q \in KnownPriorities : Rank[p] <= Rank[q] =>
            IF mode = "eip"
            THEN /\ AdjustedTip(p, live, stats, metric, tipCap)
                        <= AdjustedTip(q, live, stats, metric, tipCap)
                 /\ MaxFeeCap(p, live, stats, metric, tipCap)
                        <= MaxFeeCap(q, live, stats, metric, tipCap)
            ELSE LegacyPrice(p, live, metric, priceCap)
                        <= LegacyPrice(q, live, metric, priceCap)

(* The spec's fee plan invariant "each component is capped by a configured *)
(* maximum", for the legacy price GetSuggestedLegacyFees returns.          *)
LegacyPriceWithinCap ==
    (step = "done" /\ mode = "legacy") => fee <= priceCap

(* A priority validateConfig accepts is one the estimator can price:       *)
(* getAdjustmentFactor never fails with "Unknown priority".                *)
ValidatedPriorityEstimates == err # "priority"

====
