------------------------------ MODULE FeeEstimation ------------------------------
(***************************************************************************)
(* GetSuggestedEIP1559Fees and GetSuggestedLegacyFees (GasFee) composed    *)
(* with the CalculateNetworkCongestionMetric call they make                *)
(* (CongestionWindow): the window's goroutines run while the fee function  *)
(* is at its congestion step, and that step returns the window's error or  *)
(* a metric only once the window function has returned.  The metric's      *)
(* float arithmetic is not modelled: a returned window yields any metric.  *)
(***************************************************************************)
CONSTANTS Priorities, FeeLevels, Metrics, TipCaps, PriceCaps,
          B, LatestChoices, ChanLimit, Word,
          GasRatio, BaseFee, Weights, NaN

VARIABLES mode, prio, tipCap, priceCap, step, live, stats, metric, tip, fee, errs, err,
          mpc, latest, i, fetcher, chan, closed, consumer, blocks

GF == INSTANCE GasFee
CW == INSTANCE CongestionWindow
CM == INSTANCE CongestionMetric

feeVars == <<mode, prio, tipCap, priceCap, step, live, stats, metric, tip, fee, errs, err>>
windowVars == <<mpc, latest, i, fetcher, chan, closed, consumer, blocks>>
vars == <<feeVars, windowVars>>

\* A step of the fee function other than its congestion call.
FeeStep == (GF!Suggest \/ GF!Historical \/ GF!Factor \/ GF!Plan) /\ UNCHANGED windowVars

\* A step of the window function itself, inside the congestion call.
CallerStep(A) == step = "congestion" /\ A /\ UNCHANGED feeVars

\* A step of a goroutine the window function started: it runs on its own,
\* during the call and after it returned.
GoroutineStep(A) == A /\ UNCHANGED feeVars

\* The congestion call returns what the window function returned.
CongestionReturn ==
    /\ mpc \in {"done", "failed"}
    /\ GF!Congestion
    /\ (step' = "plan") = (mpc = "done")
    /\ UNCHANGED windowVars

Init == GF!Init /\ CW!Init

WindowCaller == CW!BlockNumber \/ CW!LastBlock \/ CW!Spawn \/ CW!CloseChannel \/ CW!Check

WindowGoroutines ==
    \/ \E n \in CW!Numbers : CW!Fetch(n) \/ CW!SendBlock(n)
    \/ CW!Consume \/ CW!ConsumerExit

Next == FeeStep \/ CallerStep(WindowCaller) \/ GoroutineStep(WindowGoroutines) \/ CongestionReturn

(* The calling goroutine and the window's goroutines run when they can.    *)
Fairness ==
    /\ WF_vars(FeeStep) /\ WF_vars(CongestionReturn)
    /\ WF_vars(CallerStep(WindowCaller))
    /\ \A n \in CW!Numbers : WF_vars(GoroutineStep(CW!Fetch(n))) /\ WF_vars(GoroutineStep(CW!SendBlock(n)))
    /\ WF_vars(GoroutineStep(CW!Consume)) /\ WF_vars(GoroutineStep(CW!ConsumerExit))

Spec == Init /\ [][Next]_vars /\ Fairness

-----------------------------------------------------------------------------
TypeOK == GF!TypeOK /\ CW!TypeOK

(* GasFee's monotonicity in priority holds of the composed estimation.     *)
MonotoneInPriority == GF!MonotoneInPriority

(* The window the fetch returns, in whatever order its fetchers' blocks   *)
(* arrived and with the latest block twice, is weighted as the spec's      *)
(* newest-first mean: calculateNewestFirstNetworkCongestionMetric's sort   *)
(* and its distance len - 1 - i give each block its weight by number.      *)
NewestFirstIsSpecMean ==
    mpc = "done" => CM!SameQuotient(CM!NewestFirst(blocks), CM!SpecNewestFirst(blocks))

(* Observation: the simple strategy is the spec's (trend + ratio) / 2 over *)
(* the window re-sorted by block number.                                   *)
SimpleIsSpecMean ==
    mpc = "done" => CM!SameQuotient(CM!SimpleMetric(blocks), CM!SpecSimple(blocks))

(* A fee suggestion always returns, and leaves no goroutine of its window  *)
(* behind: the fetchers have sent or given up and the consumer has         *)
(* drained the channel and exited.                                         *)
EstimationReturns ==
    <>[](/\ step \in {"done", "failed"}
         /\ \A n \in CW!Numbers : fetcher[n] \in {"idle", "exited"}
         /\ consumer \in {"none", "exited"})

====
