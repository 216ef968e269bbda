----------------------------- MODULE BlockDurations -----------------------------
(***************************************************************************)
(* The summary CalculateBlockDurations (src/block_stats.go) computes over  *)
(* the blocks Stats collected, sorted by number.  A block is its number;   *)
(* its timestamp (seconds), transaction count and base fee are time[n],    *)
(* txs[n] and baseFee[n].  A float quotient is kept exact as a pair        *)
(* <<numerator, denominator>>; a zero denominator is the float Inf or NaN  *)
(* of a division by a zero duration.  Every statistic is taken over the    *)
(* len - 1 transitions: block 1's own data is never counted.              *)
(***************************************************************************)
EXTENDS Integers, Sequences, SequencesExt

\* Exact quotients.
LessQ(a, b) == a[1] * b[2] < b[1] * a[2]
LeqQ(a, b)  == a[1] * b[2] <= b[1] * a[2]

\* math.Ceil of a non-negative finite quotient.
Ceil(q) == (q[1] + q[2] - 1) \div q[2]

\* duration := blocks[i].Time() - blocks[i-1].Time(), for i in 1..len-1.
Durations(s, time) == [i \in 1..Len(s) - 1 |-> time[s[i + 1]] - time[s[i]]]

\* tps := transactions / duration.Seconds() if the duration is positive, else 0.
TpsValues(s, time, txs) ==
    LET d == Durations(s, time)
    IN  [i \in DOMAIN d |-> IF d[i] > 0 THEN <<txs[s[i + 1]], d[i]>> ELSE <<0, 1>>]

\* averageTPS := float64(totalTransactions) / totalDuration.Seconds().
AverageTPS(s, time, txs) ==
    <<FoldSeq(+, 0, [i \in 1..Len(s) - 1 |-> txs[s[i + 1]]]),
      FoldSeq(+, 0, Durations(s, time))>>

\* averageBlockBaseFee := totalBaseFee / uint64(len(blockBaseFeeValues)).
AverageBaseFee(s, baseFee) ==
    FoldSeq(+, 0, [i \in 1..Len(s) - 1 |-> baseFee[s[i + 1]]]) \div (Len(s) - 1)

\* index95 := int(0.95 * float64(len(durations))).
Index95(n) == (95 * n) \div 100

\* The value at index95 of the slice sorted ascending (Go indexes from 0).
Percentile95(v) == SortSeq(v, LessQ)[Index95(Len(v)) + 1]

\* calculateRatioPercentage: value1 / value2 * 100, 0 when value2 is 0.
CalculateRatioPercentage(v1, v2) == IF v2 = 0 THEN <<0, 1>> ELSE <<100 * v1, v2>>

\* The recommended performance/chaos test parameters: avg_tps, max_tps and
\* the base fee bump, with its "(no bump required)" or "(multiply)" label.
PerfStats(s, time, txs, baseFee) ==
    LET avgFee == AverageBaseFee(s, baseFee)
        p95Fee == Percentile95([i \in 1..Len(s) - 1 |-> <<baseFee[s[i + 1]], 1>>])[1]
        bump   == CalculateRatioPercentage(p95Fee, avgFee)
    IN  [tpsStable |-> Ceil(AverageTPS(s, time, txs)),
         tpsMax    |-> Ceil(Percentile95(TpsValues(s, time, txs))),
         bump      |-> bump,
         multiply  |-> bump[1] # 100 * bump[2]]

====
