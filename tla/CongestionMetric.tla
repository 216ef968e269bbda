---------------------------- MODULE CongestionMetric ----------------------------
(***************************************************************************)
(* The congestion metrics of src/gas_adjuster.go as operators over a       *)
(* window, the slice of block numbers CalculateNetworkCongestionMetric     *)
(* collected in arrival order.  A block is its number; its                 *)
(* gas_used/gas_limit is GasRatio[n] percent and its base fee BaseFee[n].  *)
(* A float quotient is kept exact as a pair <<numerator, denominator>>,    *)
(* the float NaN of 0/0 as NaN.  The newest-first weights                  *)
(* 1/log10(distance + 10) are the table Weights, indexed by distance + 1.  *)
(***************************************************************************)
EXTENDS Integers, Sequences, FiniteSets

CONSTANTS GasRatio, BaseFee, Weights, Word, NaN

\* int(x) of a uint64 x, two's complement.
IntOf(x) == IF x >= Word \div 2 THEN x - Word ELSE x

\* The comparator of slices.SortFunc: int(i.NumberU64() - j.NumberU64()).
BlockCmp(a, b) == IntOf((a - b) % Word)

\* slices.SortFunc(blocks, BlockCmp): each block goes before the first one
\* the comparator puts after it.
RECURSIVE InsertBlock(_, _)
InsertBlock(b, s) ==
    IF s = <<>> \/ BlockCmp(b, Head(s)) <= 0 THEN <<b>> \o s
    ELSE <<Head(s)>> \o InsertBlock(b, Tail(s))

RECURSIVE SortBlocks(_)
SortBlocks(s) == IF s = <<>> THEN <<>> ELSE InsertBlock(Head(s), SortBlocks(Tail(s)))

\* The loop of calculateNewestFirstNetworkCongestionMetric from index i on:
\* weightedSum and totalWeight, distance := len(blocks) - 1 - i.
RECURSIVE WeightedSums(_, _)
WeightedSums(s, i) ==
    IF i > Len(s) THEN <<0, 0>>
    ELSE LET w    == Weights[Len(s) - i + 1]
             rest == WeightedSums(s, i + 1)
         IN  <<GasRatio[s[i]] * w + rest[1], w + rest[2]>>

\* Mutant: the blocks are weighted in arrival order, not sorted.
NewestFirstUnsorted(s) ==
    LET sums == WeightedSums(s, 1)
    IN  IF sums[2] = 0 THEN <<0, 1>> ELSE sums

(* calculateNewestFirstNetworkCongestionMetric: sort ascending, weight     *)
(* each block by its distance from the newest, weightedSum / totalWeight,  *)
(* 0 when the total weight is 0.                                           *)
NewestFirst(s) ==
    LET sums == WeightedSums(SortBlocks(s), 1)
    IN  IF sums[2] = 0 THEN <<0, 1>> ELSE sums

(* calculateTrend: the base-fee increases between neighbours of the slice, *)
(* as it is, over len - 1 transitions (0/0, NaN, for one block).           *)
CalculateTrend(s) ==
    LET ups == Cardinality({i \in 2..Len(s) : BaseFee[s[i]] > BaseFee[s[i - 1]]})
    IN  IF Len(s) = 1 THEN NaN ELSE <<100 * ups, Len(s) - 1>>

(* calculateGasUsedRatio: the mean gas_used/gas_limit.                     *)
RECURSIVE RatioSum(_)
RatioSum(s) == IF s = <<>> THEN 0 ELSE GasRatio[Head(s)] + RatioSum(Tail(s))

CalculateGasUsedRatio(s) == <<RatioSum(s), Len(s)>>

(* calculateSimpleNetworkCongestionMetric: (trend + gasUsedRatio) / 2.     *)
SimpleMetric(s) ==
    LET t == CalculateTrend(s)
        r == CalculateGasUsedRatio(s)
    IN  IF t = NaN THEN NaN ELSE <<t[1] * r[2] + r[1] * t[2], 2 * t[2] * r[2]>>

-----------------------------------------------------------------------------
(* The spec's definitions (4.4.1), over the window re-sorted by block      *)
(* number (5): a block's distance is the number of blocks of the window    *)
(* newer than it, ties counted once each.                                  *)
Distance(s, k) == Cardinality({j \in DOMAIN s : s[j] > s[k] \/ (s[j] = s[k] /\ j > k)})

RECURSIVE SumOver(_, _)
SumOver(f, D) == IF D = {} THEN 0
                 ELSE LET k == CHOOSE k \in D : TRUE IN f[k] + SumOver(f, D \ {k})

SpecNewestFirst(s) ==
    <<SumOver([k \in DOMAIN s |-> GasRatio[s[k]] * Weights[Distance(s, k) + 1]], DOMAIN s),
      SumOver([k \in DOMAIN s |-> Weights[Distance(s, k) + 1]], DOMAIN s)>>

\* The block of the window with the k-th lowest number.
SpecTrend(s) ==
    LET Rank(k) == Cardinality(DOMAIN s) - Distance(s, k)
        At(r)   == s[CHOOSE k \in DOMAIN s : Rank(k) = r]
        ups     == Cardinality({r \in 2..Len(s) : BaseFee[At(r)] > BaseFee[At(r - 1)]})
    IN  <<100 * ups, Len(s) - 1>>

SpecSimple(s) ==
    LET t == SpecTrend(s)
        r == CalculateGasUsedRatio(s)
    IN  <<t[1] * r[2] + r[1] * t[2], 2 * t[2] * r[2]>>

\* Two exact quotients are equal.
SameQuotient(a, b) == a # NaN /\ b # NaN /\ a[1] * b[2] = b[1] * a[2]

====
