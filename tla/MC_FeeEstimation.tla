--------------------------- MODULE MC_FeeEstimation ---------------------------
(* Instantiation of FeeEstimation for TLC: the fee inputs of MC_GasFee and  *)
(* the window of MC_CongestionWindow.                                       *)
EXTENDS FeeEstimation, Naturals

\* validateConfig's switch (client.go): Priority_Degen, fast, standard, slow.
MC_Priorities == {"degen", "fast", "standard", "slow"}

\* Fee levels large enough for an adjustment to pass a cap.
MC_FeeLevels == {1, 5}

\* One metric in each congestion class, and the class boundaries.
MC_Metrics == {10, 33, 70, 100}

\* 0 is the unset maximum tip.
MC_TipCaps == {0, 6}

MC_PriceCaps == {5}

\* A window of 3 blocks; the latest block number is 1 (window wraps below 0),
\* 3 (the loop meets i = 1) or 4 (the whole window exists).
MC_LatestChoices == {1, 3, 4}

\* The channel bound scaled down from 20 to 2 so that a window larger than
\* the channel (B > 20 in the code) is checked.
MC_ChanLimit == 2

\* 2^64 behaves like any modulus above every latest block plus B here.
MC_Word == 16

CONSTANT nan

\* A chain whose blocks differ in fullness and whose base fee goes up and
\* down, so that the order of the window changes both metrics.
MC_GasRatio == [n \in 0..5 |-> CASE n = 0 -> 20 [] n = 1 -> 90 [] n = 2 -> 10
                                  [] n = 3 -> 60 [] n = 4 -> 40 [] OTHER -> 100]
MC_BaseFee == [n \in 0..5 |-> CASE n = 0 -> 7 [] n = 1 -> 5 [] n = 2 -> 8
                                 [] n = 3 -> 6 [] n = 4 -> 9 [] OTHER -> 10]

\* 1/log10(d + 10) for d = 0..3 (the longest window is B + 1), times 10^3
\* and rounded, small enough for exact products in TLC's integers.
MC_Weights == <<1000, 960, 927, 898>>
================================================================================
