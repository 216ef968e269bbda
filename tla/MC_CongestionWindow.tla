------------------------- MODULE MC_CongestionWindow -------------------------
(* Instantiation of CongestionWindow for TLC.                              *)
EXTENDS CongestionWindow

\* A window of 3 blocks; the latest block number is 1 (window wraps below 0),
\* 3 (the loop meets i = 1) or 4 (the whole window exists).
MC_LatestChoices == {1, 3, 4}
\* The channel bound scaled down from 20 to 2 so that a window larger than
\* the channel (B > 20 in the code) is checked.
MC_ChanLimit == 2
\* 2^64 behaves like any modulus above every latest block plus B here.
MC_Word == 16
=============================================================================
