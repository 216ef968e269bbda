---------------------------- MODULE MC_Dispatch ----------------------------
(* Instantiation of Dispatch for TLC: two keys, two callers.               *)
EXTENDS Dispatch

CONSTANTS k1, k2, c1, c2

\* Each caller has its own key (the usual load-test setup).
MC_KeyOfOwn == [c \in {c1, c2} |-> IF c = c1 THEN k1 ELSE k2]
\* A single caller.
MC_KeyOfSingle == [c \in {c1} |-> k1]
\* Both callers use the same key (NewTXOpts uses key 0 for everyone).
MC_KeyOfShared == [c \in {c1, c2} |-> k1]

MC_Config(sim, estOn, prot, fees, lvl, json) ==
    [simulated |-> sim, estimation |-> estOn, protection |-> prot,
     eip1559 |-> fees, tracing |-> lvl, traceToJson |-> json]

\* A live network with estimation, protection and EIP-1559 fees, and one
\* with fixed legacy fees and no protection.
MC_Configs ==
    { MC_Config(FALSE, TRUE, TRUE, TRUE, "REVERTED", TRUE),
      MC_Config(FALSE, FALSE, FALSE, FALSE, "ALL", FALSE) }

\* Estimation on, EIP-1559 fees, no protection.
MC_ConfigsEstimating ==
    { MC_Config(FALSE, TRUE, FALSE, TRUE, "REVERTED", TRUE) }
=============================================================================
