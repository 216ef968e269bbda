--------------------------- MODULE BlockStatsAbstract ---------------------------
(***************************************************************************)
(* What BlockStats.Stats promises of its collection: every goroutine of    *)
(* the errgroup ends exactly once, and one that fetched a block adds it to *)
(* the collected set in a single atomic step; eg.Wait returns once none is *)
(* pending.  BlockStats implements it, blockMu being what makes its        *)
(* read-append-write of the slice one step.                                *)
(***************************************************************************)
EXTENDS Integers

CONSTANT Numbers   \* the block numbers a range may cover

VARIABLES
    phase,     \* "setup", "wait", "durations", "done", "error", "panicNil", "panicDiv"
    pending,   \* block numbers whose goroutine has not returned
    collected, \* block numbers in the slice
    failed     \* some goroutine returned an error

vars == <<phase, pending, collected, failed>>

Init ==
    /\ phase = "setup" /\ pending = {} /\ collected = {} /\ failed = FALSE

\* The range is resolved: goroutines start for a set of numbers, or Stats
\* ends before any starts.
Start ==
    /\ phase = "setup"
    /\ \/ \E S \in SUBSET Numbers : S # {} /\ pending' = S /\ phase' = "wait"
       \/ phase' \in {"error", "panicNil"} /\ UNCHANGED pending
    /\ UNCHANGED <<collected, failed>>

\* A goroutine returns: it added its block, skipped it, or failed.
Finish(n) ==
    /\ n \in pending
    /\ pending' = pending \ {n}
    /\ \/ collected' = collected \cup {n} /\ UNCHANGED failed
       \/ UNCHANGED <<collected, failed>>
       \/ failed' = TRUE /\ UNCHANGED collected
    /\ UNCHANGED phase

Wait ==
    /\ phase = "wait" /\ pending = {}
    /\ phase' = IF failed THEN "error" ELSE "durations"
    /\ UNCHANGED <<pending, collected, failed>>

Durations ==
    /\ phase = "durations"
    /\ phase' \in {"done", "panicDiv"}
    /\ UNCHANGED <<pending, collected, failed>>

Next == Start \/ Wait \/ Durations \/ \E n \in Numbers : Finish(n)

Spec == Init /\ [][Next]_vars

====
