------------------------------ MODULE BlockStats ------------------------------
(***************************************************************************)
(* BlockStats.Stats and CalculateBlockDurations (src/block_stats.go): the  *)
(* range [start, end] is resolved against the latest header, one errgroup  *)
(* goroutine per block number fetches its block and appends it, under      *)
(* blockMu, to the shared slice; after eg.Wait the blocks are sorted and   *)
(* the per-block durations, averages and 95th percentiles computed.        *)
(* The rate limiter only delays a fetch and is left out.                   *)
(***************************************************************************)
EXTENDS Integers, FiniteSets, FiniteSetsExt

CONSTANTS
    Nil,            \* a nil *big.Int
    StartChoices,   \* startBlock arguments (negative: relative to latest)
    EndChoices,     \* endBlock arguments, Nil included
    Latests,        \* numbers the latest header may carry
    TimeSteps,      \* seconds between a block's timestamp and its parent's
    TxCounts,       \* transactions a block may carry
    BaseFees        \* base fees a block may carry

VARIABLES
    spc,      \* where Stats is
    start,    \* startBlock
    end,      \* endBlock
    latest,   \* latestBlockNumber
    fetcher,  \* each block number's goroutine
    snap,     \* the slice a goroutine read while appending
    lock,     \* the goroutine holding blockMu, or Nil
    blocks,   \* the shared slice (its block numbers)
    egErr     \* a goroutine returned a non-nil error

vars == <<spc, start, end, latest, fetcher, snap, lock, blocks, egErr>>

Numbers == 0..Max(Latests \cup (EndChoices \ {Nil}))

-----------------------------------------------------------------------------
(* HeaderByNumber(nil) when endBlock is nil or startBlock negative.       *)
Header ==
    /\ spc = "header"
    /\ \/ /\ end = Nil \/ start < 0
          /\ \/ \E l \in Latests : latest' = l /\ spc' = "resolve"
             \/ spc' = "error" /\ UNCHANGED latest
       \/ /\ end # Nil /\ start >= 0
          /\ spc' = "resolve"
          /\ UNCHANGED latest
    /\ UNCHANGED <<start, end, fetcher, snap, lock, blocks, egErr>>

(* startBlock += latest when negative; endBlock.Int64() == 0 dereferences  *)
(* a nil endBlock, and a 0 one becomes latestBlockNumber (itself nil when  *)
(* no header was fetched, which the log line then dereferences); a start   *)
(* after the end is an error; otherwise one goroutine per block number.   *)
Resolve ==
    /\ spc = "resolve"
    /\ LET s == IF start < 0 THEN latest + start ELSE start
       IN
       \/ /\ end = Nil
          /\ spc' = "panicNil" /\ UNCHANGED <<start, end, fetcher>>
       \/ /\ end = 0 /\ latest = Nil
          /\ spc' = "panicNil" /\ UNCHANGED <<start, end, fetcher>>
       \/ /\ end # Nil /\ (end # 0 \/ latest # Nil)
          /\ LET e == IF end = 0 THEN latest ELSE end
             IN \/ s > e /\ spc' = "error" /\ UNCHANGED fetcher
                \/ /\ s <= e
                   /\ spc' = "wait"
                   /\ fetcher' = [n \in Numbers |-> IF n \in s..e THEN "running" ELSE "idle"]
             /\ start' = s /\ end' = e
    /\ UNCHANGED <<latest, snap, lock, blocks, egErr>>

(* BlockByNumber: a block; an "overflows uint256" or "transaction type not *)
(* supported" error, ignored (nil); any other error, returned.             *)
Fetch(n) ==
    /\ fetcher[n] = "running"
    /\ \/ fetcher' = [fetcher EXCEPT ![n] = "fetched"] /\ UNCHANGED egErr
       \/ fetcher' = [fetcher EXCEPT ![n] = "skipped"] /\ UNCHANGED egErr
       \/ fetcher' = [fetcher EXCEPT ![n] = "failed"] /\ egErr' = TRUE
    /\ UNCHANGED <<spc, start, end, latest, snap, lock, blocks>>

\* Mutant: blockMu not taken around the append.
AcquireUnlocked(n) ==
    /\ fetcher[n] = "fetched"
    /\ snap' = [snap EXCEPT ![n] = blocks]
    /\ fetcher' = [fetcher EXCEPT ![n] = "appending"]
    /\ UNCHANGED <<spc, start, end, latest, lock, blocks, egErr>>

(* blockMu.Lock(); the append reads the slice.                             *)
Acquire(n) ==
    /\ fetcher[n] = "fetched"
    /\ lock = Nil
    /\ lock' = n
    /\ snap' = [snap EXCEPT ![n] = blocks]
    /\ fetcher' = [fetcher EXCEPT ![n] = "appending"]
    /\ UNCHANGED <<spc, start, end, latest, blocks, egErr>>

\* Mutant: the goroutine captures the loop variable (no `bn := bn`) and so
\* appends the block after the range, the loop's final value.
ReleaseCapturedLoopVar(n) ==
    /\ fetcher[n] = "appending"
    /\ blocks' = snap[n] \cup {end + 1}
    /\ lock' = IF lock = n THEN Nil ELSE lock
    /\ fetcher' = [fetcher EXCEPT ![n] = "appended"]
    /\ UNCHANGED <<spc, start, end, latest, snap, egErr>>

\* Mutant: an early return between Lock and Unlock leaves blockMu held.
ReleaseKeepsLock(n) ==
    /\ fetcher[n] = "appending"
    /\ blocks' = snap[n] \cup {n}
    /\ fetcher' = [fetcher EXCEPT ![n] = "appended"]
    /\ UNCHANGED <<spc, start, end, latest, snap, lock, egErr>>

(* The append writes the slice back; blockMu.Unlock(); return nil.         *)
Release(n) ==
    /\ fetcher[n] = "appending"
    /\ blocks' = snap[n] \cup {n}
    /\ lock' = IF lock = n THEN Nil ELSE lock
    /\ fetcher' = [fetcher EXCEPT ![n] = "appended"]
    /\ UNCHANGED <<spc, start, end, latest, snap, egErr>>

(* eg.Wait() returns once every goroutine has, with the first error.       *)
Wait ==
    /\ spc = "wait"
    /\ \A n \in Numbers : fetcher[n] \in {"idle", "skipped", "failed", "appended"}
    /\ spc' = IF egErr THEN "error" ELSE "durations"
    /\ UNCHANGED <<start, end, latest, fetcher, snap, lock, blocks, egErr>>

(* sort; CalculateBlockDurations divides totalDuration by len(durations),  *)
(* which is len(blocks) - 1, and indexes durations[index95].               *)
Durations ==
    /\ spc = "durations"
    /\ spc' = IF Cardinality(blocks) < 2 THEN "panicDiv" ELSE "done"
    /\ UNCHANGED <<start, end, latest, fetcher, snap, lock, blocks, egErr>>

-----------------------------------------------------------------------------
Init ==
    /\ spc = "header"
    /\ start \in StartChoices
    /\ end \in EndChoices
    /\ latest = Nil
    /\ fetcher = [n \in Numbers |-> "idle"]
    /\ snap = [n \in Numbers |-> {}]
    /\ lock = Nil
    /\ blocks = {}
    /\ egErr = FALSE

Next ==
    \/ Header \/ Resolve \/ Wait \/ Durations
    \/ \E n \in Numbers : Fetch(n) \/ Acquire(n) \/ Release(n)

(* The calling goroutine and every errgroup goroutine run when they can;  *)
(* each waits for blockMu at most while the finitely many others hold it.  *)
Fairness ==
    /\ WF_vars(Header) /\ WF_vars(Resolve) /\ WF_vars(Wait) /\ WF_vars(Durations)
    /\ \A n \in Numbers : WF_vars(Fetch(n)) /\ WF_vars(Acquire(n)) /\ WF_vars(Release(n))

Spec == Init /\ [][Next]_vars /\ Fairness

-----------------------------------------------------------------------------
TypeOK ==
    /\ spc \in {"header", "resolve", "wait", "durations", "done", "error",
                "panicNil", "panicDiv"}
    /\ start \in Int /\ end \in Int \cup {Nil} /\ latest \in Latests \cup {Nil}
    /\ fetcher \in [Numbers -> {"idle", "running", "fetched", "skipped", "failed",
                                "appending", "appended"}]
    /\ snap \in [Numbers -> SUBSET Numbers]
    /\ lock \in Numbers \cup {Nil}
    /\ blocks \subseteq Numbers
    /\ egErr \in BOOLEAN

(* The refinement mapping: a goroutine is pending until it returns, and    *)
(* its block counts as collected from the write that ends its append.      *)
Abstract == INSTANCE BlockStatsAbstract WITH
    phase     <- IF spc \in {"header", "resolve"} THEN "setup" ELSE spc,
    pending   <- {n \in Numbers : fetcher[n] \in {"running", "fetched", "appending"}},
    collected <- blocks,
    failed    <- egErr

(* Stats implements BlockStatsAbstract: under blockMu every goroutine's    *)
(* read-append-write of the shared slice behaves as one atomic step that   *)
(* adds exactly its own block, whatever the errgroup's interleaving.       *)
AppendsAtomic == Abstract!Spec

(* Stats always ends: no errgroup goroutine waits forever for blockMu, so  *)
(* eg.Wait returns and the durations are computed, or Stats fails or       *)
(* panics; it never hangs.                                                 *)
StatsReturns == <>(spc \in {"done", "error", "panicNil", "panicDiv"})

BD == INSTANCE BlockDurations

\* Every assignment of block data to the numbers: timestamps rising by a
\* step of TimeSteps from block to block, a count and a base fee each.
BlockData ==
    [time : {[n \in Numbers |-> MapThenSumSet(LAMBDA k : step[k], 0..n)] :
             step \in [Numbers -> TimeSteps]},
     txs : [Numbers -> TxCounts], baseFee : [Numbers -> BaseFees]]

(* Observation (violated once two blocks share a timestamp or a base fee   *)
(* is 0): the recommended test parameters CalculateBlockDurations prints are *)
(* consistent with the blocks Stats collected, whatever gaps the skipped   *)
(* blocks leave: max_tps, the 95th percentile of the per-block TPS, is at  *)
(* least avg_tps, the transactions over the whole duration, and the base   *)
(* fee bump, the 95th percentile over the average, is never a multiplier   *)
(* below 100%.                                                             *)
SummaryBoundsAverages ==
    spc = "done" =>
        LET s == BD!SetToSortSeq(blocks, <)
        IN  \A d \in BlockData :
                LET p == BD!PerfStats(s, d.time, d.txs, d.baseFee)
                IN  p.tpsMax >= p.tpsStable /\ BD!LeqQ(<<100, 1>>, p.bump)

(* Stats returns (an error or the summary) for every argument; a nil or 0  *)
(* endBlock is never dereferenced while nil.                               *)
NoNilEndDereference == spc # "panicNil"

(* CalculateBlockDurations returns for every range Stats accepts, one      *)
(* block long or with every block skipped included.                        *)
ShortRangeNoPanic == spc # "panicDiv"

====
