--------------------------- MODULE CongestionWindow ---------------------------
(***************************************************************************)
(* The block window fetch of CalculateNetworkCongestionMetric              *)
(* (src/gas_adjuster.go): the latest block is fetched first, then one      *)
(* goroutine per block number of the window fetches its block              *)
(* (getBlockData: block cache, else BlockByNumber) and sends it on a       *)
(* buffered channel of min(B, 20) slots; a consumer goroutine appends what *)
(* arrives to the shared slice `blocks`; the caller waits for the fetchers *)
(* (wg.Wait), closes the channel and checks that enough blocks arrived.    *)
(***************************************************************************)
EXTENDS Integers, Sequences, FiniteSets, FiniteSetsExt, Functions

CONSTANTS
    B,              \* blocksNumber (Network.GasEstimationBlocks)
    LatestChoices,  \* block numbers BlockNumber() may return
    ChanLimit,      \* the literal 20 bounding the channel size
    Word            \* 2^64: the modulus of uint64 arithmetic

ASSUME B \in Nat \ {0}
ASSUME LatestChoices \subseteq Nat \ {0}
ASSUME ChanLimit \in Nat \ {0}
ASSUME Word \in Nat /\ \A l \in LatestChoices : l + B < Word

VARIABLES
    mpc,       \* where the calling goroutine is
    latest,    \* lastBlockNumber
    i,         \* the spawning loop's counter
    fetcher,   \* state of the goroutine fetching each block number
    chan,      \* dataCh: blocks sent and not yet received
    closed,    \* close(dataCh) has run
    consumer,  \* the goroutine ranging over dataCh
    blocks     \* the slice the consumer appends to (block numbers)

vars == <<mpc, latest, i, fetcher, chan, closed, consumer, blocks>>

Numbers == 0..(Max(LatestChoices) + 1)

\* uint64 subtraction.
USub(a, b) == (a - b) % Word

\* channelSize := blocksNumber, at most 20.
ChanCap == IF B > ChanLimit THEN ChanLimit ELSE B

\* int(float64(blocksNumber) * 0.8): the float product of an integer and
\* 0.8 never falls below the exact value, so this is its floor.
MinBlockCount == (4 * B) \div 5

-----------------------------------------------------------------------------
(* lastBlockNumber, err := m.Client.BlockNumber(ctx): an error returns.     *)
BlockNumber ==
    /\ mpc = "blockNumber"
    /\ \/ \E l \in LatestChoices :
            /\ latest' = l
            /\ mpc' = "lastBlock"
       \/ /\ mpc' = "failed"
          /\ UNCHANGED latest
    /\ UNCHANGED <<i, fetcher, chan, closed, consumer, blocks>>

(* getBlockData(lastBlockNumber); on success blocks := [lastBlock], the     *)
(* channel is made and the consumer goroutine started.                     *)
LastBlock ==
    /\ mpc = "lastBlock"
    /\ \/ /\ blocks' = <<latest>>
          /\ consumer' = "running"
          /\ i' = latest
          /\ mpc' = "spawn"
       \/ /\ mpc' = "failed"
          /\ UNCHANGED <<blocks, consumer, i>>
    /\ UNCHANGED <<latest, fetcher, chan, closed>>

(* for i := lastBlockNumber; i > lastBlockNumber-blocksNumber; i--          *)
(*   { if i == 1 { break }; wg.Add(1); go fetch(i) }                       *)
Spawn ==
    /\ mpc = "spawn"
    /\ \/ /\ i > USub(latest, B) /\ i # 1
          /\ fetcher' = [fetcher EXCEPT ![i] = "running"]
          /\ i' = i - 1
          /\ UNCHANGED mpc
       \/ /\ i > USub(latest, B) /\ i = 1
          /\ mpc' = "wait"
          /\ UNCHANGED <<fetcher, i>>
       \/ /\ i <= USub(latest, B)
          /\ mpc' = "wait"
          /\ UNCHANGED <<fetcher, i>>
    /\ UNCHANGED <<latest, chan, closed, consumer, blocks>>

(* A fetcher's getBlockData: a cache hit or BlockByNumber succeeds, or the  *)
(* RPC fails and the goroutine logs and returns (wg.Done).                 *)
Fetch(n) ==
    /\ fetcher[n] = "running"
    /\ fetcher' \in {[fetcher EXCEPT ![n] = "sending"],
                     [fetcher EXCEPT ![n] = "exited"]}
    /\ UNCHANGED <<mpc, latest, i, chan, closed, consumer, blocks>>

\* Mutant: the send does not block on a full channel.
SendBlockNoCapacity(n) ==
    /\ fetcher[n] = "sending"
    /\ chan' = Append(chan, n)
    /\ fetcher' = [fetcher EXCEPT ![n] = "exited"]
    /\ UNCHANGED <<mpc, latest, i, closed, consumer, blocks>>

(* dataCh <- block: blocks while the channel is full; then wg.Done.        *)
SendBlock(n) ==
    /\ fetcher[n] = "sending"
    /\ Len(chan) < ChanCap
    /\ chan' = Append(chan, n)
    /\ fetcher' = [fetcher EXCEPT ![n] = "exited"]
    /\ UNCHANGED <<mpc, latest, i, closed, consumer, blocks>>

\* Mutant: the consumer goroutine started only after wg.Wait() returned.
ConsumeAfterWait ==
    /\ consumer = "running"
    /\ closed
    /\ chan # <<>>
    /\ blocks' = Append(blocks, Head(chan))
    /\ chan' = Tail(chan)
    /\ UNCHANGED <<mpc, latest, i, fetcher, closed, consumer>>

(* The consumer: for block := range dataCh { blocks = append(blocks, block) } *)
Consume ==
    /\ consumer = "running"
    /\ chan # <<>>
    /\ blocks' = Append(blocks, Head(chan))
    /\ chan' = Tail(chan)
    /\ UNCHANGED <<mpc, latest, i, fetcher, closed, consumer>>

ConsumerExit ==
    /\ consumer = "running"
    /\ chan = <<>> /\ closed
    /\ consumer' = "exited"
    /\ UNCHANGED <<mpc, latest, i, fetcher, chan, closed, blocks>>

(* wg.Wait(); close(dataCh).                                               *)
CloseChannel ==
    /\ mpc = "wait"
    /\ \A n \in Numbers : fetcher[n] \in {"idle", "exited"}
    /\ closed' = TRUE
    /\ mpc' = "check"
    /\ UNCHANGED <<latest, i, fetcher, chan, consumer, blocks>>

(* if len(blocks) < minBlockCount: error; else the newest-first metric.     *)
(* len(blocks) is read with no synchronisation with the consumer.          *)
Check ==
    /\ mpc = "check"
    /\ \/ Len(blocks) < MinBlockCount /\ mpc' = "failed"
       \/ Len(blocks) >= MinBlockCount /\ mpc' = "done"
    /\ UNCHANGED <<latest, i, fetcher, chan, closed, consumer, blocks>>

-----------------------------------------------------------------------------
Init ==
    /\ mpc = "blockNumber"
    /\ latest = 0
    /\ i = 0
    /\ fetcher = [n \in Numbers |-> "idle"]
    /\ chan = <<>>
    /\ closed = FALSE
    /\ consumer = "none"
    /\ blocks = <<>>

Next ==
    \/ BlockNumber \/ LastBlock \/ Spawn \/ CloseChannel \/ Check
    \/ \E n \in Numbers : Fetch(n) \/ SendBlock(n)
    \/ Consume \/ ConsumerExit

(* Every goroutine that can run eventually runs.                           *)
Fairness ==
    /\ WF_vars(BlockNumber) /\ WF_vars(LastBlock) /\ WF_vars(Spawn)
    /\ WF_vars(CloseChannel) /\ WF_vars(Check)
    /\ \A n \in Numbers : WF_vars(Fetch(n)) /\ WF_vars(SendBlock(n))
    /\ WF_vars(Consume) /\ WF_vars(ConsumerExit)

Spec == Init /\ [][Next]_vars /\ Fairness

-----------------------------------------------------------------------------
TypeOK ==
    /\ mpc \in {"blockNumber", "lastBlock", "spawn", "wait", "check", "done", "failed"}
    /\ latest \in Numbers /\ i \in Numbers
    /\ fetcher \in [Numbers -> {"idle", "running", "sending", "exited"}]
    /\ chan \in Seq(Numbers) /\ Len(chan) <= ChanCap
    /\ closed \in BOOLEAN
    /\ consumer \in {"none", "running", "exited"}
    /\ blocks \in Seq(Numbers)

(* The spec (8.): the window the estimator computes on holds each block    *)
(* number at most once.                                                    *)
WindowUniqueByNumber == mpc = "done" => IsInjective(blocks)

(* len(blocks) is read after every block that was sent has been appended:  *)
(* nothing is left in the channel when the count is checked.               *)
CountSeesAllFetched == mpc = "check" => chan = <<>>

(* The spec (4.4.7): estimation succeeds only with at least ceil(0.8 * B)   *)
(* distinct blocks of the window.                                          *)
EnoughBlocksOnSuccess ==
    mpc = "done" => 5 * Cardinality(Range(blocks)) >= 4 * B

=============================================================================
