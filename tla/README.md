# TLA+ models of seth

This directory holds TLA+ models of the seth Ethereum client library (`src/`).
They are checked with TLC. Each module models one part of the code, translated
from the source. Each `MC_*.tla` / `MC_*.cfg` pair instantiates a module with
small constants for one question. `PROJECT.json` lists every component, run,
mutant, source mapping, finding and hazard.

## The system

seth wraps a go-ethereum RPC client (`Client`, `src/client.go`). A test
program (often many goroutines of a load test) calls `NewTXKeyOpts(key)` to
get transaction options, sends the transaction through an abigen binding and
passes the result to `Decode`, which waits for the receipt and decodes/traces
it. The parts and how they interact:

| Part | Source | State | Interacts with |
|---|---|---|---|
| Transaction dispatch | `client.go` `NewTXKeyOpts`, `getNonceStatus`, `getProposedTransactionOptions`, `CalculateGasEstimations`, `configureTransactionOpts`, `Decode`, `WaitMined` | `m.Errors` (shared slice), `m.Cfg.Network.EIP1559DynamicFees` (shared flag, written on downgrade) | the node (nonces, mempool, receipts), the gas estimator |
| Fee suggestion | `gas_adjuster.go` `GetSuggestedEIP1559Fees`, `GetSuggestedLegacyFees`, `HistoricalFeeData`, factor/buffer/classification | none of its own; appends to `m.Errors` | the block window fetch, fee-history statistics |
| Block window fetch | `gas_adjuster.go` `CalculateNetworkCongestionMetric` | fetcher goroutines, a buffered channel, a consumer goroutine, the `blocks` slice | block cache, node |
| Congestion metric arithmetic | `gas_adjuster.go` `calculate*` | none (pure, floating point) | |
| Block statistics | `block_stats.go` `Stats`, `CalculateBlockDurations` | errgroup goroutines, `blocks` under `blockMu` | node, rate limiter |
| Construction and configuration | `config.go` `ReadConfig`, `client.go` `NewClientWithConfig`, `NewClientRaw`, `TransferETHFromKey` | the `Config`, the NonceManager's counter, errgroup funding goroutines | node, everything above |
| Contract deployment | `client.go` `DeployContract`, `DeployContractFromContractStore` | the contract map, the ContractStore's ABIs, the contract map file | node, configuration |
| CLI | `cmd/seth.go` `RunCLI` (Before hook, gas/keys/trace actions) | the `NETWORK` environment variable, the command | builds a client once, through `NewClient` or, for `trace`, `NewClientWithConfig` |

The NonceManager, LFU block cache, Tracer, ABIFinder, ContractStore and
GasEstimator are called by this code but are not in `src/`.

The hard behaviours are:
- Concurrent callers share one node view per key, and the shared `m.Errors` and
  EIP-1559 flag with no lock.
- The node's replies race the client's reads: a block can be mined between two
  RPCs, a reply can be lost, and `WaitMined` can time out while a transaction
  is still pending.
- The window fetch fans out to goroutines that meet the consumer on a bounded
  channel.
- `Stats` fans out to an errgroup whose goroutines append under a mutex.
- `NewClientRaw` funds the ephemeral addresses from key 0 in parallel
  goroutines that share key 0's NonceManager counter; one failed transfer
  cancels the others and can leave a nonce gap.
- `DeployContract` retries `WaitDeployed` for a lagging node but not for a
  timeout.

## Modules

### Dispatch (`Dispatch.tla`, `MC_Dispatch.tla`)

The pipeline of each caller, one action per step:
- `ReadPending` is `PendingNonceAt`.
- `ReadLatest` is `NonceAt` followed by the pending-nonce protection panic.
- `NonceStatusFailed` is the error path that appends to `m.Errors` and returns
  empty options.
- `Estimate`, `EipCall` and `LegacyCall` are the three branches of
  `CalculateGasEstimations`, the latter being the `calulcateLegacyFees`
  closure. A failed EIP-1559 estimation may downgrade the client
  (`eip := FALSE`) and run the legacy estimation.
- `Configure` is `configureTransactionOpts`, which reads the flag again.
- `Send` is the binding, which refuses without a signer or with a used nonce.
  A send that reaches the node can still be reported as an error, when the
  reply is lost.
- `Decode` covers the `m.Errors` refusal, the `txErr` return and the
  `tx == nil` case.
- `ReceiptFound` is the rest of `Decode`: the tracing-level test and the
  `ErrNoABIMethod` branch. `IsNoABIMethodSentinel` models
  `errors.Is(err, errors.New(...))`, which is always false.
- `Timeout` is the expiry of `WaitMined`'s context.

`Init` includes the start-up EIP-1559 probe of `NewClientRaw`
(`InitialFeeMode`). That probe can leave an error in `m.Errors` and the client
downgraded.

The node is the environment, modelled from go-ethereum's documented behaviour
and not from this repository:
- each key has a mempool (`pool`) and a chain (`chain`);
- `PendingNonce` is the latest nonce plus the contiguous run of pool nonces;
- `Mine` takes pool transactions in nonce order and marks each mined one
  success or reverted;
- `Drop` evicts a pending transaction.

Data is abstracted as follows:
- fees are `"nil" | "fallback" | "estimated"`;
- a transaction is `<<caller, call number>>`;
- `m.Errors` is kept as empty/non-empty, because the code only tests
  `len > 0`.

History variables record nonce clashes (`clash`), fee fallbacks (`fellBack`)
and undecodable reverts (`undecodable`).

### CongestionWindow (`CongestionWindow.tla`)

The fetch in `CalculateNetworkCongestionMetric`:
- `BlockNumber` and `LastBlock` fetch the latest block.
- `LastBlock` also starts the consumer goroutine.
- `Spawn` is the `for` loop, with uint64 subtraction (`USub`) and the `i == 1`
  break.
- `Fetch` and `SendBlock` are one fetcher goroutine. `SendBlock` blocks while
  the `min(B, 20)`-slot channel is full.
- `Consume` and `ConsumerExit` are the `range dataCh` consumer.
- `CloseChannel` is `wg.Wait(); close(dataCh)`.
- `Check` is the `len(blocks) < int(0.8 B)` test. It reads `len(blocks)` with
  no synchronisation with the consumer.

Blocks are their numbers.

### GasFee (`GasFee.tla`)

One call of `GetSuggestedEIP1559Fees` or `GetSuggestedLegacyFees`:
- `Suggest`, `Historical`, `Factor` and `Congestion` are the early returns.
- `HistoricalFeeData`'s unknown-priority branch appends a nil error and goes on
  with zero fees.
- `Plan` does the arithmetic through operators (`AdjustedTip`, `MaxFeeCap`,
  `LegacyPrice`, `ClassifyCongestion`, `BufferPercent`, `AdjustmentFactor`,
  `HistoricalPick`).

Fees are integers. The metric is in percent, the factor in tenths and the
buffer in percent, so each float product becomes an exact product truncated
the way `big.Float.Int` truncates. Float rounding is not modelled. The
priority comes from the set `validateConfig` accepts. The fee-history
percentiles are an ordered input, because their source (`GasEstimator`) is not
in `src/`.

### BlockStats (`BlockStats.tla`)

- `Header` is `HeaderByNumber(nil)` when needed.
- `Resolve` covers the relative start, the `endBlock.Int64() == 0` test, which
  dereferences a nil `endBlock`, and the start-after-end error.
- `Fetch` models one errgroup goroutine: it gets a block, skips an ignored
  error, or fails.
- `Acquire` and `Release` are `blockMu.Lock(); blocks = append(blocks, b);
  Unlock()`. The append is split into its read and its write, so that a lost
  update is visible to the checker.
- `Wait` is `eg.Wait()`.
- `Durations` is `CalculateBlockDurations`, which panics with fewer than two
  blocks.
- `Fairness` is weak fairness on the calling goroutine's steps and on each
  errgroup goroutine's fetch, lock and unlock.
- The observation `SummaryBoundsAverages` reads the summary of the collected
  blocks through `BlockDurations`, for every assignment (`BlockData`) of
  timestamps, counts and base fees to the block numbers.

### BlockDurations (`BlockDurations.tla`)

`CalculateBlockDurations`'s arithmetic as operators over the blocks sorted by
number. Quotients are exact pairs. `Durations` and `TpsValues` are the loop
over the len - 1 transitions, with TPS 0 for a zero duration. `AverageTPS` and
`AverageBaseFee` are the averages, the latter a uint64 floor division.
`Percentile95` sorts and reads index `Index95(n) = int(0.95 n)`.
`CalculateRatioPercentage` is the helper of the same name. `PerfStats` is the
recommended test parameters: `math.Ceil` of the average and 95th-percentile
TPS, and the base fee bump with its "(multiply)" label. The gas used and gas
limit statistics, the log lines and the TOML marshalling are left out.

### CongestionMetric (`CongestionMetric.tla`)

The congestion metrics of `gas_adjuster.go` as operators over a window of
block numbers in arrival order. `SortBlocks` is `slices.SortFunc` with the
code's comparator `int(i - j)` on uint64 block numbers (`BlockCmp`, mod
`Word`). `WeightedSums` and `NewestFirst` are the newest-first loop, which
returns 0 for a zero total weight. `CalculateTrend`, `CalculateGasUsedRatio`
and `SimpleMetric` are the simple metric; one block gives 0/0, the model value
`NaN`. The weights 1/log10(d + 10) are the table `Weights`, scaled by 1000 and
rounded. `Distance`, `SpecNewestFirst`, `SpecTrend` and `SpecSimple` are the
spec's definitions (4.4.1) over the window re-sorted by number. They are the
reference the code's operators are checked against.

### FeeEstimation (`FeeEstimation.tla`, `MC_FeeEstimation.tla`)

Composes GasFee with CongestionWindow through `INSTANCE`. The window
function's own steps (`CallerStep`) run only while the fee function is at its
congestion step. The goroutines it starts (`GoroutineStep`) run on their own,
also after the call returned. `CongestionReturn` is the congestion step: it
returns the window's error, or a metric once the window function has returned.
The metric the fee arithmetic uses is any value of `Metrics`. The exact metric
of the window the fetch returned is checked separately against the spec,
through `CongestionMetric`.

### BlockStatsAbstract (`BlockStatsAbstract.tla`)

What `Stats` promises: a set of block numbers is pending, and each goroutine
finishes in one atomic step, adding its block to the collected set, skipping
it, or failing the group. `BlockStats` maps onto it (`Abstract`, a refinement
mapping in which a goroutine is pending until its append's write).

### Construction (`Construction.tla`)

`NewClient` from the environment to a client:
- `ReadConfig` selects the network (`SelectedNetwork`, a CASE over
  `SETH_NETWORK`, the `Default` template and a `[network]` table), and appends
  the root key; a missing path, network or root key is an error.
- `NewClientWithConfig` validates and appends the ephemeral keys.
- `NewClientRaw` sets the NonceManager's counter to the node's pending nonce
  (`PendingNonce`) and, in ephemeral mode, starts one goroutine per address
  after key 0.
- A goroutine is `TransferCheck`, `NonceLock` and `NonceUnlock` (NextNonce,
  split at its lock), `Send` (refused, accepted, or accepted with the reply
  lost), `Receipt` and `Timeout` (`WaitMined`'s context, or egCtx cancelled).
  `Fail` cancels egCtx.
- `Collect` is `eg.Wait`; `Mine` is key 0's node.
- `IsSimulatedNetwork` and `ShoulSaveDeployedContractMap` are the
  configuration's save decision.
- `GetMaxConcurrency` is the number of keys a load test may use.

The NonceManager is not in `src/`; `NonceLock`/`NonceUnlock` follow the spec
(a counter synced once, then read and advanced under a lock). No property is
checked of the NonceManager alone: it would hold by that spec-modelled lock,
whatever `src/` does.

### Deploy (`Deploy.tla`)

One deployer per goroutine, all deploying one contract name:
- `FromStore` is the store lookup of `DeployContractFromContractStore`.
- `SendDeploy` is `bind.DeployContract`.
- `Attempt` is one attempt of the `retry.Do` around `WaitDeployed`, under its
  own `TxnTimeout`. A still pending transaction times out, and that error is
  not retried. Missing code (a reverted deployment, or a node that does not
  show it yet) is retried while `tries < Attempts` (`NoCode`).
- `Register`, `CheckABI` and `AddABI` are `AddContract` and the separate
  `GetABI` / `AddABI` calls.
- `Save` writes the contract map file when `shouldSave` holds; its failure is
  only logged.
- `DeployMine` is the node: the creation transaction deploys code or reverts.

### CLI (`CLI.tla`)

`RunCLI` around Construction (`C == INSTANCE Construction`). `clipc` is where
the entry point is: a program calling `NewClient` itself (`"program"`), or the
CLI's `Before` hook.
- `Before` rejects an empty `-n`, sets `NETWORK` (`network`) and calls
  `NewClient` for every command but `trace` and none (`help`).
- `ClientReturned` returns `NewClient`'s error or runs the command's action.
- `Command` is the `gas` and `keys` actions (code outside `src/`), which
  succeed or fail, and `help`.
- `TraceConfig` is the `trace` action: it reads the TOML itself, selects the
  network named by `NETWORK` (`TraceNetwork`), takes that network's keys
  without a root key, sets `ephemeral_addresses_number` to 0 and calls
  `NewClientWithConfig`. `TraceReturned` is its result.
- A constructor step runs only while the entry point waits for it (`Active`,
  `Run`).

### ClientLifecycle (`ClientLifecycle.tla`, `MC_ClientLifecycle.tla`)

Composes CLI (and through it Construction) and Deploy. Deploy's `ready` is `cpc = "client"` and its
`shouldSave` is `ShoulSaveDeployedContractMap` of the constructed
configuration, so deployments start only on a returned client.

## Runs

| Run | Module / cfg | Result | What it shows |
|---|---|---|---|
| dispatch_main | MC_Dispatch.cfg | pass | See below. |
| dispatch_single | MC_Dispatch_single.cfg | pass | With one caller, the options sent are always all-legacy or all-dynamic (`FeeShapeConsistent`), through the failed estimation, the downgrade and the legacy retry. |
| dispatch_shared | MC_Dispatch_shared.cfg | pass | See below. |
| same_key_nonce | MC_Dispatch_sharedkey.cfg | violation | Two callers on one key take the same `PendingNonceAt`, and the node refuses one. |
| fee_race | MC_Dispatch_feerace.cfg | violation | Caller B's downgrade lands between caller A's EIP-1559 estimation and A's configure. A then sends options with every fee nil. |
| errors_not_drained | MC_Dispatch_drain.cfg | violation | `Decode` refuses with `m.Errors` but never clears it. |
| fee_estimation | MC_FeeEstimation.cfg | pass | See below. |
| window_duplicate | MC_CongestionWindow_unique.cfg | violation | The loop starts at `lastBlockNumber`, so the latest block is in the window twice. |
| window_count_race | MC_CongestionWindow_count.cfg | violation | `len(blocks)` is read while blocks are still in the channel. |
| stats_main | MC_BlockStats.cfg | pass | `AppendsAtomic`: `Stats` implements `BlockStatsAbstract`, each append acting as one atomic step. `StatsReturns`: `Stats` always returns; no goroutine waits for `blockMu` forever. |
| stats_short_range | MC_BlockStats_short.cfg | violation | A one-block range, or one with every block skipped, panics in `CalculateBlockDurations`. |
| lifecycle_main | MC_ClientLifecycle.cfg | pass | See below. |

**dispatch_main.** Two callers on their own keys, with two configs:
protection and EIP-1559 estimation on, and everything off. It checks:
- `NoNonceClash`: the node never refuses a nonce as used, even after lost
  replies, timeouts and drops.
- `ProtectionPreventsStacking`: with protection on, there is never more than
  one pending transaction per key.
- `FallbackVisible`: an estimation that fell back is never followed by a clean
  `Decode`.

**dispatch_shared.** Two callers share one key, one transaction each. It
checks:
- `ProtectionPreventsStacking`: both callers may pass the check with the same
  nonce, and the stack still never forms.
- `CallsReturn`: every call returns, or the process died of the protection
  panic.

**fee_estimation.** Every priority, both fee modes, with the window fetch
(B = 3, a channel of 2 slots, latest block 1, 3 or 4) inside the congestion
step. It checks:
- `MonotoneInPriority`: tip, fee cap and legacy price never decrease with
  priority for the same inputs.
- `EstimationReturns`: the fee call returns and no goroutine of its window is
  left behind.
- `NewestFirstIsSpecMean`: the newest-first metric of every window the fetch
  returns equals the spec's weighted mean. This holds in any arrival order,
  because the code sorts before weighting.

**lifecycle_main.** A program's `NewClient`, or the CLI with each command
(`gas`, `keys`, `trace`, `help`) and each `-n` value (empty, `Sepolia`,
`Geth`), over seven environments and five TOML files
(ephemeral or not, valid or not, a network with its own key, a simulated Geth
network), key 0's pool empty, holding an earlier run's transaction at nonce 0, or
holding one queued above a gap at nonce 1, then two
deployers. It checks:
- `FundedOnSuccess`: a returned ephemeral client has every address funded,
  despite lost replies and timeouts of the other transfers.
- `ConstructionReturns`: `NewClient` (or the trace command's
  `NewClientWithConfig`) always returns once called.
- `TraceNeverFunds`: the `trace` command never funds ephemeral addresses,
  whatever the TOML asks, because it zeroes the count before construction.
- `DeployedOnSuccess`: a deployment reported successful is deployed, in the
  contract map, and its ABI is in the store.
- `DeployReturns`: once a client exists, every deployment returns, through
  reverts, a lagging node and timeouts.

Each property of a passing run has a mutant in `PROJECT.json`: a plausible bug
in the mapped definition that TLC then catches. Examples:
- the nonce taken from `NonceAt`;
- the protection check dropped;
- a fallback not appended to `m.Errors`;
- the downgrade without the legacy retry;
- no deadline in `WaitMined`;
- the consumer started late;
- swapped percentiles;
- blockMu not taken;
- the Go loop variable captured without `bn := bn`;
- `eg.Wait`'s error ignored;
- the deployment retry without an attempt bound, or its error ignored;
- `blockMu` left locked by one goroutine;
- the window weighted unsorted;
- the trace command keeping the TOML's ephemeral count.

### Further observations

Ten more properties are stated in the modules and were found violated while
modelling. Each is listed in `PROJECT.json` as a hazard note, not as a
standing run. To reproduce one, copy the named cfg and replace its INVARIANT.

- `Dispatch!ObservedNonceOrdered` (sharedkey cfg) is violated. A block mined
  between `PendingNonceAt` and `NonceAt` gives `LastNonce > PendingNonce`,
  against the spec's "last ≤ pending at every observation point". It is
  harmless for the protection check.
- `Dispatch!UndecodableRevertRecorded` (single cfg) is violated. The reverted
  transactions file is never written, because `errors.Is` compares against a
  freshly made error (`client.go:370`).
- `CongestionWindow!EnoughBlocksOnSuccess` (unique cfg) is violated. The
  threshold `int(float64(B)*0.8)` is a floor, and the duplicate counts, so a
  3-block window succeeds with the latest block twice.
- `BlockStats!NoNilEndDereference` (main cfg) is violated. `Stats(start, nil)`,
  and `Stats(start ≥ 0, 0)`, dereference a nil `*big.Int`. The spec lists this
  as an open question.
- `ClientLifecycle!FundingFromRootKey` (lifecycle cfg) is violated. When the
  selected network lists keys of its own, `ReadConfig` appends the root key
  after them. Key 0 is then not the root key, against the comment "root key is
  element 0 in ephemeral" (`client.go:276`), and the root key is funded as if
  it were ephemeral.
- `ClientLifecycle!ConcurrencyExcludesRoot` (lifecycle cfg) is violated for
  the same configuration. `GetMaxConcurrency` says "Root key is excluded from
  the count", but without ephemeral addresses it returns `len(keys) - 1`, and
  keys 1..n then include the root key (`config.go:272`).
- `ClientLifecycle!CommandUsesFlagNetwork` (lifecycle cfg) is violated. The
  `-n` flag (`cmd/seth.go:35`) sets `NETWORK`, but `ReadConfig` reads
  `SETH_NETWORK` (`config.go:118`), so the `gas` and `keys` commands get a
  client for another network than the flag names. Only `trace` reads `NETWORK`.
- `ClientLifecycle!GasNeverFunds` (lifecycle cfg) is violated. The `gas`
  command only reads fee data, yet its `NewClient` funds ephemeral addresses
  from the root key when the TOML asks for them.

- `FeeEstimation!SimpleIsSpecMean` (fee_estimation cfg) is violated, for
  the window <<3, 2>>. `calculateTrend` compares neighbours of the unsorted
  slice, whose first element is the latest block. So the simple metric counts
  base-fee increases in arrival order, not by block number.
- `BlockStats!SummaryBoundsAverages` is violated with `MC_TimeSteps == {0, 1}`
  (two blocks with one timestamp) and with `MC_BaseFees == {0, 3}`.
  - A zero duration gets TPS 0, yet its transactions count in `avg_tps`, so
    `max_tps` < `avg_tps`.
  - A zero average base fee gives a bump of "0.00% (multiply)".

  Within the checked bounds (at most three transitions, rising timestamps,
  positive base fees) the 95th percentile is the maximum, so the property
  only says max ≥ mean there. It is therefore not a run property.
- `ClientLifecycle!PendingWithinLocal` (lifecycle cfg) is violated. It is the
  spec's `pending ≤ local_next`. When key 0's pool holds a transaction of an
  earlier run queued above a gap (`{1}`), the first funding transfer fills
  the gap, the node promotes the queued one, and its pending nonce (2) passes
  the counter (1). The next transfer is refused, and `NewClient` fails. It
  holds when the pool is contiguous.

GasFee also states two more properties:
- `LegacyPriceWithinCap` is violated. The spec's invariant "each component is
  capped" contradicts its own 4.4.5, which the code follows, so this is a gap
  in the spec.
- `ValidatedPriorityEstimates` is violated. `validateConfig` accepts `degen`,
  which is not defined in this source tree, and rejects `ultra`, while the
  estimator knows `ultra` and not `degen`.

`gas_adjuster.go` refers to fields not declared in this source tree:
`BlockCache`, `GasEstimationBlocks`, `GasEstimationTxPriority` and
`GasEsimationMaxGasTipCap`. The model reads them as the header cache and the
configuration's gas-price-estimation fields.

`readKeyFileConfig` (`config.go`) is never called, so `keyfile_source` in the
TOML has no effect; the model follows the code.

## Bounds

- **Dispatch.** MaxCalls = 2 per caller gives each caller a second call that
  meets the leftovers of its first: a pending, dropped or lost transaction.
  With two callers and one key this is where clashes and stacking first
  appear. dispatch_shared uses one call each to keep the liveness check small.
  The nonce range is bounded by callers × calls.
- **Window fetch (fee_estimation).** B = 3 with a channel of 2 makes a fetcher
  block on a full channel. The latest blocks {1, 3, 4} give the immediate
  break, the break at 1, and a full window. `Word = 16` stands for 2^64, which
  is enough because only `latest - B` is ever computed.
- **Fees.** Fee levels {1, 5} and metrics {10, 33, 70, 100} cover one metric
  in each congestion class, the 33 boundary, an adjustment large enough to
  pass a cap, and the unset (0) and set tip caps.
- **BlockStats.** The latest block is 3. The starts {-2, 1, 3} and ends
  {nil, 0, 2, 3} give ranges of 1 to 3 blocks, a relative start, a start after
  the end, and both nil cases. Block data: steps of 1 or 2 seconds, 0 or 4
  transactions, base fees 1 or 3. Every assignment of these to the four
  numbers is checked in each final state, 4096 per state. Up to three
  transitions keep `index95` at the maximum (true up to 20); longer ranges are
  listed as a hazard.
- **Congestion metric.** The six block numbers carry gas ratios and base fees
  chosen so that arrival order, sort order and newest-first weights all
  differ. The weights are four rounded table entries, enough for B = 3 plus
  the duplicate.
- **Construction.** Up to three keys give two funding goroutines racing for
  key 0's counter. An old pending transaction at nonce 0 makes the pending
  nonce differ from the latest one. One queued at nonce 1 leaves a gap,
  which the first transfer fills.
- **CLI.** Four commands and three `-n` values (empty, a TOML network, the
  simulated one) reach every `Before` branch, both constructors and the
  trace command's network lookup, its found, `[network]`-table and
  not-found cases. A program's own `NewClient` is one more initial state.
- **Deploy.** Two deployers of one name race on the ABI check. Attempts = 3
  stands for the code's 10: it allows a retry that then succeeds and one that
  runs out.

## Fairness

- **Dispatch.** Weak fairness on each caller's step. A goroutine that can run
  does run, and `WaitMined`'s timer firing is a step of the waiting caller.
  There is weak fairness on `Mine`, since the node keeps producing blocks.
  There is none on `Drop`.
- **FeeEstimation.** Weak fairness on the fee function's steps, the window
  function's steps and every goroutine's step.
- **ClientLifecycle.** Weak fairness on the CLI's steps (one goroutine
  runs the entry point), and on each constructor step while the entry point
  waits for it, each funding
  goroutine (its timeout is a step it can always take while waiting), each
  deployer (each attempt's `TxnTimeout` fires), and on the node's `Mine` and
  `DeployMine`: a node keeps mining what it has accepted.
- **BlockStats.** Weak fairness on the calling goroutine and on each errgroup
  goroutine. Go schedules every runnable goroutine. `sync.Mutex` may barge,
  but each goroutine locks once, so a waiter's competitors run out.
- Every run stops when its calls return, hence `CHECK_DEADLOCK FALSE` in the
  passing cfgs.

## Not modelled

- The congestion metric's floating-point weights. They are a rounded table,
  and GasFee takes its metric from a set of percentages. Feeding it the exact
  metric would blur the classification boundaries through rounding.
- `BaseFee()` being nil on pre-London chains. Block data in the model is
  numbers.
- Ranges of more than 20 transitions, where the 95th percentile is not the
  maximum.
- Tracing, JSON saving and log decoding. These are data conversion and I/O.
- The LFU block cache, ContractStore, Tracer and ABIFinder. They are not in
  `src/`; the block cache is planned as a spec-modelled module.
- `TransferETHFromKey` called by users with other keys (its `fromKeyNum >
  len` check is off by one); the constructor only calls it with key 0.
- TOML parsing and `readKeyFileConfig` (never called), which are I/O.
  In the CLI, flag parsing and the help text belong to urfave/cli; the gas
  statistics and key-file commands and `TraceGethTX` are outside `src/` and
  are a success-or-failure step.
- The rate limiter, which only delays.

## Plan

1. LFU block cache (spec-modelled), shared by the window fetchers.
2. `TransferETHFromKey` for any key, with the index check.
3. The start-up EIP-1559 probe of `NewClientRaw` composed with Dispatch.
4. The exact congestion metric fed into GasFee's classification for a few
   windows, as a separate run once the run budget allows.
