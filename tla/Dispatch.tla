------------------------------ MODULE Dispatch ------------------------------
(***************************************************************************)
(* The transaction dispatch pipeline of seth's Client (src/client.go):     *)
(* NewTXKeyOpts assembles transaction options (nonce status from the node, *)
(* pending-nonce protection, CalculateGasEstimations, configure), the      *)
(* go-ethereum binding signs and sends the transaction, and Decode waits   *)
(* for the receipt (WaitMined) and decodes/traces it.                      *)
(*                                                                         *)
(* Several callers (goroutines of a load test) run the pipeline at once.   *)
(* They share three pieces of client state without a lock:                 *)
(*   m.Errors                          (modelled by its length, errs),      *)
(*   m.Cfg.Network.EIP1559DynamicFees  (eip), and                           *)
(*   the node's view of every key's nonces.                                *)
(*                                                                         *)
(* The chain node is the environment: a mempool (pool) and a chain of      *)
(* mined transactions per key, mining in nonce order and sometimes         *)
(* dropping a pending transaction.                                         *)
(***************************************************************************)
EXTENDS Integers, Sequences, FiniteSets

CONSTANTS
    Keys,       \* addresses of the client's private keys
    Callers,    \* goroutines calling NewTXKeyOpts / send / Decode
    KeyOf,      \* KeyOf[c]: the keyNum caller c passes to NewTXKeyOpts
    MaxCalls,   \* bound: transactions each caller submits
    Configs     \* the client Configs the run starts from (frozen at init)

ASSUME KeyOf \in [Callers -> Keys]
ASSUME MaxCalls \in Nat \ {0}
ASSUME Configs \subseteq [simulated : BOOLEAN, estimation : BOOLEAN,
                          protection : BOOLEAN, eip1559 : BOOLEAN,
                          tracing : {"NONE", "REVERTED", "ALL"},
                          traceToJson : BOOLEAN]

VARIABLES
    cfg,          \* the frozen part of *Config
    eip,          \* m.Cfg.Network.EIP1559DynamicFees, written on downgrade
    errs,         \* len(m.Errors) > 0 (1) or empty (0); never cleared
    crashed,      \* a caller panicked: the process is gone
    pc,           \* program counter of each caller
    calls,        \* transactions caller c has started (bounded by MaxCalls)
    pend,         \* NonceStatus.PendingNonce the caller read
    last,         \* NonceStatus.LastNonce the caller read
    signer,       \* opts came from NewKeyedTransactor (FALSE: empty opts)
    est,          \* GasEstimations of the current call
    opts,         \* *bind.TransactOpts after configureTransactionOpts
    txErr,        \* the error the binding returned with the tx
    res,          \* what Decode returned for the caller's last call
    pool,         \* node: pending transactions per key, [nonce, id]
    chain,        \* node: mined transactions per key, [id, status]
    revertedFile, \* ids written to RevertedTransactionsFile
    clash,        \* history: ids the node refused for a used nonce
    fellBack,     \* history: ids whose fees fell back after an RPC error
    undecodable   \* history: reverted ids decoded with NoABIMethod (json on)

nodeVars   == <<pool, chain>>
callerVars == <<pc, calls, pend, last, signer, est, opts, txErr, res>>
histVars   == <<clash, fellBack, undecodable>>
vars == <<cfg, eip, errs, crashed, revertedFile, callerVars, nodeVars, histVars>>

FeeVal  == {"nil", "fallback", "estimated"}
NilEst  == [price |-> "nil", tip |-> "nil", cap |-> "nil"]
Nonces  == 0..(Cardinality(Callers) * MaxCalls)
TxId(c) == <<c, calls[c]>>
NoOpts  == [nonce |-> 0, price |-> "nil", tip |-> "nil", cap |-> "nil", signer |-> FALSE]
TxIds   == Callers \X (0..MaxCalls)
PcVals  == {"idle", "latest", "estimate", "eipCall", "legacyCall",
            "configure", "send", "decode", "wait", "panicked"}
Results == {"none", "errors", "txErr", "timeout", "ok", "reverted"}

-----------------------------------------------------------------------------
(* The node.  eth_getTransactionCount(latest) is the number of mined       *)
(* transactions; (pending) also counts the contiguous run of pool nonces.  *)
PoolNonces(k) == {e.nonce : e \in pool[k]}
LatestNonce(k) == Len(chain[k])
PendingNonce(k) ==
    CHOOSE n \in LatestNonce(k)..(LatestNonce(k) + Cardinality(pool[k])) :
        /\ n \notin PoolNonces(k)
        /\ \A m \in LatestNonce(k)..(n - 1) : m \in PoolNonces(k)

Mine(k) ==
    /\ \E e \in pool[k] :
          /\ e.nonce = LatestNonce(k)
          /\ pool' = [pool EXCEPT ![k] = @ \ {e}]
          /\ \E s \in {"success", "reverted"} :
                chain' = [chain EXCEPT ![k] = Append(@, [id |-> e.id, status |-> s])]
    /\ UNCHANGED <<cfg, eip, errs, crashed, revertedFile, callerVars, histVars>>

\* The mempool evicts a pending transaction (it is never mined).
Drop(k) ==
    /\ \E e \in pool[k] : pool' = [pool EXCEPT ![k] = @ \ {e}]
    /\ UNCHANGED <<cfg, eip, errs, crashed, revertedFile, chain, callerVars, histVars>>

-----------------------------------------------------------------------------
(* NewTXKeyOpts -> getProposedTransactionOptions -> getNonceStatus.        *)
(* PendingNonceAt; on error the error is appended to m.Errors and the      *)
(* caller continues with empty opts and a zero NonceStatus.                *)
NonceStatusFailed(c) ==
    /\ errs' = 1
    /\ pend' = [pend EXCEPT ![c] = 0]
    /\ last' = [last EXCEPT ![c] = 0]
    /\ signer' = [signer EXCEPT ![c] = FALSE]
    /\ est' = [est EXCEPT ![c] = NilEst]
    /\ pc' = [pc EXCEPT ![c] = "configure"]

\* Mutant: the nonce taken from NonceAt(latest) instead of PendingNonceAt.
ReadPendingUsesLatest(c) ==
    /\ ~crashed
    /\ pc[c] = "idle"
    /\ calls[c] < MaxCalls
    /\ calls' = [calls EXCEPT ![c] = @ + 1]
    /\ res' = [res EXCEPT ![c] = "none"]
    /\ \/ /\ pend' = [pend EXCEPT ![c] = LatestNonce(KeyOf[c])]
          /\ pc' = [pc EXCEPT ![c] = "latest"]
          /\ UNCHANGED <<errs, last, signer, est>>
       \/ NonceStatusFailed(c)
    /\ UNCHANGED <<cfg, eip, crashed, opts, txErr, revertedFile, nodeVars, histVars>>

ReadPending(c) ==
    /\ ~crashed
    /\ pc[c] = "idle"
    /\ calls[c] < MaxCalls
    /\ calls' = [calls EXCEPT ![c] = @ + 1]
    /\ res' = [res EXCEPT ![c] = "none"]
    /\ \/ /\ pend' = [pend EXCEPT ![c] = PendingNonce(KeyOf[c])]
          /\ pc' = [pc EXCEPT ![c] = "latest"]
          /\ UNCHANGED <<errs, last, signer, est>>
       \/ NonceStatusFailed(c)
    /\ UNCHANGED <<cfg, eip, crashed, opts, txErr, revertedFile, nodeVars, histVars>>

(* NonceAt(latest), then the pending-nonce protection check: a panic when   *)
(* PendingNonce > LastNonce.                                               *)
\* Mutant: the pending-nonce protection check left out.
ReadLatestUnprotected(c) ==
    /\ ~crashed
    /\ pc[c] = "latest"
    /\ \/ /\ last' = [last EXCEPT ![c] = LatestNonce(KeyOf[c])]
          /\ signer' = [signer EXCEPT ![c] = TRUE]
          /\ pc' = [pc EXCEPT ![c] = "estimate"]
          /\ UNCHANGED <<errs, pend, est, crashed>>
       \/ /\ NonceStatusFailed(c)
          /\ UNCHANGED crashed
    /\ UNCHANGED <<cfg, eip, calls, opts, txErr, res, revertedFile, nodeVars, histVars>>

ReadLatest(c) ==
    LET latest  == LatestNonce(KeyOf[c])
        tooMany == cfg.protection /\ pend[c] > latest
    IN
    /\ ~crashed
    /\ pc[c] = "latest"
    /\ \/ /\ ~tooMany
          /\ last' = [last EXCEPT ![c] = latest]
          /\ signer' = [signer EXCEPT ![c] = TRUE]
          /\ pc' = [pc EXCEPT ![c] = "estimate"]
          /\ UNCHANGED <<errs, pend, est, crashed>>
       \/ /\ tooMany
          /\ last' = [last EXCEPT ![c] = latest]
          /\ pc' = [pc EXCEPT ![c] = "panicked"]
          /\ crashed' = TRUE
          /\ UNCHANGED <<errs, pend, signer, est>>
       \/ /\ NonceStatusFailed(c)
          /\ UNCHANGED crashed
    /\ UNCHANGED <<cfg, eip, calls, opts, txErr, res, revertedFile, nodeVars, histVars>>

(* CalculateGasEstimations: fallback values when the network is simulated   *)
(* or estimation is disabled; otherwise the EIP1559DynamicFees flag is read *)
(* and decides which estimation runs.                                      *)
Estimate(c) ==
    /\ ~crashed
    /\ pc[c] = "estimate"
    /\ \/ /\ cfg.simulated \/ ~cfg.estimation
          /\ est' = [est EXCEPT ![c] = [price |-> "fallback", tip |-> "fallback",
                                        cap |-> "fallback"]]
          /\ pc' = [pc EXCEPT ![c] = "configure"]
       \/ /\ ~cfg.simulated /\ cfg.estimation /\ eip
          /\ est' = [est EXCEPT ![c] = NilEst]
          /\ pc' = [pc EXCEPT ![c] = "eipCall"]
       \/ /\ ~cfg.simulated /\ cfg.estimation /\ ~eip
          /\ est' = [est EXCEPT ![c] = NilEst]
          /\ pc' = [pc EXCEPT ![c] = "legacyCall"]
    /\ UNCHANGED <<cfg, eip, errs, crashed, calls, pend, last, signer, opts,
                   txErr, res, revertedFile, nodeVars, histVars>>

(* GetSuggestedEIP1559Fees.  On error the fallback cap and tip are used and *)
(* the error is appended; an "unsupported method" error also switches the  *)
(* client to legacy fees for good and runs the legacy estimation.          *)
\* Mutant: a failed EIP-1559 estimation falls back without recording the
\* error in m.Errors.
EipCallSilent(c) ==
    /\ ~crashed
    /\ pc[c] = "eipCall"
    /\ \/ /\ est' = [est EXCEPT ![c].tip = "estimated", ![c].cap = "estimated"]
          /\ pc' = [pc EXCEPT ![c] = "configure"]
          /\ UNCHANGED <<eip, errs, fellBack>>
       \/ /\ est' = [est EXCEPT ![c].tip = "fallback", ![c].cap = "fallback"]
          /\ fellBack' = fellBack \cup {TxId(c)}
          /\ pc' = [pc EXCEPT ![c] = "configure"]
          /\ UNCHANGED <<eip, errs>>
    /\ UNCHANGED <<cfg, crashed, calls, pend, last, signer, opts, txErr, res,
                   revertedFile, nodeVars, clash, undecodable>>

\* Mutant: the downgrade to legacy fees without running calulcateLegacyFees.
EipCallNoLegacyRetry(c) ==
    /\ ~crashed
    /\ pc[c] = "eipCall"
    /\ \/ /\ est' = [est EXCEPT ![c].tip = "estimated", ![c].cap = "estimated"]
          /\ UNCHANGED <<eip, errs, fellBack>>
       \/ /\ est' = [est EXCEPT ![c].tip = "fallback", ![c].cap = "fallback"]
          /\ errs' = 1
          /\ fellBack' = fellBack \cup {TxId(c)}
          /\ eip' \in {eip, FALSE}
    /\ pc' = [pc EXCEPT ![c] = "configure"]
    /\ UNCHANGED <<cfg, crashed, calls, pend, last, signer, opts, txErr, res,
                   revertedFile, nodeVars, clash, undecodable>>

EipCall(c) ==
    /\ ~crashed
    /\ pc[c] = "eipCall"
    /\ \/ /\ est' = [est EXCEPT ![c].tip = "estimated", ![c].cap = "estimated"]
          /\ pc' = [pc EXCEPT ![c] = "configure"]
          /\ UNCHANGED <<eip, errs, fellBack>>
       \/ /\ est' = [est EXCEPT ![c].tip = "fallback", ![c].cap = "fallback"]
          /\ errs' = 1
          /\ fellBack' = fellBack \cup {TxId(c)}
          /\ \/ /\ pc' = [pc EXCEPT ![c] = "configure"]
                /\ UNCHANGED eip
             \/ /\ eip' = FALSE
                /\ pc' = [pc EXCEPT ![c] = "legacyCall"]
    /\ UNCHANGED <<cfg, crashed, calls, pend, last, signer, opts, txErr, res,
                   revertedFile, nodeVars, clash, undecodable>>

(* calulcateLegacyFees: GetSuggestedLegacyFees, or the fallback gas price   *)
(* and an appended error.                                                  *)
LegacyCall(c) ==
    /\ ~crashed
    /\ pc[c] = "legacyCall"
    /\ \/ /\ est' = [est EXCEPT ![c].price = "estimated"]
          /\ UNCHANGED <<errs, fellBack>>
       \/ /\ est' = [est EXCEPT ![c].price = "fallback"]
          /\ errs' = 1
          /\ fellBack' = fellBack \cup {TxId(c)}
    /\ pc' = [pc EXCEPT ![c] = "configure"]
    /\ UNCHANGED <<cfg, eip, crashed, calls, pend, last, signer, opts, txErr, res,
                   revertedFile, nodeVars, clash, undecodable>>

(* configureTransactionOpts: nonce := PendingNonce, GasPrice := estimate;   *)
(* when EIP1559DynamicFees is set (read again here) GasPrice := nil and the *)
(* tip and fee cap are taken from the estimations.                         *)
\* Mutant: the nonce set one below the pending nonce.
ConfigureOffByOne(c) ==
    /\ ~crashed
    /\ pc[c] = "configure"
    /\ opts' = [opts EXCEPT ![c] =
          [nonce  |-> pend[c] - 1,
           price  |-> IF eip THEN "nil" ELSE est[c].price,
           tip    |-> IF eip THEN est[c].tip ELSE "nil",
           cap    |-> IF eip THEN est[c].cap ELSE "nil",
           signer |-> signer[c]]]
    /\ pc' = [pc EXCEPT ![c] = "send"]
    /\ UNCHANGED <<cfg, eip, errs, crashed, calls, pend, last, signer, est, txErr,
                   res, revertedFile, nodeVars, histVars>>

Configure(c) ==
    /\ ~crashed
    /\ pc[c] = "configure"
    /\ opts' = [opts EXCEPT ![c] =
          [nonce  |-> pend[c],
           price  |-> IF eip THEN "nil" ELSE est[c].price,
           tip    |-> IF eip THEN est[c].tip ELSE "nil",
           cap    |-> IF eip THEN est[c].cap ELSE "nil",
           signer |-> signer[c]]]
    /\ pc' = [pc EXCEPT ![c] = "send"]
    /\ UNCHANGED <<cfg, eip, errs, crashed, calls, pend, last, signer, est, txErr,
                   res, revertedFile, nodeVars, histVars>>

(* The go-ethereum binding signs and sends the transaction (environment).  *)
(* Without a signer it fails locally; the node refuses a nonce that is      *)
(* mined or already pending; an accepted transaction may still be reported *)
(* as an error when the reply is lost or the call times out.               *)
Send(c) ==
    LET k == KeyOf[c]
        n == opts[c].nonce
    IN
    /\ ~crashed
    /\ pc[c] = "send"
    /\ \/ /\ ~opts[c].signer
          /\ txErr' = [txErr EXCEPT ![c] = TRUE]
          /\ UNCHANGED <<pool, clash>>
       \/ /\ opts[c].signer
          /\ n < LatestNonce(k) \/ n \in PoolNonces(k)
          /\ txErr' = [txErr EXCEPT ![c] = TRUE]
          /\ clash' = clash \cup {TxId(c)}
          /\ UNCHANGED pool
       \/ /\ opts[c].signer
          /\ n >= LatestNonce(k) /\ n \notin PoolNonces(k)
          /\ pool' = [pool EXCEPT ![k] = @ \cup {[nonce |-> n, id |-> TxId(c)]}]
          /\ \E replied \in BOOLEAN : txErr' = [txErr EXCEPT ![c] = ~replied]
          /\ UNCHANGED clash
    /\ pc' = [pc EXCEPT ![c] = "decode"]
    /\ UNCHANGED <<cfg, eip, errs, crashed, calls, pend, last, signer, est, opts,
                   res, revertedFile, chain, fellBack, undecodable>>

(* Returning from Decode ends the call: its locals are gone.               *)
Return(c, r) ==
    /\ res' = [res EXCEPT ![c] = r]
    /\ pc' = [pc EXCEPT ![c] = "idle"]
    /\ pend' = [pend EXCEPT ![c] = 0]
    /\ last' = [last EXCEPT ![c] = 0]
    /\ signer' = [signer EXCEPT ![c] = FALSE]
    /\ est' = [est EXCEPT ![c] = NilEst]
    /\ opts' = [opts EXCEPT ![c] = NoOpts]
    /\ txErr' = [txErr EXCEPT ![c] = FALSE]

(* Decode: refuse with the joined m.Errors when it is non-empty, return    *)
(* txErr, otherwise WaitMined.                                             *)
Decode(c) ==
    /\ ~crashed
    /\ pc[c] = "decode"
    /\ \/ /\ errs > 0
          /\ Return(c, "errors")
       \/ /\ errs = 0 /\ txErr[c]
          /\ Return(c, "txErr")
       \/ /\ errs = 0 /\ ~txErr[c]
          /\ pc' = [pc EXCEPT ![c] = "wait"]
          /\ UNCHANGED <<res, pend, last, signer, est, opts, txErr>>
    /\ UNCHANGED <<cfg, eip, errs, crashed, calls, revertedFile, nodeVars, histVars>>

(* errors.Is(decodeErr, errors.New(ErrNoABIMethod)) compares decodeErr with *)
(* an error value allocated by that very call; no error returned earlier   *)
(* can be it, so the test is always false.                                 *)
IsNoABIMethodSentinel(decodeErr) == FALSE

(* WaitMined finds the receipt; Decode then asks for the revert reason,    *)
(* decodes when the tracing level asks for it (ALL, or REVERTED and the tx *)
(* reverted) and saves the hash to the reverted-transactions file on a     *)
(* NoABIMethod decoding error with TraceToJson.  Tracing itself and the    *)
(* trace/decoded JSON files change nothing the model keeps.                *)
ReceiptFound(c) ==
    LET k == KeyOf[c] IN
    /\ ~crashed
    /\ pc[c] = "wait"
    /\ \E i \in DOMAIN chain[k] :
         LET reverted == chain[k][i].status = "reverted"
             decodes  == \/ cfg.tracing = "ALL"
                         \/ cfg.tracing = "REVERTED" /\ reverted
         IN
         /\ chain[k][i].id = TxId(c)
         /\ \E decodeErr \in IF decodes THEN {"none", "noAbiMethod"} ELSE {"none"} :
              /\ revertedFile' =
                    IF IsNoABIMethodSentinel(decodeErr) /\ cfg.traceToJson
                    THEN revertedFile \cup {TxId(c)} ELSE revertedFile
              /\ undecodable' =
                    IF decodeErr = "noAbiMethod" /\ reverted /\ cfg.traceToJson
                    THEN undecodable \cup {TxId(c)} ELSE undecodable
         /\ Return(c, IF reverted THEN "reverted" ELSE "ok")
    /\ UNCHANGED <<cfg, eip, errs, crashed, calls, nodeVars, clash, fellBack>>

(* WaitMined: the TxnTimeout context expires before a receipt was seen.    *)
Timeout(c) ==
    /\ ~crashed
    /\ pc[c] = "wait"
    /\ Return(c, "timeout")
    /\ UNCHANGED <<cfg, eip, errs, crashed, calls, revertedFile, nodeVars, histVars>>

\* Mutant: polling for the receipt with no deadline.
WaitMinedNoDeadline(c) == ReceiptFound(c)

WaitMined(c) == ReceiptFound(c) \/ Timeout(c)

-----------------------------------------------------------------------------
(* NewClientRaw: with estimation enabled on an EIP-1559 network the client *)
(* runs CalculateGasEstimations once at start; it may fail (an error in     *)
(* m.Errors) and, on an "unsupported method" error, downgrade to legacy.   *)
InitialFeeMode(c) ==
    IF c.estimation /\ c.eip1559 /\ ~c.simulated
    THEN {[eip |-> TRUE, errs |-> 0], [eip |-> TRUE, errs |-> 1],
          [eip |-> FALSE, errs |-> 1]}
    ELSE {[eip |-> c.eip1559, errs |-> 0]}

Init ==
    /\ cfg \in Configs
    /\ \E m \in InitialFeeMode(cfg) : eip = m.eip /\ errs = m.errs
    /\ crashed = FALSE
    /\ pc = [c \in Callers |-> "idle"]
    /\ calls = [c \in Callers |-> 0]
    /\ pend = [c \in Callers |-> 0]
    /\ last = [c \in Callers |-> 0]
    /\ signer = [c \in Callers |-> FALSE]
    /\ est = [c \in Callers |-> NilEst]
    /\ opts = [c \in Callers |-> NoOpts]
    /\ txErr = [c \in Callers |-> FALSE]
    /\ res = [c \in Callers |-> "none"]
    /\ pool = [k \in Keys |-> {}]
    /\ chain = [k \in Keys |-> <<>>]
    /\ revertedFile = {}
    /\ clash = {}
    /\ fellBack = {}
    /\ undecodable = {}

CallerStep(c) ==
    \/ ReadPending(c) \/ ReadLatest(c) \/ Estimate(c) \/ EipCall(c)
    \/ LegacyCall(c) \/ Configure(c) \/ Send(c) \/ Decode(c) \/ WaitMined(c)

Next ==
    \/ \E c \in Callers : CallerStep(c)
    \/ \E k \in Keys : Mine(k) \/ Drop(k)

(* Goroutines that can run do run (the TxnTimeout timer firing is a step   *)
(* of the waiting caller); the node keeps mining.  Dropping a transaction  *)
(* is never forced.                                                        *)
Fairness ==
    /\ \A c \in Callers : WF_vars(CallerStep(c))
    /\ \A k \in Keys : WF_vars(Mine(k))

Spec == Init /\ [][Next]_vars /\ Fairness

-----------------------------------------------------------------------------
TypeOK ==
    /\ eip \in BOOLEAN /\ errs \in {0, 1} /\ crashed \in BOOLEAN
    /\ pc \in [Callers -> PcVals]
    /\ calls \in [Callers -> 0..MaxCalls]
    /\ pend \in [Callers -> Nonces] /\ last \in [Callers -> Nonces]
    /\ signer \in [Callers -> BOOLEAN]
    /\ est \in [Callers -> [price : FeeVal, tip : FeeVal, cap : FeeVal]]
    /\ opts \in [Callers -> [nonce : Nonces, price : FeeVal, tip : FeeVal,
                             cap : FeeVal, signer : BOOLEAN]]
    /\ txErr \in [Callers -> BOOLEAN]
    /\ res \in [Callers -> Results]
    /\ pool \in [Keys -> SUBSET [nonce : Nonces, id : TxIds]]
    /\ \A k \in Keys : chain[k] \in Seq([id : TxIds, status : {"success", "reverted"}])
    /\ revertedFile \subseteq TxIds

-----------------------------------------------------------------------------
(* No transaction the client sends is refused by the node because its      *)
(* nonce was already mined or already pending: the nonce NewTXKeyOpts       *)
(* takes from PendingNonceAt is still free when the binding sends it, even  *)
(* after earlier calls of the same key timed out, were dropped or failed.  *)
NoNonceClash == clash = {}

(* With pending_nonce_protection_enabled the client never stacks a second   *)
(* transaction of a key on top of one still pending in the mempool: the    *)
(* PendingNonce > LastNonce check in getProposedTransactionOptions stops    *)
(* the caller first, even when the earlier call returned on a timeout.     *)
ProtectionPreventsStacking ==
    cfg.protection => \A k \in Keys : Cardinality(pool[k]) <= 1

(* Fees that fell back to configured values because an estimation RPC      *)
(* failed never go unnoticed: Decode of that call does not return a        *)
(* decoded transaction as if all went well (the error reached m.Errors).    *)
FallbackVisible ==
    \A c \in Callers : res[c] \in {"ok", "reverted"} => TxId(c) \notin fellBack

(* The options handed to the binding are of one transaction type: legacy   *)
(* (GasPrice set, no tip or fee cap) or dynamic-fee (tip and fee cap set,   *)
(* no GasPrice), whatever happened to the EIP-1559 flag meanwhile.          *)
LegacyShape(o)  == o.price # "nil" /\ o.tip = "nil" /\ o.cap = "nil"
DynamicShape(o) == o.price = "nil" /\ o.tip # "nil" /\ o.cap # "nil"
FeeShapeConsistent ==
    \A c \in Callers :
        pc[c] = "send" /\ opts[c].signer => LegacyShape(opts[c]) \/ DynamicShape(opts[c])

(* The spec (3. Nonce record): last_nonce <= pending_nonce at every         *)
(* observation point; here the NonceStatus a caller goes on to use.         *)
ObservedNonceOrdered ==
    \A c \in Callers : pc[c] = "estimate" => last[c] <= pend[c]

(* The spec (7.): non-fatal errors are drained when Decode refuses with     *)
(* them, so a refusal empties m.Errors.                                    *)
ErrorsDrainedOnRefusal ==
    [][\A c \in Callers : pc[c] = "decode" /\ res'[c] = "errors" => errs' = 0]_vars

(* With trace_to_json, a reverted transaction whose method no ABI knows    *)
(* has its hash saved to the reverted-transactions file (Decode's          *)
(* ErrNoABIMethod branch).                                                 *)
UndecodableRevertRecorded == undecodable \subseteq revertedFile

(* Every call that starts eventually returns from Decode (or the process   *)
(* died of a protection panic): WaitMined gives up after TxnTimeout.       *)
CallsReturn ==
    \A c \in Callers : pc[c] \notin {"idle", "panicked"} ~> (pc[c] = "idle" \/ crashed)

=============================================================================
