------------------------------ MODULE Construction ------------------------------
(***************************************************************************)
(* Client construction (NewClient): ReadConfig (src/config.go) selects the *)
(* network and appends the root key, NewClientWithConfig validates and     *)
(* appends the ephemeral keys, NewClientRaw (src/client.go) synchronises   *)
(* the NonceManager and, in ephemeral mode, funds every address but key 0  *)
(* from key 0, one errgroup goroutine per address running                  *)
(* TransferETHFromKey.  The node is the environment: key 0's chain nonce   *)
(* and pending pool.  NonceManager is not in src/; its UpdateNonces and    *)
(* NextNonce follow the spec (4.3, 5): a counter set to the pending nonce, *)
(* mutated under a lock.                                                   *)
(***************************************************************************)
EXTENDS Integers, Sequences, FiniteSets, SequencesExt

CONSTANTS
    Root,           \* SETH_ROOT_PRIVATE_KEY
    EphemeralKeys,  \* the keys NewEphemeralKeys makes, in order
    Envs,           \* environments: [path, network, chainUrl, root]
    Tomls,          \* TOML files: [networks, table, keys, ephemeral, valid, save]
    InitialPools,   \* key 0's transactions already pending at the node
    MaxKeys,        \* the longest key list the configurations yield
    None            \* no goroutine

VARIABLES
    cpc,        \* where the constructor is
    env, toml,  \* its inputs
    keys,       \* cfg.Network.PrivateKeys, so Addresses, in order
    nmNext,     \* NonceManager's counter for key 0
    nmLock,     \* the goroutine inside NextNonce, or None
    gpc,        \* each funding goroutine (index of the address it funds)
    nonce,      \* the nonce a goroutine's transfer carries (-1: none yet)
    accepted,   \* the node took the goroutine's transaction into its pool
    cancelled,  \* egCtx cancelled by a failed goroutine
    chain,      \* key 0's latest nonce at the node
    pool        \* key 0's pending nonces at the node

vars == <<cpc, env, toml, keys, nmNext, nmLock, gpc, nonce, accepted, cancelled, chain, pool>>

G == 2..MaxKeys

\* The network ReadConfig selects: SETH_NETWORK's, else the "Default"
\* template when SETH_CHAIN_ID and SETH_URL are set; a TOML [network] table
\* already fills cfg.Network, so a name not found falls back to it.
SelectedNetwork(e, t) ==
    LET wanted == IF e.network # "" THEN e.network ELSE "Default"
    IN  CASE e.network = "" /\ ~e.chainUrl -> "none"
          [] wanted \in t.networks         -> wanted
          [] t.table                       -> "table"
          [] OTHER                         -> "none"

\* setEphemeralAddrs: a nil count is 0; ephemeral mode iff it is not 0.
SetEphemeralAddrs(t) == t.ephemeral # 0

\* The node's pending nonce for key 0: latest plus the contiguous pool run.
PendingNonce ==
    CHOOSE p \in chain..(chain + Cardinality(pool)) :
        chain..(p - 1) \subseteq pool /\ p \notin pool

\* IsSimulatedNetwork: the selected network is Geth or Anvil.
IsSimulatedNetwork(net) == net \in {"Geth", "Anvil"}

\* ShoulSaveDeployedContractMap: not simulated and the TOML enables it.
ShoulSaveDeployedContractMap ==
    ~IsSimulatedNetwork(SelectedNetwork(env, toml)) /\ toml.save

\* GetMaxConcurrency: the ephemeral address count, else every key but one.
GetMaxConcurrency == IF SetEphemeralAddrs(toml) THEN toml.ephemeral ELSE Len(keys) - 1

Mined(g) == accepted[g] /\ nonce[g] >= 0 /\ nonce[g] < chain

-----------------------------------------------------------------------------
\* Mutant: an unset SETH_ROOT_PRIVATE_KEY is appended as an empty key.
ReadConfigNoRootCheck ==
    /\ cpc = "readConfig"
    /\ LET net == SelectedNetwork(env, toml)
       IN  \/ /\ ~(env.path /\ net # "none")
              /\ cpc' = "error" /\ UNCHANGED keys
           \/ /\ env.path /\ net # "none"
              /\ \/ cpc' = "error" /\ UNCHANGED keys
                 \/ /\ cpc' = "withConfig"
                    /\ keys' = toml.keys[net] \o <<IF env.root THEN Root ELSE "">>
    /\ UNCHANGED <<env, toml, nmNext, nmLock, gpc, nonce, accepted, cancelled, chain, pool>>

(* ReadConfig: an empty SETH_CONFIG_PATH, an unreadable or malformed file, *)
(* no network selected or no root key return an error; otherwise the root *)
(* key is appended to the selected network's keys.                         *)
ReadConfig ==
    /\ cpc = "readConfig"
    /\ LET net == SelectedNetwork(env, toml)
       IN  \/ /\ ~(env.path /\ net # "none" /\ env.root)
              /\ cpc' = "error" /\ UNCHANGED keys
           \/ /\ env.path /\ net # "none" /\ env.root
              /\ \/ cpc' = "error" /\ UNCHANGED keys
                 \/ cpc' = "withConfig" /\ keys' = toml.keys[net] \o <<Root>>
    /\ UNCHANGED <<env, toml, nmNext, nmLock, gpc, nonce, accepted, cancelled, chain, pool>>

(* NewClientWithConfig: validateConfig; setEphemeralAddrs; the contract   *)
(* store, ephemeral keys, key parsing, NonceManager, contract map and     *)
(* tracer may each fail; the ephemeral keys are appended after the root.  *)
NewClientWithConfig ==
    /\ cpc = "withConfig"
    /\ \/ cpc' = "error" /\ UNCHANGED keys
       \/ /\ toml.valid
          /\ cpc' = "raw"
          /\ keys' = IF SetEphemeralAddrs(toml)
                     THEN keys \o SubSeq(EphemeralKeys, 1, toml.ephemeral)
                     ELSE keys
    /\ UNCHANGED <<env, toml, nmNext, nmLock, gpc, nonce, accepted, cancelled, chain, pool>>

(* NewClientRaw: Dial and the chain id may fail; UpdateNonces sets the     *)
(* counter to the pending nonce or fails; in ephemeral mode                *)
(* CalculateSubKeyFunding may fail, then eg.Go runs TransferETHFromKey(0,  *)
(* addr) for every address after key 0.  The tracer, header cache and     *)
(* EIP-1559 probe that follow cannot fail.                                 *)
NewClientRaw ==
    /\ cpc = "raw"
    /\ \/ cpc' = "error" /\ UNCHANGED <<nmNext, gpc>>
       \/ /\ nmNext' = PendingNonce
          /\ IF SetEphemeralAddrs(toml)
             THEN \/ cpc' = "error" /\ UNCHANGED gpc
                  \/ cpc' = "funding"
                     /\ gpc' = [g \in G |-> IF g <= Len(keys) THEN "check" ELSE "idle"]
             ELSE cpc' = "client" /\ UNCHANGED gpc
    /\ UNCHANGED <<env, toml, keys, nmLock, nonce, accepted, cancelled, chain, pool>>

\* A goroutine's TransferETHFromKey returns an error; eg cancels egCtx.
Fail(g) == gpc' = [gpc EXCEPT ![g] = "err"] /\ cancelled' = TRUE

(* TransferETHFromKey: the key index check (key 0 always exists) and      *)
(* NetworkID, which may fail.                                              *)
TransferCheck(g) ==
    /\ gpc[g] = "check"
    /\ \/ gpc' = [gpc EXCEPT ![g] = "nonce"] /\ UNCHANGED cancelled
       \/ Fail(g)
    /\ UNCHANGED <<cpc, env, toml, keys, nmNext, nmLock, nonce, accepted, chain, pool>>

(* NonceManager.NextNonce: under the lock, read the counter ...           *)
NonceLock(g) ==
    /\ gpc[g] = "nonce"
    /\ nmLock = None
    /\ nmLock' = g
    /\ nonce' = [nonce EXCEPT ![g] = nmNext]
    /\ gpc' = [gpc EXCEPT ![g] = "nonceHeld"]
    /\ UNCHANGED <<cpc, env, toml, keys, nmNext, accepted, cancelled, chain, pool>>

(* ... write it back incremented, and unlock.                             *)
NonceUnlock(g) ==
    /\ gpc[g] = "nonceHeld"
    /\ nmNext' = nonce[g] + 1
    /\ nmLock' = IF nmLock = g THEN None ELSE nmLock
    /\ gpc' = [gpc EXCEPT ![g] = "send"]
    /\ UNCHANGED <<cpc, env, toml, keys, nonce, accepted, cancelled, chain, pool>>

(* SignNewTx and SendTransaction under TxnTimeout: signing or delivery    *)
(* fails, or the node refuses a nonce below its latest or already pending; *)
(* or it pools the transaction and the reply arrives, or is lost to the    *)
(* timeout.  A failure after NextNonce leaves the nonce unused.            *)
Send(g) ==
    /\ gpc[g] = "send"
    /\ \/ Fail(g) /\ UNCHANGED <<accepted, pool>>
       \/ /\ nonce[g] >= chain /\ nonce[g] \notin pool
          /\ pool' = pool \cup {nonce[g]}
          /\ accepted' = [accepted EXCEPT ![g] = TRUE]
          /\ \/ gpc' = [gpc EXCEPT ![g] = "wait"] /\ UNCHANGED cancelled
             \/ Fail(g)
    /\ UNCHANGED <<cpc, env, toml, keys, nmNext, nmLock, nonce, chain>>

(* WaitMined: a receipt ends the poll ...                                  *)
Receipt(g) ==
    /\ gpc[g] = "wait" /\ Mined(g)
    /\ gpc' = [gpc EXCEPT ![g] = "ok"]
    /\ UNCHANGED <<cpc, env, toml, keys, nmNext, nmLock, nonce, accepted, cancelled, chain, pool>>

\* Mutant: WaitMined polls under a context with no deadline that egCtx's
\* cancellation does not reach: a poll that finds no receipt goes on.
TimeoutNoContext(g) ==
    /\ gpc[g] = "wait" /\ ~Mined(g)
    /\ UNCHANGED vars

(* ... and so does its context: TxnTimeout expires, or egCtx is cancelled. *)
Timeout(g) ==
    /\ gpc[g] = "wait" /\ ~Mined(g)
    /\ Fail(g)
    /\ UNCHANGED <<cpc, env, toml, keys, nmNext, nmLock, nonce, accepted, chain, pool>>

\* Mutant: the result of eg.Wait is not checked.
CollectIgnoresError ==
    /\ cpc = "funding"
    /\ \A g \in G : gpc[g] \in {"idle", "ok", "err"}
    /\ cpc' = "client"
    /\ UNCHANGED <<env, toml, keys, nmNext, nmLock, gpc, nonce, accepted, cancelled, chain, pool>>

(* eg.Wait: once every goroutine returned, the first error fails the      *)
(* constructor; otherwise the client is returned.                          *)
Collect ==
    /\ cpc = "funding"
    /\ \A g \in G : gpc[g] \in {"idle", "ok", "err"}
    /\ cpc' = IF \E g \in G : gpc[g] = "err" THEN "error" ELSE "client"
    /\ UNCHANGED <<env, toml, keys, nmNext, nmLock, gpc, nonce, accepted, cancelled, chain, pool>>

(* The node mines key 0's next pending nonce.                              *)
Mine ==
    /\ chain \in pool
    /\ pool' = pool \ {chain}
    /\ chain' = chain + 1
    /\ UNCHANGED <<cpc, env, toml, keys, nmNext, nmLock, gpc, nonce, accepted, cancelled>>

-----------------------------------------------------------------------------
Init ==
    /\ cpc = "readConfig"
    /\ env \in Envs
    /\ toml \in Tomls
    /\ keys = <<>>
    /\ nmNext = 0 /\ nmLock = None
    /\ gpc = [g \in G |-> "idle"]
    /\ nonce = [g \in G |-> -1]
    /\ accepted = [g \in G |-> FALSE]
    /\ cancelled = FALSE
    /\ chain = 0 /\ pool \in InitialPools

Goroutine(g) ==
    TransferCheck(g) \/ NonceLock(g) \/ NonceUnlock(g) \/ Send(g) \/ Receipt(g) \/ Timeout(g)

Next ==
    \/ ReadConfig \/ NewClientWithConfig \/ NewClientRaw \/ Collect \/ Mine
    \/ \E g \in G : Goroutine(g)

(* Goroutines that can run do; the TxnTimeout timer fires; the node keeps  *)
(* mining what it has pooled.                                              *)
Fairness ==
    /\ WF_vars(ReadConfig) /\ WF_vars(NewClientWithConfig) /\ WF_vars(NewClientRaw)
    /\ WF_vars(Collect) /\ WF_vars(Mine)
    /\ \A g \in G : WF_vars(Goroutine(g))

Spec == Init /\ [][Next]_vars /\ Fairness

-----------------------------------------------------------------------------
TypeOK ==
    /\ cpc \in {"readConfig", "withConfig", "raw", "funding", "client", "error"}
    /\ keys \in Seq(Range(EphemeralKeys) \cup {Root} \cup UNION {UNION {Range(t.keys[n]) : n \in DOMAIN t.keys} : t \in Tomls})
    /\ Len(keys) <= MaxKeys
    /\ nmNext \in Nat /\ nmLock \in G \cup {None}
    /\ gpc \in [G -> {"idle", "check", "nonce", "nonceHeld", "send", "wait", "ok", "err"}]
    /\ nonce \in [G -> Int] /\ accepted \in [G -> BOOLEAN]
    /\ cancelled \in BOOLEAN /\ chain \in Nat /\ pool \subseteq Nat

(* Observation: the spec's nonce record invariant, pending <= local_next,  *)
(* once the NonceManager is synchronised.  It holds when key 0's pool is   *)
(* contiguous, but a transaction of an earlier run queued above a gap is   *)
(* promoted by the first funding transfer, and the node's pending nonce    *)
(* then passes the counter, which hands out the queued nonce again.        *)
PendingWithinLocal ==
    cpc \in {"funding", "client"} => PendingNonce <= nmNext

(* A client returned in ephemeral mode has every one of its addresses      *)
(* after key 0 funded: each funding transfer is mined, despite lost        *)
(* replies, refused sends and timeouts of the other transfers.             *)
FundedOnSuccess ==
    (cpc = "client" /\ SetEphemeralAddrs(toml)) =>
        \A g \in G : g <= Len(keys) => Mined(g)

(* NewClient always returns: no funding goroutine waits forever on a       *)
(* transfer that a failed sibling left behind a nonce gap.                 *)
ConstructionReturns == <>(cpc \in {"client", "error"})

(* GetMaxConcurrency's comment "Root key is excluded from the count": the  *)
(* keys 1..GetMaxConcurrency() a load test runs its workers on are never   *)
(* the root key.                                                           *)
ConcurrencyExcludesRoot ==
    cpc = "client" => \A i \in 2..(GetMaxConcurrency + 1) : keys[i] # Root

(* The code's comment "root key is element 0 in ephemeral": the funding    *)
(* transfers are sent from the root key, to the ephemeral addresses.       *)
FundingFromRootKey ==
    cpc = "funding" =>
        /\ keys[1] = Root
        /\ \A i \in 2..Len(keys) : keys[i] \in Range(EphemeralKeys)

====
