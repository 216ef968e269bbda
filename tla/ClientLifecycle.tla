----------------------------- MODULE ClientLifecycle -----------------------------
(***************************************************************************)
(* NewClient (Construction), called by a program or by the seth CLI (CLI),*)
(* followed, in a program, by contract deployments on the client it       *)
(* returns (Deploy): the deployers run only once the constructor has      *)
(* returned a client, and whether a deployment is saved to the contract    *)
(* map file is the configuration's ShoulSaveDeployedContractMap.           *)
(***************************************************************************)
CONSTANTS Root, EphemeralKeys, Envs, Tomls, InitialPools, MaxKeys, None,
          Deployers, Entries, Attempts, Commands, Flags

VARIABLES cpc, env, toml, keys, nmNext, nmLock, gpc, nonce, accepted, cancelled, chain, pool,
          dpc, tries, code, addrMap, abiKnown, saved, clipc, cmd, flag, network

C == INSTANCE Construction
CL == INSTANCE CLI
\* The deployers' view of the constructor: the program has a client, and
\* its configuration asks for deployed contracts to be saved.
ClientReady == cpc = "client" /\ clipc = "program"
ShouldSave == C!ShoulSaveDeployedContractMap

D == INSTANCE Deploy WITH ready <- ClientReady, shouldSave <- ShouldSave

constructionVars == <<cpc, env, toml, keys, nmNext, nmLock, gpc, nonce, accepted, cancelled, chain, pool>>
deployVars == <<dpc, tries, code, addrMap, abiKnown, saved>>
cliVars == <<clipc, cmd, flag, network>>
vars == <<constructionVars, deployVars, cliVars>>

\* The CLI deploys nothing: its deployers never leave their first step.
Init ==
    /\ CL!Init /\ D!InitDeployers
    /\ clipc # "program" => dpc = [d \in Deployers |-> "direct"] /\ ~abiKnown

\* A step of the CLI, or of the constructor, its funding goroutines or key
\* 0's node.
ConstructionStep == UNCHANGED deployVars /\ CL!Next

\* A step of a deployer, or the node mining its creation transaction; the
\* constructor's state, which ready and shouldSave are read from, stays.
DeployStep(d) == UNCHANGED <<constructionVars, cliVars>> /\ (D!Deployer(d) \/ D!DeployMine(d))

Next == ConstructionStep \/ \E d \in Deployers : DeployStep(d)

(* The fairness of each part: its goroutines run, timers fire, the node    *)
(* mines.                                                                  *)
Spec == Init /\ [][Next]_vars /\ CL!Fairness /\ D!Fairness

-----------------------------------------------------------------------------
TypeOK == CL!TypeOK /\ D!TypeOK

(* The constructor's properties hold of the whole lifecycle; NewClient,    *)
(* once a program or the CLI calls it, returns.                            *)
FundedOnSuccess == C!FundedOnSuccess
ConstructionReturns == CL!Active ~> cpc \in {"client", "error"}

(* A deployment reported successful is deployed, in the contract map and   *)
(* its ABI in the store, whichever way the client was configured.          *)
DeployedOnSuccess == D!DeployedOnSuccess

(* Once NewClient has returned a client, every deployment on it returns.   *)
DeployReturns == D!DeployReturns


(* The trace command never funds ephemeral addresses.                       *)
TraceNeverFunds == CL!TraceNeverFunds

(* Observations, not standing runs: the -n flag does not select the network *)
(* of gas and keys, and the gas command funds ephemeral addresses.          *)
CommandUsesFlagNetwork == CL!CommandUsesFlagNetwork
GasNeverFunds == CL!GasNeverFunds

(* Observation: a gap in key 0's pool lets the pending nonce pass the      *)
(* NonceManager's counter.                                                 *)
PendingWithinLocal == C!PendingWithinLocal

(* Observation, not a standing run: the comment "root key is element 0 in  *)
(* ephemeral" (client.go:276) does not hold of ReadConfig's key order.     *)
FundingFromRootKey == C!FundingFromRootKey
ConcurrencyExcludesRoot == C!ConcurrencyExcludesRoot

====
