--------------------------------- MODULE Deploy ---------------------------------
(***************************************************************************)
(* Contract deployment (src/client.go): DeployContractFromContractStore    *)
(* looks the ABI and bytecode up and calls DeployContract, which sends the *)
(* creation transaction, retries bind.WaitDeployed up to Attempts times    *)
(* while the error says the contract code is missing, registers the        *)
(* address in the contract map and the ABI in the store if absent, and     *)
(* saves the address to the contract map file when the configuration asks *)
(* for it.  Each deployer is a goroutine of the program deploying one      *)
(* contract of the same name; the node decides whether a creation          *)
(* transaction deploys code or reverts.                                    *)
(***************************************************************************)
EXTENDS Naturals

CONSTANTS
    Deployers,   \* goroutines calling DeployContract[FromContractStore]
    Entries,     \* how each may call: "direct", "fromStore", "fromStoreMissing"
    Attempts     \* retry.Attempts(10)

VARIABLES
    ready,       \* the client exists
    shouldSave,  \* Cfg.ShoulSaveDeployedContractMap()
    dpc,         \* where each deployer is
    tries,       \* WaitDeployed attempts made
    code,        \* the node: "none", "pending", "deployed" or "reverted"
    addrMap,     \* deployers whose address is in ContractAddressToNameMap
    abiKnown,    \* the contract store has the name's ABI
    saved        \* deployers whose address SaveDeployedContract wrote

vars == <<ready, shouldSave, dpc, tries, code, addrMap, abiKnown, saved>>

Done == {"ok", "err"}

-----------------------------------------------------------------------------
(* DeployContractFromContractStore: a nil store, a missing ABI or BIN is   *)
(* an error.                                                                *)
FromStore(d) ==
    /\ ready /\ dpc[d] \in {"fromStore", "fromStoreMissing"}
    /\ dpc' = [dpc EXCEPT ![d] = IF dpc[d] = "fromStore" THEN "deploy" ELSE "err"]
    /\ UNCHANGED <<ready, shouldSave, tries, code, addrMap, abiKnown, saved>>

(* bind.DeployContract: an error returns; else the creation tx is sent.    *)
SendDeploy(d) ==
    /\ ready /\ dpc[d] \in {"direct", "deploy"}
    /\ \/ dpc' = [dpc EXCEPT ![d] = "err"] /\ UNCHANGED code
       \/ /\ dpc' = [dpc EXCEPT ![d] = "waitDeployed"]
          /\ code' = [code EXCEPT ![d] = "pending"]
    /\ UNCHANGED <<ready, shouldSave, tries, addrMap, abiKnown, saved>>

(* The node mines the creation transaction: code, or a revert.             *)
DeployMine(d) ==
    /\ code[d] = "pending"
    /\ \E c \in {"deployed", "reverted"} : code' = [code EXCEPT ![d] = c]
    /\ UNCHANGED <<ready, shouldSave, dpc, tries, addrMap, abiKnown, saved>>

\* The outcome of one failed attempt under retry.RetryIf: retried while
\* attempts remain, else returned.
NoCode(d) ==
    dpc' = [dpc EXCEPT ![d] = IF tries[d] + 1 < Attempts THEN "waitDeployed" ELSE "err"]

\* Mutant: the retry has no attempt limit.
AttemptUnbounded(d) ==
    /\ dpc[d] = "waitDeployed"
    /\ tries' = [tries EXCEPT ![d] = IF tries[d] < Attempts THEN tries[d] + 1 ELSE tries[d]]
    /\ \/ code[d] = "pending" /\ dpc' = [dpc EXCEPT ![d] = "err"]
       \/ code[d] = "deployed" /\ dpc' = [dpc EXCEPT ![d] = "register"]
       \/ code[d] \in {"deployed", "reverted"} /\ UNCHANGED dpc
    /\ UNCHANGED <<ready, shouldSave, code, addrMap, abiKnown, saved>>

\* Mutant: the error retry.Do returns is not checked.
AttemptIgnoresError(d) ==
    /\ dpc[d] = "waitDeployed"
    /\ tries' = [tries EXCEPT ![d] = tries[d] + 1]
    /\ \/ code[d] = "pending" /\ dpc' = [dpc EXCEPT ![d] = "register"]
       \/ code[d] = "deployed" /\ dpc' = [dpc EXCEPT ![d] = "register"]
       \/ /\ code[d] \in {"deployed", "reverted"}
          /\ dpc' = [dpc EXCEPT ![d] = IF tries[d] + 1 < Attempts THEN "waitDeployed" ELSE "register"]
    /\ UNCHANGED <<ready, shouldSave, code, addrMap, abiKnown, saved>>

(* One attempt of bind.WaitDeployed under its own TxnTimeout context: a    *)
(* transaction still pending times out, an error not retried; a deployed   *)
(* contract's code is found, or not yet by a lagging node ("no contract    *)
(* code after deployment"), as for a reverted one, and is retried.         *)
Attempt(d) ==
    /\ dpc[d] = "waitDeployed"
    /\ tries' = [tries EXCEPT ![d] = tries[d] + 1]
    /\ \/ code[d] = "pending" /\ dpc' = [dpc EXCEPT ![d] = "err"]
       \/ code[d] = "deployed" /\ dpc' = [dpc EXCEPT ![d] = "register"]
       \/ code[d] \in {"deployed", "reverted"} /\ NoCode(d)
    /\ UNCHANGED <<ready, shouldSave, code, addrMap, abiKnown, saved>>

(* ContractAddressToNameMap.AddContract(address, name).                    *)
Register(d) ==
    /\ dpc[d] = "register"
    /\ addrMap' = addrMap \cup {d}
    /\ dpc' = [dpc EXCEPT ![d] = "checkABI"]
    /\ UNCHANGED <<ready, shouldSave, tries, code, abiKnown, saved>>

(* if _, ok := ContractStore.GetABI(name); !ok { AddABI(name, abi) }: the  *)
(* check and the add are separate calls.                                   *)
CheckABI(d) ==
    /\ dpc[d] = "checkABI"
    /\ dpc' = [dpc EXCEPT ![d] = IF abiKnown THEN "save" ELSE "addABI"]
    /\ UNCHANGED <<ready, shouldSave, tries, code, addrMap, abiKnown, saved>>

AddABI(d) ==
    /\ dpc[d] = "addABI"
    /\ abiKnown' = TRUE
    /\ dpc' = [dpc EXCEPT ![d] = "save"]
    /\ UNCHANGED <<ready, shouldSave, tries, code, addrMap, saved>>

(* Unless ShoulSaveDeployedContractMap is false, SaveDeployedContract;     *)
(* its failure is only logged.  The deployment data is returned.           *)
Save(d) ==
    /\ dpc[d] = "save"
    /\ \/ ~shouldSave /\ UNCHANGED saved
       \/ shouldSave /\ saved' \in {saved, saved \cup {d}}
    /\ dpc' = [dpc EXCEPT ![d] = "ok"]
    /\ UNCHANGED <<ready, shouldSave, tries, code, addrMap, abiKnown>>

-----------------------------------------------------------------------------
\* The deployer's part; ready and shouldSave are set by the constructor.
InitDeployers ==
    /\ dpc \in [Deployers -> Entries]
    /\ tries = [d \in Deployers |-> 0]
    /\ code = [d \in Deployers |-> "none"]
    /\ addrMap = {} /\ saved = {}
    \* the store loaded from the ABI directory has the ABI of a stored contract
    /\ abiKnown \in IF \E d \in Deployers : dpc[d] = "fromStore" THEN {TRUE} ELSE BOOLEAN

Init == ready = TRUE /\ shouldSave \in BOOLEAN /\ InitDeployers

Deployer(d) ==
    FromStore(d) \/ SendDeploy(d) \/ Attempt(d) \/ Register(d) \/ CheckABI(d)
    \/ AddABI(d) \/ Save(d)

Next == \E d \in Deployers : Deployer(d) \/ DeployMine(d)

(* Each deployer runs when it can; the node mines what it was sent.        *)
Fairness == \A d \in Deployers : WF_vars(Deployer(d)) /\ WF_vars(DeployMine(d))

Spec == Init /\ [][Next]_vars /\ Fairness

-----------------------------------------------------------------------------
TypeOK ==
    /\ ready \in BOOLEAN /\ shouldSave \in BOOLEAN
    /\ dpc \in [Deployers -> Entries \cup {"deploy", "waitDeployed", "register",
                                           "checkABI", "addABI", "save"} \cup Done]
    /\ tries \in [Deployers -> 0..Attempts]
    /\ code \in [Deployers -> {"none", "pending", "deployed", "reverted"}]
    /\ addrMap \subseteq Deployers /\ abiKnown \in BOOLEAN /\ saved \subseteq Deployers

(* The spec's deployment contract: DeployContract returns success only for *)
(* a creation transaction whose code the node has deployed, and then the   *)
(* address is in the contract map and the name's ABI in the store, however *)
(* the deployers' registrations and the node's replies interleave.         *)
DeployedOnSuccess ==
    \A d \in Deployers :
        dpc[d] = "ok" => code[d] = "deployed" /\ d \in addrMap /\ abiKnown

(* Every DeployContract call returns: the retry of WaitDeployed ends for a *)
(* contract whose code never appears, and a creation transaction never     *)
(* mined ends with its attempt's timeout.                                  *)
DeployReturns == ready ~> (\A d \in Deployers : dpc[d] \in Done)

====
