---------------------------------- MODULE CLI ----------------------------------
(***************************************************************************)
(* The entry points that build a client (src/cmd/seth.go): a program that *)
(* calls NewClient itself, or RunCLI.  RunCLI's Before hook rejects an    *)
(* empty -n flag, writes the flag to the NETWORK environment variable and *)
(* calls NewClient for every command but trace (and none).  The trace     *)
(* command reads the TOML itself, selects the network named by NETWORK,   *)
(* sets ephemeral_addresses_number to 0 and calls NewClientWithConfig.    *)
(* gas and keys run code that is not in src/ (GasEstimator.Stats, the key *)
(* file commands) and succeed or fail.  NewClient is Construction.        *)
(***************************************************************************)
CONSTANTS Root, EphemeralKeys, Envs, Tomls, InitialPools, MaxKeys, None,
          Commands,   \* the first argument: "gas", "keys", "trace" or "help" (none)
          Flags       \* the -n flag's values, "" included

VARIABLES cpc, env, toml, keys, nmNext, nmLock, gpc, nonce, accepted, cancelled, chain, pool,
          clipc,      \* where the entry point is
          cmd,        \* the command
          flag,       \* the -n flag
          network     \* the NETWORK environment variable

C == INSTANCE Construction

constructionVars == <<cpc, env, toml, keys, nmNext, nmLock, gpc, nonce, accepted, cancelled, chain, pool>>
cliVars == <<clipc, cmd, flag, network>>
vars == <<constructionVars, cliVars>>

\* The network the trace command selects: the last of the TOML's networks
\* named NETWORK, else the [network] table already in cfg.Network.
TraceNetwork(t, n) ==
    CASE n \in t.networks -> n
      [] t.table          -> "table"
      [] OTHER            -> "none"

-----------------------------------------------------------------------------
(* Before: an empty -n is ErrNoNetwork; os.Setenv("NETWORK", flag); then   *)
(* NewClient unless there is no argument or it is trace.                   *)
Before ==
    /\ clipc = "before"
    /\ \/ flag = "" /\ clipc' = "error" /\ UNCHANGED network
       \/ /\ flag # ""
          /\ network' = flag
          /\ clipc' = IF cmd \in {"help", "trace"} THEN "action" ELSE "newClient"
    /\ UNCHANGED <<constructionVars, cmd, flag>>

(* Before returns NewClient's error, or the command's Action runs.         *)
ClientReturned ==
    /\ clipc = "newClient" /\ cpc \in {"client", "error"}
    /\ clipc' = IF cpc = "error" THEN "error" ELSE "action"
    /\ UNCHANGED <<constructionVars, cmd, flag, network>>

(* The gas and keys Actions call code outside src/; help prints usage.     *)
Command ==
    /\ clipc = "action" /\ cmd \in {"gas", "keys", "help"}
    /\ \/ clipc' = "done"
       \/ cmd # "help" /\ clipc' = "error"
    /\ UNCHANGED <<constructionVars, cmd, flag, network>>

\* Mutant: the trace command keeps the TOML's ephemeral address count.
TraceConfigKeepsEphemeral ==
    /\ clipc = "action" /\ cmd = "trace"
    /\ \/ clipc' = "error" /\ UNCHANGED constructionVars
       \/ /\ env.path /\ network # "" /\ TraceNetwork(toml, network) # "none"
          /\ keys' = toml.keys[TraceNetwork(toml, network)]
          /\ cpc' = "withConfig" /\ clipc' = "traceClient"
          /\ UNCHANGED <<env, toml, nmNext, nmLock, gpc, nonce, accepted, cancelled, chain, pool>>
    /\ UNCHANGED <<cmd, flag, network>>

(* The trace Action: the JSON file, an empty SETH_CONFIG_PATH, reading and *)
(* unmarshalling the TOML, an empty NETWORK and a network not found are    *)
(* errors; otherwise the config (its network's keys, no root key) gets 0   *)
(* ephemeral addresses and goes to NewClientWithConfig.                    *)
TraceConfig ==
    /\ clipc = "action" /\ cmd = "trace"
    /\ \/ clipc' = "error" /\ UNCHANGED constructionVars
       \/ /\ env.path /\ network # "" /\ TraceNetwork(toml, network) # "none"
          /\ toml' = [toml EXCEPT !.ephemeral = 0]
          /\ keys' = toml.keys[TraceNetwork(toml, network)]
          /\ cpc' = "withConfig" /\ clipc' = "traceClient"
          /\ UNCHANGED <<env, nmNext, nmLock, gpc, nonce, accepted, cancelled, chain, pool>>
    /\ UNCHANGED <<cmd, flag, network>>

(* NewClientWithConfig's error is returned; each TraceGethTX may fail.     *)
TraceReturned ==
    /\ clipc = "traceClient" /\ cpc \in {"client", "error"}
    /\ \/ cpc = "error" /\ clipc' = "error"
       \/ cpc = "client" /\ clipc' \in {"done", "error"}
    /\ UNCHANGED <<constructionVars, cmd, flag, network>>

-----------------------------------------------------------------------------
\* A program calls NewClient itself ("program"), or the CLI starts.
Init ==
    /\ C!Init /\ network = ""
    /\ \/ clipc = "program" /\ cmd = "help" /\ flag = ""
       \/ clipc = "before" /\ cmd \in Commands /\ flag \in Flags

\* NewClient, or the trace command's NewClientWithConfig, is running.
Active == clipc \in {"program", "newClient", "traceClient"}

\* A step A of the constructor while it runs; the CLI's state stays.
Run(A) == Active /\ UNCHANGED cliVars /\ A

ConstructionStep == Run(C!Next)

CliStep == Before \/ ClientReturned \/ Command \/ TraceConfig \/ TraceReturned

Next == ConstructionStep \/ CliStep

(* Construction's fairness while it runs, and the CLI's goroutine runs.    *)
Fairness ==
    /\ WF_vars(Run(C!ReadConfig)) /\ WF_vars(Run(C!NewClientWithConfig))
    /\ WF_vars(Run(C!NewClientRaw)) /\ WF_vars(Run(C!Collect)) /\ WF_vars(Run(C!Mine))
    /\ \A g \in C!G : WF_vars(Run(C!Goroutine(g)))
    /\ WF_vars(CliStep)

Spec == Init /\ [][Next]_vars /\ Fairness

-----------------------------------------------------------------------------
TypeOK ==
    /\ C!TypeOK
    /\ clipc \in {"program", "before", "newClient", "action", "traceClient", "done", "error"}
    /\ cmd \in Commands \cup {"help"} /\ flag \in Flags \cup {""}
    /\ network \in Flags \cup {""}

(* The trace command only reads: whatever ephemeral_addresses_number the   *)
(* TOML sets, the client it builds never starts funding goroutines, so     *)
(* tracing never spends the root key's funds.                              *)
TraceNeverFunds == cmd = "trace" => cpc # "funding"

(* Observation: the network -n names is the one the client of the gas and *)
(* keys commands is built for.  ReadConfig reads SETH_NETWORK, not the     *)
(* NETWORK variable Before sets.                                           *)
CommandUsesFlagNetwork ==
    (clipc = "action" /\ cmd \in {"gas", "keys"}) => C!SelectedNetwork(env, toml) = flag

(* Observation: the gas command only reads fees, yet NewClient funds the   *)
(* ephemeral addresses from the root key when the TOML asks for them.      *)
GasNeverFunds == cmd = "gas" => cpc # "funding"

====
