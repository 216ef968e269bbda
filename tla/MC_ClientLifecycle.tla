---------------------------- MODULE MC_ClientLifecycle ----------------------------
(* Instantiation of ClientLifecycle for TLC.                                *)
EXTENDS ClientLifecycle

CONSTANTS root, e1, e2, t1, none, d1, d2

\* Two ephemeral keys: two funding goroutines racing for key 0's nonces.
MC_EphemeralKeys == <<e1, e2>>

\* SETH_NETWORK names a configured network, names none, or is unset with
\* and without SETH_CHAIN_ID/SETH_URL; the root key is set or not.
MC_Envs ==
    {[path |-> TRUE, network |-> "Sepolia", chainUrl |-> FALSE, root |-> TRUE],
     [path |-> TRUE, network |-> "", chainUrl |-> TRUE, root |-> TRUE],
     [path |-> TRUE, network |-> "Other", chainUrl |-> FALSE, root |-> TRUE],
     [path |-> TRUE, network |-> "", chainUrl |-> FALSE, root |-> TRUE],
     [path |-> TRUE, network |-> "Sepolia", chainUrl |-> FALSE, root |-> FALSE],
     [path |-> TRUE, network |-> "Geth", chainUrl |-> FALSE, root |-> TRUE],
     [path |-> FALSE, network |-> "", chainUrl |-> FALSE, root |-> TRUE]}

\* Networks without keys of their own, in ephemeral mode and not, valid or
\* not; one with a [network] table.
MC_Tomls ==
    {[networks |-> {"Sepolia", "Default"}, table |-> FALSE,
      keys |-> [n \in {"Sepolia", "Default"} |-> <<>>], ephemeral |-> 2, valid |-> TRUE, save |-> TRUE],
     [networks |-> {"Sepolia"}, table |-> TRUE,
      keys |-> [n \in {"Sepolia", "table"} |-> <<>>], ephemeral |-> 0, valid |-> TRUE, save |-> FALSE],
     [networks |-> {"Sepolia"}, table |-> FALSE,
      keys |-> [n \in {"Sepolia"} |-> <<>>], ephemeral |-> 1, valid |-> FALSE, save |-> TRUE]}

\* The same, with the selected network listing a key of its own; a simulated
\* Geth network, whose deployed contract map is never saved.
MC_TomlsWithKeys ==
    {[networks |-> {"Sepolia"}, table |-> FALSE,
      keys |-> [n \in {"Sepolia"} |-> <<t1>>], ephemeral |-> 1, valid |-> TRUE, save |-> TRUE],
     [networks |-> {"Geth"}, table |-> FALSE,
      keys |-> [n \in {"Geth"} |-> <<t1>>], ephemeral |-> 0, valid |-> TRUE, save |-> TRUE]}

\* Every configuration above.
MC_AllTomls == MC_Tomls \cup MC_TomlsWithKeys

\* Nothing pending, a transaction of an earlier run still pooled, or one
\* queued above a gap (nonce 0 missing).
MC_InitialPools == {{}, {0}, {1}}

\* Each deployer calls DeployContract directly or through the contract store,
\* which may lack the ABI or BIN.
MC_Entries == {"direct", "fromStore", "fromStoreMissing"}

\* A read-only command, a key command, trace and no command.
MC_Commands == {"gas", "keys", "trace", "help"}

\* No -n, a configured network, and the simulated one.
MC_Flags == {"", "Sepolia", "Geth"}
====
