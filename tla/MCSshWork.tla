----------------------------- MODULE MCSshWork -----------------------------
(* A chain of one jump host and the target, two remote forwards and two     *)
(* clients of tunnels for TLC.                                              *)
EXTENDS SshWork

CONSTANTS k1, k2  \* the keys of the target

WorkSymmetry == Permutations(Attempts) \cup Permutations(Forwards) \cup Permutations({k1, k2})

MCHops == <<"jump", "target">>
\* The jump host has one key, the target two of one algorithm.
MCServerKeys == [e \in {"jump", "target"} |-> IF e = "jump" THEN {"j1"} ELSE {k1, k2}]
MCAlg == [k \in {"j1", k1, k2} |-> "ed25519"]
MCAuthOrder == <<"publickey">>
MCPolicies ==
    {[mode |-> "tofu", rotation |-> FALSE, ignore |-> TRUE, libssh |-> FALSE],
     [mode |-> "ask", rotation |-> FALSE, ignore |-> FALSE, libssh |-> TRUE]}

\* Every kind of client, beside one that waits for the place or for the same
\* SSH connection.
MCMixes ==
    {<<k, "local">> : k \in {"local", "dynamic", "remote"}}
    \cup {<<k, "udp">> : k \in {"host", "hostDynamic", "tcp"}}
    \cup {<<k, "http">> : k \in {"socks", "socksAuth"}}
MCTargets == {[host |-> "a", port |-> 1], [host |-> "a", port |-> 2]}
MCRules == {[hosts |-> {"a"}, port |-> 1]}
=============================================================================
