--------------------------- MODULE MCTerminalWork ---------------------------
(* Bounds for model checking TerminalWork.  Each behaviour has enough of    *)
(* what one of the hazards needs; a single bound with enough of everything *)
(* is out of reach.                                                        *)
EXTENDS TerminalWork

(* TerminalInput. *)
Budget(keys, streams, payloads, runtimes, attaches, exits) ==
    [keys |-> keys, streams |-> streams, payloads |-> payloads,
     runtimes |-> runtimes, attaches |-> attaches, exits |-> exits,
     queues |-> 2, logs |-> 2]

MCBudgets ==
    {Budget(2, 1, 0, 2, 1, TRUE),    \* keys, a second connection, an attach, the exit
     Budget(3, 1, 0, 1, 1, FALSE),   \* more keys than the stream or the queue holds
     Budget(1, 2, 0, 2, 1, FALSE),   \* a stream bound anew after a reset
     Budget(1, 1, 1, 2, 1, FALSE),   \* a paced payload between keys, and an attach
     Budget(1, 1, 1, 1, 0, TRUE)}    \* a paced payload and the exit

(* CommandOutput: a command beside every kind of call. *)
MCMixes ==
    {{"command", kind} :
        kind \in {"text", "bytes", "keys", "command", "onekey", "modem", "attach"}}

(* EventLog. *)
Quota(chunks, runtimes, texts, faults, matches, binary, erased, flushes, exits) ==
    [chunks |-> chunks, runtimes |-> runtimes, texts |-> texts, faults |-> faults,
     matches |-> matches, binary |-> binary, deletes |-> erased, flushes |-> flushes,
     exits |-> exits]

MCQuotas ==
    {Quota(2, 2, 1, 0, {"text"}, FALSE, FALSE, 0, FALSE),     \* a text for a connection replaced
     Quota(2, 2, 1, 0, {"command"}, FALSE, FALSE, 0, FALSE),  \* a command that outlives one
     Quota(2, 1, 1, 1, {}, TRUE, FALSE, 0, TRUE),             \* the exit, a save that fails
     Quota(2, 2, 1, 0, {}, FALSE, FALSE, 2, FALSE),           \* an update flushes twice
     Quota(1, 1, 1, 0, {"text"}, TRUE, TRUE, 0, FALSE),       \* the session is deleted
     Quota(1, 1, 2, 0, {"text"}, FALSE, FALSE, 0, TRUE)}      \* two texts, and the exit
=============================================================================
