------------------------------ MODULE SshWork ------------------------------
(***************************************************************************)
(* The work over SSH beside the terminal's: a connection is established,   *)
(* or remote forwards are kept on one, or clients are served through       *)
(* tunnels and proxies.  Each behaves as its own module says; a behaviour  *)
(* is about one of them.                                                   *)
(***************************************************************************)
EXTENDS SshConnection, RemoteForwards

CONSTANTS Clients, Mixes, Slots, Targets, Rules, MaxData, MaxResponse, MaxTroubles

VARIABLES work, slots, sshUp, client, troubles

Tunnels == INSTANCE TunnelClient

ASSUME ClientsAssumption ==
    /\ IsFiniteSet(Clients)
    /\ Slots \in Nat /\ MaxResponse \in Nat
    /\ Mixes \subseteq [Clients -> Tunnels!Kinds]

clientVars == <<slots, sshUp, client, troubles>>
workVars == <<work, vars, forwardVars, clientVars>>

ClientsIdle == slots = 0 /\ sshUp = FALSE /\ client = <<>> /\ troubles = 0

WorkInit ==
    /\ work \in {"connect", "forwards", "clients"}
    /\ Init /\ ForwardInit
    /\ work # "connect" =>
         /\ profile.policy = CHOOSE p \in Policies : TRUE
         /\ server = [e \in Endpoints |-> CHOOSE k \in ServerKeys[e] : TRUE]
         /\ registered = "none"
    /\ work # "forwards" =>
         /\ host = [f \in Forwards |-> CHOOSE h \in BindHosts : TRUE]
         /\ port = [f \in Forwards |-> 0]
    /\ IF work = "clients" THEN Tunnels!ClientInit ELSE ClientsIdle

WorkNext ==
    \/ work = "connect" /\ Next /\ UNCHANGED <<work, forwardVars, clientVars>>
    \/ work = "forwards" /\ ForwardNext /\ UNCHANGED <<work, vars, clientVars>>
    \/ work = "clients" /\ Tunnels!ClientNext /\ UNCHANGED <<work, vars, forwardVars>>

WorkSpec == WorkInit /\ [][WorkNext]_workVars

-----------------------------------------------------------------------------
(* Properties.                                                              *)

\* A connection through a tunnel or a proxy gives its place back, goes only
\* where the rules let it, loses, adds and reorders nothing, and an answer cut
\* short says so: TunnelClient says how.
TunnelsAreFaithful ==
    work = "clients" =>
        /\ Tunnels!SlotsAreReturned /\ Tunnels!RulesAreObeyed
        /\ Tunnels!PipeIsComplete /\ Tunnels!ResponseIsExact
=============================================================================
