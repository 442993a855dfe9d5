--------------------------- MODULE RemoteForwards ---------------------------
(***************************************************************************)
(* The remote forwards of one SSH connection: ports on which the server    *)
(* listens for us, and the routes that say which tunnel a connection that  *)
(* arrives there belongs to.  A tunnel is created, checked every so often  *)
(* by its health monitor, which restores what is missing, and stopped.     *)
(* Each of these holds the tunnel's lifecycle lane; the end of the         *)
(* connection, which takes its tunnels along, does not.                    *)
(*                                                                         *)
(* A tunnel is one creation: its id and the counters that own its routes.  *)
(***************************************************************************)
EXTENDS Naturals, FiniteSets

CONSTANTS
    Forwards,    \* the remote tunnels
    BindHosts,   \* the addresses the server may be asked to listen on
    Ports,       \* the ports it may listen on
    AnyHost,     \* stands for the address in the key of a port alone
    NoForward,   \* no tunnel
    Libssh,      \* whether libssh holds the connection, which needs an acceptor
    MaxForwards, \* MAX_ACTIVE_TUNNELS
    MaxFaults    \* bound: how often the server or the network misbehaves

ASSUME ForwardAssumption ==
    /\ 0 \notin Ports
    /\ AnyHost \notin BindHosts
    /\ NoForward \notin Forwards
    /\ Libssh \in BOOLEAN
    /\ MaxForwards \in Nat /\ MaxFaults \in Nat

VARIABLES
    held,      \* the connection: connected; lost, to be replaced; gone from the registry
    linkUp,    \* whether the server can still be reached over it
    listens,   \* the addresses and ports the server listens on for us
    routes,    \* remote_forwards: per key the tunnel
    host,      \* each tunnel's bind host
    port,      \* each tunnel's port, 0: the server is to choose
    registry,  \* state.tunnels, those of this connection
    shut,      \* the tunnels whose closed flag is set
    lane,      \* each tunnel's lifecycle lane: what holds it
    step,      \* what the holder does next
    other,     \* the port the server chose against our wish, to be cancelled first, or 0
    enabled,   \* the tunnels that the stored profile says are enabled
    unrouted,  \* the tunnels whose routes a failed restore has taken back
    acceptor,  \* remote_forward_acceptor_started
    acceptors, \* the acceptors that run
    faults     \* how often something went wrong

serverVars  == <<held, linkUp, listens, faults>>
acceptVars  == <<acceptor, acceptors>>
tunnelVars  == <<registry, shut, enabled, unrouted>>
holderVars  == <<lane, step, other>>
forwardVars == <<serverVars, acceptVars, tunnelVars, holderVars, routes, host, port>>

Address(f, p) == <<host[f], p>>
Addresses == BindHosts \X Ports

\* remote_forward_key and remote_forward_port_key.
Keys == (BindHosts \cup {AnyHost}) \X Ports
KeysAt(f, p) == {<<host[f], p>>, <<AnyHost, p>>}

ForwardInit ==
    /\ held = "connected" /\ linkUp = TRUE /\ listens = {}
    /\ routes = [k \in Keys |-> NoForward]
    /\ host \in [Forwards -> BindHosts] /\ port \in [Forwards -> Ports \cup {0}]
    /\ registry = {} /\ shut = {}
    /\ lane = [f \in Forwards |-> "free"] /\ step = [f \in Forwards |-> "new"]
    /\ other = [f \in Forwards |-> 0]
    /\ enabled = {} /\ unrouted = {}
    /\ acceptor = FALSE /\ acceptors = 0 /\ faults = 0

Goes(f, next) == step' = [step EXCEPT ![f] = next]

\* The holder of the lane is through.
Leaves(f, next) == Goes(f, next) /\ lane' = [lane EXCEPT ![f] = "free"]

Faulty == faults < MaxFaults /\ faults' = faults + 1

----------------------------------------------------------------------------
(* The connection and its server.                                          *)

\* The transport breaks, or is given up.
LinkFails ==
    /\ linkUp
    /\ linkUp' = FALSE /\ listens' = {}
    /\ UNCHANGED <<held, faults, acceptVars, tunnelVars, holderVars, routes, host, port>>

\* The reader of the terminal ends: the tunnels are failed, and the runtime stays
\* for the reconnect to replace, or goes.
ReaderEnds ==
    /\ held = "connected"
    /\ held' \in {"lost", "gone"}
    /\ registry' = {} /\ shut' = shut \cup registry
    /\ UNCHANGED <<linkUp, listens, faults, acceptVars, enabled, unrouted, holderVars, routes,
                   host, port>>

\* A close, or the install of a new connection, takes the runtime away first.
ConnectionGoes ==
    /\ held # "gone"
    /\ held' = "gone"
    /\ UNCHANGED <<linkUp, listens, faults, acceptVars, tunnelVars, holderVars, routes, host, port>>

TunnelsStop ==
    /\ held = "gone" /\ registry # {}
    /\ registry' = {} /\ shut' = shut \cup registry
    /\ UNCHANGED <<serverVars, acceptVars, enabled, unrouted, holderVars, routes, host, port>>

ServerDrops(a) ==
    /\ a \in listens
    /\ listens' = listens \ {a}
    /\ Faulty
    /\ UNCHANGED <<held, linkUp, acceptVars, tunnelVars, holderVars, routes, host, port>>

\* A request under the shared handle is granted; or it fails: the server refuses,
\* or has done it although the wait for its answer ran out; after some of the
\* timeouts the connection is given up.
Grants(after)  == linkUp /\ listens' = after /\ UNCHANGED <<held, linkUp, faults>>
RequestFails(after) ==
    \/ ~ linkUp /\ UNCHANGED serverVars
    \/ linkUp /\ Faulty /\ listens' \in {listens, after} /\ UNCHANGED <<held, linkUp>>
    \/ linkUp /\ Faulty /\ listens' = {} /\ linkUp' = FALSE /\ UNCHANGED held

\* Without a fault an address that is taken is refused.
Refuses(a) == linkUp /\ a \in listens /\ UNCHANGED serverVars

----------------------------------------------------------------------------
(* Routes, registry, acceptor.                                             *)

\* Mutant: only the key with the address is looked at.
AddressFree(f, p) == routes[Address(f, p)] \in {NoForward, f}

\* ensure_remote_forward_route_slot.
RouteSlotFree(f, p) == \A k \in KeysAt(f, p) : routes[k] \in {NoForward, f}

Routed(f) == [k \in Keys |-> IF k \in KeysAt(f, port[f]) THEN f ELSE routes[k]]

\* Mutant: the routes of a port go, whoever has them.
UnroutedAll(f, p) == [k \in Keys |-> IF k \in KeysAt(f, p) THEN NoForward ELSE routes[k]]

\* remove_remote_forward_routes_if_owned.
Unrouted(f, p) ==
    [k \in Keys |-> IF k \in KeysAt(f, p) /\ routes[k] = f THEN NoForward ELSE routes[k]]

\* ensure_tunnel_runtime_slot.
RuntimeSlot(f) == f \notin registry /\ Cardinality(registry) < MaxForwards

\* ensure_libssh_remote_forward_acceptor; the closed flag of the runtime is set
\* by whoever takes it from the registry.
EnsureAcceptor ==
    IF Libssh /\ held # "gone" /\ ~ acceptor
    THEN acceptor' = TRUE /\ acceptors' = acceptors + 1
    ELSE UNCHANGED acceptVars

\* Its worker failed, or the connection is gone; the registration is dropped.
AcceptorEnds ==
    /\ acceptors > 0
    /\ acceptors' = acceptors - 1 /\ acceptor' = FALSE
    /\ UNCHANGED <<serverVars, tunnelVars, holderVars, routes, host, port>>

----------------------------------------------------------------------------
(* Creating a tunnel: create_tunnel_inner, start_tunnel_runtime.           *)

CreateBegins(f) ==
    /\ step[f] = "new"
    /\ held = "connected"
    /\ RuntimeSlot(f)
    /\ port[f] # 0 => RouteSlotFree(f, port[f])
    /\ lane' = [lane EXCEPT ![f] = "create"] /\ Goes(f, "listen")
    /\ UNCHANGED <<serverVars, acceptVars, tunnelVars, other, routes, host, port>>

\* The server listens where it was asked to, or where it likes.
Listen(f, p) ==
    /\ step[f] = "listen"
    /\ port[f] \in {0, p} /\ Address(f, p) \notin listens
    /\ Grants(listens \cup {Address(f, p)})
    /\ port' = [port EXCEPT ![f] = p]
    /\ Goes(f, "install")
    /\ UNCHANGED <<acceptVars, tunnelVars, lane, other, routes, host>>

ListenFails(f, p) ==
    /\ step[f] = "listen"
    /\ port[f] \in {0, p}
    /\ RequestFails(listens \cup {Address(f, p)}) \/ Refuses(Address(f, p))
    /\ Leaves(f, "failed")
    /\ UNCHANGED <<acceptVars, tunnelVars, other, routes, host, port>>

\* The answer names another port than p, where the server listens; it is remote_forward_
\* rollback_ports that says what is cancelled: the port named, then the one asked for.
ListenElsewhere(f, p) ==
    /\ step[f] \in {"listen", "restore"} /\ p # port[f]
    /\ linkUp /\ Faulty
    /\ listens' = listens \cup {Address(f, p)}
    /\ \E named \in {0, p} :
         /\ port[f] = 0 => named = 0
         /\ other' = [other EXCEPT ![f] = named]
    /\ Goes(f, "cancel")
    /\ UNCHANGED <<held, linkUp, acceptVars, tunnelVars, lane, routes, host, port>>

\* Under the locks of connections, store, tunnels and routes.
MayInstall(f) == held = "connected" /\ RuntimeSlot(f) /\ RouteSlotFree(f, port[f])

Install(f) ==
    /\ step[f] = "install"
    /\ MayInstall(f)
    /\ routes' = Routed(f)
    /\ registry' = registry \cup {f}
    /\ EnsureAcceptor
    /\ Goes(f, "commit")
    /\ UNCHANGED <<serverVars, shut, enabled, unrouted, lane, other, host, port>>

\* Also when the caller's validation fails.
InstallFails(f) ==
    /\ step[f] = "install"
    /\ Goes(f, "cancel")
    /\ UNCHANGED <<serverVars, acceptVars, tunnelVars, lane, other, routes, host, port>>

\* commit_started_tunnel.
CommitStarted(f) ==
    /\ step[f] = "commit"
    /\ enabled' = enabled \cup {f}
    /\ Leaves(f, "runs")
    /\ UNCHANGED <<serverVars, acceptVars, registry, shut, unrouted, other, routes, host, port>>

\* stop_tunnel_runtime_effects: nothing more if the registry does not have the
\* tunnel, the routes stay if it does not have the connection.
StopEffects(f, done) ==
    IF f \in registry
    THEN /\ registry' = registry \ {f} /\ shut' = shut \cup {f}
         /\ Goes(f, IF held = "gone" THEN done ELSE "cancel")
    ELSE UNCHANGED <<registry, shut>> /\ Goes(f, done)

CommitFails(f) ==
    /\ step[f] = "commit"
    /\ StopEffects(f, "stopped")
    /\ UNCHANGED <<serverVars, acceptVars, enabled, unrouted, lane, other, routes, host, port>>

----------------------------------------------------------------------------
(* cancel_remote_tunnel_forward, in a rollback port by port.               *)

Cancelling(f) == IF other[f] # 0 THEN other[f] ELSE port[f]

Cancel(f) ==
    /\ step[f] = "cancel"
    /\ LET after == listens \ {Address(f, Cancelling(f))}
       IN  Grants(after) \/ RequestFails(after)
    /\ Goes(f, "unroute")
    /\ UNCHANGED <<acceptVars, tunnelVars, lane, other, routes, host, port>>

\* Whatever became of the request.
Unroute(f) ==
    /\ step[f] = "unroute"
    /\ routes' = Unrouted(f, Cancelling(f))
    /\ other' = [other EXCEPT ![f] = 0]
    /\ Goes(f, IF other[f] # 0 THEN "cancel" ELSE "stopped")
    /\ unrouted' = IF other[f] = 0 /\ lane[f] = "check" THEN unrouted \cup {f} ELSE unrouted
    /\ UNCHANGED <<serverVars, acceptVars, registry, shut, enabled, lane, host, port>>

\* The lane is left; a stop first stores that the tunnel is not enabled, in
\* memory even if that cannot be saved.
Stopped(f) ==
    /\ step[f] = "stopped"
    /\ enabled' = IF lane[f] = "stop" THEN enabled \ {f} ELSE enabled
    /\ Leaves(f, IF lane[f] = "check" THEN "runs" ELSE "failed")
    /\ UNCHANGED <<serverVars, acceptVars, registry, shut, unrouted, other, routes, host, port>>

\* stop_tunnel_inner.
StopBegins(f) ==
    /\ lane[f] = "free" /\ f \in registry
    /\ lane' = [lane EXCEPT ![f] = "stop"]
    /\ StopEffects(f, "stopped")
    /\ UNCHANGED <<serverVars, acceptVars, enabled, unrouted, other, routes, host, port>>

----------------------------------------------------------------------------
(* check_remote_tunnel_health.                                             *)

\* Mutant: the lane is not taken into account.
LaneIgnored(f) == step[f] = "runs"

LaneFree(f) == lane[f] = "free"

CheckBegins(f) ==
    /\ LaneFree(f) /\ f \in registry
    /\ lane' = [lane EXCEPT ![f] = "check"] /\ Goes(f, "routes")
    /\ UNCHANGED <<serverVars, acceptVars, tunnelVars, other, routes, host, port>>

CheckEnds(f) ==
    /\ step[f] \in {"routes", "accept", "probe", "restore"}
    /\ Leaves(f, "runs")
    /\ UNCHANGED <<serverVars, acceptVars, tunnelVars, other, routes, host, port>>

\* The tunnel's routes are put back, if one is missing and nobody else has them.
CheckRoutes(f) ==
    /\ step[f] = "routes"
    /\ f \notin shut /\ held # "gone"
    /\ IF \E k \in KeysAt(f, port[f]) : routes[k] = NoForward
       THEN RouteSlotFree(f, port[f]) /\ routes' = Routed(f) /\ unrouted' = unrouted \ {f}
       ELSE UNCHANGED <<routes, unrouted>>
    /\ Goes(f, "accept")
    /\ UNCHANGED <<serverVars, acceptVars, registry, shut, enabled, lane, other, host, port>>

CheckAcceptor(f) ==
    /\ step[f] = "accept"
    /\ EnsureAcceptor
    /\ Goes(f, "probe")
    /\ UNCHANGED <<serverVars, tunnelVars, lane, other, routes, host, port>>

\* The probe lists the ports on which anything listens; if it cannot, or finds
\* the port, that is all (CheckEnds).
Missing(f) ==
    /\ step[f] = "probe"
    /\ linkUp /\ f \notin shut
    /\ \A a \in listens : a[2] # port[f]
    /\ Goes(f, "restore")
    /\ UNCHANGED <<serverVars, acceptVars, tunnelVars, lane, other, routes, host, port>>

Restore(f) ==
    /\ step[f] = "restore"
    /\ Address(f, port[f]) \notin listens
    /\ Grants(listens \cup {Address(f, port[f])})
    /\ IF f \in shut THEN Goes(f, "cancel") /\ UNCHANGED lane ELSE Leaves(f, "runs")
    /\ UNCHANGED <<acceptVars, tunnelVars, other, routes, host, port>>

RestoreFails(f) ==
    /\ step[f] = "restore"
    /\ RequestFails(listens \cup {Address(f, port[f])}) \/ Refuses(Address(f, port[f]))
    /\ Leaves(f, "runs")
    /\ UNCHANGED <<acceptVars, tunnelVars, other, routes, host, port>>

----------------------------------------------------------------------------
ForwardStep(f) ==
    \/ CreateBegins(f) \/ Install(f) \/ InstallFails(f) \/ CommitStarted(f) \/ CommitFails(f)
    \/ \E p \in Ports : Listen(f, p) \/ ListenFails(f, p) \/ ListenElsewhere(f, p)
    \/ Cancel(f) \/ Unroute(f) \/ Stopped(f) \/ StopBegins(f)
    \/ CheckBegins(f) \/ CheckEnds(f) \/ CheckRoutes(f) \/ CheckAcceptor(f) \/ Missing(f) \/ Restore(f)
    \/ RestoreFails(f)

ForwardNext ==
    \/ LinkFails \/ ReaderEnds \/ ConnectionGoes \/ TunnelsStop \/ AcceptorEnds
    \/ \E a \in Addresses : ServerDrops(a)
    \/ \E f \in Forwards : ForwardStep(f)

ForwardSpec == ForwardInit /\ [][ForwardNext]_forwardVars

----------------------------------------------------------------------------
(* Properties.                                                             *)

ForwardType ==
    /\ held \in {"connected", "lost", "gone"} /\ linkUp \in BOOLEAN
    /\ listens \subseteq Addresses
    /\ routes \in [Keys -> Forwards \cup {NoForward}]
    /\ host \in [Forwards -> BindHosts] /\ port \in [Forwards -> Ports \cup {0}]
    /\ registry \subseteq Forwards /\ shut \subseteq Forwards
    /\ lane \in [Forwards -> {"free", "create", "stop", "check"}]
    /\ step \in [Forwards -> {"new", "listen", "install", "commit", "runs", "cancel", "unroute",
                              "stopped", "failed", "routes", "accept", "probe", "restore"}]
    /\ other \in [Forwards -> Ports \cup {0}]
    /\ enabled \subseteq Forwards /\ unrouted \subseteq Forwards
    /\ acceptor \in BOOLEAN /\ acceptors \in Nat /\ faults \in Nat

\* A connection that arrives at a forwarded port is passed on only for a tunnel
\* that the user can see and stop, and for the one that asked for that port:
\* while the connection is in use, the owner of a route is in the registry or
\* its creation or stop is under way, and has the port of the route.
RoutesAreOwned ==
    \A k \in Keys :
        routes[k] # NoForward =>
            /\ k \in KeysAt(routes[k], port[routes[k]])
            /\ held = "connected" => routes[k] \in registry \/ lane[routes[k]] # "free"

\* A tunnel that is listed and left alone has both its routes - unless the server
\* answered a restore with another port, whose rollback took them back - and,
\* with a server that does as it is told, its listener: no creation, check or
\* stop of another tunnel takes them away.
ListedIsServed ==
    \A f \in registry :
        lane[f] = "free" =>
            /\ f \notin unrouted => \A k \in KeysAt(f, port[f]) : routes[k] = f
            /\ faults = 0 /\ linkUp => Address(f, port[f]) \in listens

\* The profile says of a tunnel that it is enabled if and only if it runs, while
\* the connection is in use and nobody is at work on the tunnel.
EnabledIsListed ==
    \A f \in Forwards :
        lane[f] = "free" =>
            /\ f \in registry => f \in enabled
            /\ held = "connected" /\ f \in enabled => f \in registry

\* With libssh one acceptor at most hands out the connections that arrive, so
\* none of them is taken twice.
OneAcceptor == acceptors <= 1

\* What is said above of the routes, listeners, profile and acceptor.
ForwardsAreServed == RoutesAreOwned /\ ListedIsServed /\ EnabledIsListed /\ OneAcceptor
=============================================================================
