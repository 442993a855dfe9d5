--------------------------- MODULE SshWorkProofs ---------------------------
(***************************************************************************)
(* Proofs about RemoteForwards, for any number of tunnels, addresses and   *)
(* ports, and any number of faults; about SshConnection, for any chain of  *)
(* hosts, keys and policies, any number of attempts and any bounds; what   *)
(* both say of the two side by side in SshWork; and about TunnelClient,    *)
(* for any number of connections, places, pieces of data and troubles.     *)
(***************************************************************************)
EXTENDS SshWork, SequenceTheorems, FiniteSetTheorems, TLAPS

----------------------------------------------------------------------------
(* Remote forwards: the inductive invariant.                               *)

(* What the lane of a tunnel, its place in the registry, its port and its  *)
(* profile have to do with what is done next.                              *)
Unstarted == {"new", "listen", "install"}
Resting   == {"new", "runs", "failed"}
Undoing   == {"cancel", "unroute", "stopped"}

LaneFits(f) ==
    /\ lane[f] = "free"   <=> step[f] \in Resting
    /\ lane[f] = "create"  => step[f] \in {"listen", "install", "commit"} \cup Undoing
    /\ lane[f] = "stop"    => step[f] \in Undoing
    /\ step[f] \in Unstarted => f \notin registry /\ f \notin shut /\ f \notin enabled
    /\ f \in registry => /\ f \notin shut
                         /\ step[f] \in {"commit", "runs"} \/ lane[f] = "check"
                         /\ step[f] = "commit" \/ f \in enabled
    /\ lane[f] = "create" \/ step[f] = "commit" => f \notin enabled
    /\ held = "connected" =>
         /\ step[f] \in {"commit", "runs"} \/ lane[f] = "check" => f \in registry
         /\ step[f] = "failed" => f \notin enabled
    /\ step[f] \in {"install", "commit", "runs"} \/ lane[f] \in {"stop", "check"} => port[f] \in Ports
    /\ step[f] = "commit" => lane[f] = "create"
    /\ other[f] # 0 => step[f] \in {"cancel", "unroute"} /\ other[f] # port[f]

LaneInv == \A f \in Forwards : LaneFits(f)

Unlisted(f) == \A k \in Keys : routes[k] # f

\* A tunnel's routes have its own keys; it has none before it is installed and
\* after it is undone, and from the one until the other it keeps them.
Idle(f) ==
    \/ step[f] \in Unstarted
    \/ held = "connected" /\ (step[f] = "failed" \/ (step[f] = "stopped" /\ lane[f] # "check"))

RoutesOf(f) ==
    /\ Idle(f) => Unlisted(f)
    /\ \A k \in Keys : routes[k] = f => k \in KeysAt(f, port[f])
    /\ f \in registry /\ f \notin unrouted => \A k \in KeysAt(f, port[f]) : routes[k] = f

RouteInv == \A f \in Forwards : RoutesOf(f)

\* The server listens for a tunnel from the granted request until the cancel,
\* and no two tunnels share a listener.
Holds(f) == f \in registry \/ step[f] \in {"install", "cancel"}

Served(f) ==
    /\ other[f] = 0 /\ (step[f] = "cancel" => f \notin registry)
    /\ linkUp /\ Holds(f) =>
         /\ Address(f, port[f]) \in listens
         /\ \A g \in Forwards \ {f} : Holds(g) => Address(f, port[f]) # Address(g, port[g])

ServerInv == faults = 0 => \A f \in Forwards : Served(f)

\* An acceptor runs only while it is registered.
AcceptInv == acceptors \in {0, 1} /\ (~acceptor => acceptors = 0)

ForwardInv == ForwardType /\ LaneInv /\ RouteInv /\ ServerInv /\ AcceptInv

----------------------------------------------------------------------------
(* Types.                                                                  *)

(* What a request to the server, granted or not, does to the types.        *)
LEMMA RequestTypes ==
    ASSUME ForwardType, NEW after \in SUBSET Addresses, Grants(after) \/ RequestFails(after)
    PROVE  held' = held /\ linkUp' \in BOOLEAN /\ listens' \subseteq Addresses /\ faults' \in Nat
<1>1. CASE Grants(after)
  BY <1>1 DEF Grants, ForwardType
<1>2. CASE RequestFails(after)
  <2>1. CASE ~ linkUp /\ UNCHANGED serverVars
    BY <2>1 DEF serverVars, ForwardType
  <2>2. CASE linkUp /\ Faulty /\ listens' \in {listens, after} /\ UNCHANGED <<held, linkUp>>
    BY <2>2 DEF Faulty, ForwardType
  <2>3. CASE linkUp /\ Faulty /\ listens' = {} /\ linkUp' = FALSE /\ UNCHANGED held
    <3>1. held' = held /\ linkUp' = FALSE /\ listens' = {} /\ faults' = faults + 1
      BY <2>3, Zenon DEF Faulty
    <3>2. faults' \in Nat
      BY <3>1 DEF ForwardType
    <3>3. linkUp' \in BOOLEAN /\ listens' \subseteq Addresses
      BY <3>1, Zenon
    <3> QED
      BY <3>1, <3>2, <3>3, Zenon
  <2> QED
    BY <1>2, <2>1, <2>2, <2>3, Zenon DEF RequestFails
<1> QED
  BY <1>1, <1>2

(* ensure_libssh_remote_forward_acceptor starts one acceptor at most.       *)
LEMMA AcceptTypes == ASSUME ForwardType, EnsureAcceptor PROVE acceptor' \in BOOLEAN /\ acceptors' \in Nat
<1>1. CASE Libssh /\ held # "gone" /\ ~ acceptor
  <2>1. acceptor' = TRUE /\ acceptors' = acceptors + 1
    BY <1>1, Zenon DEF EnsureAcceptor
  <2> QED
    BY <2>1 DEF ForwardType
<1>2. CASE ~ (Libssh /\ held # "gone" /\ ~ acceptor)
  <2>1. acceptor' = acceptor /\ acceptors' = acceptors
    BY <1>2, Zenon DEF EnsureAcceptor, acceptVars
  <2> QED
    BY <2>1 DEF ForwardType
<1> QED
  BY <1>1, <1>2

(* Every step keeps the types.                                             *)
LEMMA TypeStep == ForwardType /\ LaneInv /\ [ForwardNext]_forwardVars => ForwardType'
<1> SUFFICES ASSUME ForwardType /\ LaneInv, [ForwardNext]_forwardVars PROVE ForwardType'
  OBVIOUS
<1> USE ForwardAssumption DEF serverVars, acceptVars, tunnelVars, holderVars, Goes, Leaves, ForwardType
<1>1. CASE LinkFails
  BY <1>1 DEF LinkFails
<1>2. CASE ReaderEnds
  BY <1>2 DEF ReaderEnds
<1>3. CASE ConnectionGoes
  BY <1>3 DEF ConnectionGoes
<1>4. CASE TunnelsStop
  BY <1>4 DEF TunnelsStop
<1>5. CASE AcceptorEnds
  <2>1. acceptors' \in Nat
    BY <1>5 DEF AcceptorEnds
  <2> QED
    BY <1>5, <2>1 DEF AcceptorEnds
<1>6. ASSUME NEW a \in Addresses, ServerDrops(a) PROVE ForwardType'
  BY <1>6 DEF ServerDrops, Faulty
<1>7. ASSUME NEW f \in Forwards, CreateBegins(f) PROVE ForwardType'
  BY <1>7 DEF CreateBegins
<1>8. ASSUME NEW f \in Forwards, Install(f) PROVE ForwardType'
  <2>1. routes' \in [Keys -> Forwards \cup {NoForward}]
    BY <1>8 DEF Install, Routed
  <2> QED
    BY <1>8, <2>1, AcceptTypes DEF Install
<1>9. ASSUME NEW f \in Forwards, InstallFails(f) PROVE ForwardType'
  BY <1>9 DEF InstallFails
<1>10. ASSUME NEW f \in Forwards, CommitStarted(f) PROVE ForwardType'
  BY <1>10 DEF CommitStarted
<1>11. ASSUME NEW f \in Forwards, CommitFails(f) PROVE ForwardType'
  BY <1>11 DEF CommitFails, StopEffects
<1>12. ASSUME NEW f \in Forwards, Cancel(f) PROVE ForwardType'
  <2>1. listens \ {Address(f, Cancelling(f))} \in SUBSET Addresses
    OBVIOUS
  <2>2. held' = held /\ linkUp' \in BOOLEAN /\ listens' \subseteq Addresses /\ faults' \in Nat
    BY <1>12, <2>1, RequestTypes DEF Cancel
  <2> QED
    BY <1>12, <2>2 DEF Cancel
<1>13. ASSUME NEW f \in Forwards, Unroute(f) PROVE ForwardType'
  BY <1>13 DEF Unroute, Unrouted
<1>14. ASSUME NEW f \in Forwards, Stopped(f) PROVE ForwardType'
  BY <1>14 DEF Stopped
<1>15. ASSUME NEW f \in Forwards, StopBegins(f) PROVE ForwardType'
  BY <1>15 DEF StopBegins, StopEffects
<1>16. ASSUME NEW f \in Forwards, CheckBegins(f) PROVE ForwardType'
  BY <1>16 DEF CheckBegins
<1>17. ASSUME NEW f \in Forwards, CheckEnds(f) PROVE ForwardType'
  BY <1>17 DEF CheckEnds
<1>18. ASSUME NEW f \in Forwards, CheckRoutes(f) PROVE ForwardType'
  BY <1>18 DEF CheckRoutes, Routed
<1>19. ASSUME NEW f \in Forwards, CheckAcceptor(f) PROVE ForwardType'
  BY <1>19, AcceptTypes DEF CheckAcceptor
<1>20. ASSUME NEW f \in Forwards, Missing(f) PROVE ForwardType'
  BY <1>20 DEF Missing
<1>21. ASSUME NEW f \in Forwards, Restore(f) PROVE ForwardType'
  <2>1. CASE port[f] \in Ports
    <3>1. listens \cup {Address(f, port[f])} \in SUBSET Addresses
      BY <2>1 DEF Addresses, Address
    <3>2. held' = held /\ linkUp' \in BOOLEAN /\ listens' \subseteq Addresses /\ faults' \in Nat
      BY <1>21, <3>1, RequestTypes DEF Restore, Refuses
    <3> QED
      BY <1>21, <3>2 DEF Restore
  <2> QED
    BY <1>21, <2>1 DEF LaneInv, LaneFits, Undoing, Resting, Restore
<1>22. ASSUME NEW f \in Forwards, RestoreFails(f) PROVE ForwardType'
  <2>1. CASE port[f] \in Ports
    <3>1. listens \cup {Address(f, port[f])} \in SUBSET Addresses
      BY <2>1 DEF Addresses, Address
    <3>2. held' = held /\ linkUp' \in BOOLEAN /\ listens' \subseteq Addresses /\ faults' \in Nat
      BY <1>22, <3>1, RequestTypes DEF RestoreFails, Refuses
    <3> QED
      BY <1>22, <3>2 DEF RestoreFails
  <2> QED
    BY <1>22, <2>1 DEF LaneInv, LaneFits, Undoing, Resting, RestoreFails
<1>23. ASSUME NEW f \in Forwards, NEW p \in Ports, Listen(f, p) PROVE ForwardType'
  <2>1. listens \cup {Address(f, p)} \in SUBSET Addresses
    BY DEF Addresses, Address
  <2>2. held' = held /\ linkUp' \in BOOLEAN /\ listens' \subseteq Addresses /\ faults' \in Nat
    BY <1>23, <2>1, RequestTypes DEF Listen
  <2> QED
    BY <1>23, <2>2 DEF Listen
<1>24. ASSUME NEW f \in Forwards, NEW p \in Ports, ListenFails(f, p) PROVE ForwardType'
  <2>1. listens \cup {Address(f, p)} \in SUBSET Addresses
    BY DEF Addresses, Address
  <2>2. held' = held /\ linkUp' \in BOOLEAN /\ listens' \subseteq Addresses /\ faults' \in Nat
    BY <1>24, <2>1, RequestTypes DEF ListenFails, Refuses
  <2> QED
    BY <1>24, <2>2 DEF ListenFails
<1>25. ASSUME NEW f \in Forwards, NEW p \in Ports, ListenElsewhere(f, p) PROVE ForwardType'
  BY <1>25 DEF ListenElsewhere, Faulty, Addresses, Address
<1>26. CASE UNCHANGED forwardVars
  BY <1>26 DEF forwardVars
<1> QED
  BY ONLY [ForwardNext]_forwardVars, <1>1, <1>2, <1>3, <1>4, <1>5, <1>6, <1>7, <1>8, <1>9, <1>10, <1>11, <1>12, <1>13, <1>14, <1>15, <1>16, <1>17, <1>18, <1>19, <1>20, <1>21, <1>22, <1>23, <1>24, <1>25, <1>26, Zenon DEF ForwardNext, ForwardStep

----------------------------------------------------------------------------
(* Lanes.                                                                  *)

(* No request to the server changes what became of the connection.        *)
LEMMA RequestsKeepHeld ==
    ASSUME NEW after, NEW a, Grants(after) \/ RequestFails(after) \/ Refuses(a)
    PROVE  held' = held
  BY Zenon DEF Grants, RequestFails, Refuses, serverVars

(* Every step of a holder, and every end of the connection, keeps what the  *)
(* lanes promise.                                                          *)
LEMMA LaneStep == ForwardType /\ LaneInv /\ [ForwardNext]_forwardVars => LaneInv'
<1> SUFFICES ASSUME ForwardType /\ LaneInv, [ForwardNext]_forwardVars, NEW g \in Forwards PROVE LaneFits(g)'
  BY DEF LaneInv
<1> USE ForwardAssumption DEF serverVars, acceptVars, tunnelVars, holderVars, Goes, Leaves, ForwardType, LaneInv, LaneFits, Unstarted, Resting, Undoing
<1>1. CASE LinkFails
  BY <1>1 DEF LinkFails
<1>2. CASE ReaderEnds
  BY <1>2 DEF ReaderEnds
<1>3. CASE ConnectionGoes
  BY <1>3 DEF ConnectionGoes
<1>4. CASE TunnelsStop
  BY <1>4 DEF TunnelsStop
<1>5. CASE AcceptorEnds
  BY <1>5 DEF AcceptorEnds
<1>6. ASSUME NEW a \in Addresses, ServerDrops(a) PROVE LaneFits(g)'
  BY <1>6 DEF ServerDrops
<1>7. ASSUME NEW f \in Forwards, CreateBegins(f) PROVE LaneFits(g)'
  BY <1>7 DEF CreateBegins
<1>8. ASSUME NEW f \in Forwards, Install(f) PROVE LaneFits(g)'
  <2>1. CASE g = f
    BY <1>8, <2>1 DEF Install, MayInstall, RuntimeSlot
  <2>2. CASE g # f
    BY <1>8, <2>2 DEF Install
  <2> QED
    BY <2>1, <2>2
<1>9. ASSUME NEW f \in Forwards, InstallFails(f) PROVE LaneFits(g)'
  BY <1>9 DEF InstallFails
<1>10. ASSUME NEW f \in Forwards, CommitStarted(f) PROVE LaneFits(g)'
  BY <1>10 DEF CommitStarted
<1>11. ASSUME NEW f \in Forwards, CommitFails(f) PROVE LaneFits(g)'
  BY <1>11 DEF CommitFails, StopEffects
<1>12. ASSUME NEW f \in Forwards, Cancel(f) PROVE LaneFits(g)'
  <2>1. held' = held
    BY <1>12, RequestsKeepHeld, Zenon DEF Cancel
  <2> QED
    BY <1>12, <2>1 DEF Cancel
<1>13. ASSUME NEW f \in Forwards, Unroute(f) PROVE LaneFits(g)'
  BY <1>13 DEF Unroute
<1>14. ASSUME NEW f \in Forwards, Stopped(f) PROVE LaneFits(g)'
  <2>1. CASE g = f
    <3>1. CASE lane[f] = "stop"
      <4>1. step'[f] = "failed" /\ lane'[f] = "free" /\ enabled' = enabled \ {f}
        BY <1>14, <3>1 DEF Stopped
      <4>2. UNCHANGED <<serverVars, acceptVars, registry, shut, unrouted, other, routes, host, port>>
        BY <1>14 DEF Stopped
      <4>3. step[f] = "stopped"
        BY <1>14 DEF Stopped
      <4> QED
        BY <2>1, <3>1, <4>1, <4>2, <4>3
    <3>2. CASE lane[f] = "check"
      <4>1. step'[f] = "runs" /\ lane'[f] = "free" /\ enabled' = enabled
        BY <1>14, <3>2 DEF Stopped
      <4>2. UNCHANGED <<serverVars, acceptVars, registry, shut, unrouted, other, routes, host, port>>
        BY <1>14 DEF Stopped
      <4>3. step[f] = "stopped"
        BY <1>14 DEF Stopped
      <4> QED
        BY <2>1, <3>2, <4>1, <4>2, <4>3
    <3>3. CASE lane[f] = "create"
      <4>1. step'[f] = "failed" /\ lane'[f] = "free" /\ enabled' = enabled
        BY <1>14, <3>3 DEF Stopped
      <4>2. UNCHANGED <<serverVars, acceptVars, registry, shut, unrouted, other, routes, host, port>>
        BY <1>14 DEF Stopped
      <4>3. step[f] = "stopped"
        BY <1>14 DEF Stopped
      <4> QED
        BY <2>1, <3>3, <4>1, <4>2, <4>3
    <3> QED
      BY <1>14, <3>1, <3>2, <3>3 DEF Stopped
  <2>2. CASE g # f
    BY <1>14, <2>2 DEF Stopped
  <2> QED
    BY <2>1, <2>2
<1>15. ASSUME NEW f \in Forwards, StopBegins(f) PROVE LaneFits(g)'
  BY <1>15 DEF StopBegins, StopEffects
<1>16. ASSUME NEW f \in Forwards, CheckBegins(f) PROVE LaneFits(g)'
  <2>1. CASE g = f
    BY <1>16, <2>1 DEF CheckBegins, LaneFree
  <2>2. CASE g # f
    BY <1>16, <2>2 DEF CheckBegins
  <2> QED
    BY <2>1, <2>2
<1>17. ASSUME NEW f \in Forwards, CheckEnds(f) PROVE LaneFits(g)'
  BY <1>17 DEF CheckEnds
<1>18. ASSUME NEW f \in Forwards, CheckRoutes(f) PROVE LaneFits(g)'
  BY <1>18 DEF CheckRoutes
<1>19. ASSUME NEW f \in Forwards, CheckAcceptor(f) PROVE LaneFits(g)'
  BY <1>19 DEF CheckAcceptor
<1>20. ASSUME NEW f \in Forwards, Missing(f) PROVE LaneFits(g)'
  BY <1>20 DEF Missing
<1>21. ASSUME NEW f \in Forwards, Restore(f) PROVE LaneFits(g)'
  <2>1. held' = held
    BY <1>21, RequestsKeepHeld, Zenon DEF Restore
  <2> QED
    BY <1>21, <2>1 DEF Restore
<1>22. ASSUME NEW f \in Forwards, RestoreFails(f) PROVE LaneFits(g)'
  <2>1. held' = held
    BY <1>22, RequestsKeepHeld, Zenon DEF RestoreFails
  <2> QED
    BY <1>22, <2>1 DEF RestoreFails
<1>23. ASSUME NEW f \in Forwards, NEW p \in Ports, Listen(f, p) PROVE LaneFits(g)'
  <2>1. held' = held
    BY <1>23, RequestsKeepHeld, Zenon DEF Listen
  <2> QED
    BY <1>23, <2>1 DEF Listen
<1>24. ASSUME NEW f \in Forwards, NEW p \in Ports, ListenFails(f, p) PROVE LaneFits(g)'
  <2>1. held' = held
    BY <1>24, RequestsKeepHeld, Zenon DEF ListenFails
  <2> QED
    BY <1>24, <2>1 DEF ListenFails
<1>25. ASSUME NEW f \in Forwards, NEW p \in Ports, ListenElsewhere(f, p) PROVE LaneFits(g)'
  BY <1>25 DEF ListenElsewhere
<1>26. CASE UNCHANGED forwardVars
  BY <1>26 DEF forwardVars
<1> QED
  BY ONLY [ForwardNext]_forwardVars, <1>1, <1>2, <1>3, <1>4, <1>5, <1>6, <1>7, <1>8, <1>9, <1>10, <1>11, <1>12, <1>13, <1>14, <1>15, <1>16, <1>17, <1>18, <1>19, <1>20, <1>21, <1>22, <1>23, <1>24, <1>25, <1>26, Zenon DEF ForwardNext, ForwardStep

----------------------------------------------------------------------------
(* Routes.                                                                 *)

(* A step that touches neither routes nor ports, and lists or rests nobody, *)
(* keeps every tunnel's routes.                                            *)
LEMMA RoutesRest ==
    ASSUME RouteInv, NEW g \in Forwards, UNCHANGED <<routes, host, port, unrouted>>,
           registry' \subseteq registry, Idle(g)' => Idle(g)
    PROVE  RoutesOf(g)'
  BY DEF RouteInv, RoutesOf, Unlisted, KeysAt, Keys

(* The keys of a tunnel with a port are keys of remote_forwards.            *)
LEMMA KeysAreKeys ==
    ASSUME ForwardType, NEW f \in Forwards, port[f] \in Ports
    PROVE  KeysAt(f, port[f]) \subseteq Keys
  BY DEF KeysAt, Keys, ForwardType

(* A tunnel that takes its routes takes them from nobody.                  *)
LEMMA RoutedStep ==
    ASSUME ForwardType, LaneInv, RouteInv, NEW f \in Forwards, NEW g \in Forwards,
           port[f] \in Ports, RouteSlotFree(f, port[f]), routes' = Routed(f),
           UNCHANGED <<host, port>>, registry' \subseteq registry \cup {f},
           unrouted \ {f} \subseteq unrouted', ~ Idle(f)', g # f => (Idle(g)' => Idle(g)),
           ~ Idle(f) \/ Unlisted(f)
    PROVE  RoutesOf(g)'
<1>1. KeysAt(f, port[f]) \subseteq Keys
  BY KeysAreKeys
<1>2. \A k \in Keys : routes'[k] = IF k \in KeysAt(f, port[f]) THEN f ELSE routes[k]
  BY DEF Routed
<1>3. KeysAt(f, port[f])' = KeysAt(f, port[f]) /\ KeysAt(g, port[g])' = KeysAt(g, port[g])
  BY DEF KeysAt
<1>4. CASE g = f
  BY <1>1, <1>2, <1>3, <1>4 DEF RouteInv, RoutesOf, Keys
<1>5. CASE g # f
  <2>1. \A k \in Keys : routes'[k] = g => routes[k] = g
    BY <1>2, <1>5
  <2>2. \A k \in KeysAt(f, port[f]) : routes[k] # g
    BY <1>5, ForwardAssumption DEF RouteSlotFree
  <2>3. Idle(g)' => Unlisted(g)'
    BY <1>5, <2>1 DEF RouteInv, RoutesOf, Unlisted, Keys
  <2>4. \A k \in Keys : routes'[k] = g => k \in KeysAt(g, port[g])
    BY <2>1 DEF RouteInv, RoutesOf
  <2>5. g \in registry' /\ g \notin unrouted' => \A k \in KeysAt(g, port[g]) : routes[k] = g
    BY <1>5 DEF RouteInv, RoutesOf
  <2>6. ASSUME g \in registry', g \notin unrouted', NEW k \in KeysAt(g, port[g]) PROVE routes'[k] = g
    <3>1. routes[k] = g /\ k \notin KeysAt(f, port[f])
      BY <2>2, <2>5, <2>6
    <3>2. port[g] \in Ports
      BY <1>5, <2>6 DEF LaneInv, LaneFits, ForwardType
    <3>3. k \in Keys
      BY <2>6, <3>2, KeysAreKeys
    <3> QED
      BY <1>2, <3>1, <3>3
  <2> QED
    BY <1>3, <2>3, <2>4, <2>6 DEF RoutesOf, Keys
<1> QED
  BY <1>4, <1>5

(* Every step keeps the routes with their owners.                          *)
LEMMA RouteStep == ForwardType /\ LaneInv /\ RouteInv /\ [ForwardNext]_forwardVars => RouteInv'
<1> SUFFICES ASSUME ForwardType /\ LaneInv /\ RouteInv, [ForwardNext]_forwardVars, NEW g \in Forwards
    PROVE RoutesOf(g)'
  BY DEF RouteInv
<1> USE ForwardAssumption DEF serverVars, acceptVars, tunnelVars, holderVars, Goes, Leaves
<1>1. CASE LinkFails
  <2>1. UNCHANGED <<routes, host, port, unrouted>> /\ registry' \subseteq registry
    BY <1>1 DEF LinkFails
  <2>2. Idle(g)' => Idle(g)
    BY <1>1 DEF LinkFails, Idle, Unstarted, ForwardType, LaneInv, LaneFits, Resting, Undoing
  <2> QED
    BY <2>1, <2>2, RoutesRest
<1>2. CASE ReaderEnds
  <2>1. UNCHANGED <<routes, host, port, unrouted>> /\ registry' \subseteq registry
    BY <1>2 DEF ReaderEnds
  <2>2. Idle(g)' => Idle(g)
    BY <1>2 DEF ReaderEnds, Idle, Unstarted, ForwardType, LaneInv, LaneFits, Resting, Undoing
  <2> QED
    BY <2>1, <2>2, RoutesRest
<1>3. CASE ConnectionGoes
  <2>1. UNCHANGED <<routes, host, port, unrouted>> /\ registry' \subseteq registry
    BY <1>3 DEF ConnectionGoes
  <2>2. Idle(g)' => Idle(g)
    BY <1>3 DEF ConnectionGoes, Idle, Unstarted, ForwardType, LaneInv, LaneFits, Resting, Undoing
  <2> QED
    BY <2>1, <2>2, RoutesRest
<1>4. CASE TunnelsStop
  <2>1. UNCHANGED <<routes, host, port, unrouted>> /\ registry' \subseteq registry
    BY <1>4 DEF TunnelsStop
  <2>2. Idle(g)' => Idle(g)
    BY <1>4 DEF TunnelsStop, Idle, Unstarted, ForwardType, LaneInv, LaneFits, Resting, Undoing
  <2> QED
    BY <2>1, <2>2, RoutesRest
<1>5. CASE AcceptorEnds
  <2>1. UNCHANGED <<routes, host, port, unrouted>> /\ registry' \subseteq registry
    BY <1>5 DEF AcceptorEnds
  <2>2. Idle(g)' => Idle(g)
    BY <1>5 DEF AcceptorEnds, Idle, Unstarted, ForwardType, LaneInv, LaneFits, Resting, Undoing
  <2> QED
    BY <2>1, <2>2, RoutesRest
<1>6. ASSUME NEW a \in Addresses, ServerDrops(a) PROVE RoutesOf(g)'
  <2>1. UNCHANGED <<routes, host, port, unrouted>> /\ registry' \subseteq registry
    BY <1>6 DEF ServerDrops
  <2>2. Idle(g)' => Idle(g)
    BY <1>6 DEF ServerDrops, Idle, Unstarted, ForwardType, LaneInv, LaneFits, Resting, Undoing
  <2> QED
    BY <2>1, <2>2, RoutesRest
<1>7. ASSUME NEW f \in Forwards, CreateBegins(f) PROVE RoutesOf(g)'
  <2>1. UNCHANGED <<routes, host, port, unrouted>> /\ registry' \subseteq registry
    BY <1>7 DEF CreateBegins
  <2>2. Idle(g)' => Idle(g)
    BY <1>7 DEF CreateBegins, Idle, Unstarted, ForwardType, LaneInv, LaneFits, Resting, Undoing
  <2> QED
    BY <2>1, <2>2, RoutesRest
<1>8. ASSUME NEW f \in Forwards, Install(f) PROVE RoutesOf(g)'
  <2>1. RouteSlotFree(f, port[f]) /\ routes' = Routed(f) /\ UNCHANGED <<host, port, unrouted>>
    BY <1>8 DEF Install, MayInstall
  <2>2. registry' = registry \cup {f} /\ unrouted \ {f} \subseteq unrouted'
    BY <1>8 DEF Install
  <2>3. port[f] \in Ports /\ Idle(f)
    BY <1>8 DEF Install, Idle, Unstarted, LaneInv, LaneFits
  <2>4. ~ Idle(f)' /\ (g # f => (Idle(g)' => Idle(g)))
    BY <1>8 DEF Install, Idle, Unstarted, ForwardType
  <2> QED
    BY <2>1, <2>2, <2>3, <2>4, RoutedStep DEF RouteInv, RoutesOf
<1>9. ASSUME NEW f \in Forwards, InstallFails(f) PROVE RoutesOf(g)'
  <2>1. UNCHANGED <<routes, host, port, unrouted>> /\ registry' \subseteq registry
    BY <1>9 DEF InstallFails
  <2>2. Idle(g)' => Idle(g)
    BY <1>9 DEF InstallFails, Idle, Unstarted, ForwardType, LaneInv, LaneFits, Resting, Undoing
  <2> QED
    BY <2>1, <2>2, RoutesRest
<1>10. ASSUME NEW f \in Forwards, CommitStarted(f) PROVE RoutesOf(g)'
  <2>1. UNCHANGED <<routes, host, port, unrouted>> /\ registry' \subseteq registry
    BY <1>10 DEF CommitStarted
  <2>2. Idle(g)' => Idle(g)
    BY <1>10 DEF CommitStarted, Idle, Unstarted, ForwardType, LaneInv, LaneFits, Resting, Undoing
  <2> QED
    BY <2>1, <2>2, RoutesRest
<1>11. ASSUME NEW f \in Forwards, CommitFails(f) PROVE RoutesOf(g)'
  <2>1. UNCHANGED <<routes, host, port, unrouted>> /\ registry' \subseteq registry
    BY <1>11 DEF CommitFails, StopEffects
  <2>2. Idle(g)' => Idle(g)
    BY <1>11 DEF CommitFails, StopEffects, Idle, Unstarted, ForwardType, LaneInv, LaneFits, Resting, Undoing
  <2> QED
    BY <2>1, <2>2, RoutesRest
<1>12. ASSUME NEW f \in Forwards, Cancel(f) PROVE RoutesOf(g)'
  <2>1. UNCHANGED <<routes, host, port, unrouted>> /\ registry' \subseteq registry
    BY <1>12 DEF Cancel
  <2>3. held' = held
    BY <1>12, RequestsKeepHeld, Zenon DEF Cancel
  <2>2. Idle(g)' => Idle(g)
    BY <1>12, <2>3 DEF Cancel, Idle, Unstarted, ForwardType, LaneInv, LaneFits, Resting, Undoing
  <2> QED
    BY <2>1, <2>2, RoutesRest
<1>13. ASSUME NEW f \in Forwards, Unroute(f) PROVE RoutesOf(g)'
  <2>1. UNCHANGED <<host, port, registry, held, lane>> /\ ~ Idle(f)
    BY <1>13 DEF Unroute, Idle, Unstarted
  <2>2. \A k \in Keys : routes'[k] = IF k \in KeysAt(f, Cancelling(f)) /\ routes[k] = f
                               THEN NoForward ELSE routes[k]
    BY <1>13 DEF Unroute, Unrouted
  <2>3. KeysAt(g, port[g])' = KeysAt(g, port[g])
    BY <2>1 DEF KeysAt
  <2>4. \A k \in Keys : routes'[k] = g => routes[k] = g
    BY <2>2, ForwardAssumption
  <2>5. \A k \in Keys : routes'[k] = g => k \in KeysAt(g, port[g])
    BY <2>4 DEF RouteInv, RoutesOf
  <2>6. CASE g # f
    <3>1. (Idle(g)' => Idle(g)) /\ (g \notin unrouted' => g \notin unrouted)
      BY <1>13, <2>6 DEF Unroute, Idle, Unstarted, ForwardType
    <3>2. ASSUME g \in registry, g \notin unrouted', NEW k \in KeysAt(g, port[g]) PROVE routes'[k] = g
      <4>1. routes[k] = g
        BY <3>1, <3>2 DEF RouteInv, RoutesOf
      <4>2. port[g] \in Ports
        BY <3>2 DEF LaneInv, LaneFits, ForwardType
      <4>3. k \in Keys
        BY <3>2, <4>2, KeysAreKeys
      <4> QED
        BY <2>2, <2>6, <4>1, <4>3
    <3>3. Idle(g)' => Unlisted(g)'
      BY <2>4, <3>1 DEF RouteInv, RoutesOf, Unlisted, Keys
    <3> QED
      BY <2>1, <2>3, <2>5, <3>2, <3>3 DEF RoutesOf, Keys
  <2>7. CASE g = f
    <3>1. g \in registry => lane[g] = "check" /\ port[g] \in Ports
      BY <1>13, <2>7 DEF Unroute, LaneInv, LaneFits
    <3>2. CASE other[f] = 0
      <4>1. \A k \in Keys : routes'[k] # g
        BY <2>2, <2>7, <3>2, ForwardAssumption DEF RouteInv, RoutesOf, Cancelling
      <4>2. g \in registry => g \in unrouted'
        BY <1>13, <2>7, <3>1, <3>2 DEF Unroute
      <4> QED
        BY <2>1, <4>1, <4>2 DEF RoutesOf, Unlisted, Keys
    <3>3. CASE other[f] # 0
      <4>1. ~ Idle(g)' /\ unrouted' = unrouted
        BY <1>13, <2>7, <3>3 DEF Unroute, Idle, Unstarted, ForwardType
      <4>2. ASSUME g \in registry, g \notin unrouted', NEW k \in KeysAt(g, port[g]) PROVE routes'[k] = g
        <5>1. routes[k] = g /\ k \in Keys
          BY <3>1, <4>1, <4>2, KeysAreKeys DEF RouteInv, RoutesOf
        <5>2. k \notin KeysAt(f, Cancelling(f))
          BY <2>7, <3>3, <4>2 DEF KeysAt, Cancelling, LaneInv, LaneFits
        <5> QED
          BY <2>2, <5>1, <5>2
      <4> QED
        BY <2>1, <2>3, <2>5, <4>1, <4>2 DEF RoutesOf, Keys
    <3> QED
      BY <3>2, <3>3
  <2> QED
    BY <2>6, <2>7
<1>14. ASSUME NEW f \in Forwards, Stopped(f) PROVE RoutesOf(g)'
  <2>1. UNCHANGED <<routes, host, port, unrouted>> /\ registry' \subseteq registry
    BY <1>14 DEF Stopped
  <2>2. Idle(g)' => Idle(g)
    BY <1>14 DEF Stopped, Idle, Unstarted, ForwardType, LaneInv, LaneFits, Resting, Undoing
  <2> QED
    BY <2>1, <2>2, RoutesRest
<1>15. ASSUME NEW f \in Forwards, StopBegins(f) PROVE RoutesOf(g)'
  <2>1. UNCHANGED <<routes, host, port, unrouted>> /\ registry' \subseteq registry
    BY <1>15 DEF StopBegins, StopEffects
  <2>2. Idle(g)' => Idle(g)
    BY <1>15 DEF StopBegins, StopEffects, Idle, Unstarted, ForwardType, LaneInv, LaneFits, Resting, Undoing
  <2> QED
    BY <2>1, <2>2, RoutesRest
<1>16. ASSUME NEW f \in Forwards, CheckBegins(f) PROVE RoutesOf(g)'
  <2>1. UNCHANGED <<routes, host, port, unrouted>> /\ registry' \subseteq registry
    BY <1>16 DEF CheckBegins
  <2>2. Idle(g)' => Idle(g)
    BY <1>16 DEF CheckBegins, Idle, Unstarted, ForwardType, LaneInv, LaneFits, Resting, Undoing
  <2> QED
    BY <2>1, <2>2, RoutesRest
<1>17. ASSUME NEW f \in Forwards, CheckEnds(f) PROVE RoutesOf(g)'
  <2>1. UNCHANGED <<routes, host, port, unrouted>> /\ registry' \subseteq registry
    BY <1>17 DEF CheckEnds
  <2>2. Idle(g)' => Idle(g)
    BY <1>17 DEF CheckEnds, Idle, Unstarted, ForwardType, LaneInv, LaneFits, Resting, Undoing
  <2> QED
    BY <2>1, <2>2, RoutesRest
<1>18. ASSUME NEW f \in Forwards, CheckRoutes(f) PROVE RoutesOf(g)'
  <2>1. UNCHANGED <<host, port, registry>> /\ port[f] \in Ports
    BY <1>18 DEF CheckRoutes, ForwardType, LaneInv, LaneFits, Resting, Undoing
  <2>2. ~ Idle(f) /\ ~ Idle(f)' /\ (Idle(g)' => Idle(g))
    BY <1>18 DEF CheckRoutes, Idle, Unstarted, ForwardType
  <2>3. CASE \E k \in KeysAt(f, port[f]) : routes[k] = NoForward
    <3>1. RouteSlotFree(f, port[f]) /\ routes' = Routed(f) /\ unrouted' = unrouted \ {f}
      BY <1>18, <2>3, Zenon DEF CheckRoutes
    <3> QED
      BY <2>1, <2>2, <3>1, RoutedStep
  <2>4. CASE ~ \E k \in KeysAt(f, port[f]) : routes[k] = NoForward
    <3>1. UNCHANGED <<routes, unrouted>>
      BY <1>18, <2>4, Zenon DEF CheckRoutes
    <3> QED
      BY <2>1, <2>2, <3>1, RoutesRest
  <2> QED
    BY <2>3, <2>4
<1>19. ASSUME NEW f \in Forwards, CheckAcceptor(f) PROVE RoutesOf(g)'
  <2>1. UNCHANGED <<routes, host, port, unrouted>> /\ registry' \subseteq registry
    BY <1>19 DEF CheckAcceptor
  <2>2. Idle(g)' => Idle(g)
    BY <1>19 DEF CheckAcceptor, Idle, Unstarted, ForwardType, LaneInv, LaneFits, Resting, Undoing
  <2> QED
    BY <2>1, <2>2, RoutesRest
<1>20. ASSUME NEW f \in Forwards, Missing(f) PROVE RoutesOf(g)'
  <2>1. UNCHANGED <<routes, host, port, unrouted>> /\ registry' \subseteq registry
    BY <1>20 DEF Missing
  <2>2. Idle(g)' => Idle(g)
    BY <1>20 DEF Missing, Idle, Unstarted, ForwardType, LaneInv, LaneFits, Resting, Undoing
  <2> QED
    BY <2>1, <2>2, RoutesRest
<1>21. ASSUME NEW f \in Forwards, Restore(f) PROVE RoutesOf(g)'
  <2>1. UNCHANGED <<routes, host, port, unrouted>> /\ registry' \subseteq registry
    BY <1>21 DEF Restore
  <2>3. held' = held
    BY <1>21, RequestsKeepHeld, Zenon DEF Restore
  <2>2. Idle(g)' => Idle(g)
    BY <1>21, <2>3 DEF Restore, Idle, Unstarted, ForwardType, LaneInv, LaneFits, Resting, Undoing
  <2> QED
    BY <2>1, <2>2, RoutesRest
<1>22. ASSUME NEW f \in Forwards, RestoreFails(f) PROVE RoutesOf(g)'
  <2>1. UNCHANGED <<routes, host, port, unrouted>> /\ registry' \subseteq registry
    BY <1>22 DEF RestoreFails
  <2>3. held' = held
    BY <1>22, RequestsKeepHeld, Zenon DEF RestoreFails
  <2>2. Idle(g)' => Idle(g)
    BY <1>22, <2>3 DEF RestoreFails, Idle, Unstarted, ForwardType, LaneInv, LaneFits, Resting, Undoing
  <2> QED
    BY <2>1, <2>2, RoutesRest
<1>23. ASSUME NEW f \in Forwards, NEW p \in Ports, Listen(f, p) PROVE RoutesOf(g)'
  <2>1. UNCHANGED <<routes, host, registry, unrouted>> /\ Idle(f) /\ f \notin registry
    BY <1>23 DEF Listen, Idle, Unstarted, LaneInv, LaneFits
  <2>2. held' = held
    BY <1>23, RequestsKeepHeld, Zenon DEF Listen
  <2>3. CASE g = f
    BY <1>23, <2>1, <2>3 DEF Listen, RouteInv, RoutesOf, Unlisted, Keys
  <2>4. CASE g # f
    <3>1. port'[g] = port[g] /\ (Idle(g)' => Idle(g))
      BY <1>23, <2>2, <2>4 DEF Listen, Idle, Unstarted, ForwardType
    <3> QED
      BY <2>1, <3>1 DEF RouteInv, RoutesOf, Unlisted, KeysAt, Keys
  <2> QED
    BY <2>3, <2>4
<1>24. ASSUME NEW f \in Forwards, NEW p \in Ports, ListenFails(f, p) PROVE RoutesOf(g)'
  <2>1. UNCHANGED <<routes, host, port, unrouted>> /\ registry' \subseteq registry
    BY <1>24 DEF ListenFails
  <2>3. held' = held
    BY <1>24, RequestsKeepHeld, Zenon DEF ListenFails
  <2>2. Idle(g)' => Idle(g)
    BY <1>24, <2>3 DEF ListenFails, Idle, Unstarted, ForwardType, LaneInv, LaneFits, Resting, Undoing
  <2> QED
    BY <2>1, <2>2, RoutesRest
<1>25. ASSUME NEW f \in Forwards, NEW p \in Ports, ListenElsewhere(f, p) PROVE RoutesOf(g)'
  <2>1. UNCHANGED <<routes, host, port, unrouted>> /\ registry' \subseteq registry
    BY <1>25 DEF ListenElsewhere
  <2>2. Idle(g)' => Idle(g)
    BY <1>25 DEF ListenElsewhere, Idle, Unstarted, ForwardType, LaneInv, LaneFits, Resting, Undoing
  <2> QED
    BY <2>1, <2>2, RoutesRest
<1>26. CASE UNCHANGED forwardVars
  <2>1. UNCHANGED <<routes, host, port, unrouted>> /\ registry' \subseteq registry
    BY <1>26 DEF forwardVars
  <2>2. Idle(g)' => Idle(g)
    BY <1>26 DEF forwardVars, Idle, Unstarted, ForwardType, LaneInv, LaneFits, Resting, Undoing
  <2> QED
    BY <2>1, <2>2, RoutesRest

<1> QED
  BY ONLY [ForwardNext]_forwardVars, <1>1, <1>2, <1>3, <1>4, <1>5, <1>6, <1>7, <1>8, <1>9, <1>10, <1>11, <1>12, <1>13, <1>14, <1>15, <1>16, <1>17, <1>18, <1>19, <1>20, <1>21, <1>22, <1>23, <1>24, <1>25, <1>26, Zenon DEF ForwardNext, ForwardStep

----------------------------------------------------------------------------
(* The server.                                                             *)

(* Without a fault a request that fails changes nothing.                    *)
LEMMA FailuresAreFaults ==
    ASSUME ForwardType, NEW after, NEW a, RequestFails(after) \/ Refuses(a), faults' = 0
    PROVE  UNCHANGED serverVars
<1>1. CASE Refuses(a)
  BY <1>1, Zenon DEF Refuses
<1>2. CASE RequestFails(after)
  <2>1. ~ Faulty
    BY DEF Faulty, ForwardType
  <2> QED
    BY <1>2, <2>1, Zenon DEF RequestFails
<1> QED
  BY <1>1, <1>2

(* A step after which the server listens as before, if it is reached at    *)
(* all, and that gives nobody a listener, keeps who is served.             *)
LEMMA ServerRest ==
    ASSUME ForwardType, \A f \in Forwards : Served(f), NEW g \in Forwards,
           UNCHANGED <<host, port, other>>, linkUp' => linkUp /\ listens' = listens,
           \A f \in Forwards : Holds(f)' => Holds(f), step'[g] = "cancel" => g \notin registry'
    PROVE  Served(g)'
<1>1. \A f \in Forwards : Address(f, port[f])' = Address(f, port[f])
  BY DEF Address
<1>2. CASE linkUp' /\ Holds(g)'
  BY <1>1, <1>2 DEF Served
<1>3. CASE ~ (linkUp' /\ Holds(g)')
  BY <1>3 DEF Served
<1> QED
  BY <1>2, <1>3

(* While nothing goes wrong every step keeps who is served.                *)
LEMMA ServerStep ==
    ForwardType /\ LaneInv /\ ServerInv /\ [ForwardNext]_forwardVars => ServerInv'
<1> SUFFICES ASSUME ForwardType /\ LaneInv /\ ServerInv, [ForwardNext]_forwardVars, faults' = 0,
                    NEW g \in Forwards
             PROVE  Served(g)'
  BY DEF ServerInv
<1>0. faults = 0 => \A f \in Forwards : Served(f)
  BY DEF ServerInv
<1> USE ForwardAssumption DEF serverVars, acceptVars, tunnelVars, holderVars, Goes, Leaves
<1>1. CASE LinkFails
  <2>1. UNCHANGED <<host, port, faults>> /\ (linkUp' => linkUp /\ listens' = listens)
    BY <1>1 DEF LinkFails
  <2>2. \A h \in Forwards : Served(h)
    BY <1>0, <2>1
  <2>3. UNCHANGED other /\ \A h \in Forwards : Holds(h)' => Holds(h)
    BY <1>1, <2>2 DEF LinkFails, Holds, ForwardType
  <2>5. step'[g] = "cancel" => g \notin registry'
    BY <1>1, <2>2 DEF LinkFails, Served, LaneInv, LaneFits, Unstarted, Resting, Undoing, ForwardType
  <2> QED
    BY <2>1, <2>2, <2>3, <2>5, ServerRest
<1>2. CASE ReaderEnds
  <2>1. UNCHANGED <<host, port, faults>> /\ (linkUp' => linkUp /\ listens' = listens)
    BY <1>2 DEF ReaderEnds
  <2>2. \A h \in Forwards : Served(h)
    BY <1>0, <2>1
  <2>3. UNCHANGED other /\ \A h \in Forwards : Holds(h)' => Holds(h)
    BY <1>2, <2>2 DEF ReaderEnds, Holds, ForwardType
  <2>5. step'[g] = "cancel" => g \notin registry'
    BY <1>2, <2>2 DEF ReaderEnds, Served, LaneInv, LaneFits, Unstarted, Resting, Undoing, ForwardType
  <2> QED
    BY <2>1, <2>2, <2>3, <2>5, ServerRest
<1>3. CASE ConnectionGoes
  <2>1. UNCHANGED <<host, port, faults>> /\ (linkUp' => linkUp /\ listens' = listens)
    BY <1>3 DEF ConnectionGoes
  <2>2. \A h \in Forwards : Served(h)
    BY <1>0, <2>1
  <2>3. UNCHANGED other /\ \A h \in Forwards : Holds(h)' => Holds(h)
    BY <1>3, <2>2 DEF ConnectionGoes, Holds, ForwardType
  <2>5. step'[g] = "cancel" => g \notin registry'
    BY <1>3, <2>2 DEF ConnectionGoes, Served, LaneInv, LaneFits, Unstarted, Resting, Undoing, ForwardType
  <2> QED
    BY <2>1, <2>2, <2>3, <2>5, ServerRest
<1>4. CASE TunnelsStop
  <2>1. UNCHANGED <<host, port, faults>> /\ (linkUp' => linkUp /\ listens' = listens)
    BY <1>4 DEF TunnelsStop
  <2>2. \A h \in Forwards : Served(h)
    BY <1>0, <2>1
  <2>3. UNCHANGED other /\ \A h \in Forwards : Holds(h)' => Holds(h)
    BY <1>4, <2>2 DEF TunnelsStop, Holds, ForwardType
  <2>5. step'[g] = "cancel" => g \notin registry'
    BY <1>4, <2>2 DEF TunnelsStop, Served, LaneInv, LaneFits, Unstarted, Resting, Undoing, ForwardType
  <2> QED
    BY <2>1, <2>2, <2>3, <2>5, ServerRest
<1>5. CASE AcceptorEnds
  <2>1. UNCHANGED <<host, port, faults>> /\ (linkUp' => linkUp /\ listens' = listens)
    BY <1>5 DEF AcceptorEnds
  <2>2. \A h \in Forwards : Served(h)
    BY <1>0, <2>1
  <2>3. UNCHANGED other /\ \A h \in Forwards : Holds(h)' => Holds(h)
    BY <1>5, <2>2 DEF AcceptorEnds, Holds, ForwardType
  <2>5. step'[g] = "cancel" => g \notin registry'
    BY <1>5, <2>2 DEF AcceptorEnds, Served, LaneInv, LaneFits, Unstarted, Resting, Undoing, ForwardType
  <2> QED
    BY <2>1, <2>2, <2>3, <2>5, ServerRest
<1>6. ASSUME NEW a \in Addresses, ServerDrops(a) PROVE Served(g)'
  BY <1>6 DEF ServerDrops, Faulty, ForwardType
<1>7. ASSUME NEW f \in Forwards, CreateBegins(f) PROVE Served(g)'
  <2>1. UNCHANGED <<host, port, faults>> /\ (linkUp' => linkUp /\ listens' = listens)
    BY <1>7 DEF CreateBegins
  <2>2. \A h \in Forwards : Served(h)
    BY <1>0, <2>1
  <2>3. UNCHANGED other /\ \A h \in Forwards : Holds(h)' => Holds(h)
    BY <1>7, <2>2 DEF CreateBegins, Holds, ForwardType
  <2>5. step'[g] = "cancel" => g \notin registry'
    BY <1>7, <2>2 DEF CreateBegins, Served, LaneInv, LaneFits, Unstarted, Resting, Undoing, ForwardType
  <2> QED
    BY <2>1, <2>2, <2>3, <2>5, ServerRest
<1>8. ASSUME NEW f \in Forwards, Install(f) PROVE Served(g)'
  <2>1. UNCHANGED <<host, port, faults>> /\ (linkUp' => linkUp /\ listens' = listens)
    BY <1>8 DEF Install
  <2>2. \A h \in Forwards : Served(h)
    BY <1>0, <2>1
  <2>3. UNCHANGED other /\ \A h \in Forwards : Holds(h)' => Holds(h)
    BY <1>8, <2>2 DEF Install, Holds, ForwardType
  <2>5. step'[g] = "cancel" => g \notin registry'
    BY <1>8, <2>2 DEF Install, Served, LaneInv, LaneFits, Unstarted, Resting, Undoing, ForwardType
  <2> QED
    BY <2>1, <2>2, <2>3, <2>5, ServerRest
<1>9. ASSUME NEW f \in Forwards, InstallFails(f) PROVE Served(g)'
  <2>1. UNCHANGED <<host, port, faults>> /\ (linkUp' => linkUp /\ listens' = listens)
    BY <1>9 DEF InstallFails
  <2>2. \A h \in Forwards : Served(h)
    BY <1>0, <2>1
  <2>3. UNCHANGED other /\ \A h \in Forwards : Holds(h)' => Holds(h)
    BY <1>9, <2>2 DEF InstallFails, Holds, ForwardType
  <2>5. step'[g] = "cancel" => g \notin registry'
    BY <1>9, <2>2 DEF InstallFails, Served, LaneInv, LaneFits, Unstarted, Resting, Undoing, ForwardType
  <2> QED
    BY <2>1, <2>2, <2>3, <2>5, ServerRest
<1>10. ASSUME NEW f \in Forwards, CommitStarted(f) PROVE Served(g)'
  <2>1. UNCHANGED <<host, port, faults>> /\ (linkUp' => linkUp /\ listens' = listens)
    BY <1>10 DEF CommitStarted
  <2>2. \A h \in Forwards : Served(h)
    BY <1>0, <2>1
  <2>3. UNCHANGED other /\ \A h \in Forwards : Holds(h)' => Holds(h)
    BY <1>10, <2>2 DEF CommitStarted, Holds, ForwardType
  <2>5. step'[g] = "cancel" => g \notin registry'
    BY <1>10, <2>2 DEF CommitStarted, Served, LaneInv, LaneFits, Unstarted, Resting, Undoing, ForwardType
  <2> QED
    BY <2>1, <2>2, <2>3, <2>5, ServerRest
<1>11. ASSUME NEW f \in Forwards, CommitFails(f) PROVE Served(g)'
  <2>1. UNCHANGED <<host, port, faults>> /\ (linkUp' => linkUp /\ listens' = listens)
    BY <1>11 DEF CommitFails, StopEffects
  <2>2. \A h \in Forwards : Served(h)
    BY <1>0, <2>1
  <2>3. UNCHANGED other /\ \A h \in Forwards : Holds(h)' => Holds(h)
    BY <1>11, <2>2 DEF CommitFails, StopEffects, Holds, ForwardType
  <2>5. step'[g] = "cancel" => g \notin registry'
    BY <1>11, <2>2 DEF CommitFails, StopEffects, Served, LaneInv, LaneFits, Unstarted, Resting, Undoing, ForwardType
  <2> QED
    BY <2>1, <2>2, <2>3, <2>5, ServerRest
<1>12. ASSUME NEW f \in Forwards, Cancel(f) PROVE Served(g)'
  <2>1. UNCHANGED <<host, port, registry, other>> /\ step[f] = "cancel" /\ step'[f] = "unroute"
    BY <1>12 DEF Cancel, ForwardType
  <2>2. PICK after : Grants(after) \/ RequestFails(after)
    BY <1>12, Zenon DEF Cancel
  <2>3. faults = 0
    BY <2>2, FailuresAreFaults DEF Grants, serverVars
  <2>4. \A h \in Forwards : Served(h)
    BY <1>0, <2>3
  <2>5. \A h \in Forwards \ {f} : step'[h] = step[h]
    BY <1>12 DEF Cancel, ForwardType
  <2>6. \A h \in Forwards : Holds(h)' => Holds(h) /\ h # f
    BY <2>1, <2>4, <2>5 DEF Holds, Served
  <2>7. \A h \in Forwards : Address(h, port[h])' = Address(h, port[h])
    BY <2>1 DEF Address
  <2>8. linkUp' => linkUp /\ listens \ {Address(f, port[f])} \subseteq listens'
    BY <1>12, <2>4 DEF Cancel, Cancelling, Grants, RequestFails, Faulty, Served, ForwardType
  <2>9. step'[g] = "cancel" => g \notin registry'
    BY <2>1, <2>4, <2>5 DEF Served
  <2>10. CASE linkUp' /\ Holds(g)'
    BY <2>1, <2>4, <2>6, <2>7, <2>8, <2>9, <2>10 DEF Served, Holds
  <2>11. CASE ~ (linkUp' /\ Holds(g)')
    BY <2>1, <2>4, <2>9, <2>11 DEF Served
  <2> QED
    BY <2>10, <2>11
<1>13. ASSUME NEW f \in Forwards, Unroute(f) PROVE Served(g)'
  <2>1. UNCHANGED <<host, port, faults>> /\ (linkUp' => linkUp /\ listens' = listens)
    BY <1>13 DEF Unroute
  <2>2. \A h \in Forwards : Served(h)
    BY <1>0, <2>1
  <2>3. UNCHANGED other /\ \A h \in Forwards : Holds(h)' => Holds(h)
    BY <1>13, <2>2 DEF Unroute, Served, Holds, ForwardType
  <2>5. step'[g] = "cancel" => g \notin registry'
    BY <1>13, <2>2 DEF Unroute, Served, LaneInv, LaneFits, Unstarted, Resting, Undoing, ForwardType
  <2> QED
    BY <2>1, <2>2, <2>3, <2>5, ServerRest
<1>14. ASSUME NEW f \in Forwards, Stopped(f) PROVE Served(g)'
  <2>1. UNCHANGED <<host, port, faults>> /\ (linkUp' => linkUp /\ listens' = listens)
    BY <1>14 DEF Stopped
  <2>2. \A h \in Forwards : Served(h)
    BY <1>0, <2>1
  <2>3. UNCHANGED other /\ \A h \in Forwards : Holds(h)' => Holds(h)
    BY <1>14, <2>2 DEF Stopped, Holds, ForwardType
  <2>5. step'[g] = "cancel" => g \notin registry'
    BY <1>14, <2>2 DEF Stopped, Served, LaneInv, LaneFits, Unstarted, Resting, Undoing, ForwardType
  <2> QED
    BY <2>1, <2>2, <2>3, <2>5, ServerRest
<1>15. ASSUME NEW f \in Forwards, StopBegins(f) PROVE Served(g)'
  <2>1. UNCHANGED <<host, port, faults>> /\ (linkUp' => linkUp /\ listens' = listens)
    BY <1>15 DEF StopBegins, StopEffects
  <2>2. \A h \in Forwards : Served(h)
    BY <1>0, <2>1
  <2>3. UNCHANGED other /\ \A h \in Forwards : Holds(h)' => Holds(h)
    BY <1>15, <2>2 DEF StopBegins, StopEffects, Holds, ForwardType
  <2>5. step'[g] = "cancel" => g \notin registry'
    BY <1>15, <2>2 DEF StopBegins, StopEffects, Served, LaneInv, LaneFits, Unstarted, Resting, Undoing, ForwardType
  <2> QED
    BY <2>1, <2>2, <2>3, <2>5, ServerRest
<1>16. ASSUME NEW f \in Forwards, CheckBegins(f) PROVE Served(g)'
  <2>1. UNCHANGED <<host, port, faults>> /\ (linkUp' => linkUp /\ listens' = listens)
    BY <1>16 DEF CheckBegins
  <2>2. \A h \in Forwards : Served(h)
    BY <1>0, <2>1
  <2>3. UNCHANGED other /\ \A h \in Forwards : Holds(h)' => Holds(h)
    BY <1>16, <2>2 DEF CheckBegins, Holds, ForwardType
  <2>5. step'[g] = "cancel" => g \notin registry'
    BY <1>16, <2>2 DEF CheckBegins, Served, LaneInv, LaneFits, Unstarted, Resting, Undoing, ForwardType
  <2> QED
    BY <2>1, <2>2, <2>3, <2>5, ServerRest
<1>17. ASSUME NEW f \in Forwards, CheckEnds(f) PROVE Served(g)'
  <2>1. UNCHANGED <<host, port, faults>> /\ (linkUp' => linkUp /\ listens' = listens)
    BY <1>17 DEF CheckEnds
  <2>2. \A h \in Forwards : Served(h)
    BY <1>0, <2>1
  <2>3. UNCHANGED other /\ \A h \in Forwards : Holds(h)' => Holds(h)
    BY <1>17, <2>2 DEF CheckEnds, Holds, ForwardType
  <2>5. step'[g] = "cancel" => g \notin registry'
    BY <1>17, <2>2 DEF CheckEnds, Served, LaneInv, LaneFits, Unstarted, Resting, Undoing, ForwardType
  <2> QED
    BY <2>1, <2>2, <2>3, <2>5, ServerRest
<1>18. ASSUME NEW f \in Forwards, CheckRoutes(f) PROVE Served(g)'
  <2>1. UNCHANGED <<host, port, faults>> /\ (linkUp' => linkUp /\ listens' = listens)
    BY <1>18 DEF CheckRoutes
  <2>2. \A h \in Forwards : Served(h)
    BY <1>0, <2>1
  <2>3. UNCHANGED other /\ \A h \in Forwards : Holds(h)' => Holds(h)
    BY <1>18, <2>2 DEF CheckRoutes, Holds, ForwardType
  <2>5. step'[g] = "cancel" => g \notin registry'
    BY <1>18, <2>2 DEF CheckRoutes, Served, LaneInv, LaneFits, Unstarted, Resting, Undoing, ForwardType
  <2> QED
    BY <2>1, <2>2, <2>3, <2>5, ServerRest
<1>19. ASSUME NEW f \in Forwards, CheckAcceptor(f) PROVE Served(g)'
  <2>1. UNCHANGED <<host, port, faults>> /\ (linkUp' => linkUp /\ listens' = listens)
    BY <1>19 DEF CheckAcceptor
  <2>2. \A h \in Forwards : Served(h)
    BY <1>0, <2>1
  <2>3. UNCHANGED other /\ \A h \in Forwards : Holds(h)' => Holds(h)
    BY <1>19, <2>2 DEF CheckAcceptor, Holds, ForwardType
  <2>5. step'[g] = "cancel" => g \notin registry'
    BY <1>19, <2>2 DEF CheckAcceptor, Served, LaneInv, LaneFits, Unstarted, Resting, Undoing, ForwardType
  <2> QED
    BY <2>1, <2>2, <2>3, <2>5, ServerRest
<1>20. ASSUME NEW f \in Forwards, Missing(f) PROVE Served(g)'
  <2>1. UNCHANGED <<host, port, faults>> /\ (linkUp' => linkUp /\ listens' = listens)
    BY <1>20 DEF Missing
  <2>2. \A h \in Forwards : Served(h)
    BY <1>0, <2>1
  <2>3. UNCHANGED other /\ \A h \in Forwards : Holds(h)' => Holds(h)
    BY <1>20, <2>2 DEF Missing, Holds, ForwardType
  <2>5. step'[g] = "cancel" => g \notin registry'
    BY <1>20, <2>2 DEF Missing, Served, LaneInv, LaneFits, Unstarted, Resting, Undoing, ForwardType
  <2> QED
    BY <2>1, <2>2, <2>3, <2>5, ServerRest
<1>21. ASSUME NEW f \in Forwards, Restore(f) PROVE Served(g)'
  <2>1. UNCHANGED <<host, port, registry, other, faults, linkUp>> /\ linkUp
    BY <1>21 DEF Restore, Grants
  <2>2. \A h \in Forwards : Served(h)
    BY <1>0, <2>1
  <2>3. listens' = listens \cup {Address(f, port[f])} /\ Address(f, port[f]) \notin listens
    BY <1>21 DEF Restore, Grants
  <2>4. f \notin registry
    BY <2>1, <2>2, <2>3 DEF Served, Holds
  <2>5. \A h \in Forwards \ {f} : step'[h] = step[h]
    BY <1>21 DEF Restore, ForwardType
  <2>6. \A h \in Forwards : Holds(h) => Address(h, port[h]) \in listens
    BY <2>1, <2>2 DEF Served
  <2>7. \A h \in Forwards : Address(h, port[h])' = Address(h, port[h])
    BY <2>1 DEF Address
  <2>8. \A h \in Forwards \ {f} : Holds(h)' <=> Holds(h)
    BY <2>1, <2>5 DEF Holds
  <2>9. step'[g] = "cancel" => g \notin registry'
    BY <2>1, <2>2, <2>4, <2>5 DEF Served
  <2>10. CASE g = f
    BY <2>1, <2>2, <2>3, <2>6, <2>7, <2>8, <2>9, <2>10 DEF Served
  <2>11. CASE g # f
    BY <2>1, <2>2, <2>3, <2>6, <2>7, <2>8, <2>9, <2>11 DEF Served
  <2> QED
    BY <2>10, <2>11
<1>22. ASSUME NEW f \in Forwards, RestoreFails(f) PROVE Served(g)'
  <2>4. UNCHANGED serverVars
    BY <1>22, FailuresAreFaults DEF RestoreFails
  <2>1. UNCHANGED <<host, port, faults>> /\ (linkUp' => linkUp /\ listens' = listens)
    BY <1>22, <2>4 DEF RestoreFails
  <2>2. \A h \in Forwards : Served(h)
    BY <1>0, <2>1
  <2>3. UNCHANGED other /\ \A h \in Forwards : Holds(h)' => Holds(h)
    BY <1>22, <2>2 DEF RestoreFails, Holds, ForwardType
  <2>5. step'[g] = "cancel" => g \notin registry'
    BY <1>22, <2>2 DEF RestoreFails, Served, LaneInv, LaneFits, Unstarted, Resting, Undoing, ForwardType
  <2> QED
    BY <2>1, <2>2, <2>3, <2>5, ServerRest
<1>23. ASSUME NEW f \in Forwards, NEW p \in Ports, Listen(f, p) PROVE Served(g)'
  <2>1. UNCHANGED <<host, registry, other, faults, linkUp>> /\ linkUp /\ f \notin registry
    BY <1>23 DEF Listen, Grants, LaneInv, LaneFits, Unstarted
  <2>2. \A h \in Forwards : Served(h)
    BY <1>0, <2>1
  <2>3. listens' = listens \cup {Address(f, p)} /\ Address(f, p) \notin listens
    BY <1>23 DEF Listen, Grants
  <2>4. port'[f] = p /\ step'[f] = "install" /\ Address(f, port[f])' = Address(f, p)
    BY <1>23 DEF Listen, Address, ForwardType
  <2>5. \A h \in Forwards \ {f} : /\ Address(h, port[h])' = Address(h, port[h])
                                 /\ step'[h] = step[h] /\ (Holds(h)' <=> Holds(h))
    BY <1>23, <2>1 DEF Listen, Address, Holds, ForwardType
  <2>6. \A h \in Forwards \ {f} : Holds(h) => Address(h, port[h]) \in listens
    BY <2>1, <2>2 DEF Served
  <2>7. CASE g = f
    BY <2>1, <2>2, <2>3, <2>4, <2>5, <2>6, <2>7 DEF Served
  <2>8. CASE g # f
    BY <2>1, <2>2, <2>3, <2>4, <2>5, <2>6, <2>8 DEF Served
  <2> QED
    BY <2>7, <2>8
<1>24. ASSUME NEW f \in Forwards, NEW p \in Ports, ListenFails(f, p) PROVE Served(g)'
  <2>4. UNCHANGED serverVars
    BY <1>24, FailuresAreFaults DEF ListenFails
  <2>1. UNCHANGED <<host, port, faults>> /\ (linkUp' => linkUp /\ listens' = listens)
    BY <1>24, <2>4 DEF ListenFails
  <2>2. \A h \in Forwards : Served(h)
    BY <1>0, <2>1
  <2>3. UNCHANGED other /\ \A h \in Forwards : Holds(h)' => Holds(h)
    BY <1>24, <2>2 DEF ListenFails, Holds, ForwardType
  <2>5. step'[g] = "cancel" => g \notin registry'
    BY <1>24, <2>2 DEF ListenFails, Served, LaneInv, LaneFits, Unstarted, Resting, Undoing, ForwardType
  <2> QED
    BY <2>1, <2>2, <2>3, <2>5, ServerRest
<1>25. ASSUME NEW f \in Forwards, NEW p \in Ports, ListenElsewhere(f, p) PROVE Served(g)'
  BY <1>25 DEF ListenElsewhere, Faulty, ForwardType
<1>26. CASE UNCHANGED forwardVars
  <2>1. UNCHANGED <<host, port, faults>> /\ (linkUp' => linkUp /\ listens' = listens)
    BY <1>26 DEF forwardVars
  <2>2. \A h \in Forwards : Served(h)
    BY <1>0, <2>1
  <2>3. UNCHANGED other /\ \A h \in Forwards : Holds(h)' => Holds(h)
    BY <1>26, <2>2 DEF forwardVars, Holds, ForwardType
  <2>5. step'[g] = "cancel" => g \notin registry'
    BY <1>26, <2>2 DEF forwardVars, Served, LaneInv, LaneFits, Unstarted, Resting, Undoing, ForwardType
  <2> QED
    BY <2>1, <2>2, <2>3, <2>5, ServerRest

<1> QED
  BY ONLY [ForwardNext]_forwardVars, <1>1, <1>2, <1>3, <1>4, <1>5, <1>6, <1>7, <1>8, <1>9, <1>10, <1>11, <1>12, <1>13, <1>14, <1>15, <1>16, <1>17, <1>18, <1>19, <1>20, <1>21, <1>22, <1>23, <1>24, <1>25, <1>26, Zenon DEF ForwardNext, ForwardStep

----------------------------------------------------------------------------
(* The acceptor, and the theorem.                                          *)

(* Every step keeps the acceptor the only one.                             *)
LEMMA AcceptStep == ForwardType /\ AcceptInv /\ [ForwardNext]_forwardVars => AcceptInv'
<1> SUFFICES ASSUME ForwardType /\ AcceptInv, [ForwardNext]_forwardVars PROVE AcceptInv'
  OBVIOUS
<1>1. CASE LinkFails
  <2>1. UNCHANGED acceptVars
    BY <1>1, Zenon DEF LinkFails
  <2> QED
    BY <2>1 DEF AcceptInv, acceptVars
<1>2. CASE ReaderEnds
  <2>1. UNCHANGED acceptVars
    BY <1>2, Zenon DEF ReaderEnds
  <2> QED
    BY <2>1 DEF AcceptInv, acceptVars
<1>3. CASE ConnectionGoes
  <2>1. UNCHANGED acceptVars
    BY <1>3, Zenon DEF ConnectionGoes
  <2> QED
    BY <2>1 DEF AcceptInv, acceptVars
<1>4. CASE TunnelsStop
  <2>1. UNCHANGED acceptVars
    BY <1>4, Zenon DEF TunnelsStop
  <2> QED
    BY <2>1 DEF AcceptInv, acceptVars
<1>5. CASE AcceptorEnds
  BY <1>5 DEF AcceptorEnds, AcceptInv, EnsureAcceptor, acceptVars, ForwardType
<1>6. ASSUME NEW a \in Addresses, ServerDrops(a) PROVE AcceptInv'
  <2>1. UNCHANGED acceptVars
    BY <1>6, Zenon DEF ServerDrops
  <2> QED
    BY <2>1 DEF AcceptInv, acceptVars
<1>7. ASSUME NEW f \in Forwards, CreateBegins(f) PROVE AcceptInv'
  <2>1. UNCHANGED acceptVars
    BY <1>7, Zenon DEF CreateBegins
  <2> QED
    BY <2>1 DEF AcceptInv, acceptVars
<1>8. ASSUME NEW f \in Forwards, Install(f) PROVE AcceptInv'
  BY <1>8 DEF Install, AcceptInv, EnsureAcceptor, acceptVars, ForwardType
<1>9. ASSUME NEW f \in Forwards, InstallFails(f) PROVE AcceptInv'
  <2>1. UNCHANGED acceptVars
    BY <1>9, Zenon DEF InstallFails
  <2> QED
    BY <2>1 DEF AcceptInv, acceptVars
<1>10. ASSUME NEW f \in Forwards, CommitStarted(f) PROVE AcceptInv'
  <2>1. UNCHANGED acceptVars
    BY <1>10, Zenon DEF CommitStarted
  <2> QED
    BY <2>1 DEF AcceptInv, acceptVars
<1>11. ASSUME NEW f \in Forwards, CommitFails(f) PROVE AcceptInv'
  <2>1. UNCHANGED acceptVars
    BY <1>11, Zenon DEF CommitFails
  <2> QED
    BY <2>1 DEF AcceptInv, acceptVars
<1>12. ASSUME NEW f \in Forwards, Cancel(f) PROVE AcceptInv'
  <2>1. UNCHANGED acceptVars
    BY <1>12, Zenon DEF Cancel
  <2> QED
    BY <2>1 DEF AcceptInv, acceptVars
<1>13. ASSUME NEW f \in Forwards, Unroute(f) PROVE AcceptInv'
  <2>1. UNCHANGED acceptVars
    BY <1>13, Zenon DEF Unroute
  <2> QED
    BY <2>1 DEF AcceptInv, acceptVars
<1>14. ASSUME NEW f \in Forwards, Stopped(f) PROVE AcceptInv'
  <2>1. UNCHANGED acceptVars
    BY <1>14, Zenon DEF Stopped
  <2> QED
    BY <2>1 DEF AcceptInv, acceptVars
<1>15. ASSUME NEW f \in Forwards, StopBegins(f) PROVE AcceptInv'
  <2>1. UNCHANGED acceptVars
    BY <1>15, Zenon DEF StopBegins
  <2> QED
    BY <2>1 DEF AcceptInv, acceptVars
<1>16. ASSUME NEW f \in Forwards, CheckBegins(f) PROVE AcceptInv'
  <2>1. UNCHANGED acceptVars
    BY <1>16, Zenon DEF CheckBegins
  <2> QED
    BY <2>1 DEF AcceptInv, acceptVars
<1>17. ASSUME NEW f \in Forwards, CheckEnds(f) PROVE AcceptInv'
  <2>1. UNCHANGED acceptVars
    BY <1>17, Zenon DEF CheckEnds
  <2> QED
    BY <2>1 DEF AcceptInv, acceptVars
<1>18. ASSUME NEW f \in Forwards, CheckRoutes(f) PROVE AcceptInv'
  <2>1. UNCHANGED acceptVars
    BY <1>18, Zenon DEF CheckRoutes
  <2> QED
    BY <2>1 DEF AcceptInv, acceptVars
<1>19. ASSUME NEW f \in Forwards, CheckAcceptor(f) PROVE AcceptInv'
  BY <1>19 DEF CheckAcceptor, AcceptInv, EnsureAcceptor, acceptVars, ForwardType
<1>20. ASSUME NEW f \in Forwards, Missing(f) PROVE AcceptInv'
  <2>1. UNCHANGED acceptVars
    BY <1>20, Zenon DEF Missing
  <2> QED
    BY <2>1 DEF AcceptInv, acceptVars
<1>21. ASSUME NEW f \in Forwards, Restore(f) PROVE AcceptInv'
  <2>1. UNCHANGED acceptVars
    BY <1>21, Zenon DEF Restore
  <2> QED
    BY <2>1 DEF AcceptInv, acceptVars
<1>22. ASSUME NEW f \in Forwards, RestoreFails(f) PROVE AcceptInv'
  <2>1. UNCHANGED acceptVars
    BY <1>22, Zenon DEF RestoreFails
  <2> QED
    BY <2>1 DEF AcceptInv, acceptVars
<1>23. ASSUME NEW f \in Forwards, NEW p \in Ports, Listen(f, p) PROVE AcceptInv'
  <2>1. UNCHANGED acceptVars
    BY <1>23, Zenon DEF Listen
  <2> QED
    BY <2>1 DEF AcceptInv, acceptVars
<1>24. ASSUME NEW f \in Forwards, NEW p \in Ports, ListenFails(f, p) PROVE AcceptInv'
  <2>1. UNCHANGED acceptVars
    BY <1>24, Zenon DEF ListenFails
  <2> QED
    BY <2>1 DEF AcceptInv, acceptVars
<1>25. ASSUME NEW f \in Forwards, NEW p \in Ports, ListenElsewhere(f, p) PROVE AcceptInv'
  <2>1. UNCHANGED acceptVars
    BY <1>25, Zenon DEF ListenElsewhere
  <2> QED
    BY <2>1 DEF AcceptInv, acceptVars
<1>26. CASE UNCHANGED forwardVars
  BY <1>26 DEF forwardVars, acceptVars, AcceptInv
<1> QED
  BY ONLY [ForwardNext]_forwardVars, <1>1, <1>2, <1>3, <1>4, <1>5, <1>6, <1>7, <1>8, <1>9, <1>10, <1>11, <1>12, <1>13, <1>14, <1>15, <1>16, <1>17, <1>18, <1>19, <1>20, <1>21, <1>22, <1>23, <1>24, <1>25, <1>26, Zenon DEF ForwardNext, ForwardStep

(* Whatever is created, checked, stopped or lost, and in whatever order: a *)
(* route leads to a tunnel that is listed or being worked on, a listed     *)
(* tunnel is served, the profile says what runs, and one acceptor runs     *)
(* (ForwardsAreServed; start_tunnel_runtime, check_remote_tunnel_health,   *)
(* stop_tunnel_runtime_effects, remove_remote_forward_routes_if_owned).    *)
THEOREM ForwardsStayServed == ForwardSpec => []ForwardsAreServed
<1>1. ForwardInit => ForwardInv
  <2> SUFFICES ASSUME ForwardInit PROVE ForwardInv
    OBVIOUS
  <2>1. ForwardType
    BY DEF ForwardInit, ForwardType
  <2>2. LaneInv
    BY DEF ForwardInit, LaneInv, LaneFits, Unstarted, Resting, Undoing
  <2>3. RouteInv
    BY ForwardAssumption DEF ForwardInit, RouteInv, RoutesOf, Unlisted
  <2>4. ServerInv
    BY DEF ForwardInit, ServerInv, Served, Holds
  <2>5. AcceptInv
    BY DEF ForwardInit, AcceptInv
  <2> QED
    BY <2>1, <2>2, <2>3, <2>4, <2>5 DEF ForwardInv
<1>2. ForwardInv /\ [ForwardNext]_forwardVars => ForwardInv'
  BY TypeStep, LaneStep, RouteStep, ServerStep, AcceptStep, Zenon DEF ForwardInv
<1>3. ForwardInv => ForwardsAreServed
  <2> SUFFICES ASSUME ForwardInv PROVE ForwardsAreServed
    OBVIOUS
  <2>1. RoutesAreOwned
    <3> SUFFICES ASSUME NEW k \in Keys, routes[k] # NoForward
                 PROVE  /\ k \in KeysAt(routes[k], port[routes[k]])
                        /\ held = "connected" => routes[k] \in registry \/ lane[routes[k]] # "free"
      BY DEF RoutesAreOwned
    <3>1. PICK f \in Forwards : routes[k] = f
      BY DEF ForwardInv, ForwardType
    <3>2. k \in KeysAt(f, port[f]) /\ ~ Idle(f)
      BY <3>1 DEF ForwardInv, RouteInv, RoutesOf, Unlisted
    <3>3. held = "connected" => f \in registry \/ lane[f] # "free"
      BY <3>2 DEF ForwardInv, Idle, LaneInv, LaneFits, Unstarted, Resting
    <3> QED
      BY <3>1, <3>2, <3>3
  <2>2. ListedIsServed
    <3> SUFFICES ASSUME NEW f \in registry, lane[f] = "free"
                 PROVE  /\ f \notin unrouted => \A k \in KeysAt(f, port[f]) : routes[k] = f
                        /\ faults = 0 /\ linkUp => Address(f, port[f]) \in listens
      BY DEF ListedIsServed
    <3> f \in Forwards
      BY DEF ForwardInv, ForwardType
    <3> QED
      BY DEF ForwardInv, RouteInv, RoutesOf, ServerInv, Served, Holds
  <2>3. EnabledIsListed
    BY DEF EnabledIsListed, ForwardInv, LaneInv, LaneFits, Unstarted, Resting
  <2>4. OneAcceptor
    BY DEF OneAcceptor, ForwardInv, AcceptInv
  <2> QED
    BY <2>1, <2>2, <2>3, <2>4 DEF ForwardsAreServed
<1> QED
  BY <1>1, <1>2, <1>3, PTL DEF ForwardSpec

----------------------------------------------------------------------------
(* Trust on first use.                                                     *)

(* Nothing that is kept conflicts with a key that may be added: it has     *)
(* none of that algorithm for the endpoint, or a rotation is allowed.      *)
LEMMA AddedIsFirst ==
    ASSUME NEW ignore, NEW policy, NEW K, NEW O, NEW ep, NEW key,
           Persisted(ignore, policy, K, O, ep, key) = "added",
           ~policy.rotation,
           NEW e \in K, e[1] = ep, Alg[e[2]] = Alg[key]
    PROVE  FALSE
<1>1. Evaluate(policy, K, {}, ep, key) = "unknown"
  BY DEF Persisted
<1>2. e[2] \in KeysOf(K, ep)
  BY DEF KeysOf
<1>3. {k \in KeysOf(K, ep) \cup Confirmed({}, ep) : Alg[k] = Alg[key]} # {}
  BY <1>2
<1> QED
  BY <1>1, <1>3 DEF Evaluate

LEMMA KeepKeyIsUnique ==
    ASSUME FirstUseIsUnique, NEW a \in Attempts, KeepKey(a)
    PROVE  FirstUseIsUnique'
<1> DEFINE new == <<Hop(a), Last(attempt[a].keys)>>
<1>1. CASE PersistOutcome(a) = "added"
  <2>1. kept' = kept \cup {new}
    BY <1>1 DEF KeepKey, Decided
  <2>2. byUser' = IF profile.policy.rotation THEN byUser \cup {new} ELSE byUser
    BY <1>1 DEF KeepKey
  <2>3. ASSUME ~profile.policy.rotation, NEW e \in kept, e[1] = new[1], Alg[e[2]] = Alg[new[2]]
        PROVE  FALSE
    BY <1>1, <2>3, AddedIsFirst DEF PersistOutcome
  <2> HIDE DEF new
  <2> QED
    BY <2>1, <2>2, <2>3 DEF FirstUseIsUnique
<1>2. CASE PersistOutcome(a) # "added"
  BY <1>2 DEF KeepKey, FirstUseIsUnique
<1> QED
  BY <1>1, <1>2

(* What the user adds, moves or removes is marked as the user's. *)
LEMMA UserIsUnique ==
    ASSUME FirstUseIsUnique, NEW e,
           kept' \subseteq kept \cup {e}, byUser' = byUser \cup {e}
    PROVE  FirstUseIsUnique'
  BY DEF FirstUseIsUnique

LEMMA FirstUseStep == FirstUseIsUnique /\ [Next]_vars => FirstUseIsUnique'
<1> SUFFICES ASSUME FirstUseIsUnique, [Next]_vars PROVE FirstUseIsUnique'
  OBVIOUS
<1>1. ASSUME NEW a \in Attempts, AttemptStep(a) PROVE FirstUseIsUnique'
  <2>1. CASE PersistJumpKey(a) \/ PersistHostKey(a)
    BY <2>1, KeepKeyIsUnique DEF PersistJumpKey, PersistHostKey
  <2>2. CASE BeginOpen(a)
    BY <2>2, Zenon DEF BeginOpen, FirstUseIsUnique, userVars
  <2>3. CASE \/ DropRuntime(a) \/ BeginReconnect(a) \/ TakeView(a) \/ ConnectJump(a)
             \/ ConnectTarget(a) \/ LibsshConnect(a) \/ LibsshVerify(a) \/ HostKeyRejected(a)
    <3>1. UNCHANGED <<kept, byUser>>
      BY <2>3 DEF DropRuntime, BeginReconnect, TakeView, ConnectJump, ConnectTarget, LibsshConnect,
                  LibsshVerify, HostKeyRejected, KeySeen, userVars
    <3> QED
      BY <3>1 DEF FirstUseIsUnique
  <2>4. CASE \/ AuthenticateJump(a) \/ AuthenticateTarget(a) \/ LibsshAuthenticate(a)
             \/ StepFails(a) \/ PersistRefused(a)
    <3>1. UNCHANGED <<kept, byUser>>
      BY <2>4, Zenon DEF AuthenticateJump, AuthenticateTarget, LibsshAuthenticate, StepFails,
                         PersistRefused, AuthenticatedBy, userVars
    <3> QED
      BY <3>1 DEF FirstUseIsUnique
  <2>5. CASE \/ OpenTerminal(a) \/ LibsshOpenTerminal(a) \/ InsertRuntime(a) \/ CommitOpen(a)
             \/ CommitOpenFails(a) \/ RollBack(a) \/ InstallReconnect(a)
             \/ ReconnectNotInstalled(a) \/ TakeAfterReconnect(a) \/ CancelOpen(a)
    <3>1. UNCHANGED <<kept, byUser>>
      BY <2>5 DEF OpenTerminal, LibsshOpenTerminal, InsertRuntime, CommitOpen, CommitOpenFails,
                  RollBack, InstallReconnect, ReconnectNotInstalled, TakeAfterReconnect, CancelOpen,
                  TerminalOpened, userVars
    <3> QED
      BY <3>1 DEF FirstUseIsUnique
  <2> QED
    BY <1>1, <2>1, <2>2, <2>3, <2>4, <2>5 DEF AttemptStep
<1>2. CASE Close \/ LoseConnection \/ DeleteProfile \/ ScanHostKey \/ RejectHostKey \/ TrustOnce
  BY <1>2 DEF Close, LoseConnection, DeleteProfile, ScanHostKey, RejectHostKey, TrustOnce, userVars,
              FirstUseIsUnique
<1>8. CASE EditProfile
  BY <1>8, Zenon DEF EditProfile, userVars, FirstUseIsUnique
<1>9. CASE RotateServerKey
  BY <1>9, Zenon DEF RotateServerKey, userVars, FirstUseIsUnique
<1>3. ASSUME NEW decision, TrustAlways(decision) PROVE FirstUseIsUnique'
  BY <1>3, UserIsUnique DEF TrustAlways, Decided
<1>4. ASSUME NEW e \in kept, DeleteHostKey(e) PROVE FirstUseIsUnique'
  BY <1>4 DEF DeleteHostKey, FirstUseIsUnique
<1>5. ASSUME NEW e \in kept, UpdateHostKey(e) PROVE FirstUseIsUnique'
  <2>1. PICK ep : kept' = (kept \ {e}) \cup {<<ep, e[2]>>} /\ byUser' = byUser \cup {<<ep, e[2]>>}
    BY <1>5 DEF UpdateHostKey
  <2> QED
    BY <2>1, UserIsUnique
<1>6. CASE ImportKnownHosts
  <2>1. PICK e, k : kept' = kept \cup {<<e, k>>} /\ byUser' = byUser \cup {<<e, k>>}
    BY <1>6 DEF ImportKnownHosts
  <2> QED
    BY <2>1, UserIsUnique
<1>7. CASE UNCHANGED vars
  BY <1>7 DEF vars, FirstUseIsUnique
<1> QED
  BY <1>1, <1>2, <1>3, <1>4, <1>5, <1>6, <1>7, <1>8, <1>9 DEF Next, UserStep

(* Trust on first use trusts one key: whatever attempts run beside each    *)
(* other and whatever keys the servers show, an endpoint gets a second key *)
(* of an algorithm only from the user or under a policy that allows        *)
(* rotation, because the key is judged by what the store keeps at the      *)
(* moment it is added (persist_observed_host_key).                         *)
THEOREM FirstUseTrustsOneKey == Spec => []FirstUseIsUnique
<1>1. Init => FirstUseIsUnique
  BY DEF Init, FirstUseIsUnique
<1> QED
  BY <1>1, FirstUseStep, PTL DEF Spec

----------------------------------------------------------------------------
(* Confirmations.                                                          *)

(* The fields of the records, whatever their values.                       *)
IsProfile(p) == p \in [edits : {p.edits}, last : {p.last}, removed : {p.removed},
                       policy : {p.policy}, gone : {p.gone}]
IsAttempt(r) == r \in [pc : {r.pc}, kind : {r.kind}, hop : {r.hop}, copy : {r.copy},
                       view : {r.view}, once : {r.once}, keys : {r.keys}, method : {r.method},
                       oneKey : {r.oneKey}, superseded : {r.superseded}, held : {r.held}]

Holding == {"commit", "rollback", "ended", "installed"}

(* Only an attempt that has taken the confirmations, or had taken them     *)
(* when it ended, holds any.                                               *)
HoldsNothing(r) == r.pc \notin Holding => r.held = {}

KeptInv ==
    /\ confirms \in Nat
    /\ IsProfile(profile)
    /\ DOMAIN attempt = Attempts
    /\ \A a \in Attempts : IsAttempt(attempt[a]) /\ HoldsNothing(attempt[a])
    /\ ConfirmationIsKept

SameKeptProfile == IsProfile(profile)' /\ profile'.gone = profile.gone

LEMMA ChangedProfile == ASSUME IsProfile(profile), UNCHANGED profile PROVE SameKeptProfile
  BY DEF SameKeptProfile, IsProfile

LEMMA EditedProfile ==
    ASSUME NEW e, NEW l, NEW r, NEW p,
           profile' \in [edits : {e}, last : {l}, removed : {r}, policy : {p}, gone : {profile.gone}]
    PROVE  SameKeptProfile
  BY DEF SameKeptProfile, IsProfile

(* An attempt that goes on and keeps what it holds loses no confirmation.  *)
LEMMA GoesOn ==
    ASSUME KeptInv, NEW a \in Attempts, NEW r, IsAttempt(r), HoldsNothing(r),
           r.held = attempt[a].held,
           Becomes(a, r),
           UNCHANGED <<confirms, once>>, SameKeptProfile
    PROVE  KeptInv'
<1>1. DOMAIN attempt' = Attempts /\ attempt'[a] = r
      /\ \A b \in Attempts : b # a => attempt'[b] = attempt[b]
  BY DEF KeptInv, Becomes
<1>2. \A b \in Attempts : attempt'[b].held = attempt[b].held
  BY <1>1
<1>3. ConfirmationIsKept'
  BY <1>2 DEF KeptInv, ConfirmationIsKept, SameKeptProfile
<1> QED
  BY <1>1, <1>3 DEF KeptInv, SameKeptProfile

LEMMA GoesTo ==
    ASSUME KeptInv, NEW a \in Attempts, NEW pc, Becomes(a, [attempt[a] EXCEPT !.pc = pc]),
           pc \in Holding \/ attempt[a].pc \notin Holding,
           UNCHANGED <<confirms, once>>, SameKeptProfile
    PROVE  KeptInv'
<1> DEFINE r == [attempt[a] EXCEPT !.pc = pc]
<1>1. IsAttempt(attempt[a]) /\ HoldsNothing(attempt[a])
  BY DEF KeptInv
<1>2. IsAttempt(r) /\ r.pc = pc /\ r.held = attempt[a].held
  BY <1>1 DEF IsAttempt
<1> HIDE DEF r
<1>3. HoldsNothing(r)
  BY <1>1, <1>2 DEF HoldsNothing
<1>4. Becomes(a, r)
  BY DEF r
<1> QED
  BY <1>2, <1>3, <1>4, GoesOn

(* Nothing is lost by an attempt that holds nothing and ends.              *)
LEMMA EndsEmpty ==
    ASSUME KeptInv, NEW a \in Attempts, Becomes(a, [NoAttempt EXCEPT !.pc = "ended"]),
           attempt[a].pc \notin Holding,
           UNCHANGED <<confirms, once>>, SameKeptProfile
    PROVE  KeptInv'
<1> DEFINE r == [NoAttempt EXCEPT !.pc = "ended"]
<1>1. attempt[a].held = {}
  BY DEF KeptInv, HoldsNothing
<1>2. IsAttempt(r) /\ r.pc = "ended" /\ r.held = {}
  BY DEF IsAttempt, NoAttempt
<1> HIDE DEF r
<1>3. HoldsNothing(r)
  BY <1>2 DEF HoldsNothing
<1>4. Becomes(a, r)
  BY DEF r
<1> QED
  BY <1>1, <1>2, <1>3, <1>4, GoesOn

(* The copies of a superseded reconnect differ in that only.               *)
LEMMA SupersededKeeps ==
    ASSUME KeptInv, NEW a \in Attempts
    PROVE  LET r == Superseding(attempt)[a]
           IN  /\ IsAttempt(r) /\ r.pc = attempt[a].pc /\ r.held = attempt[a].held
<1> DEFINE r == Superseding(attempt)[a]
           s == [attempt[a] EXCEPT !.superseded = TRUE]
<1>1. IsAttempt(attempt[a])
  BY DEF KeptInv
<1>2. IsAttempt(s) /\ s.pc = attempt[a].pc /\ s.held = attempt[a].held
  BY <1>1 DEF IsAttempt
<1>3. r = attempt[a] \/ r = s
  BY DEF Superseding
<1> HIDE DEF r, s
<1>4. IsAttempt(r) /\ r.pc = attempt[a].pc /\ r.held = attempt[a].held
  BY <1>1, <1>2, <1>3
<1> QED
  BY <1>4 DEF r

(* Beginning.                                                              *)
LEMMA BeginKeeps ==
    ASSUME KeptInv, NEW a \in Attempts,
           BeginOpen(a) \/ DropRuntime(a) \/ BeginReconnect(a) \/ TakeView(a)
    PROVE  KeptInv'
<1>0. IsAttempt(attempt[a]) /\ HoldsNothing(attempt[a]) /\ IsProfile(profile)
  BY DEF KeptInv
<1>1. CASE BeginOpen(a)
  <2>1. PICK oneKey : Becomes(a, [NoAttempt EXCEPT !.pc = "begun", !.copy = Copy, !.oneKey = oneKey])
    BY <1>1, Zenon DEF BeginOpen
  <2>2. UNCHANGED <<profile, once, confirms>> /\ attempt[a].pc = "idle"
    BY <1>1, Zenon DEF BeginOpen, At, userVars
  <2> DEFINE r == [NoAttempt EXCEPT !.pc = "begun", !.copy = Copy, !.oneKey = oneKey]
  <2>3. r \in [pc : {"begun"}, kind : {"open"}, hop : {1}, copy : {Copy}, view : {{}}, once : {{}},
                keys : {<<>>}, method : {"none"}, oneKey : {oneKey}, superseded : {FALSE},
                held : {{}}]
    BY DEF NoAttempt
  <2>4. Becomes(a, r)
    BY <2>1
  <2> HIDE DEF r
  <2>5. IsAttempt(r) /\ HoldsNothing(r) /\ r.held = attempt[a].held
    BY <1>0, <2>2, <2>3 DEF IsAttempt, HoldsNothing, Holding
  <2> QED
    BY <1>0, <2>2, <2>4, <2>5, GoesOn, ChangedProfile
<1>2. CASE DropRuntime(a)
  <2>1. /\ attempt' = [Superseding(attempt) EXCEPT ![a].pc = "view"]
        /\ UNCHANGED <<profile, once, confirms>> /\ attempt[a].pc = "begun"
    BY <1>2 DEF DropRuntime, At, userVars
  <2> DEFINE S == Superseding(attempt)
  <2>2. DOMAIN S = Attempts
    BY DEF Superseding
  <2>3. \A b \in Attempts : IsAttempt(S[b]) /\ S[b].pc = attempt[b].pc /\ S[b].held = attempt[b].held
    BY SupersededKeeps
  <2> HIDE DEF S
  <2>4. /\ DOMAIN attempt' = Attempts /\ attempt'[a] = [S[a] EXCEPT !.pc = "view"]
        /\ \A b \in Attempts \ {a} : attempt'[b] = S[b]
    BY <2>1, <2>2 DEF S
  <2>5. IsAttempt(attempt'[a]) /\ attempt'[a].held = S[a].held
    BY <2>3, <2>4 DEF IsAttempt
  <2>6. /\ \A b \in Attempts : attempt'[b].held = attempt[b].held
        /\ \A b \in Attempts \ {a} : attempt'[b].pc = attempt[b].pc
    BY <2>3, <2>4, <2>5
  <2>7. \A b \in Attempts : IsAttempt(attempt'[b]) /\ HoldsNothing(attempt'[b])
    BY <1>0, <2>1, <2>3, <2>4, <2>5, <2>6 DEF KeptInv, HoldsNothing, Holding
  <2>8. ConfirmationIsKept'
    BY <2>1, <2>6 DEF KeptInv, ConfirmationIsKept
  <2> QED
    BY <2>1, <2>4, <2>7, <2>8 DEF KeptInv, IsProfile
<1>3. CASE BeginReconnect(a)
  <2> DEFINE r == [NoAttempt EXCEPT !.pc = "view", !.kind = "reconnect", !.copy = Copy]
  <2>1. Becomes(a, r) /\ UNCHANGED <<profile, once, confirms>> /\ attempt[a].pc = "idle"
    BY <1>3 DEF BeginReconnect, At, userVars
  <2>2. r \in [pc : {"view"}, kind : {"reconnect"}, hop : {1}, copy : {Copy}, view : {{}}, once : {{}},
                keys : {<<>>}, method : {"none"}, oneKey : {FALSE}, superseded : {FALSE},
                held : {{}}]
    BY DEF NoAttempt
  <2> HIDE DEF r
  <2>3. IsAttempt(r) /\ HoldsNothing(r) /\ r.held = attempt[a].held
    BY <1>0, <2>1, <2>2 DEF IsAttempt, HoldsNothing, Holding
  <2> QED
    BY <1>0, <2>1, <2>3, GoesOn, ChangedProfile
<1>4. CASE TakeView(a)
  <2> DEFINE view == kept \cup attempt[a].copy.kept
             r == [attempt[a] EXCEPT !.pc = "connect", !.view = view, !.once = once]
  <2>1. Becomes(a, r) /\ UNCHANGED <<profile, once, confirms>> /\ attempt[a].pc = "view"
    BY <1>4 DEF TakeView, At, userVars
  <2> HIDE DEF view
  <2>2. IsAttempt(r) /\ r.pc = "connect" /\ r.held = attempt[a].held
    <3>1. r \in [pc : {"connect"}, kind : {attempt[a].kind}, hop : {attempt[a].hop},
                  copy : {attempt[a].copy}, view : {view}, once : {once}, keys : {attempt[a].keys},
                  method : {attempt[a].method}, oneKey : {attempt[a].oneKey},
                  superseded : {attempt[a].superseded}, held : {attempt[a].held}]
      BY <1>0 DEF IsAttempt
    <3> HIDE DEF r
    <3> QED
      BY <3>1 DEF IsAttempt
  <2> HIDE DEF r
  <2>3. HoldsNothing(r)
    BY <1>0, <2>1, <2>2 DEF HoldsNothing, Holding
  <2> QED
    BY <1>0, <2>1, <2>2, <2>3, GoesOn, ChangedProfile
<1> QED
  BY <1>1, <1>2, <1>3, <1>4

(* One hop.                                                                *)
LEMMA KeySeenKeeps ==
    ASSUME KeptInv, NEW a \in Attempts, NEW pc, KeySeen(a, pc), attempt[a].pc \notin Holding
    PROVE  KeptInv'
<1> DEFINE keys == Append(attempt[a].keys, server[Hop(a)])
           r == [attempt[a] EXCEPT !.pc = pc, !.keys = keys]
<1>0. IsAttempt(attempt[a]) /\ HoldsNothing(attempt[a]) /\ IsProfile(profile)
  BY DEF KeptInv
<1>1. Becomes(a, r) /\ UNCHANGED <<profile, once, confirms>>
  BY DEF KeySeen, userVars
<1> HIDE DEF keys
<1>2. IsAttempt(r) /\ r.held = attempt[a].held
  <2>1. r \in [pc : {pc}, kind : {attempt[a].kind}, hop : {attempt[a].hop}, copy : {attempt[a].copy},
                view : {attempt[a].view}, once : {attempt[a].once}, keys : {keys},
                method : {attempt[a].method}, oneKey : {attempt[a].oneKey},
                superseded : {attempt[a].superseded}, held : {attempt[a].held}]
    BY <1>0 DEF IsAttempt
  <2> HIDE DEF r
  <2> QED
    BY <2>1 DEF IsAttempt
<1> HIDE DEF r
<1>3. HoldsNothing(r)
  BY <1>0, <1>2 DEF HoldsNothing
<1> QED
  BY <1>0, <1>1, <1>2, <1>3, GoesOn, ChangedProfile

LEMMA AuthenticatedKeeps ==
    ASSUME KeptInv, NEW a \in Attempts, NEW method, AuthenticatedBy(a, method),
           attempt[a].pc \notin Holding
    PROVE  KeptInv'
<1> DEFINE r == [attempt[a] EXCEPT !.pc = "persist", !.method = method]
<1>0. IsAttempt(attempt[a]) /\ HoldsNothing(attempt[a]) /\ IsProfile(profile)
  BY DEF KeptInv
<1>1. Becomes(a, r) /\ UNCHANGED <<profile, once, confirms>>
  BY DEF AuthenticatedBy, userVars
<1>2. IsAttempt(r) /\ r.held = attempt[a].held
  <2>1. r \in [pc : {"persist"}, kind : {attempt[a].kind}, hop : {attempt[a].hop},
                copy : {attempt[a].copy}, view : {attempt[a].view}, once : {attempt[a].once},
                keys : {attempt[a].keys}, method : {method}, oneKey : {attempt[a].oneKey},
                superseded : {attempt[a].superseded}, held : {attempt[a].held}]
    BY <1>0 DEF IsAttempt
  <2> HIDE DEF r
  <2> QED
    BY <2>1 DEF IsAttempt
<1> HIDE DEF r
<1>3. HoldsNothing(r)
  BY <1>0, <1>2 DEF HoldsNothing
<1> QED
  BY <1>0, <1>1, <1>2, <1>3, GoesOn, ChangedProfile

LEMMA NextHopKeeps ==
    ASSUME KeptInv, NEW a \in Attempts, PersistJumpKey(a)
    PROVE  KeptInv'
<1> DEFINE hop == attempt[a].hop + 1
           r == [attempt[a] EXCEPT !.pc = "connect", !.hop = hop]
<1>0. IsAttempt(attempt[a]) /\ HoldsNothing(attempt[a]) /\ IsProfile(profile)
  BY DEF KeptInv
<1>1. Becomes(a, r) /\ UNCHANGED <<profile, once, confirms>> /\ attempt[a].pc = "persist"
  BY DEF PersistJumpKey, At
<1> HIDE DEF hop
<1>2. IsAttempt(r) /\ r.held = attempt[a].held
  <2>1. r \in [pc : {"connect"}, kind : {attempt[a].kind}, hop : {hop},
                copy : {attempt[a].copy}, view : {attempt[a].view}, once : {attempt[a].once},
                keys : {attempt[a].keys}, method : {attempt[a].method}, oneKey : {attempt[a].oneKey},
                superseded : {attempt[a].superseded}, held : {attempt[a].held}]
    BY <1>0 DEF IsAttempt
  <2> HIDE DEF r
  <2> QED
    BY <2>1 DEF IsAttempt
<1> HIDE DEF r
<1>3. HoldsNothing(r)
  BY <1>0, <1>1, <1>2 DEF HoldsNothing, Holding
<1> QED
  BY <1>0, <1>1, <1>2, <1>3, GoesOn, ChangedProfile

LEMMA HopKeeps ==
    ASSUME KeptInv, NEW a \in Attempts,
           \/ ConnectJump(a) \/ ConnectTarget(a) \/ LibsshConnect(a) \/ LibsshVerify(a)
           \/ AuthenticateJump(a) \/ AuthenticateTarget(a) \/ LibsshAuthenticate(a)
           \/ PersistJumpKey(a) \/ PersistHostKey(a) \/ OpenTerminal(a) \/ LibsshOpenTerminal(a)
    PROVE  KeptInv'
<1>0. IsProfile(profile)
  BY DEF KeptInv
<1>1. CASE ConnectJump(a) \/ ConnectTarget(a) \/ LibsshConnect(a)
  <2>1. attempt[a].pc = "connect" /\ \E pc : KeySeen(a, pc)
    BY <1>1 DEF ConnectJump, ConnectTarget, LibsshConnect, At
  <2> QED
    BY <2>1, KeySeenKeeps DEF Holding
<1>2. CASE LibsshVerify(a)
  BY <1>0, <1>2, GoesTo, ChangedProfile DEF LibsshVerify, At, userVars, Holding
<1>3. CASE AuthenticateJump(a)
  BY <1>0, <1>3, GoesTo, ChangedProfile DEF AuthenticateJump, At, userVars, Holding
<1>4. CASE AuthenticateTarget(a) \/ LibsshAuthenticate(a)
  <2>1. attempt[a].pc = "auth" /\ \E method : AuthenticatedBy(a, method)
    BY <1>4 DEF AuthenticateTarget, LibsshAuthenticate, At
  <2> QED
    BY <2>1, AuthenticatedKeeps DEF Holding
<1>5. CASE PersistJumpKey(a)
  BY <1>5, NextHopKeeps
<1>6. CASE PersistHostKey(a)
  BY <1>0, <1>6, GoesTo, ChangedProfile DEF PersistHostKey, At, Holding
<1>7. CASE OpenTerminal(a) \/ LibsshOpenTerminal(a)
  <2> DEFINE pc == IF attempt[a].kind = "open" THEN "insert" ELSE "install"
  <2>1. Becomes(a, [attempt[a] EXCEPT !.pc = pc]) /\ attempt[a].pc = "terminal"
        /\ UNCHANGED <<profile, once, confirms>>
    BY <1>7 DEF OpenTerminal, LibsshOpenTerminal, TerminalOpened, At, userVars
  <2> HIDE DEF pc
  <2> QED
    BY <1>0, <2>1, GoesTo, ChangedProfile DEF Holding
<1> QED
  BY <1>1, <1>2, <1>3, <1>4, <1>5, <1>6, <1>7

LEMMA FailureKeeps ==
    ASSUME KeptInv, NEW a \in Attempts,
           HostKeyRejected(a) \/ StepFails(a) \/ PersistRefused(a) \/ ReconnectNotInstalled(a)
    PROVE  KeptInv'
<1>1. /\ Becomes(a, [NoAttempt EXCEPT !.pc = "ended"])
      /\ attempt[a].pc \in {"connect", "verify", "auth", "terminal", "persist", "install"}
      /\ UNCHANGED <<profile, once, confirms>> /\ IsProfile(profile)
  BY DEF HostKeyRejected, StepFails, PersistRefused, ReconnectNotInstalled, Fails, At, userVars, KeptInv
<1> QED
  BY <1>1, EndsEmpty, ChangedProfile DEF Holding

(* The ends.  An attempt that takes the confirmations held none before.    *)
LEMMA Takes ==
    ASSUME KeptInv, NEW a \in Attempts, NEW r, IsAttempt(r), HoldsNothing(r), r.held = once,
           attempt[a].held = {}, Becomes(a, r), once' = {}, UNCHANGED confirms, SameKeptProfile
    PROVE  KeptInv'
<1>1. DOMAIN attempt' = Attempts /\ attempt'[a] = r
      /\ \A b \in Attempts : b # a => attempt'[b] = attempt[b]
  BY DEF KeptInv, Becomes
<1>2. ASSUME ~profile'.gone, NEW n \in 1 .. confirms'
      PROVE  \E b \in Attempts : \E c \in attempt'[b].held : c.n = n
  <2>1. \/ \E c \in once : c.n = n
        \/ \E b \in Attempts : \E c \in attempt[b].held : c.n = n
    BY <1>2 DEF KeptInv, ConfirmationIsKept, SameKeptProfile
  <2>2. CASE \E c \in once : c.n = n
    BY <1>1, <2>2
  <2>3. CASE \E b \in Attempts : \E c \in attempt[b].held : c.n = n
    BY <1>1, <2>3
  <2> QED
    BY <2>1, <2>2, <2>3
<1>3. ConfirmationIsKept'
  BY <1>2 DEF ConfirmationIsKept
<1> QED
  BY <1>1, <1>3 DEF KeptInv, SameKeptProfile

LEMMA EndKeeps ==
    ASSUME KeptInv, NEW a \in Attempts,
           \/ InsertRuntime(a) \/ CommitOpen(a) \/ CommitOpenFails(a) \/ RollBack(a)
           \/ InstallReconnect(a) \/ TakeAfterReconnect(a)
    PROVE  KeptInv'
<1>0. IsAttempt(attempt[a]) /\ HoldsNothing(attempt[a]) /\ IsProfile(profile)
  BY DEF KeptInv
<1>1. CASE InsertRuntime(a)
  <2> DEFINE r == [attempt[a] EXCEPT !.pc = "commit", !.held = once]
  <2>1. /\ Becomes(a, r) /\ once' = {} /\ UNCHANGED <<profile, confirms>>
        /\ attempt[a].pc = "insert"
    BY <1>1 DEF InsertRuntime, TakeOneTimeHostKeys, At, userVars
  <2>2. IsAttempt(r) /\ r.pc = "commit" /\ r.held = once
    <3>1. r \in [pc : {"commit"}, kind : {attempt[a].kind}, hop : {attempt[a].hop},
                  copy : {attempt[a].copy}, view : {attempt[a].view}, once : {attempt[a].once},
                  keys : {attempt[a].keys}, method : {attempt[a].method},
                  oneKey : {attempt[a].oneKey}, superseded : {attempt[a].superseded}, held : {once}]
      BY <1>0 DEF IsAttempt
    <3> HIDE DEF r
    <3> QED
      BY <3>1 DEF IsAttempt
  <2> HIDE DEF r
  <2>3. HoldsNothing(r) /\ attempt[a].held = {}
    BY <1>0, <2>1, <2>2 DEF HoldsNothing, Holding
  <2> QED
    BY <1>0, <2>1, <2>2, <2>3, Takes, ChangedProfile
<1>2. CASE CommitOpen(a)
  <2> DEFINE r == [attempt[a] EXCEPT !.pc = "installed", !.copy = NoCopy, !.view = {}]
  <2>1. /\ Becomes(a, r) /\ UNCHANGED <<once, confirms>>
        /\ profile' = [profile EXCEPT !.last = attempt[a].method]
    BY <1>2 DEF CommitOpen, userVars
  <2>2. IsAttempt(r) /\ r.pc = "installed" /\ r.held = attempt[a].held
    <3>1. r \in [pc : {"installed"}, kind : {attempt[a].kind}, hop : {attempt[a].hop},
                  copy : {NoCopy}, view : {{}}, once : {attempt[a].once},
                  keys : {attempt[a].keys}, method : {attempt[a].method},
                  oneKey : {attempt[a].oneKey}, superseded : {attempt[a].superseded},
                  held : {attempt[a].held}]
      BY <1>0 DEF IsAttempt
    <3> HIDE DEF r
    <3> QED
      BY <3>1 DEF IsAttempt
  <2> HIDE DEF r
  <2>3. HoldsNothing(r)
    BY <2>2 DEF HoldsNothing, Holding
  <2>4. SameKeptProfile
    <3> DEFINE x == attempt[a].method
    <3>1. profile' = [profile EXCEPT !.last = x]
      BY <2>1
    <3> HIDE DEF x
    <3>2. profile' \in [edits : {profile.edits}, last : {x}, removed : {profile.removed},
                        policy : {profile.policy}, gone : {profile.gone}]
      BY <1>0, <3>1 DEF IsProfile
    <3> QED
      BY <3>2, EditedProfile
  <2> QED
    BY <2>1, <2>2, <2>3, <2>4, GoesOn
<1>3. CASE CommitOpenFails(a)
  BY <1>0, <1>3, GoesTo, ChangedProfile DEF CommitOpenFails, userVars, Holding
<1>4. CASE RollBack(a)
  <2> DEFINE r == [NoAttempt EXCEPT !.pc = "ended"]
  <2>1. /\ Becomes(a, r) /\ once' = once \cup attempt[a].held /\ UNCHANGED <<profile, confirms>>
    BY <1>4 DEF RollBack, Fails, RestoreOneTimeHostKeys, userVars
  <2>2. IsAttempt(r) /\ HoldsNothing(r)
    BY DEF IsAttempt, NoAttempt, HoldsNothing, Holding
  <2> HIDE DEF r
  <2>3. DOMAIN attempt' = Attempts /\ attempt'[a] = r
        /\ \A b \in Attempts : b # a => attempt'[b] = attempt[b]
    BY <2>1 DEF KeptInv, Becomes
  <2>4. ConfirmationIsKept'
    BY <2>1, <2>3 DEF KeptInv, ConfirmationIsKept
  <2> QED
    BY <2>1, <2>2, <2>3, <2>4 DEF KeptInv, IsProfile
<1>5. CASE InstallReconnect(a)
  <2>1. SameKeptProfile
    <3> DEFINE x == attempt[a].method
    <3>1. profile' = [profile EXCEPT !.last = x]
      BY <1>5 DEF InstallReconnect
    <3> HIDE DEF x
    <3>2. profile' \in [edits : {profile.edits}, last : {x}, removed : {profile.removed},
                        policy : {profile.policy}, gone : {profile.gone}]
      BY <1>0, <3>1 DEF IsProfile
    <3> QED
      BY <3>2, EditedProfile
  <2> QED
    BY <1>5, <2>1, GoesTo DEF InstallReconnect, At, userVars, Holding
<1>6. CASE TakeAfterReconnect(a)
  <2> DEFINE r == [attempt[a] EXCEPT !.pc = "installed", !.held = once, !.copy = NoCopy, !.view = {}]
  <2>1. /\ Becomes(a, r) /\ once' = {} /\ UNCHANGED <<profile, confirms>>
        /\ attempt[a].pc = "take"
    BY <1>6 DEF TakeAfterReconnect, TakeOneTimeHostKeys, At, userVars
  <2>2. IsAttempt(r) /\ r.pc = "installed" /\ r.held = once
    <3>1. r \in [pc : {"installed"}, kind : {attempt[a].kind}, hop : {attempt[a].hop},
                  copy : {NoCopy}, view : {{}}, once : {attempt[a].once},
                  keys : {attempt[a].keys}, method : {attempt[a].method},
                  oneKey : {attempt[a].oneKey}, superseded : {attempt[a].superseded}, held : {once}]
      BY <1>0 DEF IsAttempt
    <3> HIDE DEF r
    <3> QED
      BY <3>1 DEF IsAttempt
  <2> HIDE DEF r
  <2>3. HoldsNothing(r) /\ attempt[a].held = {}
    BY <1>0, <2>1, <2>2 DEF HoldsNothing, Holding
  <2> QED
    BY <1>0, <2>1, <2>2, <2>3, Takes, ChangedProfile
<1> QED
  BY <1>1, <1>2, <1>3, <1>4, <1>5, <1>6

(* A connection that goes supersedes reconnects; whoever ends by it keeps  *)
(* what it holds.                                                          *)
LEMMA CancelKeeps == ASSUME KeptInv, NEW a \in Attempts, CancelOpen(a) PROVE KeptInv'
<1> DEFINE S == Superseding(attempt)
           r == [NoAttempt EXCEPT !.pc = "ended", !.held = attempt[a].held]
<1>1. attempt' = [S EXCEPT ![a] = r] /\ UNCHANGED <<profile, once, confirms>>
  BY DEF CancelOpen, userVars
<1>2. r.held = attempt[a].held /\ r.pc = "ended" /\ IsAttempt(r)
  <2>1. r \in [pc : {"ended"}, kind : {"open"}, hop : {1}, copy : {NoCopy}, view : {{}}, once : {{}},
                keys : {<<>>}, method : {"none"}, oneKey : {FALSE}, superseded : {FALSE},
                held : {attempt[a].held}]
    BY DEF NoAttempt
  <2> HIDE DEF r
  <2> QED
    BY <2>1 DEF IsAttempt
<1>3. DOMAIN S = Attempts
  BY DEF Superseding
<1>4. \A b \in Attempts : IsAttempt(S[b]) /\ S[b].pc = attempt[b].pc /\ S[b].held = attempt[b].held
  BY SupersededKeeps
<1> HIDE DEF S, r
<1>5. /\ DOMAIN attempt' = Attempts /\ attempt'[a] = r
      /\ \A b \in Attempts \ {a} : attempt'[b] = S[b]
  BY <1>1, <1>3
<1>6. \A b \in Attempts : attempt'[b].held = attempt[b].held
  BY <1>2, <1>4, <1>5
<1>7. \A b \in Attempts : IsAttempt(attempt'[b]) /\ HoldsNothing(attempt'[b])
  BY <1>2, <1>4, <1>5, <1>6 DEF KeptInv, HoldsNothing, Holding
<1>8. ConfirmationIsKept'
  BY <1>1, <1>6 DEF KeptInv, ConfirmationIsKept
<1> QED
  BY <1>1, <1>5, <1>7, <1>8 DEF KeptInv, IsProfile

LEMMA UserKeeps == ASSUME KeptInv, UserStep PROVE KeptInv'
<1>0. IsProfile(profile) /\ confirms \in Nat
  BY DEF KeptInv
<1>1. CASE Close
  <2>1. attempt' = Superseding(attempt) /\ UNCHANGED <<profile, once, confirms>>
    BY <1>1 DEF Close, userVars
  <2>2. DOMAIN attempt' = Attempts
    BY <2>1 DEF Superseding
  <2>3. \A b \in Attempts : /\ IsAttempt(attempt'[b]) /\ attempt'[b].pc = attempt[b].pc
                           /\ attempt'[b].held = attempt[b].held
    BY <2>1, SupersededKeeps
  <2>4. ConfirmationIsKept'
    BY <2>1, <2>3 DEF KeptInv, ConfirmationIsKept
  <2> QED
    BY <2>1, <2>2, <2>3, <2>4 DEF KeptInv, IsProfile, HoldsNothing
<1>2. CASE DeleteProfile
  <2> DEFINE r == [NoAttempt EXCEPT !.pc = "ended"]
  <2>1. /\ profile' = [profile EXCEPT !.gone = TRUE] /\ UNCHANGED confirms
        /\ attempt' = [a \in Attempts |-> IF a \in Opening THEN r ELSE Superseding(attempt)[a]]
    BY <1>2 DEF DeleteProfile, userVars
  <2>2. IsAttempt(r) /\ HoldsNothing(r)
    BY DEF IsAttempt, NoAttempt, HoldsNothing, Holding
  <2> HIDE DEF r
  <2>3. \A b \in Attempts : attempt'[b] = r \/ attempt'[b] = Superseding(attempt)[b]
    BY <2>1
  <2>4. \A b \in Attempts : IsAttempt(attempt'[b]) /\ HoldsNothing(attempt'[b])
    BY <2>2, <2>3, SupersededKeeps DEF KeptInv, HoldsNothing
  <2>5. IsProfile(profile)' /\ profile'.gone
    <3>1. profile' \in [edits : {profile.edits}, last : {profile.last}, removed : {profile.removed},
                         policy : {profile.policy}, gone : {TRUE}]
      BY <1>0, <2>1 DEF IsProfile
    <3> QED
      BY <3>1 DEF IsProfile
  <2> QED
    BY <1>0, <2>1, <2>4, <2>5 DEF KeptInv, ConfirmationIsKept
<1>3. CASE TrustOnce
  <2> DEFINE new == [n |-> confirms + 1, ep |-> scan.ep, key |-> scan.key]
  <2>1. /\ confirms' = confirms + 1 /\ once' = once \cup {new} /\ UNCHANGED <<profile, attempt>>
    BY <1>3 DEF TrustOnce
  <2>2. new.n = confirms + 1
    OBVIOUS
  <2> HIDE DEF new
  <2>3. ASSUME ~profile.gone, NEW n \in 1 .. confirms + 1
        PROVE  \/ \E c \in once' : c.n = n
               \/ \E b \in Attempts : \E c \in attempt[b].held : c.n = n
    <3>1. n = confirms + 1 \/ n \in 1 .. confirms
      BY <1>0
    <3> QED
      BY <2>1, <2>2, <2>3, <3>1 DEF KeptInv, ConfirmationIsKept
  <2>4. ConfirmationIsKept'
    BY <2>1, <2>3 DEF ConfirmationIsKept
  <2> QED
    BY <1>0, <2>1, <2>4 DEF KeptInv, IsProfile
<1>4. CASE UserStep /\ ~Close /\ ~DeleteProfile /\ ~TrustOnce
  <2>1. UNCHANGED <<once, confirms, attempt>> /\ SameKeptProfile
    <3>1. CASE LoseConnection \/ ScanHostKey \/ RejectHostKey \/ ImportKnownHosts
               \/ \E e \in kept : UpdateHostKey(e) \/ DeleteHostKey(e)
      <4> DEFINE x == profile.removed + 1
      <4>1. /\ UNCHANGED <<once, confirms, attempt>>
            /\ profile' = profile \/ profile' = [profile EXCEPT !.removed = x]
        BY <3>1 DEF LoseConnection, ScanHostKey, RejectHostKey, ImportKnownHosts, DeleteHostKey,
                    UpdateHostKey, userVars
      <4> HIDE DEF x
      <4>2. CASE profile' = [profile EXCEPT !.removed = x]
        <5>1. profile' \in [edits : {profile.edits}, last : {profile.last}, removed : {x},
                            policy : {profile.policy}, gone : {profile.gone}]
          BY <1>0, <4>2 DEF IsProfile
        <5> QED
          BY <4>1, <5>1, EditedProfile
      <4> QED
        BY <1>0, <4>1, <4>2, ChangedProfile
    <3>2. CASE RotateServerKey
      <4>1. UNCHANGED <<once, confirms, attempt, profile>>
        BY <3>2, Zenon DEF RotateServerKey, userVars
      <4> QED
        BY <1>0, <4>1, ChangedProfile
    <3>3. CASE EditProfile
      <4>1. PICK p : profile' = [profile EXCEPT !.edits = profile.edits + 1, !.policy = p]
        BY <3>3, Zenon DEF EditProfile
      <4> DEFINE x == profile.edits + 1
      <4>2. profile' = [profile EXCEPT !.edits = x, !.policy = p]
        BY <4>1
      <4>3. UNCHANGED <<once, confirms, attempt>>
        BY <3>3, Zenon DEF EditProfile, userVars
      <4> HIDE DEF x
      <4>4. profile' \in [edits : {x}, last : {profile.last}, removed : {profile.removed},
                          policy : {p}, gone : {profile.gone}]
        BY <1>0, <4>2 DEF IsProfile
      <4> QED
        BY <4>3, <4>4, EditedProfile
    <3>4. ASSUME NEW decision, TrustAlways(decision)
          PROVE  UNCHANGED <<once, confirms, attempt>> /\ SameKeptProfile
      <4> DEFINE x == profile.removed + 1
      <4>1. /\ UNCHANGED <<once, confirms, attempt>>
            /\ profile' = profile \/ profile' = [profile EXCEPT !.removed = x]
        BY <3>4 DEF TrustAlways
      <4> HIDE DEF x
      <4>2. CASE profile' = [profile EXCEPT !.removed = x]
        <5>1. profile' \in [edits : {profile.edits}, last : {profile.last}, removed : {x},
                            policy : {profile.policy}, gone : {profile.gone}]
          BY <1>0, <4>2 DEF IsProfile
        <5> QED
          BY <4>1, <5>1, EditedProfile
      <4> QED
        BY <1>0, <4>1, <4>2, ChangedProfile
    <3> QED
      BY <1>4, <3>1, <3>2, <3>3, <3>4 DEF UserStep
  <2> QED
    BY <2>1 DEF KeptInv, ConfirmationIsKept, SameKeptProfile
<1> QED
  BY <1>1, <1>2, <1>3, <1>4

LEMMA KeptInit == Init => KeptInv
<1> SUFFICES ASSUME Init PROVE KeptInv
  OBVIOUS
<1>1. confirms = 0 /\ attempt = [a \in Attempts |-> NoAttempt]
  BY DEF Init
<1>2. PICK p \in Policies :
        profile = [edits |-> 0, last |-> "none", removed |-> 0, policy |-> p, gone |-> FALSE]
  BY DEF Init
<1>3. IsProfile(profile)
  BY <1>2 DEF IsProfile
<1>4. IsAttempt(NoAttempt) /\ HoldsNothing(NoAttempt)
  BY DEF IsAttempt, HoldsNothing, NoAttempt
<1> QED
  BY <1>1, <1>3, <1>4 DEF KeptInv, ConfirmationIsKept

LEMMA KeptStep == KeptInv /\ [Next]_vars => KeptInv'
<1> SUFFICES ASSUME KeptInv, [Next]_vars PROVE KeptInv'
  OBVIOUS
<1>1. CASE UserStep
  BY <1>1, UserKeeps
<1>2. ASSUME NEW a \in Attempts, AttemptStep(a) PROVE KeptInv'
  BY <1>2, BeginKeeps, HopKeeps, FailureKeeps, EndKeeps, CancelKeeps DEF AttemptStep
<1>3. CASE UNCHANGED vars
  BY <1>3 DEF vars, KeptInv, IsProfile, ConfirmationIsKept
<1> QED
  BY <1>1, <1>2, <1>3 DEF Next

(* No confirmation is lost by an open that fails, is superseded or         *)
(* cancelled at whatever point: it waits for the next attempt, or is held  *)
(* by the one that took it, for any number of attempts and any chain of    *)
(* hosts (take_one_time_host_keys and its roll-back).                      *)
THEOREM ConfirmationsAreNotLost == Spec => []ConfirmationIsKept
<1>1. KeptInv => ConfirmationIsKept
  BY DEF KeptInv
<1> QED
  BY <1>1, KeptInit, KeptStep, PTL DEF Spec
----------------------------------------------------------------------------
(* The keys behind a connection.                                           *)

(* What an attempt that is on its way knows of the hops behind it: their   *)
(* keys, in order; and as long as no key was removed since it took its     *)
(* copy of the profile, each of them is kept or was confirmed.  K stands   *)
(* for the kept keys, n for the number of removals.                        *)
OnItsWay == {"begun", "view", "connect", "verify", "auth", "persist"}
Ignores(r) == r.kind = "reconnect" /\ r.copy.policy.ignore
IsSeq(s) == \E S : s \in Seq(S)
Behind(r, K) ==
    \A i \in 1 .. r.hop - 1 :
        \/ <<Hops[i], r.keys[i]>> \in K
        \/ r.keys[i] \in Confirmed(r.once, Hops[i])

ChainFits(r, K, n) ==
    r.pc \in OnItsWay =>
        /\ r.hop \in Nat \ {0} /\ IsSeq(r.keys)
        /\ r.pc \in {"begun", "view"} => r.hop = 1
        /\ Len(r.keys) = IF r.pc \in {"verify", "auth", "persist"} THEN r.hop ELSE r.hop - 1
        /\ r.copy.removed \in Nat /\ r.copy.removed <= n
        /\ r.copy.removed = n /\ ~Ignores(r) => Behind(r, K)

KeptPairs == \A e \in kept : e = <<e[1], e[2]>>

ChainInv ==
    /\ profile.removed \in Nat /\ KeptPairs
    /\ \A a \in Attempts : ChainFits(attempt[a], kept, profile.removed)

(* The numbers of confirmations.                                           *)
Numbers(S) == {c.n : c \in S}
Settled == {"idle", "ended", "installed"}
Moves(r) == r.pc \notin Settled

(* The steps that only an open reaches; it is never superseded.            *)
KindFits(r) ==
    /\ r.pc \in PCs
    /\ r.pc \in {"begun", "insert", "commit", "rollback"} => r.kind = "open"
    /\ r.pc \in {"install", "take"} => r.kind = "reconnect"
    /\ r.kind = "open" => r.superseded = FALSE
    /\ r.kind \in {"open", "reconnect"}

(* A reconnect that an open has found under way cannot be installed.       *)
Alone(r, s) ==
    Moves(r) /\ r.kind = "open" /\ Moves(s) =>
        /\ s.kind # "open"
        /\ r.pc # "begun" => s.superseded = TRUE \/ s.pc = "take"

(* What an open has taken nobody has who could still be installed, and     *)
(* nobody can give it back.                                                *)
HasTaken(r) == r.kind = "open" /\ r.pc \in {"commit", "installed"}
Apart(r, s) ==
    HasTaken(r) /\ Moves(s) /\ s.pc # "take" /\ ~s.superseded =>
        Numbers(r.once) \cap (Numbers(s.once) \cup Numbers(s.held)) = {}

OnceInv ==
    /\ \A a \in Attempts : KindFits(attempt[a])
    /\ \A a, b \in Attempts : a # b => Alone(attempt[a], attempt[b]) /\ Apart(attempt[a], attempt[b])
    /\ Numbers(once) \subseteq 1 .. confirms
    /\ \A a \in Attempts : Numbers(attempt[a].once) \cup Numbers(attempt[a].held) \subseteq 1 .. confirms
    /\ \A a \in Attempts : HasTaken(attempt[a]) => Numbers(attempt[a].once) \cap Numbers(once) = {}

(* All that these invariants speak of, but for the place of the attempt.   *)
Same(r, s) ==
    /\ s.kind = r.kind /\ s.hop = r.hop /\ s.keys = r.keys /\ s.once = r.once
    /\ s.held = r.held /\ s.copy = r.copy /\ s.superseded = r.superseded

(* The steps of an attempt that another does not feel.  O and P are the    *)
(* confirmations that wait, before and after.                              *)
Onward(r, s) ==
    /\ Same(r, s)
    /\ \/ r.pc = "verify" /\ s.pc = "auth"
       \/ r.pc = "auth" /\ s.pc = "persist"
       \/ r.pc = "persist" /\ s.pc = "terminal"
       \/ r.pc = "terminal" /\ r.kind = "open" /\ s.pc = "insert"
       \/ r.pc = "terminal" /\ r.kind # "open" /\ s.pc = "install"
       \/ r.pc = "commit" /\ s.pc = "rollback"
       \/ r.pc = "install" /\ s.pc = "take" /\ ~r.superseded

Retains(r, s) == s.kind = r.kind /\ s.once = r.once /\ s.held = r.held /\ s.superseded = r.superseded
Sees(r, s) ==
    /\ r.pc = "connect" /\ s.pc \in {"verify", "auth"}
    /\ Retains(r, s) /\ s.hop = r.hop /\ s.copy = r.copy
    /\ \E key : s.keys = Append(r.keys, key)
Proceeds(r, s) ==
    /\ r.pc = "persist" /\ s.pc = "connect"
    /\ Retains(r, s) /\ s.hop = r.hop + 1 /\ s.copy = r.copy /\ s.keys = r.keys
Commits(r, s) == r.pc = "commit" /\ s.pc = "installed" /\ Retains(r, s)
Views(r, s, O) ==
    /\ r.pc = "view" /\ s.pc = "connect"
    /\ s.kind = r.kind /\ s.hop = r.hop /\ s.keys = r.keys /\ s.copy = r.copy
    /\ s.held = r.held /\ s.superseded = r.superseded /\ s.once = O
Collects(r, s, O) ==
    /\ \/ r.pc = "insert" /\ s.pc = "commit"
       \/ r.pc = "take" /\ s.pc = "installed"
    /\ s.kind = r.kind /\ s.once = r.once /\ s.held = O /\ s.superseded = r.superseded
Ends(r, s) ==
    /\ r.pc \notin {"idle", "begun", "view", "insert", "commit", "take", "ended", "installed"}
    /\ s.pc = "ended" /\ s.kind = "open" /\ s.once = {} /\ s.held = {} /\ s.superseded = FALSE

Moved(r, s, O, P) ==
    \/ P = O /\ (Onward(r, s) \/ Sees(r, s) \/ Proceeds(r, s) \/ Commits(r, s) \/ Views(r, s, O))
    \/ P = O /\ Ends(r, s) /\ r.pc # "rollback"
    \/ P = {} /\ Collects(r, s, O)
    \/ P = O \cup r.held /\ Ends(r, s) /\ r.pc = "rollback"

(* Every step: keys are only removed where the removals are counted.       *)
Grows ==
    /\ profile.removed \in Nat /\ profile'.removed \in Nat /\ profile.removed <= profile'.removed
    /\ profile'.removed = profile.removed => kept \subseteq kept'

LEMMA GrowsByKey == ASSUME NEW a \in Attempts, KeepKey(a) PROVE kept \subseteq kept'
  BY DEF KeepKey, Decided

LEMMA RemovalsCounted ==
    ASSUME IsProfile(profile), profile.removed \in Nat, [Next]_vars
    PROVE  Grows
<1>1. ASSUME UNCHANGED profile, kept \subseteq kept' PROVE Grows
  BY <1>1 DEF Grows
<1>2. ASSUME profile' = [profile EXCEPT !.removed = profile.removed + 1] PROVE Grows
  <2> DEFINE x == profile.removed + 1
  <2>1. profile' = [profile EXCEPT !.removed = x] /\ x \in Nat /\ x > profile.removed
    BY <1>2
  <2> HIDE DEF x
  <2>2. profile' \in [edits : {profile.edits}, last : {profile.last}, removed : {x},
                      policy : {profile.policy}, gone : {profile.gone}]
    BY <2>1 DEF IsProfile
  <2> QED
    BY <2>1, <2>2 DEF Grows
<1>3. ASSUME NEW m, profile' = [profile EXCEPT !.last = m] \/ profile' = [profile EXCEPT !.gone = m],
             UNCHANGED kept
      PROVE Grows
  <2>1. profile' \in [edits : {profile.edits}, last : {profile.last, m}, removed : {profile.removed},
                      policy : {profile.policy}, gone : {profile.gone, m}]
    BY <1>3 DEF IsProfile
  <2> QED
    BY <1>3, <2>1 DEF Grows
<1>4. CASE UNCHANGED vars
  BY <1>1, <1>4 DEF vars
<1>5. ASSUME NEW a \in Attempts, AttemptStep(a) PROVE Grows
  <2>1. CASE CommitOpen(a) \/ InstallReconnect(a)
    <3> DEFINE m == attempt[a].method
    <3>1. profile' = [profile EXCEPT !.last = m] /\ UNCHANGED kept
      BY <2>1 DEF CommitOpen, InstallReconnect
    <3> HIDE DEF m
    <3> QED
      BY <1>3, <3>1
  <2>2. CASE PersistJumpKey(a) \/ PersistHostKey(a)
    BY <1>1, <2>2, GrowsByKey DEF PersistJumpKey, PersistHostKey
  <2>3. CASE BeginOpen(a)
    <3>1. UNCHANGED <<profile, kept>>
      BY <2>3, Zenon DEF BeginOpen
    <3> QED
      BY <1>1, <3>1
  <2>4. CASE AuthenticateTarget(a) \/ LibsshAuthenticate(a) \/ StepFails(a)
    <3>1. UNCHANGED <<profile, kept>>
      BY <2>4, Zenon DEF AuthenticateTarget, LibsshAuthenticate, AuthenticatedBy, StepFails
    <3> QED
      BY <1>1, <3>1
  <2>5. CASE \/ DropRuntime(a) \/ BeginReconnect(a) \/ TakeView(a) \/ ConnectJump(a)
             \/ ConnectTarget(a) \/ LibsshConnect(a) \/ LibsshVerify(a) \/ HostKeyRejected(a)
    <3>1. UNCHANGED <<profile, kept>>
      BY <2>5 DEF DropRuntime, BeginReconnect, TakeView, ConnectJump, ConnectTarget, LibsshConnect,
                  LibsshVerify, HostKeyRejected, KeySeen
    <3> QED
      BY <1>1, <3>1
  <2>6. CASE \/ AuthenticateJump(a) \/ PersistRefused(a) \/ OpenTerminal(a) \/ LibsshOpenTerminal(a)
             \/ InsertRuntime(a) \/ CommitOpenFails(a) \/ RollBack(a)
             \/ ReconnectNotInstalled(a) \/ TakeAfterReconnect(a) \/ CancelOpen(a)
    <3>1. UNCHANGED <<profile, kept>>
      BY <2>6 DEF AuthenticateJump, PersistRefused, OpenTerminal, LibsshOpenTerminal, InsertRuntime,
                  CommitOpenFails, RollBack, ReconnectNotInstalled, TakeAfterReconnect, CancelOpen,
                  TerminalOpened
    <3> QED
      BY <1>1, <3>1
  <2> QED
    BY <1>5, <2>1, <2>2, <2>3, <2>4, <2>5, <2>6 DEF AttemptStep
<1>6. CASE UserStep
  <2>1. CASE Close \/ LoseConnection \/ ScanHostKey \/ RejectHostKey \/ TrustOnce
    <3>1. UNCHANGED <<profile, kept>>
      BY <2>1 DEF Close, LoseConnection, ScanHostKey, RejectHostKey, TrustOnce
    <3> QED
      BY <1>1, <3>1
  <2>2. CASE RotateServerKey
    <3>1. UNCHANGED <<profile, kept>>
      BY <2>2, Zenon DEF RotateServerKey
    <3> QED
      BY <1>1, <3>1
  <2>3. CASE EditProfile
    <3>1. PICK p : profile' = [profile EXCEPT !.edits = profile.edits + 1, !.policy = p]
      BY <2>3, Zenon DEF EditProfile
    <3> DEFINE x == profile.edits + 1
    <3>2. profile' = [profile EXCEPT !.edits = x, !.policy = p]
      BY <3>1
    <3>3. UNCHANGED kept
      BY <2>3, Zenon DEF EditProfile
    <3> HIDE DEF x
    <3>4. profile' \in [edits : {x}, last : {profile.last}, removed : {profile.removed},
                        policy : {p}, gone : {profile.gone}]
      BY <3>2 DEF IsProfile
    <3> QED
      BY <3>3, <3>4 DEF Grows
  <2>4. CASE DeleteProfile
    <3>1. profile' = [profile EXCEPT !.gone = TRUE] /\ UNCHANGED kept
      BY <2>4 DEF DeleteProfile
    <3> QED
      BY <1>3, <3>1
  <2>5. ASSUME NEW decision, TrustAlways(decision) PROVE Grows
    BY <1>1, <1>2, <2>5 DEF TrustAlways
  <2>6. ASSUME NEW e \in kept, DeleteHostKey(e) \/ UpdateHostKey(e) PROVE Grows
    BY <1>2, <2>6 DEF DeleteHostKey, UpdateHostKey
  <2>7. CASE ImportKnownHosts
    <3>1. UNCHANGED profile /\ \E x : kept' = kept \cup {x}
      BY <2>7 DEF ImportKnownHosts
    <3> QED
      BY <1>1, <3>1
  <2> QED
    BY <1>6, <2>1, <2>2, <2>3, <2>4, <2>5, <2>6, <2>7 DEF UserStep
<1> QED
  BY <1>4, <1>5, <1>6 DEF Next

(* An attempt that stays where it is, or leaves its way, still fits.       *)
LEMMA ChainStays ==
    ASSUME NEW r, NEW s, NEW K, NEW L, NEW n \in Nat, NEW m \in Nat,
           ChainFits(r, K, n), n <= m, m = n => K \subseteq L,
           s.pc = r.pc \/ s.pc \notin OnItsWay,
           s.kind = r.kind, s.hop = r.hop, s.keys = r.keys, s.once = r.once, s.copy = r.copy
    PROVE  ChainFits(s, L, m)
  BY DEF ChainFits, Ignores, Behind

(* It goes on with the keys it has.                                        *)
LEMMA ChainGoesOn ==
    ASSUME NEW r, NEW s, NEW K, NEW L, NEW n \in Nat, NEW m \in Nat,
           ChainFits(r, K, n), n <= m, m = n => K \subseteq L,
           r.pc \in {"verify", "auth", "persist"}, s.pc \in {"verify", "auth", "persist"},
           s.kind = r.kind, s.hop = r.hop, s.keys = r.keys, s.once = r.once, s.copy = r.copy
    PROVE  ChainFits(s, L, m)
  BY DEF ChainFits, Ignores, Behind, OnItsWay

(* It takes its copy, and then its view.                                   *)
LEMMA ChainBegins ==
    ASSUME NEW s, NEW L, NEW m \in Nat, s.pc \in {"begun", "view", "connect"}, s.hop = 1, s.keys = <<>>,
           s.copy.removed \in Nat, s.copy.removed <= m
    PROVE  ChainFits(s, L, m)
<1>1. IsSeq(s.keys)
  BY DEF IsSeq
<1>2. Behind(s, L)
  BY DEF Behind
<1> QED
  BY <1>1, <1>2 DEF ChainFits, OnItsWay

(* It sees the key of the next hop.                                        *)
LEMMA ChainSees ==
    ASSUME NEW r, NEW s, NEW K, NEW n \in Nat, NEW key,
           ChainFits(r, K, n), r.pc = "connect", s.pc \in {"verify", "auth"},
           s.kind = r.kind, s.hop = r.hop, s.keys = Append(r.keys, key), s.once = r.once, s.copy = r.copy
    PROVE  ChainFits(s, K, n)
<1>1. r.hop \in Nat \ {0} /\ Len(r.keys) = r.hop - 1
  BY DEF ChainFits, OnItsWay
<1>2. PICK S : r.keys \in Seq(S)
  BY DEF ChainFits, OnItsWay, IsSeq
<1>3. r.keys \in Seq(S \cup {key})
  BY <1>2
<1>4. s.keys \in Seq(S \cup {key}) /\ Len(s.keys) = r.hop
      /\ \A i \in 1 .. r.hop - 1 : s.keys[i] = r.keys[i]
  BY <1>1, <1>3
<1>5. IsSeq(s.keys)
  BY <1>4 DEF IsSeq
<1>6. Behind(r, K) => Behind(s, K)
  BY <1>4 DEF Behind
<1> QED
  BY <1>1, <1>4, <1>5, <1>6 DEF ChainFits, OnItsWay, Ignores

(* It leaves a hop whose key is kept or was confirmed.                     *)
LEMMA ChainLeaves ==
    ASSUME NEW r, NEW s, NEW K, NEW L, NEW n \in Nat,
           ChainFits(r, K, n), K \subseteq L, r.pc = "persist", s.pc = "connect",
           s.kind = r.kind, s.hop = r.hop + 1, s.keys = r.keys, s.once = r.once, s.copy = r.copy,
           ~Ignores(r) => \/ <<Hops[r.hop], r.keys[r.hop]>> \in L
                          \/ r.keys[r.hop] \in Confirmed(r.once, Hops[r.hop])
    PROVE  ChainFits(s, L, n)
<1>1. r.hop \in Nat \ {0} /\ Len(r.keys) = r.hop
  BY DEF ChainFits, OnItsWay
<1>2. Behind(r, K) /\ ~Ignores(r) => Behind(s, L)
  <2> SUFFICES ASSUME Behind(r, K), ~Ignores(r), NEW i \in 1 .. s.hop - 1
               PROVE  \/ <<Hops[i], s.keys[i]>> \in L
                      \/ s.keys[i] \in Confirmed(s.once, Hops[i])
    BY DEF Behind
  <2>1. i = r.hop \/ i \in 1 .. r.hop - 1
    BY <1>1
  <2> QED
    BY <2>1 DEF Behind
<1> QED
  BY <1>1, <1>2 DEF ChainFits, OnItsWay, Ignores

(* What persist_observed_host_key did not refuse is kept or was confirmed. *)
LEMMA PersistedIsTrusted ==
    ASSUME KeptPairs, NEW a \in Attempts, PersistOutcome(a) # "refused", KeepKey(a), ~Ignore(a)
    PROVE  \/ <<Hop(a), Last(attempt[a].keys)>> \in kept'
           \/ Last(attempt[a].keys) \in Confirmed(attempt[a].once, Hop(a))
<1> DEFINE key == Last(attempt[a].keys)
<1>1. CASE PersistOutcome(a) = "added"
  BY <1>1 DEF KeepKey, Decided
<1>2. CASE PersistOutcome(a) # "added"
  <2>1. kept' = kept
    BY <1>2 DEF KeepKey
  <2>2. \/ key \in Confirmed(attempt[a].once, Hop(a))
        \/ Evaluate(profile.policy, kept, {}, Hop(a), key) = "kept"
    BY <1>2 DEF PersistOutcome, Persisted, IgnoresChange
  <2>3. CASE Evaluate(profile.policy, kept, {}, Hop(a), key) = "kept"
    <3>1. key \in KeysOf(kept, Hop(a))
      BY <2>3 DEF Evaluate
    <3>2. PICK e \in kept : e[1] = Hop(a) /\ e[2] = key
      BY <3>1 DEF KeysOf
    <3>3. e = <<Hop(a), key>>
      BY <3>2 DEF KeptPairs
    <3> QED
      BY <2>1, <3>3
  <2> QED
    BY <2>2, <2>3
<1> QED
  BY <1>1, <1>2

(* The step of an attempt that another does not feel.                      *)
LEMMA Becoming ==
    ASSUME KeptInv, NEW a \in Attempts, NEW r, Becomes(a, r)
    PROVE  attempt'[a] = r /\ \A b \in Attempts \ {a} : attempt'[b] = attempt[b]
  BY DEF KeptInv, Becomes

LEMMA BecomesAt ==
    ASSUME KeptInv, NEW a \in Attempts, NEW pc, Becomes(a, [attempt[a] EXCEPT !.pc = pc])
    PROVE  /\ Same(attempt[a], attempt'[a]) /\ attempt'[a].pc = pc
           /\ \A b \in Attempts \ {a} : attempt'[b] = attempt[b]
<1> DEFINE r == [attempt[a] EXCEPT !.pc = pc]
<1>1. IsAttempt(attempt[a]) /\ Becomes(a, r)
  BY DEF KeptInv
<1>2. Same(attempt[a], r) /\ r.pc = pc
  BY <1>1 DEF IsAttempt, Same
<1> HIDE DEF r
<1> QED
  BY <1>1, <1>2, Becoming

LEMMA FailsAt ==
    ASSUME KeptInv, NEW a \in Attempts, Becomes(a, [NoAttempt EXCEPT !.pc = "ended"])
    PROVE  /\ attempt'[a].pc = "ended" /\ attempt'[a].kind = "open" /\ attempt'[a].superseded = FALSE
           /\ attempt'[a].once = {} /\ attempt'[a].held = {}
           /\ \A b \in Attempts \ {a} : attempt'[b] = attempt[b]
<1> DEFINE r == [NoAttempt EXCEPT !.pc = "ended"]
<1>1. r.pc = "ended" /\ r.kind = "open" /\ r.superseded = FALSE /\ r.once = {} /\ r.held = {}
  BY DEF NoAttempt
<1>2. Becomes(a, r)
  OBVIOUS
<1> HIDE DEF r
<1> QED
  BY <1>1, <1>2, Becoming

LEMMA HopMoves ==
    ASSUME KeptInv, NEW a \in Attempts,
           \/ ConnectJump(a) \/ ConnectTarget(a) \/ LibsshConnect(a) \/ LibsshVerify(a)
           \/ AuthenticateJump(a) \/ AuthenticateTarget(a) \/ LibsshAuthenticate(a)
           \/ PersistJumpKey(a) \/ PersistHostKey(a) \/ OpenTerminal(a) \/ LibsshOpenTerminal(a)
    PROVE  /\ Moved(attempt[a], attempt'[a], once, once')
           /\ \A b \in Attempts \ {a} : attempt'[b] = attempt[b]
<1>0. IsAttempt(attempt[a])
  BY DEF KeptInv
<1>1. ASSUME NEW pc \in {"verify", "auth"}, KeySeen(a, pc), At(a, "connect")
      PROVE  /\ Moved(attempt[a], attempt'[a], once, once')
             /\ \A b \in Attempts \ {a} : attempt'[b] = attempt[b]
  <2> DEFINE key == server[Hop(a)]
             keys == Append(attempt[a].keys, key)
             r == [attempt[a] EXCEPT !.pc = pc, !.keys = keys]
  <2>1. Becomes(a, r) /\ once' = once /\ attempt[a].pc = "connect"
    BY <1>1 DEF KeySeen, At
  <2>2. \E k : keys = Append(attempt[a].keys, k)
    OBVIOUS
  <2> HIDE DEF keys
  <2>3. r \in [pc : {pc}, kind : {attempt[a].kind}, hop : {attempt[a].hop}, copy : {attempt[a].copy},
                view : {attempt[a].view}, once : {attempt[a].once}, keys : {keys},
                method : {attempt[a].method}, oneKey : {attempt[a].oneKey},
                superseded : {attempt[a].superseded}, held : {attempt[a].held}]
    BY <1>0 DEF IsAttempt
  <2> HIDE DEF r
  <2>4. Sees(attempt[a], r)
    BY <2>1, <2>2, <2>3 DEF Sees, Retains
  <2> QED
    BY <2>1, <2>4, Becoming DEF Moved
<1>2. ASSUME NEW method, AuthenticatedBy(a, method), At(a, "auth")
      PROVE  /\ Moved(attempt[a], attempt'[a], once, once')
             /\ \A b \in Attempts \ {a} : attempt'[b] = attempt[b]
  <2> DEFINE r == [attempt[a] EXCEPT !.pc = "persist", !.method = method]
  <2>1. Becomes(a, r) /\ once' = once /\ attempt[a].pc = "auth"
    BY <1>2 DEF AuthenticatedBy, At
  <2>2. r \in [pc : {"persist"}, kind : {attempt[a].kind}, hop : {attempt[a].hop},
                copy : {attempt[a].copy}, view : {attempt[a].view}, once : {attempt[a].once},
                keys : {attempt[a].keys}, method : {method}, oneKey : {attempt[a].oneKey},
                superseded : {attempt[a].superseded}, held : {attempt[a].held}]
    BY <1>0 DEF IsAttempt
  <2> HIDE DEF r
  <2>3. Onward(attempt[a], r)
    BY <2>1, <2>2 DEF Onward, Same
  <2> QED
    BY <2>1, <2>3, Becoming DEF Moved
<1>3. CASE ConnectJump(a) \/ ConnectTarget(a) \/ LibsshConnect(a)
  BY <1>1, <1>3 DEF ConnectJump, ConnectTarget, LibsshConnect
<1>4. CASE AuthenticateTarget(a) \/ LibsshAuthenticate(a)
  <2>1. At(a, "auth") /\ \E method : AuthenticatedBy(a, method)
    BY <1>4 DEF AuthenticateTarget, LibsshAuthenticate
  <2> QED
    BY <1>2, <2>1
<1>5. CASE PersistJumpKey(a)
  <2> DEFINE hop == attempt[a].hop + 1
             r == [attempt[a] EXCEPT !.pc = "connect", !.hop = hop]
  <2>1. Becomes(a, r) /\ once' = once /\ attempt[a].pc = "persist"
    BY <1>5 DEF PersistJumpKey, At
  <2>2. hop = attempt[a].hop + 1
    OBVIOUS
  <2> HIDE DEF hop
  <2>3. r \in [pc : {"connect"}, kind : {attempt[a].kind}, hop : {hop},
                copy : {attempt[a].copy}, view : {attempt[a].view}, once : {attempt[a].once},
                keys : {attempt[a].keys}, method : {attempt[a].method}, oneKey : {attempt[a].oneKey},
                superseded : {attempt[a].superseded}, held : {attempt[a].held}]
    BY <1>0 DEF IsAttempt
  <2> HIDE DEF r
  <2>4. Proceeds(attempt[a], r)
    BY <2>1, <2>2, <2>3 DEF Proceeds, Retains
  <2> QED
    BY <2>1, <2>4, Becoming DEF Moved
<1>6. CASE LibsshVerify(a) \/ AuthenticateJump(a) \/ PersistHostKey(a) \/ OpenTerminal(a) \/ LibsshOpenTerminal(a)
  <2>1. PICK pc : /\ Becomes(a, [attempt[a] EXCEPT !.pc = pc]) /\ once' = once
                  /\ \/ attempt[a].pc = "verify" /\ pc = "auth"
                     \/ attempt[a].pc = "auth" /\ pc = "persist"
                     \/ attempt[a].pc = "persist" /\ pc = "terminal"
                     \/ attempt[a].pc = "terminal" /\ attempt[a].kind = "open" /\ pc = "insert"
                     \/ attempt[a].pc = "terminal" /\ attempt[a].kind # "open" /\ pc = "install"
    BY <1>6 DEF LibsshVerify, AuthenticateJump, PersistHostKey, OpenTerminal, LibsshOpenTerminal,
                TerminalOpened, At
  <2>2. Onward(attempt[a], attempt'[a])
    BY <2>1, BecomesAt DEF Onward
  <2> QED
    BY <2>1, <2>2, BecomesAt DEF Moved
<1> QED
  BY <1>3, <1>4, <1>5, <1>6

LEMMA EndMoves ==
    ASSUME KeptInv, NEW a \in Attempts,
           \/ TakeView(a) \/ HostKeyRejected(a) \/ StepFails(a) \/ PersistRefused(a)
           \/ InsertRuntime(a) \/ CommitOpen(a) \/ CommitOpenFails(a) \/ RollBack(a)
           \/ InstallReconnect(a) \/ ReconnectNotInstalled(a) \/ TakeAfterReconnect(a)
    PROVE  /\ Moved(attempt[a], attempt'[a], once, once')
           /\ \A b \in Attempts \ {a} : attempt'[b] = attempt[b]
<1>0. IsAttempt(attempt[a])
  BY DEF KeptInv
<1>1. CASE TakeView(a)
  <2> DEFINE view == kept \cup attempt[a].copy.kept
             r == [attempt[a] EXCEPT !.pc = "connect", !.view = view, !.once = once]
  <2>1. Becomes(a, r) /\ once' = once /\ attempt[a].pc = "view"
    BY <1>1 DEF TakeView, At
  <2> HIDE DEF view
  <2>2. r \in [pc : {"connect"}, kind : {attempt[a].kind}, hop : {attempt[a].hop},
                copy : {attempt[a].copy}, view : {view}, once : {once}, keys : {attempt[a].keys},
                method : {attempt[a].method}, oneKey : {attempt[a].oneKey},
                superseded : {attempt[a].superseded}, held : {attempt[a].held}]
    BY <1>0 DEF IsAttempt
  <2> HIDE DEF r
  <2>3. Views(attempt[a], r, once)
    BY <2>1, <2>2 DEF Views
  <2> QED
    BY <2>1, <2>3, Becoming DEF Moved
<1>2. CASE HostKeyRejected(a) \/ StepFails(a) \/ PersistRefused(a) \/ ReconnectNotInstalled(a)
  <2>1. /\ Becomes(a, [NoAttempt EXCEPT !.pc = "ended"]) /\ once' = once
        /\ attempt[a].pc \in {"connect", "verify", "auth", "terminal", "persist", "install"}
    BY <1>2 DEF HostKeyRejected, StepFails, PersistRefused, ReconnectNotInstalled, Fails, At
  <2>2. Ends(attempt[a], attempt'[a])
    BY <2>1, FailsAt DEF Ends
  <2> QED
    BY <2>1, <2>2, FailsAt DEF Moved
<1>3. CASE RollBack(a)
  <2>1. /\ Becomes(a, [NoAttempt EXCEPT !.pc = "ended"]) /\ once' = once \cup attempt[a].held
        /\ attempt[a].pc = "rollback"
    BY <1>3 DEF RollBack, RestoreOneTimeHostKeys, Fails, At
  <2>2. Ends(attempt[a], attempt'[a])
    BY <2>1, FailsAt DEF Ends
  <2> QED
    BY <2>1, <2>2, FailsAt DEF Moved
<1>4. CASE CommitOpenFails(a) \/ InstallReconnect(a)
  <2>1. PICK pc : /\ Becomes(a, [attempt[a] EXCEPT !.pc = pc]) /\ once' = once
                  /\ \/ attempt[a].pc = "commit" /\ pc = "rollback"
                     \/ attempt[a].pc = "install" /\ pc = "take" /\ ~attempt[a].superseded
    BY <1>4 DEF CommitOpenFails, InstallReconnect, At
  <2>2. Onward(attempt[a], attempt'[a])
    BY <2>1, BecomesAt DEF Onward
  <2> QED
    BY <2>1, <2>2, BecomesAt DEF Moved
<1>5. CASE InsertRuntime(a)
  <2> DEFINE r == [attempt[a] EXCEPT !.pc = "commit", !.held = once]
  <2>1. Becomes(a, r) /\ once' = {} /\ attempt[a].pc = "insert"
    BY <1>5 DEF InsertRuntime, TakeOneTimeHostKeys, At
  <2>2. r \in [pc : {"commit"}, kind : {attempt[a].kind}, hop : {attempt[a].hop},
                  copy : {attempt[a].copy}, view : {attempt[a].view}, once : {attempt[a].once},
                  keys : {attempt[a].keys}, method : {attempt[a].method},
                  oneKey : {attempt[a].oneKey}, superseded : {attempt[a].superseded}, held : {once}]
    BY <1>0 DEF IsAttempt
  <2> HIDE DEF r
  <2>3. Collects(attempt[a], r, once)
    BY <2>1, <2>2 DEF Collects
  <2> QED
    BY <2>1, <2>3, Becoming DEF Moved
<1>6. CASE TakeAfterReconnect(a)
  <2> DEFINE r == [attempt[a] EXCEPT !.pc = "installed", !.held = once, !.copy = NoCopy, !.view = {}]
  <2>1. Becomes(a, r) /\ once' = {} /\ attempt[a].pc = "take"
    BY <1>6 DEF TakeAfterReconnect, TakeOneTimeHostKeys, At
  <2>2. r \in [pc : {"installed"}, kind : {attempt[a].kind}, hop : {attempt[a].hop},
                  copy : {NoCopy}, view : {{}}, once : {attempt[a].once},
                  keys : {attempt[a].keys}, method : {attempt[a].method},
                  oneKey : {attempt[a].oneKey}, superseded : {attempt[a].superseded}, held : {once}]
    BY <1>0 DEF IsAttempt
  <2> HIDE DEF r
  <2>3. Collects(attempt[a], r, once)
    BY <2>1, <2>2 DEF Collects
  <2> QED
    BY <2>1, <2>3, Becoming DEF Moved
<1>7. CASE CommitOpen(a)
  <2> DEFINE r == [attempt[a] EXCEPT !.pc = "installed", !.copy = NoCopy, !.view = {}]
  <2>1. Becomes(a, r) /\ once' = once /\ attempt[a].pc = "commit"
    BY <1>7 DEF CommitOpen, At
  <2>2. r \in [pc : {"installed"}, kind : {attempt[a].kind}, hop : {attempt[a].hop},
                  copy : {NoCopy}, view : {{}}, once : {attempt[a].once},
                  keys : {attempt[a].keys}, method : {attempt[a].method},
                  oneKey : {attempt[a].oneKey}, superseded : {attempt[a].superseded},
                  held : {attempt[a].held}]
    BY <1>0 DEF IsAttempt
  <2> HIDE DEF r
  <2>3. Commits(attempt[a], r)
    BY <2>1, <2>2 DEF Commits, Retains
  <2> QED
    BY <2>1, <2>3, Becoming DEF Moved
<1> QED
  BY <1>1, <1>2, <1>3, <1>4, <1>5, <1>6, <1>7

(* An attempt begins with a copy of the profile and knows nothing else.    *)
LEMMA BeginMoves ==
    ASSUME KeptInv, NEW a \in Attempts, BeginOpen(a) \/ BeginReconnect(a)
    PROVE  LET s == attempt'[a]
           IN  /\ attempt[a].pc = "idle" /\ once' = once
               /\ \/ Opening = {} /\ s.pc = "begun" /\ s.kind = "open"
                  \/ (\A b \in Underway : attempt[b].superseded) /\ s.pc = "view" /\ s.kind = "reconnect"
               /\ s.hop = 1 /\ s.keys = <<>> /\ s.copy.removed = profile.removed
               /\ s.once = {} /\ s.held = {} /\ s.superseded = FALSE
               /\ \A b \in Attempts \ {a} : attempt'[b] = attempt[b]
<1>1. Copy.removed = profile.removed
  BY DEF Copy
<1>2. CASE BeginOpen(a)
  <2>1. PICK oneKey : Becomes(a, [NoAttempt EXCEPT !.pc = "begun", !.copy = Copy, !.oneKey = oneKey])
    BY <1>2, Zenon DEF BeginOpen
  <2>2. once' = once /\ attempt[a].pc = "idle" /\ Opening = {}
    BY <1>2, Zenon DEF BeginOpen, At
  <2> DEFINE r == [NoAttempt EXCEPT !.pc = "begun", !.copy = Copy, !.oneKey = oneKey]
  <2>3. r \in [pc : {"begun"}, kind : {"open"}, hop : {1}, copy : {Copy}, view : {{}}, once : {{}},
                keys : {<<>>}, method : {"none"}, oneKey : {oneKey}, superseded : {FALSE},
                held : {{}}]
    BY DEF NoAttempt
  <2>4. Becomes(a, r)
    BY <2>1
  <2> HIDE DEF r
  <2>5. attempt'[a] = r /\ \A b \in Attempts \ {a} : attempt'[b] = attempt[b]
    BY <2>4, Becoming
  <2> QED
    BY <1>1, <2>2, <2>3, <2>5
<1>3. CASE BeginReconnect(a)
  <2> DEFINE r == [NoAttempt EXCEPT !.pc = "view", !.kind = "reconnect", !.copy = Copy]
  <2>1. /\ Becomes(a, r) /\ once' = once /\ attempt[a].pc = "idle"
        /\ \A b \in Underway : attempt[b].superseded
    BY <1>3 DEF BeginReconnect, At
  <2>2. r \in [pc : {"view"}, kind : {"reconnect"}, hop : {1}, copy : {Copy}, view : {{}}, once : {{}},
                keys : {<<>>}, method : {"none"}, oneKey : {FALSE}, superseded : {FALSE},
                held : {{}}]
    BY DEF NoAttempt
  <2> HIDE DEF r
  <2>3. attempt'[a] = r /\ \A b \in Attempts \ {a} : attempt'[b] = attempt[b]
    BY <2>1, Becoming
  <2> QED
    BY <1>1, <2>1, <2>2, <2>3
<1> QED
  BY <1>2, <1>3

(* What becomes of the attempts when the runtime leaves the registry.      *)
Fades(r, s) ==
    /\ s.pc = r.pc /\ s.kind = r.kind /\ s.hop = r.hop /\ s.keys = r.keys
    /\ s.once = r.once /\ s.held = r.held /\ s.copy = r.copy
    /\ \/ s.superseded = r.superseded
       \/ s.superseded = TRUE /\ r.kind = "reconnect"
    /\ r.kind = "reconnect" /\ r.pc \in PCs \ {"idle", "ended", "installed", "take"} => s.superseded = TRUE

Dies(r, s) ==
    r.kind = "open" /\ s.pc = "ended" /\ s.kind = "open" /\ s.once = {} /\ s.superseded = FALSE /\ s.held \in {r.held, {}}

LEMMA SupersededFades ==
    ASSUME KeptInv, NEW a \in Attempts
    PROVE  Fades(attempt[a], Superseding(attempt)[a])
<1> DEFINE r == attempt[a]
           s == [r EXCEPT !.superseded = TRUE]
           t == Superseding(attempt)[a]
<1>1. IsAttempt(r)
  BY DEF KeptInv
<1>2. s \in [pc : {r.pc}, kind : {r.kind}, hop : {r.hop}, copy : {r.copy}, view : {r.view},
             once : {r.once}, keys : {r.keys}, method : {r.method}, oneKey : {r.oneKey},
             superseded : {TRUE}, held : {r.held}]
  BY <1>1 DEF IsAttempt
<1>3. t = IF r.kind = "reconnect" /\ r.pc \in PCs \ {"idle", "ended", "installed", "take"} THEN s ELSE r
  BY DEF Superseding
<1> HIDE DEF r, s, t
<1>4. Fades(r, t)
  BY <1>2, <1>3 DEF Fades
<1> QED
  BY <1>4 DEF r, t

LEMMA CloseFades ==
    ASSUME KeptInv, NEW b \in Attempts,
           Close \/ DeleteProfile \/ \E a \in Attempts : CancelOpen(a)
    PROVE  Fades(attempt[b], attempt'[b]) \/ Dies(attempt[b], attempt'[b])
<1>1. CASE Close
  BY <1>1, SupersededFades DEF Close
<1>2. CASE DeleteProfile
  <2> DEFINE r == [NoAttempt EXCEPT !.pc = "ended"]
  <2>1. attempt' = [a \in Attempts |-> IF a \in Opening THEN r ELSE Superseding(attempt)[a]]
    BY <1>2 DEF DeleteProfile
  <2>2. r.pc = "ended" /\ r.kind = "open" /\ r.once = {} /\ r.superseded = FALSE /\ r.held = {}
    BY DEF NoAttempt
  <2> HIDE DEF r
  <2>3. CASE b \in Opening
    BY <2>1, <2>2, <2>3 DEF Opening, Dies
  <2>4. CASE b \notin Opening
    <3>1. attempt'[b] = Superseding(attempt)[b]
      BY <2>1, <2>4
    <3> QED
      BY <3>1, SupersededFades
  <2> QED
    BY <2>3, <2>4
<1>3. ASSUME NEW a \in Attempts, CancelOpen(a)
      PROVE  Fades(attempt[b], attempt'[b]) \/ Dies(attempt[b], attempt'[b])
  <2> DEFINE S == Superseding(attempt)
             r == [NoAttempt EXCEPT !.pc = "ended", !.held = attempt[a].held]
  <2>1. attempt' = [S EXCEPT ![a] = r] /\ attempt[a].kind = "open"
    BY <1>3, Zenon DEF CancelOpen
  <2>2. r \in [pc : {"ended"}, kind : {"open"}, hop : {1}, copy : {NoCopy}, view : {{}}, once : {{}},
                keys : {<<>>}, method : {"none"}, oneKey : {FALSE}, superseded : {FALSE},
                held : {attempt[a].held}]
    BY DEF NoAttempt
  <2>3. DOMAIN S = Attempts
    BY DEF Superseding
  <2>4. Fades(attempt[b], S[b])
    BY SupersededFades
  <2> HIDE DEF S, r
  <2>5. CASE b = a
    BY <2>1, <2>2, <2>3, <2>5 DEF Dies
  <2>6. CASE b # a
    BY <2>1, <2>3, <2>4, <2>6
  <2> QED
    BY <2>5, <2>6
<1> QED
  BY <1>1, <1>2, <1>3

LEMMA DropFades ==
    ASSUME KeptInv, NEW a \in Attempts, DropRuntime(a), KindFits(attempt[a])
    PROVE  /\ attempt[a].pc = "begun" /\ attempt'[a].pc = "view" /\ Same(attempt[a], attempt'[a])
           /\ \A b \in Attempts \ {a} : Fades(attempt[b], attempt'[b])
           /\ once' = once
<1> DEFINE S == Superseding(attempt)
<1>1. attempt' = [S EXCEPT ![a].pc = "view"] /\ attempt[a].pc = "begun" /\ once' = once
  BY DEF DropRuntime, At
<1>2. DOMAIN S = Attempts
  BY DEF Superseding
<1>3. \A b \in Attempts : Fades(attempt[b], S[b]) /\ IsAttempt(S[b])
  BY SupersededFades, SupersededKeeps
<1> HIDE DEF S
<1>4. /\ attempt'[a] = [S[a] EXCEPT !.pc = "view"]
      /\ \A b \in Attempts \ {a} : attempt'[b] = S[b]
  BY <1>1, <1>2
<1>5. Same(S[a], attempt'[a]) /\ attempt'[a].pc = "view"
  BY <1>3, <1>4 DEF IsAttempt, Same
<1>6. Same(attempt[a], S[a])
  BY <1>1, <1>3 DEF Fades, Same, KindFits
<1> QED
  BY <1>1, <1>3, <1>4, <1>5, <1>6 DEF Same

(* It takes its view, and has left no hop behind yet.                      *)
LEMMA ChainTurns ==
    ASSUME NEW r, NEW s, NEW K, NEW L, NEW n \in Nat, NEW m \in Nat,
           ChainFits(r, K, n), n <= m, r.pc \in {"begun", "view"}, s.pc \in {"view", "connect"},
           s.hop = r.hop, s.keys = r.keys, s.copy = r.copy
    PROVE  ChainFits(s, L, m)
<1>1. r.hop = 1
  BY DEF ChainFits, OnItsWay
<1>2. Behind(s, L)
  BY <1>1 DEF Behind
<1> QED
  BY <1>1, <1>2 DEF ChainFits, OnItsWay

LEMMA ChainMoves ==
    ASSUME NEW r, NEW s, NEW O, NEW P, NEW K, NEW L, NEW n \in Nat, NEW m \in Nat,
           ChainFits(r, K, n), n <= m, m = n => K \subseteq L, Moved(r, s, O, P), ~Proceeds(r, s)
    PROVE  ChainFits(s, L, m)
<1>1. CASE Onward(r, s)
  <2>1. CASE r.pc \in {"verify", "auth"}
    BY <1>1, <2>1, ChainGoesOn DEF Onward, Same
  <2>2. CASE r.pc \notin {"verify", "auth"}
    BY <1>1, <2>2 DEF Onward, ChainFits, OnItsWay
  <2> QED
    BY <2>1, <2>2
<1>2. CASE Sees(r, s)
  <2>1. ChainFits(s, K, n)
    BY <1>2, ChainSees DEF Sees, Retains
  <2> QED
    BY <2>1, ChainStays
<1>3. CASE Views(r, s, O)
  BY <1>3, ChainTurns DEF Views
<1>4. CASE Commits(r, s) \/ Collects(r, s, O) \/ Ends(r, s)
  BY <1>4 DEF Commits, Collects, Ends, ChainFits, OnItsWay
<1> QED
  BY <1>1, <1>2, <1>3, <1>4 DEF Moved

LEMMA PairsKept == ASSUME KeptPairs, [Next]_vars PROVE KeptPairs'
<1>1. ASSUME NEW x, NEW y, kept' \subseteq kept \cup {<<x, y>>} PROVE KeptPairs'
  BY <1>1 DEF KeptPairs
<1>2. ASSUME kept' \subseteq kept PROVE KeptPairs'
  BY <1>2 DEF KeptPairs
<1>3. CASE UNCHANGED vars
  BY <1>2, <1>3 DEF vars
<1>4. ASSUME NEW a \in Attempts, AttemptStep(a) PROVE KeptPairs'
  <2>1. CASE PersistJumpKey(a) \/ PersistHostKey(a)
    <3>1. KeepKey(a)
      BY <2>1 DEF PersistJumpKey, PersistHostKey
    <3>2. kept' \subseteq kept \cup {<<Hop(a), Last(attempt[a].keys)>>}
      BY <3>1 DEF KeepKey, Decided
    <3> QED
      BY <1>1, <3>2
  <2>2. CASE BeginOpen(a)
    <3>1. kept' = kept
      BY <2>2, Zenon DEF BeginOpen
    <3> QED
      BY <1>2, <3>1
  <2>3. CASE AuthenticateTarget(a) \/ LibsshAuthenticate(a) \/ StepFails(a)
    <3>1. kept' = kept
      BY <2>3, Zenon DEF AuthenticateTarget, LibsshAuthenticate, AuthenticatedBy, StepFails
    <3> QED
      BY <1>2, <3>1
  <2>4. CASE \/ DropRuntime(a) \/ BeginReconnect(a) \/ TakeView(a) \/ ConnectJump(a)
             \/ ConnectTarget(a) \/ LibsshConnect(a) \/ LibsshVerify(a) \/ HostKeyRejected(a)
    <3>1. kept' = kept
      BY <2>4 DEF DropRuntime, BeginReconnect, TakeView, ConnectJump, ConnectTarget, LibsshConnect,
                  LibsshVerify, HostKeyRejected, KeySeen
    <3> QED
      BY <1>2, <3>1
  <2>5. CASE \/ AuthenticateJump(a) \/ PersistRefused(a) \/ OpenTerminal(a) \/ LibsshOpenTerminal(a)
             \/ InsertRuntime(a) \/ CommitOpenFails(a) \/ RollBack(a) \/ CommitOpen(a) \/ InstallReconnect(a)
             \/ ReconnectNotInstalled(a) \/ TakeAfterReconnect(a) \/ CancelOpen(a)
    <3>1. kept' = kept
      BY <2>5 DEF AuthenticateJump, PersistRefused, OpenTerminal, LibsshOpenTerminal, InsertRuntime,
                  CommitOpenFails, RollBack, ReconnectNotInstalled, TakeAfterReconnect, CancelOpen,
                  TerminalOpened, CommitOpen, InstallReconnect
    <3> QED
      BY <1>2, <3>1
  <2> QED
    BY <1>4, <2>1, <2>2, <2>3, <2>4, <2>5 DEF AttemptStep
<1>5. CASE UserStep
  <2>1. CASE Close \/ LoseConnection \/ ScanHostKey \/ RejectHostKey \/ TrustOnce \/ DeleteProfile
    <3>1. kept' = kept
      BY <2>1 DEF Close, LoseConnection, ScanHostKey, RejectHostKey, TrustOnce, DeleteProfile
    <3> QED
      BY <1>2, <3>1
  <2>2. CASE RotateServerKey \/ EditProfile
    <3>1. kept' = kept
      BY <2>2, Zenon DEF RotateServerKey, EditProfile
    <3> QED
      BY <1>2, <3>1
  <2>3. ASSUME NEW decision, TrustAlways(decision) PROVE KeptPairs'
    <3>1. kept' \subseteq kept \cup {<<scan.ep, scan.key>>}
      BY <2>3 DEF TrustAlways, Decided
    <3> QED
      BY <1>1, <3>1
  <2>4. ASSUME NEW e \in kept, DeleteHostKey(e) PROVE KeptPairs'
    BY <1>2, <2>4 DEF DeleteHostKey
  <2>5. ASSUME NEW e \in kept, UpdateHostKey(e) PROVE KeptPairs'
    <3>1. PICK ep \in Endpoints : kept' = (kept \ {e}) \cup {<<ep, e[2]>>}
      BY <2>5 DEF UpdateHostKey
    <3> QED
      BY <1>1, <3>1
  <2>6. CASE ImportKnownHosts
    <3>1. PICK x, y : kept' = kept \cup {<<x, y>>}
      BY <2>6 DEF ImportKnownHosts
    <3> QED
      BY <1>1, <3>1
  <2> QED
    BY <1>5, <2>1, <2>2, <2>3, <2>4, <2>5, <2>6 DEF UserStep
<1> QED
  BY <1>3, <1>4, <1>5 DEF Next


(* What the user does beside the attempts.                                 *)
LEMMA UserSpares ==
    ASSUME UserStep, ~Close, ~DeleteProfile
    PROVE  attempt' = attempt /\ (TrustOnce \/ UNCHANGED <<once, confirms>>)
<1>1. CASE RotateServerKey \/ EditProfile
  BY <1>1, Zenon DEF RotateServerKey, EditProfile, userVars
<1>2. CASE LoseConnection \/ ScanHostKey \/ RejectHostKey \/ ImportKnownHosts
           \/ \E e \in kept : UpdateHostKey(e) \/ DeleteHostKey(e)
  BY <1>2 DEF LoseConnection, ScanHostKey, RejectHostKey, ImportKnownHosts, DeleteHostKey,
              UpdateHostKey, userVars
<1>3. ASSUME NEW decision, TrustAlways(decision) PROVE UNCHANGED <<attempt, once, confirms>>
  BY <1>3 DEF TrustAlways
<1>4. CASE TrustOnce
  BY <1>4 DEF TrustOnce
<1> QED
  BY <1>1, <1>2, <1>3, <1>4 DEF UserStep

(* The other steps of an attempt; only the one that stores the key of a    *)
(* jump host leads to another hop.                                         *)
LEMMA AttemptMoves ==
    ASSUME KeptInv, NEW a \in Attempts, AttemptStep(a),
           ~BeginOpen(a), ~BeginReconnect(a), ~DropRuntime(a), ~CancelOpen(a)
    PROVE  /\ Moved(attempt[a], attempt'[a], once, once')
           /\ \A b \in Attempts \ {a} : attempt'[b] = attempt[b]
           /\ confirms' = confirms
           /\ Proceeds(attempt[a], attempt'[a]) => PersistJumpKey(a)
<1>1. /\ Moved(attempt[a], attempt'[a], once, once')
      /\ \A b \in Attempts \ {a} : attempt'[b] = attempt[b]
  BY HopMoves, EndMoves DEF AttemptStep
<1>2. CASE attempt[a].pc # "persist"
  <2>1. ~Proceeds(attempt[a], attempt'[a])
    BY <1>2 DEF Proceeds
  <2>2. CASE \/ ConnectJump(a) \/ ConnectTarget(a) \/ LibsshConnect(a) \/ LibsshVerify(a)
             \/ AuthenticateJump(a) \/ OpenTerminal(a) \/ LibsshOpenTerminal(a)
    BY <1>1, <2>1, <2>2 DEF ConnectJump, ConnectTarget, LibsshConnect, LibsshVerify, AuthenticateJump,
            OpenTerminal, LibsshOpenTerminal, TerminalOpened, KeySeen, userVars
  <2>3. CASE AuthenticateTarget(a) \/ LibsshAuthenticate(a) \/ StepFails(a)
    <3>1. confirms' = confirms
      BY <2>3, Zenon DEF AuthenticateTarget, LibsshAuthenticate, AuthenticatedBy, StepFails, userVars
    <3> QED
      BY <1>1, <2>1, <3>1
  <2>4. CASE \/ TakeView(a) \/ HostKeyRejected(a) \/ InsertRuntime(a) \/ CommitOpen(a) \/ CommitOpenFails(a)
             \/ RollBack(a) \/ InstallReconnect(a) \/ ReconnectNotInstalled(a) \/ TakeAfterReconnect(a)
    <3>1. confirms' = confirms
      BY <2>4 DEF TakeView, HostKeyRejected, InsertRuntime, CommitOpen, CommitOpenFails, RollBack,
                  InstallReconnect, ReconnectNotInstalled, TakeAfterReconnect, userVars
    <3> QED
      BY <1>1, <2>1, <3>1
  <2>5. ~PersistJumpKey(a) /\ ~PersistHostKey(a) /\ ~PersistRefused(a)
    BY <1>2 DEF PersistJumpKey, PersistHostKey, PersistRefused, At
  <2> QED
    BY <2>2, <2>3, <2>4, <2>5 DEF AttemptStep
<1>3. CASE attempt[a].pc = "persist"
  <2>1. PersistJumpKey(a) \/ PersistHostKey(a) \/ PersistRefused(a)
    <3>1. /\ ~ConnectJump(a) /\ ~ConnectTarget(a) /\ ~LibsshConnect(a) /\ ~LibsshVerify(a)
          /\ ~AuthenticateJump(a) /\ ~OpenTerminal(a) /\ ~LibsshOpenTerminal(a)
          /\ ~AuthenticateTarget(a) /\ ~LibsshAuthenticate(a)
      BY <1>3 DEF ConnectJump, ConnectTarget, LibsshConnect, LibsshVerify, AuthenticateJump,
            OpenTerminal, LibsshOpenTerminal, AuthenticateTarget, LibsshAuthenticate, At
    <3>2. /\ ~StepFails(a) /\ ~TakeView(a) /\ ~HostKeyRejected(a) /\ ~InsertRuntime(a) /\ ~CommitOpen(a)
          /\ ~CommitOpenFails(a) /\ ~RollBack(a) /\ ~InstallReconnect(a) /\ ~ReconnectNotInstalled(a)
          /\ ~TakeAfterReconnect(a)
      BY <1>3 DEF StepFails, TakeView, HostKeyRejected, InsertRuntime, CommitOpen, CommitOpenFails, RollBack,
                  InstallReconnect, ReconnectNotInstalled, TakeAfterReconnect, At
    <3> QED
      BY <3>1, <3>2 DEF AttemptStep
  <2>2. CASE PersistJumpKey(a)
    BY <1>1, <2>2 DEF PersistJumpKey
  <2>3. CASE PersistHostKey(a)
    <3>1. attempt'[a].pc = "terminal"
      BY <2>3, BecomesAt DEF PersistHostKey
    <3> QED
      BY <1>1, <2>3, <3>1 DEF Proceeds, PersistHostKey
  <2>4. CASE PersistRefused(a)
    <3>1. attempt'[a].pc = "ended"
      BY <2>4, FailsAt DEF PersistRefused, Fails
    <3> QED
      BY <1>1, <2>4, <3>1 DEF Proceeds, PersistRefused, userVars
  <2> QED
    BY <2>1, <2>2, <2>3, <2>4
<1> QED
  BY <1>2, <1>3

(* Every step keeps what is known of the chains.                           *)
LEMMA ChainNext ==
    ASSUME KeptInv, ChainInv, OnceInv, [Next]_vars
    PROVE  ChainInv'
<1>1. Grows
  BY RemovalsCounted DEF ChainInv, KeptInv
<1>2. KeptPairs'
  BY PairsKept DEF ChainInv
<1>3. /\ profile.removed \in Nat /\ profile'.removed \in Nat /\ profile.removed <= profile'.removed
      /\ profile'.removed = profile.removed => kept \subseteq kept'
  BY <1>1 DEF Grows
<1>4. ASSUME NEW b \in Attempts, attempt'[b] = attempt[b]
      PROVE  ChainFits(attempt'[b], kept', profile'.removed)
  BY <1>3, <1>4, ChainStays DEF ChainInv
<1>5. ASSUME NEW b \in Attempts, Fades(attempt[b], attempt'[b])
      PROVE  ChainFits(attempt'[b], kept', profile'.removed)
  BY <1>3, <1>5, ChainStays DEF ChainInv, Fades
<1>6. SUFFICES ASSUME NEW b \in Attempts PROVE ChainFits(attempt'[b], kept', profile'.removed)
  BY <1>2, <1>3 DEF ChainInv
<1>7. CASE Close \/ DeleteProfile \/ \E a \in Attempts : CancelOpen(a)
  <2>1. CASE Dies(attempt[b], attempt'[b])
    BY <2>1 DEF Dies, ChainFits, OnItsWay
  <2> QED
    BY <1>5, <1>7, <2>1, CloseFades
<1>8. ASSUME NEW a \in Attempts, DropRuntime(a)
      PROVE  ChainFits(attempt'[b], kept', profile'.removed)
  <2>1. KindFits(attempt[a])
    BY DEF OnceInv
  <2>2. CASE b = a
    BY <1>3, <1>8, <2>1, <2>2, DropFades, ChainTurns DEF ChainInv, Same
  <2>3. CASE b # a
    BY <1>5, <1>8, <2>1, <2>3, DropFades
  <2> QED
    BY <2>2, <2>3
<1>9. ASSUME NEW a \in Attempts, BeginOpen(a) \/ BeginReconnect(a)
      PROVE  ChainFits(attempt'[b], kept', profile'.removed)
  <2>1. CASE b = a
    BY <1>3, <1>9, <2>1, BeginMoves, ChainBegins
  <2>2. CASE b # a
    BY <1>4, <1>9, <2>2, BeginMoves
  <2> QED
    BY <2>1, <2>2
<1>10. ASSUME NEW a \in Attempts, PersistJumpKey(a)
       PROVE  ChainFits(attempt'[b], kept', profile'.removed)
  <2>1. CASE b = a
    <3>1. /\ attempt[a].pc = "persist" /\ profile' = profile /\ KeepKey(a) /\ PersistOutcome(a) # "refused"
          /\ Becomes(a, [attempt[a] EXCEPT !.pc = "connect", !.hop = attempt[a].hop + 1])
      BY <1>10 DEF PersistJumpKey, At
    <3>2. Moved(attempt[a], attempt'[a], once, once')
      BY <1>10, HopMoves
    <3>3. CASE Proceeds(attempt[a], attempt'[a])
      <4>1. ChainFits(attempt[a], kept, profile.removed)
        BY DEF ChainInv
      <4>2. attempt[a].keys[attempt[a].hop] = Last(attempt[a].keys)
        BY <3>1, <4>1 DEF ChainFits, OnItsWay, Last
      <4>3. ~Ignores(attempt[a]) =>
              \/ <<Hops[attempt[a].hop], attempt[a].keys[attempt[a].hop]>> \in kept'
              \/ attempt[a].keys[attempt[a].hop] \in Confirmed(attempt[a].once, Hops[attempt[a].hop])
        BY <3>1, <4>2, PersistedIsTrusted DEF Ignores, Ignore, Hop, ChainInv
      <4>4. kept \subseteq kept'
        BY <3>1, GrowsByKey
      <4>5. ChainFits(attempt'[a], kept', profile.removed)
        BY <1>3, <3>1, <3>3, <4>1, <4>3, <4>4, ChainLeaves DEF Proceeds, Retains
      <4> QED
        BY <2>1, <3>1, <4>5
    <3>4. CASE ~Proceeds(attempt[a], attempt'[a])
      BY <1>3, <2>1, <3>2, <3>4, ChainMoves DEF ChainInv
    <3> QED
      BY <3>3, <3>4
  <2>2. CASE b # a
    BY <1>4, <1>10, <2>2, HopMoves
  <2> QED
    BY <2>1, <2>2
<1>11. ASSUME NEW a \in Attempts, Moved(attempt[a], attempt'[a], once, once'), ~Proceeds(attempt[a], attempt'[a]),
              \A c \in Attempts \ {a} : attempt'[c] = attempt[c]
       PROVE  ChainFits(attempt'[b], kept', profile'.removed)
  <2>1. CASE b = a
    BY <1>3, <1>11, <2>1, ChainMoves DEF ChainInv
  <2>2. CASE b # a
    BY <1>4, <1>11, <2>2
  <2> QED
    BY <2>1, <2>2
<1>12. ASSUME NEW a \in Attempts, AttemptStep(a)
       PROVE  ChainFits(attempt'[b], kept', profile'.removed)
  BY <1>7, <1>8, <1>9, <1>10, <1>11, <1>12, AttemptMoves
<1>13. CASE UserStep /\ ~Close /\ ~DeleteProfile
  BY <1>4, <1>13, UserSpares
<1>14. CASE UNCHANGED vars
  BY <1>4, <1>14 DEF vars
<1> QED
  BY <1>7, <1>12, <1>13, <1>14 DEF Next

(* An attempt that goes on fits its kind, is alone if it was, and has      *)
(* taken what nobody else has.                                             *)
LEMMA OnceMoves ==
    ASSUME KeptInv, OnceInv, NEW a \in Attempts, Moved(attempt[a], attempt'[a], once, once'),
           \A b \in Attempts \ {a} : attempt'[b] = attempt[b], confirms' = confirms
    PROVE  OnceInv'
<1> DEFINE r == attempt[a]
           s == attempt'[a]
<1>1. /\ KindFits(r)
      /\ Numbers(r.once) \subseteq 1 .. confirms /\ Numbers(r.held) \subseteq 1 .. confirms
      /\ HasTaken(r) => Numbers(r.once) \cap Numbers(once) = {}
      /\ Numbers(once) \subseteq 1 .. confirms
  BY DEF OnceInv
<1>2. Moved(r, s, once, once') /\ Moves(r)
  <2>1. Moved(r, s, once, once')
    OBVIOUS
  <2> HIDE DEF r, s
  <2> QED
    BY <2>1 DEF Moved, Moves, Settled, Onward, Sees, Proceeds, Commits, Views, Collects, Ends
<1>3. ASSUME NEW b \in Attempts \ {a}
      PROVE  /\ KindFits(attempt[b]) /\ Alone(r, attempt[b]) /\ Alone(attempt[b], r)
             /\ Apart(r, attempt[b]) /\ Apart(attempt[b], r)
             /\ HasTaken(attempt[b]) => Numbers(attempt[b].once) \cap Numbers(once) = {}
  BY <1>3 DEF OnceInv
<1>4. Numbers({}) = {} /\ Numbers(once \cup r.held) = Numbers(once) \cup Numbers(r.held)
  BY DEF Numbers
<1>5. r.pc = "rollback" => r.kind = "open" /\ r.superseded = FALSE
  BY <1>1 DEF KindFits
<1> HIDE DEF r, s
<1>6. /\ KindFits(s)
      /\ Numbers(s.once) \subseteq 1 .. confirms /\ Numbers(s.held) \subseteq 1 .. confirms
      /\ Numbers(once') \subseteq 1 .. confirms
  BY <1>1, <1>2, <1>4 DEF Moved, KindFits, PCs, Onward, Same, Sees, Retains, Proceeds, Commits, Views, Collects, Ends
<1>7. HasTaken(s) => Numbers(s.once) \cap Numbers(once') = {}
  BY <1>1, <1>2, <1>4 DEF Moved, KindFits, HasTaken, Onward, Same, Sees, Retains, Proceeds, Commits, Views, Collects, Ends
<1>8. ASSUME NEW t, KindFits(t), Alone(r, t), Alone(t, r)
      PROVE  Alone(s, t) /\ Alone(t, s)
  BY <1>1, <1>2, <1>8 DEF Moved, KindFits, Alone, Moves, Settled, Onward, Same, Sees, Retains, Proceeds, Commits, Views, Collects, Ends
<1>9. ASSUME NEW t, KindFits(t), Alone(r, t), Apart(r, t)
      PROVE  Apart(s, t)
  BY <1>1, <1>2, <1>9 DEF Moved, KindFits, Alone, Apart, HasTaken, Moves, Settled, Onward, Same, Sees, Retains, Proceeds, Commits, Views, Collects, Ends
<1>10. ASSUME NEW t, Apart(t, r), HasTaken(t) => Numbers(t.once) \cap Numbers(once) = {}
       PROVE  Apart(t, s) /\ (HasTaken(t) => Numbers(t.once) \cap Numbers(once') = {})
  <2>1. Apart(t, s)
    BY <1>1, <1>2, <1>4, <1>10 DEF Moved, KindFits, Apart, Moves, Settled, Onward, Same, Sees, Retains, Proceeds, Commits, Views, Collects, Ends
  <2>2. HasTaken(t) => Numbers(t.once) \cap Numbers(once') = {}
    BY <1>2, <1>4, <1>5, <1>10 DEF Moved, Apart, Moves, Settled
  <2> QED
    BY <2>1, <2>2
<1>11. ASSUME NEW b \in Attempts \ {a}
       PROVE  /\ Alone(s, attempt[b]) /\ Alone(attempt[b], s)
              /\ Apart(s, attempt[b]) /\ Apart(attempt[b], s)
              /\ HasTaken(attempt[b]) => Numbers(attempt[b].once) \cap Numbers(once') = {}
  BY <1>3, <1>8, <1>9, <1>10, <1>11
<1> QED
  BY <1>6, <1>7, <1>11 DEF OnceInv, s

(* A new attempt has taken nothing, and finds no open under way that could *)
(* be disturbed.                                                           *)
LEMMA OnceBegins ==
    ASSUME KeptInv, OnceInv, NEW a \in Attempts, BeginOpen(a) \/ BeginReconnect(a)
    PROVE  OnceInv'
<1> DEFINE s == attempt'[a]
<1>1. /\ once' = once /\ confirms' = confirms
      /\ \/ Opening = {} /\ s.pc = "begun" /\ s.kind = "open"
         \/ (\A b \in Underway : attempt[b].superseded) /\ s.pc = "view" /\ s.kind = "reconnect"
      /\ s.once = {} /\ s.held = {} /\ s.superseded = FALSE
      /\ \A b \in Attempts \ {a} : attempt'[b] = attempt[b]
  <2>1. confirms' = confirms
    <3>1. CASE BeginOpen(a)
      BY <3>1, Zenon DEF BeginOpen, userVars
    <3>2. CASE BeginReconnect(a)
      BY <3>2 DEF BeginReconnect, userVars
    <3> QED
      BY <3>1, <3>2
  <2> QED
    BY <2>1, BeginMoves
<1>2. ASSUME NEW b \in Attempts \ {a}
      PROVE  Alone(s, attempt[b]) /\ Alone(attempt[b], s)
  <2>1. KindFits(attempt[b])
    BY DEF OnceInv
  <2>2. Moves(attempt[b]) => b \in Underway
    BY DEF Moves, Settled, Underway
  <2>3. CASE Opening = {} /\ s.pc = "begun"
    BY <2>2, <2>3 DEF Opening, Alone
  <2>4. CASE (\A c \in Underway : attempt[c].superseded) /\ s.kind = "reconnect"
    BY <2>1, <2>2, <2>4 DEF Alone, KindFits
  <2> QED
    BY <1>1, <2>3, <2>4
<1>3. Numbers(s.once) = {} /\ Numbers(s.held) = {} /\ ~HasTaken(s) /\ KindFits(s)
  BY <1>1 DEF Numbers, HasTaken, KindFits, PCs
<1> HIDE DEF s
<1>4. ASSUME NEW b \in Attempts \ {a}
      PROVE  Apart(s, attempt[b]) /\ Apart(attempt[b], s)
  BY <1>3 DEF Apart
<1> QED
  BY <1>1, <1>2, <1>3, <1>4 DEF OnceInv, s

(* Nobody gets anything by a runtime's leaving the registry.               *)
LEMMA OnceFades ==
    ASSUME KeptInv, OnceInv, confirms' = confirms, Numbers(once') \subseteq Numbers(once),
           \A b \in Attempts : Fades(attempt[b], attempt'[b]) \/ Dies(attempt[b], attempt'[b])
    PROVE  OnceInv'
<1>1. ASSUME NEW r, NEW s, KindFits(r), Fades(r, s) \/ Dies(r, s)
      PROVE  /\ KindFits(s)
             /\ Numbers(s.once) \subseteq Numbers(r.once) /\ Numbers(s.held) \subseteq Numbers(r.held)
             /\ HasTaken(s) => HasTaken(r)
             /\ Moves(s) => /\ Moves(r) /\ s.kind = r.kind /\ s.pc = r.pc
                            /\ r.superseded = TRUE => s.superseded = TRUE
                            /\ s.superseded = r.superseded \/ s.superseded = TRUE
  BY <1>1 DEF KindFits, Fades, Dies, HasTaken, Moves, Settled, PCs, Numbers
<1>2. \A b \in Attempts : KindFits(attempt[b]) /\ KindFits(attempt'[b])
  BY <1>1 DEF OnceInv
<1>3. ASSUME NEW r, NEW s, NEW t, NEW u, KindFits(r), KindFits(t), Fades(r, s) \/ Dies(r, s),
             Fades(t, u) \/ Dies(t, u), Alone(r, t), Apart(r, t)
      PROVE  Alone(s, u) /\ Apart(s, u)
  <2>1. /\ Numbers(s.once) \subseteq Numbers(r.once)
        /\ HasTaken(s) => HasTaken(r)
        /\ Moves(s) => Moves(r) /\ s.kind = r.kind /\ s.pc = r.pc
    BY <1>1, <1>3
  <2>2. /\ Numbers(u.once) \subseteq Numbers(t.once) /\ Numbers(u.held) \subseteq Numbers(t.held)
        /\ Moves(u) => /\ Moves(t) /\ u.kind = t.kind /\ u.pc = t.pc
                       /\ t.superseded = TRUE => u.superseded = TRUE
                       /\ u.superseded = t.superseded \/ u.superseded = TRUE
    BY <1>1, <1>3
  <2>3. Alone(s, u)
    BY <1>3, <2>1, <2>2 DEF Alone
  <2>4. Apart(s, u)
    BY <1>3, <2>1, <2>2 DEF Apart
  <2> QED
    BY <2>3, <2>4
<1>4. \A a, b \in Attempts : a # b => Alone(attempt'[a], attempt'[b]) /\ Apart(attempt'[a], attempt'[b])
  BY <1>3 DEF OnceInv
<1>5. \A a \in Attempts : /\ Numbers(attempt'[a].once) \cup Numbers(attempt'[a].held) \subseteq 1 .. confirms
                          /\ HasTaken(attempt'[a]) => Numbers(attempt'[a].once) \cap Numbers(once') = {}
  <2> SUFFICES ASSUME NEW a \in Attempts
               PROVE  /\ Numbers(attempt'[a].once) \cup Numbers(attempt'[a].held) \subseteq 1 .. confirms
                      /\ HasTaken(attempt'[a]) => Numbers(attempt'[a].once) \cap Numbers(once') = {}
    OBVIOUS
  <2>1. /\ Numbers(attempt'[a].once) \subseteq Numbers(attempt[a].once)
        /\ Numbers(attempt'[a].held) \subseteq Numbers(attempt[a].held)
        /\ HasTaken(attempt'[a]) => HasTaken(attempt[a])
    BY <1>1, <1>2
  <2>2. /\ Numbers(attempt[a].once) \cup Numbers(attempt[a].held) \subseteq 1 .. confirms
        /\ HasTaken(attempt[a]) => Numbers(attempt[a].once) \cap Numbers(once) = {}
    BY DEF OnceInv
  <2> QED
    BY <2>1, <2>2
<1>6. Numbers(once') \subseteq 1 .. confirms
  BY DEF OnceInv
<1> QED
  BY <1>2, <1>4, <1>5, <1>6 DEF OnceInv

LEMMA OnceDrops ==
    ASSUME KeptInv, OnceInv, NEW a \in Attempts, DropRuntime(a)
    PROVE  OnceInv'
<1> DEFINE r == attempt[a]
           s == attempt'[a]
<1>1. KindFits(r)
  BY DEF OnceInv
<1>2. /\ r.pc = "begun" /\ s.pc = "view" /\ Same(r, s) /\ once' = once
      /\ \A b \in Attempts \ {a} : Fades(attempt[b], attempt'[b])
  BY <1>1, DropFades
<1>3. confirms' = confirms
  BY DEF DropRuntime, userVars
<1>4. ASSUME NEW t, NEW u, KindFits(t), Fades(t, u), Alone(r, t), Alone(t, r), Apart(t, r)
      PROVE  Alone(s, u) /\ Alone(u, s) /\ Apart(s, u) /\ Apart(u, s)
  <2> HIDE DEF r, s
  <2>1. Alone(s, u) /\ Alone(u, s)
    BY <1>1, <1>2, <1>4 DEF Alone, Same, Fades, KindFits, Moves, Settled
  <2>2. Apart(s, u) /\ Apart(u, s)
    BY <1>1, <1>2, <1>4 DEF Apart, HasTaken, Same, Fades, Moves, Settled
  <2> QED
    BY <2>1, <2>2
<1>5. ASSUME NEW t, NEW u, KindFits(t), Fades(t, u)
      PROVE  /\ KindFits(u) /\ u.once = t.once /\ u.held = t.held /\ (HasTaken(u) => HasTaken(t))
  BY <1>5 DEF KindFits, Fades, HasTaken
<1>6. ASSUME NEW p, NEW q, NEW t, NEW u, KindFits(p), KindFits(t), Fades(p, q), Fades(t, u), Alone(p, t), Apart(p, t)
      PROVE  Alone(q, u) /\ Apart(q, u)
  BY <1>6 DEF Alone, Apart, HasTaken, Fades, Moves, Settled, KindFits
<1> HIDE DEF r, s
<1>7. KindFits(s) /\ s.once = r.once /\ s.held = r.held /\ ~HasTaken(s)
  BY <1>1, <1>2 DEF KindFits, Same, PCs, HasTaken
<1>8. \A b \in Attempts : KindFits(attempt[b])
  BY DEF OnceInv
<1>9. \A b, c \in Attempts : b # c => Alone(attempt'[b], attempt'[c]) /\ Apart(attempt'[b], attempt'[c])
  <2> SUFFICES ASSUME NEW b \in Attempts, NEW c \in Attempts, b # c
               PROVE  Alone(attempt'[b], attempt'[c]) /\ Apart(attempt'[b], attempt'[c])
    OBVIOUS
  <2>1. /\ Alone(attempt[b], attempt[c]) /\ Apart(attempt[b], attempt[c])
        /\ Alone(attempt[c], attempt[b]) /\ Apart(attempt[c], attempt[b])
    BY DEF OnceInv
  <2>2. CASE b = a
    BY <1>2, <1>4, <1>8, <2>1, <2>2 DEF r, s
  <2>3. CASE c = a
    BY <1>2, <1>4, <1>8, <2>1, <2>3 DEF r, s
  <2>4. CASE b # a /\ c # a
    BY <1>2, <1>6, <1>8, <2>1, <2>4
  <2> QED
    BY <2>2, <2>3, <2>4
<1>10. \A b \in Attempts : /\ KindFits(attempt'[b])
                           /\ Numbers(attempt'[b].once) \cup Numbers(attempt'[b].held) \subseteq 1 .. confirms
                           /\ HasTaken(attempt'[b]) => Numbers(attempt'[b].once) \cap Numbers(once) = {}
  <2> SUFFICES ASSUME NEW b \in Attempts
               PROVE  /\ KindFits(attempt'[b])
                      /\ Numbers(attempt'[b].once) \cup Numbers(attempt'[b].held) \subseteq 1 .. confirms
                      /\ HasTaken(attempt'[b]) => Numbers(attempt'[b].once) \cap Numbers(once) = {}
    OBVIOUS
  <2>1. /\ Numbers(attempt[b].once) \cup Numbers(attempt[b].held) \subseteq 1 .. confirms
        /\ HasTaken(attempt[b]) => Numbers(attempt[b].once) \cap Numbers(once) = {}
    BY DEF OnceInv
  <2>2. CASE b = a
    BY <1>7, <2>1, <2>2 DEF r, s
  <2>3. CASE b # a
    BY <1>2, <1>5, <1>8, <2>1, <2>3
  <2> QED
    BY <2>2, <2>3
<1> QED
  BY <1>2, <1>3, <1>9, <1>10 DEF OnceInv

(* A new confirmation has a number that nobody knows.                      *)
LEMMA OnceTrusts == ASSUME KeptInv, OnceInv, TrustOnce PROVE OnceInv'
<1> DEFINE new == [n |-> confirms + 1, ep |-> scan.ep, key |-> scan.key]
<1>1. confirms' = confirms + 1 /\ once' = once \cup {new} /\ attempt' = attempt
  BY DEF TrustOnce
<1>2. new.n = confirms + 1
  OBVIOUS
<1> HIDE DEF new
<1>3. Numbers(once') = Numbers(once) \cup {confirms + 1}
  BY <1>1, <1>2 DEF Numbers
<1>4. confirms \in Nat
  BY DEF KeptInv
<1>5. 1 .. confirms \subseteq 1 .. confirms' /\ confirms + 1 \in 1 .. confirms' /\ confirms + 1 \notin 1 .. confirms
  BY <1>1, <1>4
<1> QED
  BY <1>1, <1>3, <1>5 DEF OnceInv

LEMMA OnceNext == ASSUME KeptInv, OnceInv, [Next]_vars PROVE OnceInv'
<1>1. CASE Close \/ DeleteProfile \/ \E a \in Attempts : CancelOpen(a)
  <2>1. confirms' = confirms /\ once' \subseteq once
    BY <1>1, Zenon DEF Close, DeleteProfile, CancelOpen, userVars
  <2>2. Numbers(once') \subseteq Numbers(once)
    BY <2>1 DEF Numbers
  <2> QED
    BY <1>1, <2>1, <2>2, CloseFades, OnceFades
<1>2. ASSUME NEW a \in Attempts, AttemptStep(a) PROVE OnceInv'
  BY <1>1, <1>2, OnceBegins, OnceDrops, OnceMoves, AttemptMoves
<1>3. CASE UserStep /\ ~Close /\ ~DeleteProfile
  <2>1. CASE UNCHANGED <<attempt, once, confirms>>
    BY <2>1 DEF OnceInv
  <2> QED
    BY <1>3, <2>1, UserSpares, OnceTrusts
<1>4. CASE UNCHANGED vars
  BY <1>4 DEF vars, OnceInv
<1> QED
  BY <1>1, <1>2, <1>3, <1>4 DEF Next

LEMMA TrustInit == Init => ChainInv /\ OnceInv
<1> SUFFICES ASSUME Init PROVE ChainInv /\ OnceInv
  OBVIOUS
<1>1. kept = {} /\ once = {} /\ confirms = 0 /\ attempt = [a \in Attempts |-> NoAttempt]
  BY DEF Init
<1>2. profile.removed = 0
  BY DEF Init
<1>3. /\ NoAttempt.pc = "idle" /\ NoAttempt.kind = "open" /\ NoAttempt.superseded = FALSE
      /\ NoAttempt.once = {} /\ NoAttempt.held = {}
  BY DEF NoAttempt
<1>4. \A a \in Attempts : attempt[a] = NoAttempt
  BY <1>1
<1>5. ChainInv
  BY <1>1, <1>2, <1>3, <1>4 DEF ChainInv, KeptPairs, ChainFits, OnItsWay
<1>6. Numbers({}) = {}
  BY DEF Numbers
<1>7. KindFits(NoAttempt) /\ Alone(NoAttempt, NoAttempt) /\ Apart(NoAttempt, NoAttempt) /\ ~HasTaken(NoAttempt)
  BY <1>3 DEF KindFits, Alone, Apart, HasTaken, PCs, Moves, Settled
<1>8. OnceInv
  BY <1>1, <1>3, <1>4, <1>6, <1>7 DEF OnceInv
<1> QED
  BY <1>5, <1>8

(* The key of the target is stored by persist_observed_host_key alone.     *)
LEMMA RevocationStops ==
    ASSUME KeptInv, ChainInv, OnceInv, [Next]_vars, NEW a \in Attempts,
           At(a, "persist"), attempt'[a].pc = "terminal", ~Ignore(a), NEW i \in 1 .. Target
    PROVE  \/ <<Hops[i], attempt[a].keys[i]>> \in kept'
           \/ attempt[a].keys[i] \in Confirmed(attempt[a].once, Hops[i])
<1>1. attempt[a].pc = "persist" /\ attempt'[a] # attempt[a]
      /\ ~Fades(attempt[a], attempt'[a]) /\ ~Dies(attempt[a], attempt'[a])
  BY DEF At, Fades, Dies
<1>2. PersistHostKey(a)
  <2>1. ~UNCHANGED vars
    BY <1>1 DEF vars
  <2>2. ~Close /\ ~DeleteProfile /\ ~ \E c \in Attempts : CancelOpen(c)
    BY <1>1, CloseFades
  <2>3. ~UserStep
    BY <1>1, <2>2, UserSpares
  <2>4. PICK c \in Attempts : AttemptStep(c)
    BY <2>1, <2>3 DEF Next
  <2>5. ~BeginOpen(c) /\ ~BeginReconnect(c) /\ ~DropRuntime(c)
    <3>1. ~BeginOpen(c) /\ ~BeginReconnect(c)
      BY <1>1, BeginMoves
    <3>2. ~DropRuntime(c)
      BY <1>1, DropFades DEF OnceInv
    <3> QED
      BY <3>1, <3>2
  <2>6. c = a
    BY <1>1, <2>2, <2>4, <2>5, AttemptMoves
  <2>7. PersistJumpKey(a) \/ PersistHostKey(a) \/ PersistRefused(a)
    <3>1. /\ ~ConnectJump(a) /\ ~ConnectTarget(a) /\ ~LibsshConnect(a) /\ ~LibsshVerify(a)
          /\ ~AuthenticateJump(a) /\ ~OpenTerminal(a) /\ ~LibsshOpenTerminal(a)
          /\ ~AuthenticateTarget(a) /\ ~LibsshAuthenticate(a)
      BY <1>1 DEF ConnectJump, ConnectTarget, LibsshConnect, LibsshVerify, AuthenticateJump,
            OpenTerminal, LibsshOpenTerminal, AuthenticateTarget, LibsshAuthenticate, At
    <3>2. /\ ~StepFails(a) /\ ~TakeView(a) /\ ~HostKeyRejected(a) /\ ~InsertRuntime(a) /\ ~CommitOpen(a)
          /\ ~CommitOpenFails(a) /\ ~RollBack(a) /\ ~InstallReconnect(a) /\ ~ReconnectNotInstalled(a)
          /\ ~TakeAfterReconnect(a)
      BY <1>1 DEF StepFails, TakeView, HostKeyRejected, InsertRuntime, CommitOpen, CommitOpenFails, RollBack,
                  InstallReconnect, ReconnectNotInstalled, TakeAfterReconnect, At
    <3> QED
      BY <2>2, <2>4, <2>5, <2>6, <3>1, <3>2 DEF AttemptStep
  <2>8. ~PersistRefused(a)
    <3>1. PersistRefused(a) => attempt'[a].pc = "ended"
      BY FailsAt DEF PersistRefused, Fails
    <3> QED
      BY <3>1
  <2>9. ~PersistJumpKey(a)
    <3> SUFFICES ASSUME PersistJumpKey(a) PROVE attempt'[a].pc # "terminal"
      OBVIOUS
    <3> DEFINE hop == attempt[a].hop + 1
               r == [attempt[a] EXCEPT !.pc = "connect", !.hop = hop]
    <3>1. Becomes(a, r) /\ IsAttempt(attempt[a])
      BY DEF PersistJumpKey, KeptInv
    <3> HIDE DEF hop
    <3>2. r \in [pc : {"connect"}, kind : {attempt[a].kind}, hop : {hop},
              copy : {attempt[a].copy}, view : {attempt[a].view}, once : {attempt[a].once},
              keys : {attempt[a].keys}, method : {attempt[a].method}, oneKey : {attempt[a].oneKey},
              superseded : {attempt[a].superseded}, held : {attempt[a].held}]
      BY <3>1 DEF IsAttempt
    <3> HIDE DEF r
    <3>3. attempt'[a] = r
      BY <3>1, Becoming
    <3> QED
      BY <3>2, <3>3
  <2> QED
    BY <2>7, <2>8, <2>9
<1>3. /\ attempt[a].hop = Target /\ profile.removed = attempt[a].copy.removed
      /\ PersistOutcome(a) # "refused" /\ KeepKey(a)
  BY <1>2 DEF PersistHostKey, MatchesWithStoreMirrors
<1>4. /\ Len(attempt[a].keys) = Target /\ Behind(attempt[a], kept) /\ Target \in Nat
  <2>1. ChainFits(attempt[a], kept, profile.removed)
    BY DEF ChainInv
  <2>2. ~Ignores(attempt[a])
    BY DEF Ignore, Ignores
  <2> QED
    BY <1>1, <1>3, <2>1, <2>2 DEF ChainFits, OnItsWay
<1>5. kept \subseteq kept'
  BY <1>3, GrowsByKey
<1>6. CASE i = Target
  <2>1. attempt[a].keys[i] = Last(attempt[a].keys) /\ Hops[i] = Hop(a)
    BY <1>3, <1>4, <1>6 DEF Last, Hop
  <2>2. KeptPairs
    BY DEF ChainInv
  <2> QED
    BY <1>3, <2>1, <2>2, PersistedIsTrusted
<1>7. CASE i \in 1 .. Target - 1
  BY <1>3, <1>4, <1>5, <1>7 DEF Behind
<1> QED
  BY <1>4, <1>6, <1>7

(* Who is installed was not superseded, and an open that was installed     *)
(* before has used nothing that he knows.                                  *)
LEMMA AskedAgain ==
    ASSUME KeptInv, OnceInv, [Next]_vars, NEW a \in Attempts, NEW b \in Attempts, a # b,
           At(a, "installed"), attempt[a].kind = "open",
           attempt[b].pc \in {"commit", "install"}, attempt'[b].pc \in {"installed", "take"}
    PROVE  Used(a) \cap Used(b) = {}
<1>1. /\ KindFits(attempt[b]) /\ Apart(attempt[a], attempt[b]) /\ HasTaken(attempt[a])
  BY DEF OnceInv, HasTaken, At
<1>2. attempt'[b] # attempt[b]
      /\ ~Fades(attempt[b], attempt'[b]) /\ ~Dies(attempt[b], attempt'[b])
  BY DEF Fades, Dies
<1>3. Moved(attempt[b], attempt'[b], once, once')
  <2>1. ~UNCHANGED vars
    BY <1>2 DEF vars
  <2>2. ~Close /\ ~DeleteProfile /\ ~ \E c \in Attempts : CancelOpen(c)
    BY <1>2, CloseFades
  <2>3. ~UserStep
    BY <1>2, <2>2, UserSpares
  <2>4. PICK c \in Attempts : AttemptStep(c)
    BY <2>1, <2>3 DEF Next
  <2>5. ~BeginOpen(c) /\ ~BeginReconnect(c)
    BY <1>2, BeginMoves
  <2>6. ~DropRuntime(c)
    BY <1>2, DropFades DEF OnceInv
  <2> QED
    BY <1>2, <2>2, <2>4, <2>5, <2>6, AttemptMoves
<1>4. ~attempt[b].superseded
  <2> DEFINE r == attempt[b]
             s == attempt'[b]
  <2>1. KindFits(r) /\ Moved(r, s, once, once') /\ r.pc \in {"commit", "install"} /\ s.pc \in {"installed", "take"}
    BY <1>1, <1>3
  <2> HIDE DEF r, s
  <2>2. ~r.superseded
    BY <2>1 DEF Moved, KindFits, Onward, Sees, Proceeds, Commits, Views, Collects, Ends
  <2> QED
    BY <2>2 DEF r
<1>5. Numbers(attempt[a].once) \cap Numbers(attempt[b].once) = {}
  BY <1>1, <1>4 DEF Apart, Moves, Settled
<1>6. Used(a) \subseteq Numbers(attempt[a].once) /\ Used(b) \subseteq Numbers(attempt[b].once)
  BY DEF Used, Numbers
<1> QED
  BY <1>5, <1>6

(* When the key of the target is stored, every key of the chain is kept or *)
(* was confirmed, whatever keys the user has removed meanwhile             *)
(* (persist_observed_host_key after ssh_establishment_profile_matches);    *)
(* and a confirmation "for this connection only" that an open has used     *)
(* serves no connection installed later (take_one_time_host_keys): for any *)
(* number of attempts, hosts, keys and policies.                           *)
THEOREM KeysStayTrusted == Spec => KeysAreTrusted
<1> DEFINE Stops ==
             \A a \in Attempts :
                At(a, "persist") /\ attempt'[a].pc = "terminal" /\ ~ Ignore(a) =>
                    \A i \in 1 .. Target :
                        \/ <<Hops[i], attempt[a].keys[i]>> \in kept'
                        \/ attempt[a].keys[i] \in Confirmed(attempt[a].once, Hops[i])
           Asks ==
             \A a, b \in Attempts :
                /\ a # b
                /\ At(a, "installed") /\ attempt[a].kind = "open"
                /\ attempt[b].pc \in {"commit", "install"} /\ attempt'[b].pc \in {"installed", "take"}
                => Used(a) \cap Used(b) = {}
<1>1. KeptInv /\ ChainInv /\ OnceInv /\ [Next]_vars => Stops
  BY RevocationStops
<1>2. KeptInv /\ OnceInv /\ [Next]_vars => Asks
  BY AskedAgain
<1>3. KeptInv /\ ChainInv /\ OnceInv /\ [Next]_vars => ChainInv' /\ OnceInv'
  BY ChainNext, OnceNext
<1> HIDE DEF Stops, Asks
<1>4. [][Stops]_vars /\ [][Asks]_vars => KeysAreTrusted
  BY DEF KeysAreTrusted, RevokedStopsConnect, AskedEveryTime, Stops, Asks
<1> QED
  BY <1>1, <1>2, <1>3, <1>4, KeptInit, KeptStep, TrustInit, PTL DEF Spec

----------------------------------------------------------------------------
(* The composition.                                                        *)

(* The connection behaves as SshConnection says and the forwards as        *)
(* RemoteForwards says, whatever the work is about.                        *)
LEMMA WorkIsBoth == WorkSpec => Spec /\ ForwardSpec
<1>1. WorkInit => Init /\ ForwardInit
  BY DEF WorkInit
<1>2. [WorkNext]_workVars => [Next]_vars
  BY Zenon DEF WorkNext, workVars
<1>3. [WorkNext]_workVars => [ForwardNext]_forwardVars
  BY Zenon DEF WorkNext, workVars
<1> QED
  BY <1>1, <1>2, <1>3, PTL DEF WorkSpec, Spec, ForwardSpec

(* So the composition that is model-checked keeps the four as well.        *)
THEOREM WorkIsSafe ==
    WorkSpec => [](FirstUseIsUnique /\ ConfirmationIsKept /\ ForwardsAreServed) /\ KeysAreTrusted
  BY WorkIsBoth, FirstUseTrustsOneKey, ConfirmationsAreNotLost, KeysStayTrusted, ForwardsStayServed, PTL

----------------------------------------------------------------------------
(* Connections through tunnels and proxies.                                *)

(* TunnelClient counts with its own instance of FiniteSets.                *)
LEMMA SameCount == \A S : Tunnels!Cardinality(S) = Cardinality(S)
  BY Zenon DEF Tunnels!Cardinality, Cardinality

Tokens == {"hello", "request", "bad", "data", "eof", "close", "none", "reset",
           "status", "method", "auth", "bound"}
Streams == Seq(Tokens)

PlacesOf(s) == {i \in 1 .. Len(s) : s[i] = "data"}
NoData(s) == \A i \in 1 .. Len(s) : s[i] # "data"

LEMMA PiecesOf == \A s : Tunnels!Pieces(s) = Cardinality(PlacesOf(s))
  BY SameCount, Zenon DEF Tunnels!Pieces, PlacesOf

LEMMA PiecesType ==
    ASSUME NEW s \in Streams
    PROVE  IsFiniteSet(PlacesOf(s)) /\ Tunnels!Pieces(s) \in Nat /\
           PlacesOf(s) \subseteq 1 .. Len(s)
<1>1. Len(s) \in Nat /\ IsFiniteSet(1 .. Len(s))
  BY FS_Interval DEF Streams
<1>2. PlacesOf(s) \in SUBSET (1 .. Len(s))
  BY DEF PlacesOf
<1>3. IsFiniteSet(PlacesOf(s))
  BY <1>1, <1>2, FS_Subset, Zenon
<1>4. Cardinality(PlacesOf(s)) \in Nat
  BY <1>3, FS_CardinalityType, Zenon
<1> QED
  BY <1>2, <1>3, <1>4, PiecesOf, Zenon

LEMMA NoPieces ==
    ASSUME NEW s \in Streams
    PROVE  NoData(s) <=> Tunnels!Pieces(s) = 0
<1>1. IsFiniteSet(PlacesOf(s)) /\ Tunnels!Pieces(s) = Cardinality(PlacesOf(s))
  BY PiecesType, PiecesOf, Zenon
<1>2. NoData(s) <=> PlacesOf(s) = {}
  BY DEF NoData, PlacesOf
<1> QED
  BY <1>1, <1>2, FS_EmptySet, Zenon

LEMMA PiecesAppend ==
    ASSUME NEW s \in Streams, NEW t \in Tokens
    PROVE  /\ Append(s, t) \in Streams
           /\ Tunnels!Pieces(Append(s,
                  t)) = IF t = "data" THEN Tunnels!Pieces(s) + 1 ELSE Tunnels!Pieces(s)
<1> DEFINE e == Append(s, t)
<1>1. /\ e \in Streams /\ Len(e) = Len(s) + 1 /\ Len(s) \in Nat
      /\ \A i \in 1 .. Len(s) : e[i] = s[i]
      /\ e[Len(s) + 1] = t
  BY DEF Streams
<1>2. PlacesOf(e) = IF t = "data" THEN PlacesOf(s) \cup {Len(s) + 1} ELSE PlacesOf(s)
  <2> HIDE DEF e
  <2> QED
    BY <1>1 DEF PlacesOf
<1>3. Len(s) + 1 \notin PlacesOf(s)
  BY <1>1 DEF PlacesOf
<1>4. Cardinality(PlacesOf(s) \cup {Len(s) + 1}) = Cardinality(PlacesOf(s)) + 1
  BY <1>3, PiecesType, FS_AddElement, Zenon
<1> HIDE DEF e
<1>5. Tunnels!Pieces(e) = IF t = "data" THEN Tunnels!Pieces(s) + 1 ELSE Tunnels!Pieces(s)
  BY <1>2, <1>4, PiecesOf, Zenon
<1> QED
  BY <1>1, <1>5, Zenon DEF e

(* A read takes the first piece of a stream, or the first k. *)
LEMMA PiecesTail ==
    ASSUME NEW s \in Streams, s # <<>>
    PROVE  /\ Tail(s) \in Streams /\ Len(Tail(s)) = Len(s) - 1
           /\ \A i \in 1 .. Len(Tail(s)) : Tail(s)[i] = s[i + 1]
           /\ Head(s) = s[1] /\ Len(s) \in Nat \ {0} /\ s[1] \in Tokens
           /\ Tunnels!Pieces(Tail(s)) = IF s[1] = "data" THEN Tunnels!Pieces(s) - 1 ELSE Tunnels!Pieces(s)
<1> DEFINE e == Tail(s)
<1>1. /\ e \in Streams /\ Len(e) = Len(s) - 1 /\ Len(s) \in Nat \ {0}
      /\ \A i \in 1 .. Len(e) : e[i] = s[i + 1]
      /\ Head(s) = s[1] /\ s[1] \in Tokens
  BY HeadTailProperties DEF Streams
<1> HIDE DEF e
<1> DEFINE rest == PlacesOf(s) \ {1}
           f == [i \in PlacesOf(e) |-> i + 1]
<1>2. \A i \in PlacesOf(e) : i \in 1 .. Len(e) /\ i + 1 \in rest
  BY <1>1 DEF PlacesOf
<1>3. \A j \in rest : j - 1 \in PlacesOf(e) /\ j - 1 + 1 = j
  BY <1>1 DEF PlacesOf
<1>4. f \in Bijection(PlacesOf(e), rest)
  <2>1. f \in [PlacesOf(e) -> rest]
    BY <1>2
  <2>2. \A i, j \in PlacesOf(e) : f[i] = f[j] => i = j
    BY <1>2
  <2>3. \A j \in rest : \E i \in PlacesOf(e) : f[i] = j
    BY <1>3
  <2> HIDE DEF f, rest
  <2> QED
    BY <2>1, <2>2, <2>3, Zenon DEF Bijection, Injection, Surjection, IsInjective
<1> HIDE DEF f
<1>5. Cardinality(rest) = Cardinality(PlacesOf(e))
  BY <1>1, <1>4, PiecesType, FS_Bijection, Zenon DEF ExistsBijection
<1>6. Cardinality(rest) = IF 1 \in PlacesOf(s) THEN Cardinality(PlacesOf(s)) - 1
                                              ELSE Cardinality(PlacesOf(s))
  BY PiecesType, FS_RemoveElement, Zenon
<1>7. 1 \in PlacesOf(s) <=> s[1] = "data"
  BY <1>1 DEF PlacesOf
<1>8. Tunnels!Pieces(e) = IF s[1] = "data" THEN Tunnels!Pieces(s) - 1 ELSE Tunnels!Pieces(s)
  BY <1>5, <1>6, <1>7, PiecesOf, Zenon
<1> QED
  BY <1>1, <1>8, Zenon DEF e

LEMMA PiecesRest ==
    ASSUME NEW s \in Streams, NEW k \in 1 .. Len(s), \A i \in 1 .. k : s[i] = "data"
    PROVE  /\ SubSeq(s, k + 1, Len(s)) \in Streams
           /\ Len(SubSeq(s, k + 1, Len(s))) = Len(s) - k
           /\ \A i \in 1 .. Len(s) - k : SubSeq(s, k + 1, Len(s))[i] = s[i + k]
           /\ Tunnels!Pieces(SubSeq(s, k + 1, Len(s))) = Tunnels!Pieces(s) - k
<1> DEFINE e == SubSeq(s, k + 1, Len(s))
<1>0. Len(s) \in Nat /\ k \in Nat /\ k <= Len(s) /\ \A i \in k + 1 .. Len(s) : s[i] \in Tokens
  BY DEF Streams
<1>1. /\ e \in Seq(Tokens) /\ Len(e) = IF k + 1 <= Len(s) THEN Len(s) - (k + 1) + 1 ELSE 0
      /\ \A i \in 1 .. Len(s) - (k + 1) + 1 : e[i] = s[k + 1 + i - 1]
  <2>1. k + 1 \in Int /\ Len(s) \in Int
    BY <1>0
  <2> QED
    BY <1>0, <2>1, SubSeqProperties
<1>2. /\ e \in Streams /\ Len(e) = Len(s) - k /\ \A i \in 1 .. Len(s) - k : e[i] = s[i + k]
  <2> HIDE DEF e
  <2> QED
    BY <1>0, <1>1 DEF Streams
<1> HIDE DEF e
<1> DEFINE rest == PlacesOf(s) \ (1 .. k)
           f == [i \in PlacesOf(e) |-> i + k]
<1>3. \A i \in PlacesOf(e) : i \in 1 .. Len(e) /\ i + k \in rest
  BY <1>0, <1>2 DEF PlacesOf
<1>4. \A j \in rest : j - k \in PlacesOf(e) /\ j - k + k = j
  BY <1>0, <1>2 DEF PlacesOf
<1>5. f \in Bijection(PlacesOf(e), rest)
  <2>1. f \in [PlacesOf(e) -> rest]
    BY <1>3
  <2>2. \A i, j \in PlacesOf(e) : f[i] = f[j] => i = j
    BY <1>0, <1>3
  <2>3. \A j \in rest : \E i \in PlacesOf(e) : f[i] = j
    BY <1>4
  <2> HIDE DEF f, rest
  <2> QED
    BY <2>1, <2>2, <2>3, Zenon DEF Bijection, Injection, Surjection, IsInjective
<1> HIDE DEF f
<1>6. IsFiniteSet(rest) /\ Cardinality(rest) = Cardinality(PlacesOf(e))
  BY <1>2, <1>5, PiecesType, FS_Bijection, Zenon DEF ExistsBijection
<1>7. IsFiniteSet(1 .. k) /\ Cardinality(1 .. k) = k
  BY <1>0, FS_Interval
<1>8. PlacesOf(s) = rest \cup (1 .. k) /\ rest \cap (1 .. k) = {}
  BY <1>0 DEF PlacesOf
<1>9. Cardinality(PlacesOf(s)) = Cardinality(rest) + k
  <2> HIDE DEF rest
  <2>1. Cardinality(rest \cup (1 .. k)) = Cardinality(rest) + Cardinality(1 .. k) - Cardinality(rest \cap (1 .. k))
    BY <1>6, <1>7, FS_Union, Zenon
  <2>2. Cardinality(rest \cap (1 .. k)) = 0 /\ Cardinality(rest) \in Nat
    BY <1>6, <1>8, FS_EmptySet, FS_CardinalityType, Zenon
  <2> QED
    BY <1>0, <1>7, <1>8, <2>1, <2>2
<1>10. Tunnels!Pieces(e) = Tunnels!Pieces(s) - k
  BY <1>0, <1>2, <1>6, <1>9, PiecesOf, PiecesType
<1> QED
  BY <1>2, <1>10, Zenon DEF e

Handshake == {"hello", "request", "route"}
Pcs == Handshake \cup {"new", "open", "place", "pipe", "write", "read", "ended", "refused", "done",
                       "proxy", "handed"}

ClientRecs ==
    [pc : Pcs, kind : Tunnels!Kinds, target : Targets, inbox : Streams, chan : Streams,
     upSent : Nat, downSent : Nat, up : Seq(Nat), down : Seq(Nat), localEof : BOOLEAN,
     remoteEof : BOOLEAN, truncated : BOOLEAN, timedOut : BOOLEAN, result : {"none", "ok", "error"}]

(* No data comes after the end of a direction. *)
Stops == {"eof", "close", "none", "reset"}
EndsLast(stream, ends) ==
    \A i \in 1 .. Len(stream) : \A j \in 1 .. Len(stream) :
        i < j /\ stream[i] \in ends => stream[j] # "data"

WellEnded(r) == r.pc = "ended" /\ r.result = "ok"

PlaceFits(r) ==
    /\ r.pc \in Handshake => r.kind \in Tunnels!Dynamic
    /\ r.pc \in {"place", "write", "read"} => r.kind \in Tunnels!Exchanges
    /\ r.pc = "pipe" => r.kind \in Tunnels!Piped
    /\ r.pc = "open" => r.kind \notin Tunnels!Proxied
    /\ r.pc \in {"proxy", "handed"} => r.kind \in Tunnels!Proxied
    /\ r.pc = "new" => r.chan = <<>> /\ r.up = <<>> /\ r.upSent = 0 /\ r.downSent = 0

RouteFits(r) ==
    r.kind \in Tunnels!Dynamic \cup Tunnels!Exchanges /\ r.pc \in {"place", "open", "pipe",
           "write", "read"} =>
        Tunnels!RouteAllowed(r.target)

DownFits(r) ==
    r.kind \in Tunnels!Piped =>
        /\ \A i \in 1 .. Len(r.down) : r.down[i] = i
        /\ Len(r.down) + Tunnels!Pieces(r.chan) = r.downSent
        /\ EndsLast(r.chan, Stops)
        /\ r.remoteEof \/ WellEnded(r) => NoData(r.chan)

UpFits(r) ==
    r.kind \in Tunnels!Piped =>
        /\ Len(r.up) + Tunnels!Pieces(r.inbox) = r.upSent
        /\ EndsLast(r.inbox, {"eof"})
        /\ r.localEof => NoData(r.inbox)

ResponseFits(r) ==
    r.kind \in Tunnels!Exchanges =>
        /\ Len(r.down) <= MaxResponse
        /\ EndsLast(r.chan, Stops)
        /\ r.kind = "tcp" /\ ~r.truncated => Len(r.down) + Tunnels!Pieces(r.chan) = r.downSent
        /\ r.kind = "tcp" /\ WellEnded(r) /\ ~r.truncated /\ ~r.timedOut => NoData(r.chan)

(* The answers of the proxy that were not read come before the data. *)
ProxyFits(r) ==
    r.kind \in Tunnels!Proxied /\ r.pc \in {"proxy", "handed"} =>
        LET answers == Len(Tunnels!Replies(r.kind))
            unread  == r.upSent - Len(r.up)
        IN  /\ Len(r.up) <= r.upSent /\ r.upSent <= answers
            /\ r.downSent > 0 => r.upSent = answers
            /\ Len(r.chan) = unread + r.downSent
            /\ \A i \in 1 .. Len(r.chan) : i > unread <=> r.chan[i] = "data"
            /\ r.pc = "handed" <=> Len(r.up) = answers

Proper(r) ==
    /\ r \in ClientRecs
    /\ PlaceFits(r) /\ RouteFits(r) /\ DownFits(r) /\ UpFits(r) /\ ResponseFits(r) /\ ProxyFits(r)

LEMMA RecordOf == \A r : Proper(r) => r \in ClientRecs
  BY DEF Proper

LEMMA SortsOfKinds ==
    /\ Tunnels!Piped \cap Tunnels!Exchanges = {} /\ Tunnels!Piped \cap Tunnels!Proxied = {} /\
           Tunnels!Exchanges \cap Tunnels!Proxied = {}
    /\ Tunnels!Dynamic \subseteq Tunnels!Piped /\ Tunnels!OverSsh \subseteq Tunnels!Piped
  BY DEF Tunnels!Piped, Tunnels!Exchanges, Tunnels!Proxied, Tunnels!Dynamic, Tunnels!OverSsh

LEMMA ProperFresh ==
    ASSUME NEW kind \in Tunnels!Kinds, NEW target \in Targets PROVE Proper(Tunnels!Fresh(kind,
           target))
<1> DEFINE z == Tunnels!Fresh(kind, target)
<1>0. <<>> \in Streams /\ <<>> \in Seq(Nat) /\ Len(<<>>) = 0 /\ Tunnels!Pieces(<<>>) = 0 /\
       NoData(<<>>)
  <2>1. <<>> \in Streams /\ NoData(<<>>) /\ Len(<<>>) = 0
    BY EmptySeq DEF Streams, NoData
  <2> QED
    BY <2>1, NoPieces, EmptySeq, Zenon
<1>1. /\ z \in ClientRecs /\ z.pc = "new" /\ z.kind = kind /\ z.chan = <<>> /\ z.inbox = <<>>
      /\ z.up = <<>> /\ z.down = <<>> /\ z.upSent = 0 /\ z.downSent = 0 /\ z.result = "none"
  BY <1>0 DEF Tunnels!Fresh, ClientRecs, Pcs
<1> HIDE DEF z
<1>2. PlaceFits(z) /\ RouteFits(z) /\ ProxyFits(z)
  BY <1>1 DEF PlaceFits, RouteFits, ProxyFits, Handshake
<1>3. DownFits(z) /\ UpFits(z)
  BY <1>0, <1>1 DEF DownFits, UpFits, EndsLast, WellEnded, NoData
<1>4. ResponseFits(z)
  BY <1>0, <1>1, ClientsAssumption DEF ResponseFits, EndsLast, WellEnded, NoData
<1> QED
  BY <1>1, <1>2, <1>3, <1>4 DEF Proper, z

LEMMA Counted ==
    ASSUME NEW m \in ClientRecs, NEW n \in Nat
    PROVE  [m EXCEPT !.upSent = n] \in ClientRecs /\ [m EXCEPT !.downSent = n] \in ClientRecs
  BY DEF ClientRecs

LEMMA OneMore == \A a, b, n \in Nat : a + b = n => a + (b + 1) = n + 1
  OBVIOUS

(* A connection comes to another place. *)
To(r, pc) == [r EXCEPT !.pc = pc]
EndsAs(r, result) == [r EXCEPT !.pc = "ended", !.result = result]

LEMMA ProperTo ==
    ASSUME NEW r, Proper(r), NEW pc \in Pcs \ {"ended", "new", "proxy", "handed"},
           PlaceFits(To(r, pc)), RouteFits(To(r, pc))
    PROVE  Proper(To(r, pc))
<1> DEFINE z == To(r, pc)
<1>1. /\ z \in ClientRecs /\ z.pc = pc /\ z.kind = r.kind /\ z.chan = r.chan /\ z.inbox = r.inbox
      /\ z.up = r.up /\ z.down = r.down /\ z.upSent = r.upSent /\ z.downSent = r.downSent
      /\ z.localEof = r.localEof /\ z.remoteEof = r.remoteEof /\ z.truncated = r.truncated
  BY RecordOf DEF To, ClientRecs
<1>2. PlaceFits(z) /\ RouteFits(z)
  OBVIOUS
<1>0. pc # "ended" /\ pc # "proxy" /\ pc # "handed"
  OBVIOUS
<1> HIDE DEF z
<1>3. DownFits(z) /\ UpFits(z) /\ ResponseFits(z)
  BY <1>0, <1>1, Zenon DEF Proper, DownFits, UpFits, ResponseFits, WellEnded
<1>4. ProxyFits(z)
  BY <1>0, <1>1 DEF ProxyFits
<1> QED
  BY <1>1, <1>2, <1>3, <1>4, Zenon DEF Proper, z

LEMMA ProperFails ==
    ASSUME NEW r, Proper(r) PROVE Proper(EndsAs(r, "error"))
<1> DEFINE z == EndsAs(r, "error")
<1>0. z \in ClientRecs
  <2>1. r \in ClientRecs
    BY RecordOf
  <2> QED
    BY <2>1 DEF EndsAs, ClientRecs, Pcs
<1>1. /\ z.pc = "ended" /\ z.result = "error" /\ z.kind = r.kind /\ z.chan = r.chan
      /\ z.inbox = r.inbox /\ z.up = r.up /\ z.down = r.down /\ z.upSent = r.upSent
      /\ z.downSent = r.downSent /\ z.localEof = r.localEof /\ z.remoteEof = r.remoteEof
      /\ z.truncated = r.truncated
  BY RecordOf DEF EndsAs, ClientRecs
<1> HIDE DEF z
<1>2. PlaceFits(z) /\ RouteFits(z)
  BY <1>1 DEF PlaceFits, RouteFits, Handshake
<1>3. DownFits(z) /\ UpFits(z) /\ ResponseFits(z) /\ ProxyFits(z)
  BY <1>1, Zenon DEF Proper, DownFits, UpFits, ResponseFits, ProxyFits, WellEnded
<1> QED
  BY <1>0, <1>2, <1>3, Zenon DEF Proper, z

(* A step that keeps the place of a piped connection, or of a request. *)
SameRoute(r, z) == z.pc = r.pc /\ z.kind = r.kind /\ z.target = r.target

LEMMA ProperPiped ==
    ASSUME NEW r, Proper(r), r.kind \in Tunnels!Piped, r.pc # "new", NEW z \in ClientRecs,
           SameRoute(r, z),
           DownFits(z), UpFits(z)
    PROVE  Proper(z)
<1>1. PlaceFits(z) /\ RouteFits(z)
  BY Zenon DEF Proper, PlaceFits, RouteFits, SameRoute
<1>2. ResponseFits(z) /\ ProxyFits(z)
  BY SortsOfKinds DEF ResponseFits, ProxyFits, SameRoute
<1> QED
  BY <1>1, <1>2, Zenon DEF Proper

LEMMA ProperRequest ==
    ASSUME NEW r, Proper(r), r.kind \in Tunnels!Exchanges, r.pc # "new", NEW z \in ClientRecs,
           SameRoute(r, z),
           ResponseFits(z)
    PROVE  Proper(z)
<1>1. PlaceFits(z) /\ RouteFits(z)
  BY Zenon DEF Proper, PlaceFits, RouteFits, SameRoute
<1>2. DownFits(z) /\ UpFits(z) /\ ProxyFits(z)
  BY SortsOfKinds DEF DownFits, UpFits, ProxyFits, SameRoute
<1> QED
  BY <1>1, <1>2, Zenon DEF Proper

LEMMA ProperEnds ==
    ASSUME NEW r, Proper(r), r.kind \in Tunnels!Piped => NoData(r.chan),
           r.kind = "tcp" /\ ~r.truncated /\ ~r.timedOut => NoData(r.chan)
    PROVE  Proper(EndsAs(r, "ok"))
<1> DEFINE z == EndsAs(r, "ok")
<1>0. z \in ClientRecs
  <2>1. r \in ClientRecs
    BY RecordOf
  <2> QED
    BY <2>1 DEF EndsAs, ClientRecs, Pcs
<1>1. /\ z.pc = "ended" /\ z.kind = r.kind /\ z.chan = r.chan
      /\ z.inbox = r.inbox /\ z.up = r.up /\ z.down = r.down /\ z.upSent = r.upSent
      /\ z.downSent = r.downSent /\ z.localEof = r.localEof /\ z.remoteEof = r.remoteEof
      /\ z.truncated = r.truncated /\ z.timedOut = r.timedOut
  BY RecordOf DEF EndsAs, ClientRecs
<1> HIDE DEF z
<1>2. PlaceFits(z) /\ RouteFits(z)
  BY <1>1 DEF PlaceFits, RouteFits, Handshake
<1>3. DownFits(z) /\ UpFits(z) /\ ResponseFits(z)
  BY <1>1, Zenon DEF Proper, DownFits, UpFits, ResponseFits
<1>4. ProxyFits(z)
  BY <1>1 DEF ProxyFits
<1> QED
  BY <1>0, <1>2, <1>3, <1>4, Zenon DEF Proper, z

(* What an append and a read do to the order of data and ends. *)
LEMMA EndsLastAppend ==
    ASSUME NEW s \in Streams, NEW t \in Tokens, NEW ends, EndsLast(s, ends),
           t = "data" => \A i \in 1 .. Len(s) : s[i] \notin ends
    PROVE  EndsLast(Append(s, t), ends)
  BY DEF EndsLast, Streams

LEMMA EndsLastTail ==
    ASSUME NEW s \in Streams, s # <<>>, NEW ends, EndsLast(s, ends)
    PROVE  /\ EndsLast(Tail(s), ends)
           /\ NoData(s) => NoData(Tail(s))
           /\ Head(s) \in ends => NoData(Tail(s))
<1> DEFINE e == Tail(s)
<1>1. /\ Len(e) = Len(s) - 1 /\ Head(s) = s[1] /\ Len(s) \in Nat \ {0}
      /\ \A i \in 1 .. Len(e) : e[i] = s[i + 1]
  BY PiecesTail
<1> HIDE DEF e
<1>2. \A i \in 1 .. Len(e) : i + 1 \in 1 .. Len(s) /\ 1 < i + 1
  BY <1>1
<1>3. 1 \in 1 .. Len(s)
  BY <1>1
<1>4. EndsLast(e, ends)
  BY <1>1, <1>2 DEF EndsLast
<1>5. NoData(s) => NoData(e)
  BY <1>1, <1>2 DEF NoData
<1>6. Head(s) \in ends => NoData(e)
  BY <1>1, <1>2, <1>3 DEF EndsLast, NoData
<1> QED
  BY <1>4, <1>5, <1>6, Zenon DEF e

LEMMA NoDataAppend ==
    ASSUME NEW s \in Streams, NEW t \in Tokens, t # "data", NoData(s)
    PROVE  NoData(Append(s, t))
  BY DEF NoData, Streams

----------------------------------------------------------------------------
(* The direction to the target. *)

Sent(r, token) == [r EXCEPT !.inbox = Append(@, token)]
SentData(r) == [r EXCEPT !.inbox = Append(@, "data"), !.upSent = @ + 1]

LEMMA ProperSent ==
    ASSUME NEW r, Proper(r), r.kind \in Tunnels!Piped, r.pc # "new", NEW token \in Tokens \ {"data"}
    PROVE  Proper(Sent(r, token))
<1> DEFINE z == Sent(r, token)
<1>0. r \in ClientRecs /\ r.inbox \in Streams /\ token \in Tokens
  BY RecordOf DEF ClientRecs
<1>1. Append(r.inbox, token) \in Streams /\ Tunnels!Pieces(Append(r.inbox,
       token)) = Tunnels!Pieces(r.inbox)
  BY <1>0, PiecesAppend
<1>2. z \in ClientRecs
  BY <1>0, <1>1 DEF Sent, ClientRecs
<1>3. /\ SameRoute(r, z) /\ z.inbox = Append(r.inbox, token) /\ z.chan = r.chan /\
         z.result = r.result
      /\ z.up = r.up /\ z.down = r.down /\ z.upSent = r.upSent /\ z.downSent = r.downSent
      /\ z.localEof = r.localEof /\ z.remoteEof = r.remoteEof
  BY <1>0 DEF Sent, ClientRecs, SameRoute
<1> HIDE DEF z
<1>4. DownFits(z)
  BY <1>3, Zenon DEF DownFits, Proper, WellEnded, SameRoute
<1>5. Len(r.up) + Tunnels!Pieces(r.inbox) = r.upSent /\ EndsLast(r.inbox, {"eof"}) /\
       (r.localEof => NoData(r.inbox))
  BY Zenon DEF UpFits, Proper
<1>6. EndsLast(Append(r.inbox, token), {"eof"})
  BY <1>0, <1>5, EndsLastAppend
<1>7. r.localEof => NoData(Append(r.inbox, token))
  BY <1>0, <1>5, NoDataAppend
<1>8. UpFits(z)
  BY <1>1, <1>3, <1>5, <1>6, <1>7, Zenon DEF UpFits
<1> QED
  BY <1>2, <1>3, <1>4, <1>8, ProperPiped, Zenon DEF z

LEMMA ProperSentData ==
    ASSUME NEW r, Proper(r), r.kind \in Tunnels!Piped, r.pc # "new", ~ Tunnels!Contains(r.inbox,
           "eof"), ~r.localEof
    PROVE  Proper(SentData(r))
<1> DEFINE z == SentData(r)
<1>0. r \in ClientRecs /\ r.inbox \in Streams /\ "data" \in Tokens /\ r.upSent \in Nat /\
       Len(r.up) \in Nat
  BY RecordOf DEF ClientRecs, Tokens
<1>1. Append(r.inbox, "data") \in Streams /\ Tunnels!Pieces(Append(r.inbox,
       "data")) = Tunnels!Pieces(r.inbox) + 1
  BY <1>0, PiecesAppend, Zenon
<1>2. z \in ClientRecs
  <2> DEFINE m == [r EXCEPT !.inbox = Append(@, "data")]
  <2>1. m \in ClientRecs /\ m.upSent = r.upSent
    BY <1>0, <1>1 DEF ClientRecs
  <2>2. z = [m EXCEPT !.upSent = @ + 1]
    BY DEF SentData
  <2>3. m.upSent + 1 \in Nat
    BY <1>0, <2>1
  <2> HIDE DEF m, z
  <2> QED
    BY <2>1, <2>2, <2>3, Counted, Zenon
<1>3. /\ SameRoute(r, z) /\ z.inbox = Append(r.inbox, "data") /\ z.chan = r.chan /\
         z.result = r.result
      /\ z.up = r.up /\ z.down = r.down /\ z.upSent = r.upSent + 1 /\ z.downSent = r.downSent
      /\ z.localEof = r.localEof /\ z.remoteEof = r.remoteEof
  BY <1>0 DEF SentData, ClientRecs, SameRoute
<1> HIDE DEF z
<1>4. DownFits(z)
  BY <1>3, Zenon DEF DownFits, Proper, WellEnded, SameRoute
<1>5. Len(r.up) + Tunnels!Pieces(r.inbox) = r.upSent /\ EndsLast(r.inbox, {"eof"}) /\
       Tunnels!Pieces(r.inbox) \in Nat
  BY <1>0, PiecesType, Zenon DEF UpFits, Proper
<1>6. EndsLast(Append(r.inbox, "data"), {"eof"})
  <2>1. \A i \in 1 .. Len(r.inbox) : r.inbox[i] \notin {"eof"}
    BY Zenon DEF Tunnels!Contains
  <2> QED
    BY <1>0, <1>5, <2>1, EndsLastAppend, Zenon
<1>7. Len(z.up) + Tunnels!Pieces(z.inbox) = z.upSent
  <2>1. Len(r.up) + (Tunnels!Pieces(r.inbox) + 1) = r.upSent + 1
    BY <1>0, <1>5, OneMore, Zenon
  <2> QED
    BY <1>1, <1>3, <2>1, Zenon
<1>8. UpFits(z)
  BY <1>3, <1>6, <1>7 DEF UpFits
<1> QED
  BY <1>2, <1>3, <1>4, <1>8, ProperPiped, Zenon DEF z

(* A token of the client is read. *)
Read(r) == [r EXCEPT !.inbox = Tail(@)]

LEMMA ReadFields ==
    ASSUME NEW r, Proper(r), r.inbox # <<>>
    PROVE  /\ Read(r) \in ClientRecs /\ SameRoute(r, Read(r)) /\ Read(r).inbox = Tail(r.inbox)
           /\ Read(r).up = r.up /\ Read(r).upSent = r.upSent /\ Read(r).localEof = r.localEof
           /\ Read(r).remoteEof = r.remoteEof /\ Read(r).down = r.down /\ Read(r).chan = r.chan
           /\ Read(r).downSent = r.downSent /\ Read(r).result = r.result
<1>0. r \in ClientRecs /\ r.inbox \in Streams
  BY RecordOf DEF ClientRecs
<1>1. Tail(r.inbox) \in Streams
  BY <1>0, PiecesTail
<1>2. Read(r) \in ClientRecs
  BY <1>0, <1>1 DEF Read, ClientRecs
<1> QED
  BY <1>0, <1>2 DEF Read, ClientRecs, SameRoute

LEMMA ProperRead ==
    ASSUME NEW r, Proper(r), r.kind \in Tunnels!Piped, r.pc # "new", r.inbox # <<>>,
           Head(r.inbox) # "data"
    PROVE  Proper(Read(r))
<1> DEFINE z == Read(r)
<1>0. r.inbox \in Streams
  BY RecordOf DEF ClientRecs
<1>1. Tunnels!Pieces(Tail(r.inbox)) = Tunnels!Pieces(r.inbox)
  BY <1>0, PiecesTail
<1>3. /\ SameRoute(r, z) /\ z.inbox = Tail(r.inbox) /\ z.chan = r.chan /\ z.result = r.result
      /\ z.up = r.up /\ z.down = r.down /\ z.upSent = r.upSent /\ z.downSent = r.downSent
      /\ z.localEof = r.localEof /\ z.remoteEof = r.remoteEof /\ z \in ClientRecs
  BY ReadFields, Zenon
<1> HIDE DEF z
<1>4. DownFits(z)
  BY <1>3, Zenon DEF DownFits, Proper, WellEnded, SameRoute
<1>5. Len(r.up) + Tunnels!Pieces(r.inbox) = r.upSent /\ EndsLast(r.inbox, {"eof"}) /\
       (r.localEof => NoData(r.inbox))
  BY Zenon DEF UpFits, Proper
<1>6. EndsLast(Tail(r.inbox), {"eof"}) /\ (r.localEof => NoData(Tail(r.inbox)))
  BY <1>0, <1>5, EndsLastTail, Zenon
<1>8. UpFits(z)
  BY <1>1, <1>3, <1>5, <1>6, Zenon DEF UpFits
<1> QED
  BY <1>3, <1>4, <1>8, ProperPiped, Zenon DEF z

(* Data is passed on to the target. *)
PassedUp(r) == [Read(r) EXCEPT !.up = Tunnels!Delivered(@)]

LEMMA ProperPassedUp ==
    ASSUME NEW r, Proper(r), r.kind \in Tunnels!Piped, r.pc # "new", r.inbox # <<>>,
           Head(r.inbox) = "data",
           ~r.localEof
    PROVE  Proper(PassedUp(r))
<1> DEFINE y == Read(r)
           z == PassedUp(r)
<1>0. r \in ClientRecs /\ r.inbox \in Streams /\ r.up \in Seq(Nat) /\ Len(r.up) \in Nat
  BY RecordOf DEF ClientRecs
<1>1. Tunnels!Pieces(Tail(r.inbox)) = Tunnels!Pieces(r.inbox) - 1 /\ Tunnels!Pieces(r.inbox) \in Nat
  BY <1>0, PiecesTail, PiecesType
<1>2. /\ SameRoute(r, y) /\ y.inbox = Tail(r.inbox) /\ y.chan = r.chan /\ y.result = r.result
      /\ y.up = r.up /\ y.down = r.down /\ y.upSent = r.upSent /\ y.downSent = r.downSent
      /\ y.localEof = r.localEof /\ y.remoteEof = r.remoteEof /\ y \in ClientRecs
  BY ReadFields, Zenon
<1>3. Tunnels!Delivered(r.up) \in Seq(Nat) /\ Len(Tunnels!Delivered(r.up)) = Len(r.up) + 1
  BY <1>0 DEF Tunnels!Delivered
<1>4. z = [y EXCEPT !.up = Tunnels!Delivered(@)]
  BY DEF PassedUp
<1> HIDE DEF z, y
<1>5. z \in ClientRecs
  BY <1>2, <1>3, <1>4 DEF ClientRecs
<1>6. /\ SameRoute(r, z) /\ z.inbox = Tail(r.inbox) /\ z.chan = r.chan /\ z.result = r.result
      /\ z.up = Tunnels!Delivered(r.up) /\ z.down = r.down /\ z.upSent = r.upSent /\
             z.downSent = r.downSent
      /\ z.localEof = r.localEof /\ z.remoteEof = r.remoteEof
  BY <1>2, <1>4 DEF ClientRecs, SameRoute
<1>7. DownFits(z)
  BY <1>6, Zenon DEF DownFits, Proper, WellEnded, SameRoute
<1>8. Len(r.up) + Tunnels!Pieces(r.inbox) = r.upSent /\ EndsLast(r.inbox, {"eof"})
  BY Zenon DEF UpFits, Proper
<1>9. EndsLast(Tail(r.inbox), {"eof"})
  BY <1>0, <1>8, EndsLastTail, Zenon
<1>10. Len(z.up) + Tunnels!Pieces(z.inbox) = z.upSent
  BY <1>0, <1>1, <1>3, <1>6, <1>8
<1>11. UpFits(z)
  BY <1>6, <1>9, <1>10, Zenon DEF UpFits
<1> QED
  BY <1>5, <1>6, <1>7, <1>11, ProperPiped, Zenon DEF z

(* The client has ended its side. *)
ClientEnded(r) == [Read(r) EXCEPT !.localEof = TRUE]

LEMMA ProperClientEnded ==
    ASSUME NEW r, Proper(r), r.kind \in Tunnels!Piped, r.pc # "new", r.inbox # <<>>,
           Head(r.inbox) = "eof"
    PROVE  Proper(ClientEnded(r)) /\ ClientEnded(r).chan = r.chan /\ ClientEnded(r).kind = r.kind
<1> DEFINE y == Read(r)
           z == ClientEnded(r)
<1>0. r.inbox \in Streams
  BY RecordOf DEF ClientRecs
<1>1. Proper(y) /\ y \in ClientRecs /\ SameRoute(r, y) /\ y.chan = r.chan /\ y.inbox = Tail(r.inbox)
  BY ProperRead, ReadFields
<1>2. NoData(y.inbox)
  <2>1. EndsLast(r.inbox, {"eof"}) /\ Head(r.inbox) \in {"eof"}
    BY DEF UpFits, Proper
  <2> QED
    BY <1>0, <1>1, <2>1, EndsLastTail, Zenon
<1>3. z = [y EXCEPT !.localEof = TRUE]
  BY DEF ClientEnded
<1> HIDE DEF z, y
<1>4. z \in ClientRecs
  BY <1>1, <1>3 DEF ClientRecs
<1>5. /\ SameRoute(y, z) /\ z.inbox = y.inbox /\ z.chan = y.chan /\ z.result = y.result
      /\ z.up = y.up /\ z.down = y.down /\ z.upSent = y.upSent /\ z.downSent = y.downSent
      /\ z.remoteEof = y.remoteEof
  BY <1>1, <1>3 DEF ClientRecs, SameRoute
<1>6. DownFits(z) /\ UpFits(z)
  BY <1>1, <1>2, <1>5, Zenon DEF DownFits, UpFits, Proper, WellEnded, SameRoute
<1>7. Proper(z)
  BY <1>1, <1>4, <1>5, <1>6, ProperPiped, Zenon DEF SameRoute
<1> QED
  BY <1>1, <1>5, <1>7, Zenon DEF z, SameRoute

(* The direction to the client. *)

Came(r, token) == [r EXCEPT !.chan = Append(@, token)]
CameData(r) == [r EXCEPT !.chan = Append(@, "data"), !.downSent = @ + 1]

Unended(r) == ~r.remoteEof /\ \A i \in 1 .. Len(r.chan) : r.chan[i] \notin Stops

LEMMA ProperCame ==
    ASSUME NEW r, Proper(r), r.kind \notin Tunnels!Proxied, r.pc # "new", NEW token \in Stops
    PROVE  Proper(Came(r, token))
<1> DEFINE z == Came(r, token)
<1>0. r \in ClientRecs /\ r.chan \in Streams /\ token \in Tokens /\ token # "data"
  BY RecordOf DEF ClientRecs, Tokens, Stops
<1>1. Append(r.chan, token) \in Streams /\ Tunnels!Pieces(Append(r.chan,
       token)) = Tunnels!Pieces(r.chan)
  BY <1>0, PiecesAppend
<1>2. z \in ClientRecs
  BY <1>0, <1>1 DEF Came, ClientRecs
<1>3. /\ SameRoute(r, z) /\ z.chan = Append(r.chan, token) /\ z.inbox = r.inbox /\
         z.result = r.result
      /\ z.up = r.up /\ z.down = r.down /\ z.upSent = r.upSent /\ z.downSent = r.downSent
      /\ z.localEof = r.localEof /\ z.remoteEof = r.remoteEof /\ z.truncated = r.truncated
      /\ z.timedOut = r.timedOut
  BY <1>0 DEF Came, ClientRecs, SameRoute
<1> HIDE DEF z
<1>4. EndsLast(r.chan, Stops) => EndsLast(Append(r.chan, token), Stops)
  BY <1>0, EndsLastAppend
<1>5. NoData(r.chan) => NoData(Append(r.chan, token))
  BY <1>0, NoDataAppend
<1>6. CASE r.kind \in Tunnels!Piped
  <2>1. UpFits(z)
    BY <1>3, Zenon DEF UpFits, Proper, SameRoute
  <2>2. DownFits(z)
    BY <1>1, <1>3, <1>4, <1>5, Zenon DEF DownFits, Proper, WellEnded, SameRoute
  <2> QED
    BY <1>2, <1>3, <1>6, <2>1, <2>2, ProperPiped, Zenon DEF z
<1>7. CASE r.kind \in Tunnels!Exchanges
  <2>1. ResponseFits(z)
    BY <1>1, <1>3, <1>4, <1>5, Zenon DEF ResponseFits, Proper, WellEnded, SameRoute
  <2> QED
    BY <1>2, <1>3, <1>7, <2>1, ProperRequest, Zenon DEF z
<1> QED
  BY <1>0, <1>6, <1>7 DEF ClientRecs, Tunnels!Kinds

LEMMA ProperCameData ==
    ASSUME NEW r, Proper(r), r.kind \notin Tunnels!Proxied, r.pc \notin {"new", "ended"}, Unended(r)
    PROVE  Proper(CameData(r))
<1> DEFINE z == CameData(r)
<1>0. /\ r \in ClientRecs /\ r.chan \in Streams /\ "data" \in Tokens /\ r.downSent \in Nat
      /\ Len(r.down) \in Nat
  BY RecordOf DEF ClientRecs, Tokens
<1>1. Append(r.chan, "data") \in Streams /\ Tunnels!Pieces(Append(r.chan,
       "data")) = Tunnels!Pieces(r.chan) + 1
  BY <1>0, PiecesAppend, Zenon
<1>2. Tunnels!Pieces(r.chan) \in Nat
  BY <1>0, PiecesType
<1>3. z \in ClientRecs
  <2> DEFINE m == [r EXCEPT !.chan = Append(@, "data")]
  <2>1. m \in ClientRecs /\ m.downSent = r.downSent
    BY <1>0, <1>1 DEF ClientRecs
  <2>2. z = [m EXCEPT !.downSent = @ + 1]
    BY DEF CameData
  <2>3. m.downSent + 1 \in Nat
    BY <1>0, <2>1
  <2> HIDE DEF m, z
  <2> QED
    BY <2>1, <2>2, <2>3, Counted, Zenon
<1>4. /\ SameRoute(r, z) /\ z.chan = Append(r.chan, "data") /\ z.inbox = r.inbox /\
         z.result = r.result
      /\ z.up = r.up /\ z.down = r.down /\ z.upSent = r.upSent /\ z.downSent = r.downSent + 1
      /\ z.localEof = r.localEof /\ z.remoteEof = r.remoteEof /\ z.truncated = r.truncated
      /\ z.timedOut = r.timedOut
  BY <1>0 DEF CameData, ClientRecs, SameRoute
<1> HIDE DEF z
<1>5. EndsLast(r.chan, Stops) => EndsLast(Append(r.chan, "data"), Stops)
  BY <1>0, EndsLastAppend, Zenon DEF Unended
<1>6. ~WellEnded(z) /\ ~z.remoteEof
  BY <1>4 DEF WellEnded, SameRoute, Unended
<1>7. CASE r.kind \in Tunnels!Piped
  <2>1. UpFits(z)
    BY <1>4, Zenon DEF UpFits, Proper, SameRoute
  <2>2. Len(r.down) + Tunnels!Pieces(r.chan) = r.downSent /\
         \A i \in 1 .. Len(r.down) : r.down[i] = i
    BY <1>7, Zenon DEF Proper, DownFits
  <2>3. Len(z.down) + Tunnels!Pieces(z.chan) = z.downSent
    <3>1. z.down = r.down /\ Tunnels!Pieces(z.chan) = Tunnels!Pieces(r.chan) + 1 /\
           z.downSent = r.downSent + 1
      BY <1>1, <1>4, Zenon
    <3>2. Len(r.down) + (Tunnels!Pieces(r.chan) + 1) = r.downSent + 1
      BY <1>0, <1>2, <2>2, OneMore, Zenon
    <3> QED
      BY <3>1, <3>2, Zenon
  <2>4. DownFits(z)
    BY <1>4, <1>5, <1>6, <1>7, <2>2, <2>3, Zenon DEF DownFits, Proper
  <2> QED
    BY <1>3, <1>4, <1>7, <2>1, <2>4, ProperPiped, Zenon DEF z
<1>8. CASE r.kind \in Tunnels!Exchanges
  <2>1. r.kind = "tcp" /\ ~r.truncated => Len(r.down) + Tunnels!Pieces(r.chan) = r.downSent
    BY <1>8, Zenon DEF Proper, ResponseFits
  <2>2. z.kind = "tcp" /\ ~z.truncated => Len(z.down) + Tunnels!Pieces(z.chan) = z.downSent
    <3>1. /\ z.down = r.down /\ Tunnels!Pieces(z.chan) = Tunnels!Pieces(r.chan) + 1 /\
             z.downSent = r.downSent + 1
          /\ z.kind = r.kind /\ z.truncated = r.truncated
      BY <1>1, <1>4, Zenon DEF SameRoute
    <3>2. r.kind = "tcp" /\ ~r.truncated =>
           Len(r.down) + (Tunnels!Pieces(r.chan) + 1) = r.downSent + 1
      BY <1>0, <1>2, <2>1, OneMore, Zenon
    <3> QED
      BY <3>1, <3>2, Zenon
  <2>3. ResponseFits(z)
    BY <1>4, <1>5, <1>6, <1>8, <2>2, Zenon DEF ResponseFits, Proper
  <2> QED
    BY <1>3, <1>4, <1>8, <2>3, ProperRequest, Zenon DEF z
<1> QED
  BY <1>0, <1>7, <1>8 DEF ClientRecs, Tunnels!Kinds

(* A message of the target is read. *)
TakenOff(r) == [r EXCEPT !.chan = Tail(@)]

LEMMA TakenFields ==
    ASSUME NEW r, Proper(r), r.chan # <<>>
    PROVE  /\ TakenOff(r) \in ClientRecs /\ SameRoute(r, TakenOff(r)) /\
              TakenOff(r).chan = Tail(r.chan)
           /\ TakenOff(r).up = r.up /\ TakenOff(r).upSent = r.upSent /\
                  TakenOff(r).localEof = r.localEof
           /\ TakenOff(r).remoteEof = r.remoteEof /\ TakenOff(r).down = r.down /\
                  TakenOff(r).inbox = r.inbox
           /\ TakenOff(r).downSent = r.downSent /\ TakenOff(r).result = r.result
<1>0. r \in ClientRecs /\ r.chan \in Streams
  BY RecordOf DEF ClientRecs
<1>1. Tail(r.chan) \in Streams
  BY <1>0, PiecesTail
<1>2. TakenOff(r) \in ClientRecs
  BY <1>0, <1>1 DEF TakenOff, ClientRecs
<1> QED
  BY <1>0, <1>2 DEF TakenOff, ClientRecs, SameRoute

LEMMA ProperTaken ==
    ASSUME NEW r, Proper(r), r.kind \in Tunnels!Piped, r.pc # "new", r.chan # <<>>,
           Head(r.chan) \in Stops
    PROVE  Proper(TakenOff(r)) /\ NoData(TakenOff(r).chan)
<1> DEFINE z == TakenOff(r)
<1>0. r.chan \in Streams /\ Head(r.chan) # "data"
  BY RecordOf DEF ClientRecs, Stops
<1>1. Tunnels!Pieces(Tail(r.chan)) = Tunnels!Pieces(r.chan)
  BY <1>0, PiecesTail
<1>3. /\ SameRoute(r, z) /\ z.chan = Tail(r.chan) /\ z.inbox = r.inbox /\ z.result = r.result
      /\ z.up = r.up /\ z.down = r.down /\ z.upSent = r.upSent /\ z.downSent = r.downSent
      /\ z.localEof = r.localEof /\ z.remoteEof = r.remoteEof /\ z \in ClientRecs
  BY TakenFields, Zenon
<1> HIDE DEF z
<1>4. UpFits(z)
  BY <1>3, Zenon DEF UpFits, Proper, SameRoute
<1>5. Len(r.down) + Tunnels!Pieces(r.chan) = r.downSent /\ EndsLast(r.chan, Stops)
      /\ \A i \in 1 .. Len(r.down) : r.down[i] = i
  BY Zenon DEF DownFits, Proper
<1>6. EndsLast(Tail(r.chan), Stops) /\ NoData(Tail(r.chan))
  BY <1>0, <1>5, EndsLastTail, Zenon
<1>7. DownFits(z)
  BY <1>1, <1>3, <1>5, <1>6, Zenon DEF DownFits
<1>8. Proper(z)
  BY <1>3, <1>4, <1>7, ProperPiped, Zenon
<1> QED
  BY <1>3, <1>6, <1>8, Zenon DEF z

PassedDown(r) == [TakenOff(r) EXCEPT !.down = Tunnels!Delivered(@)]

LEMMA ProperPassedDown ==
    ASSUME NEW r, Proper(r), r.kind \in Tunnels!Piped, r.pc = "pipe", r.chan # <<>>,
           Head(r.chan) = "data",
           ~r.remoteEof
    PROVE  Proper(PassedDown(r))
<1> DEFINE y == TakenOff(r)
           z == PassedDown(r)
<1>0. r \in ClientRecs /\ r.chan \in Streams /\ r.down \in Seq(Nat) /\ Len(r.down) \in Nat
  BY RecordOf DEF ClientRecs
<1>1. Tunnels!Pieces(Tail(r.chan)) = Tunnels!Pieces(r.chan) - 1 /\ Tunnels!Pieces(r.chan) \in Nat
  BY <1>0, PiecesTail, PiecesType
<1>2. /\ SameRoute(r, y) /\ y.chan = Tail(r.chan) /\ y.inbox = r.inbox /\ y.result = r.result
      /\ y.up = r.up /\ y.down = r.down /\ y.upSent = r.upSent /\ y.downSent = r.downSent
      /\ y.localEof = r.localEof /\ y.remoteEof = r.remoteEof /\ y \in ClientRecs
  BY TakenFields, Zenon
<1>3. /\ Tunnels!Delivered(r.down) \in Seq(Nat) /\ Len(Tunnels!Delivered(r.down)) = Len(r.down) + 1
      /\ \A i \in 1 .. Len(r.down) : Tunnels!Delivered(r.down)[i] = r.down[i]
      /\ Tunnels!Delivered(r.down)[Len(r.down) + 1] = Len(r.down) + 1
  BY <1>0 DEF Tunnels!Delivered
<1>4. z = [y EXCEPT !.down = Tunnels!Delivered(@)]
  BY DEF PassedDown
<1> HIDE DEF z, y
<1>5. z \in ClientRecs
  BY <1>2, <1>3, <1>4 DEF ClientRecs
<1>6. /\ SameRoute(r, z) /\ z.chan = Tail(r.chan) /\ z.inbox = r.inbox /\ z.result = r.result
      /\ z.down = Tunnels!Delivered(r.down) /\ z.up = r.up /\ z.upSent = r.upSent /\
             z.downSent = r.downSent
      /\ z.localEof = r.localEof /\ z.remoteEof = r.remoteEof
  BY <1>2, <1>4 DEF ClientRecs, SameRoute
<1>7. UpFits(z)
  BY <1>6, Zenon DEF UpFits, Proper, SameRoute
<1>8. /\ Len(r.down) + Tunnels!Pieces(r.chan) = r.downSent /\ EndsLast(r.chan, Stops)
      /\ \A i \in 1 .. Len(r.down) : r.down[i] = i
  BY Zenon DEF DownFits, Proper
<1>9. EndsLast(Tail(r.chan), Stops)
  BY <1>0, <1>8, EndsLastTail, Zenon
<1>10. Len(z.down) + Tunnels!Pieces(z.chan) = z.downSent
  BY <1>0, <1>1, <1>3, <1>6, <1>8
<1>11. \A i \in 1 .. Len(z.down) : z.down[i] = i
  BY <1>0, <1>3, <1>6, <1>8
<1>12. ~WellEnded(z) /\ ~z.remoteEof
  BY <1>6 DEF WellEnded, SameRoute
<1>13. DownFits(z)
  BY <1>6, <1>9, <1>10, <1>11, <1>12, Zenon DEF DownFits
<1> QED
  BY <1>5, <1>6, <1>7, <1>13, ProperPiped DEF z

(* The target has ended its side. *)
TargetEnded(r) == [TakenOff(r) EXCEPT !.remoteEof = TRUE]

LEMMA ProperTargetEnded ==
    ASSUME NEW r, Proper(r), r.kind \in Tunnels!Piped, r.pc # "new", r.chan # <<>>,
           Head(r.chan) = "eof"
    PROVE  Proper(TargetEnded(r)) /\ NoData(TargetEnded(r).chan) /\ TargetEnded(r).kind = r.kind
<1> DEFINE y == TakenOff(r)
           z == TargetEnded(r)
<1>0. Head(r.chan) \in Stops
  BY DEF Stops
<1>1. Proper(y) /\ y \in ClientRecs /\ SameRoute(r, y) /\ NoData(y.chan)
  BY <1>0, ProperTaken, TakenFields, Zenon
<1>3. z = [y EXCEPT !.remoteEof = TRUE]
  BY DEF TargetEnded
<1> HIDE DEF z, y
<1>4. z \in ClientRecs
  BY <1>1, <1>3 DEF ClientRecs
<1>5. /\ SameRoute(y, z) /\ z.inbox = y.inbox /\ z.chan = y.chan /\ z.result = y.result
      /\ z.up = y.up /\ z.down = y.down /\ z.upSent = y.upSent /\ z.downSent = y.downSent
      /\ z.localEof = y.localEof
  BY <1>1, <1>3 DEF ClientRecs, SameRoute
<1>6. DownFits(z) /\ UpFits(z)
  BY <1>1, <1>5, Zenon DEF DownFits, UpFits, Proper, WellEnded, SameRoute
<1>7. Proper(z)
  BY <1>1, <1>4, <1>5, <1>6, ProperPiped, Zenon DEF SameRoute
<1> QED
  BY <1>1, <1>5, <1>7, Zenon DEF z, SameRoute

(* A request and its response. *)

LEMMA ProperWritten ==
    ASSUME NEW r, Proper(r), r.pc = "write"
    PROVE  Proper([r EXCEPT !.pc = "read", !.up = <<1>>])
<1> DEFINE y == [r EXCEPT !.up = <<1>>]
           z == To(y, "read")
<1>0. r \in ClientRecs /\ <<1>> \in Seq(Nat)
  BY RecordOf
<1>1. r.kind \in Tunnels!Exchanges
  BY DEF Proper, PlaceFits
<1>2. y \in ClientRecs
  BY <1>0 DEF ClientRecs
<1>3. /\ SameRoute(r, y) /\ y.down = r.down /\ y.chan = r.chan /\ y.downSent = r.downSent
      /\ y.truncated = r.truncated /\ y.timedOut = r.timedOut /\ y.result = r.result
  BY <1>0 DEF ClientRecs, SameRoute
<1>4. z = [r EXCEPT !.pc = "read", !.up = <<1>>]
  BY <1>0 DEF To, ClientRecs
<1> HIDE DEF y
<1>5. ResponseFits(y)
  BY <1>3, Zenon DEF ResponseFits, Proper, WellEnded, SameRoute
<1>6. Proper(y)
  BY <1>1, <1>2, <1>3, <1>5, ProperRequest
<1>7. z.pc = "read" /\ z.kind = y.kind /\ z.target = y.target
  BY <1>2 DEF To, ClientRecs
<1>8. PlaceFits(z) /\ RouteFits(z)
  <2>1. y.kind \in Tunnels!Exchanges /\ y.pc = "write" /\ RouteFits(y)
    BY <1>1, <1>3, <1>6, Zenon DEF SameRoute, Proper
  <2> HIDE DEF z
  <2> QED
    BY <1>7, <2>1 DEF PlaceFits, RouteFits, Handshake
<1>9. Proper(z)
  BY <1>6, <1>8, ProperTo DEF Pcs
<1> QED
  BY <1>4, <1>9, Zenon

Took(r, n) == IF Len(r.down) + n > MaxResponse THEN MaxResponse - Len(r.down) ELSE n
Left(r, n) == SubSeq(r.chan, n + 1, Len(r.chan))
Gained(r, n) == r.down \o [i \in 1 .. Took(r, n) |-> Len(r.down) + i]

LEMMA TookFits ==
    ASSUME NEW d \in Nat, NEW n \in Nat, NEW m \in Nat, d <= m,
           NEW t, t = IF d + n > m THEN m - d ELSE n
    PROVE  t \in Nat /\ d + t <= m /\ (d + n < m => t = n)
  OBVIOUS

LEMMA ShiftFits ==
    ASSUME NEW k \in Nat, NEW n \in Nat, NEW i \in 1 .. k - n, NEW j \in 1 .. k - n, i < j
    PROVE  i + n \in 1 .. k /\ j + n \in 1 .. k /\ i + n < j + n
  OBVIOUS

LEMMA CountFits ==
    ASSUME NEW d \in Nat, NEW t \in Nat
    PROVE  [i \in 1 .. t |-> d + i] \in Seq(Nat) /\ Len([i \in 1 .. t |-> d + i]) = t
  OBVIOUS

LEMMA Response ==
    ASSUME NEW r, Proper(r), r.kind \in Tunnels!Exchanges, NEW n \in 1 .. Len(r.chan),
           \A i \in 1 .. n : r.chan[i] = "data"
    PROVE  /\ Left(r, n) \in Streams /\ EndsLast(Left(r, n), Stops)
           /\ Gained(r, n) \in Seq(Nat) /\ Len(Gained(r, n)) <= MaxResponse
           /\ r.kind = "tcp" /\ ~r.truncated /\ Len(r.down) + n < MaxResponse =>
                Len(Gained(r, n)) + Tunnels!Pieces(Left(r, n)) = r.downSent
<1>0. /\ r.chan \in Streams /\ r.down \in Seq(Nat) /\ Len(r.down) \in Nat /\ Len(r.chan) \in Nat
      /\ n \in Nat /\ MaxResponse \in Nat
  BY RecordOf, ClientsAssumption DEF ClientRecs, Streams
<1>a. Len(r.down) \in Nat /\ Len(r.chan) \in Nat /\ n \in Nat /\ MaxResponse \in Nat
  BY <1>0, Zenon
<1>1. /\ Len(r.down) <= MaxResponse /\ EndsLast(r.chan, Stops)
      /\ r.kind = "tcp" /\ ~r.truncated => Len(r.down) + Tunnels!Pieces(r.chan) = r.downSent
  BY Zenon DEF Proper, ResponseFits
<1>2. /\ Left(r, n) \in Streams /\ Len(Left(r, n)) = Len(r.chan) - n
      /\ \A i \in 1 .. Len(r.chan) - n : Left(r, n)[i] = r.chan[i + n]
      /\ Tunnels!Pieces(Left(r, n)) = Tunnels!Pieces(r.chan) - n
  BY <1>0, PiecesRest, Zenon DEF Left
<1>3. EndsLast(Left(r, n), Stops)
  <2>1. SUFFICES ASSUME NEW i \in 1 .. Len(r.chan) - n, NEW j \in 1 .. Len(r.chan) - n, i < j,
                        r.chan[i + n] \in Stops
                 PROVE  r.chan[j + n] # "data"
    BY <1>2 DEF EndsLast
  <2>2. i + n \in 1 .. Len(r.chan) /\ j + n \in 1 .. Len(r.chan) /\ i + n < j + n
    BY <1>a, <2>1, ShiftFits
  <2> QED
    BY <1>1, <2>1, <2>2 DEF EndsLast
<1>4. /\ Took(r, n) \in Nat /\ Len(r.down) + Took(r, n) <= MaxResponse
      /\ Len(r.down) + n < MaxResponse => Took(r, n) = n
  <2>1. Len(r.down) <= MaxResponse
    BY <1>1, Zenon
  <2> QED
    BY <1>a, <2>1, TookFits, Zenon DEF Took
<1>5. Gained(r, n) \in Seq(Nat) /\ Len(Gained(r, n)) = Len(r.down) + Took(r, n)
  <2> DEFINE more == [i \in 1 .. Took(r, n) |-> Len(r.down) + i]
  <2>1. more \in Seq(Nat) /\ Len(more) = Took(r, n)
    BY <1>a, <1>4, CountFits, Zenon
  <2> HIDE DEF more
  <2>2. r.down \o more \in Seq(Nat) /\ Len(r.down \o more) = Len(r.down) + Len(more)
    BY <1>0, <2>1, ConcatProperties
  <2> QED
    BY <2>1, <2>2 DEF Gained, more
<1>6. Tunnels!Pieces(r.chan) \in Nat
  BY <1>0, PiecesType
<1>7. r.kind = "tcp" /\ ~r.truncated /\ Len(r.down) + n < MaxResponse =>
        Len(Gained(r, n)) + Tunnels!Pieces(Left(r, n)) = r.downSent
  <2> SUFFICES ASSUME r.kind = "tcp" /\ ~r.truncated /\ Len(r.down) + n < MaxResponse
               PROVE  Len(Gained(r, n)) + Tunnels!Pieces(Left(r, n)) = r.downSent
    BY Zenon
  <2>1. Len(r.down) + Tunnels!Pieces(r.chan) = r.downSent
    BY <1>1
  <2> QED
    BY <1>0, <1>2, <1>4, <1>5, <1>6, <2>1
<1> QED
  BY <1>2, <1>3, <1>4, <1>5, <1>7

(* The part of a response that was read goes to the caller. *)
Got(r, n) == [r EXCEPT !.chan = Left(r, n), !.down = Gained(r, n)]
GotAll(r, n) == [[[r EXCEPT !.truncated = TRUE, !.pc = "ended", !.result = "ok"]
                    EXCEPT !.chan = Left(r, n)] EXCEPT !.down = Gained(r, n)]

LEMMA ProperGot ==
    ASSUME NEW r, Proper(r), r.pc = "read", NEW n \in 1 .. Len(r.chan),
           \A i \in 1 .. n : r.chan[i] = "data",
           r.kind = "tcp" => Len(r.down) + n < MaxResponse
    PROVE  Proper(Got(r, n)) /\ Got(r, n).kind = r.kind
<1> DEFINE z == Got(r, n)
<1>0. r \in ClientRecs /\ r.kind \in Tunnels!Exchanges
  BY RecordOf DEF Proper, PlaceFits
<1>1. /\ Left(r, n) \in Streams /\ EndsLast(Left(r, n), Stops)
      /\ Gained(r, n) \in Seq(Nat) /\ Len(Gained(r, n)) <= MaxResponse
      /\ r.kind = "tcp" /\ ~r.truncated => Len(Gained(r, n)) + Tunnels!Pieces(Left(r,
             n)) = r.downSent
  BY <1>0, Response
<1>2. z \in ClientRecs
  BY <1>0, <1>1 DEF Got, ClientRecs
<1>3. /\ SameRoute(r, z) /\ z.chan = Left(r, n) /\ z.down = Gained(r, n) /\ z.downSent = r.downSent
      /\ z.truncated = r.truncated
  BY <1>0 DEF Got, ClientRecs, SameRoute
<1> HIDE DEF z
<1>4. ~WellEnded(z)
  BY <1>3 DEF WellEnded, SameRoute
<1>5. ResponseFits(z)
  BY <1>1, <1>3, <1>4, Zenon DEF ResponseFits, SameRoute
<1> QED
  BY <1>0, <1>2, <1>3, <1>5, ProperRequest DEF z, SameRoute

LEMMA ProperGotAll ==
    ASSUME NEW r, Proper(r), r.pc = "read", NEW n \in 1 .. Len(r.chan),
           \A i \in 1 .. n : r.chan[i] = "data"
    PROVE  Proper(GotAll(r, n))
<1> DEFINE x == [r EXCEPT !.truncated = TRUE, !.pc = "ended", !.result = "ok"]
           z == GotAll(r, n)
<1>0. r \in ClientRecs /\ r.kind \in Tunnels!Exchanges
  BY RecordOf DEF Proper, PlaceFits
<1>1. /\ Left(r, n) \in Streams /\ EndsLast(Left(r, n), Stops)
      /\ Gained(r, n) \in Seq(Nat) /\ Len(Gained(r, n)) <= MaxResponse
  BY <1>0, Response
<1>2. x \in ClientRecs
  BY <1>0 DEF ClientRecs, Pcs
<1>3. x.pc = "ended" /\ x.kind = r.kind /\ x.truncated = TRUE
  BY <1>0 DEF ClientRecs
<1>4. z = [[x EXCEPT !.chan = Left(r, n)] EXCEPT !.down = Gained(r, n)]
  BY DEF GotAll
<1> HIDE DEF x, z
<1>5. z \in ClientRecs
  BY <1>1, <1>2, <1>4 DEF ClientRecs
<1>6. z.pc = "ended" /\ z.kind = r.kind /\ z.truncated = TRUE /\ z.chan = Left(r, n) /\
       z.down = Gained(r, n)
  BY <1>2, <1>3, <1>4 DEF ClientRecs
<1>7. PlaceFits(z) /\ RouteFits(z)
  BY <1>6 DEF PlaceFits, RouteFits, Handshake
<1>8. DownFits(z) /\ UpFits(z) /\ ProxyFits(z)
  BY <1>0, <1>6, SortsOfKinds DEF DownFits, UpFits, ProxyFits
<1>9. ResponseFits(z)
  BY <1>1, <1>6, Zenon DEF ResponseFits
<1> QED
  BY <1>5, <1>7, <1>8, <1>9, Zenon DEF Proper, z

LEMMA NoDataAfterEnd ==
    ASSUME NEW s \in Streams, s # <<>>, EndsLast(s, Stops), Head(s) \in Stops
    PROVE  NoData(s)
<1>1. Head(s) = s[1] /\ Len(s) \in Nat \ {0} /\ 1 \in 1 .. Len(s)
  BY PiecesTail
<1> QED
  BY <1>1 DEF EndsLast, NoData, Stops

LEMMA ProperAnswered ==
    ASSUME NEW r, Proper(r), r.pc = "read", r.chan # <<>>, Head(r.chan) = "eof"
    PROVE  Proper(EndsAs(r, "ok"))
<1>1. r.kind \in Tunnels!Exchanges /\ r.chan \in Streams
  BY RecordOf DEF Proper, PlaceFits, ClientRecs
<1>2. NoData(r.chan)
  <2>1. EndsLast(r.chan, Stops) /\ Head(r.chan) \in Stops
    BY <1>1 DEF Proper, ResponseFits, Stops
  <2> QED
    BY <1>1, <2>1, NoDataAfterEnd, Zenon
<1> QED
  BY <1>2, ProperEnds, Zenon

LEMMA ProperTimedOut ==
    ASSUME NEW r, Proper(r), r.pc = "read"
    PROVE  Proper([r EXCEPT !.timedOut = TRUE, !.pc = "ended", !.result = "ok"])
<1> DEFINE y == [r EXCEPT !.timedOut = TRUE]
<1>0. r \in ClientRecs /\ r.kind \in Tunnels!Exchanges
  BY RecordOf DEF Proper, PlaceFits
<1>1. y \in ClientRecs
  BY <1>0 DEF ClientRecs
<1>2. /\ SameRoute(r, y) /\ y.down = r.down /\ y.chan = r.chan /\ y.downSent = r.downSent
      /\ y.truncated = r.truncated /\ y.timedOut = TRUE
  BY <1>0 DEF ClientRecs, SameRoute
<1>3. [r EXCEPT !.timedOut = TRUE, !.pc = "ended", !.result = "ok"] = EndsAs(y, "ok")
  BY DEF EndsAs
<1> HIDE DEF y
<1>4. ResponseFits(y)
  BY <1>2, Zenon DEF ResponseFits, Proper, SameRoute
<1>5. Proper(y)
  BY <1>0, <1>1, <1>2, <1>4, ProperRequest
<1>6. y.kind \notin Tunnels!Piped
  BY <1>0, <1>2, SortsOfKinds DEF SameRoute
<1>7. Proper(EndsAs(y, "ok"))
  BY <1>2, <1>5, <1>6, ProperEnds
<1> QED
  BY <1>3, <1>7, Zenon

(* Through a proxy. *)

LEMMA AnswersOf ==
    ASSUME NEW kind \in Tunnels!Proxied
    PROVE  /\ Len(Tunnels!Replies(kind)) \in Nat \ {0}
           /\ \A k \in 1 .. Len(Tunnels!Replies(kind)) : Tunnels!Replies(kind)[k] \in Tokens \ {"data"}
<1>1. CASE kind = "http"
  BY <1>1 DEF Tunnels!Replies, Tokens
<1>2. CASE kind = "socks"
  BY <1>2 DEF Tunnels!Replies, Tokens
<1>3. CASE kind = "socksAuth"
  BY <1>3 DEF Tunnels!Replies, Tokens
<1> QED
  BY <1>1, <1>2, <1>3 DEF Tunnels!Proxied

(* Only what it has to do with its proxy matters of such a connection. *)
LEMMA ProperProxied ==
    ASSUME NEW z \in ClientRecs, z.kind \in Tunnels!Proxied, z.pc \in {"proxy", "handed"},
           ProxyFits(z)
    PROVE  Proper(z)
<1>1. z.kind \notin Tunnels!Piped /\ z.kind \notin Tunnels!Exchanges /\
       z.kind \notin Tunnels!Dynamic
  BY SortsOfKinds
<1>2. DownFits(z) /\ UpFits(z) /\ ResponseFits(z)
  BY <1>1 DEF DownFits, UpFits, ResponseFits
<1>3. PlaceFits(z) /\ RouteFits(z)
  BY <1>1 DEF PlaceFits, RouteFits, Handshake
<1> QED
  BY <1>2, <1>3 DEF Proper

(* Counting answers and pieces: u are read of s answers, d pieces follow. *)
LEMMA AnswerCounts ==
    ASSUME NEW u \in Nat, NEW s \in Nat, NEW d \in Nat, u <= s
    PROVE  /\ s - u \in Nat /\ (s + 1) - u = s - u + 1 /\ u <= s + 1
           /\ s - u + d \in Nat /\ s - u + d + 1 = s - u + (d + 1) /\ s - u + d + 1 > s - u
           /\ s - (u + 1) = s - u - 1 /\ s - u + d - 1 = s - u - 1 + d
           /\ s - u >= 1 => u + 1 <= s
  OBVIOUS

LEMMA OneMoreLeft == \A n, d, k \in Nat : k = n + d => k + 1 = n + (d + 1)
  OBVIOUS

LEMMA OneRead == \A a, u, n \in Nat : a - u = n => a - (u + 1) = n - 1
  OBVIOUS

LEMMA OneLess == \A n, d, k \in Nat : k = n + d => k - 1 = n - 1 + d
  OBVIOUS

LEMMA PlaceIn == \A k \in Nat : \A i \in 1 .. k + 1 : i \in 1 .. k \/ i = k + 1
  OBVIOUS

LEMMA PlaceNext == \A k \in Nat : \A u \in Nat : u <= k /\ u # k => u + 1 \in 1 .. k
  OBVIOUS

LEMMA ProxyFacts ==
    ASSUME NEW r, Proper(r), r.pc = "proxy"
    PROVE  /\ r \in ClientRecs /\ r.kind \in Tunnels!Proxied /\ r.chan \in Streams /\
              r.up \in Seq(Nat)
           /\ Len(r.up) \in Nat /\ Len(r.chan) \in Nat /\ r.upSent \in Nat /\ r.downSent \in Nat
           /\ Len(r.up) <= r.upSent /\ r.upSent <= Len(Tunnels!Replies(r.kind))
           /\ r.downSent > 0 => r.upSent = Len(Tunnels!Replies(r.kind))
           /\ Len(r.chan) = r.upSent - Len(r.up) + r.downSent
           /\ \A i \in 1 .. Len(r.chan) : i > r.upSent - Len(r.up) <=> r.chan[i] = "data"
           /\ Len(r.up) # Len(Tunnels!Replies(r.kind))
           /\ Len(Tunnels!Replies(r.kind)) \in Nat \ {0}
<1>1. r \in ClientRecs /\ r.kind \in Tunnels!Proxied
  BY RecordOf DEF Proper, PlaceFits
<1>2. Len(Tunnels!Replies(r.kind)) \in Nat \ {0}
  BY <1>1, AnswersOf
<1>3. /\ r.chan \in Streams /\ r.up \in Seq(Nat) /\ Len(r.up) \in Nat /\ Len(r.chan) \in Nat
      /\ r.upSent \in Nat /\ r.downSent \in Nat
  BY <1>1 DEF ClientRecs, Streams
<1>4. ProxyFits(r)
  BY DEF Proper
<1>5. ~(r.pc = "handed")
  OBVIOUS
<1> QED
  BY <1>1, <1>2, <1>3, <1>4, <1>5, Zenon DEF ProxyFits

LEMMA ProperConnected ==
    ASSUME NEW r, Proper(r), r.pc = "new", r.kind \in Tunnels!Proxied PROVE Proper(To(r, "proxy"))
<1> DEFINE z == To(r, "proxy")
<1>0. r \in ClientRecs /\ r.chan = <<>> /\ r.up = <<>> /\ r.upSent = 0 /\ r.downSent = 0
  BY RecordOf DEF Proper, PlaceFits
<1>1. z \in ClientRecs
  BY <1>0 DEF To, ClientRecs, Pcs
<1>2. /\ z.pc = "proxy" /\ z.kind = r.kind /\ z.chan = <<>> /\ z.up = <<>> /\ z.upSent = 0
      /\ z.downSent = 0
  BY <1>0 DEF To, ClientRecs
<1> HIDE DEF z
<1>3. Len(Tunnels!Replies(z.kind)) \in Nat \ {0} /\ Len(<<>>) = 0
  BY <1>2, AnswersOf, EmptySeq
<1>4. ProxyFits(z)
  <2>1. z.upSent - Len(z.up) = 0 /\ Len(z.chan) = 0 + z.downSent /\ ~(z.downSent > 0) /\ 0 <= 0
        /\ \A i \in 1 .. Len(z.chan) : i > 0 <=> z.chan[i] = "data"
    <3>1. Len(z.chan) = 0 /\ Len(z.up) = 0 /\ z.upSent = 0 /\ z.downSent = 0
      BY <1>2, <1>3, Zenon
    <3> QED
      BY <3>1
  <2>2. /\ Len(z.up) = 0 /\ z.upSent = 0 /\ 0 <= Len(Tunnels!Replies(z.kind)) /\
           0 # Len(Tunnels!Replies(z.kind))
        /\ z.pc # "handed"
    BY <1>2, <1>3
  <2> QED
    BY <2>1, <2>2, Zenon DEF ProxyFits
<1> QED
  BY <1>1, <1>2, <1>4, ProperProxied DEF z

(* The proxy's next answer. *)
Answered(r, token) == [r EXCEPT !.chan = Append(@, token), !.upSent = @ + 1]

LEMMA ProperAnswer ==
    ASSUME NEW r, Proper(r), r.pc = "proxy", r.upSent < Len(Tunnels!Replies(r.kind)),
           NEW token \in Tokens \ {"data"}
    PROVE  Proper(Answered(r, token))
<1> DEFINE z == Answered(r, token)
           more == Append(r.chan, token)
           n == r.upSent - Len(r.up)
<1>0. /\ r \in ClientRecs /\ r.kind \in Tunnels!Proxied /\ r.chan \in Streams /\ r.upSent \in Nat
      /\ Len(r.up) \in Nat /\ Len(r.chan) \in Nat /\ Len(Tunnels!Replies(r.kind)) \in Nat
      /\ r.upSent + 1 \in Nat /\ r.downSent \in Nat
  BY ProxyFacts
<1>1. /\ Len(r.up) <= r.upSent /\ r.downSent = 0 /\ Len(r.chan) = n
      /\ Len(r.up) # Len(Tunnels!Replies(r.kind))
  BY ProxyFacts
<1>2. \A i \in 1 .. Len(r.chan) : r.chan[i] # "data"
  BY <1>0, <1>1, ProxyFacts
<1>3. more \in Streams /\ Len(more) = Len(r.chan) + 1 /\ more[Len(r.chan) + 1] = token
      /\ \A i \in 1 .. Len(r.chan) : more[i] = r.chan[i]
  BY <1>0 DEF Streams
<1>4. z = [[r EXCEPT !.chan = more] EXCEPT !.upSent = r.upSent + 1]
  BY <1>0 DEF Answered, ClientRecs
<1> HIDE DEF more
<1>5. z \in ClientRecs
  <2>1. [r EXCEPT !.chan = more] \in ClientRecs
    BY <1>0, <1>3 DEF ClientRecs
  <2> HIDE DEF z
  <2> QED
    BY <1>0, <1>4, <2>1, Counted, Zenon
<1>6. /\ z.pc = "proxy" /\ z.kind = r.kind /\ z.chan = more /\ z.up = r.up /\
         z.upSent = r.upSent + 1
      /\ z.downSent = 0
  BY <1>0, <1>1, <1>4 DEF ClientRecs
<1> HIDE DEF z
<1>7. \A i \in 1 .. Len(more) : more[i] # "data"
  <2>1. token # "data"
    OBVIOUS
  <2> QED
    BY <1>0, <1>2, <1>3, <2>1, PlaceIn, Zenon
<1>8. ProxyFits(z)
  <2>1. z.upSent - Len(z.up) = n + 1 /\ Len(z.chan) = n + 1 + z.downSent
    BY <1>0, <1>1, <1>3, <1>6
  <2>2. \A i \in 1 .. Len(z.chan) : ~(i > n + 1) /\ z.chan[i] # "data"
    BY <1>0, <1>1, <1>3, <1>6, <1>7
  <2>3. /\ Len(z.up) <= z.upSent /\ z.upSent <= Len(Tunnels!Replies(z.kind)) /\ ~(z.downSent > 0)
        /\ Len(z.up) # Len(Tunnels!Replies(z.kind)) /\ z.pc # "handed"
    BY <1>0, <1>1, <1>6
  <2> QED
    BY <2>1, <2>2, <2>3, Zenon DEF ProxyFits
<1> QED
  BY <1>0, <1>5, <1>6, <1>8, ProperProxied DEF z

(* Data of the target follows the last answer at once. *)
LEMMA ProperFollowed ==
    ASSUME NEW r, Proper(r), r.pc = "proxy", ~(r.upSent < Len(Tunnels!Replies(r.kind)))
    PROVE  Proper(CameData(r))
<1> DEFINE z == CameData(r)
           more == Append(r.chan, "data")
           n == r.upSent - Len(r.up)
<1>0. /\ r \in ClientRecs /\ r.kind \in Tunnels!Proxied /\ r.chan \in Streams /\ r.upSent \in Nat
      /\ Len(r.up) \in Nat /\ Len(r.chan) \in Nat /\ Len(Tunnels!Replies(r.kind)) \in Nat
      /\ r.downSent + 1 \in Nat /\ r.downSent \in Nat /\ "data" \in Tokens
  BY ProxyFacts DEF Tokens
<1>1. /\ Len(r.up) <= r.upSent /\ r.upSent = Len(Tunnels!Replies(r.kind)) /\
         Len(r.chan) = n + r.downSent
      /\ Len(r.up) # Len(Tunnels!Replies(r.kind))
  BY ProxyFacts
<1>2. \A i \in 1 .. Len(r.chan) : i > n <=> r.chan[i] = "data"
  BY ProxyFacts
<1>3. more \in Streams /\ Len(more) = Len(r.chan) + 1 /\ more[Len(r.chan) + 1] = "data"
      /\ \A i \in 1 .. Len(r.chan) : more[i] = r.chan[i]
  BY <1>0 DEF Streams
<1>4. z = [[r EXCEPT !.chan = more] EXCEPT !.downSent = r.downSent + 1]
  BY <1>0 DEF CameData, ClientRecs
<1> HIDE DEF more
<1>5. z \in ClientRecs
  <2>1. [r EXCEPT !.chan = more] \in ClientRecs
    BY <1>0, <1>3 DEF ClientRecs
  <2> HIDE DEF z
  <2> QED
    BY <1>0, <1>4, <2>1, Counted, Zenon
<1>6. /\ z.pc = "proxy" /\ z.kind = r.kind /\ z.chan = more /\ z.up = r.up /\ z.upSent = r.upSent
      /\ z.downSent = r.downSent + 1
  BY <1>0, <1>4 DEF ClientRecs
<1> HIDE DEF z
<1>7. \A i \in 1 .. Len(more) : i > n <=> more[i] = "data"
  <2>1. n + r.downSent + 1 > n
    BY <1>0, <1>1, AnswerCounts
  <2>2. Len(r.chan) + 1 > n
    BY <1>1, <2>1, Zenon
  <2> QED
    BY <1>0, <1>2, <1>3, <2>2, PlaceIn, Zenon
<1>8. ProxyFits(z)
  <2>1. z.upSent - Len(z.up) = n /\ Len(z.chan) = n + z.downSent
    <3>1. n \in Nat
      BY <1>0, <1>1, AnswerCounts, Zenon
    <3>2. z.upSent - Len(z.up) = n
      BY <1>6, Zenon
    <3> HIDE DEF n
    <3>3. Len(r.chan) + 1 = n + (r.downSent + 1)
      BY <1>0, <1>1, <3>1, OneMoreLeft, Zenon
    <3> QED
      BY <1>3, <1>6, <3>2, <3>3, Zenon
  <2>2. \A i \in 1 .. Len(z.chan) : i > n <=> z.chan[i] = "data"
    BY <1>6, <1>7, Zenon
  <2>3. /\ Len(z.up) <= z.upSent /\ z.upSent <= Len(Tunnels!Replies(z.kind)) /\
           z.upSent = Len(Tunnels!Replies(z.kind))
        /\ Len(z.up) # Len(Tunnels!Replies(z.kind)) /\ z.pc # "handed"
    BY <1>0, <1>1, <1>6
  <2> QED
    BY <2>1, <2>2, <2>3, Zenon DEF ProxyFits
<1> QED
  BY <1>0, <1>5, <1>6, <1>8, ProperProxied DEF z

(* An answer is read. *)
AnswerRead(r, pc) == [r EXCEPT !.chan = Tail(@), !.up = Tunnels!Delivered(@), !.pc = pc]

LEMMA ProperAnswerRead ==
    ASSUME NEW r, Proper(r), r.pc = "proxy", r.chan # <<>>,
           Head(r.chan) = Tunnels!Replies(r.kind)[Len(r.up) + 1],
           NEW pc, pc = IF Len(r.up) + 1 = Len(Tunnels!Replies(r.kind)) THEN "handed" ELSE "proxy"
    PROVE  Proper(AnswerRead(r, pc))
<1> DEFINE z == AnswerRead(r, pc)
           rest == Tail(r.chan)
           read == Tunnels!Delivered(r.up)
           n == r.upSent - Len(r.up)
<1>0. /\ r \in ClientRecs /\ r.kind \in Tunnels!Proxied /\ r.chan \in Streams /\ r.upSent \in Nat
      /\ Len(r.up) \in Nat /\ Len(r.chan) \in Nat /\ Len(Tunnels!Replies(r.kind)) \in Nat
      /\ r.downSent \in Nat /\ r.up \in Seq(Nat)
  BY ProxyFacts
<1>1. /\ Len(r.up) <= r.upSent /\ r.upSent <= Len(Tunnels!Replies(r.kind)) /\
         Len(r.chan) = n + r.downSent
      /\ r.downSent > 0 => r.upSent = Len(Tunnels!Replies(r.kind))
      /\ Len(r.up) # Len(Tunnels!Replies(r.kind))
  BY ProxyFacts
<1>2. \A i \in 1 .. Len(r.chan) : i > n <=> r.chan[i] = "data"
  BY ProxyFacts
<1>3. /\ rest \in Streams /\ Len(rest) = Len(r.chan) - 1 /\ Len(r.chan) > 0 /\
         Head(r.chan) = r.chan[1]
      /\ \A i \in 1 .. Len(rest) : rest[i] = r.chan[i + 1]
  BY <1>0, PiecesTail
<1>4. r.chan[1] # "data"
  <2>1. Len(r.up) + 1 \in 1 .. Len(Tunnels!Replies(r.kind))
    <3>1. Len(r.up) <= Len(Tunnels!Replies(r.kind))
      BY <1>0, <1>1
    <3> QED
      BY <1>0, <1>1, <3>1, PlaceNext, Zenon
  <2> QED
    BY <1>0, <1>3, <2>1, AnswersOf
<1>5. n >= 1
  BY <1>0, <1>1, <1>2, <1>3, <1>4
<1>6. read \in Seq(Nat) /\ Len(read) = Len(r.up) + 1 /\ pc \in {"handed", "proxy"}
  BY <1>0 DEF Tunnels!Delivered
<1>7. z = [[[r EXCEPT !.chan = rest] EXCEPT !.up = read] EXCEPT !.pc = pc]
  BY DEF AnswerRead
<1> HIDE DEF rest, read, z
<1>8. z \in ClientRecs
  <2> DEFINE x == [r EXCEPT !.chan = rest]
             y == [x EXCEPT !.up = read]
  <2>1. x \in ClientRecs
    BY <1>0, <1>3 DEF ClientRecs
  <2> HIDE DEF x
  <2>2. y \in ClientRecs
    BY <2>1, <1>6 DEF ClientRecs
  <2> HIDE DEF y
  <2>3. [y EXCEPT !.pc = pc] \in ClientRecs
    BY <2>2, <1>6 DEF ClientRecs, Pcs
  <2> QED
    BY <1>7, <2>3 DEF x, y
<1>9. /\ z.pc = pc /\ z.kind = r.kind /\ z.chan = rest /\ z.up = read /\ z.upSent = r.upSent
      /\ z.downSent = r.downSent
  BY <1>0, <1>7 DEF ClientRecs
<1>10. ProxyFits(z)
  <2>1. z.upSent - Len(z.up) = n - 1 /\ Len(z.chan) = n - 1 + z.downSent
    <3>1. n \in Nat
      BY <1>0, <1>1, AnswerCounts, Zenon
    <3>2. r.upSent - Len(r.up) = n
      OBVIOUS
    <3> HIDE DEF n
    <3>3. r.upSent - (Len(r.up) + 1) = n - 1
      <4>1. r.upSent \in Nat /\ Len(r.up) \in Nat
        BY <1>0, Zenon
      <4> QED
        BY <3>1, <3>2, <4>1, OneRead, Zenon
    <3>5. Len(r.chan) - 1 = n - 1 + r.downSent
      <4>1. r.downSent \in Nat /\ Len(r.chan) \in Nat /\ Len(r.chan) = n + r.downSent
        BY <1>0, <1>1, Zenon
      <4> QED
        BY <3>1, <4>1, OneLess, Zenon
    <3>4. /\ Len(z.up) = Len(r.up) + 1 /\ z.upSent = r.upSent /\ z.downSent = r.downSent
          /\ Len(z.chan) = Len(r.chan) - 1
      BY <1>3, <1>6, <1>9, Zenon
    <3> QED
      BY <3>3, <3>4, <3>5, Zenon
  <2>2. \A i \in 1 .. Len(z.chan) : i > n - 1 <=> z.chan[i] = "data"
    <3>1. \A i \in 1 .. Len(rest) : i + 1 \in 1 .. Len(r.chan) /\ (i > n - 1 <=> i + 1 > n)
      BY <1>0, <1>3
    <3> QED
      BY <1>2, <1>3, <1>9, <3>1, Zenon
  <2>3. /\ Len(z.up) <= z.upSent /\ z.upSent <= Len(Tunnels!Replies(z.kind))
        /\ z.downSent > 0 => z.upSent = Len(Tunnels!Replies(z.kind))
        /\ z.pc = "handed" <=> Len(z.up) = Len(Tunnels!Replies(z.kind))
    <3>1. Len(r.up) + 1 <= r.upSent
      BY <1>0, <1>1, <1>5, AnswerCounts, Zenon
    <3>2. pc = "handed" <=> Len(r.up) + 1 = Len(Tunnels!Replies(r.kind))
      OBVIOUS
    <3> QED
      BY <1>1, <1>6, <1>9, <3>1, <3>2, Zenon
  <2> QED
    BY <2>1, <2>2, <2>3, Zenon DEF ProxyFits
<1> QED
  BY <1>0, <1>6, <1>8, <1>9, <1>10, ProperProxied DEF z

(* A connection that has a place, and the state of all. *)
InPlace(r) == r.pc \notin {"new", "place", "refused", "done", "proxy", "handed"} /\
       r.kind \notin Tunnels!Proxied
PlacesIn(A) == {c \in Clients : InPlace(A[c])}

InOrder(A, s) ==
    /\ A \in [Clients -> ClientRecs] /\ \A c \in Clients : Proper(A[c])
    /\ s \in Nat /\ s + Cardinality(PlacesIn(A)) = Slots

ClientsInv == InOrder(client, slots)

LEMMA PlacesMove ==
    ASSUME NEW S, NEW T, IsFiniteSet(S), NEW c, \A d : d # c => (d \in S <=> d \in T)
    PROVE  /\ Cardinality(S) \in Nat
           /\ (c \in S <=> c \in T) => Cardinality(T) = Cardinality(S)
           /\ c \notin S /\ c \in T => Cardinality(T) = Cardinality(S) + 1
           /\ c \in S /\ c \notin T => Cardinality(T) = Cardinality(S) - 1
<1>1. (c \in S <=> c \in T) => T = S
  OBVIOUS
<1>2. c \notin S /\ c \in T => T = S \cup {c}
  OBVIOUS
<1>3. c \in S /\ c \notin T => T = S \ {c}
  OBVIOUS
<1>4. Cardinality(S) \in Nat
  BY FS_CardinalityType
<1>5. c \notin S => Cardinality(S \cup {c}) = Cardinality(S) + 1
  BY FS_AddElement
<1>6. c \in S => Cardinality(S \ {c}) = Cardinality(S) - 1
  BY FS_RemoveElement
<1> QED
  BY <1>1, <1>2, <1>3, <1>4, <1>5, <1>6, Zenon

LEMMA RowMoves ==
    ASSUME NEW A, NEW s, InOrder(A, s), NEW c \in Clients, NEW z, Proper(z)
    PROVE  LET B == [A EXCEPT ![c] = z]
           IN  /\ (InPlace(A[c]) <=> InPlace(z)) => InOrder(B, s)
               /\ ~InPlace(A[c]) /\ InPlace(z) /\ s > 0 => InOrder(B, s - 1)
               /\ InPlace(A[c]) /\ ~InPlace(z) => InOrder(B, s + 1)
<1> DEFINE B == [A EXCEPT ![c] = z]
<1>0. A \in [Clients -> ClientRecs] /\ z \in ClientRecs
  BY RecordOf DEF InOrder
<1>1. B \in [Clients -> ClientRecs] /\ B[c] = z /\ \A d \in Clients : d # c => B[d] = A[d]
  BY <1>0
<1> HIDE DEF B
<1>2. \A d \in Clients : Proper(B[d])
  BY <1>1, Zenon DEF InOrder
<1>3. IsFiniteSet(PlacesIn(A))
  <2>1. PlacesIn(A) \subseteq Clients
    BY DEF PlacesIn
  <2> QED
    BY <2>1, ClientsAssumption, FS_Subset
<1>4. \A d : d # c => (d \in PlacesIn(A) <=> d \in PlacesIn(B))
  BY <1>1, Zenon DEF PlacesIn
<1>5. (c \in PlacesIn(A) <=> InPlace(A[c])) /\ (c \in PlacesIn(B) <=> InPlace(z))
  BY <1>1, Zenon DEF PlacesIn
<1> DEFINE p == Cardinality(PlacesIn(A))
           q == Cardinality(PlacesIn(B))
<1>6. /\ p \in Nat
      /\ (InPlace(A[c]) <=> InPlace(z)) => q = p
      /\ ~InPlace(A[c]) /\ InPlace(z) => q = p + 1
      /\ InPlace(A[c]) /\ ~InPlace(z) => q = p - 1
  BY <1>3, <1>4, <1>5, PlacesMove, Zenon
<1>7. s \in Nat /\ s + p = Slots
  BY Zenon DEF InOrder
<1>8. \A t : t \in Nat /\ t + q = Slots => InOrder(B, t)
  BY <1>1, <1>2, Zenon DEF InOrder
<1> HIDE DEF p, q
<1>9. (InPlace(A[c]) <=> InPlace(z)) => InOrder(B, s)
  BY <1>6, <1>7, <1>8, Zenon
<1>10. ~InPlace(A[c]) /\ InPlace(z) /\ s > 0 => InOrder(B, s - 1)
  <2>1. q = p + 1 /\ s > 0 => s - 1 \in Nat /\ s - 1 + q = Slots
    BY <1>6, <1>7
  <2> QED
    BY <1>6, <1>8, <2>1, Zenon
<1>11. InPlace(A[c]) /\ ~InPlace(z) => InOrder(B, s + 1)
  <2>1. q = p - 1 => s + 1 \in Nat /\ s + 1 + q = Slots
    BY <1>6, <1>7
  <2> QED
    BY <1>6, <1>8, <2>1, Zenon
<1> QED
  BY <1>9, <1>10, <1>11, Zenon DEF B

(* The end of the SSH connection reaches every pipe over it. *)
LEMMA LostFine ==
    ASSUME NEW A, NEW s, InOrder(A, s)
    PROVE  /\ InOrder(Tunnels!SshLost(A), s)
           /\ \A c \in Clients : A[c].pc # "pipe" => Tunnels!SshLost(A)[c] = A[c]
<1> DEFINE B == Tunnels!SshLost(A)
<1>1. \A c \in Clients : B[c] = IF A[c].kind \in Tunnels!OverSsh /\
       A[c].pc = "pipe" THEN Came(A[c], "none") ELSE A[c]
  BY Zenon DEF Tunnels!SshLost, Came
<1>2. DOMAIN B = Clients /\ B = [c \in Clients |-> B[c]]
  BY DEF Tunnels!SshLost
<1> HIDE DEF B
<1>3. \A c \in Clients : Proper(B[c]) /\ B[c].pc = A[c].pc /\ B[c].kind = A[c].kind
  <2> SUFFICES ASSUME NEW c \in Clients
               PROVE  Proper(B[c]) /\ B[c].pc = A[c].pc /\ B[c].kind = A[c].kind
    OBVIOUS
  <2>1. Proper(A[c]) /\ A[c] \in ClientRecs
    BY RecordOf DEF InOrder
  <2>2. CASE A[c].kind \in Tunnels!OverSsh /\ A[c].pc = "pipe"
    <3>1. A[c].kind \notin Tunnels!Proxied /\ A[c].pc # "new" /\ "none" \in Stops
      BY <2>2, SortsOfKinds DEF Stops
    <3>2. Proper(Came(A[c], "none"))
      BY <2>1, <3>1, ProperCame
    <3>3. Came(A[c], "none").pc = A[c].pc /\ Came(A[c], "none").kind = A[c].kind
      BY <2>1 DEF Came, ClientRecs
    <3> QED
      BY <1>1, <2>2, <3>2, <3>3, Zenon
  <2>3. CASE ~(A[c].kind \in Tunnels!OverSsh /\ A[c].pc = "pipe")
    BY <1>1, <2>1, <2>3, Zenon
  <2> QED
    BY <2>2, <2>3, Zenon
<1>4. B \in [Clients -> ClientRecs]
  BY <1>2, <1>3, RecordOf
<1>5. PlacesIn(B) = PlacesIn(A)
  BY <1>3, Zenon DEF PlacesIn, InPlace
<1>6. InOrder(B, s)
  BY <1>3, <1>4, <1>5, Zenon DEF InOrder
<1> QED
  BY <1>1, <1>6, Zenon DEF B

(* A step that leaves the places as they are. *)
UnderWay == Handshake \cup {"open", "pipe", "write", "read", "proxy", "ended"}
KeepsPlace(r, z) == Proper(z) /\ (InPlace(r) <=> InPlace(z))

LEMMA PlaceOf ==
    ASSUME NEW r, Proper(r), r.pc \in UnderWay PROVE InPlace(r) <=> r.kind \notin Tunnels!Proxied
  BY DEF Proper, PlaceFits, InPlace, UnderWay, Handshake

LEMMA KeepsPlaceLive ==
    ASSUME NEW r, Proper(r), NEW z, Proper(z), r.pc \in UnderWay, z.pc \in UnderWay, z.kind = r.kind
    PROVE  KeepsPlace(r, z)
  BY PlaceOf, Zenon DEF KeepsPlace

LEMMA MovesInOrder ==
    ASSUME ClientsInv, NEW c \in Clients, NEW z, KeepsPlace(client[c], z), Tunnels!Becomes(c, z)
    PROVE  ClientsInv'
<1>1. InOrder([client EXCEPT ![c] = z], slots)
  BY RowMoves, Zenon DEF ClientsInv, KeepsPlace
<1> QED
  BY <1>1, Zenon DEF ClientsInv, Tunnels!Becomes

(* Ends that need no more than that. *)
LEMMA EndFields ==
    ASSUME NEW r, r \in ClientRecs, NEW result
    PROVE  EndsAs(r, result).pc = "ended" /\ EndsAs(r, result).kind = r.kind
  BY DEF EndsAs, ClientRecs

LEMMA KeepsPlaceEnded ==
    ASSUME NEW r, Proper(r), r.pc \in UnderWay, NEW x, x \in ClientRecs, x.kind = r.kind,
           NEW result,
           Proper(EndsAs(x, result))
    PROVE  KeepsPlace(r, EndsAs(x, result))
<1>1. EndsAs(x, result).pc \in UnderWay /\ EndsAs(x, result).kind = r.kind
  BY EndFields DEF UnderWay
<1> QED
  BY <1>1, KeepsPlaceLive, Zenon

LEMMA FailsInOrder ==
    ASSUME ClientsInv, NEW c \in Clients, client[c].pc \in UnderWay, Tunnels!Ends(c, "error")
    PROVE  ClientsInv'
<1>1. Proper(client[c]) /\ client[c] \in ClientRecs
  BY RecordOf, Zenon DEF ClientsInv, InOrder
<1>2. KeepsPlace(client[c], EndsAs(client[c], "error"))
  BY <1>1, ProperFails, KeepsPlaceEnded, Zenon
<1>3. Tunnels!Becomes(c, EndsAs(client[c], "error"))
  BY Zenon DEF Tunnels!Ends, EndsAs
<1> QED
  BY <1>2, <1>3, MovesInOrder, Zenon

(* Each step of a connection. *)

LEMMA RowIsProper ==
    ASSUME ClientsInv, NEW c \in Clients
    PROVE  Proper(client[c]) /\ client[c] \in ClientRecs
  BY RecordOf, Zenon DEF ClientsInv, InOrder

LEMMA ToFields ==
    ASSUME NEW r, r \in ClientRecs, NEW pc
    PROVE  To(r, pc).pc = pc /\ To(r, pc).kind = r.kind /\ To(r, pc).target = r.target
  BY DEF To, ClientRecs

(* A place is taken: it is there, or the connection is refused. *)
LEMMA TakesSlot ==
    ASSUME ClientsInv, NEW c \in Clients, client[c].pc \in {"new", "place"},
           client[c].kind \notin Tunnels!Proxied,
           NEW pc \in {"hello", "open"}, Tunnels!TakeSlot(c, pc), Proper(To(client[c], pc))
    PROVE  ClientsInv'
<1> DEFINE r == client[c]
           z == To(r, pc)
           y == To(r, "refused")
<1>0. Proper(r) /\ r \in ClientRecs /\ slots \in Nat
  BY RowIsProper, Zenon DEF ClientsInv, InOrder
<1>1. /\ z.pc = pc /\ z.kind = r.kind /\ z.target = r.target /\ y.pc = "refused" /\ y.kind = r.kind
      /\ y.target = r.target
  BY <1>0, ToFields, Zenon
<1>2. /\ slots > 0 => slots' = slots - 1 /\ client' = [client EXCEPT ![c] = z]
      /\ ~(slots > 0) => client' = [client EXCEPT ![c] = y] /\ slots' = slots
  <2>1. [client EXCEPT ![c].pc = pc] = [client EXCEPT ![c] = z]
    BY DEF To
  <2>2. [client EXCEPT ![c].pc = "refused"] = [client EXCEPT ![c] = y]
    BY DEF To
  <2> HIDE DEF z, y
  <2> QED
    BY <2>1, <2>2, Zenon DEF Tunnels!TakeSlot
<1> HIDE DEF z, y
<1>3. ~InPlace(r) /\ InPlace(z) /\ ~InPlace(y)
  <2>1. z.pc \notin {"new", "place", "refused", "done", "proxy", "handed"} /\
         z.kind \notin Tunnels!Proxied
    BY <1>1
  <2> QED
    BY <1>1, <2>1, Zenon DEF InPlace
<1>4. Proper(y)
  <2>1. "refused" \in Pcs \ {"ended", "new", "proxy", "handed"}
    BY DEF Pcs
  <2>2. PlaceFits(y) /\ RouteFits(y)
    BY <1>1 DEF PlaceFits, RouteFits, Handshake
  <2> QED
    BY <1>0, <2>1, <2>2, ProperTo, Zenon DEF y
<1>5. CASE slots > 0
  <2>1. InOrder([client EXCEPT ![c] = z], slots - 1)
    BY <1>3, <1>5, RowMoves, Zenon DEF ClientsInv, z
  <2> QED
    BY <1>2, <1>5, <2>1, Zenon DEF ClientsInv
<1>6. CASE ~(slots > 0)
  <2>1. InOrder([client EXCEPT ![c] = y], slots)
    BY <1>3, <1>4, RowMoves, Zenon DEF ClientsInv
  <2> QED
    BY <1>2, <1>6, <2>1, Zenon DEF ClientsInv
<1> QED
  BY <1>5, <1>6, Zenon

LEMMA AcceptsInOrder ==
    ASSUME ClientsInv, NEW c \in Clients,
           Tunnels!AcceptLocal(c) \/ Tunnels!AcceptForwarded(c) \/ Tunnels!AcceptHost(c)
    PROVE  ClientsInv'
<1> DEFINE r == client[c]
<1>0. Proper(r) /\ r \in ClientRecs
  BY RowIsProper, Zenon
<1>1. r.pc = "new" /\ r.kind \in Tunnels!Piped
  BY DEF Tunnels!AcceptLocal, Tunnels!AcceptForwarded, Tunnels!AcceptHost, Tunnels!At, Tunnels!Is,
         Tunnels!Piped, Tunnels!OverSsh
<1>2. PICK pc \in {"hello", "open"} : Tunnels!TakeSlot(c, pc) /\
       (r.kind \in Tunnels!Dynamic <=> pc = "hello")
  <2>1. CASE Tunnels!AcceptLocal(c)
    BY <2>1, Zenon DEF Tunnels!AcceptLocal, Tunnels!Is
  <2>2. CASE Tunnels!AcceptForwarded(c)
    <3>1. Tunnels!TakeSlot(c, "open") /\ r.kind = "remote"
      BY <2>2 DEF Tunnels!AcceptForwarded, Tunnels!Is
    <3> QED
      BY <3>1 DEF Tunnels!Dynamic
  <2>3. CASE Tunnels!AcceptHost(c)
    BY <2>3, Zenon DEF Tunnels!AcceptHost, Tunnels!Is
  <2> QED
    BY <2>1, <2>2, <2>3, Zenon
<1>3. PlaceFits(To(r, pc)) /\ RouteFits(To(r, pc))
  <2> DEFINE z == To(r, pc)
  <2>1. z.pc = pc /\ z.kind = r.kind /\ z.target = r.target
    BY <1>0, ToFields, Zenon
  <2>2. r.kind \notin Tunnels!Exchanges /\ r.kind \notin Tunnels!Proxied
    BY <1>1, SortsOfKinds
  <2> HIDE DEF z
  <2>3. PlaceFits(z) /\ RouteFits(z)
    BY <1>2, <2>1, <2>2 DEF PlaceFits, RouteFits, Handshake
  <2> QED
    BY <2>3 DEF z
<1>4. pc \in Pcs \ {"ended", "new", "proxy", "handed"} /\ r.kind \notin Tunnels!Proxied
  BY <1>1, SortsOfKinds DEF Pcs, Handshake
<1>5. Proper(To(r, pc))
  BY <1>0, <1>3, <1>4, ProperTo, Zenon
<1>6. r.pc \in {"new", "place"}
  BY <1>1
<1> QED
  BY <1>2, <1>4, <1>5, <1>6, TakesSlot, Zenon

LEMMA PlaceStep ==
    ASSUME ClientsInv, NEW c \in Clients, Tunnels!PlaceRequest(c)
    PROVE  ClientsInv'
<1> DEFINE r == client[c]
           z == To(r, "open")
<1>0. Proper(r) /\ r \in ClientRecs /\ r.pc = "place" /\ Tunnels!TakeSlot(c, "open")
  BY RowIsProper, Zenon DEF Tunnels!PlaceRequest, Tunnels!At
<1>1. r.kind \in Tunnels!Exchanges /\ r.kind \notin Tunnels!Proxied /\ RouteFits(r)
  BY <1>0, SortsOfKinds DEF Proper, PlaceFits
<1>2. z.pc = "open" /\ z.kind = r.kind /\ z.target = r.target
  BY <1>0, ToFields, Zenon
<1>3. PlaceFits(z) /\ RouteFits(z)
  <2> HIDE DEF z
  <2> QED
    BY <1>0, <1>1, <1>2 DEF PlaceFits, RouteFits, Handshake
<1>4. "open" \in Pcs \ {"ended", "new", "proxy", "handed"} /\ "open" \in {"hello", "open"}
      /\ r.pc \in {"new", "place"}
  BY <1>0 DEF Pcs
<1>5. Proper(z)
  BY <1>0, <1>3, <1>4, ProperTo, Zenon
<1> QED
  BY <1>0, <1>1, <1>4, <1>5, TakesSlot, Zenon

LEMMA FinishStep ==
    ASSUME ClientsInv, NEW c \in Clients, Tunnels!Finish(c)
    PROVE  ClientsInv'
<1> DEFINE r == client[c]
           y == Tunnels!Fresh(r.kind, r.target)
           z == To(y, "done")
<1>0. /\ Proper(r) /\ r \in ClientRecs /\ r.pc = "ended" /\ slots \in Nat
      /\ client' = [client EXCEPT ![c] = z] /\
             slots' = IF r.kind \in Tunnels!Proxied THEN slots ELSE slots + 1
  BY RowIsProper, Zenon DEF Tunnels!Finish, Tunnels!At, Tunnels!Is, To, ClientsInv, InOrder
<1>1. r.kind \in Tunnels!Kinds /\ r.target \in Targets
  BY <1>0 DEF ClientRecs
<1>2. Proper(y) /\ y \in ClientRecs
  BY <1>1, ProperFresh, RecordOf, Zenon
<1>3. z.pc = "done" /\ z.kind = r.kind
  BY <1>2, ToFields DEF Tunnels!Fresh
<1> HIDE DEF y
<1>4. PlaceFits(z) /\ RouteFits(z)
  <2> HIDE DEF z
  <2> QED
    BY <1>3 DEF PlaceFits, RouteFits, Handshake
<1>5. "done" \in Pcs \ {"ended", "new", "proxy", "handed"}
  BY DEF Pcs
<1>6. Proper(z)
  BY <1>2, <1>4, <1>5, ProperTo, Zenon
<1> HIDE DEF z
<1>7. ~InPlace(z) /\ (InPlace(r) <=> r.kind \notin Tunnels!Proxied)
  <2>1. r.pc \notin {"new", "place", "refused", "done", "proxy", "handed"}
    BY <1>0
  <2> QED
    BY <1>3, <2>1, Zenon DEF InPlace
<1>8. CASE r.kind \in Tunnels!Proxied
  <2>1. InOrder([client EXCEPT ![c] = z], slots)
    BY <1>6, <1>7, <1>8, RowMoves, Zenon DEF ClientsInv
  <2> QED
    BY <1>0, <1>8, <2>1, Zenon DEF ClientsInv
<1>9. CASE r.kind \notin Tunnels!Proxied
  <2>1. InOrder([client EXCEPT ![c] = z], slots + 1)
    BY <1>6, <1>7, <1>9, RowMoves, Zenon DEF ClientsInv
  <2> QED
    BY <1>0, <1>9, <2>1, Zenon DEF ClientsInv
<1> QED
  BY <1>8, <1>9, Zenon

(* A step that only comes to another place. *)
LEMMA ComesInOrder ==
    ASSUME ClientsInv, NEW c \in Clients, NEW x, Proper(x), x.kind = client[c].kind,
           client[c].pc \in UnderWay, NEW pc, pc \in (UnderWay \cap Pcs) \ {"ended", "proxy"},
           PlaceFits(To(x, pc)), RouteFits(To(x, pc)), Tunnels!Becomes(c, To(x, pc))
    PROVE  ClientsInv'
<1>1. Proper(client[c]) /\ x \in ClientRecs
  BY RowIsProper, RecordOf, Zenon
<1>2. To(x, pc).pc = pc /\ To(x, pc).kind = client[c].kind
  BY <1>1, ToFields, Zenon
<1>3. pc \in Pcs \ {"ended", "new", "proxy", "handed"} /\ pc \in UnderWay
  BY DEF UnderWay, Handshake
<1>4. Proper(To(x, pc))
  BY <1>3, ProperTo, Zenon
<1>5. KeepsPlace(client[c], To(x, pc))
  BY <1>1, <1>2, <1>3, <1>4, KeepsPlaceLive, Zenon
<1> QED
  BY <1>5, MovesInOrder, Zenon

LEMMA HandshakeStep ==
    ASSUME ClientsInv, NEW c \in Clients, Tunnels!ReadHello(c) \/ Tunnels!ReadRequest(c)
    PROVE  ClientsInv'
<1> DEFINE r == client[c]
           x == Read(r)
<1>0. Proper(r) /\ r \in ClientRecs
  BY RowIsProper, Zenon
<1>1. r.pc \in {"hello", "request"} /\ r.inbox # <<>> /\ r.pc \in UnderWay
  BY DEF Tunnels!ReadHello, Tunnels!ReadRequest, Tunnels!At, UnderWay, Handshake
<1>2. r.kind \in Tunnels!Dynamic /\ r.kind \in Tunnels!Piped
  BY <1>0, <1>1, SortsOfKinds DEF Proper, PlaceFits, Handshake
<1>3. CASE Tunnels!Ends(c, "error")
  BY <1>1, <1>3, FailsInOrder, Zenon
<1>4. CASE \E pc \in {"request", "route"} : Tunnels!Becomes(c, To(x, pc)) /\ Head(r.inbox) # "data"
  <2>1. PICK pc \in {"request", "route"} : Tunnels!Becomes(c, To(x, pc)) /\ Head(r.inbox) # "data"
    BY <1>4
  <2>2. Proper(x) /\ x \in ClientRecs /\ SameRoute(r, x)
    <3>1. r.pc # "new"
      BY <1>1
    <3> QED
      BY <1>0, <1>1, <1>2, <2>1, <3>1, ProperRead, ReadFields, Zenon
  <2> HIDE DEF x
  <2>3. To(x, pc).pc = pc /\ To(x, pc).kind = r.kind
    BY <2>2, ToFields, Zenon DEF SameRoute
  <2>4. PlaceFits(To(x, pc)) /\ RouteFits(To(x, pc))
    <3> DEFINE z == To(x, pc)
    <3>1. z.pc \in {"request", "route"} /\ z.kind \in Tunnels!Dynamic
      BY <1>2, <2>3
    <3> HIDE DEF z
    <3>2. PlaceFits(z) /\ RouteFits(z)
      BY <3>1 DEF PlaceFits, RouteFits, Handshake
    <3> QED
      BY <3>2 DEF z
  <2>5. pc \in (UnderWay \cap Pcs) \ {"ended", "proxy"}
    BY DEF UnderWay, Pcs, Handshake
  <2> QED
    BY <1>1, <2>1, <2>2, <2>4, <2>5, ComesInOrder, Zenon DEF SameRoute
<1>5. Tunnels!Ends(c, "error") \/ \E pc \in {"request", "route"} : Tunnels!Becomes(c, To(x,
       pc)) /\ Head(r.inbox) # "data"
  <2>1. CASE Tunnels!ReadHello(c)
    <3>1. \/ Tunnels!Ends(c, "error")
          \/ Head(r.inbox) = "hello" /\ Tunnels!Becomes(c, To(x, "request"))
      BY <2>1, Zenon DEF Tunnels!ReadHello, Tunnels!ReadExact, To, Read
    <3> QED
      BY <3>1
  <2>2. CASE Tunnels!ReadRequest(c)
    <3>1. \/ Tunnels!Ends(c, "error")
          \/ Head(r.inbox) = "request" /\ Tunnels!Becomes(c, To(x, "route"))
      BY <2>2, Zenon DEF Tunnels!ReadRequest, Tunnels!ReadExact, To, Read
    <3> QED
      BY <3>1
  <2> QED
    BY <2>1, <2>2, Zenon
<1> QED
  BY <1>3, <1>4, <1>5, Zenon

(* The steps that fail. *)
LEMMA FailStep ==
    ASSUME ClientsInv, NEW c \in Clients,
           \/ Tunnels!HandshakeTimesOut(c) \/ Tunnels!OpenFails(c) \/ Tunnels!LocalWriteFails(c) \/ Tunnels!WriteFails(c) \/ Tunnels!ProxyFails(c)
    PROVE  ClientsInv'
<1>1. client[c].pc \in UnderWay
  BY DEF Tunnels!HandshakeTimesOut, Tunnels!OpenFails, Tunnels!LocalWriteFails,
         Tunnels!WriteFails, Tunnels!ProxyFails, Tunnels!At, UnderWay, Handshake
<1>2. Tunnels!Ends(c, "error")
  BY Zenon DEF Tunnels!HandshakeTimesOut, Tunnels!OpenFails, Tunnels!LocalWriteFails,
         Tunnels!WriteFails, Tunnels!ProxyFails
<1> QED
  BY <1>1, <1>2, FailsInOrder, Zenon

(* The rules of a route. *)
LEMMA RoutesInOrder ==
    ASSUME ClientsInv, NEW c \in Clients, Tunnels!RouteDynamic(c) \/ Tunnels!RouteHost(c)
    PROVE  ClientsInv'
<1> DEFINE r == client[c]
           z == To(r, "open")
<1>0. Proper(r) /\ r \in ClientRecs /\ Tunnels!Routing(c)
  BY RowIsProper, Zenon DEF Tunnels!RouteDynamic, Tunnels!RouteHost
<1>1. r.pc = "route" /\ r.kind \in Tunnels!Dynamic /\ r.pc \in UnderWay
  BY DEF Tunnels!RouteDynamic, Tunnels!RouteHost, Tunnels!Routing, Tunnels!At, Tunnels!Is,
         Tunnels!Dynamic, UnderWay, Handshake
<1>2. CASE Tunnels!RouteAllowed(r.target) /\ Tunnels!Becomes(c, z)
  <2>1. z.pc = "open" /\ z.kind = r.kind /\ z.target = r.target
    BY <1>0, ToFields, Zenon
  <2>2. PlaceFits(z) /\ RouteFits(z)
    <3>1. r.kind \notin Tunnels!Proxied /\ r.kind \in Tunnels!Dynamic
      BY <1>1, SortsOfKinds
    <3> HIDE DEF z
    <3> QED
      BY <1>2, <2>1, <3>1 DEF PlaceFits, RouteFits, Handshake
  <2>3. "open" \in (UnderWay \cap Pcs) \ {"ended", "proxy"}
    BY DEF UnderWay, Pcs
  <2> QED
    BY <1>0, <1>1, <1>2, <2>2, <2>3, ComesInOrder, Zenon
<1>3. CASE Tunnels!Ends(c, "error")
  BY <1>1, <1>3, FailsInOrder, Zenon
<1> QED
  BY <1>0, <1>2, <1>3, Zenon DEF Tunnels!Routing, To

(* A request that is not under way yet. *)
LEMMA CheckStep ==
    ASSUME ClientsInv, NEW c \in Clients,
           Tunnels!RouteRequest(c) \/ Tunnels!RouteUdpRequest(c) \/ Tunnels!LookupFails(c)
    PROVE  ClientsInv'
<1> DEFINE r == client[c]
<1>0. Proper(r) /\ r \in ClientRecs
  BY RowIsProper, Zenon
<1>1. r.kind \in Tunnels!Exchanges /\ r.pc \in {"new", "place"}
  BY DEF Tunnels!RouteRequest, Tunnels!RouteUdpRequest, Tunnels!Checking, Tunnels!LookupFails,
         Tunnels!At, Tunnels!Is, Tunnels!Exchanges
<1>2. PICK pc \in {"place", "refused"} :
         Tunnels!Becomes(c, To(r, pc)) /\ (pc = "place" => Tunnels!RouteAllowed(r.target))
  <2>1. CASE Tunnels!RouteRequest(c) \/ Tunnels!RouteUdpRequest(c)
    <3>1. Tunnels!Becomes(c, To(r, IF Tunnels!RouteAllowed(r.target) THEN "place" ELSE "refused"))
      BY <2>1, Zenon DEF Tunnels!RouteRequest, Tunnels!RouteUdpRequest, Tunnels!Checking, To
    <3> QED
      BY <3>1, Zenon
  <2>2. CASE Tunnels!LookupFails(c)
    <3>1. Tunnels!Becomes(c, To(r, "refused"))
      BY <2>2, Zenon DEF Tunnels!LookupFails, To
    <3> QED
      BY <3>1
  <2> QED
    BY <2>1, <2>2, Zenon
<1> DEFINE z == To(r, pc)
<1>3. z.pc = pc /\ z.kind = r.kind /\ z.target = r.target
  BY <1>0, ToFields, Zenon
<1>4. PlaceFits(z) /\ RouteFits(z)
  <2> HIDE DEF z
  <2> QED
    BY <1>1, <1>2, <1>3 DEF PlaceFits, RouteFits, Handshake
<1>5. pc \in Pcs \ {"ended", "new", "proxy", "handed"}
  BY DEF Pcs
<1>6. Proper(z)
  BY <1>0, <1>4, <1>5, ProperTo, Zenon
<1>7. ~InPlace(r) /\ ~InPlace(z)
  BY <1>1, <1>3 DEF InPlace
<1> QED
  BY <1>2, <1>6, <1>7, MovesInOrder, Zenon DEF KeepsPlace

LEMMA OpenStep ==
    ASSUME ClientsInv, NEW c \in Clients,
           \/ Tunnels!OpenDirect(c) \/ Tunnels!OpenForwardTarget(c) \/ Tunnels!OpenHostTarget(c) \/ Tunnels!OpenExchange(c)
    PROVE  ClientsInv'
<1> DEFINE r == client[c]
<1>0. Proper(r) /\ r \in ClientRecs
  BY RowIsProper, Zenon
<1>1. PICK pc \in {"pipe", "write"} : Tunnels!Opened(c, pc) /\
       r.kind \in IF pc = "pipe" THEN Tunnels!Piped ELSE Tunnels!Exchanges
  <2>1. CASE Tunnels!OpenExchange(c)
    BY <2>1, Zenon DEF Tunnels!OpenExchange, Tunnels!Is
  <2>2. CASE Tunnels!OpenDirect(c) \/ Tunnels!OpenForwardTarget(c) \/ Tunnels!OpenHostTarget(c)
    <3>1. Tunnels!Opened(c, "pipe")
      BY <2>2, Zenon DEF Tunnels!OpenDirect, Tunnels!OpenForwardTarget, Tunnels!OpenHostTarget
    <3>2. r.kind \in Tunnels!Piped
      BY <2>2 DEF Tunnels!OpenDirect, Tunnels!OpenForwardTarget, Tunnels!OpenHostTarget,
             Tunnels!Is, Tunnels!Piped, Tunnels!OverSsh
    <3> QED
      BY <3>1, <3>2, Zenon
  <2> QED
    BY <2>1, <2>2, Zenon
<1>2. r.pc = "open" /\ Tunnels!Becomes(c, To(r, pc)) /\ r.pc \in UnderWay
  <2>1. r.pc = "open" /\ Tunnels!Becomes(c, To(r, pc))
    BY <1>1, Zenon DEF Tunnels!Opened, Tunnels!At, To
  <2> QED
    BY <2>1 DEF UnderWay
<1> DEFINE z == To(r, pc)
<1>3. z.pc = pc /\ z.kind = r.kind /\ z.target = r.target
  BY <1>0, ToFields, Zenon
<1>4. RouteFits(r) /\ r.kind \notin Tunnels!Proxied
  BY <1>0, <1>2 DEF Proper, PlaceFits
<1>5. PlaceFits(z) /\ RouteFits(z)
  <2>1. pc \in {"pipe", "write"} /\ (pc = "pipe" => r.kind \in Tunnels!Piped) /\ (pc = "write" =>
         r.kind \in Tunnels!Exchanges)
    BY <1>1
  <2> HIDE DEF z
  <2> QED
    BY <1>2, <1>3, <1>4, <2>1 DEF PlaceFits, RouteFits, Handshake
<1>6. pc \in (UnderWay \cap Pcs) \ {"ended", "proxy"}
  BY DEF UnderWay, Pcs
<1> QED
  BY <1>0, <1>2, <1>5, <1>6, ComesInOrder, Zenon

LEMMA SentFields ==
    ASSUME NEW r, r \in ClientRecs, NEW token
    PROVE  /\ Sent(r, token).pc = r.pc /\ Sent(r, token).kind = r.kind
           /\ SentData(r).pc = r.pc /\ SentData(r).kind = r.kind
           /\ Came(r, token).pc = r.pc /\ Came(r, token).kind = r.kind
           /\ CameData(r).pc = r.pc /\ CameData(r).kind = r.kind
  BY DEF Sent, SentData, Came, CameData, ClientRecs

(* A step that stays at its place. *)
LEMMA StaysInOrder ==
    ASSUME ClientsInv, NEW c \in Clients, NEW z, Proper(z), z.pc = client[c].pc,
           z.kind = client[c].kind,
           Tunnels!Becomes(c, z)
    PROVE  ClientsInv'
<1>1. KeepsPlace(client[c], z)
  BY Zenon DEF KeepsPlace, InPlace
<1> QED
  BY <1>1, MovesInOrder, Zenon

LEMMA ClientSendStep ==
    ASSUME ClientsInv, NEW c \in Clients, Tunnels!ClientSends(c) \/ Tunnels!ClientCloses(c)
    PROVE  ClientsInv'
<1> DEFINE r == client[c]
<1>0. Proper(r) /\ r \in ClientRecs /\ r.kind \in Tunnels!Kinds
  BY RowIsProper DEF ClientRecs
<1>1. r.kind \in Tunnels!Piped /\ r.pc # "new"
  <2>1. CASE Tunnels!ClientSends(c)
    <3>1. r.pc \in {"hello", "request", "route", "open", "pipe"} /\ r.kind \notin Tunnels!Exchanges
      BY <2>1, Zenon DEF Tunnels!ClientSends, Tunnels!Is
    <3>2. PlaceFits(r)
      BY <1>0, Zenon DEF Proper
    <3> QED
      BY <1>0, <3>1, <3>2, SortsOfKinds DEF PlaceFits, Tunnels!Kinds, Handshake
  <2>2. CASE Tunnels!ClientCloses(c)
    <3>1. r.pc = "pipe"
      BY <2>2, Zenon DEF Tunnels!ClientCloses, Tunnels!At
    <3> QED
      BY <1>0, <3>1 DEF Proper, PlaceFits
  <2> QED
    BY <2>1, <2>2, Zenon
<1>2. \/ \E token \in Tokens \ {"data"} : Tunnels!Becomes(c, Sent(r, token))
      \/ ~ Tunnels!Contains(r.inbox, "eof") /\ ~r.localEof /\ Tunnels!Becomes(c, SentData(r))
  <2>1. CASE Tunnels!ClientSends(c)
    <3> DEFINE choice == IF ~ Tunnels!Is(c, Tunnels!Dynamic) THEN {"data"}
                    ELSE IF Tunnels!At(c, "hello") /\ client[c].inbox = <<>> THEN {"hello", "bad"}
                    ELSE IF \/ Tunnels!At(c, "hello") /\ client[c].inbox = <<"hello">>
                            \/ Tunnels!At(c, "request") /\ client[c].inbox = <<>>
                         THEN {"request", "bad"}
                    ELSE {"data"}
    <3>1. \A token \in choice : token \in Tokens
      BY DEF Tokens
    <3>2. \E token \in choice :
            IF token # "data"
            THEN Tunnels!Becomes(c, [client[c] EXCEPT !.inbox = Append(@, token)])
            ELSE /\ client[c].upSent < MaxData
                 /\ ~ Tunnels!Contains(client[c].inbox, "eof") /\ ~ client[c].localEof
                 /\ Tunnels!Becomes(c, [client[c] EXCEPT !.inbox = Append(@, "data"),
                        !.upSent = @ + 1])
      BY <2>1, Zenon DEF Tunnels!ClientSends
    <3> HIDE DEF choice
    <3>3. PICK token \in choice :
            IF token # "data" THEN Tunnels!Becomes(c, Sent(r, token))
            ELSE ~ Tunnels!Contains(r.inbox, "eof") /\ ~r.localEof /\ Tunnels!Becomes(c,
                   SentData(r))
      BY <3>2, Zenon DEF Sent, SentData
    <3>4. token \in Tokens /\ (token # "data" => token \in Tokens \ {"data"})
      BY <3>1
    <3> QED
      BY <3>3, <3>4, Zenon
  <2>2. CASE Tunnels!ClientCloses(c)
    <3>1. Tunnels!Becomes(c, Sent(r, "eof")) \/ Tunnels!Becomes(c, Sent(r, "reset"))
      BY <2>2, Zenon DEF Tunnels!ClientCloses, Sent
    <3>2. {"eof", "reset"} \subseteq Tokens \ {"data"}
      BY DEF Tokens
    <3> QED
      BY <3>1, <3>2
  <2> QED
    BY <2>1, <2>2, Zenon
<1>3. CASE \E token \in Tokens \ {"data"} : Tunnels!Becomes(c, Sent(r, token))
  <2>1. PICK token \in Tokens \ {"data"} : Tunnels!Becomes(c, Sent(r, token))
    BY <1>3
  <2>2. Proper(Sent(r, token))
    BY <1>0, <1>1, ProperSent, Zenon
  <2> QED
    BY <1>0, <2>1, <2>2, SentFields, StaysInOrder, Zenon
<1>4. CASE ~ Tunnels!Contains(r.inbox, "eof") /\ ~r.localEof /\ Tunnels!Becomes(c, SentData(r))
  <2>1. Proper(SentData(r))
    BY <1>0, <1>1, <1>4, ProperSentData, Zenon
  <2> QED
    BY <1>0, <1>4, <2>1, SentFields, StaysInOrder, Zenon
<1> QED
  BY <1>2, <1>3, <1>4, Zenon

LEMMA OverTells ==
    ASSUME NEW c \in Clients, ~ Tunnels!Over(c) PROVE Unended(client[c])
  BY Zenon DEF Tunnels!Over, Unended, Tunnels!Contains, Stops

LEMMA TargetSendStep ==
    ASSUME ClientsInv, NEW c \in Clients, Tunnels!TargetSends(c) \/ Tunnels!TargetCloses(c)
    PROVE  ClientsInv'
<1> DEFINE r == client[c]
<1>0. Proper(r) /\ r \in ClientRecs
  BY RowIsProper, Zenon
<1>1. r.pc \in {"pipe", "write", "read"}
  BY Zenon DEF Tunnels!TargetSends, Tunnels!TargetCloses
<1>2. r.kind \notin Tunnels!Proxied /\ r.pc \notin {"new", "ended"} /\ r.pc # "new"
  <2>1. PlaceFits(r)
    BY <1>0, Zenon DEF Proper
  <2> QED
    BY <1>1, <2>1, SortsOfKinds DEF PlaceFits
<1>3. CASE Tunnels!TargetSends(c)
  <2>1. ~ Tunnels!Over(c) /\ Tunnels!Becomes(c, CameData(r))
    BY <1>3, Zenon DEF Tunnels!TargetSends, CameData
  <2>2. Proper(CameData(r))
    BY <1>0, <1>2, <2>1, OverTells, ProperCameData, Zenon
  <2> QED
    BY <1>0, <2>1, <2>2, SentFields, StaysInOrder, Zenon
<1>4. CASE Tunnels!TargetCloses(c)
  <2>1. Tunnels!Becomes(c, Came(r, "eof")) \/ Tunnels!Becomes(c, Came(r,
         "close")) \/ Tunnels!Becomes(c, Came(r, "reset"))
    BY <1>4, Zenon DEF Tunnels!TargetCloses, Came
  <2>2. PICK token \in Stops : Tunnels!Becomes(c, Came(r, token))
    BY <2>1 DEF Stops
  <2>3. Proper(Came(r, token))
    BY <1>0, <1>2, ProperCame, Zenon
  <2> QED
    BY <1>0, <2>2, <2>3, SentFields, StaysInOrder, Zenon
<1> QED
  BY <1>3, <1>4, Zenon

(* The pipe. *)
LEMMA PassedFields ==
    ASSUME NEW r, Proper(r)
    PROVE  /\ r.inbox # <<>> => PassedUp(r).pc = r.pc /\ PassedUp(r).kind = r.kind
           /\ r.inbox # <<>> => ClientEnded(r).pc = r.pc /\ ClientEnded(r).kind = r.kind
           /\ r.chan # <<>> => PassedDown(r).pc = r.pc /\ PassedDown(r).kind = r.kind
           /\ r.chan # <<>> => TargetEnded(r).pc = r.pc /\ TargetEnded(r).kind = r.kind
<1>1. ASSUME r.inbox # <<>>
      PROVE  PassedUp(r).pc = r.pc /\ PassedUp(r).kind = r.kind
             /\ ClientEnded(r).pc = r.pc /\ ClientEnded(r).kind = r.kind
  <2>1. Read(r) \in ClientRecs /\ Read(r).pc = r.pc /\ Read(r).kind = r.kind
    BY <1>1, ReadFields DEF SameRoute
  <2> QED
    BY <2>1 DEF PassedUp, ClientEnded, ClientRecs
<1>2. ASSUME r.chan # <<>>
      PROVE  PassedDown(r).pc = r.pc /\ PassedDown(r).kind = r.kind
             /\ TargetEnded(r).pc = r.pc /\ TargetEnded(r).kind = r.kind
  <2>1. TakenOff(r) \in ClientRecs /\ TakenOff(r).pc = r.pc /\ TakenOff(r).kind = r.kind
    BY <1>2, TakenFields DEF SameRoute
  <2> QED
    BY <2>1 DEF PassedDown, TargetEnded, ClientRecs
<1> QED
  BY <1>1, <1>2, Zenon

(* A pipe that ends well. *)
LEMMA EndsWell ==
    ASSUME ClientsInv, NEW c \in Clients, client[c].pc \in UnderWay, NEW x, Proper(x),
           x.kind = client[c].kind, Proper(EndsAs(x, "ok")), Tunnels!Becomes(c, EndsAs(x, "ok"))
    PROVE  ClientsInv'
<1>1. KeepsPlace(client[c], EndsAs(x, "ok"))
  BY RowIsProper, RecordOf, KeepsPlaceEnded, Zenon
<1> QED
  BY <1>1, MovesInOrder, Zenon

LEMMA PipeLocalStep ==
    ASSUME ClientsInv, NEW c \in Clients, Tunnels!PipeLocal(c)
    PROVE  ClientsInv'
<1> DEFINE r == client[c]
<1>0. Proper(r) /\ r \in ClientRecs
  BY RowIsProper, Zenon
<1>1. r.pc = "pipe" /\ ~r.localEof /\ r.inbox # <<>>
  BY Zenon DEF Tunnels!PipeLocal, Tunnels!At
<1>2. r.kind \in Tunnels!Piped /\ r.pc # "new" /\ r.pc \in UnderWay
  BY <1>0, <1>1 DEF Proper, PlaceFits, UnderWay
<1>3. \/ Tunnels!Ends(c, "error")
      \/ Head(r.inbox) = "data" /\ Tunnels!Becomes(c, PassedUp(r))
      \/ Head(r.inbox) = "eof" /\ r.remoteEof /\ Tunnels!Becomes(c, EndsAs(ClientEnded(r), "ok"))
      \/ Head(r.inbox) = "eof" /\ Tunnels!Becomes(c, ClientEnded(r))
  <2>1. CASE Head(r.inbox) = "data"
    <3>1. Tunnels!Ends(c, "error") \/ Tunnels!Becomes(c,
           [[r EXCEPT !.inbox = Tail(@)] EXCEPT !.up = Tunnels!Delivered(@)])
      BY <2>1 DEF Tunnels!PipeLocal
    <3> QED
      BY <2>1, <3>1, Zenon DEF PassedUp, Read
  <2>2. CASE Head(r.inbox) = "eof"
    <3>1. Tunnels!Ends(c, "error") \/ Tunnels!Becomes(c,
           Tunnels!HalfClosed([r EXCEPT !.inbox = Tail(@)]))
      BY <2>2 DEF Tunnels!PipeLocal
    <3>2. Read(r).remoteEof = r.remoteEof
      BY <1>0, <1>1, ReadFields, Zenon
    <3>3. Tunnels!HalfClosed(Read(r)) = IF r.remoteEof THEN EndsAs(ClientEnded(r),
           "ok") ELSE ClientEnded(r)
      BY <3>2 DEF Tunnels!HalfClosed, EndsAs, ClientEnded
    <3> QED
      BY <2>2, <3>1, <3>3, Zenon DEF Read
  <2>3. CASE Head(r.inbox) # "data" /\ Head(r.inbox) # "eof"
    BY <2>3 DEF Tunnels!PipeLocal
  <2> QED
    BY <2>1, <2>2, <2>3, Zenon
<1>4. CASE Tunnels!Ends(c, "error")
  BY <1>2, <1>4, FailsInOrder, Zenon
<1>5. CASE Head(r.inbox) = "data" /\ Tunnels!Becomes(c, PassedUp(r))
  BY <1>0, <1>1, <1>2, <1>5, ProperPassedUp, PassedFields, StaysInOrder, Zenon
<1>6. CASE Head(r.inbox) = "eof" /\ r.remoteEof /\ Tunnels!Becomes(c, EndsAs(ClientEnded(r), "ok"))
  <2>1. Proper(ClientEnded(r)) /\ ClientEnded(r).chan = r.chan /\ ClientEnded(r).kind = r.kind
    BY <1>0, <1>1, <1>2, <1>6, ProperClientEnded, Zenon
  <2>2. NoData(r.chan)
    BY <1>0, <1>2, <1>6, Zenon DEF Proper, DownFits
  <2>3. r.kind # "tcp"
    BY <1>2, SortsOfKinds DEF Tunnels!Exchanges
  <2>4. Proper(EndsAs(ClientEnded(r), "ok"))
    BY <2>1, <2>2, <2>3, ProperEnds, Zenon
  <2> QED
    BY <1>2, <1>6, <2>1, <2>4, EndsWell, Zenon
<1>7. CASE Head(r.inbox) = "eof" /\ Tunnels!Becomes(c, ClientEnded(r))
  BY <1>0, <1>1, <1>2, <1>7, ProperClientEnded, PassedFields, StaysInOrder, Zenon
<1> QED
  BY <1>3, <1>4, <1>5, <1>6, <1>7, Zenon

LEMMA PipeRemoteStep ==
    ASSUME ClientsInv, NEW c \in Clients, Tunnels!PipeRemote(c)
    PROVE  ClientsInv'
<1> DEFINE r == client[c]
<1>0. Proper(r) /\ r \in ClientRecs
  BY RowIsProper, Zenon
<1>1. r.pc = "pipe" /\ r.chan # <<>>
  BY Zenon DEF Tunnels!PipeRemote, Tunnels!At
<1>2. r.kind \in Tunnels!Piped /\ r.pc # "new" /\ r.pc \in UnderWay
  BY <1>0, <1>1 DEF Proper, PlaceFits, UnderWay
<1>3. r.kind # "tcp"
  BY <1>2, SortsOfKinds DEF Tunnels!Exchanges
<1>4. TakenOff(r) \in ClientRecs /\ TakenOff(r).remoteEof = r.remoteEof /\
       TakenOff(r).localEof = r.localEof
      /\ TakenOff(r).kind = r.kind
  BY <1>0, <1>1, TakenFields, Zenon DEF SameRoute
<1>5. \/ Tunnels!Ends(c, "error")
      \/ Head(r.chan) = "data" /\ ~r.remoteEof /\ Tunnels!Becomes(c, PassedDown(r))
      \/ Head(r.chan) = "eof" /\ (Tunnels!Becomes(c, EndsAs(TargetEnded(r),
             "ok")) \/ Tunnels!Becomes(c, TargetEnded(r)))
      \/ Head(r.chan) \in Stops /\ Tunnels!Becomes(c, EndsAs(TakenOff(r), "ok"))
  <2> DEFINE x == [r EXCEPT !.chan = Tail(@)]
  <2>0. x = TakenOff(r)
    BY DEF TakenOff
  <2>1. CASE Head(r.chan) = "data"
    <3>1. Tunnels!Ends(c, "error") \/ (~x.remoteEof /\ Tunnels!Becomes(c,
           [x EXCEPT !.down = Tunnels!Delivered(@)]))
      BY <2>1 DEF Tunnels!PipeRemote, Tunnels!NextMessage
    <3> QED
      BY <1>4, <2>0, <2>1, <3>1, Zenon DEF PassedDown
  <2>2. CASE Head(r.chan) = "eof"
    <3>1. Tunnels!Becomes(c, IF x.localEof
                     THEN [x EXCEPT !.remoteEof = TRUE, !.pc = "ended", !.result = "ok"]
                     ELSE [x EXCEPT !.remoteEof = TRUE])
      BY <2>2 DEF Tunnels!PipeRemote, Tunnels!NextMessage
    <3>2. [x EXCEPT !.remoteEof = TRUE, !.pc = "ended", !.result = "ok"] = EndsAs(TargetEnded(r),
           "ok")
      BY <2>0 DEF EndsAs, TargetEnded
    <3>3. [x EXCEPT !.remoteEof = TRUE] = TargetEnded(r)
      BY <2>0 DEF TargetEnded
    <3> HIDE DEF x
    <3>4. Tunnels!Becomes(c, EndsAs(TargetEnded(r), "ok")) \/ Tunnels!Becomes(c, TargetEnded(r))
      BY <3>1, <3>2, <3>3, Zenon
    <3> QED
      BY <2>2, <3>4, Zenon
  <2>3. CASE Head(r.chan) \in {"close", "none"}
    <3>1. Tunnels!Becomes(c, [x EXCEPT !.pc = "ended", !.result = "ok"])
      BY <2>3 DEF Tunnels!PipeRemote, Tunnels!NextMessage
    <3>2. Head(r.chan) \in Stops
      BY <2>3 DEF Stops
    <3> QED
      BY <2>0, <3>1, <3>2, Zenon DEF EndsAs
  <2>4. CASE Head(r.chan) \notin {"data", "eof", "close", "none"}
    BY <2>4 DEF Tunnels!PipeRemote, Tunnels!NextMessage
  <2> QED
    BY <2>1, <2>2, <2>3, <2>4
<1>6. CASE Tunnels!Ends(c, "error")
  BY <1>2, <1>6, FailsInOrder, Zenon
<1>7. CASE Head(r.chan) = "data" /\ ~r.remoteEof /\ Tunnels!Becomes(c, PassedDown(r))
  BY <1>0, <1>1, <1>2, <1>7, ProperPassedDown, PassedFields, StaysInOrder, Zenon
<1>8. CASE Head(r.chan) = "eof" /\ (Tunnels!Becomes(c, EndsAs(TargetEnded(r),
       "ok")) \/ Tunnels!Becomes(c, TargetEnded(r)))
  <2>1. Proper(TargetEnded(r)) /\ NoData(TargetEnded(r).chan) /\ TargetEnded(r).kind = r.kind
    BY <1>0, <1>1, <1>2, <1>8, ProperTargetEnded, Zenon
  <2>2. Proper(EndsAs(TargetEnded(r), "ok"))
    BY <1>3, <2>1, ProperEnds, Zenon
  <2>3. CASE Tunnels!Becomes(c, EndsAs(TargetEnded(r), "ok"))
    BY <1>2, <2>1, <2>2, <2>3, EndsWell, Zenon
  <2>4. CASE Tunnels!Becomes(c, TargetEnded(r))
    BY <1>0, <1>1, <2>1, <2>4, PassedFields, StaysInOrder, Zenon
  <2> QED
    BY <1>8, <2>3, <2>4, Zenon
<1>9. CASE Head(r.chan) \in Stops /\ Tunnels!Becomes(c, EndsAs(TakenOff(r), "ok"))
  <2>1. Proper(TakenOff(r)) /\ NoData(TakenOff(r).chan)
    BY <1>0, <1>1, <1>2, <1>9, ProperTaken, Zenon
  <2>2. Proper(EndsAs(TakenOff(r), "ok"))
    BY <1>3, <1>4, <2>1, ProperEnds, Zenon
  <2> QED
    BY <1>2, <1>4, <1>9, <2>1, <2>2, EndsWell, Zenon
<1> QED
  BY <1>5, <1>6, <1>7, <1>8, <1>9, Zenon

LEMMA WriteStep ==
    ASSUME ClientsInv, NEW c \in Clients, Tunnels!Write(c)
    PROVE  ClientsInv'
<1> DEFINE r == client[c]
           z == [r EXCEPT !.pc = "read", !.up = <<1>>]
<1>0. Proper(r) /\ r \in ClientRecs /\ r.pc = "write" /\ Tunnels!Becomes(c, z)
  BY RowIsProper, Zenon DEF Tunnels!Write, Tunnels!At
<1>1. Proper(z)
  BY <1>0, ProperWritten, Zenon
<1>2. z.pc = "read" /\ z.kind = r.kind /\ "read" \in UnderWay /\ "write" \in UnderWay
  BY <1>0 DEF ClientRecs, UnderWay
<1>3. KeepsPlace(r, z)
  <2> HIDE DEF z
  <2> QED
    BY <1>0, <1>1, <1>2, KeepsPlaceLive, Zenon
<1> QED
  BY <1>0, <1>3, MovesInOrder, Zenon

LEMMA GotAllFields ==
    ASSUME NEW r, r \in ClientRecs, NEW n
    PROVE  GotAll(r, n).pc = "ended" /\ GotAll(r, n).kind = r.kind
  BY DEF GotAll, ClientRecs

LEMMA RoomLeft == \A d, m \in Nat : \A n \in Nat : ~(d + n >= m) => d + n < m
  OBVIOUS

LEMMA ReadResponseStep ==
    ASSUME ClientsInv, NEW c \in Clients, Tunnels!ReadResponse(c)
    PROVE  ClientsInv'
<1> DEFINE r == client[c]
<1>0. Proper(r) /\ r \in ClientRecs
  BY RowIsProper, Zenon
<1>1. r.pc = "read" /\ r.pc \in UnderWay
  <2>1. r.pc = "read"
    BY Zenon DEF Tunnels!ReadResponse, Tunnels!At
  <2> QED
    BY <2>1 DEF UnderWay
<1>2. r.kind \in Tunnels!Exchanges
  BY <1>0, <1>1 DEF Proper, PlaceFits
<1>3. PICK n \in 1 .. Len(r.chan) :
        /\ \A i \in 1 .. n : r.chan[i] = "data"
        /\ \/ r.kind = "udp" /\ Tunnels!Becomes(c, EndsAs(Got(r, n), "ok"))
           \/ r.kind # "udp" /\ Tunnels!Becomes(c, [Tunnels!Bounded(r, n) EXCEPT !.chan = Left(r,
                  n), !.down = Gained(r, n)])
  <2> DEFINE y(n) == [r EXCEPT !.chan = SubSeq(@, n + 1, Len(@)),
                       !.down = @ \o [i \in 1 .. (IF Len(r.down) + n > MaxResponse
                                                  THEN MaxResponse - Len(r.down) ELSE n) |-> Len(r.down) + i]]
  <2>1. PICK n \in 1 .. Len(r.chan) :
        /\ \A i \in 1 .. n : r.chan[i] = "data"
        /\ IF r.kind \in {"udp"} THEN Tunnels!Becomes(c, [y(n) EXCEPT !.pc = "ended",
               !.result = "ok"])
           ELSE Tunnels!Becomes(c, [Tunnels!Bounded(r, n) EXCEPT !.chan = y(n).chan,
                  !.down = y(n).down])
    BY Zenon DEF Tunnels!ReadResponse, Tunnels!Is
  <2>2. y(n) = Got(r, n)
    BY Zenon DEF Got, Left, Gained, Took
  <2>3. y(n).chan = Left(r, n) /\ y(n).down = Gained(r, n)
    <3>1. Got(r, n).chan = Left(r, n) /\ Got(r, n).down = Gained(r, n)
      BY <1>0 DEF Got, ClientRecs
    <3> QED
      BY <2>2, <3>1, Zenon
  <2> HIDE DEF y
  <2>4. r.kind \in {"udp"} <=> r.kind = "udp"
    OBVIOUS
  <2> QED
    BY <2>1, <2>2, <2>3, <2>4, Zenon DEF EndsAs
<1>4. CASE r.kind = "udp"
  <2>1. Tunnels!Becomes(c, EndsAs(Got(r, n), "ok")) /\ r.kind # "tcp"
    BY <1>3, <1>4
  <2>2. Proper(Got(r, n)) /\ Got(r, n).kind = r.kind
    BY <1>0, <1>1, <1>3, <2>1, ProperGot, Zenon
  <2>3. r.kind \notin Tunnels!Piped
    BY <1>2, SortsOfKinds
  <2>4. Proper(EndsAs(Got(r, n), "ok"))
    BY <2>1, <2>2, <2>3, ProperEnds, Zenon
  <2> QED
    BY <1>1, <2>1, <2>2, <2>4, EndsWell, Zenon
<1>5. CASE r.kind # "udp" /\ Len(r.down) + n >= MaxResponse
  <2>1. Tunnels!Becomes(c, GotAll(r, n))
    <3>1. [Tunnels!Bounded(r, n) EXCEPT !.chan = Left(r, n), !.down = Gained(r, n)] = GotAll(r, n)
      BY <1>5 DEF Tunnels!Bounded, GotAll
    <3> QED
      BY <1>3, <1>5, <3>1, Zenon
  <2>2. Proper(GotAll(r, n))
    BY <1>0, <1>1, <1>3, ProperGotAll, Zenon
  <2>3. "ended" \in UnderWay
    BY DEF UnderWay
  <2>4. KeepsPlace(r, GotAll(r, n))
    BY <1>0, <1>1, <2>2, <2>3, GotAllFields, KeepsPlaceLive, Zenon
  <2> QED
    BY <2>1, <2>4, MovesInOrder, Zenon
<1>6. CASE r.kind # "udp" /\ ~(Len(r.down) + n >= MaxResponse)
  <2>1. Tunnels!Becomes(c, Got(r, n))
    <3>1. Tunnels!Bounded(r, n) = r
      BY <1>6, Zenon DEF Tunnels!Bounded
    <3> QED
      BY <1>3, <1>6, <3>1, Zenon DEF Got
  <2>2. Len(r.down) + n < MaxResponse
    <3>1. Len(r.down) \in Nat /\ n \in Nat /\ MaxResponse \in Nat
      BY <1>0, <1>3, ClientsAssumption DEF ClientRecs, Streams
    <3> QED
      BY <1>6, <3>1, RoomLeft, Zenon
  <2>3. Proper(Got(r, n)) /\ Got(r, n).kind = r.kind
    BY <1>0, <1>1, <1>3, <2>2, ProperGot, Zenon
  <2>4. Got(r, n).pc = r.pc
    BY <1>0 DEF Got, ClientRecs
  <2> QED
    BY <2>1, <2>3, <2>4, StaysInOrder, Zenon
<1> QED
  BY <1>4, <1>5, <1>6, Zenon

LEMMA ResponseEndStep ==
    ASSUME ClientsInv, NEW c \in Clients, Tunnels!ResponseEnds(c) \/ Tunnels!ResponseTimesOut(c)
    PROVE  ClientsInv'
<1> DEFINE r == client[c]
<1>0. Proper(r) /\ r \in ClientRecs
  BY RowIsProper, Zenon
<1>1. r.pc = "read" /\ r.pc \in UnderWay
  <2>1. r.pc = "read"
    BY Zenon DEF Tunnels!ResponseEnds, Tunnels!ResponseTimesOut, Tunnels!At
  <2> QED
    BY <2>1 DEF UnderWay
<1>2. CASE Tunnels!ResponseEnds(c) /\ Head(r.chan) = "eof" /\ r.kind \in {"tcp"}
  <2>1. r.chan # <<>> /\ Tunnels!Becomes(c, EndsAs(r, "ok")) /\ Head(r.chan) = "eof"
    BY <1>2, Zenon DEF Tunnels!ResponseEnds, Tunnels!Ends, EndsAs, Tunnels!Is
  <2>2. Proper(EndsAs(r, "ok"))
    BY <1>0, <1>1, <2>1, ProperAnswered, Zenon
  <2> QED
    BY <1>0, <1>1, <2>1, <2>2, EndsWell, Zenon
<1>3. CASE Tunnels!ResponseEnds(c) /\ ~(Head(r.chan) = "eof" /\ r.kind \in {"tcp"})
  <2>1. Tunnels!Ends(c, "error")
    BY <1>3, Zenon DEF Tunnels!ResponseEnds, Tunnels!Is
  <2> QED
    BY <1>1, <2>1, FailsInOrder, Zenon
<1>4. CASE Tunnels!ResponseTimesOut(c)
  <2> DEFINE z == [r EXCEPT !.timedOut = TRUE, !.pc = "ended", !.result = "ok"]
  <2>1. Tunnels!Becomes(c, z)
    BY <1>4, Zenon DEF Tunnels!ResponseTimesOut
  <2>2. Proper(z)
    BY <1>0, <1>1, ProperTimedOut, Zenon
  <2>3. z.pc = "ended" /\ z.kind = r.kind /\ "ended" \in UnderWay
    BY <1>0 DEF ClientRecs, UnderWay
  <2> HIDE DEF z
  <2>4. KeepsPlace(r, z)
    BY <1>0, <1>1, <2>2, <2>3, KeepsPlaceLive, Zenon
  <2> QED
    BY <2>1, <2>4, MovesInOrder, Zenon
<1> QED
  BY <1>2, <1>3, <1>4, Zenon

(* Through a proxy. *)
LEMMA ProxiedGoes ==
    ASSUME ClientsInv, NEW c \in Clients, client[c].kind \in Tunnels!Proxied, NEW z, Proper(z),
           z.kind = client[c].kind, Tunnels!Becomes(c, z)
    PROVE  ClientsInv'
<1>1. KeepsPlace(client[c], z)
  BY Zenon DEF KeepsPlace, InPlace
<1> QED
  BY <1>1, MovesInOrder, Zenon

LEMMA ProxyFields ==
    ASSUME NEW r, r \in ClientRecs, NEW token, NEW pc
    PROVE  Answered(r, token).kind = r.kind /\ AnswerRead(r, pc).kind = r.kind
           /\ CameData(r).kind = r.kind /\ To(r, pc).kind = r.kind
  BY DEF Answered, AnswerRead, CameData, To, ClientRecs

LEMMA ProxyStep ==
    ASSUME ClientsInv, NEW c \in Clients,
           Tunnels!ProxyConnected(c) \/ Tunnels!ProxySends(c) \/ Tunnels!ReadHttpReply(c) \/ Tunnels!ReadSocksReply(c)
    PROVE  ClientsInv'
<1> DEFINE r == client[c]
<1>0. Proper(r) /\ r \in ClientRecs
  BY RowIsProper, Zenon
<1>1. CASE Tunnels!ProxyConnected(c)
  <2>1. r.pc = "new" /\ r.kind \in Tunnels!Proxied /\ Tunnels!Becomes(c, To(r, "proxy"))
    BY <1>1, Zenon DEF Tunnels!ProxyConnected, Tunnels!At, Tunnels!Is, To
  <2>2. Proper(To(r, "proxy"))
    BY <1>0, <2>1, ProperConnected, Zenon
  <2> QED
    BY <1>0, <2>1, <2>2, ProxyFields, ProxiedGoes, Zenon
<1>2. CASE Tunnels!ProxySends(c) \/ Tunnels!ReadHttpReply(c) \/ Tunnels!ReadSocksReply(c)
  <2>0. r.pc = "proxy"
    BY <1>2, Zenon DEF Tunnels!ProxySends, Tunnels!ReadHttpReply, Tunnels!ReadSocksReply,
           Tunnels!Reading, Tunnels!At
  <2>1. r.kind \in Tunnels!Proxied /\ Len(Tunnels!Replies(r.kind)) \in Nat \ {0} /\ r.upSent \in Nat
        /\ r.chan \in Streams
    BY <1>0, <2>0, ProxyFacts, Zenon
  <2>2. CASE Tunnels!ProxySends(c)
    <3>1. CASE r.upSent < Len(Tunnels!Replies(r.kind))
      <4>1. PICK token \in {Tunnels!Replies(r.kind)[r.upSent + 1], "bad"} : Tunnels!Becomes(c,
             Answered(r, token))
        BY <2>2, <3>1, Zenon DEF Tunnels!ProxySends, Answered
      <4>2. token \in Tokens \ {"data"}
        <5>1. r.upSent + 1 \in 1 .. Len(Tunnels!Replies(r.kind))
          BY <2>1, <3>1
        <5>2. Tunnels!Replies(r.kind)[r.upSent + 1] \in Tokens \ {"data"}
          BY <2>1, <5>1, AnswersOf, Zenon
        <5>3. "bad" \in Tokens \ {"data"}
          BY DEF Tokens
        <5> QED
          BY <5>2, <5>3
      <4>3. Proper(Answered(r, token))
        BY <1>0, <2>0, <3>1, <4>2, ProperAnswer, Zenon
      <4> QED
        BY <1>0, <2>1, <4>1, <4>3, ProxyFields, ProxiedGoes, Zenon
    <3>2. CASE ~(r.upSent < Len(Tunnels!Replies(r.kind)))
      <4>1. Tunnels!Becomes(c, CameData(r))
        BY <2>2, <3>2, Zenon DEF Tunnels!ProxySends, CameData
      <4>2. Proper(CameData(r))
        BY <1>0, <2>0, <3>2, ProperFollowed, Zenon
      <4> QED
        BY <1>0, <2>1, <4>1, <4>2, ProxyFields, ProxiedGoes, Zenon
    <3> QED
      BY <3>1, <3>2, Zenon
  <2>3. CASE Tunnels!ReadHttpReply(c) \/ Tunnels!ReadSocksReply(c)
    <3> DEFINE pc == IF Len(r.up) + 1 = Len(Tunnels!Replies(r.kind)) THEN "handed" ELSE "proxy"
    <3>1. /\ r.chan # <<>>
          /\ \/ Tunnels!Ends(c, "error")
             \/ Head(r.chan) = Tunnels!Replies(r.kind)[Len(r.up) + 1] /\ Tunnels!Becomes(c,
                    AnswerRead(r, pc))
      BY <2>3, Zenon DEF Tunnels!ReadHttpReply, Tunnels!ReadSocksReply, Tunnels!Reading,
             Tunnels!ReadExact, AnswerRead
    <3> HIDE DEF pc
    <3>2. CASE Tunnels!Ends(c, "error")
      <4>1. r.pc \in UnderWay
        BY <2>0 DEF UnderWay
      <4> QED
        BY <3>2, <4>1, FailsInOrder, Zenon
    <3>3. CASE Head(r.chan) = Tunnels!Replies(r.kind)[Len(r.up) + 1] /\ Tunnels!Becomes(c,
           AnswerRead(r, pc))
      <4>1. Proper(AnswerRead(r, pc))
        BY <1>0, <2>0, <3>1, <3>3, ProperAnswerRead, Zenon DEF pc
      <4> QED
        BY <1>0, <2>1, <3>3, <4>1, ProxyFields, ProxiedGoes, Zenon
    <3> QED
      BY <3>1, <3>2, <3>3, Zenon
  <2> QED
    BY <1>2, <2>2, <2>3, Zenon
<1> QED
  BY <1>1, <1>2, Zenon

(* The SSH connection is lost for all. *)
LEMMA LossStep ==
    ASSUME ClientsInv, Tunnels!SshFails
    PROVE  ClientsInv'
<1>1. client' = Tunnels!SshLost(client) /\ slots' = slots
  BY Zenon DEF Tunnels!SshFails
<1>2. InOrder(Tunnels!SshLost(client), slots)
  BY LostFine, Zenon DEF ClientsInv
<1> QED
  BY <1>1, <1>2, Zenon DEF ClientsInv

LEMMA OpenTimeoutStep ==
    ASSUME ClientsInv, NEW c \in Clients, Tunnels!OpenTimesOut(c)
    PROVE  ClientsInv'
<1> DEFINE r == client[c]
           A == Tunnels!SshLost(client)
           z == EndsAs(r, "error")
<1>0. Proper(r) /\ r \in ClientRecs
  BY RowIsProper, Zenon
<1>1. r.pc = "open" /\ slots' = slots /\ client' = [A EXCEPT ![c] = [@ EXCEPT !.pc = "ended",
       !.result = "error"]]
  BY Zenon DEF Tunnels!OpenTimesOut, Tunnels!At
<1>2. InOrder(A, slots) /\ A[c] = r
  <2>1. r.pc # "pipe"
    BY <1>1
  <2> QED
    BY <2>1, LostFine, Zenon DEF ClientsInv
<1>3. client' = [A EXCEPT ![c] = z]
  <2> HIDE DEF A
  <2> QED
    BY <1>1, <1>2, Zenon DEF EndsAs
<1>4. Proper(z)
  BY <1>0, ProperFails, Zenon
<1>5. InPlace(r) <=> InPlace(z)
  <2>1. z.pc = "ended" /\ z.kind = r.kind /\ r.pc \in UnderWay /\ "ended" \in UnderWay
    BY <1>0, <1>1, EndFields DEF UnderWay
  <2> QED
    BY <1>0, <1>4, <2>1, PlaceOf, Zenon
<1> HIDE DEF A, z
<1>6. InOrder([A EXCEPT ![c] = z], slots)
  BY <1>2, <1>4, <1>5, RowMoves, Zenon
<1> QED
  BY <1>1, <1>3, <1>6, Zenon DEF ClientsInv

LEMMA ClientStepKeeps ==
    ASSUME ClientsInv, Tunnels!ClientNext PROVE ClientsInv'
<1>1. CASE Tunnels!SshFails
  BY <1>1, LossStep, Zenon
<1>2. ASSUME NEW c \in Clients, Tunnels!ClientStep(c) PROVE ClientsInv'
  <2>1. CASE Tunnels!AcceptLocal(c) \/ Tunnels!AcceptForwarded(c) \/ Tunnels!AcceptHost(c)
    BY <2>1, AcceptsInOrder, Zenon
  <2>2. CASE Tunnels!ReadHello(c) \/ Tunnels!ReadRequest(c)
    BY <2>2, HandshakeStep, Zenon
  <2>3. CASE Tunnels!HandshakeTimesOut(c) \/ Tunnels!OpenFails(c) \/ Tunnels!LocalWriteFails(c) \/ Tunnels!WriteFails(c) \/ Tunnels!ProxyFails(c)
    BY <2>3, FailStep, Zenon
  <2>4. CASE Tunnels!RouteDynamic(c) \/ Tunnels!RouteHost(c)
    BY <2>4, RoutesInOrder, Zenon
  <2>5. CASE Tunnels!RouteRequest(c) \/ Tunnels!RouteUdpRequest(c) \/ Tunnels!LookupFails(c)
    BY <2>5, CheckStep, Zenon
  <2>6. CASE Tunnels!PlaceRequest(c)
    BY <2>6, PlaceStep, Zenon
  <2>7. CASE Tunnels!OpenDirect(c) \/ Tunnels!OpenForwardTarget(c) \/ Tunnels!OpenHostTarget(c) \/ Tunnels!OpenExchange(c)
    BY <2>7, OpenStep, Zenon
  <2>8. CASE Tunnels!OpenTimesOut(c)
    BY <2>8, OpenTimeoutStep, Zenon
  <2>9. CASE Tunnels!ClientSends(c) \/ Tunnels!ClientCloses(c)
    BY <2>9, ClientSendStep, Zenon
  <2>10. CASE Tunnels!TargetSends(c) \/ Tunnels!TargetCloses(c)
    BY <2>10, TargetSendStep, Zenon
  <2>11. CASE Tunnels!PipeLocal(c)
    BY <2>11, PipeLocalStep, Zenon
  <2>12. CASE Tunnels!PipeRemote(c)
    BY <2>12, PipeRemoteStep, Zenon
  <2>13. CASE Tunnels!Finish(c)
    BY <2>13, FinishStep, Zenon
  <2>14. CASE Tunnels!Write(c)
    BY <2>14, WriteStep, Zenon
  <2>15. CASE Tunnels!ReadResponse(c)
    BY <2>15, ReadResponseStep, Zenon
  <2>16. CASE Tunnels!ResponseEnds(c) \/ Tunnels!ResponseTimesOut(c)
    BY <2>16, ResponseEndStep, Zenon
  <2>17. CASE Tunnels!ProxyConnected(c) \/ Tunnels!ProxySends(c) \/ Tunnels!ReadHttpReply(c) \/ Tunnels!ReadSocksReply(c)
    BY <2>17, ProxyStep, Zenon
  <2> QED
    BY <1>2, <2>1, <2>2, <2>3, <2>4, <2>5, <2>6, <2>7, <2>8, <2>9, <2>10, <2>11, <2>12, <2>13,
           <2>14,
       <2>15, <2>16, <2>17, Zenon DEF Tunnels!ClientStep
<1> QED
  BY <1>1, <1>2, Zenon DEF Tunnels!ClientNext

LEMMA ClientsBegin ==
    ASSUME Tunnels!ClientInit PROVE ClientsInv
<1>1. PICK mix \in Mixes : \E target \in [Clients -> Targets] :
         client = [c \in Clients |-> Tunnels!Fresh(mix[c], target[c])]
  BY Zenon DEF Tunnels!ClientInit
<1>2. PICK target \in [Clients -> Targets] : client = [c \in Clients |-> Tunnels!Fresh(mix[c],
       target[c])]
  BY <1>1, Zenon
<1>3. mix \in [Clients -> Tunnels!Kinds]
  BY ClientsAssumption
<1>4. \A c \in Clients : mix[c] \in Tunnels!Kinds /\ target[c] \in Targets
  BY <1>3
<1>5. \A c \in Clients : client[c] = Tunnels!Fresh(mix[c], target[c])
  BY <1>2, Zenon
<1>6. \A c \in Clients : Proper(client[c]) /\ client[c] \in ClientRecs /\ ~InPlace(client[c])
  <2> SUFFICES ASSUME NEW c \in Clients
               PROVE  Proper(client[c]) /\ client[c] \in ClientRecs /\ ~InPlace(client[c])
    OBVIOUS
  <2>1. Proper(client[c])
    BY <1>4, <1>5, ProperFresh, Zenon
  <2>2. Tunnels!Fresh(mix[c], target[c]).pc = "new"
    BY DEF Tunnels!Fresh
  <2>3. ~InPlace(client[c])
    <3>1. client[c].pc = "new"
      BY <1>5, <2>2, Zenon
    <3> QED
      BY <3>1 DEF InPlace
  <2> QED
    BY <2>1, <2>3, RecordOf, Zenon
<1>7. client \in [Clients -> ClientRecs]
  <2>1. DOMAIN client = Clients /\ client = [c \in Clients |-> client[c]]
    BY <1>2
  <2> QED
    BY <1>6, <2>1
<1>8. slots \in Nat /\ slots = Slots
  BY ClientsAssumption, Zenon DEF Tunnels!ClientInit
<1>9. Cardinality(PlacesIn(client)) = 0
  <2>1. PlacesIn(client) = {}
    BY <1>6, Zenon DEF PlacesIn
  <2> QED
    BY <2>1, FS_EmptySet, Zenon
<1>10. slots + 0 = Slots
  BY <1>8
<1> QED
  BY <1>6, <1>7, <1>8, <1>9, <1>10, Zenon DEF ClientsInv, InOrder

(* What the properties say. *)

LEMMA PlacesAreReturned == ASSUME ClientsInv PROVE Tunnels!SlotsAreReturned
<1>1. PlacesIn(client) = {c \in Clients :
        client[c].pc \notin {"new", "place", "refused", "done", "proxy", "handed"} /\
               ~ Tunnels!Is(c, Tunnels!Proxied)}
  BY Zenon DEF PlacesIn, InPlace, Tunnels!Is
<1> QED
  BY <1>1, SameCount, Zenon DEF Tunnels!SlotsAreReturned, ClientsInv, InOrder

LEMMA RulesHold == ASSUME ClientsInv PROVE Tunnels!RulesAreObeyed
<1> SUFFICES ASSUME NEW c \in Clients, Tunnels!Is(c, Tunnels!Dynamic \cup Tunnels!Exchanges) /\
       Rules # {},
                    client[c].pc \in {"pipe", "write", "read"}
             PROVE  \E rule \in Rules :
                      client[c].target.host \in rule.hosts /\ rule.port \in {0,
                             client[c].target.port}
  BY Zenon DEF Tunnels!RulesAreObeyed
<1>1. RouteFits(client[c])
  BY RowIsProper, Zenon DEF Proper
<1>2. client[c].kind \in Tunnels!Dynamic \cup Tunnels!Exchanges /\ client[c].pc \in {"place",
       "open", "pipe", "write", "read"}
  BY DEF Tunnels!Is
<1>3. Tunnels!RouteAllowed(client[c].target)
  BY <1>1, <1>2, Zenon DEF RouteFits
<1> QED
  BY <1>3, Zenon DEF Tunnels!RouteAllowed

LEMMA SumsEqual == \A a, n \in Nat : a + 0 = n => a = n
  OBVIOUS

LEMMA AtMost == \A a, b, n \in Nat : a + b = n => a <= n
  OBVIOUS

LEMMA UptoOf ==
    ASSUME NEW s \in Seq(Nat), \A i \in 1 .. Len(s) : s[i] = i
    PROVE  s = Tunnels!Upto(Len(s))
  BY DEF Tunnels!Upto

LEMMA PipesComplete == ASSUME ClientsInv PROVE Tunnels!PipeIsComplete
<1> SUFFICES ASSUME NEW c \in Clients, Tunnels!Is(c, Tunnels!Piped),
                    client[c].pc \in {"pipe", "ended"}
             PROVE
                   /\ client[c].down = Tunnels!Upto(Len(client[c].down)) /\
                          Len(client[c].down) <= client[c].downSent
                   /\ Len(client[c].up) + Tunnels!Pieces(client[c].inbox) = client[c].upSent
                   /\ Tunnels!At(c, "ended") /\ client[c].result = "ok" =>
                        /\ Len(client[c].down) = client[c].downSent
                        /\ client[c].localEof /\ client[c].remoteEof =>
                               Len(client[c].up) = client[c].upSent
  BY Zenon DEF Tunnels!PipeIsComplete
<1> DEFINE r == client[c]
<1>0. Proper(r) /\ r \in ClientRecs /\ r.kind \in Tunnels!Piped
  BY RowIsProper, Zenon DEF Tunnels!Is
<1>1. /\ r.chan \in Streams /\ r.inbox \in Streams /\ r.down \in Seq(Nat) /\ Len(r.down) \in Nat
      /\ Len(r.up) \in Nat /\ r.downSent \in Nat /\ r.upSent \in Nat
  BY <1>0 DEF ClientRecs
<1>2. /\ \A i \in 1 .. Len(r.down) : r.down[i] = i
      /\ Len(r.down) + Tunnels!Pieces(r.chan) = r.downSent
      /\ WellEnded(r) => NoData(r.chan)
      /\ Len(r.up) + Tunnels!Pieces(r.inbox) = r.upSent
      /\ r.localEof => NoData(r.inbox)
  BY <1>0, Zenon DEF Proper, DownFits, UpFits
<1>3. /\ Tunnels!Pieces(r.chan) \in Nat /\ Tunnels!Pieces(r.inbox) \in Nat
      /\ NoData(r.chan) => Tunnels!Pieces(r.chan) = 0
      /\ NoData(r.inbox) => Tunnels!Pieces(r.inbox) = 0
  BY <1>1, PiecesType, NoPieces, Zenon
<1>4. r.down = Tunnels!Upto(Len(r.down))
  BY <1>1, <1>2, UptoOf, Zenon
<1>5. Len(r.down) <= r.downSent
  BY <1>1, <1>2, <1>3, AtMost, Zenon
<1>6. NoData(r.chan) => Len(r.down) = r.downSent
  BY <1>1, <1>2, <1>3, SumsEqual, Zenon
<1>7. NoData(r.inbox) => Len(r.up) = r.upSent
  BY <1>1, <1>2, <1>3, SumsEqual, Zenon
<1> QED
  BY <1>2, <1>4, <1>5, <1>6, <1>7, Zenon DEF WellEnded, Tunnels!At

LEMMA ResponsesExact == ASSUME ClientsInv PROVE Tunnels!ResponseIsExact
<1> SUFFICES ASSUME NEW c \in Clients
             PROVE
                  /\ Tunnels!Is(c, {"tcp"}) /\ Tunnels!At(c, "ended") /\ client[c].result = "ok" =>
                        /\ Len(client[c].down) <= MaxResponse
                        /\ ~ client[c].truncated /\ ~ client[c].timedOut =>
                              Len(client[c].down) = client[c].downSent
                  /\ Tunnels!At(c, "handed") =>
                        client[c].chan = [i \in 1 .. client[c].downSent |-> "data"]
  BY Zenon DEF Tunnels!ResponseIsExact
<1> DEFINE r == client[c]
<1>0. Proper(r) /\ r \in ClientRecs
  BY RowIsProper, Zenon
<1>1. r.chan \in Streams /\ Len(r.down) \in Nat /\ r.downSent \in Nat /\ r.chan \in Seq(Tokens)
      /\ Len(r.up) \in Nat /\ r.upSent \in Nat
  BY <1>0 DEF ClientRecs, Streams
<1>2. ASSUME r.kind = "tcp", WellEnded(r)
      PROVE  /\ Len(r.down) <= MaxResponse
             /\ ~r.truncated /\ ~r.timedOut => Len(r.down) = r.downSent
  <2>1. r.kind \in Tunnels!Exchanges
    BY <1>2 DEF Tunnels!Exchanges
  <2>2. /\ Len(r.down) <= MaxResponse
        /\ ~r.truncated => Len(r.down) + Tunnels!Pieces(r.chan) = r.downSent
        /\ ~r.truncated /\ ~r.timedOut => NoData(r.chan)
    BY <1>0, <1>2, <2>1, Zenon DEF Proper, ResponseFits
  <2>3. NoData(r.chan) => Tunnels!Pieces(r.chan) = 0
    BY <1>1, NoPieces, Zenon
  <2> QED
    BY <1>1, <2>2, <2>3, SumsEqual, Zenon
<1>3. ASSUME r.pc = "handed"
      PROVE  r.chan = [i \in 1 .. r.downSent |-> "data"]
  <2>1. r.kind \in Tunnels!Proxied /\ ProxyFits(r)
    BY <1>0, <1>3 DEF Proper, PlaceFits
  <2> DEFINE answers == Len(Tunnels!Replies(r.kind))
  <2>2. answers \in Nat
    BY <2>1, AnswersOf
  <2>3. /\ Len(r.up) <= r.upSent /\ r.upSent <= answers /\ Len(r.up) = answers
        /\ Len(r.chan) = r.upSent - Len(r.up) + r.downSent
        /\ \A i \in 1 .. Len(r.chan) : i > r.upSent - Len(r.up) <=> r.chan[i] = "data"
    BY <1>3, <2>1, Zenon DEF ProxyFits
  <2> HIDE DEF answers
  <2>4. r.upSent - Len(r.up) = 0
    BY <1>1, <2>2, <2>3
  <2>5. Len(r.chan) = r.downSent /\ \A i \in 1 .. r.downSent : r.chan[i] = "data"
    <3>1. Len(r.chan) = 0 + r.downSent /\ \A i \in 1 .. Len(r.chan) : i > 0 <=> r.chan[i] = "data"
      BY <2>3, <2>4, Zenon
    <3>2. 0 + r.downSent = r.downSent /\ \A i \in 1 .. r.downSent : i > 0
      BY <1>1
    <3> QED
      BY <3>1, <3>2, Zenon
  <2> QED
    BY <1>1, <2>5
<1> QED
  BY <1>2, <1>3 DEF Tunnels!Is, Tunnels!At, WellEnded

----------------------------------------------------------------------------
(* Whatever the connections through the tunnels do, and whenever, each     *)
(* gives its place back, goes where the rules let it, and passes on what   *)
(* was sent: TunnelClient says how.                                        *)
THEOREM TunnelsStayFaithful == WorkSpec => []TunnelsAreFaithful
<1> DEFINE Inv == work = "clients" => ClientsInv
<1>1. WorkInit => Inv
  BY ClientsBegin, Zenon DEF WorkInit
<1>2. Inv /\ [WorkNext]_workVars => Inv'
  <2>1. ASSUME Inv, WorkNext PROVE Inv'
    <3>1. CASE work = "clients" /\ Tunnels!ClientNext /\ work' = work
      BY <2>1, <3>1, ClientStepKeeps, Zenon
    <3>2. CASE work # "clients" /\ work' = work
      BY <3>2, Zenon
    <3>3. work' = work /\ (work = "clients" => Tunnels!ClientNext)
      BY <2>1 DEF WorkNext
    <3> QED
      BY <3>1, <3>2, <3>3, Zenon
  <2>2. ASSUME Inv, UNCHANGED workVars PROVE Inv'
    <3>1. work' = work /\ slots' = slots /\ client' = client
      BY <2>2 DEF workVars, clientVars
    <3> QED
      BY <2>2, <3>1, Zenon DEF ClientsInv
  <2> HIDE DEF Inv
  <2> QED
    BY <2>1, <2>2, Zenon
<1>3. Inv => TunnelsAreFaithful
  BY PlacesAreReturned, RulesHold, PipesComplete, ResponsesExact, Zenon DEF TunnelsAreFaithful
<1> QED
  BY <1>1, <1>2, <1>3, PTL DEF WorkSpec
=============================================================================
