------------------------- MODULE SshAuxiliaryProofs -------------------------
(***************************************************************************)
(* Proofs about SshSession, for any number of callers, tunnels, profiles   *)
(* and runtimes, and about SshAuxiliary, for any number of starts,         *)
(* targets, queries and scenes, and for any limits.                        *)
(***************************************************************************)
EXTENDS SshAuxiliary, TLAPS

-----------------------------------------------------------------------------
(* The session. *)

\* A step that only takes tunnels away keeps the others where they belong.
LEMMA FewerTunnels ==
    ASSUME TunnelsOfRuntime, TunnelTypes, made \in Nat,
           \A u \in Tunnels : tunnels'[u] = tunnels[u] \/ tunnels'[u] = NoRuntime,
           UNCHANGED <<ssh, status, lane, pc>>
    PROVE  TunnelsOfRuntime'
<1>1. \A u \in Tunnels : tunnels'[u] > 0 => tunnels'[u] = tunnels[u]
    BY DEF TunnelTypes, NoRuntime, HostOwner
<1> QED
    BY <1>1 DEF TunnelsOfRuntime, TunnelsOnRuntime

\* Commands before they have the lane.
LEMMA WaitingStep ==
    ASSUME SessionInvariant, NEW c \in Callers,
           \/ RegisterOpen(c)
           \/ BeginClose(c)
           \/ BeginDelete(c)
           \/ TakeLane(c)
    PROVE  SessionInvariant'
<1> USE SessionAssumption DEF SessionInvariant, TypeOK, SessionTypes,
        CallerTypes, TaskTypes, TunnelTypes, LaneHeld, PhaseOfSession,
        Settled, TaskOfRuntime, TunnelsOfRuntime, TunnelsOnRuntime, ReconnectTasks,
        Statuses, ActiveStatuses, WaitingPCs, OpenPCs, ClosePCs, LanePCs, UpdatePCs, PCs,
        Runtimes, NoRuntime, HostOwner, sessionVars, callerVars, taskVars, tunnelVars
<1>1. CASE RegisterOpen(c)
  <2>1. TypeOK'
    BY <1>1 DEF RegisterOpen
  <2>2. LaneHeld'
    BY <1>1 DEF RegisterOpen
  <2>3. PhaseOfSession'
    BY <1>1 DEF RegisterOpen
  <2>4. TaskOfRuntime'
    BY <1>1 DEF RegisterOpen
  <2>5. TunnelsOfRuntime'
    BY <1>1 DEF RegisterOpen
  <2> QED
    BY <2>1, <2>2, <2>3, <2>4, <2>5
<1>2. CASE BeginClose(c)
  <2>1. TypeOK'
    BY <1>2 DEF BeginClose, CancelledOpens
  <2>2. LaneHeld'
    BY <1>2 DEF BeginClose, CancelledOpens
  <2>3. PhaseOfSession'
    BY <1>2 DEF BeginClose, CancelledOpens
  <2>4. TaskOfRuntime'
    BY <1>2 DEF BeginClose, CancelledOpens
  <2>5. TunnelsOfRuntime'
    BY <1>2 DEF BeginClose, CancelledOpens
  <2> QED
    BY <2>1, <2>2, <2>3, <2>4, <2>5
<1>3. CASE BeginDelete(c)
  <2>1. TypeOK'
    BY <1>3 DEF BeginDelete, CancelledOpens
  <2>2. LaneHeld'
    BY <1>3 DEF BeginDelete, CancelledOpens
  <2>3. PhaseOfSession'
    BY <1>3 DEF BeginDelete, CancelledOpens
  <2>4. TaskOfRuntime'
    BY <1>3 DEF BeginDelete, CancelledOpens
  <2>5. TunnelsOfRuntime'
    BY <1>3 DEF BeginDelete, CancelledOpens
  <2> QED
    BY <2>1, <2>2, <2>3, <2>4, <2>5
<1>4. CASE TakeLane(c)
  <2>1. TypeOK'
    BY <1>4 DEF TakeLane, Leave
  <2>2. LaneHeld'
    BY <1>4 DEF TakeLane, Leave
  <2>3. PhaseOfSession'
    BY <1>4 DEF TakeLane, Leave
  <2>4. TaskOfRuntime'
    BY <1>4 DEF TakeLane, Leave
  <2>5. TunnelsOfRuntime'
    BY <1>4 DEF TakeLane, Leave
  <2> QED
    BY <2>1, <2>2, <2>3, <2>4, <2>5
<1> QED
    BY <1>1, <1>2, <1>3, <1>4

\* Opening: the lane's holder keeps the registry and the status apart only while
\* it is connecting.
LEMMA OpenStepKeeps ==
    ASSUME SessionInvariant, NEW c \in Callers,
           \/ OpenRefused(c)
           \/ OpenConnecting(c)
           \/ OpenProceeds(c)
           \/ OpenCancelled(c)
           \/ OpenFails(c)
           \/ OpenInstalls(c)
           \/ OpenConnected(c)
           \/ OpenCommitFails(c)
           \/ OpenUnwinds(c)
    PROVE  SessionInvariant'
<1> USE SessionAssumption DEF SessionInvariant, TypeOK, SessionTypes,
        CallerTypes, TaskTypes, TunnelTypes, LaneHeld, PhaseOfSession,
        Settled, TaskOfRuntime, TunnelsOfRuntime, TunnelsOnRuntime, ReconnectTasks,
        Statuses, ActiveStatuses, WaitingPCs, OpenPCs, ClosePCs, LanePCs, UpdatePCs, PCs,
        Runtimes, NoRuntime, HostOwner, sessionVars, callerVars, taskVars, tunnelVars
<1>1. CASE OpenRefused(c)
  <2>1. TypeOK'
    BY <1>1 DEF OpenRefused, Leave
  <2>2. LaneHeld'
    BY <1>1 DEF OpenRefused, Leave
  <2>3. PhaseOfSession'
    BY <1>1 DEF OpenRefused, Leave
  <2>4. TaskOfRuntime'
    BY <1>1 DEF OpenRefused, Leave
  <2>5. TunnelsOfRuntime'
    BY <1>1 DEF OpenRefused, Leave
  <2> QED
    BY <2>1, <2>2, <2>3, <2>4, <2>5
<1>2. CASE OpenConnecting(c)
  <2>1. TypeOK'
    BY <1>2 DEF OpenConnecting, CanOpen, Registered
  <2>2. LaneHeld'
    BY <1>2 DEF OpenConnecting, CanOpen, Registered
  <2>3. PhaseOfSession'
    BY <1>2 DEF OpenConnecting, CanOpen, Registered
  <2>4. TaskOfRuntime'
    BY <1>2 DEF OpenConnecting, CanOpen, Registered
  <2>5. TunnelsOfRuntime'
    BY <1>2 DEF OpenConnecting, CanOpen, Registered
  <2> QED
    BY <2>1, <2>2, <2>3, <2>4, <2>5
<1>3. CASE OpenProceeds(c)
  <2>1. TypeOK'
    <3> HIDE DEF LaneHeld, PhaseOfSession, TaskOfRuntime, TunnelsOfRuntime, TunnelsOnRuntime
    <3>1. SessionTypes'
      BY <1>3 DEF OpenProceeds, CancelOpen
    <3>2. CallerTypes'
      <4>1. PICK next \in {"establishing", "closing"} : pc' = [pc EXCEPT ![c] = next]
        BY <1>3 DEF OpenProceeds, CancelOpen
      <4>2. goal' = goal \/ goal' = [goal EXCEPT ![c] = "cancel"]
        BY <1>3 DEF OpenProceeds, CancelOpen
      <4>3. UNCHANGED <<lane, token, updating>>
        BY <1>3 DEF OpenProceeds, CancelOpen
      <4> QED
        BY <4>1, <4>2, <4>3
    <3>3. TaskTypes'
      BY <1>3 DEF OpenProceeds, CancelOpen
    <3>4. TunnelTypes'
      BY <1>3 DEF OpenProceeds, CancelOpen
    <3> QED
      BY <3>1, <3>2, <3>3, <3>4
  <2>2. LaneHeld'
    BY <1>3 DEF OpenProceeds, CancelOpen
  <2>3. PhaseOfSession'
    BY <1>3 DEF OpenProceeds, CancelOpen
  <2>4. TaskOfRuntime'
    BY <1>3 DEF OpenProceeds, CancelOpen
  <2>5. TunnelsOfRuntime'
    BY <1>3 DEF OpenProceeds, CancelOpen
  <2> QED
    BY <2>1, <2>2, <2>3, <2>4, <2>5
<1>4. CASE OpenCancelled(c)
  <2>1. TypeOK'
    BY <1>4 DEF OpenCancelled, CancelOpen
  <2>2. LaneHeld'
    BY <1>4 DEF OpenCancelled, CancelOpen
  <2>3. PhaseOfSession'
    BY <1>4 DEF OpenCancelled, CancelOpen
  <2>4. TaskOfRuntime'
    BY <1>4 DEF OpenCancelled, CancelOpen
  <2>5. TunnelsOfRuntime'
    BY <1>4 DEF OpenCancelled, CancelOpen
  <2> QED
    BY <2>1, <2>2, <2>3, <2>4, <2>5
<1>5. CASE OpenFails(c)
  <2>1. TypeOK'
    BY <1>5 DEF OpenFails, Leave
  <2>2. LaneHeld'
    BY <1>5 DEF OpenFails, Leave
  <2>3. PhaseOfSession'
    BY <1>5 DEF OpenFails, Leave
  <2>4. TaskOfRuntime'
    BY <1>5 DEF OpenFails, Leave
  <2>5. TunnelsOfRuntime'
    BY <1>5 DEF OpenFails, Leave
  <2> QED
    BY <2>1, <2>2, <2>3, <2>4, <2>5
<1>6. CASE OpenInstalls(c)
  <2>1. TypeOK'
    <3> HIDE DEF LaneHeld, PhaseOfSession, TaskOfRuntime, TunnelsOfRuntime, TunnelsOnRuntime
    <3>1. SessionTypes'
      BY <1>6 DEF OpenInstalls
    <3>2. CallerTypes'
      BY <1>6 DEF OpenInstalls
    <3>3. TaskTypes'
      BY <1>6 DEF OpenInstalls
    <3>4. TunnelTypes'
      BY <1>6 DEF OpenInstalls
    <3> QED
      BY <3>1, <3>2, <3>3, <3>4
  <2>2. LaneHeld'
    BY <1>6 DEF OpenInstalls
  <2>3. PhaseOfSession'
    BY <1>6 DEF OpenInstalls
  <2>4. TaskOfRuntime'
    BY <1>6 DEF OpenInstalls
  <2>5. TunnelsOfRuntime'
    BY <1>6 DEF OpenInstalls
  <2> QED
    BY <2>1, <2>2, <2>3, <2>4, <2>5
<1>7. CASE OpenConnected(c)
  <2>1. TypeOK'
    BY <1>7 DEF OpenConnected, Leave
  <2>2. LaneHeld'
    BY <1>7 DEF OpenConnected, Leave
  <2>3. PhaseOfSession'
    BY <1>7 DEF OpenConnected, Leave
  <2>4. TaskOfRuntime'
    BY <1>7 DEF OpenConnected, Leave
  <2>5. TunnelsOfRuntime'
    BY <1>7 DEF OpenConnected, Leave
  <2> QED
    BY <2>1, <2>2, <2>3, <2>4, <2>5
<1>8. CASE OpenCommitFails(c)
  <2>1. TypeOK'
    BY <1>8 DEF OpenCommitFails
  <2>2. LaneHeld'
    BY <1>8 DEF OpenCommitFails
  <2>3. PhaseOfSession'
    BY <1>8 DEF OpenCommitFails
  <2>4. TaskOfRuntime'
    BY <1>8 DEF OpenCommitFails
  <2>5. TunnelsOfRuntime'
    BY <1>8 DEF OpenCommitFails
  <2> QED
    BY <2>1, <2>2, <2>3, <2>4, <2>5
<1>9. CASE OpenUnwinds(c)
  <2>1. TypeOK'
    BY <1>9 DEF OpenUnwinds, Leave
  <2>2. LaneHeld'
    BY <1>9 DEF OpenUnwinds, Leave
  <2>3. PhaseOfSession'
    BY <1>9 DEF OpenUnwinds, Leave
  <2>4. TaskOfRuntime'
    BY <1>9 DEF OpenUnwinds, Leave
  <2>5. TunnelsOfRuntime'
    BY <1>9 DEF OpenUnwinds, Leave
  <2> QED
    BY <2>1, <2>2, <2>3, <2>4, <2>5
<1> QED
    BY <1>1, <1>2, <1>3, <1>4, <1>5, <1>6, <1>7, <1>8, <1>9

\* Closing and deleting: the runtime goes before its tunnels and its status.
LEMMA CloseStepKeeps ==
    ASSUME SessionInvariant, NEW c \in Callers,
           \/ CloseRemoves(c)
           \/ CloseStopsTunnels(c)
           \/ CloseEnds(c)
           \/ DeleteChecks(c)
           \/ DeleteErases(c)
           \/ DeleteFails(c)
    PROVE  SessionInvariant'
<1> USE SessionAssumption DEF SessionInvariant, TypeOK, SessionTypes,
        CallerTypes, TaskTypes, TunnelTypes, LaneHeld, PhaseOfSession,
        Settled, TaskOfRuntime, TunnelsOfRuntime, TunnelsOnRuntime, ReconnectTasks,
        Statuses, ActiveStatuses, WaitingPCs, OpenPCs, ClosePCs, LanePCs, UpdatePCs, PCs,
        Runtimes, NoRuntime, HostOwner, sessionVars, callerVars, taskVars, tunnelVars
<1>1. CASE CloseRemoves(c)
  <2>1. TypeOK'
    BY <1>1 DEF CloseRemoves
  <2>2. LaneHeld'
    BY <1>1 DEF CloseRemoves
  <2>3. PhaseOfSession'
    BY <1>1 DEF CloseRemoves
  <2>4. TaskOfRuntime'
    BY <1>1 DEF CloseRemoves
  <2>5. TunnelsOfRuntime'
    BY <1>1 DEF CloseRemoves
  <2> QED
    BY <2>1, <2>2, <2>3, <2>4, <2>5
<1>2. CASE CloseStopsTunnels(c)
  <2>1. TypeOK'
    BY <1>2 DEF CloseStopsTunnels, NoTunnels
  <2>2. LaneHeld'
    BY <1>2 DEF CloseStopsTunnels, NoTunnels
  <2>3. PhaseOfSession'
    BY <1>2 DEF CloseStopsTunnels, NoTunnels
  <2>4. TaskOfRuntime'
    BY <1>2 DEF CloseStopsTunnels, NoTunnels
  <2>5. TunnelsOfRuntime'
    BY <1>2 DEF CloseStopsTunnels, NoTunnels
  <2> QED
    BY <2>1, <2>2, <2>3, <2>4, <2>5
<1>3. CASE CloseEnds(c)
  <2>1. TypeOK'
    <3> HIDE DEF LaneHeld, PhaseOfSession, TaskOfRuntime, TunnelsOfRuntime, TunnelsOnRuntime
    <3>1. SessionTypes'
      BY <1>3 DEF CloseEnds, Leave, SaveOutcomes
    <3>2. CallerTypes'
      <4>1. PICK next \in {"erasing", "drain", "idle"} : pc' = [pc EXCEPT ![c] = next]
        BY <1>3 DEF CloseEnds, Leave
      <4>2. goal' = goal \/ goal' = [goal EXCEPT ![c] = "close"]
        BY <1>3 DEF CloseEnds, Leave
      <4>3. token' = token \/ token' = [token EXCEPT ![c] = "none"]
        BY <1>3 DEF CloseEnds, Leave
      <4>4. lane' \in {lane, Nobody} /\ updating' \in {updating, "no"}
        BY <1>3 DEF CloseEnds, Leave
      <4>5. pc' \in [Callers -> PCs]
        BY <4>1
      <4>6. goal' \in [Callers -> {"close", "cancel", "delete", "update"}]
        BY <4>2
      <4>7. token' \in [Callers -> {"none", "pending", "cancelled", "pruned"}]
        BY <4>3
      <4> QED
        BY <4>4, <4>5, <4>6, <4>7
    <3>3. TaskTypes'
      BY <1>3 DEF CloseEnds, Leave, SaveOutcomes
    <3>4. TunnelTypes'
      BY <1>3 DEF CloseEnds, Leave, SaveOutcomes
    <3> QED
      BY <3>1, <3>2, <3>3, <3>4
  <2>2. LaneHeld'
    BY <1>3 DEF CloseEnds, Leave, SaveOutcomes
  <2>3. PhaseOfSession'
    <3>1. ssh' = NoRuntime /\ status' \notin ActiveStatuses /\ profile' = profile
      BY <1>3 DEF CloseEnds
    <3>2. \A d \in Callers : d # c => pc'[d] = pc[d] /\ pc[d] \notin LanePCs
      BY <1>3 DEF CloseEnds, Leave
    <3>3. pc'[c] \in {"erasing", "drain", "idle"}
      BY <1>3 DEF CloseEnds, Leave
    <3> QED
      BY <3>1, <3>2, <3>3
  <2>4. TaskOfRuntime'
    BY <1>3 DEF CloseEnds, Leave, SaveOutcomes
  <2>5. TunnelsOfRuntime'
    BY <1>3 DEF CloseEnds, Leave, SaveOutcomes
  <2> QED
    BY <2>1, <2>2, <2>3, <2>4, <2>5
<1>4. CASE DeleteChecks(c)
  <2>1. TypeOK'
    <3> HIDE DEF LaneHeld, PhaseOfSession, TaskOfRuntime, TunnelsOfRuntime, TunnelsOnRuntime
    <3>1. SessionTypes'
      BY <1>4 DEF DeleteChecks, Leave, Registered
    <3>2. CallerTypes'
      <4>1. CASE Leave(c)
        BY <1>4, <4>1 DEF DeleteChecks, Leave
      <4>2. CASE ~ Leave(c)
        <5>1. PICK next \in {"closing", "erasing"} : pc' = [pc EXCEPT ![c] = next]
          BY <1>4, <4>2 DEF DeleteChecks
        <5>2. UNCHANGED <<lane, goal, token, updating>>
          BY <1>4, <4>2 DEF DeleteChecks
        <5> QED
          BY <5>1, <5>2
      <4> QED
        BY <4>1, <4>2
    <3>3. TaskTypes'
      BY <1>4 DEF DeleteChecks, Leave, Registered
    <3>4. TunnelTypes'
      BY <1>4 DEF DeleteChecks, Leave, Registered
    <3> QED
      BY <3>1, <3>2, <3>3, <3>4
  <2>2. LaneHeld'
    BY <1>4 DEF DeleteChecks, Leave, Registered
  <2>3. PhaseOfSession'
    BY <1>4 DEF DeleteChecks, Leave, Registered
  <2>4. TaskOfRuntime'
    BY <1>4 DEF DeleteChecks, Leave, Registered
  <2>5. TunnelsOfRuntime'
    BY <1>4 DEF DeleteChecks, Leave, Registered
  <2> QED
    BY <2>1, <2>2, <2>3, <2>4, <2>5
<1>5. CASE DeleteErases(c)
  <2>1. TypeOK'
    BY <1>5 DEF DeleteErases, Leave
  <2>2. LaneHeld'
    BY <1>5 DEF DeleteErases, Leave
  <2>3. PhaseOfSession'
    BY <1>5 DEF DeleteErases, Leave
  <2>4. TaskOfRuntime'
    BY <1>5 DEF DeleteErases, Leave
  <2>5. TunnelsOfRuntime'
    BY <1>5 DEF DeleteErases, Leave
  <2> QED
    BY <2>1, <2>2, <2>3, <2>4, <2>5
<1>6. CASE DeleteFails(c)
  <2>1. TypeOK'
    BY <1>6 DEF DeleteFails, Leave
  <2>2. LaneHeld'
    BY <1>6 DEF DeleteFails, Leave
  <2>3. PhaseOfSession'
    BY <1>6 DEF DeleteFails, Leave
  <2>4. TaskOfRuntime'
    BY <1>6 DEF DeleteFails, Leave
  <2>5. TunnelsOfRuntime'
    BY <1>6 DEF DeleteFails, Leave
  <2> QED
    BY <2>1, <2>2, <2>3, <2>4, <2>5
<1> QED
    BY <1>1, <1>2, <1>3, <1>4, <1>5, <1>6

\* The update touches the session only through a close.
LEMMA UpdateStepKeeps ==
    ASSUME SessionInvariant, NEW c \in Callers,
           \/ UpdateBegins(c)
           \/ UpdateSurveys(c)
           \/ UpdateCancels(c)
           \/ UpdateCollects(c)
           \/ UpdateDrains(c)
           \/ UpdateFails(c)
    PROVE  SessionInvariant'
<1> USE SessionAssumption DEF SessionInvariant, TypeOK, SessionTypes,
        CallerTypes, TaskTypes, TunnelTypes, LaneHeld, PhaseOfSession,
        Settled, TaskOfRuntime, TunnelsOfRuntime, TunnelsOnRuntime, ReconnectTasks,
        Statuses, ActiveStatuses, WaitingPCs, OpenPCs, ClosePCs, LanePCs, UpdatePCs, PCs,
        Runtimes, NoRuntime, HostOwner, sessionVars, callerVars, taskVars, tunnelVars
<1>1. CASE UpdateBegins(c)
  <2>1. TypeOK'
    BY <1>1 DEF UpdateBegins, UpdateFrame
  <2>2. LaneHeld'
    BY <1>1 DEF UpdateBegins, UpdateFrame
  <2>3. PhaseOfSession'
    BY <1>1 DEF UpdateBegins, UpdateFrame
  <2>4. TaskOfRuntime'
    BY <1>1 DEF UpdateBegins, UpdateFrame
  <2>5. TunnelsOfRuntime'
    BY <1>1 DEF UpdateBegins, UpdateFrame
  <2> QED
    BY <2>1, <2>2, <2>3, <2>4, <2>5
<1>2. CASE UpdateSurveys(c)
  <2>1. TypeOK'
    BY <1>2 DEF UpdateSurveys, UpdateFrame
  <2>2. LaneHeld'
    BY <1>2 DEF UpdateSurveys, UpdateFrame
  <2>3. PhaseOfSession'
    BY <1>2 DEF UpdateSurveys, UpdateFrame
  <2>4. TaskOfRuntime'
    BY <1>2 DEF UpdateSurveys, UpdateFrame
  <2>5. TunnelsOfRuntime'
    BY <1>2 DEF UpdateSurveys, UpdateFrame
  <2> QED
    BY <2>1, <2>2, <2>3, <2>4, <2>5
<1>3. CASE UpdateCancels(c)
  <2>1. TypeOK'
    BY <1>3 DEF UpdateCancels, UpdateFrame, CancelledOpens
  <2>2. LaneHeld'
    BY <1>3 DEF UpdateCancels, UpdateFrame, CancelledOpens
  <2>3. PhaseOfSession'
    BY <1>3 DEF UpdateCancels, UpdateFrame, CancelledOpens
  <2>4. TaskOfRuntime'
    BY <1>3 DEF UpdateCancels, UpdateFrame, CancelledOpens
  <2>5. TunnelsOfRuntime'
    BY <1>3 DEF UpdateCancels, UpdateFrame, CancelledOpens
  <2> QED
    BY <2>1, <2>2, <2>3, <2>4, <2>5
<1>4. CASE UpdateCollects(c)
  <2>1. TypeOK'
    <3> HIDE DEF LaneHeld, PhaseOfSession, TaskOfRuntime, TunnelsOfRuntime, TunnelsOnRuntime
    <3>1. SessionTypes'
      BY <1>4 DEF UpdateCollects, UpdateFrame, CancelledOpens
    <3>2. CallerTypes'
      <4>1. token' = token \/ token' = CancelledOpens
        BY <1>4 DEF UpdateCollects
      <4>2. token' \in [Callers -> {"none", "pending", "cancelled", "pruned"}]
        BY <4>1 DEF CancelledOpens
      <4>3. goal' = goal \/ goal' = [goal EXCEPT ![c] = "update"]
        BY <1>4 DEF UpdateCollects
      <4>4. PICK next \in {"closeWait", "drain"} : pc' = [pc EXCEPT ![c] = next]
        BY <1>4 DEF UpdateCollects
      <4>5. UNCHANGED <<lane, updating>>
        BY <1>4 DEF UpdateCollects, UpdateFrame
      <4> QED
        BY <4>2, <4>3, <4>4, <4>5
    <3>3. TaskTypes'
      BY <1>4 DEF UpdateCollects, UpdateFrame, CancelledOpens
    <3>4. TunnelTypes'
      BY <1>4 DEF UpdateCollects, UpdateFrame, CancelledOpens
    <3> QED
      BY <3>1, <3>2, <3>3, <3>4
  <2>2. LaneHeld'
    <3>1. lane' = lane /\ lane # c
      BY <1>4 DEF UpdateCollects, UpdateFrame
    <3>2. pc'[c] \notin LanePCs /\ \A d \in Callers \ {c} : pc'[d] = pc[d]
      BY <1>4 DEF UpdateCollects
    <3> QED
      BY <3>1, <3>2
  <2>3. PhaseOfSession'
    BY <1>4 DEF UpdateCollects, UpdateFrame, CancelledOpens
  <2>4. TaskOfRuntime'
    BY <1>4 DEF UpdateCollects, UpdateFrame, CancelledOpens
  <2>5. TunnelsOfRuntime'
    BY <1>4 DEF UpdateCollects, UpdateFrame, CancelledOpens
  <2> QED
    BY <2>1, <2>2, <2>3, <2>4, <2>5
<1>5. CASE UpdateDrains(c)
  <2>1. TypeOK'
    BY <1>5 DEF UpdateDrains, UpdateFrame, NoTunnels
  <2>2. LaneHeld'
    BY <1>5 DEF UpdateDrains, UpdateFrame, NoTunnels
  <2>3. PhaseOfSession'
    BY <1>5 DEF UpdateDrains, UpdateFrame, NoTunnels
  <2>4. TaskOfRuntime'
    BY <1>5 DEF UpdateDrains, UpdateFrame, NoTunnels
  <2>5. TunnelsOfRuntime'
    BY <1>5 DEF UpdateDrains, UpdateFrame, NoTunnels
  <2> QED
    BY <2>1, <2>2, <2>3, <2>4, <2>5
<1>6. CASE UpdateFails(c)
  <2>1. TypeOK'
    BY <1>6 DEF UpdateFails, UpdateFrame
  <2>2. LaneHeld'
    BY <1>6 DEF UpdateFails, UpdateFrame
  <2>3. PhaseOfSession'
    BY <1>6 DEF UpdateFails, UpdateFrame
  <2>4. TaskOfRuntime'
    BY <1>6 DEF UpdateFails, UpdateFrame
  <2>5. TunnelsOfRuntime'
    BY <1>6 DEF UpdateFails, UpdateFrame
  <2> QED
    BY <2>1, <2>2, <2>3, <2>4, <2>5
<1> QED
    BY <1>1, <1>2, <1>3, <1>4, <1>5, <1>6

\* The reader and the reconnect task: they act only on the runtime they own.
LEMMA TaskStepKeeps ==
    ASSUME SessionInvariant, NEW r \in Runtimes,
           \/ ReaderEnds(r)
           \/ ReaderDrained(r)
           \/ ReconnectAttempts(r)
           \/ ReconnectStops(r)
           \/ AttemptFails(r)
           \/ AttemptDiscarded(r)
           \/ AttemptInstalls(r)
           \/ InstallFails(r)
           \/ RestoreBegins(r)
           \/ RestoreEnds(r)
    PROVE  SessionInvariant'
<1> USE SessionAssumption DEF SessionInvariant, TypeOK, SessionTypes,
        CallerTypes, TaskTypes, TunnelTypes, LaneHeld, PhaseOfSession,
        Settled, TaskOfRuntime, TunnelsOfRuntime, TunnelsOnRuntime, ReconnectTasks,
        Statuses, ActiveStatuses, WaitingPCs, OpenPCs, ClosePCs, LanePCs, UpdatePCs, PCs,
        Runtimes, NoRuntime, HostOwner, sessionVars, callerVars, taskVars, tunnelVars
<1>1. CASE ReaderEnds(r)
  <2>1. TypeOK'
    <3> HIDE DEF LaneHeld, PhaseOfSession, TaskOfRuntime, TunnelsOfRuntime, TunnelsOnRuntime
    <3>1. SessionTypes'
      BY <1>1 DEF ReaderEnds, DropRuntime, NoTunnels, ReconnectEnabled
    <3>2. CallerTypes'
      BY <1>1 DEF ReaderEnds, DropRuntime, NoTunnels, ReconnectEnabled
    <3>3. TaskTypes'
      <4>1. PICK next \in {"done", "draining"} : task' = [task EXCEPT ![r] = next]
        BY <1>1 DEF ReaderEnds
      <4>2. UNCHANGED <<attempt, restore, todo>>
        BY <1>1 DEF ReaderEnds
      <4> QED
        BY <4>1, <4>2
    <3>4. TunnelTypes'
      BY <1>1 DEF ReaderEnds, DropRuntime, NoTunnels, ReconnectEnabled
    <3> QED
      BY <3>1, <3>2, <3>3, <3>4
  <2>2. LaneHeld'
    BY <1>1 DEF ReaderEnds, DropRuntime, NoTunnels, ReconnectEnabled
  <2>3. PhaseOfSession'
    BY <1>1 DEF ReaderEnds, DropRuntime, NoTunnels, ReconnectEnabled
  <2>4. TaskOfRuntime'
    BY <1>1 DEF ReaderEnds, DropRuntime, NoTunnels, ReconnectEnabled
  <2>5. TunnelsOfRuntime'
    BY <1>1 DEF ReaderEnds, DropRuntime, NoTunnels, ReconnectEnabled
  <2> QED
    BY <2>1, <2>2, <2>3, <2>4, <2>5
<1>2. CASE ReaderDrained(r)
  <2>1. TypeOK'
    BY <1>2 DEF ReaderDrained, Becomes
  <2>2. LaneHeld'
    BY <1>2 DEF ReaderDrained, Becomes
  <2>3. PhaseOfSession'
    BY <1>2 DEF ReaderDrained, Becomes
  <2>4. TaskOfRuntime'
    BY <1>2 DEF ReaderDrained, Becomes
  <2>5. TunnelsOfRuntime'
    BY <1>2 DEF ReaderDrained, Becomes
  <2> QED
    BY <2>1, <2>2, <2>3, <2>4, <2>5
<1>3. CASE ReconnectAttempts(r)
  <2>1. TypeOK'
    <3> HIDE DEF LaneHeld, PhaseOfSession, TaskOfRuntime, TunnelsOfRuntime, TunnelsOnRuntime
    <3>1. SessionTypes'
      BY <1>3 DEF ReconnectAttempts, Becomes, Pending, ReconnectEnabled
    <3>2. CallerTypes'
      BY <1>3 DEF ReconnectAttempts, Becomes, Pending, ReconnectEnabled
    <3>3. TaskTypes'
      <4>1. PICK next \in {"done", "stopping", "establishing"} : task' = [task EXCEPT ![r] = next]
        BY <1>3 DEF ReconnectAttempts, Becomes
      <4>2. PICK settings \in Settings \cup {Nobody} : attempt' = [attempt EXCEPT ![r] = settings]
        BY <1>3 DEF ReconnectAttempts, Becomes, ReconnectEnabled
      <4>3. UNCHANGED <<restore, todo>>
        BY <1>3 DEF ReconnectAttempts, Becomes
      <4> QED
        BY <4>1, <4>2, <4>3
    <3>4. TunnelTypes'
      BY <1>3 DEF ReconnectAttempts, Becomes, Pending, ReconnectEnabled
    <3> QED
      BY <3>1, <3>2, <3>3, <3>4
  <2>2. LaneHeld'
    BY <1>3 DEF ReconnectAttempts, Becomes, Pending, ReconnectEnabled
  <2>3. PhaseOfSession'
    BY <1>3 DEF ReconnectAttempts, Becomes, Pending, ReconnectEnabled
  <2>4. TaskOfRuntime'
    BY <1>3 DEF ReconnectAttempts, Becomes, Pending, ReconnectEnabled
  <2>5. TunnelsOfRuntime'
    BY <1>3 DEF ReconnectAttempts, Becomes, Pending, ReconnectEnabled
  <2> QED
    BY <2>1, <2>2, <2>3, <2>4, <2>5
<1>4. CASE ReconnectStops(r)
  <2>1. TypeOK'
    <3> HIDE DEF LaneHeld, PhaseOfSession, TaskOfRuntime, TunnelsOfRuntime, TunnelsOnRuntime
    <3>1. SessionTypes'
      <4>1. CASE ssh = r /\ ~ ReconnectEnabled
        <5>1. DropRuntime(r, "Disconnected") /\ UNCHANGED <<profile, made>>
          BY <1>4, <4>1 DEF ReconnectStops
        <5>2. r \in 1 .. made
          BY <4>1
        <5>3. ssh' = 0 /\ closed' = closed \cup {r} /\ status' = "Disconnected"
          BY <5>1 DEF DropRuntime
        <5> QED
          BY <5>1, <5>2, <5>3
      <4>2. CASE ~ (ssh = r /\ ~ ReconnectEnabled)
        BY <1>4, <4>2 DEF ReconnectStops
      <4> QED
        BY <4>1, <4>2
    <3>2. CallerTypes'
      BY <1>4 DEF ReconnectStops, DropRuntime, NoTunnels, ReconnectEnabled
    <3>3. TaskTypes'
      BY <1>4 DEF ReconnectStops, DropRuntime, NoTunnels, ReconnectEnabled
    <3>4. TunnelTypes'
      BY <1>4 DEF ReconnectStops, DropRuntime, NoTunnels, ReconnectEnabled
    <3> QED
      BY <3>1, <3>2, <3>3, <3>4
  <2>2. LaneHeld'
    BY <1>4 DEF ReconnectStops, DropRuntime, NoTunnels, ReconnectEnabled
  <2>3. PhaseOfSession'
    BY <1>4 DEF ReconnectStops, DropRuntime, NoTunnels, ReconnectEnabled
  <2>4. TaskOfRuntime'
    BY <1>4 DEF ReconnectStops, DropRuntime, NoTunnels, ReconnectEnabled
  <2>5. TunnelsOfRuntime'
    BY <1>4 DEF ReconnectStops, DropRuntime, NoTunnels, ReconnectEnabled
  <2> QED
    BY <2>1, <2>2, <2>3, <2>4, <2>5
<1>5. CASE AttemptFails(r)
  <2>1. TypeOK'
    BY <1>5 DEF AttemptFails, Becomes, Pending, ReconnectEnabled
  <2>2. LaneHeld'
    BY <1>5 DEF AttemptFails, Becomes, Pending, ReconnectEnabled
  <2>3. PhaseOfSession'
    BY <1>5 DEF AttemptFails, Becomes, Pending, ReconnectEnabled
  <2>4. TaskOfRuntime'
    BY <1>5 DEF AttemptFails, Becomes, Pending, ReconnectEnabled
  <2>5. TunnelsOfRuntime'
    BY <1>5 DEF AttemptFails, Becomes, Pending, ReconnectEnabled
  <2> QED
    BY <2>1, <2>2, <2>3, <2>4, <2>5
<1>6. CASE AttemptDiscarded(r)
  <2>1. TypeOK'
    <3> HIDE DEF LaneHeld, PhaseOfSession, TaskOfRuntime, TunnelsOfRuntime, TunnelsOnRuntime
    <3>1. SessionTypes'
      BY <1>6 DEF AttemptDiscarded, Becomes, MayInstall, ReconnectEnabled
    <3>2. CallerTypes'
      BY <1>6 DEF AttemptDiscarded, Becomes, MayInstall, ReconnectEnabled
    <3>3. TaskTypes'
      <4>1. PICK next \in {"done", "stopping", "waiting", "failing"} : Becomes(r, next)
        BY <1>6 DEF AttemptDiscarded
      <4> QED
        BY <4>1 DEF Becomes
    <3>4. TunnelTypes'
      BY <1>6 DEF AttemptDiscarded, Becomes, MayInstall, ReconnectEnabled
    <3> QED
      BY <3>1, <3>2, <3>3, <3>4
  <2>2. LaneHeld'
    BY <1>6 DEF AttemptDiscarded, Becomes, MayInstall, ReconnectEnabled
  <2>3. PhaseOfSession'
    BY <1>6 DEF AttemptDiscarded, Becomes, MayInstall, ReconnectEnabled
  <2>4. TaskOfRuntime'
    BY <1>6 DEF AttemptDiscarded, Becomes, MayInstall, ReconnectEnabled
  <2>5. TunnelsOfRuntime'
    BY <1>6 DEF AttemptDiscarded, Becomes, MayInstall, ReconnectEnabled
  <2> QED
    BY <2>1, <2>2, <2>3, <2>4, <2>5
<1>7. CASE AttemptInstalls(r)
  <2>1. TypeOK'
    <3> HIDE DEF LaneHeld, PhaseOfSession, TaskOfRuntime, TunnelsOfRuntime, TunnelsOnRuntime
    <3>1. SessionTypes'
      BY <1>7 DEF AttemptInstalls, MayInstall
    <3>2. CallerTypes'
      BY <1>7 DEF AttemptInstalls, MayInstall
    <3>3. TaskTypes'
      BY <1>7 DEF AttemptInstalls, MayInstall
    <3>4. TunnelTypes'
      BY <1>7 DEF AttemptInstalls, MayInstall
    <3> QED
      BY <3>1, <3>2, <3>3, <3>4
  <2>2. LaneHeld'
    BY <1>7 DEF AttemptInstalls, MayInstall
  <2>3. PhaseOfSession'
    BY <1>7 DEF AttemptInstalls, MayInstall
  <2>4. TaskOfRuntime'
    <3>1. ssh' = made + 1 /\ status' = "Connected" /\ made' = made + 1
      BY <1>7 DEF AttemptInstalls
    <3>2. task'[made + 1] = "reading" /\ \A q \in Runtimes : q > made + 1 => task'[q] = task[q]
      BY <1>7 DEF AttemptInstalls
    <3>3. ssh' \notin closed'
      BY <1>7 DEF AttemptInstalls
    <3> QED
      BY <3>1, <3>2, <3>3
  <2>5. TunnelsOfRuntime'
    BY <1>7 DEF AttemptInstalls, MayInstall
  <2> QED
    BY <2>1, <2>2, <2>3, <2>4, <2>5
<1>8. CASE InstallFails(r)
  <2>1. TypeOK'
    <3>1. SessionTypes'
      BY <1>8 DEF InstallFails
    <3>2. CallerTypes'
      BY <1>8 DEF InstallFails
    <3>3. TaskTypes'
      BY <1>8 DEF InstallFails
    <3>4. TunnelTypes'
      BY <1>8 DEF InstallFails
    <3> QED
      BY <3>1, <3>2, <3>3, <3>4
  <2>2. LaneHeld'
    BY <1>8 DEF InstallFails
  <2>3. PhaseOfSession'
    BY <1>8 DEF InstallFails
  <2>4. TaskOfRuntime'
    BY <1>8 DEF InstallFails
  <2>5. TunnelsOfRuntime'
    BY <1>8 DEF InstallFails
  <2> QED
    BY <2>1, <2>2, <2>3, <2>4, <2>5
<1>9. CASE RestoreBegins(r)
  <2>1. TypeOK'
    <3> HIDE DEF LaneHeld, PhaseOfSession, TaskOfRuntime, TunnelsOfRuntime, TunnelsOnRuntime
    <3>1. SessionTypes'
      BY <1>9 DEF RestoreBegins, Connected
    <3>2. CallerTypes'
      BY <1>9 DEF RestoreBegins, Connected
    <3>3. TaskTypes'
      <4>1. PICK next \in {"none", "running"} : restore' = [restore EXCEPT ![r] = next]
        BY <1>9 DEF RestoreBegins
      <4>2. todo' = todo \/ todo' = [todo EXCEPT ![r] = enabled]
        BY <1>9 DEF RestoreBegins
      <4>3. UNCHANGED <<task, attempt>>
        BY <1>9 DEF RestoreBegins
      <4>4. restore' \in [Runtimes -> {"none", "due", "running"}]
        BY <4>1
      <4>5. todo' \in [Runtimes -> SUBSET Tunnels]
        BY <4>2
      <4> QED
        BY <4>3, <4>4, <4>5
    <3>4. TunnelTypes'
      BY <1>9 DEF RestoreBegins, Connected
    <3> QED
      BY <3>1, <3>2, <3>3, <3>4
  <2>2. LaneHeld'
    BY <1>9 DEF RestoreBegins, Connected
  <2>3. PhaseOfSession'
    BY <1>9 DEF RestoreBegins, Connected
  <2>4. TaskOfRuntime'
    BY <1>9 DEF RestoreBegins, Connected
  <2>5. TunnelsOfRuntime'
    BY <1>9 DEF RestoreBegins, Connected
  <2> QED
    BY <2>1, <2>2, <2>3, <2>4, <2>5
<1>10. CASE RestoreEnds(r)
  <2>1. TypeOK'
    BY <1>10 DEF RestoreEnds, RestoreStops, TunnelFrame
  <2>2. LaneHeld'
    BY <1>10 DEF RestoreEnds, RestoreStops, TunnelFrame
  <2>3. PhaseOfSession'
    BY <1>10 DEF RestoreEnds, RestoreStops, TunnelFrame
  <2>4. TaskOfRuntime'
    BY <1>10 DEF RestoreEnds, RestoreStops, TunnelFrame
  <2>5. TunnelsOfRuntime'
    BY <1>10 DEF RestoreEnds, RestoreStops, TunnelFrame
  <2> QED
    BY <2>1, <2>2, <2>3, <2>4, <2>5
<1> QED
    BY <1>1, <1>2, <1>3, <1>4, <1>5, <1>6, <1>7, <1>8, <1>9, <1>10

\* Tunnels are registered only on the runtime they were started on.
LEMMA TunnelStepKeeps ==
    ASSUME SessionInvariant, NEW t \in Tunnels,
           \/ CreateTunnel(t)
           \/ TunnelInstalls(t)
           \/ TunnelStartFails(t)
           \/ TunnelCommits(t)
           \/ TunnelRestored(t)
           \/ StopTunnel(t)
           \/ TunnelStopped(t)
           \/ TunnelBreaks(t)
    PROVE  SessionInvariant'
<1> USE SessionAssumption DEF SessionInvariant, TypeOK, SessionTypes,
        CallerTypes, TaskTypes, TunnelTypes, LaneHeld, PhaseOfSession,
        Settled, TaskOfRuntime, TunnelsOfRuntime, TunnelsOnRuntime, ReconnectTasks,
        Statuses, ActiveStatuses, WaitingPCs, OpenPCs, ClosePCs, LanePCs, UpdatePCs, PCs,
        Runtimes, NoRuntime, HostOwner, sessionVars, callerVars, taskVars, tunnelVars
<1>1. CASE CreateTunnel(t)
  <2> PICK egress \in Operations \cap {"tunnel", "host"} :
        /\ egress = "tunnel" => ssh # NoRuntime /\ status = "Connected"
        /\ owner' = [owner EXCEPT ![t] = IF egress = "tunnel" THEN ssh ELSE HostOwner]
    BY <1>1, Zenon DEF CreateTunnel
  <2>1. TypeOK'
    BY <1>1 DEF CreateTunnel, TunnelFrame
  <2>2. LaneHeld'
    BY <1>1 DEF CreateTunnel, TunnelFrame
  <2>3. PhaseOfSession'
    BY <1>1 DEF CreateTunnel, TunnelFrame
  <2>4. TaskOfRuntime'
    BY <1>1 DEF CreateTunnel, TunnelFrame
  <2>5. TunnelsOfRuntime'
    BY <1>1 DEF CreateTunnel, TunnelFrame
  <2> QED
    BY <2>1, <2>2, <2>3, <2>4, <2>5
<1>2. CASE TunnelInstalls(t)
  <2>1. TypeOK'
    BY <1>2 DEF TunnelInstalls, MayInstallTunnel, TunnelFrame
  <2>2. LaneHeld'
    BY <1>2 DEF TunnelInstalls, MayInstallTunnel, TunnelFrame
  <2>3. PhaseOfSession'
    BY <1>2 DEF TunnelInstalls, MayInstallTunnel, TunnelFrame
  <2>4. TaskOfRuntime'
    BY <1>2 DEF TunnelInstalls, MayInstallTunnel, TunnelFrame
  <2>5. TunnelsOfRuntime'
    BY <1>2 DEF TunnelInstalls, MayInstallTunnel, TunnelFrame
  <2> QED
    BY <2>1, <2>2, <2>3, <2>4, <2>5
<1>3. CASE TunnelStartFails(t)
  <2>1. TypeOK'
    <3> HIDE DEF LaneHeld, PhaseOfSession, TaskOfRuntime, TunnelsOfRuntime, TunnelsOnRuntime
    <3>1. SessionTypes'
      BY <1>3 DEF TunnelStartFails, Connected, RestoreStops, TunnelFrame
    <3>2. CallerTypes'
      BY <1>3 DEF TunnelStartFails, Connected, RestoreStops, TunnelFrame
    <3>3. TaskTypes'
      <4>1. \/ UNCHANGED <<restore, todo>>
            \/ RestoreStops(owner[t])
        BY <1>3 DEF TunnelStartFails
      <4>2. restore' \in [Runtimes -> {"none", "due", "running"}]
        BY <4>1 DEF RestoreStops
      <4>3. todo' \in [Runtimes -> SUBSET Tunnels]
        BY <4>1 DEF RestoreStops
      <4>4. UNCHANGED <<task, attempt>>
        BY <1>3 DEF TunnelStartFails, TunnelFrame
      <4> QED
        BY <4>2, <4>3, <4>4
    <3>4. TunnelTypes'
      BY <1>3 DEF TunnelStartFails, Connected, RestoreStops, TunnelFrame
    <3> QED
      BY <3>1, <3>2, <3>3, <3>4
  <2>2. LaneHeld'
    BY <1>3 DEF TunnelStartFails, Connected, RestoreStops, TunnelFrame
  <2>3. PhaseOfSession'
    BY <1>3 DEF TunnelStartFails, Connected, RestoreStops, TunnelFrame
  <2>4. TaskOfRuntime'
    BY <1>3 DEF TunnelStartFails, Connected, RestoreStops, TunnelFrame
  <2>5. TunnelsOfRuntime'
    BY <1>3 DEF TunnelStartFails, Connected, RestoreStops, TunnelFrame
  <2> QED
    BY <2>1, <2>2, <2>3, <2>4, <2>5
<1>4. CASE TunnelCommits(t)
  <2>1. TypeOK'
    <3> HIDE DEF LaneHeld, PhaseOfSession, TaskOfRuntime, TunnelsOfRuntime, TunnelsOnRuntime
    <3>1. SessionTypes'
      BY <1>4 DEF TunnelCommits, RemoveIfOwned, SaveOutcomes, TunnelFrame
    <3>2. CallerTypes'
      BY <1>4 DEF TunnelCommits, RemoveIfOwned, SaveOutcomes, TunnelFrame
    <3>3. TaskTypes'
      BY <1>4 DEF TunnelCommits, RemoveIfOwned, SaveOutcomes, TunnelFrame
    <3>4. TunnelTypes'
      <4>1. tunnels' = tunnels \/ tunnels' = RemoveIfOwned(t)
        BY <1>4 DEF TunnelCommits
      <4>2. tunnels' \in [Tunnels -> {HostOwner} \cup 0 .. made]
        BY <4>1 DEF RemoveIfOwned
      <4>3. enabled' \subseteq Tunnels
        BY <1>4 DEF TunnelCommits
      <4>4. UNCHANGED <<owner, made>> /\ start' = [start EXCEPT ![t] = "idle"]
        BY <1>4 DEF TunnelCommits, TunnelFrame
      <4> QED
        BY <4>2, <4>3, <4>4
    <3> QED
      BY <3>1, <3>2, <3>3, <3>4
  <2>2. LaneHeld'
    BY <1>4 DEF TunnelCommits, RemoveIfOwned, SaveOutcomes, TunnelFrame
  <2>3. PhaseOfSession'
    BY <1>4 DEF TunnelCommits, RemoveIfOwned, SaveOutcomes, TunnelFrame
  <2>4. TaskOfRuntime'
    BY <1>4 DEF TunnelCommits, RemoveIfOwned, SaveOutcomes, TunnelFrame
  <2>5. TunnelsOfRuntime'
    <3>1. \A u \in Tunnels : tunnels'[u] = tunnels[u] \/ tunnels'[u] = NoRuntime
      BY <1>4 DEF TunnelCommits, RemoveIfOwned
    <3>2. UNCHANGED <<ssh, status, lane, pc>>
      BY <1>4 DEF TunnelCommits, TunnelFrame
    <3> QED
      BY <3>1, <3>2, FewerTunnels
  <2> QED
    BY <2>1, <2>2, <2>3, <2>4, <2>5
<1>5. CASE TunnelRestored(t)
  <2>1. TypeOK'
    <3> HIDE DEF LaneHeld, PhaseOfSession, TaskOfRuntime, TunnelsOfRuntime, TunnelsOnRuntime
    <3>1. SessionTypes'
      BY <1>5 DEF TunnelRestored, Connected, RemoveIfOwned, RestoreStops, SaveOutcomes, TunnelFrame
    <3>2. CallerTypes'
      BY <1>5 DEF TunnelRestored, Connected, RemoveIfOwned, RestoreStops, SaveOutcomes, TunnelFrame
    <3>3. TaskTypes'
      <4>1. \/ UNCHANGED <<restore, todo>>
            \/ RestoreStops(owner[t])
        BY <1>5 DEF TunnelRestored
      <4>2. restore' \in [Runtimes -> {"none", "due", "running"}]
        BY <4>1 DEF RestoreStops
      <4>3. todo' \in [Runtimes -> SUBSET Tunnels]
        BY <4>1 DEF RestoreStops
      <4>4. UNCHANGED <<task, attempt>>
        BY <1>5 DEF TunnelRestored, TunnelFrame
      <4> QED
        BY <4>2, <4>3, <4>4
    <3>4. TunnelTypes'
      <4>1. tunnels' = tunnels \/ tunnels' = RemoveIfOwned(t)
        BY <1>5 DEF TunnelRestored
      <4>2. tunnels' \in [Tunnels -> {HostOwner} \cup 0 .. made]
        BY <4>1 DEF RemoveIfOwned
      <4>3. enabled' \subseteq Tunnels
        BY <1>5 DEF TunnelRestored
      <4>4. UNCHANGED <<owner, made>> /\ start' = [start EXCEPT ![t] = "idle"]
        BY <1>5 DEF TunnelRestored, TunnelFrame
      <4> QED
        BY <4>2, <4>3, <4>4
    <3> QED
      BY <3>1, <3>2, <3>3, <3>4
  <2>2. LaneHeld'
    BY <1>5 DEF TunnelRestored, Connected, RemoveIfOwned, RestoreStops, SaveOutcomes, TunnelFrame
  <2>3. PhaseOfSession'
    BY <1>5 DEF TunnelRestored, Connected, RemoveIfOwned, RestoreStops, SaveOutcomes, TunnelFrame
  <2>4. TaskOfRuntime'
    BY <1>5 DEF TunnelRestored, Connected, RemoveIfOwned, RestoreStops, SaveOutcomes, TunnelFrame
  <2>5. TunnelsOfRuntime'
    <3>1. \A u \in Tunnels : tunnels'[u] = tunnels[u] \/ tunnels'[u] = NoRuntime
      BY <1>5 DEF TunnelRestored, RemoveIfOwned
    <3>2. UNCHANGED <<ssh, status, lane, pc>>
      BY <1>5 DEF TunnelRestored, TunnelFrame
    <3> QED
      BY <3>1, <3>2, FewerTunnels
  <2> QED
    BY <2>1, <2>2, <2>3, <2>4, <2>5
<1>6. CASE StopTunnel(t)
  <2>1. TypeOK'
    BY <1>6 DEF StopTunnel, TunnelFrame
  <2>2. LaneHeld'
    BY <1>6 DEF StopTunnel, TunnelFrame
  <2>3. PhaseOfSession'
    BY <1>6 DEF StopTunnel, TunnelFrame
  <2>4. TaskOfRuntime'
    BY <1>6 DEF StopTunnel, TunnelFrame
  <2>5. TunnelsOfRuntime'
    BY <1>6 DEF StopTunnel, TunnelFrame
  <2> QED
    BY <2>1, <2>2, <2>3, <2>4, <2>5
<1>7. CASE TunnelStopped(t)
  <2>1. TypeOK'
    BY <1>7 DEF TunnelStopped, SaveOutcomes, TunnelFrame
  <2>2. LaneHeld'
    BY <1>7 DEF TunnelStopped, SaveOutcomes, TunnelFrame
  <2>3. PhaseOfSession'
    BY <1>7 DEF TunnelStopped, SaveOutcomes, TunnelFrame
  <2>4. TaskOfRuntime'
    BY <1>7 DEF TunnelStopped, SaveOutcomes, TunnelFrame
  <2>5. TunnelsOfRuntime'
    BY <1>7 DEF TunnelStopped, SaveOutcomes, TunnelFrame
  <2> QED
    BY <2>1, <2>2, <2>3, <2>4, <2>5
<1>8. CASE TunnelBreaks(t)
  <2>1. TypeOK'
    BY <1>8 DEF TunnelBreaks, TunnelFrame
  <2>2. LaneHeld'
    BY <1>8 DEF TunnelBreaks, TunnelFrame
  <2>3. PhaseOfSession'
    BY <1>8 DEF TunnelBreaks, TunnelFrame
  <2>4. TaskOfRuntime'
    BY <1>8 DEF TunnelBreaks, TunnelFrame
  <2>5. TunnelsOfRuntime'
    BY <1>8 DEF TunnelBreaks, TunnelFrame
  <2> QED
    BY <2>1, <2>2, <2>3, <2>4, <2>5
<1> QED
    BY <1>1, <1>2, <1>3, <1>4, <1>5, <1>6, <1>7, <1>8

\* Restoring a saved tunnel starts it, and registers nothing yet.
LEMMA RestoreTunnelKeeps ==
    ASSUME SessionInvariant, NEW r \in Runtimes, NEW t \in Tunnels, RestoreTunnel(r, t)
    PROVE  SessionInvariant'
<1> USE SessionAssumption DEF SessionInvariant, TypeOK, SessionTypes,
        CallerTypes, TaskTypes, TunnelTypes, LaneHeld, PhaseOfSession,
        Settled, TaskOfRuntime, TunnelsOfRuntime, TunnelsOnRuntime, ReconnectTasks,
        Statuses, ActiveStatuses, WaitingPCs, OpenPCs, ClosePCs, LanePCs, UpdatePCs, PCs,
        Runtimes, NoRuntime, HostOwner, sessionVars, callerVars, taskVars, tunnelVars
<1>1. TypeOK'
  <2> HIDE DEF LaneHeld, PhaseOfSession, TaskOfRuntime, TunnelsOfRuntime, TunnelsOnRuntime
  <2>1. SessionTypes' /\ CallerTypes'
    BY DEF RestoreTunnel, TunnelFrame
  <2>2. TaskTypes'
    <3>1. restore' = restore \/ restore' = [restore EXCEPT ![r] = "none"]
      BY DEF RestoreTunnel, RestoreStops
    <3>2. PICK left \in SUBSET Tunnels : todo' = [todo EXCEPT ![r] = left]
      BY DEF RestoreTunnel, RestoreStops
    <3>3. UNCHANGED <<task, attempt>>
      BY DEF RestoreTunnel, TunnelFrame
    <3> QED
      BY <3>1, <3>2, <3>3
  <2>3. TunnelTypes'
    <3>1. start' = start \/ start' = [start EXCEPT ![t] = "restoring"]
      BY DEF RestoreTunnel
    <3>2. Connected(r) => r \in 0 .. made
      BY DEF Connected
    <3>3. owner' = owner \/ (Connected(r) /\ owner' = [owner EXCEPT ![t] = r])
      BY DEF RestoreTunnel
    <3>4. UNCHANGED <<tunnels, enabled, made>>
      BY DEF RestoreTunnel, TunnelFrame
    <3>5. owner' \in [Tunnels -> {HostOwner} \cup 0 .. made]
      BY <3>2, <3>3
    <3>6. start' \in [Tunnels -> {"idle", "creating", "started",
                                  "restoring", "restored", "stopping"}]
      BY <3>1
    <3> QED
      BY <3>4, <3>5, <3>6
  <2> QED
    BY <2>1, <2>2, <2>3
<1>2. UNCHANGED <<sessionVars, callerVars, task, tunnels>>
    BY DEF RestoreTunnel, TunnelFrame
<1>3. LaneHeld' /\ PhaseOfSession' /\ TaskOfRuntime' /\ TunnelsOfRuntime'
    BY <1>2
<1> QED
    BY <1>1, <1>3

\* An abandoned update, edits of the profile and stuttering touch no
\* runtime.
LEMMA QuietStepKeeps ==
    ASSUME SessionInvariant, UpdateAbandoned \/ EditProfile \/ UNCHANGED vars
    PROVE  SessionInvariant'
<1> USE SessionAssumption DEF SessionInvariant, TypeOK, SessionTypes,
        CallerTypes, TaskTypes, TunnelTypes, LaneHeld, PhaseOfSession,
        Settled, TaskOfRuntime, TunnelsOfRuntime, TunnelsOnRuntime, ReconnectTasks,
        Statuses, ActiveStatuses, WaitingPCs, OpenPCs, ClosePCs, LanePCs, UpdatePCs, PCs,
        Runtimes, NoRuntime, HostOwner, sessionVars, callerVars, taskVars, tunnelVars
<1>1. CASE EditProfile
    BY <1>1 DEF EditProfile
<1>2. CASE UpdateAbandoned
    BY <1>2 DEF UpdateAbandoned
<1>3. CASE UNCHANGED vars
    BY <1>3 DEF vars
<1> QED
    BY <1>1, <1>2, <1>3

LEMMA InitKeeps == Init => SessionInvariant
<1> USE SessionAssumption DEF SessionInvariant, TypeOK, SessionTypes,
        CallerTypes, TaskTypes, TunnelTypes, LaneHeld, PhaseOfSession,
        Settled, TaskOfRuntime, TunnelsOfRuntime, TunnelsOnRuntime, ReconnectTasks,
        Statuses, ActiveStatuses, WaitingPCs, OpenPCs, ClosePCs, LanePCs, UpdatePCs, PCs,
        Runtimes, NoRuntime, HostOwner, sessionVars, callerVars, taskVars, tunnelVars
<1> SUFFICES ASSUME Init PROVE SessionInvariant
    OBVIOUS
<1>1. TypeOK
  <2>1. SessionTypes
    BY DEF Init
  <2>2. CallerTypes
    BY DEF Init
  <2>3. TaskTypes
    BY DEF Init
  <2>4. TunnelTypes
    BY DEF Init
  <2> QED
    BY <2>1, <2>2, <2>3, <2>4
<1>2. LaneHeld
    BY DEF Init
<1>3. PhaseOfSession
    BY DEF Init
<1>4. TaskOfRuntime
    BY DEF Init
<1>5. TunnelsOfRuntime
    BY DEF Init
<1> QED
    BY <1>1, <1>2, <1>3, <1>4, <1>5

\* The invariant is inductive.
LEMMA NextKeeps == SessionInvariant /\ [Next]_vars => SessionInvariant'
<1> SUFFICES ASSUME SessionInvariant, [Next]_vars
             PROVE  SessionInvariant'
    OBVIOUS
<1>1. ASSUME NEW c \in Callers,
             \/ RegisterOpen(c) \/ BeginClose(c) \/ BeginDelete(c) \/ TakeLane(c)
      PROVE  SessionInvariant'
    BY <1>1, WaitingStep
<1>2. ASSUME NEW c \in Callers, OpenStep(c)
      PROVE  SessionInvariant'
    BY <1>2, OpenStepKeeps DEF OpenStep
<1>3. ASSUME NEW c \in Callers, CloseStep(c)
      PROVE  SessionInvariant'
    BY <1>3, CloseStepKeeps DEF CloseStep
<1>4. ASSUME NEW c \in Callers, UpdateBegins(c) \/ UpdateStep(c)
      PROVE  SessionInvariant'
    BY <1>4, UpdateStepKeeps DEF UpdateStep
<1>5. ASSUME NEW r \in Runtimes,
             ReaderEnds(r) \/ TaskStep(r) \/ RestoreBegins(r) \/ RestoreEnds(r)
      PROVE  SessionInvariant'
    BY <1>5, TaskStepKeeps DEF TaskStep
<1>6. ASSUME NEW r \in Runtimes, NEW t \in Tunnels, RestoreTunnel(r, t)
      PROVE  SessionInvariant'
    BY <1>6, RestoreTunnelKeeps
<1>7. ASSUME NEW t \in Tunnels,
             \/ CreateTunnel(t) \/ StopTunnel(t)
             \/ TunnelBreaks(t) \/ TunnelStep(t)
      PROVE  SessionInvariant'
    BY <1>7, TunnelStepKeeps DEF TunnelStep
<1>8. ASSUME UpdateAbandoned \/ EditProfile \/ UNCHANGED vars
      PROVE  SessionInvariant'
    BY <1>8, QuietStepKeeps
<1> QED
    BY <1>1, <1>2, <1>3, <1>4, <1>5, <1>6, <1>7, <1>8 DEF Next

LEMMA InvariantHolds == Spec => []SessionInvariant
    BY InitKeeps, NextKeeps, PTL DEF Spec

-------------------------------------------------------------------------------
(* The theorems. *)

\* Every variable keeps its type: in particular no runtime is registered or
\* closed that was never made, whoever removes it.
THEOREM SessionTypeCorrect == Spec => []TypeOK
<1>1. SessionInvariant => TypeOK
    BY DEF SessionInvariant
<1> QED
    BY <1>1, InvariantHolds, PTL

\* Outside the lane the stored status and the SSH registry agree: what the
\* reader, the reconnect and the update do without the lane keeps them together.
THEOREM StatusMatchesRuntime == Spec => []RuntimeMatchesStatus
<1>1. SessionInvariant => RuntimeMatchesStatus
    BY DEF SessionInvariant, PhaseOfSession, Settled, RuntimeMatchesStatus
<1> QED
    BY <1>1, InvariantHolds, PTL

\* A connected session has a reader and a reconnecting one a reconnect task.
THEOREM ActiveSessionsAreDriven == Spec => []SessionIsDriven
<1>1. SessionInvariant => SessionIsDriven
  <2> SUFFICES ASSUME SessionInvariant, lane = Nobody,
                      status \in {"Connected", "Reconnecting"}
               PROVE  /\ status = "Connected" => task[ssh] = "reading"
                      /\ status = "Reconnecting" => task[ssh] \in ReconnectTasks
    BY DEF SessionIsDriven, ReconnectTasks
  <2>1. ssh \in Runtimes
    BY SessionAssumption DEF SessionInvariant, TypeOK, SessionTypes, PhaseOfSession, Settled,
        Runtimes, NoRuntime
  <2> QED
    BY <2>1 DEF SessionInvariant, TaskOfRuntime
<1> QED
    BY <1>1, InvariantHolds, PTL

\* A tunnel over SSH belongs to the registered runtime, whenever its bind
\* returned and whatever closed or replaced the runtime meanwhile.
THEOREM TunnelsBelongToRuntime == Spec => []TunnelsOnRuntime
<1>1. SessionInvariant => TunnelsOnRuntime
    BY DEF SessionInvariant, TunnelsOfRuntime
<1> QED
    BY <1>1, InvariantHolds, PTL

\* Only the open under the lane registers a runtime where there is none: a late
\* reconnect never brings a closed session back.
THEOREM ClosedStaysClosed == Spec => NoResurrection
<1> DEFINE Opened == \E c \in Callers : lane = c /\ pc[c] = "establishing"
<1>1. ASSUME SessionInvariant, Next, ssh = NoRuntime, ssh' # NoRuntime
      PROVE  Opened
  <2>1. CASE \E c \in Callers : OpenInstalls(c)
    BY <1>1, <2>1 DEF OpenInstalls, SessionInvariant, LaneHeld, LanePCs, OpenPCs
  <2>2. CASE \E r \in Runtimes : AttemptInstalls(r)
    BY <1>1, <2>2, SessionAssumption DEF AttemptInstalls, MayInstall, Runtimes, NoRuntime
  <2>3. ASSUME NEW c \in Callers,
               \/ RegisterOpen(c) \/ BeginClose(c) \/ BeginDelete(c) \/ TakeLane(c)
               \/ UpdateBegins(c) \/ UpdateStep(c) \/ CloseStep(c)
        PROVE  ssh' = ssh \/ ssh' = NoRuntime
    BY <2>3 DEF RegisterOpen, BeginClose, BeginDelete, TakeLane, UpdateBegins, UpdateStep,
        CloseStep, UpdateSurveys, UpdateCancels, UpdateCollects, UpdateDrains, UpdateFails,
        UpdateFrame, CloseRemoves, CloseStopsTunnels, CloseEnds, DeleteChecks, DeleteErases, DeleteFails,
        sessionVars
  <2>4. ASSUME NEW c \in Callers, OpenStep(c), ~ OpenInstalls(c)
        PROVE  ssh' = ssh \/ ssh' = NoRuntime
    BY <2>4 DEF OpenStep, OpenRefused, OpenConnecting, OpenProceeds, OpenCancelled, CancelOpen,
        OpenFails, OpenConnected, OpenCommitFails, OpenUnwinds, sessionVars
  <2>5. ASSUME NEW r \in Runtimes,
               ReaderEnds(r) \/ TaskStep(r) \/ RestoreBegins(r) \/ RestoreEnds(r),
               ~ AttemptInstalls(r)
        PROVE  ssh' = ssh \/ ssh' = NoRuntime
    BY <2>5 DEF ReaderEnds, TaskStep, ReaderDrained, ReconnectAttempts, ReconnectStops,
        AttemptFails, AttemptDiscarded, InstallFails, RestoreBegins, RestoreEnds, Becomes,
        DropRuntime, TunnelFrame, sessionVars
  <2>6. ASSUME NEW t \in Tunnels,
               \/ CreateTunnel(t) \/ StopTunnel(t) \/ TunnelBreaks(t)
               \/ TunnelStep(t) \/ \E r \in Runtimes : RestoreTunnel(r, t)
        PROVE  ssh' = ssh
    BY <2>6 DEF CreateTunnel, StopTunnel, TunnelBreaks, TunnelStep,
        TunnelInstalls, TunnelStartFails, TunnelCommits, TunnelRestored, TunnelStopped,
        RestoreTunnel, TunnelFrame, sessionVars
  <2>7. ASSUME UpdateAbandoned \/ EditProfile
        PROVE  ssh' = ssh
    BY <2>7 DEF UpdateAbandoned, EditProfile, sessionVars
  <2> QED
    BY <1>1, <2>1, <2>2, <2>3, <2>4, <2>5, <2>6, <2>7 DEF Next
<1>2. SessionInvariant /\ [Next]_vars
        => [ssh = NoRuntime /\ ssh' # NoRuntime => Opened]_vars
    BY <1>1
<1> QED
    BY <1>2, InvariantHolds, PTL DEF Spec, NoResurrection


-----------------------------------------------------------------------------
(* What no step of the session does to a runtime that was made. *)

\* It is registered once, and its task goes one way.
GoesOn(r) ==
    /\ ssh' = r => ssh = r
    /\ task[r] # "none" => task'[r] # "none"
    /\ task[r] \in PastReading => task'[r] \in PastReading
    /\ Screen(r)' => Screen(r)

\* A step that registers no runtime and touches no task.
LEMMA QuietGoesOn ==
    ASSUME NEW r \in Runtimes, made \in Nat,
           made' = made, task' = task, ssh' = ssh \/ ssh' = NoRuntime
    PROVE  GoesOn(r)
BY DEF GoesOn, Screen, PastReading, ReconnectTasks, Runtimes, NoRuntime

\* The task of one runtime takes a step that a task takes.
LEMMA TaskGoesOn ==
    ASSUME NEW r \in Runtimes, made \in Nat, TaskTypes,
           made' = made, ssh' = ssh \/ ssh' = NoRuntime,
           NEW s \in Runtimes, NEW next,
           task' = [task EXCEPT ![s] = next],
           \/ task[s] = "none" /\ next = "reading"
           \/ task[s] = "reading" /\ next \in {"draining", "done"}
           \/ task[s] \in ReconnectTasks /\ next \in (ReconnectTasks \ {"draining"}) \cup {"done"}
    PROVE  GoesOn(r)
BY DEF GoesOn, Screen, PastReading, ReconnectTasks, Runtimes, NoRuntime, TaskTypes

LEMMA OpenGoesOn ==
    ASSUME SessionInvariant, NEW r \in 1 .. made, NEW c \in Callers, OpenStep(c)
    PROVE  GoesOn(r)
<1> USE SessionAssumption DEF SessionInvariant, TypeOK, SessionTypes
<1>0. r \in Runtimes /\ made \in Nat
    BY DEF Runtimes
<1>1. CASE OpenInstalls(c)
    BY <1>0, <1>1 DEF OpenInstalls, GoesOn, taskVars, Screen
<1>2. CASE OpenConnected(c)
  <2>1. ssh \in Runtimes /\ task[ssh] = "none"
    BY <1>2 DEF OpenConnected, PhaseOfSession, Runtimes, NoRuntime
  <2>2. /\ made' = made /\ ssh' = ssh
        /\ task' = [task EXCEPT ![ssh] = "reading"]
    BY <1>2 DEF OpenConnected
  <2> QED
    BY <1>0, <2>1, <2>2, TaskGoesOn
<1>3. CASE ~ OpenInstalls(c) /\ ~ OpenConnected(c)
  <2>1. made' = made /\ task' = task /\ (ssh' = ssh \/ ssh' = NoRuntime)
    BY <1>3 DEF OpenStep, OpenRefused, OpenConnecting, OpenProceeds, OpenCancelled, CancelOpen,
        OpenFails, OpenCommitFails, OpenUnwinds, sessionVars, taskVars
  <2> QED
    BY <1>0, <2>1, QuietGoesOn
<1> QED
    BY <1>1, <1>2, <1>3

LEMMA TaskStepGoesOn ==
    ASSUME SessionInvariant, NEW r \in 1 .. made, NEW s \in Runtimes,
           ReaderEnds(s) \/ TaskStep(s)
    PROVE  GoesOn(r)
<1> USE SessionAssumption DEF SessionInvariant, TypeOK, SessionTypes
<1>0. r \in Runtimes /\ made \in Nat
    BY DEF Runtimes
<1>1. CASE AttemptInstalls(s)
  <2>1. /\ made' = made + 1 /\ ssh' = made + 1 /\ task[s] = "establishing"
        /\ task' = [task EXCEPT ![s] = "done", ![made + 1] = "reading"]
    BY <1>1 DEF AttemptInstalls
  <2>2. task'[r] = IF r = s THEN "done" ELSE task[r]
    BY <1>0, <2>1 DEF TaskTypes
  <2> QED
    BY <1>0, <2>1, <2>2 DEF GoesOn, Screen, PastReading, ReconnectTasks
<1>2. CASE ReaderEnds(s)
  <2>1. /\ made' = made /\ task[s] = "reading" /\ (ssh' = ssh \/ ssh' = NoRuntime)
        /\ \/ task' = [task EXCEPT ![s] = "draining"]
           \/ task' = [task EXCEPT ![s] = "done"]
    BY <1>2 DEF ReaderEnds, DropRuntime
  <2>2. CASE task' = [task EXCEPT ![s] = "draining"]
    BY <1>0, <2>1, <2>2, TaskGoesOn
  <2>3. CASE task' = [task EXCEPT ![s] = "done"]
    BY <1>0, <2>1, <2>3, TaskGoesOn
  <2> QED
    BY <2>1, <2>2, <2>3
<1>3. ASSUME NEW next \in {"waiting", "establishing", "stopping", "failing", "done"},
             task[s] \in ReconnectTasks, task' = [task EXCEPT ![s] = next],
             made' = made, ssh' = ssh \/ ssh' = NoRuntime
      PROVE  GoesOn(r)
    BY <1>0, <1>3, TaskGoesOn DEF ReconnectTasks
<1>4. CASE ReaderDrained(s) \/ ReconnectAttempts(s)
    BY <1>3, <1>4 DEF ReaderDrained, ReconnectAttempts, Becomes, sessionVars, ReconnectTasks
<1>5. CASE ReconnectStops(s)
    BY <1>3, <1>5 DEF ReconnectStops, DropRuntime, ReconnectTasks
<1>6. CASE AttemptFails(s) \/ AttemptDiscarded(s)
    BY <1>3, <1>6 DEF AttemptFails, AttemptDiscarded, Becomes, sessionVars, ReconnectTasks
<1>7. CASE InstallFails(s)
    BY <1>3, <1>7 DEF InstallFails, ReconnectTasks
<1> QED
    BY <1>1, <1>2, <1>4, <1>5, <1>6, <1>7 DEF TaskStep

LEMMA RuntimesGoOn ==
    ASSUME SessionInvariant, [Next]_vars
    PROVE  made <= made' /\ \A r \in 1 .. made : GoesOn(r)
<1> DEFINE Quiet == made' = made /\ task' = task /\ (ssh' = ssh \/ ssh' = NoRuntime)
           Goal == made <= made' /\ \A r \in 1 .. made : GoesOn(r)
<1>0. made \in Nat /\ 1 .. made \subseteq Runtimes
    BY SessionAssumption DEF SessionInvariant, TypeOK, SessionTypes, Runtimes
<1>1. ASSUME NEW c \in Callers,
             \/ RegisterOpen(c) \/ BeginClose(c) \/ BeginDelete(c) \/ UpdateBegins(c)
             \/ TakeLane(c) \/ CloseStep(c) \/ UpdateStep(c)
      PROVE  Quiet
    BY <1>1 DEF RegisterOpen, BeginClose, BeginDelete, TakeLane, UpdateBegins, UpdateStep,
        CloseStep, UpdateSurveys, UpdateCancels, UpdateCollects, UpdateDrains, UpdateFails,
        UpdateFrame, CloseRemoves, CloseStopsTunnels, CloseEnds, DeleteChecks, DeleteErases,
        DeleteFails, sessionVars, taskVars
<1>2. ASSUME NEW t \in Tunnels,
             \/ CreateTunnel(t) \/ StopTunnel(t) \/ TunnelBreaks(t)
             \/ TunnelStep(t) \/ \E s \in Runtimes : RestoreTunnel(s, t)
      PROVE  Quiet
    BY <1>2 DEF CreateTunnel, StopTunnel, TunnelBreaks, TunnelStep, TunnelInstalls,
        TunnelStartFails, TunnelCommits, TunnelRestored, TunnelStopped, RestoreTunnel,
        TunnelFrame, sessionVars
<1>3. ASSUME NEW s \in Runtimes, RestoreBegins(s) \/ RestoreEnds(s)
      PROVE  Quiet
    BY <1>3 DEF RestoreBegins, RestoreEnds, TunnelFrame, sessionVars
<1>4. ASSUME UpdateAbandoned \/ EditProfile \/ UNCHANGED vars
      PROVE  Quiet
    BY <1>4 DEF UpdateAbandoned, EditProfile, vars, sessionVars, taskVars
<1>5. Quiet => Goal
    BY <1>0, QuietGoesOn
<1>6. ASSUME NEW c \in Callers, OpenStep(c)
      PROVE  Goal
  <2>1. made' = made \/ made' = made + 1
    BY <1>6 DEF OpenStep, OpenInstalls, OpenConnected, OpenRefused, OpenConnecting, OpenProceeds,
        OpenCancelled, CancelOpen, OpenFails, OpenCommitFails, OpenUnwinds, sessionVars
  <2> QED
    BY <1>0, <1>6, <2>1, OpenGoesOn
<1>7. ASSUME NEW s \in Runtimes, ReaderEnds(s) \/ TaskStep(s)
      PROVE  Goal
  <2>1. made' = made \/ made' = made + 1
    BY <1>7 DEF ReaderEnds, TaskStep, ReaderDrained, ReconnectAttempts, ReconnectStops,
        AttemptFails, AttemptDiscarded, AttemptInstalls, InstallFails, Becomes, sessionVars
  <2> QED
    BY <1>0, <1>7, <2>1, TaskStepGoesOn
<1> HIDE DEF Quiet, Goal
<1>8. Goal
    BY ONLY [Next]_vars, <1>1, <1>2, <1>3, <1>4, <1>5, <1>6, <1>7, Zenon DEF Next
<1> QED
    BY <1>8 DEF Goal

\* In the words of the invariant: a runtime that is gone stays gone, one that is
\* connected stays so until it is gone, and the two exclude each other.
LEMMA GoneIsLasting ==
    ASSUME SessionInvariant, [Next]_vars, NEW r \in 1 .. made
    PROVE  /\ Gone(r) => Gone(r)'
           /\ Connected(r) => ~ Gone(r)
           /\ Connected(r) => Connected(r)' \/ Gone(r)'
           /\ ssh # r => ssh' # r
           /\ Screen(r)' => Screen(r)
           /\ made <= made'
<1> USE SessionAssumption
<1>1. SessionInvariant' /\ GoesOn(r) /\ made <= made'
    BY NextKeeps, RuntimesGoOn
<1>2. r \in Runtimes /\ r \in 1 .. made' /\ made \in Nat /\ made' \in Nat
    BY <1>1 DEF SessionInvariant, TypeOK, SessionTypes, Runtimes
<1>3. Gone(r) => Gone(r)'
    BY <1>1 DEF Gone, GoesOn
<1>4. Connected(r) => task[r] = "reading" /\ ~ Gone(r)
    BY <1>2 DEF Connected, Gone, PastReading, ReconnectTasks, SessionInvariant, TaskOfRuntime
<1>5. ASSUME Connected(r), ~ Gone(r)'
      PROVE  Connected(r)'
  <2>1. ssh' = r /\ task'[r] # "none" /\ task'[r] \notin PastReading
    BY <1>1, <1>4, <1>5 DEF Gone, GoesOn
  <2>2. task'[r] = "reading"
    BY <1>1, <1>2, <2>1 DEF PastReading, ReconnectTasks, SessionInvariant, TypeOK, TaskTypes
  <2> QED
    BY <1>1, <1>2, <2>1, <2>2 DEF Connected, SessionInvariant, TaskOfRuntime
<1> QED
    BY <1>1, <1>2, <1>3, <1>4, <1>5 DEF GoesOn

\* Every step is one of the session, or leaves the session alone.
LEMMA SessionMoves == [AuxNext]_allVars => [Next]_vars
<1>1. ASSUME NEW w \in Starts,
             (\E t \in Targets : Lookup(w, t)) \/ StartStep(w) \/ WatcherStep(w) \/ Hears(w)
             \/ ChannelEnds(w)
      PROVE  UNCHANGED vars
    BY <1>1 DEF Lookup, StartStep, WatcherStep, Hears, ChannelEnds, Joins, Leases, LooksAgain,
        OpenChannelFails, Installs, Replaces, Tells, TickerStops, ParentIsGone, Unregisters,
        Ends, WatchFrame
<1>2. ASSUME NEW q \in Queries, QueryStep(q) \/ \E k \in QueryKinds : Asks(q, k)
      PROVE  UNCHANGED vars
  <2>1. QueryFrame
    BY <1>2, Zenon DEF QueryStep, Asks, CheckHolds, ChangeAnswers, Records, ListAnswers,
        HealthAnswers, SampleIsTaken, FinishesTmux, FinishesHealth, CommitsSample, At, Fails,
        Query
  <2> QED
    BY <2>1 DEF QueryFrame
<1>3. ASSUME (\E c \in Callers : CloseCancels(c)) \/ (\E t \in Targets : StopsOne(t))
             \/ StopsAll \/ Shutdown \/ UNCHANGED allVars
      PROVE  UNCHANGED vars
    BY <1>3 DEF CloseCancels, StopsOne, StopsAll, Shutdown, CancelOnly, WatchFrame, allVars
<1> QED
    BY <1>1, <1>2, <1>3, Zenon DEF AuxNext, SessionStep

-----------------------------------------------------------------------------
(* Operations that ask once. *)

\* One query takes a step, and the session rests.
LEMMA QueryMoves ==
    ASSUME QueryInvariant, UNCHANGED vars, NEW q \in Queries, NEW x \in QueryRecords,
           query' = [query EXCEPT ![q] = x],
           x.at \in UnderWay => x.over # NoRuntime,
           HoldsFacts(x), AnswerIsSteady(x)
    PROVE  QueryInvariant'
<1>1. UNCHANGED <<ssh, task, made, closed, status>>
    BY DEF vars, sessionVars, taskVars
<1>2. query' \in [Queries -> QueryRecords] /\ QueryRecords' = QueryRecords
    BY <1>1 DEF QueryInvariant, QueryTypes, QueryRecords
<1>3. \A p \in Queries : query'[p] = IF p = q THEN x ELSE query[p]
    BY DEF QueryInvariant, QueryTypes
<1>4. QueriesLease'
    BY <1>3 DEF QueryInvariant, QueriesLease
<1>5. QueriesHoldFacts'
  <2>1. \A p \in Queries : HoldsFacts(query'[p])
    BY <1>3 DEF QueryInvariant, QueriesHoldFacts
  <2>2. \A p \in Queries : HoldsFacts(query'[p]) <=> HoldsFacts(query[p])'
    <3>1. Facts' = Facts
      BY <1>1 DEF Facts, Connected, Screen
    <3> QED
      BY <1>1, <3>1 DEF HoldsFacts, Gone, Screen
  <2> QED
    BY <2>1, <2>2 DEF QueriesHoldFacts
<1>6. AnswersAreSteady'
  <2>1. \A p \in Queries : AnswerIsSteady(query'[p])
    BY <1>3 DEF QueryInvariant, AnswersAreSteady
  <2> QED
    BY <2>1 DEF AnswersAreSteady, AnswerIsSteady
<1> QED
    BY <1>2, <1>4, <1>5, <1>6 DEF QueryInvariant, QueryTypes

LEMMA FailureKeeps ==
    ASSUME SessionInvariant, QueryInvariant, NEW q \in Queries, Fails(q)
    PROVE  QueryInvariant'
<1> DEFINE x == [Idle EXCEPT !.at = "failed"]
<1>1. Idle \in QueryRecords
    BY SessionAssumption DEF Idle, SessionInvariant, TypeOK, SessionTypes, QueryRecords,
        QueryKinds, NoRuntime
<1>2. x \in QueryRecords /\ x.at = "failed"
    BY <1>1 DEF QueryRecords
<1>3. HoldsFacts(x) /\ AnswerIsSteady(x) /\ x.at \notin UnderWay
    BY <1>2 DEF HoldsFacts, AnswerIsSteady, UnderWay
<1> HIDE DEF x
<1>4. query' = [query EXCEPT ![q] = x] /\ QueryFrame
    BY Zenon DEF Fails, Query, x
<1>5. UNCHANGED vars
    BY <1>4 DEF QueryFrame
<1> QED
    BY <1>2, <1>3, <1>4, <1>5, QueryMoves

\* A query goes on, and what it relies on stays as it is.
LEMMA PhaseKeeps ==
    ASSUME QueryInvariant, NEW q \in Queries, NEW phase \in UnderWay, At(q, phase),
           query[q].at \in UnderWay \ {"checking"}
    PROVE  QueryInvariant'
<1> DEFINE x == [query[q] EXCEPT !.at = phase]
<1>1. query' = [query EXCEPT ![q] = x] /\ QueryFrame
    BY Zenon DEF At, Query
<1>2. UNCHANGED vars
    BY <1>1 DEF QueryFrame
<1>3. query[q] \in QueryRecords /\ HoldsFacts(query[q]) /\ query[q].over # NoRuntime
    BY DEF QueryInvariant, QueryTypes, QueriesHoldFacts, QueriesLease
<1>4. /\ x \in QueryRecords
      /\ x.at = phase /\ x.over = query[q].over /\ x.kind = query[q].kind
      /\ x.lit = query[q].lit /\ x.verdict = query[q].verdict /\ x.held = query[q].held
    BY <1>3 DEF QueryRecords
<1>5. HoldsFacts(x) /\ AnswerIsSteady(x) /\ x.over # NoRuntime
    BY <1>3, <1>4 DEF HoldsFacts, AnswerIsSteady, UnderWay
<1> HIDE DEF x
<1> QED
    BY <1>1, <1>2, <1>4, <1>5, QueryMoves

\* A connected runtime is the registered one, and not gone.
LEMMA ConnectedFacts ==
    ASSUME SessionInvariant, NEW r \in 1 .. made, Connected(r)
    PROVE  ssh = r /\ ~ Gone(r)
<1>1. ssh = r /\ status = "Connected" /\ r \in Runtimes
    BY SessionAssumption DEF Connected, SessionInvariant, TypeOK, SessionTypes, Runtimes
<1> QED
    BY <1>1 DEF Gone, PastReading, ReconnectTasks, SessionInvariant, TaskOfRuntime

\* The runtime of a query under way.
LEMMA LeasedByQuery ==
    ASSUME SessionInvariant, QueryInvariant, NEW q \in Queries, query[q].at \in UnderWay
    PROVE  query[q].over \in 1 .. made /\ query[q] \in QueryRecords /\ HoldsFacts(query[q])
BY SessionAssumption DEF SessionInvariant, TypeOK, SessionTypes, QueryInvariant, QueryTypes,
    QueryRecords, QueriesLease, QueriesHoldFacts, NoRuntime

LEMMA AsksKeeps ==
    ASSUME SessionInvariant, QueryInvariant, NEW q \in Queries, NEW kind \in QueryKinds,
           Asks(q, kind)
    PROVE  QueryInvariant'
<1> DEFINE held == Facts[ssh] \ {"connected"}
           phase == IF kind = "tmux" THEN "checking" ELSE "asking"
           lit == kind = "health" /\ Screen(ssh)
           x == [Idle EXCEPT !.at = phase, !.kind = kind, !.over = ssh, !.lit = lit,
                             !.held = held]
<1>1. ssh \in Runtimes /\ ssh \in 0 .. made /\ made \in Nat /\ ssh # NoRuntime
    BY SessionAssumption DEF Asks, MayLease, SessionInvariant, TypeOK, SessionTypes, Runtimes,
        NoRuntime
<1>2. /\ held \subseteq {"registered", "screen"} /\ held \subseteq Facts[ssh] /\ "registered" \in held
      /\ Screen(ssh) => "screen" \in held
    BY <1>1 DEF Facts
<1>3. Idle \in QueryRecords /\ Idle.verdict = "none"
    BY <1>1 DEF Idle, QueryRecords, QueryKinds, NoRuntime
<1>4. phase \in {"checking", "asking"} /\ (kind = "tmux" => phase = "checking") /\ lit \in BOOLEAN
      /\ (lit => kind = "health")
    OBVIOUS
<1> HIDE DEF held, phase, lit
<1>5. /\ x \in QueryRecords
      /\ x.at = phase /\ x.kind = kind /\ x.over = ssh /\ x.lit = lit /\ x.held = held
      /\ x.verdict = "none"
    BY <1>1, <1>2, <1>3, <1>4 DEF QueryRecords, UnderWay
<1>6. HoldsFacts(x) /\ AnswerIsSteady(x) /\ x.over # NoRuntime
    BY <1>1, <1>2, <1>4, <1>5 DEF HoldsFacts, AnswerIsSteady, UnderWay
<1> HIDE DEF x
<1>7. query' = [query EXCEPT ![q] = x] /\ QueryFrame
    BY Zenon DEF Asks, Query, x, phase, lit, held
<1>8. UNCHANGED vars
    BY <1>7 DEF QueryFrame
<1> QED
    BY <1>5, <1>6, <1>7, <1>8, QueryMoves

LEMMA CheckKeeps ==
    ASSUME SessionInvariant, QueryInvariant, NEW q \in Queries, CheckHolds(q)
    PROVE  QueryInvariant'
<1>1. CASE ~ Connected(query[q].over)
    BY <1>1, FailureKeeps DEF CheckHolds
<1>2. CASE Connected(query[q].over)
  <2> PICK phase \in {"changing", "listing"} :
        Query(q, [query[q] EXCEPT !.at = phase, !.held = @ \cup {"connected"}])
    BY <1>2, Zenon DEF CheckHolds
  <2> DEFINE x == [query[q] EXCEPT !.at = phase, !.held = @ \cup {"connected"}]
  <2>1. /\ query[q].over \in 1 .. made /\ query[q] \in QueryRecords
        /\ HoldsFacts(query[q])
    BY LeasedByQuery DEF CheckHolds, UnderWay
  <2>2. /\ x \in QueryRecords
        /\ x.at = phase /\ x.over = query[q].over /\ x.kind = query[q].kind
        /\ x.lit = query[q].lit /\ x.verdict = query[q].verdict
        /\ x.held = query[q].held \cup {"connected"}
    BY <2>1 DEF QueryRecords, UnderWay
  <2> HIDE DEF x
  <2>6. "connected" \in Facts[query[q].over]
    BY <1>2, <2>1, SessionAssumption DEF Facts, Connected, Runtimes, SessionInvariant, TypeOK,
        SessionTypes
  <2>3. HoldsFacts(x) /\ AnswerIsSteady(x) /\ x.over # NoRuntime
    BY <2>1, <2>2, <2>6 DEF HoldsFacts, AnswerIsSteady, UnderWay, NoRuntime, CheckHolds
  <2> HIDE DEF x
  <2>4. query' = [query EXCEPT ![q] = x] /\ QueryFrame
    BY Zenon DEF Query, x
  <2>5. UNCHANGED vars
    BY <2>4 DEF QueryFrame
  <2> QED
    BY <2>2, <2>3, <2>4, <2>5, QueryMoves
<1> QED
    BY <1>1, <1>2

LEMMA HealthKeeps ==
    ASSUME SessionInvariant, QueryInvariant, NEW q \in Queries, HealthAnswers(q)
    PROVE  QueryInvariant'
<1> PICK v \in {"unresponsive"} \cup Probed(q) :
        Query(q, [query[q] EXCEPT !.at = "finishing", !.verdict = v, !.lit = FALSE])
    BY Zenon DEF HealthAnswers
<1> DEFINE x == [query[q] EXCEPT !.at = "finishing", !.verdict = v, !.lit = FALSE]
<1>1. /\ query[q].over \in 1 .. made /\ query[q] \in QueryRecords /\ HoldsFacts(query[q])
      /\ query[q].at = "asking" /\ query[q].kind = "health"
    BY LeasedByQuery DEF HealthAnswers, UnderWay
<1>2. v \in {"unresponsive", "degraded", "healthy"} /\ (v = "healthy" => query[q].lit)
    BY DEF Probed
<1>3. /\ x \in QueryRecords
      /\ x.at = "finishing" /\ x.over = query[q].over /\ x.kind = query[q].kind
      /\ ~ x.lit /\ x.verdict = v /\ x.held = query[q].held
    BY <1>1, <1>2 DEF QueryRecords, UnderWay
<1>4. HoldsFacts(x) /\ AnswerIsSteady(x) /\ x.over # NoRuntime
    BY <1>1, <1>2, <1>3 DEF HoldsFacts, AnswerIsSteady, UnderWay, NoRuntime
<1> HIDE DEF x
<1>5. query' = [query EXCEPT ![q] = x] /\ QueryFrame
    BY Zenon DEF Query, x
<1>6. UNCHANGED vars
    BY <1>5 DEF QueryFrame
<1> QED
    BY <1>3, <1>4, <1>5, <1>6, QueryMoves

\* An answer that is given where the loss that would forbid it is ruled out.
LEMMA AnswerKeeps ==
    ASSUME SessionInvariant, QueryInvariant, NEW q \in Queries, NEW x \in QueryRecords,
           query[q].at = "finishing", ssh = query[q].over,
           query' = [query EXCEPT ![q] = x], UNCHANGED vars,
           x.at = "answered", x.kind = query[q].kind, x.held = query[q].held,
           x.kind = "tmux" => ~ Gone(ssh),
           x.verdict = "healthy" => query[q].verdict = "healthy" /\ Screen(ssh)
    PROVE  QueryInvariant'
<1>1. query[q].over \in 1 .. made /\ HoldsFacts(query[q])
    BY LeasedByQuery DEF UnderWay
<1>2. HoldsFacts(x) /\ AnswerIsSteady(x) /\ x.at \notin UnderWay
    BY <1>1 DEF HoldsFacts, AnswerIsSteady, UnderWay
<1> QED
    BY <1>2, QueryMoves

\* A listing and a sample are no health report.
LEMMA PlainAnswerKeeps ==
    ASSUME SessionInvariant, QueryInvariant, NEW q \in Queries, At(q, "answered"),
           query[q].at = "finishing", query[q].kind # "health", ssh = query[q].over,
           query[q].kind = "tmux" => ~ Gone(ssh)
    PROVE  QueryInvariant'
<1> DEFINE x == [query[q] EXCEPT !.at = "answered"]
<1>1. query[q] \in QueryRecords /\ HoldsFacts(query[q])
    BY LeasedByQuery DEF UnderWay
<1>2. /\ x \in QueryRecords /\ x.at = "answered" /\ x.kind = query[q].kind
      /\ x.held = query[q].held /\ x.verdict = query[q].verdict
    BY <1>1 DEF QueryRecords
<1>3. x.verdict # "healthy"
    BY <1>1, <1>2 DEF HoldsFacts, UnderWay
<1> HIDE DEF x
<1>4. query' = [query EXCEPT ![q] = x] /\ QueryFrame
    BY Zenon DEF At, Query, x
<1>5. UNCHANGED vars
    BY <1>4 DEF QueryFrame
<1> QED
    BY <1>2, <1>3, <1>4, <1>5, AnswerKeeps

LEMMA FinishKeeps ==
    ASSUME SessionInvariant, QueryInvariant, NEW q \in Queries,
           FinishesTmux(q) \/ FinishesHealth(q) \/ CommitsSample(q)
    PROVE  QueryInvariant'
<1> DEFINE r == query[q].over
<1>1. r \in 1 .. made /\ query[q] \in QueryRecords /\ query[q].at = "finishing"
  <2>1. query[q].at = "finishing"
    BY Zenon DEF FinishesTmux, FinishesHealth, CommitsSample
  <2> QED
    BY <2>1, LeasedByQuery DEF UnderWay
<1>2. CASE Fails(q)
    BY <1>2, FailureKeeps
<1>3. CASE FinishesTmux(q) /\ Connected(r)
  <2>1. At(q, "answered") /\ query[q].kind = "tmux"
    BY <1>3, Zenon DEF FinishesTmux
  <2>2. ssh = r /\ ~ Gone(ssh)
    BY <1>1, <1>3, ConnectedFacts
  <2> QED
    BY <1>1, <2>1, <2>2, PlainAnswerKeeps
<1>4. CASE CommitsSample(q) /\ ~ Fails(q)
  <2>1. At(q, "answered") /\ query[q].kind = "sample" /\ ssh = r
    BY <1>4, Zenon DEF CommitsSample, SampleIsOfTarget
  <2> QED
    BY <1>1, <2>1, PlainAnswerKeeps
<1>5. CASE FinishesHealth(q) /\ ssh = r
  <2> DEFINE v == Verdict(q)
             x == [query[q] EXCEPT !.at = "answered", !.verdict = v]
  <2>1. /\ v \in {"none", "healthy", "degraded", "unresponsive"}
        /\ v = "healthy" => query[q].verdict = "healthy" /\ Screen(r)
    BY <1>1 DEF Verdict, QueryRecords
  <2>2. query[q].kind = "health" /\ Query(q, x)
    BY <1>5, Zenon DEF FinishesHealth
  <2> HIDE DEF v
  <2>3. /\ x \in QueryRecords /\ x.at = "answered" /\ x.kind = query[q].kind
        /\ x.held = query[q].held /\ x.verdict = v
    BY <1>1, <2>1 DEF QueryRecords
  <2> HIDE DEF x
  <2>4. query' = [query EXCEPT ![q] = x] /\ QueryFrame
    BY <2>2, Zenon DEF Query
  <2>5. UNCHANGED vars
    BY <2>4 DEF QueryFrame
  <2> QED
    BY <1>1, <1>5, <2>1, <2>2, <2>3, <2>4, <2>5, AnswerKeeps
<1> QED
    BY <1>2, <1>3, <1>4, <1>5, Zenon DEF FinishesTmux, FinishesHealth, CommitsSample

LEMMA QueryStepKeeps ==
    ASSUME SessionInvariant, QueryInvariant, NEW q \in Queries,
           QueryStep(q) \/ \E k \in QueryKinds : Asks(q, k)
    PROVE  QueryInvariant'
<1>1. CASE Fails(q)
    BY <1>1, FailureKeeps
<1>2. CASE (ChangeAnswers(q) \/ Records(q) \/ ListAnswers(q) \/ SampleIsTaken(q)) /\ ~ Fails(q)
  <2>1. /\ query[q].at \in UnderWay \ {"checking"}
        /\ \E phase \in UnderWay : At(q, phase)
    BY <1>2, Zenon DEF ChangeAnswers, Records, ListAnswers, SampleIsTaken, UnderWay
  <2> QED
    BY <2>1, PhaseKeeps
<1>3. CASE CheckHolds(q)
    BY <1>3, CheckKeeps
<1>4. CASE HealthAnswers(q)
    BY <1>4, HealthKeeps
<1>5. CASE FinishesTmux(q) \/ FinishesHealth(q) \/ CommitsSample(q)
    BY <1>5, FinishKeeps
<1>6. CASE \E k \in QueryKinds : Asks(q, k)
    BY <1>6, AsksKeeps
<1> QED
    BY <1>1, <1>2, <1>3, <1>4, <1>5, <1>6, Zenon DEF QueryStep

\* The session takes a step, and the queries under way hold what still holds.
LEMMA SessionKeepsQueries ==
    ASSUME SessionInvariant, QueryInvariant, SessionStep(Next)
    PROVE  QueryInvariant'
<1> USE SessionAssumption
<1>1. Next
    BY Zenon DEF SessionStep
<1>2. SessionInvariant'
    BY <1>1, NextKeeps
<1>3. made \in Nat /\ made' \in Nat /\ made <= made'
    BY <1>1, <1>2, RuntimesGoOn DEF SessionInvariant, TypeOK, SessionTypes
<1>4. \A q \in Queries :
        query'[q] = IF query[q].at \in UnderWay
                    THEN [query[q] EXCEPT !.held = @ \cap Facts'[query[q].over]]
                    ELSE query[q]
    BY DEF SessionStep
<1> DEFINE Kept(q) ==
             /\ query'[q] \in QueryRecords'
             /\ query'[q].at = query[q].at /\ query'[q].over = query[q].over
             /\ HoldsFacts(query[q])'
             /\ AnswerIsSteady(query[q])'
<1>6. ASSUME NEW q \in Queries, query[q].at \notin UnderWay
      PROVE  Kept(q)
  <2>1. query'[q] = query[q] /\ query[q] \in QueryRecords /\ AnswerIsSteady(query[q])
    BY <1>4, <1>6 DEF QueryInvariant, QueryTypes, AnswersAreSteady
  <2> QED
    BY <1>3, <1>6, <2>1 DEF QueryRecords, HoldsFacts, AnswerIsSteady
<1>7. ASSUME NEW q \in Queries, query[q].at \in UnderWay
      PROVE  Kept(q)
  <2>0. PICK r \in 1 .. made : r = query[q].over
    BY <1>7, LeasedByQuery
  <2> DEFINE x == [query[q] EXCEPT !.held = @ \cap Facts'[r]]
  <2>1. query[q] \in QueryRecords /\ HoldsFacts(query[q]) /\ r = query[q].over
    BY <1>7, <2>0, LeasedByQuery
  <2>2. r \in Runtimes /\ r \in 1 .. made'
    BY <1>2, <1>3, <2>1 DEF SessionInvariant, TypeOK, SessionTypes, Runtimes
  <2>3. /\ x \in QueryRecords' /\ x.at = query[q].at /\ x.over = r /\ x.kind = query[q].kind
        /\ x.lit = query[q].lit /\ x.verdict = query[q].verdict
        /\ x.held = query[q].held \cap Facts'[r]
    BY <1>3, <2>1, <2>2 DEF QueryRecords
  <2>4. query'[q] = x
    BY <1>4, <1>7, <2>1
  <2> HIDE DEF x
  <2>5. /\ Gone(r) => Gone(r)'
        /\ Connected(r) => Connected(r)' \/ Gone(r)'
        /\ ssh # r => ssh' # r
        /\ Screen(r)' => Screen(r)
    BY <1>1, GoneIsLasting
  <2>6. \A f \in {"registered", "connected", "screen"} :
          /\ f \in Facts[r] <=> /\ ssh = r
                                /\ f = "connected" => Connected(r)
                                /\ f = "screen" => Screen(r)
          /\ f \in Facts'[r] <=> /\ ssh' = r
                                 /\ f = "connected" => Connected(r)'
                                 /\ f = "screen" => Screen(r)'
    BY <2>2 DEF Facts
  <2>7. "registered" \in x.held \/ ssh' # r
    BY <1>7, <2>1, <2>3, <2>5, <2>6 DEF HoldsFacts
  <2>8. ASSUME x.kind = "tmux", x.at # "checking", ~ Gone(r)'
        PROVE  "connected" \in x.held
    <3>1. "connected" \in query[q].held
      BY <1>7, <2>1, <2>3, <2>5, <2>8 DEF HoldsFacts
    <3>2. Connected(r)
      BY <1>7, <2>1, <2>6, <3>1 DEF HoldsFacts
    <3>3. ssh' = r
      BY <2>8 DEF Gone
    <3> QED
      BY <2>3, <2>5, <2>6, <2>8, <3>1, <3>2, <3>3
  <2>9. x.lit \/ x.verdict = "healthy" =>
          x.kind = "health" /\ ("screen" \in x.held \/ ssh' # r \/ ~ Screen(r)')
    BY <1>7, <2>1, <2>3, <2>5, <2>6 DEF HoldsFacts
  <2>10. HoldsFacts(query[q])' /\ AnswerIsSteady(query[q])'
    <3>1. query[q]' = x /\ x.held \subseteq Facts'[r]
      BY <2>3, <2>4
    <3> QED
      BY <1>7, <2>1, <2>3, <2>7, <2>8, <2>9, <3>1 DEF HoldsFacts, AnswerIsSteady, UnderWay
  <2> QED
    BY <2>1, <2>3, <2>4, <2>10
<1>8. \A q \in Queries : Kept(q)
    BY <1>6, <1>7
<1>9. query' = [q \in Queries |-> query'[q]]
    BY DEF SessionStep
<1> QED
    BY <1>8, <1>9 DEF QueryInvariant, QueryTypes, QueriesLease, QueriesHoldFacts,
        AnswersAreSteady

-----------------------------------------------------------------------------
(* Watchers. *)

\* The queries do not look at the watchers, nor the watchers at the queries.
LEMMA QueriesRest ==
    ASSUME QueryInvariant, UNCHANGED <<vars, query>>
    PROVE  QueryInvariant'
<1>1. UNCHANGED <<ssh, task, made, closed, status>>
    BY DEF vars, sessionVars, taskVars
<1>2. Facts' = Facts
    BY <1>1 DEF Facts, Connected, Screen
<1> QED
    BY <1>1, <1>2 DEF QueryInvariant, QueryTypes, QueryRecords, QueriesLease, QueriesHoldFacts,
        HoldsFacts, Gone, Screen, AnswersAreSteady, AnswerIsSteady

\* The session goes on, or rests, and the watchers rest.
LEMMA WatchersRest ==
    ASSUME SessionInvariant, WatchInvariant, [Next]_vars, UNCHANGED watchVars
    PROVE  WatchInvariant'
<1>1. SessionInvariant' /\ made <= made'
    BY NextKeeps, RuntimesGoOn
<1>2. made \in Nat /\ made' \in Nat
    BY <1>1 DEF SessionInvariant, TypeOK, SessionTypes
<1>3. WatchTypes'
    BY <1>1, <1>2 DEF WatchInvariant, WatchTypes, WatchRecords, watchVars
<1>4. StartsLease' /\ WatchersAreListed'
    BY DEF WatchInvariant, StartsLease, WatchersAreListed, watchVars
<1>5. \A w \in Starts :
        watch[w].at = "opening" => (Gone(watch[w].over) => Gone(watch[w].over)')
  <2> SUFFICES ASSUME NEW w \in Starts, watch[w].at = "opening"
               PROVE  Gone(watch[w].over) => Gone(watch[w].over)'
    OBVIOUS
  <2>1. PICK r \in 1 .. made : r = watch[w].over
    BY <1>2 DEF WatchInvariant, WatchTypes, WatchRecords, StartsLease, LeasePhases, NoRuntime
  <2>2. Gone(r) => Gone(r)'
    BY GoneIsLasting
  <2>3. watch[w]' = watch[w]
    BY DEF watchVars
  <2> QED
    BY <2>1, <2>2, <2>3 DEF Gone
<1>6. RivalsAreCurrent'
    BY <1>5 DEF WatchInvariant, RivalsAreCurrent, watchVars
<1> QED
    BY <1>3, <1>4, <1>6 DEF WatchInvariant

\* The watchers stay where they are; flags are set, changes come and go.
LEMMA FlagsKeep ==
    ASSUME WatchInvariant, UNCHANGED vars, watch' = watch, controls' = controls,
           cancelled \subseteq cancelled', cancelled' \subseteq Starts, news' \subseteq Starts
    PROVE  WatchInvariant'
<1>1. UNCHANGED <<ssh, task, made>>
    BY DEF vars, sessionVars, taskVars
<1>2. WatchTypes' /\ StartsLease'
    BY <1>1 DEF WatchInvariant, WatchTypes, WatchRecords, StartsLease
<1>3. WatchersAreListed'
    BY DEF WatchInvariant, WatchersAreListed
<1>4. RivalsAreCurrent'
    BY <1>1 DEF WatchInvariant, RivalsAreCurrent, Gone
<1> QED
    BY <1>2, <1>3, <1>4 DEF WatchInvariant

\* A start moves that has no watcher yet, or no longer.
LEMMA StartMoves ==
    ASSUME WatchInvariant, UNCHANGED vars, NEW w \in Starts, NEW x \in WatchRecords,
           watch' = [watch EXCEPT ![w] = x], controls' = controls, news' = news,
           cancelled \subseteq cancelled', cancelled' \subseteq Starts,
           watch[w].at \notin LivePhases, x.at \notin LivePhases,
           x.at \in LeasePhases => x.over # NoRuntime,
           x.at = "opening" /\ controls[x.target] \notin cancelled' \cup {Nobody} =>
               watch[controls[x.target]].over = x.over \/ Gone(x.over)
    PROVE  WatchInvariant'
<1> USE AuxiliaryAssumption
<1>1. UNCHANGED <<ssh, task, made>>
    BY DEF vars, sessionVars, taskVars
<1>2. \A v \in Starts : watch'[v] = IF v = w THEN x ELSE watch[v]
    BY DEF WatchInvariant, WatchTypes
<1>3. \A t \in Targets : controls[t] # w /\ (controls[t] # Nobody => controls[t] \in Starts)
    BY DEF WatchInvariant, WatchTypes, WatchersAreListed
<1>4. WatchTypes'
    BY <1>1 DEF WatchInvariant, WatchTypes, WatchRecords
<1>5. StartsLease'
    BY <1>2 DEF WatchInvariant, StartsLease
<1>6. WatchersAreListed'
    BY <1>2, <1>3 DEF WatchInvariant, WatchersAreListed, LivePhases
<1>7. RivalsAreCurrent'
  <2> SUFFICES ASSUME NEW v \in Starts, NEW y, y = watch'[v], y.at = "opening",
                      controls[y.target] \notin cancelled' \cup {Nobody}
               PROVE  watch'[controls[y.target]].over = y.over \/ Gone(y.over)
    BY <1>1 DEF RivalsAreCurrent, Gone
  <2>1. y \in WatchRecords
    BY <1>2 DEF WatchInvariant, WatchTypes
  <2>2. watch'[controls[y.target]] = watch[controls[y.target]]
    BY <1>2, <1>3, <2>1 DEF WatchRecords
  <2>3. watch[controls[y.target]].over = y.over \/ Gone(y.over)
    BY <1>2 DEF WatchInvariant, RivalsAreCurrent
  <2> QED
    BY <2>2, <2>3
<1> QED
    BY <1>4, <1>5, <1>6, <1>7 DEF WatchInvariant

\* A watcher moves and stays one of its target and its runtime.
LEMMA WatcherMoves ==
    ASSUME WatchInvariant, UNCHANGED vars, NEW w \in Starts, NEW x \in WatchRecords,
           watch' = [watch EXCEPT ![w] = x], controls' = controls,
           cancelled \subseteq cancelled', cancelled' \subseteq Starts, news' \subseteq Starts,
           watch[w].at \in LivePhases, x.at \in LivePhases,
           x.at = "replacing" => watch[w].at = "replacing",
           x.at = "running" => watch[w].at \in {"replacing", "running"},
           x.target = watch[w].target, x.over = watch[w].over
    PROVE  WatchInvariant'
<1> USE AuxiliaryAssumption
<1>1. UNCHANGED <<ssh, task, made>>
    BY DEF vars, sessionVars, taskVars
<1>2. \A v \in Starts : watch'[v] = IF v = w THEN x ELSE watch[v]
    BY DEF WatchInvariant, WatchTypes
<1>3. \A v \in Starts : watch'[v].target = watch[v].target /\ watch'[v].over = watch[v].over
    BY <1>2
<1>4. WatchTypes'
    BY <1>1 DEF WatchInvariant, WatchTypes, WatchRecords
<1>5. StartsLease'
    BY <1>2 DEF WatchInvariant, StartsLease, LeasePhases
<1>6. WatchersAreListed'
    BY <1>2, <1>3 DEF WatchInvariant, WatchTypes, WatchersAreListed
<1>7. RivalsAreCurrent'
  <2>1. \A v \in Starts : watch'[v].at = "opening" => watch[v].at = "opening"
    BY <1>2 DEF LivePhases
  <2>2. \A v \in Starts : watch[v].target \in Targets
    BY DEF WatchInvariant, WatchTypes, WatchRecords
  <2>3. \A t \in Targets : controls[t] # Nobody => controls[t] \in Starts
    BY DEF WatchInvariant, WatchTypes
  <2> QED
    BY <1>1, <1>3, <2>1, <2>2, <2>3 DEF WatchInvariant, RivalsAreCurrent, Gone
<1> QED
    BY <1>4, <1>5, <1>6, <1>7 DEF WatchInvariant

LEMMA CancelledGrows ==
    ASSUME WatchInvariant, NEW W
    PROVE  /\ cancelled \subseteq Cancelled(W) /\ Cancelled(W) \subseteq Starts
           /\ \A w \in W \cap Starts : watch[w].at \in LivePhases => w \in Cancelled(W)
BY DEF WatchInvariant, WatchTypes, Cancelled

\* What every step of a start or a watcher has at hand.
LEMMA StartFacts ==
    ASSUME SessionInvariant, WatchInvariant, NEW w \in Starts
    PROVE  /\ made \in Nat /\ ssh \in 0 .. made
           /\ watch[w] \in WatchRecords
           /\ Done \in WatchRecords /\ Done.at = "done"
           /\ Start("slots", watch[w].target, NoRuntime, Nobody) \in WatchRecords
<1>1. made \in Nat /\ ssh \in 0 .. made
    BY SessionAssumption DEF SessionInvariant, TypeOK, SessionTypes
<1>2. watch[w] \in WatchRecords /\ watch[w].target \in Targets
    BY DEF WatchInvariant, WatchTypes, WatchRecords
<1>3. SomeTarget \in Targets
    BY <1>2 DEF SomeTarget
<1>4. NotStarted \in WatchRecords
    BY <1>1, <1>3 DEF NotStarted, Start, WatchRecords, WatchPhases, NoRuntime
<1>5. Done \in WatchRecords /\ Done.at = "done"
    BY <1>4 DEF Done, WatchRecords, WatchPhases
<1>6. Start("slots", watch[w].target, NoRuntime, Nobody) \in WatchRecords
    BY <1>1, <1>2 DEF Start, WatchRecords, WatchPhases, NoRuntime
<1> QED
    BY <1>1, <1>2, <1>5, <1>6

\* A start gives up.
LEMMA GivesUp ==
    ASSUME SessionInvariant, WatchInvariant, NEW w \in Starts, To(w, Done),
           watch[w].at \notin LivePhases, UNCHANGED <<controls, cancelled, news, vars>>
    PROVE  WatchInvariant'
<1>1. watch' = [watch EXCEPT ![w] = Done] /\ cancelled' \subseteq Starts
    BY DEF To, WatchInvariant, WatchTypes
<1>2. Done \in WatchRecords /\ Done.at = "done"
    BY StartFacts
<1>3. Done.at \notin LivePhases \cup LeasePhases
    BY <1>2 DEF LivePhases, LeasePhases
<1> QED
    BY <1>1, <1>2, <1>3, StartMoves

LEMMA LookupKeeps ==
    ASSUME SessionInvariant, WatchInvariant, NEW w \in Starts, NEW t \in Targets, Lookup(w, t)
    PROVE  WatchInvariant'
<1> DEFINE e == controls[t]
<1>1. /\ watch[w].at = "idle" /\ watch[w].at \notin LivePhases
      /\ UNCHANGED <<controls, cancelled, news, vars>>
    BY DEF Lookup, LivePhases, WatchFrame
<1>2. CASE To(w, Done)
    BY <1>1, <1>2, GivesUp
<1>3. ASSUME NEW x \in WatchRecords, To(w, x), x.at \in {"found", "slots"}
      PROVE  WatchInvariant'
  <2>1. watch' = [watch EXCEPT ![w] = x] /\ cancelled' \subseteq Starts
    BY <1>1, <1>3 DEF To, WatchInvariant, WatchTypes
  <2>2. x.at \notin LivePhases \cup LeasePhases
    BY <1>3 DEF LivePhases, LeasePhases
  <2> QED
    BY <1>1, <1>3, <2>1, <2>2, StartMoves
<1>4. CASE e \notin cancelled \cup {Nobody} /\ To(w, Start("found", t, watch[e].over, e))
  <2>1. e \in Starts /\ watch[e].over \in 0 .. made
    BY <1>4 DEF WatchInvariant, WatchTypes, WatchRecords
  <2>2. /\ Start("found", t, watch[e].over, e) \in WatchRecords
        /\ Start("found", t, watch[e].over, e).at = "found"
    BY <2>1 DEF Start, WatchRecords, WatchPhases
  <2> QED
    BY <1>3, <1>4, <2>2
<1>5. CASE To(w, Start("slots", t, NoRuntime, Nobody))
  <2>1. made \in Nat
    BY StartFacts
  <2>2. /\ Start("slots", t, NoRuntime, Nobody) \in WatchRecords
        /\ Start("slots", t, NoRuntime, Nobody).at = "slots"
    BY <2>1 DEF Start, WatchRecords, WatchPhases, NoRuntime
  <2> QED
    BY <1>3, <1>5, <2>2
<1> QED
    BY <1>2, <1>4, <1>5, Zenon DEF Lookup

LEMMA JoinsKeeps ==
    ASSUME SessionInvariant, WatchInvariant, NEW w \in Starts, Joins(w)
    PROVE  WatchInvariant'
<1>1. watch[w].at = "found" /\ watch[w].at \notin LivePhases /\ UNCHANGED <<controls, news, vars>>
    BY DEF Joins, LivePhases, WatchFrame
<1>2. CASE Connected(watch[w].over)
    BY <1>1, <1>2, GivesUp DEF Joins
<1>3. CASE ~ Connected(watch[w].over)
  <2> DEFINE x == Start("slots", watch[w].target, NoRuntime, Nobody)
  <2>1. watch' = [watch EXCEPT ![w] = x] /\ cancelled' = Cancelled({watch[w].former})
    BY <1>3 DEF Joins, To
  <2>2. x \in WatchRecords /\ x.at = "slots" /\ x.at \notin LivePhases \cup LeasePhases
    BY StartFacts DEF Start, LivePhases, LeasePhases
  <2>3. cancelled \subseteq cancelled' /\ cancelled' \subseteq Starts
    BY <2>1, CancelledGrows
  <2> HIDE DEF x
  <2> QED
    BY <1>1, <2>1, <2>2, <2>3, StartMoves
<1> QED
    BY <1>2, <1>3

LEMMA LeasesKeeps ==
    ASSUME SessionInvariant, WatchInvariant, NEW w \in Starts, Leases(w)
    PROVE  WatchInvariant'
<1>1. /\ watch[w].at = "slots" /\ watch[w].at \notin LivePhases
      /\ UNCHANGED <<controls, cancelled, news, vars>>
    BY DEF Leases, LivePhases, WatchFrame
<1>2. CASE To(w, Done)
    BY <1>1, <1>2, GivesUp
<1>3. CASE MayLease /\ To(w, [watch[w] EXCEPT !.at = "looking", !.over = ssh])
  <2> DEFINE x == [watch[w] EXCEPT !.at = "looking", !.over = ssh]
  <2>1. x \in WatchRecords /\ x.at = "looking" /\ x.over = ssh
    BY StartFacts DEF WatchRecords, WatchPhases, LeasePhases
  <2>2. x.at \notin LivePhases /\ x.over # NoRuntime
    BY <1>3, <2>1 DEF LivePhases, MayLease
  <2>3. watch' = [watch EXCEPT ![w] = x] /\ cancelled' \subseteq Starts
    BY <1>1, <1>3 DEF To, WatchInvariant, WatchTypes
  <2> HIDE DEF x
  <2> QED
    BY <1>1, <2>1, <2>2, <2>3, StartMoves
<1> QED
    BY <1>2, <1>3, Zenon DEF Leases

LEMMA LooksAgainKeeps ==
    ASSUME SessionInvariant, WatchInvariant, NEW w \in Starts, LooksAgain(w)
    PROVE  WatchInvariant'
<1> DEFINE e == controls[watch[w].target]
           runs == e \notin cancelled \cup {Nobody}
           x == [watch[w] EXCEPT !.at = "opening"]
<1>1. /\ watch[w].at = "looking" /\ watch[w].at \notin LivePhases
      /\ UNCHANGED <<controls, news, vars>>
    BY DEF LooksAgain, LivePhases, WatchFrame
<1>2. CASE To(w, Done) /\ UNCHANGED cancelled
    BY <1>1, <1>2, GivesUp
<1>3. CASE Phase(w, "opening") /\ cancelled' = IF runs THEN Cancelled({e}) ELSE cancelled
  <2>1. watch' = [watch EXCEPT ![w] = x]
    BY <1>3 DEF Phase, To
  <2>2. /\ x \in WatchRecords /\ x.at = "opening" /\ x.target = watch[w].target
        /\ x.over = watch[w].over
    BY StartFacts DEF WatchRecords, WatchPhases, LeasePhases
  <2>3. x.at \notin LivePhases /\ x.over # NoRuntime
    BY <1>1, <2>2 DEF LivePhases, LeasePhases, WatchInvariant, StartsLease
  <2>4. cancelled \subseteq cancelled' /\ cancelled' \subseteq Starts
    BY <1>3, CancelledGrows DEF WatchInvariant, WatchTypes
  <2>5. e \in cancelled' \cup {Nobody}
    <3>1. watch[w].target \in Targets
      BY StartFacts DEF WatchRecords
    <3>2. e # Nobody => e \in Starts /\ watch[e].at \in LivePhases
      BY <3>1 DEF WatchInvariant, WatchTypes, WatchersAreListed
    <3> QED
      BY <1>3, <2>4, <3>2, CancelledGrows
  <2> HIDE DEF x
  <2> QED
    BY <1>1, <2>1, <2>2, <2>3, <2>4, <2>5, StartMoves
<1> QED
    BY <1>2, <1>3, Zenon DEF LooksAgain

\* The new watcher takes the place of one that is cancelled, for none runs on
\* another runtime while this one is connected.
LEMMA InstallsKeeps ==
    ASSUME SessionInvariant, WatchInvariant, NEW w \in Starts, Installs(w)
    PROVE  WatchInvariant'
<1> USE AuxiliaryAssumption
<1> DEFINE t == watch[w].target
           e == controls[t]
           existing == e \notin cancelled \cup {Nobody} /\ watch[e].over = watch[w].over
           phase == IF e = Nobody THEN "running" ELSE "replacing"
           x == [watch[w] EXCEPT !.at = phase, !.former = e]
<1>1. /\ watch[w].at = "opening" /\ watch[w].at \notin LivePhases
      /\ UNCHANGED <<cancelled, news, vars>>
    BY DEF Installs, LivePhases, WatchFrame
<1>2. CASE To(w, Done) /\ UNCHANGED controls
    BY <1>1, <1>2, GivesUp
<1>3. CASE /\ Connected(watch[w].over) /\ ~ existing
           /\ To(w, x) /\ controls' = [controls EXCEPT ![t] = w]
  <2>1. /\ t \in Targets /\ e \in Starts \cup {Nobody}
        /\ watch[w] \in WatchRecords /\ watch[w].over \in 1 .. made
    BY <1>1, StartFacts DEF WatchRecords, WatchInvariant, WatchTypes, StartsLease, LeasePhases,
        NoRuntime
  <2>2. phase \in {"running", "replacing"}
    OBVIOUS
  <2> HIDE DEF phase
  <2>3. /\ x \in WatchRecords /\ x.at = phase /\ x.target = t /\ x.over = watch[w].over
    BY <2>1, <2>2 DEF WatchRecords, WatchPhases, LeasePhases, LivePhases
  <2> HIDE DEF x
  <2>4. ssh = x.over /\ ~ Gone(x.over)
    BY <1>3, <2>1, <2>3, ConnectedFacts
  <2>5. e \in cancelled \cup {Nobody}
    BY <1>1, <1>3, <2>3, <2>4 DEF WatchInvariant, RivalsAreCurrent
  <2>6. UNCHANGED <<ssh, task, made>>
    BY <1>1 DEF vars, sessionVars, taskVars
  <2>7. \A v \in Starts : watch'[v] = IF v = w THEN x ELSE watch[v]
    BY <1>3 DEF To, WatchInvariant, WatchTypes
  <2>8. \A u \in Targets : controls'[u] = IF u = t THEN w ELSE controls[u]
    BY <1>3 DEF WatchInvariant, WatchTypes
  <2>9. \A u \in Targets : controls[u] # w /\ (controls[u] # Nobody => controls[u] \in Starts)
    BY <1>1 DEF WatchInvariant, WatchTypes, WatchersAreListed
  <2>10. WatchTypes'
    BY <1>1, <1>3, <2>1, <2>3, <2>6 DEF To, WatchInvariant, WatchTypes, WatchRecords
  <2>11. StartsLease'
    BY <1>1, <2>1, <2>3, <2>7 DEF WatchInvariant, StartsLease, NoRuntime
  <2>12. WatchersAreListed'
    <3>1. ASSUME NEW v \in Starts, watch'[v].at \in {"replacing", "running"},
                 v \notin cancelled'
          PROVE  controls'[watch'[v].target] = v
      <4>1. CASE v = w
        BY <2>1, <2>3, <2>7, <2>8, <4>1
      <4>2. CASE v # w
        <5>1. watch'[v] = watch[v] /\ watch[v].target \in Targets
          BY <2>7, <4>2 DEF WatchInvariant, WatchTypes, WatchRecords
        <5>2. controls[watch[v].target] = v
          BY <1>1, <3>1, <5>1 DEF WatchInvariant, WatchersAreListed
        <5>3. watch[v].target # t
          BY <1>1, <2>5, <3>1, <5>2, AuxiliaryAssumption
        <5> QED
          BY <2>8, <5>1, <5>2, <5>3
      <4> QED
        BY <4>1, <4>2
    <3>2. ASSUME NEW u \in Targets, controls'[u] # Nobody
          PROVE  watch'[controls'[u]].at \in LivePhases /\ watch'[controls'[u]].target = u
      <4>1. CASE u = t
        BY <2>2, <2>3, <2>7, <2>8, <4>1 DEF LivePhases
      <4>2. CASE u # t
        BY <2>7, <2>8, <2>9, <3>2, <4>2 DEF WatchInvariant, WatchersAreListed
      <4> QED
        BY <4>1, <4>2
    <3> QED
      BY <3>1, <3>2 DEF WatchersAreListed
  <2>13. RivalsAreCurrent'
    <3> SUFFICES ASSUME NEW v \in Starts, NEW y, y = watch'[v], y.at = "opening",
                        controls'[y.target] \notin cancelled \cup {Nobody}
                 PROVE  watch'[controls'[y.target]].over = y.over \/ Gone(y.over)
      BY <1>1, <2>6 DEF RivalsAreCurrent, Gone
    <3>1. v # w /\ y = watch[v] /\ y.target \in Targets
      BY <2>2, <2>3, <2>7 DEF WatchInvariant, WatchTypes, WatchRecords
    <3>2. CASE y.target = t
      BY <2>3, <2>4, <2>7, <2>8, <3>1, <3>2 DEF Gone
    <3>3. CASE y.target # t
      BY <2>7, <2>8, <2>9, <3>1, <3>3 DEF WatchInvariant, RivalsAreCurrent
    <3> QED
      BY <3>2, <3>3
  <2> QED
    BY <2>10, <2>11, <2>12, <2>13 DEF WatchInvariant
<1> QED
    BY <1>2, <1>3, Zenon DEF Installs, InstallsOver, MayInstallWatch

LEMMA WatcherStepKeeps ==
    ASSUME SessionInvariant, WatchInvariant, NEW w \in Starts, Replaces(w) \/ Ends(w)
    PROVE  WatchInvariant'
<1>0. watch[w] \in WatchRecords
    BY StartFacts
<1>1. CASE Replaces(w)
  <2> DEFINE x == [watch[w] EXCEPT !.at = "running", !.former = Nobody]
  <2>1. /\ watch' = [watch EXCEPT ![w] = x] /\ cancelled' = Cancelled({watch[w].former})
        /\ watch[w].at = "replacing" /\ UNCHANGED <<controls, news, vars>>
    BY <1>1 DEF Replaces, To, WatchFrame
  <2>2. /\ x \in WatchRecords /\ x.at = "running" /\ x.target = watch[w].target
        /\ x.over = watch[w].over
    BY <1>0 DEF WatchRecords, WatchPhases, LeasePhases, LivePhases
  <2> HIDE DEF x
  <2>3. watch[w].at \in LivePhases /\ x.at \in LivePhases
    BY <2>1, <2>2 DEF LivePhases
  <2>4. cancelled \subseteq cancelled' /\ cancelled' \subseteq Starts /\ news' \subseteq Starts
    BY <2>1, CancelledGrows DEF WatchInvariant, WatchTypes
  <2> QED
    BY <2>1, <2>2, <2>3, <2>4, WatcherMoves
<1>2. CASE Ends(w)
  <2> DEFINE x == [watch[w] EXCEPT !.at = "closing"]
  <2>1. /\ watch' = [watch EXCEPT ![w] = x] /\ news' = news \ {w}
        /\ watch[w].at = "running" /\ UNCHANGED <<controls, cancelled, vars>>
    BY <1>2 DEF Ends, EndsLoud, Phase, To, WatchFrame
  <2>2. /\ x \in WatchRecords /\ x.at = "closing" /\ x.target = watch[w].target
        /\ x.over = watch[w].over
    BY <1>0 DEF WatchRecords, WatchPhases, LeasePhases, LivePhases
  <2> HIDE DEF x
  <2>3. watch[w].at \in LivePhases /\ x.at \in LivePhases
    BY <2>1, <2>2 DEF LivePhases
  <2>4. cancelled \subseteq cancelled' /\ cancelled' \subseteq Starts /\ news' \subseteq Starts
    BY <2>1 DEF WatchInvariant, WatchTypes
  <2> QED
    BY <2>1, <2>2, <2>3, <2>4, WatcherMoves
<1> QED
    BY <1>1, <1>2

\* A watcher that ends takes off its own entry only, and its flag with it.
LEMMA UnregistersKeeps ==
    ASSUME SessionInvariant, WatchInvariant, NEW w \in Starts, Unregisters(w)
    PROVE  WatchInvariant'
<1> USE AuxiliaryAssumption
<1>1. /\ watch' = [watch EXCEPT ![w] = Done]
      /\ controls' = [controls EXCEPT ![watch[w].target] = IF @ = w THEN Nobody ELSE @]
      /\ cancelled' = cancelled \ {w} /\ UNCHANGED <<news, vars>>
    BY DEF Unregisters, To, Unregistered, WatchFrame
<1>2. UNCHANGED <<ssh, task, made>>
    BY <1>1 DEF vars, sessionVars, taskVars
<1>3. watch[w] \in WatchRecords /\ Done \in WatchRecords /\ Done.at = "done"
    BY StartFacts
<1>4. \A v \in Starts : watch'[v] = IF v = w THEN Done ELSE watch[v]
    BY <1>1 DEF WatchInvariant, WatchTypes
<1>5. ASSUME NEW u \in Targets
      PROVE  /\ controls'[u] \in {controls[u], Nobody} /\ controls'[u] # w
             /\ controls[u] # w => controls'[u] = controls[u]
             /\ controls[u] \in Starts \cup {Nobody}
  <2>1. controls[u] = w => watch[w].target = u
    BY DEF WatchInvariant, WatchersAreListed
  <2>2. /\ controls[u] \in Starts \cup {Nobody}
        /\ controls'[u] = IF u = watch[w].target /\ controls[u] = w THEN Nobody ELSE controls[u]
    BY <1>1, <1>3 DEF WatchInvariant, WatchTypes, WatchRecords
  <2> QED
    BY <2>1, <2>2
<1>6. WatchTypes'
  <2>1. controls' \in [Targets -> Starts \cup {Nobody}]
    BY <1>1, <1>3 DEF WatchInvariant, WatchTypes, WatchRecords
  <2> QED
    BY <1>1, <1>2, <1>3, <2>1 DEF WatchInvariant, WatchTypes, WatchRecords
<1>7. StartsLease'
    BY <1>3, <1>4 DEF WatchInvariant, StartsLease, LeasePhases, LivePhases
<1>8. WatchersAreListed'
  <2>1. ASSUME NEW v \in Starts, watch'[v].at \in {"replacing", "running"},
               v \notin cancelled'
        PROVE  controls'[watch'[v].target] = v
    <3>1. v # w /\ watch'[v] = watch[v] /\ watch[v].target \in Targets
      BY <1>3, <1>4, <2>1 DEF WatchInvariant, WatchTypes, WatchRecords
    <3>2. controls[watch[v].target] = v
      BY <1>1, <2>1, <3>1 DEF WatchInvariant, WatchersAreListed
    <3> QED
      BY <1>5, <3>1, <3>2
  <2>2. ASSUME NEW u \in Targets, controls'[u] # Nobody
        PROVE  watch'[controls'[u]].at \in LivePhases /\ watch'[controls'[u]].target = u
    <3>1. controls'[u] = controls[u] /\ controls[u] # w /\ controls[u] \in Starts
      BY <1>5, <2>2
    <3> QED
      BY <1>4, <2>2, <3>1 DEF WatchInvariant, WatchersAreListed
  <2> QED
    BY <2>1, <2>2 DEF WatchersAreListed
<1>9. RivalsAreCurrent'
  <2> SUFFICES ASSUME NEW v \in Starts, NEW y, y = watch'[v], y.at = "opening",
                      controls'[y.target] \notin cancelled' \cup {Nobody}
               PROVE  watch'[controls'[y.target]].over = y.over \/ Gone(y.over)
    BY <1>2 DEF RivalsAreCurrent, Gone
  <2>1. v # w /\ y = watch[v] /\ y.target \in Targets
    BY <1>3, <1>4 DEF WatchInvariant, WatchTypes, WatchRecords
  <2>2. /\ controls'[y.target] = controls[y.target]
        /\ controls[y.target] \in Starts \ {w} /\ controls[y.target] \notin cancelled
    BY <1>1, <1>5, <2>1
  <2> QED
    BY <1>4, <2>1, <2>2 DEF WatchInvariant, RivalsAreCurrent
<1> QED
    BY <1>6, <1>7, <1>8, <1>9 DEF WatchInvariant

\* Everything is taken off, and all that was registered is cancelled.
LEMMA ShutdownKeeps ==
    ASSUME WatchInvariant, Shutdown
    PROVE  WatchInvariant'
<1> USE AuxiliaryAssumption
<1>1. /\ controls' = [t \in Targets |-> Nobody] /\ cancelled' = Cancelled(Registry)
      /\ UNCHANGED <<watch, news, vars>>
    BY DEF Shutdown, CancelOnly, WatchFrame
<1>2. cancelled \subseteq cancelled' /\ cancelled' \subseteq Starts
    BY <1>1, CancelledGrows
<1>3. WatchTypes' /\ StartsLease'
    BY <1>1, <1>2 DEF WatchInvariant, WatchTypes, WatchRecords, StartsLease, vars, sessionVars
<1>4. \A v \in Starts :
        watch[v].at \in {"replacing", "running"} => v \in cancelled'
  <2> SUFFICES ASSUME NEW v \in Starts, watch[v].at \in {"replacing", "running"},
                      v \notin cancelled
               PROVE  v \in cancelled'
    BY <1>2
  <2>1. watch[v].target \in Targets /\ controls[watch[v].target] = v
    BY DEF WatchInvariant, WatchTypes, WatchRecords, WatchersAreListed
  <2>2. v \in Registry /\ watch[v].at \in LivePhases
    BY <2>1 DEF Registry, LivePhases
  <2> QED
    BY <1>1, <2>2, CancelledGrows
<1>5. WatchersAreListed' /\ RivalsAreCurrent'
  <2>1. \A v \in Starts : watch[v].target \in Targets
    BY DEF WatchInvariant, WatchTypes, WatchRecords
  <2> QED
    BY <1>1, <1>4, <2>1 DEF WatchersAreListed, RivalsAreCurrent
<1> QED
    BY <1>3, <1>5 DEF WatchInvariant

LEMMA CancelsKeep ==
    ASSUME WatchInvariant,
           \/ \E c \in Callers : CloseCancels(c)
           \/ \E t \in Targets : StopsOne(t)
           \/ StopsAll
           \/ \E w \in Starts : Hears(w) \/ Tells(w)
    PROVE  WatchInvariant'
<1>1. CASE \E w \in Starts : Hears(w) \/ Tells(w)
    BY <1>1, FlagsKeep DEF Hears, Tells, WatchFrame, WatchInvariant, WatchTypes
<1>2. ASSUME NEW W, cancelled' = Cancelled(W), UNCHANGED <<vars, controls, watch, news>>
      PROVE  WatchInvariant'
    BY <1>2, CancelledGrows, FlagsKeep DEF WatchInvariant, WatchTypes
<1>3. CASE \E c \in Callers : CloseCancels(c)
    BY <1>2, <1>3 DEF CloseCancels
<1>4. CASE StopsAll \/ \E t \in Targets : StopsOne(t)
    BY <1>2, <1>4 DEF StopsAll, StopsOne, CancelOnly, WatchFrame
<1> QED
    BY <1>1, <1>2, <1>3, <1>4

-----------------------------------------------------------------------------
(* The whole. *)

LEMMA AuxInitKeeps == AuxInit => AuxInvariant
<1> SUFFICES ASSUME AuxInit PROVE AuxInvariant
    OBVIOUS
<1>1. SessionInvariant /\ made = 0
    BY InitKeeps DEF AuxInit, Init
<1>2. NotStarted \in WatchRecords /\ NotStarted.at = "idle"
  <2>1. SomeTarget \in Targets
    BY AuxiliaryAssumption DEF SomeTarget
  <2> QED
    BY <1>1, <2>1 DEF NotStarted, Start, WatchRecords, WatchPhases, NoRuntime
<1>3. Idle \in QueryRecords /\ Idle.at = "idle"
    BY <1>1 DEF Idle, QueryRecords, QueryKinds, NoRuntime
<1>4. (\A w \in Starts : watch[w] = NotStarted) /\ (\A t \in Targets : controls[t] = Nobody)
    BY DEF AuxInit
<1>5. WatchTypes /\ QueryTypes
    BY <1>2, <1>3 DEF AuxInit, WatchTypes, QueryTypes
<1>6. WatchInvariant
    BY <1>2, <1>4, <1>5 DEF WatchInvariant, StartsLease, WatchersAreListed, RivalsAreCurrent,
        LeasePhases, LivePhases
<1>7. \A q \in Queries : query[q] = Idle
    BY DEF AuxInit
<1>8. QueryInvariant
    BY <1>3, <1>5, <1>7 DEF QueryInvariant, QueriesLease, QueriesHoldFacts, HoldsFacts,
        AnswersAreSteady, AnswerIsSteady, UnderWay
<1> QED
    BY <1>1, <1>5, <1>6, <1>8 DEF AuxInvariant, AuxTypeOK, AuxInit

LEMMA AuxNextKeeps == AuxInvariant /\ [AuxNext]_allVars => AuxInvariant'
<1> SUFFICES ASSUME AuxInvariant, [AuxNext]_allVars
             PROVE  AuxInvariant'
    OBVIOUS
<1> DEFINE Kept == /\ WatchInvariant' /\ QueryInvariant'
                   /\ scene' = scene /\ swept' \in BOOLEAN
<1>0. SessionInvariant /\ WatchInvariant /\ QueryInvariant
    BY DEF AuxInvariant
<1>1. [Next]_vars /\ SessionInvariant'
    BY <1>0, SessionMoves, NextKeeps
<1>2. ASSUME SessionStep(Next)
      PROVE  Kept
  <2>1. UNCHANGED watchVars /\ scene' = scene
    BY <1>2, Zenon DEF SessionStep
  <2>2. swept' \in BOOLEAN
    BY <1>2 DEF SessionStep
  <2> QED
    BY <1>0, <1>1, <1>2, <2>1, <2>2, WatchersRest, SessionKeepsQueries
<1>3. ASSUME NEW q \in Queries, QueryStep(q) \/ \E k \in QueryKinds : Asks(q, k)
      PROVE  Kept
  <2>1. QueryFrame
    BY <1>3, Zenon DEF QueryStep, Asks, CheckHolds, ChangeAnswers, Records, ListAnswers,
        HealthAnswers, SampleIsTaken, FinishesTmux, FinishesHealth, CommitsSample, At, Fails,
        Query
  <2>2. UNCHANGED watchVars /\ scene' = scene /\ swept' = swept
    BY <2>1 DEF QueryFrame
  <2> QED
    BY <1>0, <1>1, <1>3, <2>2, WatchersRest, QueryStepKeeps DEF AuxInvariant, AuxTypeOK
<1>4. ASSUME WatchFrame, WatchInvariant'
      PROVE  Kept
    BY <1>0, <1>4, QueriesRest DEF WatchFrame, AuxInvariant, AuxTypeOK
<1>5. ASSUME NEW w \in Starts,
             (\E t \in Targets : Lookup(w, t)) \/ StartStep(w)
      PROVE  Kept
  <2>1. WatchFrame
    BY <1>5, Zenon DEF Lookup, StartStep, Joins, Leases, LooksAgain, OpenChannelFails, Installs,
        Replaces
  <2>2. ASSUME OpenChannelFails(w)
        PROVE  WatchInvariant'
    BY <1>0, <2>2, GivesUp DEF OpenChannelFails, WatchFrame, LivePhases
  <2>3. WatchInvariant'
    BY <1>0, <1>5, <2>2, LookupKeeps, JoinsKeeps, LeasesKeeps, LooksAgainKeeps, InstallsKeeps,
        WatcherStepKeeps, Zenon DEF StartStep
  <2> QED
    BY <1>4, <2>1, <2>3
<1>6. ASSUME NEW w \in Starts,
             WatcherStep(w) \/ Hears(w) \/ ChannelEnds(w)
      PROVE  Kept
  <2>1. WatchFrame
    BY <1>6, Zenon DEF WatcherStep, Hears, ChannelEnds, Tells, TickerStops, ParentIsGone,
        Unregisters, Ends
  <2>2. ASSUME Hears(w) \/ Tells(w)
        PROVE  WatchInvariant'
    BY <1>0, <2>2, CancelsKeep
  <2>3. ASSUME Ends(w)
        PROVE  WatchInvariant'
    BY <1>0, <2>3, WatcherStepKeeps
  <2>4. ASSUME Unregisters(w)
        PROVE  WatchInvariant'
    BY <1>0, <2>4, UnregistersKeeps
  <2>5. WatchInvariant'
    BY <1>6, <2>2, <2>3, <2>4, Zenon DEF WatcherStep, ChannelEnds, TickerStops, ParentIsGone
  <2> QED
    BY <1>4, <2>1, <2>5
<1>7. ASSUME (\E t \in Targets : StopsOne(t)) \/ StopsAll \/ Shutdown
      PROVE  Kept
  <2>1. WatchFrame
    BY <1>7, Zenon DEF StopsOne, StopsAll, Shutdown, CancelOnly
  <2>2. WatchInvariant'
    BY <1>0, <1>7, CancelsKeep, ShutdownKeeps
  <2> QED
    BY <1>4, <2>1, <2>2
<1>8. ASSUME NEW c \in Callers, CloseCancels(c)
      PROVE  Kept
  <2>1. WatchInvariant'
    BY <1>0, <1>8, CancelsKeep
  <2>2. UNCHANGED <<vars, query, scene>> /\ swept' = TRUE
    BY <1>8 DEF CloseCancels
  <2> QED
    BY <1>0, <2>1, <2>2, QueriesRest
<1>9. ASSUME UNCHANGED allVars
      PROVE  Kept
    BY <1>0, <1>1, <1>9, WatchersRest, QueriesRest DEF allVars, sideVars, AuxInvariant, AuxTypeOK
<1> HIDE DEF Kept
<1>10. Kept
    BY ONLY [AuxNext]_allVars, <1>2, <1>3, <1>5, <1>6, <1>7, <1>8, <1>9, Zenon DEF AuxNext
<1> QED
    BY <1>0, <1>1, <1>10
    DEF Kept, AuxInvariant, AuxTypeOK, WatchInvariant, QueryInvariant

LEMMA AuxInvariantHolds == AuxSpec => []AuxInvariant
    BY AuxInitKeeps, AuxNextKeeps, PTL DEF AuxSpec

-----------------------------------------------------------------------------
(* The theorems. *)

\* The work beside the terminal leaves the session as it is: whatever holds of
\* the session alone holds of it with its watchers and queries.
THEOREM SessionIsItsOwn == AuxSpec => Spec
<1>1. AuxInit => Init
    BY DEF AuxInit
<1> QED
    BY <1>1, SessionMoves, PTL DEF AuxSpec, Spec

\* A watcher that goes on can be stopped, and an answer is about the connection
\* that was asked: for any number of starts, targets, queries and reconnects.
THEOREM SideWorkHolds == AuxSpec => []SideWorkIsSound
<1>1. AuxInvariant => SideWorkIsSound
    BY DEF AuxInvariant, WatchInvariant, WatchersAreListed, QueryInvariant, SideWorkIsSound,
        WatchersAreReachable
<1> QED
    BY <1>1, AuxInvariantHolds, PTL

\* Each of its variables keeps its type: no watcher or query is about a runtime
\* that was never made.
THEOREM SideWorkTypeCorrect == AuxSpec => []AuxTypeOK
<1>1. AuxInvariant => AuxTypeOK
    BY DEF AuxInvariant
<1> QED
    BY <1>1, AuxInvariantHolds, PTL
=============================================================================
