------------------------------- MODULE SshSession -------------------------------
(***************************************************************************)
(* The life of one SSH session: the commands that open, close and delete   *)
(* it, the update that closes it, the reader of its connection, the        *)
(* automatic reconnect, and the tunnels that run over it.                  *)
(*                                                                         *)
(* Open, close and delete run one at a time, under the session's lifecycle *)
(* lane.  The reader, the reconnect task and the tunnel commands do not    *)
(* take the lane: they check, under the mutexes of the SSH registry and of *)
(* the store, that the runtime they belong to is still the registered one. *)
(* An action is what happens between two awaits of a task, or under one    *)
(* acquisition of those mutexes.                                           *)
(*                                                                         *)
(* A runtime id (a UUID) is a number, 0 for none.  A profile is abstracted *)
(* to what the tasks look at: whether it exists, whether it reconnects and *)
(* with which settings a connection is established.                        *)
(***************************************************************************)
EXTENDS Integers, FiniteSets, TLC

CONSTANTS
    Callers,      \* tasks that run commands on the session
    Tunnels,      \* tunnel ids
    Settings,     \* profiles with reconnect on, by how they establish
    Operations,   \* which commands run
    StoreFails,   \* whether a commit or a save of the store may fail
    MaxRuntimes,  \* bound: runtimes registered
    Nobody        \* no caller, no attempt

\* "host": tunnels that leave from this computer, not over SSH.
AllOperations == {"open", "close", "delete", "update", "edit", "tunnel", "host"}

ASSUME SessionAssumption ==
    /\ Operations \subseteq AllOperations
    /\ StoreFails \in BOOLEAN
    /\ MaxRuntimes \in Nat
    /\ Settings # {}
    /\ Settings \cap {"off", "gone"} = {}
    /\ Nobody \notin Callers \cup Settings

VARIABLES
    profile,   \* the stored profile
    status,    \* the stored runtime status
    ssh,       \* the registered runtime
    made,      \* runtimes registered so far
    closed,    \* runtimes whose closed flag is set
    lane,      \* the holder of the session's lifecycle lane
    pc,        \* per caller: where its command is
    goal,      \* per caller: what a close under the lane is part of
    token,     \* per caller: the cancellation of its open
    updating,  \* the update, and whether it must close the session
    task,      \* per runtime: its reader, then its reconnect task
    attempt,   \* per runtime: the settings of the attempt under way
    restore,   \* per runtime: the restoring of its tunnels
    todo,      \* per runtime: the tunnels still to restore
    tunnels,   \* per tunnel: the owner of the registered tunnel runtime
    start,     \* per tunnel: the command under its lifecycle lane
    owner,     \* per tunnel: the owner of the tunnel being started
    enabled    \* the tunnels enabled in the stored profile

sessionVars == <<profile, status, ssh, made, closed>>
callerVars == <<lane, pc, goal, token>>
taskVars == <<task, attempt, restore, todo>>
tunnelVars == <<tunnels, start, owner, enabled>>
vars == <<sessionVars, callerVars, updating, taskVars, tunnelVars>>

Runtimes == 1 .. MaxRuntimes
NoRuntime == 0
HostOwner == -1

Statuses == {"Disconnected", "Connecting", "Connected", "Reconnecting", "Error"}
ActiveStatuses == {"Connecting", "Connected", "Reconnecting"}

WaitingPCs == {"openWait", "closeWait", "deleteWait"}
OpenPCs == {"opening", "connecting", "establishing", "finalizing", "unwinding"}
\* "disconnecting": the registered runtime is disconnected, in bounded steps.
ClosePCs == {"closing", "disconnecting", "shutting"}
LanePCs == OpenPCs \cup ClosePCs \cup {"deleting", "erasing"}
UpdatePCs == {"survey", "cancel", "collect", "drain"}
PCs == {"idle"} \cup WaitingPCs \cup LanePCs \cup UpdatePCs

SessionTypes ==
    /\ profile \in Settings \cup {"off", "gone"}
    /\ status \in Statuses
    /\ made \in 0 .. MaxRuntimes
    /\ ssh \in 0 .. made
    /\ closed \subseteq 1 .. made

CallerTypes ==
    /\ lane \in Callers \cup {Nobody}
    /\ pc \in [Callers -> PCs]
    /\ goal \in [Callers -> {"close", "cancel", "delete", "update"}]
    /\ token \in [Callers -> {"none", "pending", "cancelled", "pruned"}]
    /\ updating \in {"no", "preparing", "closing", "prepared"}

TaskTypes ==
    /\ task \in [Runtimes -> {"none", "reading", "draining", "waiting",
                               "establishing", "stopping", "failing", "done"}]
    /\ attempt \in [Runtimes -> Settings \cup {Nobody}]
    /\ restore \in [Runtimes -> {"none", "due", "running"}]
    /\ todo \in [Runtimes -> SUBSET Tunnels]

TunnelTypes ==
    /\ tunnels \in [Tunnels -> {HostOwner} \cup 0 .. made]
    /\ start \in [Tunnels -> {"idle", "creating", "started",
                               "restoring", "restored", "stopping"}]
    /\ owner \in [Tunnels -> {HostOwner} \cup 0 .. made]
    /\ enabled \subseteq Tunnels

TypeOK == SessionTypes /\ CallerTypes /\ TaskTypes /\ TunnelTypes

\* A saved, disconnected session with every combination of saved tunnels.
Init ==
    /\ profile \in Settings \cup {"off"}
    /\ status = "Disconnected"
    /\ ssh = NoRuntime
    /\ made = 0
    /\ closed = {}
    /\ lane = Nobody
    /\ pc = [c \in Callers |-> "idle"]
    /\ goal = [c \in Callers |-> "close"]
    /\ token = [c \in Callers |-> "none"]
    /\ updating = "no"
    /\ task = [r \in Runtimes |-> "none"]
    /\ attempt = [r \in Runtimes |-> Nobody]
    /\ restore = [r \in Runtimes |-> "none"]
    /\ todo = [r \in Runtimes |-> {}]
    /\ tunnels = [t \in Tunnels |-> NoRuntime]
    /\ start = [t \in Tunnels |-> "idle"]
    /\ owner = [t \in Tunnels |-> NoRuntime]
    /\ enabled \in SUBSET (IF "tunnel" \in Operations THEN Tunnels ELSE {})

NoTunnels == [t \in Tunnels |-> NoRuntime]

ReconnectEnabled == profile \in Settings

\* ssh_runtime_connected
Connected(r) == ssh = r /\ r \notin closed /\ status = "Connected"

\* A commit or save of the store, where it may fail.
SaveOutcomes == IF StoreFails THEN BOOLEAN ELSE {TRUE}

\* The command ends and drops what it held: the lane and the cancellation.
Leave(c) ==
    /\ lane' = IF lane = c THEN Nobody ELSE lane
    /\ pc' = [pc EXCEPT ![c] = "idle"]
    /\ goal' = [goal EXCEPT ![c] = "close"]
    /\ token' = [token EXCEPT ![c] = "none"]

-------------------------------------------------------------------------------
(* Commands before they have the lane. *)

\* Mutant: an update under way does not refuse the open.
RegisterOpenAnyTime(c) ==
    /\ "open" \in Operations
    /\ pc[c] = "idle"
    /\ \A d \in Callers : token[d] # "pending"
    /\ pc' = [pc EXCEPT ![c] = "openWait"]
    /\ token' = [d \in Callers |-> IF d = c THEN "pending"
                                   ELSE IF token[d] = "cancelled" THEN "pruned"
                                   ELSE token[d]]
    /\ UNCHANGED <<sessionVars, lane, goal, updating, taskVars, tunnelVars>>

\* register_session_open_cancellation: refused during an update and while
\* another open is pending; forgets the opens that were cancelled.
RegisterOpen(c) ==
    /\ "open" \in Operations
    /\ pc[c] = "idle"
    /\ updating = "no"
    /\ \A d \in Callers : token[d] # "pending"
    /\ pc' = [pc EXCEPT ![c] = "openWait"]
    /\ token' = [d \in Callers |-> IF d = c THEN "pending"
                                   ELSE IF token[d] = "cancelled" THEN "pruned"
                                   ELSE token[d]]
    /\ UNCHANGED <<sessionVars, lane, goal, updating, taskVars, tunnelVars>>

\* cancel_pending_session_opens: every open that is still registered.
CancelledOpens ==
    [d \in Callers |-> IF token[d] = "pending" THEN "cancelled" ELSE token[d]]

\* close_session_inner and delete_session_profile_inner cancel the open under
\* way before they wait for the lane.
BeginClose(c) ==
    /\ "close" \in Operations
    /\ pc[c] = "idle"
    /\ pc' = [pc EXCEPT ![c] = "closeWait"]
    /\ goal' = [goal EXCEPT ![c] = "close"]
    /\ token' = CancelledOpens
    /\ UNCHANGED <<sessionVars, lane, updating, taskVars, tunnelVars>>

BeginDelete(c) ==
    /\ "delete" \in Operations
    /\ pc[c] = "idle"
    /\ pc' = [pc EXCEPT ![c] = "deleteWait"]
    /\ goal' = [goal EXCEPT ![c] = "delete"]
    /\ token' = CancelledOpens
    /\ UNCHANGED <<sessionVars, lane, updating, taskVars, tunnelVars>>

\* An open that was cancelled while it waited ends as soon as it has the lane.
TakeLane(c) ==
    /\ pc[c] \in WaitingPCs
    /\ lane = Nobody
    /\ IF pc[c] = "openWait" /\ token[c] # "pending"
       THEN Leave(c)
       ELSE /\ lane' = c
            /\ pc' = [pc EXCEPT ![c] = IF @ = "openWait" THEN "opening"
                                       ELSE IF @ = "closeWait" THEN "closing"
                                       ELSE "deleting"]
            /\ UNCHANGED <<goal, token>>
    /\ UNCHANGED <<sessionVars, updating, taskVars, tunnelVars>>

-------------------------------------------------------------------------------
(* Opening, under the lane. *)

\* session_has_registered_runtime
Registered == ssh # NoRuntime \/ \E t \in Tunnels : tunnels[t] # NoRuntime

\* ensure_session_can_open
CanOpen == profile # "gone" /\ status \notin ActiveStatuses /\ ~ Registered

\* The session cannot be opened, its credentials are not the profile's, or
\* Connecting cannot be saved.
OpenRefused(c) ==
    /\ pc[c] = "opening"
    /\ Leave(c)
    /\ UNCHANGED <<sessionVars, updating, taskVars, tunnelVars>>

OpenConnecting(c) ==
    /\ pc[c] = "opening"
    /\ CanOpen
    /\ status' = "Connecting"
    /\ pc' = [pc EXCEPT ![c] = "connecting"]
    /\ UNCHANGED <<profile, ssh, made, closed, lane, goal, token,
                   updating, taskVars, tunnelVars>>

\* Mutant: the cleanup of a cancelled open takes the lane, which it holds.
CancelOpenTakesLane(c) ==
    /\ pc' = [pc EXCEPT ![c] = "closeWait"]
    /\ goal' = [goal EXCEPT ![c] = "cancel"]
    /\ UNCHANGED <<sessionVars, lane, token, updating, taskVars, tunnelVars>>

\* The open turns into a close of what it opened so far.
CancelOpen(c) ==
    /\ pc' = [pc EXCEPT ![c] = "closing"]
    /\ goal' = [goal EXCEPT ![c] = "cancel"]
    /\ UNCHANGED <<sessionVars, lane, token, updating, taskVars, tunnelVars>>

OpenProceeds(c) ==
    /\ pc[c] = "connecting"
    /\ \/ /\ token[c] = "pending"
          /\ pc' = [pc EXCEPT ![c] = "establishing"]
          /\ UNCHANGED <<sessionVars, lane, goal, token, updating, taskVars, tunnelVars>>
       \/ token[c] # "pending" /\ CancelOpen(c)

\* The select of the open and its cancellation drops the open at an await.
OpenCancelled(c) ==
    /\ pc[c] \in {"establishing", "unwinding"}
    /\ token[c] # "pending"
    /\ CancelOpen(c)

\* record_connection_failure
OpenFails(c) ==
    /\ pc[c] = "establishing"
    /\ status' = "Error"
    /\ Leave(c)
    /\ UNCHANGED <<profile, ssh, made, closed, updating, taskVars, tunnelVars>>

\* The connection is established: its runtime is registered.
OpenInstalls(c) ==
    /\ pc[c] = "establishing"
    /\ made < MaxRuntimes
    /\ made' = made + 1
    /\ ssh' = made + 1
    /\ pc' = [pc EXCEPT ![c] = "finalizing"]
    /\ UNCHANGED <<profile, status, closed, lane, goal, token, updating, taskVars, tunnelVars>>

\* The status is committed and the reader started.
OpenConnected(c) ==
    /\ pc[c] = "finalizing"
    /\ status' = "Connected"
    /\ task' = [task EXCEPT ![ssh] = "reading"]
    /\ Leave(c)
    /\ UNCHANGED <<profile, ssh, made, closed, updating,
                   attempt, restore, todo, tunnelVars>>

\* remove_ssh_runtime_after_failed_open, up to the disconnect it awaits.
OpenCommitFails(c) ==
    /\ pc[c] = "finalizing"
    /\ StoreFails
    /\ closed' = closed \cup {ssh}
    /\ ssh' = NoRuntime
    /\ pc' = [pc EXCEPT ![c] = "unwinding"]
    /\ UNCHANGED <<profile, status, made, lane, goal, token,
                   updating, taskVars, tunnelVars>>

\* The failure is recorded.
OpenUnwinds(c) ==
    /\ pc[c] = "unwinding"
    /\ status' = "Error"
    /\ Leave(c)
    /\ UNCHANGED <<profile, ssh, made, closed, updating, taskVars, tunnelVars>>

-------------------------------------------------------------------------------
(* Closing and deleting, under the lane. *)

\* The runtime leaves the registry and its closed flag is set; then its
\* disconnect is awaited.
CloseRemoves(c) ==
    /\ pc[c] = "closing"
    /\ closed' = IF ssh = NoRuntime THEN closed ELSE closed \cup {ssh}
    /\ ssh' = NoRuntime
    /\ pc' = [pc EXCEPT ![c] = "disconnecting"]
    /\ UNCHANGED <<profile, status, made, lane, goal, token,
                   updating, taskVars, tunnelVars>>

\* stop_session_tunnel_runtimes, after the disconnect.
CloseStopsTunnels(c) ==
    /\ pc[c] = "disconnecting"
    /\ tunnels' = NoTunnels
    /\ pc' = [pc EXCEPT ![c] = "shutting"]
    /\ UNCHANGED <<sessionVars, lane, goal, token, updating,
                   taskVars, start, owner, enabled>>

\* store.close_session and its save; what comes next depends on whose close it
\* is.  An unsaved status is an error, but stands in memory.
CloseEnds(c) ==
    /\ pc[c] = "shutting"
    /\ status' = IF profile = "gone" THEN status ELSE "Disconnected"
    /\ \E saved \in SaveOutcomes :
        LET ok == saved /\ profile # "gone" IN
        IF goal[c] = "delete" /\ ok
        THEN /\ pc' = [pc EXCEPT ![c] = "erasing"]
             /\ UNCHANGED <<lane, goal, token, updating>>
        ELSE IF goal[c] = "update"
        THEN /\ lane' = Nobody
             /\ pc' = [pc EXCEPT ![c] = IF ok THEN "drain" ELSE "idle"]
             /\ updating' = IF ok THEN updating ELSE "no"
             /\ UNCHANGED <<goal, token>>
        ELSE Leave(c) /\ UNCHANGED updating
    /\ UNCHANGED <<profile, ssh, made, closed, taskVars, tunnelVars>>

\* An unknown session, or one with active transfers, is not deleted; an active
\* one is closed first.
DeleteChecks(c) ==
    /\ pc[c] = "deleting"
    /\ \/ Leave(c)
       \/ /\ profile # "gone"
          /\ pc' = [pc EXCEPT ![c] = IF status \in ActiveStatuses \/ Registered
                                     THEN "closing" ELSE "erasing"]
          /\ UNCHANGED <<lane, goal, token>>
    /\ UNCHANGED <<sessionVars, updating, taskVars, tunnelVars>>

\* The profile and its runtime record go.
DeleteErases(c) ==
    /\ pc[c] = "erasing"
    /\ profile' = "gone"
    /\ status' = "Disconnected"
    /\ Leave(c)
    /\ UNCHANGED <<ssh, made, closed, updating, taskVars, tunnelVars>>

DeleteFails(c) ==
    /\ pc[c] = "erasing"
    /\ StoreFails
    /\ Leave(c)
    /\ UNCHANGED <<sessionVars, updating, taskVars, tunnelVars>>

-------------------------------------------------------------------------------
(* The update: prepare_for_update, for this session. *)

UpdateFrame == UNCHANGED <<sessionVars, lane, taskVars, start, owner, enabled>>

\* The flag is set when the download has been verified.
UpdateBegins(c) ==
    /\ "update" \in Operations
    /\ pc[c] = "idle"
    /\ updating = "no"
    /\ updating' = "preparing"
    /\ pc' = [pc EXCEPT ![c] = "survey"]
    /\ UNCHANGED <<goal, token, tunnels>>
    /\ UpdateFrame

UpdateSurveys(c) ==
    /\ pc[c] = "survey"
    /\ updating' = IF status \in ActiveStatuses THEN "closing" ELSE updating
    /\ pc' = [pc EXCEPT ![c] = "cancel"]
    /\ UNCHANGED <<goal, token, tunnels>>
    /\ UpdateFrame

\* Opens that are registered are cancelled, and counted whether or not they
\* were cancelled before.  A deleted profile has none.
UpdateCancels(c) ==
    /\ pc[c] = "cancel"
    /\ token' = CancelledOpens
    /\ updating' = IF \E d \in Callers : token[d] \in {"pending", "cancelled"}
                   THEN "closing" ELSE updating
    /\ pc' = [pc EXCEPT ![c] = "collect"]
    /\ UNCHANGED <<goal, tunnels>>
    /\ UpdateFrame

UpdateCollects(c) ==
    /\ pc[c] = "collect"
    /\ IF updating = "closing" \/ ssh # NoRuntime
       THEN /\ pc' = [pc EXCEPT ![c] = "closeWait"]
            /\ goal' = [goal EXCEPT ![c] = "update"]
            /\ token' = CancelledOpens
       ELSE /\ pc' = [pc EXCEPT ![c] = "drain"]
            /\ UNCHANGED <<goal, token>>
    /\ UNCHANGED <<updating, tunnels>>
    /\ UpdateFrame

\* Every tunnel runtime is drained; a listener that does not stop, or a save
\* that fails, ends the update.
UpdateDrains(c) ==
    /\ pc[c] = "drain"
    /\ tunnels' = NoTunnels
    /\ updating' \in {"prepared", "no"}
    /\ pc' = [pc EXCEPT ![c] = "idle"]
    /\ UNCHANGED <<goal, token>>
    /\ UpdateFrame

\* The MCP server does not stop, or a transfer cannot be cancelled.
UpdateFails(c) ==
    /\ pc[c] \in {"survey", "cancel"}
    /\ updating' = "no"
    /\ pc' = [pc EXCEPT ![c] = "idle"]
    /\ UNCHANGED <<goal, token, tunnels>>
    /\ UpdateFrame

\* The installer could not be started: PortMate goes on.
UpdateAbandoned ==
    /\ updating = "prepared"
    /\ updating' = "no"
    /\ UNCHANGED <<sessionVars, callerVars, taskVars, tunnelVars>>

-------------------------------------------------------------------------------
(* The reader and the reconnect task of runtime r. *)

\* Mutant: the stored status is left to somebody else.
DropRuntimeOnly(r, s) ==
    /\ ssh' = NoRuntime
    /\ closed' = closed \cup {r}
    /\ tunnels' = NoTunnels
    /\ status' = status

\* The registered runtime is dropped: it is closed and its tunnels fail.
DropRuntime(r, s) ==
    /\ ssh' = NoRuntime
    /\ closed' = closed \cup {r}
    /\ tunnels' = NoTunnels
    /\ status' = s

\* The end of read_ssh_channel.  A runtime that is to reconnect stays
\* registered.
ReaderEnds(r) ==
    /\ task[r] = "reading"
    /\ \/ /\ ssh # r
          /\ task' = [task EXCEPT ![r] = "done"]
          /\ UNCHANGED <<status, ssh, closed, tunnels>>
       \/ /\ ssh = r
          /\ r \notin closed /\ ReconnectEnabled
          /\ status' = "Reconnecting"
          /\ tunnels' = NoTunnels
          /\ task' = [task EXCEPT ![r] = "draining"]
          /\ UNCHANGED <<ssh, closed>>
       \/ /\ ssh = r
          /\ ~ (r \notin closed /\ ReconnectEnabled)
          /\ DropRuntime(r, "Disconnected")
          /\ task' = [task EXCEPT ![r] = "done"]
    /\ UNCHANGED <<profile, made, callerVars, updating, attempt, restore, todo,
                   start, owner, enabled>>

\* Another step of the loop, and no attempt under way.
Becomes(r, next) ==
    /\ task' = [task EXCEPT ![r] = next]
    /\ attempt' = [attempt EXCEPT ![r] = Nobody]
    /\ UNCHANGED <<sessionVars, callerVars, updating, restore, todo, tunnelVars>>

\* The tunnel listeners have stopped; the reconnect task is spawned.
ReaderDrained(r) ==
    /\ task[r] = "draining"
    /\ Becomes(r, "waiting")

\* ssh_reconnect_pending
Pending(r) == r \notin closed /\ ssh = r /\ status = "Reconnecting"

\* The delay is over, or the wait is.
ReconnectAttempts(r) ==
    /\ task[r] = "waiting"
    /\ \/ ~ Pending(r) /\ Becomes(r, "done")
       \/ Pending(r) /\ ~ ReconnectEnabled /\ Becomes(r, "stopping")
       \/ /\ Pending(r) /\ ReconnectEnabled
          /\ task' = [task EXCEPT ![r] = "establishing"]
          /\ attempt' = [attempt EXCEPT ![r] = profile]
          /\ UNCHANGED <<sessionVars, callerVars, updating, restore, todo, tunnelVars>>

\* stop_pending_ssh_reconnect_if_disabled: otherwise the loop goes on.
ReconnectStops(r) ==
    /\ task[r] = "stopping"
    /\ \/ /\ ssh = r /\ ~ ReconnectEnabled
          /\ DropRuntime(r, "Disconnected")
          /\ task' = [task EXCEPT ![r] = "done"]
       \/ /\ ~ (ssh = r /\ ~ ReconnectEnabled)
          /\ task' = [task EXCEPT ![r] = "waiting"]
          /\ UNCHANGED <<status, ssh, closed, tunnels>>
    /\ UNCHANGED <<profile, made, callerVars, updating, attempt, restore, todo,
                   start, owner, enabled>>

\* record_ssh_reconnect_failure_if_pending: the status stays Reconnecting.
AttemptFails(r) ==
    /\ task[r] = "establishing"
    /\ Becomes(r, IF ~ Pending(r) THEN "done"
                  ELSE IF ~ ReconnectEnabled THEN "stopping"
                  ELSE "waiting")

\* Mutant: the check made before the attempt is not repeated after it.
MayInstallAlways(r) == TRUE

\* The attempt is still wanted when its connection is there.
MayInstall(r) == ssh = r /\ r \notin closed

\* The connection is there, and not installed: it is disconnected again.
AttemptDiscarded(r) ==
    /\ task[r] = "establishing"
    /\ \/ ~ MayInstall(r) /\ Becomes(r, "done")
       \/ MayInstall(r) /\ ~ ReconnectEnabled /\ Becomes(r, "stopping")
       \/ MayInstall(r) /\ ReconnectEnabled /\ profile # attempt[r] /\ Becomes(r, "waiting")
       \/ MayInstall(r) /\ profile = attempt[r] /\ StoreFails /\ Becomes(r, "failing")

\* Connected is committed and the new runtime takes the old one's place; its
\* reader starts, and its tunnels are to be restored.
AttemptInstalls(r) ==
    /\ task[r] = "establishing"
    /\ MayInstall(r)
    /\ profile = attempt[r]
    /\ made < MaxRuntimes
    /\ made' = made + 1
    /\ ssh' = made + 1
    /\ status' = "Connected"
    /\ task' = [task EXCEPT ![r] = "done", ![made + 1] = "reading"]
    /\ attempt' = [attempt EXCEPT ![r] = Nobody]
    /\ restore' = [restore EXCEPT ![made + 1] = "due"]
    /\ UNCHANGED <<profile, closed, callerVars, updating, todo, tunnelVars>>

\* Mutant: a failed install is only recorded.
InstallFailsRecorded(r) ==
    /\ task[r] = "failing"
    /\ task' = [task EXCEPT ![r] = "done"]
    /\ closed' = closed \cup {r}
    /\ UNCHANGED <<status, ssh, profile, made, callerVars, updating, attempt, restore, todo, tunnelVars>>

\* fail_pending_ssh_reconnect_install
InstallFails(r) ==
    /\ task[r] = "failing"
    /\ task' = [task EXCEPT ![r] = "done"]
    /\ closed' = closed \cup {r}
    /\ IF ssh = r
       THEN ssh' = NoRuntime /\ status' = "Error"
       ELSE UNCHANGED <<ssh, status>>
    /\ UNCHANGED <<profile, made, callerVars, updating, attempt, restore, todo, tunnelVars>>

-------------------------------------------------------------------------------
(* Tunnels.  A tunnel's commands run under its own lifecycle lane. *)

\* start_tunnel_runtime takes the handle of the connected runtime and looks
\* for a free slot, then binds the listener or requests the remote forward.
CanStart(t) == updating = "no" /\ tunnels[t] = NoRuntime

TunnelFrame == UNCHANGED <<sessionVars, callerVars, updating, task, attempt>>

\* create_tunnel uses a new id, which no saved tunnel has. The egress says
\* whether the connected runtime carries the tunnel or a host listener does.
CreateTunnel(t) ==
    /\ start[t] = "idle" /\ t \notin enabled /\ profile # "gone"
    /\ CanStart(t)
    /\ \E egress \in Operations \cap {"tunnel", "host"} :
        /\ egress = "tunnel" => ssh # NoRuntime /\ status = "Connected"
        /\ owner' = [owner EXCEPT ![t] = IF egress = "tunnel" THEN ssh ELSE HostOwner]
    /\ start' = [start EXCEPT ![t] = "creating"]
    /\ UNCHANGED <<tunnels, enabled, restore, todo>>
    /\ TunnelFrame

\* restore_enabled_tunnels, when it starts.
RestoreBegins(r) ==
    /\ restore[r] = "due"
    /\ IF Connected(r) /\ profile # "gone"
       THEN restore' = [restore EXCEPT ![r] = "running"] /\ todo' = [todo EXCEPT ![r] = enabled]
       ELSE restore' = [restore EXCEPT ![r] = "none"] /\ UNCHANGED todo
    /\ UNCHANGED <<sessionVars, lane, pc, goal, token, updating, task, attempt, tunnelVars>>

RestoreStops(r) ==
    /\ restore' = [restore EXCEPT ![r] = "none"]
    /\ todo' = [todo EXCEPT ![r] = {}]

\* One saved tunnel after the other.
RestoreTunnel(r, t) ==
    /\ restore[r] = "running"
    /\ t \in todo[r]
    /\ \A u \in Tunnels : start[u] \in {"restoring", "restored"} => owner[u] # r
    /\ start[t] = "idle"
    /\ \/ /\ ~ Connected(r)
          /\ RestoreStops(r)
          /\ UNCHANGED <<start, owner>>
       \/ /\ Connected(r)
          /\ todo' = [todo EXCEPT ![r] = @ \ {t}]
          /\ IF CanStart(t)
             THEN start' = [start EXCEPT ![t] = "restoring"] /\ owner' = [owner EXCEPT ![t] = r]
             ELSE UNCHANGED <<start, owner>>
          /\ UNCHANGED restore
    /\ UNCHANGED <<tunnels, enabled>>
    /\ TunnelFrame

RestoreEnds(r) ==
    /\ restore[r] = "running"
    /\ todo[r] = {}
    /\ \A u \in Tunnels : start[u] \in {"restoring", "restored"} => owner[u] # r
    /\ RestoreStops(r)
    /\ UNCHANGED tunnelVars
    /\ TunnelFrame

\* Mutant: the runtime is not looked up again after the bind.
MayInstallTunnelAnyway(t) == tunnels[t] = NoRuntime

\* A tunnel over SSH is registered only on the runtime it was started on.
MayInstallTunnel(t) ==
    /\ tunnels[t] = NoRuntime
    /\ owner[t] # HostOwner => ssh = owner[t] /\ status = "Connected"

TunnelInstalls(t) ==
    /\ start[t] \in {"creating", "restoring"}
    /\ MayInstallTunnel(t)
    /\ tunnels' = [tunnels EXCEPT ![t] = owner[t]]
    /\ start' = [start EXCEPT ![t] = IF @ = "creating" THEN "started" ELSE "restored"]
    /\ UNCHANGED <<owner, enabled, restore, todo>>
    /\ TunnelFrame

\* The bind or the forward request fails, or the runtime has changed; a
\* restore that is superseded gives up the other tunnels too.
TunnelStartFails(t) ==
    /\ start[t] \in {"creating", "restoring"}
    /\ start' = [start EXCEPT ![t] = "idle"]
    /\ IF start[t] = "restoring" /\ ~ Connected(owner[t])
       THEN RestoreStops(owner[t])
       ELSE UNCHANGED <<restore, todo>>
    /\ UNCHANGED <<tunnels, owner, enabled>>
    /\ TunnelFrame

RemoveIfOwned(t) ==
    [tunnels EXCEPT ![t] = IF @ = owner[t] THEN NoRuntime ELSE @]

\* commit_started_tunnel: the saved profile lists the tunnel, or the tunnel is
\* stopped again.
TunnelCommits(t) ==
    /\ start[t] = "started"
    /\ start' = [start EXCEPT ![t] = "idle"]
    /\ \E saved \in SaveOutcomes :
        IF saved /\ profile # "gone"
        THEN /\ enabled' = IF owner[t] = HostOwner THEN enabled ELSE enabled \cup {t}
             /\ UNCHANGED tunnels
        ELSE /\ tunnels' = RemoveIfOwned(t)
             /\ UNCHANGED enabled
    /\ UNCHANGED <<owner, restore, todo>>
    /\ TunnelFrame

\* A restored tunnel stays if its runtime is still connected; it is saved, and
\* a failed save is only recorded.
TunnelRestored(t) ==
    /\ start[t] = "restored"
    /\ start' = [start EXCEPT ![t] = "idle"]
    /\ IF Connected(owner[t])
       THEN /\ \E saved \in SaveOutcomes :
                enabled' = IF saved /\ profile # "gone" THEN enabled \cup {t} ELSE enabled
            /\ UNCHANGED <<tunnels, restore, todo>>
       ELSE /\ tunnels' = RemoveIfOwned(t)
            /\ RestoreStops(owner[t])
            /\ UNCHANGED enabled
    /\ UNCHANGED owner
    /\ TunnelFrame

\* stop_tunnel: the runtime goes at once, the saved profile after the listener
\* or the remote forward has been stopped.
StopTunnel(t) ==
    /\ "tunnel" \in Operations
    /\ start[t] = "idle"
    /\ tunnels[t] # NoRuntime
    /\ tunnels' = [tunnels EXCEPT ![t] = NoRuntime]
    /\ start' = [start EXCEPT ![t] = "stopping"]
    /\ UNCHANGED <<owner, enabled, restore, todo>>
    /\ TunnelFrame

TunnelStopped(t) ==
    /\ start[t] = "stopping"
    /\ start' = [start EXCEPT ![t] = "idle"]
    /\ \E saved \in SaveOutcomes :
        enabled' = IF saved /\ profile # "gone" THEN enabled \ {t} ELSE enabled
    /\ UNCHANGED <<tunnels, owner, restore, todo>>
    /\ TunnelFrame

\* fail_tunnel_runtime_if_owned: the listener or the remote forward broke.
TunnelBreaks(t) ==
    /\ tunnels[t] # NoRuntime
    /\ tunnels' = [tunnels EXCEPT ![t] = NoRuntime]
    /\ UNCHANGED <<start, owner, enabled, restore, todo>>
    /\ TunnelFrame

-------------------------------------------------------------------------------
(* The user edits the profile, which may be active. *)

EditProfile ==
    /\ "edit" \in Operations
    /\ profile # "gone"
    /\ profile' \in (Settings \cup {"off"}) \ {profile}
    /\ UNCHANGED <<status, ssh, made, closed, callerVars, updating, taskVars, tunnelVars>>

-------------------------------------------------------------------------------
OpenStep(c) ==
    \/ OpenRefused(c) \/ OpenConnecting(c) \/ OpenProceeds(c) \/ OpenCancelled(c)
    \/ OpenFails(c) \/ OpenInstalls(c) \/ OpenConnected(c) \/ OpenCommitFails(c)
    \/ OpenUnwinds(c)

CloseStep(c) ==
    \/ CloseRemoves(c) \/ CloseStopsTunnels(c) \/ CloseEnds(c)
    \/ DeleteChecks(c) \/ DeleteErases(c) \/ DeleteFails(c)

UpdateStep(c) ==
    \/ UpdateSurveys(c) \/ UpdateCancels(c) \/ UpdateCollects(c) \/ UpdateDrains(c)
    \/ UpdateFails(c)

TaskStep(r) ==
    \/ ReaderDrained(r) \/ ReconnectAttempts(r) \/ ReconnectStops(r) \/ AttemptFails(r)
    \/ AttemptDiscarded(r) \/ AttemptInstalls(r) \/ InstallFails(r)

TunnelStep(t) ==
    \/ TunnelInstalls(t) \/ TunnelStartFails(t) \/ TunnelCommits(t)
    \/ TunnelRestored(t) \/ TunnelStopped(t)

Next ==
    \/ \E c \in Callers :
        \/ RegisterOpen(c) \/ BeginClose(c) \/ BeginDelete(c) \/ UpdateBegins(c)
        \/ TakeLane(c) \/ OpenStep(c) \/ CloseStep(c) \/ UpdateStep(c)
    \/ \E r \in Runtimes :
        \/ ReaderEnds(r) \/ TaskStep(r) \/ RestoreBegins(r) \/ RestoreEnds(r)
        \/ \E t \in Tunnels : RestoreTunnel(r, t)
    \/ \E t \in Tunnels :
        \/ CreateTunnel(t) \/ StopTunnel(t) \/ TunnelBreaks(t)
        \/ TunnelStep(t)
    \/ UpdateAbandoned \/ EditProfile

Spec == Init /\ [][Next]_vars

-------------------------------------------------------------------------------
(* Properties. *)

\* While no lifecycle command runs, the stored status and the SSH registry
\* agree: a session shown as connected or reconnecting has a runtime that can
\* be closed, and one that is not has none that would refuse to open it.
RuntimeMatchesStatus ==
    lane = Nobody =>
        /\ status # "Connecting"
        /\ ssh # NoRuntime <=> status \in {"Connected", "Reconnecting"}

\* Somebody drives an active session: a reader while it is connected, a
\* reconnect task while it is reconnecting.  It never waits for nobody.
SessionIsDriven ==
    lane = Nobody =>
        /\ status = "Connected" => task[ssh] = "reading"
        /\ status = "Reconnecting" =>
            task[ssh] \in {"draining", "waiting", "establishing", "stopping", "failing"}

\* A tunnel over SSH belongs to the registered runtime; only a close between
\* the removal of the runtime and the stop of its tunnels sees another.
TunnelsOnRuntime ==
    \A t \in Tunnels :
        tunnels[t] > 0 =>
            \/ tunnels[t] = ssh
            \/ \E c \in Callers : lane = c /\ pc[c] = "disconnecting"

\* Only an open registers a runtime where there is none: a reconnect, however
\* late its connection comes, never brings back a session that was closed.
NoResurrection ==
    [][ssh = NoRuntime /\ ssh' # NoRuntime =>
            \E c \in Callers : lane = c /\ pc[c] = "establishing"]_vars

\* An update that is prepared has closed the session: nothing is connected,
\* nothing connects and nothing listens ("stop owned runtimes before
\* installation").
UpdateQuiescent ==
    updating = "prepared" =>
        /\ ~ Registered
        /\ \A c \in Callers : pc[c] \in OpenPCs => token[c] # "pending"

-------------------------------------------------------------------------------
(* Liveness, under the fairness of SshAuxiliary. *)

\* A close ends, whatever the open or close before it in the lane is doing.
CloseCompletes == \A c \in Callers : pc[c] = "closeWait" ~> pc[c] = "idle"

-------------------------------------------------------------------------------
(* The inductive invariant: what the lane's holder and the tasks outside the *)
(* lane may rely on.                                                         *)

\* Exactly the holder of the lane is in the part of a command that needs it.
LaneHeld ==
    \A c \in Callers : lane = c <=> pc[c] \in LanePCs

\* The registry and the stored status agree.
Settled ==
    /\ status # "Connecting"
    /\ ssh # NoRuntime <=> status \in {"Connected", "Reconnecting"}

\* How far the two may differ, by the phase of the command under the lane.
PhaseOfSession ==
    /\ profile = "gone" => ssh = NoRuntime /\ status \notin ActiveStatuses
    /\ lane = Nobody => Settled
    /\ \A c \in Callers :
        /\ pc[c] \in {"opening", "deleting"} => Settled
        /\ pc[c] \in {"connecting", "establishing", "unwinding"} =>
            status = "Connecting" /\ ssh = NoRuntime
        /\ pc[c] = "finalizing" =>
            status = "Connecting" /\ ssh # NoRuntime /\ task[ssh] = "none"
        /\ pc[c] = "closing" =>
            Settled \/ (status = "Connecting" /\ ssh = NoRuntime)
        /\ pc[c] \in {"disconnecting", "shutting"} => ssh = NoRuntime
        /\ pc[c] = "erasing" => ssh = NoRuntime /\ status \notin ActiveStatuses

ReconnectTasks == {"draining", "waiting", "establishing", "stopping", "failing"}

\* The task of the registered runtime knows the status, and a task that ended
\* has lost its runtime.
TaskOfRuntime ==
    /\ ssh \notin closed
    /\ \A r \in Runtimes :
        /\ r > made => task[r] = "none"
        /\ ssh = r =>
            /\ task[r] # "done"
            /\ task[r] = "reading" <=> status = "Connected"
            /\ task[r] \in ReconnectTasks <=> status = "Reconnecting"

TunnelsOfRuntime ==
    /\ TunnelsOnRuntime
    /\ \A t \in Tunnels : tunnels[t] > 0 /\ tunnels[t] = ssh => status = "Connected"

SessionInvariant ==
    /\ TypeOK
    /\ LaneHeld
    /\ PhaseOfSession
    /\ TaskOfRuntime
    /\ TunnelsOfRuntime

----------------------------------------------------------------------------
\* For TLC: callers are interchangeable, and so are the settings of a profile
\* and the tunnels.
Symmetry == Permutations(Callers) \cup Permutations(Settings) \cup Permutations(Tunnels)
=============================================================================
