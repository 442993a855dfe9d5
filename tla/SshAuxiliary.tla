---------------------------- MODULE SshAuxiliary ----------------------------
(***************************************************************************)
(* The work that rides on the SSH connection of a session beside its       *)
(* terminal: tmux control-mode watchers, which run until they are stopped  *)
(* or the connection is gone, and operations that ask the server once:     *)
(* tmux listings and changes, health checks and samples of the system      *)
(* monitor.  Each takes the handle of the registered runtime under the     *)
(* mutex of the SSH registry and goes on without it, so the session may    *)
(* close, end or reconnect between any two of its steps.                   *)
(*                                                                         *)
(* The session is that of SshSession.  A timeout or an error of a request  *)
(* is a failure that may come at any time; that a channel whose opening    *)
(* timed out takes the connection with it is the end of a reader, which    *)
(* may come at any time as well.                                           *)
(***************************************************************************)
EXTENDS SshSession

CONSTANTS
    Starts,          \* calls of start_tmux_control, each with its watcher
    Targets,         \* tmux targets
    Queries,         \* operations that ask once
    Scenes,          \* who takes part in a behaviour
    MaxPerSession,   \* MAX_TMUX_CONTROLS_PER_SESSION
    ControlSlots,    \* MAX_ACTIVE_TMUX_CONTROLS
    AuxiliarySlots   \* MAX_CONCURRENT_SSH_AUXILIARY_OPERATIONS

ASSUME AuxiliaryAssumption ==
    /\ {MaxPerSession, ControlSlots, AuxiliarySlots} \subseteq Nat
    /\ Nobody \notin Starts
    /\ Targets # {}

VARIABLES
    scene,      \* the callers, tunnels, starts and queries that take part
    swept,      \* the close under the lane has cancelled the watchers
    controls,   \* per target: the registered watcher
    watch,      \* per start: where it is, then where its watcher is
    cancelled,  \* watchers whose cancel flag is set
    news,       \* watchers with a change they have not announced
    query       \* per query: its kind, its runtime and how far it is

watchVars == <<controls, watch, cancelled, news>>
sideVars == <<scene, swept, watchVars, query>>
allVars == <<vars, sideVars>>

\* A watcher that is installed and not yet unregistered.
LivePhases == {"replacing", "running", "closing"}
\* The lease and the slot of a start go to its watcher.
LeasePhases == LivePhases \cup {"looking", "opening"}
WatchPhases == LeasePhases \cup {"idle", "found", "slots", "done"}

QueryKinds == {"tmux", "health", "sample"}
UnderWay == {"checking", "changing", "applied", "listing", "asking", "finishing"}

\* terminal_channel_open: until the reader has ended.
Screen(r) == task[r] \in {"none", "reading", "draining"}

\* What an answer may rely on about a runtime.
Facts ==
    [r \in Runtimes |->
        {f \in {"registered", "connected", "screen"} :
            /\ ssh = r
            /\ f = "connected" => Connected(r)
            /\ f = "screen" => Screen(r)}]

Idle == [at |-> "idle", kind |-> "tmux", over |-> NoRuntime, lit |-> FALSE,
         verdict |-> "none", held |-> {}]

\* A start: its target, the runtime it looks at, which is that of the watcher
\* it found and then the one it leased, and the watcher it found or replaced.
Start(phase, t, r, e) == [at |-> phase, target |-> t, over |-> r, former |-> e]

SomeTarget == CHOOSE t \in Targets : TRUE
NotStarted == Start("idle", SomeTarget, NoRuntime, Nobody)
Done == [NotStarted EXCEPT !.at = "done"]

WatchRecords ==
    [at : WatchPhases, target : Targets, over : 0 .. made, former : Starts \cup {Nobody}]

WatchTypes ==
    /\ controls \in [Targets -> Starts \cup {Nobody}]
    /\ watch \in [Starts -> WatchRecords]
    /\ cancelled \subseteq Starts
    /\ news \subseteq Starts

QueryRecords ==
    [at : UnderWay \cup {"idle", "answered", "failed"}, kind : QueryKinds,
     over : 0 .. made, lit : BOOLEAN,
     verdict : {"none", "healthy", "degraded", "unresponsive"},
     held : SUBSET {"registered", "connected", "screen"}]

QueryTypes == query \in [Queries -> QueryRecords]

AuxTypeOK ==
    /\ scene \in Scenes
    /\ swept \in BOOLEAN
    /\ WatchTypes
    /\ QueryTypes

AuxInit ==
    /\ Init
    /\ scene \in Scenes /\ profile \in scene.profiles
    /\ swept = FALSE
    /\ controls = [t \in Targets |-> Nobody]
    /\ watch = [w \in Starts |-> NotStarted]
    /\ cancelled = {} /\ news = {}
    /\ query = [q \in Queries |-> Idle]

-----------------------------------------------------------------------------
(* The session moves. *)

\* A close removes the runtime after it has cancelled the watchers, and what no
\* longer holds of a runtime is no longer held by the queries about it.
SessionStep(A) ==
    /\ A
    /\ \A c \in Callers : c \notin scene.callers => pc'[c] = "idle"
    /\ \A t \in Tunnels : t \notin scene.tunnels => start'[t] = "idle"
    /\ \A c \in Callers : pc[c] = "closing" /\ pc'[c] # "closing" => swept
    /\ swept' = (swept /\ \E c \in Callers : pc'[c] = "closing")
    /\ query' = [q \in Queries |->
           IF query[q].at \in UnderWay
           THEN [query[q] EXCEPT !.held = @ \cap Facts'[query[q].over]]
           ELSE query[q]]
    /\ UNCHANGED <<scene, watchVars>>

\* The watchers that are registered.
Registry == {controls[t] : t \in Targets} \ {Nobody}

\* The flag of a watcher that has ended is read by no one.
Cancelled(W) == cancelled \cup {w \in W \cap Starts : watch[w].at \in LivePhases}

\* close_session_under_lifecycle_lock begins with
\* cancel_tmux_control_runtimes_for_session.
CloseCancels(c) ==
    /\ pc[c] = "closing" /\ ~ swept
    /\ swept' = TRUE
    /\ cancelled' = Cancelled(Registry)
    /\ UNCHANGED <<vars, scene, controls, watch, news, query>>

-----------------------------------------------------------------------------
(* start_tmux_control. *)

InUse == Cardinality({w \in Starts : watch[w].at \in LeasePhases})
Leased == InUse + Cardinality({q \in Queries : query[q].at \in UnderWay})

\* acquire_ssh_auxiliary_slot, and the handle of the registered runtime.
MayLease == Leased < AuxiliarySlots /\ ssh # NoRuntime

\* ensure_tmux_control_capacity
HasRoom(t) ==
    \/ controls[t] # Nobody
    \/ /\ Cardinality(Registry) < MaxPerSession
       /\ Cardinality(Registry) < ControlSlots

WatchFrame == UNCHANGED <<vars, scene, swept, query>>

To(w, next) == watch' = [watch EXCEPT ![w] = next]
Phase(w, phase) == To(w, [watch[w] EXCEPT !.at = phase])

\* The watcher of the target that is not cancelled is found; what it is worth
\* is seen after the lock.
Lookup(w, t) ==
    LET e == controls[t] IN
    /\ watch[w].at = "idle" /\ w \in scene.starts
    /\ To(w, IF e \notin cancelled \cup {Nobody}
             THEN Start("found", t, watch[e].over, e)
             ELSE IF HasRoom(t) THEN Start("slots", t, NoRuntime, Nobody) ELSE Done)
    /\ UNCHANGED <<controls, cancelled, news>>
    /\ WatchFrame

\* It is returned while its connection is current, and cancelled otherwise.
Joins(w) ==
    /\ watch[w].at = "found"
    /\ IF Connected(watch[w].over)
       THEN To(w, Done) /\ UNCHANGED cancelled
       ELSE /\ To(w, Start("slots", watch[w].target, NoRuntime, Nobody))
            /\ cancelled' = Cancelled({watch[w].former})
    /\ UNCHANGED <<controls, news>>
    /\ WatchFrame

\* The slots and the handle, and whether the runtime is connected.
Leases(w) ==
    /\ watch[w].at = "slots"
    /\ To(w, IF InUse < ControlSlots /\ MayLease /\ Connected(ssh)
             THEN [watch[w] EXCEPT !.at = "looking", !.over = ssh]
             ELSE Done)
    /\ UNCHANGED <<controls, cancelled, news>>
    /\ WatchFrame

\* A watcher on the leased runtime is returned, one on another is cancelled.
LooksAgain(w) ==
    LET e == controls[watch[w].target]
        runs == e \notin cancelled \cup {Nobody}
    IN
    /\ watch[w].at = "looking"
    /\ IF (runs /\ watch[e].over = watch[w].over) \/ ~ HasRoom(watch[w].target)
       THEN To(w, Done) /\ UNCHANGED cancelled
       ELSE Phase(w, "opening") /\ cancelled' = IF runs THEN Cancelled({e}) ELSE cancelled
    /\ UNCHANGED <<controls, news>>
    /\ WatchFrame

\* open_shared_ssh_exec_channel fails.
OpenChannelFails(w) ==
    /\ watch[w].at = "opening"
    /\ To(w, Done)
    /\ UNCHANGED <<controls, cancelled, news>>
    /\ WatchFrame

\* Mutant: the runtime is not looked at again after the channel was opened.
MayInstallWatchLate(w) == TRUE

\* Under the mutexes of the registry, the store and the watchers: the runtime
\* is still current.
MayInstallWatch(w) == Connected(watch[w].over)

\* The watcher whose place is taken is still to be cancelled.
InstallsOver(w, e) ==
    To(w, [watch[w] EXCEPT !.at = IF e = Nobody THEN "running" ELSE "replacing",
                           !.former = e])

\* The channel is open: install_tmux_control_runtime, with nothing that runs on
\* the same runtime.
Installs(w) ==
    LET t == watch[w].target
        e == controls[t]
        existing == e \notin cancelled \cup {Nobody} /\ watch[e].over = watch[w].over
    IN
    /\ watch[w].at = "opening"
    /\ IF MayInstallWatch(w) /\ ~ existing /\ HasRoom(t)
       THEN InstallsOver(w, e) /\ controls' = [controls EXCEPT ![t] = w]
       ELSE To(w, Done) /\ UNCHANGED controls
    /\ UNCHANGED <<cancelled, news>>
    /\ WatchFrame

\* The watcher that was replaced is cancelled after the mutexes.
Replaces(w) ==
    /\ watch[w].at = "replacing"
    /\ To(w, [watch[w] EXCEPT !.at = "running", !.former = Nobody])
    /\ cancelled' = Cancelled({watch[w].former})
    /\ UNCHANGED <<controls, news>>
    /\ WatchFrame

-----------------------------------------------------------------------------
(* The task of a watcher. *)

\* A line of the control mode that tells of a change; changes are announced
\* together.
Hears(w) ==
    /\ watch[w].at = "running" /\ w \in scene.heard
    /\ news' = news \cup {w}
    /\ UNCHANGED <<controls, watch, cancelled>>
    /\ WatchFrame

\* The ticker: a change is announced after a pause, or a second after it came.
Tells(w) ==
    /\ watch[w].at = "running" /\ w \in news \ cancelled
    /\ news' = news \ {w}
    /\ UNCHANGED <<controls, watch, cancelled>>
    /\ WatchFrame

\* Mutant: a change not yet announced is lost.
EndsSilently(w) == Phase(w, "closing") /\ UNCHANGED news

\* A change not yet announced is, and the channel is closed.
EndsLoud(w) == Phase(w, "closing") /\ news' = news \ {w}

Ends(w) ==
    /\ watch[w].at = "running"
    /\ EndsLoud(w)
    /\ UNCHANGED <<controls, cancelled>>
    /\ WatchFrame

TickerStops(w) == w \in cancelled /\ Ends(w)

\* The ticker of the parent, every second.
ParentIsGone(w) == ~ Connected(watch[w].over) /\ Ends(w)

\* The end of the channel, a failure, too long a line or too much of an error.
ChannelEnds(w) == Ends(w)

\* Mutant: a watcher that ends takes whatever is registered for its target.
UnregisteredAnyway(w) == [controls EXCEPT ![watch[w].target] = Nobody]

\* Only its own entry: another may have replaced it.
Unregistered(w) ==
    [controls EXCEPT ![watch[w].target] = IF @ = w THEN Nobody ELSE @]

\* The watcher is taken off, and gives back the lease and the slot.
Unregisters(w) ==
    /\ watch[w].at = "closing"
    /\ To(w, Done)
    /\ controls' = Unregistered(w)
    /\ cancelled' = cancelled \ {w}
    /\ UNCHANGED news
    /\ WatchFrame

-----------------------------------------------------------------------------
(* Stopping from outside. *)

CancelOnly(W) ==
    /\ cancelled' = Cancelled(W)
    /\ UNCHANGED <<watch, news>>
    /\ WatchFrame

\* stop_tmux_control: one watcher, whose id may be asked for, or all.
StopsOne(t) ==
    /\ controls[t] \notin cancelled \cup {Nobody}
    /\ CancelOnly({controls[t]})
    /\ UNCHANGED controls

StopsAll ==
    /\ ~ Registry \subseteq cancelled
    /\ CancelOnly(Registry)
    /\ UNCHANGED controls

\* shutdown_tmux_controls, when the application exits.
Shutdown ==
    /\ Registry # {}
    /\ CancelOnly(Registry)
    /\ controls' = [t \in Targets |-> Nobody]

-----------------------------------------------------------------------------
(* Operations that ask once. *)

QueryFrame == UNCHANGED <<vars, scene, swept, watchVars>>

Query(q, r) == query' = [query EXCEPT ![q] = r] /\ QueryFrame

At(q, phase) == Query(q, [query[q] EXCEPT !.at = phase])
Fails(q) == Query(q, [Idle EXCEPT !.at = "failed"])

\* ssh_auxiliary_lease_with_runtime: a slot, and the registered runtime with
\* whether its terminal channel is open.  One that is refused leaves nothing.
Asks(q, kind) ==
    /\ query[q].at = "idle" /\ q \in scene.queries
    /\ MayLease
    /\ Query(q, [Idle EXCEPT !.at = IF kind = "tmux" THEN "checking" ELSE "asking",
                             !.kind = kind, !.over = ssh, !.lit = kind = "health" /\ Screen(ssh),
                             !.held = Facts[ssh] \ {"connected"}])

\* tmux_auxiliary_lease: the runtime is connected.  A listing is asked for, or a
\* change and then a listing.
CheckHolds(q) ==
    /\ query[q].at = "checking"
    /\ IF Connected(query[q].over)
       THEN \E phase \in {"changing", "listing"} :
                Query(q, [query[q] EXCEPT !.at = phase, !.held = @ \cup {"connected"}])
       ELSE Fails(q)

\* exec_ssh_command_capture
ChangeAnswers(q) ==
    /\ query[q].at = "changing"
    /\ At(q, "applied") \/ Fails(q)

\* record_applied_system_event: a change is on record before the listing.
Records(q) == query[q].at = "applied" /\ At(q, "listing")

\* list_tmux_state_with_handle
ListAnswers(q) ==
    /\ query[q].at = "listing"
    /\ At(q, "finishing") \/ Fails(q)

\* The command and the SFTP probe leave a report healthy, which it is only with
\* an open terminal channel, or degrade it.
Probed(q) == {"degraded"} \cup {v \in {"healthy"} : query[q].lit}

\* The ping decides whether the transport responds at all.
HealthAnswers(q) ==
    /\ query[q].at = "asking" /\ query[q].kind = "health"
    /\ \E v \in {"unresponsive"} \cup Probed(q) :
        Query(q, [query[q] EXCEPT !.at = "finishing", !.verdict = v, !.lit = FALSE])

\* collect_remote_sysmon: the platform, then its commands.
SampleIsTaken(q) ==
    /\ query[q].at = "asking" /\ query[q].kind = "sample"
    /\ At(q, "finishing") \/ Fails(q)

FinishesTmux(q) ==
    /\ query[q].at = "finishing" /\ query[q].kind = "tmux"
    /\ IF Connected(query[q].over) THEN At(q, "answered") ELSE Fails(q)

\* Mutant: the terminal channel is not read again.
VerdictAtStart(q) == query[q].verdict

\* A terminal channel that has closed in between degrades the report.
Verdict(q) ==
    IF query[q].verdict = "healthy" /\ ~ Screen(query[q].over) THEN "degraded"
    ELSE query[q].verdict

\* finish_health_report: the runtime is still the registered one.
FinishesHealth(q) ==
    /\ query[q].at = "finishing" /\ query[q].kind = "health"
    /\ IF ssh = query[q].over
       THEN Query(q, [query[q] EXCEPT !.at = "answered", !.verdict = Verdict(q)])
       ELSE Fails(q)

\* Mutant: the sample of a connection that was replaced is recorded.
SampleIsAlwaysOfTarget(q) == profile # "gone"

\* validate_sysmon_collection_target
SampleIsOfTarget(q) == profile # "gone" /\ ssh = query[q].over

\* commit_sysmon_snapshot_for_target
CommitsSample(q) ==
    /\ query[q].at = "finishing" /\ query[q].kind = "sample"
    /\ \/ SampleIsOfTarget(q) /\ At(q, "answered")
       \/ (StoreFails \/ ~ SampleIsOfTarget(q)) /\ Fails(q)

-----------------------------------------------------------------------------
StartStep(w) ==
    \/ Joins(w) \/ Leases(w) \/ LooksAgain(w) \/ OpenChannelFails(w) \/ Installs(w)
    \/ Replaces(w)

WatcherStep(w) ==
    \/ Tells(w) \/ TickerStops(w) \/ ParentIsGone(w) \/ Unregisters(w)

QueryStep(q) ==
    \/ CheckHolds(q) \/ ChangeAnswers(q) \/ Records(q) \/ ListAnswers(q) \/ HealthAnswers(q)
    \/ SampleIsTaken(q) \/ FinishesTmux(q) \/ FinishesHealth(q) \/ CommitsSample(q)

AuxNext ==
    \/ SessionStep(Next)
    \/ \E c \in Callers : CloseCancels(c)
    \/ \E w \in Starts :
        \/ \E t \in Targets : Lookup(w, t)
        \/ StartStep(w) \/ WatcherStep(w) \/ Hears(w) \/ ChannelEnds(w)
    \/ \E t \in Targets : StopsOne(t)
    \/ StopsAll \/ Shutdown
    \/ \E q \in Queries : QueryStep(q) \/ \E k \in QueryKinds : Asks(q, k)

\* Tasks and commands go on: every await has a timeout, the lane is a tokio
\* mutex, which is handed over in order of arrival, and tickers tick.
AuxFairness ==
    /\ \A c \in Callers :
        /\ SF_allVars(SessionStep(TakeLane(c)))
        /\ WF_allVars(SessionStep(OpenStep(c))) /\ WF_allVars(SessionStep(CloseStep(c)))
        /\ WF_allVars(CloseCancels(c))
    /\ \A r \in Runtimes : WF_allVars(SessionStep(TaskStep(r)))
    /\ \A w \in Starts :
        WF_allVars(Tells(w)) /\ WF_allVars(TickerStops(w)) /\ WF_allVars(ParentIsGone(w))

AuxSpec == AuxInit /\ [][AuxNext]_allVars

FairAuxSpec == AuxSpec /\ AuxFairness

-----------------------------------------------------------------------------
(* Properties. *)

\* A watcher that goes on can be reached: it is registered for its target, so
\* that a stop or a close finds it, though starts may open channels for one
\* target at once and across a reconnect; and what is registered has a task that
\* will take it off.
WatchersAreReachable ==
    /\ \A w \in Starts :
        watch[w].at = "running" /\ w \notin cancelled => controls[watch[w].target] = w
    /\ \A t \in Targets :
        controls[t] # Nobody =>
            watch[controls[t]].at \in LivePhases /\ watch[controls[t]].target = t

\* An answer is about one connection: the runtime that was asked has been
\* registered all along, and connected for a tmux listing; a terminal channel
\* that is reported healthy has been open all along.
AnswerIsSteady(x) ==
    x.at = "answered" =>
        /\ "registered" \in x.held
        /\ x.kind = "tmux" => "connected" \in x.held
        /\ x.verdict = "healthy" => "screen" \in x.held

AnswersAreSteady == \A q \in Queries : AnswerIsSteady(query[q])

\* Both, of the work beside the terminal.
SideWorkIsSound == WatchersAreReachable /\ AnswersAreSteady

\* A change that was heard is announced whatever ends the watcher, and no
\* watcher outlives its connection, whenever it was installed.
WatchersEnd ==
    \A w \in Starts :
        LET lost == watch[w].at = "running" /\ ~ Connected(watch[w].over)
            behind == w \in news \/ lost
        IN behind ~> ~ behind

-----------------------------------------------------------------------------
(* The inductive invariant. *)

\* The reader of a runtime has ended, or another took its place: it is never
\* connected again.
PastReading == ReconnectTasks \cup {"done"}
Gone(r) == ssh # r \/ task[r] \in PastReading

\* What is leased is a runtime that was made.
StartsLease == \A w \in Starts : watch[w].at \in LeasePhases => watch[w].over # NoRuntime
QueriesLease == \A q \in Queries : query[q].at \in UnderWay => query[q].over # NoRuntime

\* A watcher that is not cancelled is registered, and what is registered lives.
WatchersAreListed ==
    /\ \A w \in Starts :
        watch[w].at \in {"replacing", "running"} /\ w \notin cancelled =>
            controls[watch[w].target] = w
    /\ \A t \in Targets :
        controls[t] # Nobody =>
            watch[controls[t]].at \in LivePhases /\ watch[controls[t]].target = t

\* While a start opens its channel, a watcher of the target that goes on is one
\* on the same runtime, or the start comes too late.
RivalsAreCurrent ==
    \A w \in Starts :
        LET e == controls[watch[w].target] IN
        watch[w].at = "opening" /\ e \notin cancelled \cup {Nobody} =>
            watch[e].over = watch[w].over \/ Gone(watch[w].over)

\* What a query under way holds is so, and what it no longer holds its runtime
\* will not have again.
HoldsFacts(x) ==
    x.at \in UnderWay =>
        /\ x.held \subseteq Facts[x.over]
        /\ "registered" \in x.held \/ ssh # x.over
        /\ x.kind = "tmux" /\ x.at # "checking" => "connected" \in x.held \/ Gone(x.over)
        /\ x.lit \/ x.verdict = "healthy" =>
            /\ x.kind = "health"
            /\ "screen" \in x.held \/ ssh # x.over \/ ~ Screen(x.over)

QueriesHoldFacts == \A q \in Queries : HoldsFacts(query[q])

WatchInvariant == WatchTypes /\ StartsLease /\ WatchersAreListed /\ RivalsAreCurrent
QueryInvariant == QueryTypes /\ QueriesLease /\ QueriesHoldFacts /\ AnswersAreSteady

AuxInvariant ==
    /\ SessionInvariant
    /\ AuxTypeOK
    /\ WatchInvariant
    /\ QueryInvariant

-----------------------------------------------------------------------------
\* For TLC: the session with all its callers, with tunnels and one caller, and
\* the work beside the terminal with one caller.
SideScenes ==
    LET c == CHOOSE c \in Callers : TRUE
        w == CHOOSE w \in Starts : TRUE
        Scene(C, T, P, W, H, Q) ==
            [callers |-> C, tunnels |-> T, profiles |-> P,
             starts |-> W, heard |-> H, queries |-> Q]
    IN {Scene(Callers, {}, Settings \cup {"off"}, {}, {}, {}),
        Scene({c}, Tunnels, Settings \cup {"off"}, {}, {}, {}),
        Scene({c}, {}, {"off"}, Starts, {}, {}),
        Scene({c}, {}, Settings, {w}, {w}, {}),
        Scene({c}, {}, Settings, {}, {}, Queries)}
=============================================================================
