----------------------------- MODULE TransferQueue -----------------------------
(***************************************************************************)
(* The file-transfer queue of PortMate's desktop process.                  *)
(*                                                                         *)
(* start_transfer registers a cancellation token, commits a Queued record  *)
(* to the SessionStore and spawns a runner.  Runners of one session        *)
(* serialise on that session's lane (a tokio Mutex found in the map        *)
(* transfer_lanes), re-check the SSH runtime they were submitted for, mark *)
(* the record Running, transfer, and commit a final status.  Concurrently  *)
(* users cancel transfers, the updater cancels all of them, runtimes are   *)
(* lost and replaced, profiles are deleted and created again, saves fail,  *)
(* and the process restarts from what is on disk.                          *)
(*                                                                         *)
(* Every store access is one step because the code holds the SessionStore  *)
(* mutex for it; what two lock regions separate is two steps.              *)
(***************************************************************************)
EXTENDS Naturals, FiniteSets

CONSTANTS
    Sessions,            \* profile ids
    Tasks,               \* transfer ids a run may hand out (Uuid::new_v4)
    SessionOf,           \* the session each request names
    KindOf,              \* which runtime its protocol depends on
    ContentTasks,        \* requests with a staged MCP content file
    Users,               \* concurrent callers of cancel_transfer
    Updater,             \* the update command, which cancels everything
    None,                \* no lane, no task
    MaxActive,           \* MAX_ACTIVE_TRANSFER_TASKS
    MaxActivePerSession, \* MAX_ACTIVE_TRANSFERS_PER_SESSION
    MaxHistory,          \* MAX_TERMINAL_TRANSFERS_PER_SESSION
    MaxRuntimes,         \* bound: runtime generations per session
    MaxDeletes,          \* bound: profile deletions
    Updates,             \* bound: whether the updater ever runs
    MaxRestarts          \* bound: process restarts

\* "ssh": SFTP/SCP with a remote path; "modem": TFTP, X/Y/ZModem;
\* "local": SFTP/SCP between two local paths.
Kinds == {"ssh", "modem", "local"}

Cancellers == Users \cup {Updater}

ASSUME WorkloadAssumption ==
    /\ SessionOf \in [Tasks -> Sessions]
    /\ KindOf \in [Tasks -> Kinds]
    /\ ContentTasks \subseteq Tasks
    /\ Updater \notin Users
    /\ None \notin Tasks

ASSUME LimitsAssumption ==
    /\ MaxActive \in Nat
    /\ MaxActivePerSession \in Nat
    /\ MaxHistory \in Nat
    /\ MaxRuntimes \in Nat
    /\ MaxDeletes \in Nat
    /\ MaxRestarts \in Nat
    /\ Updates \in BOOLEAN

VARIABLES
    store,      \* in-memory SessionStore: profiles, transfer status, recency
    disk,       \* the persisted snapshot of it
    link,       \* per session: is a runtime registered, is it Connected
    gen,        \* per session: generation (runtime_id) of the last runtime
    pc,         \* per task: where its submission or its runner is
    outcome,    \* per task: the status its runner is about to commit
    expected,   \* per task: expected_ssh_runtime_id, 0 for None
    binding,    \* per task: modem_binding's runtime, 0 for None
    laneOf,     \* per task: the lane it queues on
    holds,      \* the tasks that hold their lane
    lanes,      \* transfer_lanes: per session the lane new tasks are given
    registered, \* domain of transfer_cancellations
    cancelled,  \* tasks whose cancellation token is set
    staged,     \* domain of mcp_content_transfer_staging
    cancelling, \* per canceller: the cancel call between its two locks
    upd,        \* the update command's phase
    todo,       \* transfers it has still to cancel
    deleting,   \* sessions whose deletion is committed, cleanup pending
    doomed,     \* the transfer ids each such deletion collected
    deletes,    \* counts deletions
    restarts    \* counts restarts

persistVars == <<store, disk>>
linkVars    == <<link, gen>>
runnerVars  == <<pc, outcome, expected, binding, laneOf, holds>>
tokenVars   == <<registered, cancelled, staged>>
updateVars  == <<upd, todo>>
deleteVars  == <<deleting, doomed, deletes>>
vars == <<persistVars, linkVars, runnerVars, tokenVars, lanes, cancelling,
          updateVars, deleteVars, restarts>>

-----------------------------------------------------------------------------
(* The transfer records of the store.                                      *)

Active   == {"Queued", "Running"}
Terminal == {"Completed", "Failed", "Cancelled"}
Statuses == {"none"} \cup Active \cup Terminal   \* "none": no record

\* newer[t] is the set of records stamped (queued or finished) after t was.
Stores == [profiles : SUBSET Sessions,
           status   : [Tasks -> Statuses],
           newer    : [Tasks -> SUBSET Tasks]]

TasksOf(s) == {t \in Tasks : SessionOf[t] = s}

ActiveTasks(st) == {t \in Tasks : st.status[t] \in Active}

\* Gives t a status and makes it the most recently stamped record.
Stamp(st, t, new) ==
    [profiles |-> st.profiles,
     status   |-> [st.status EXCEPT ![t] = new],
     newer    |-> [u \in Tasks |->
                     IF u = t \/ st.status[u] = "none" THEN {}
                     ELSE st.newer[u] \cup {t}]]

Forget(st, D) ==
    [profiles |-> st.profiles,
     status   |-> [t \in Tasks |-> IF t \in D THEN "none" ELSE st.status[t]],
     newer    |-> [t \in Tasks |-> IF t \in D THEN {} ELSE st.newer[t] \ D]]

WithProfiles(st, ids) ==
    [profiles |-> ids, status |-> st.status, newer |-> st.newer]

\* The terminal records of s beyond the MaxHistory most recent ones.
Surplus(st, s) ==
    LET finished == {t \in TasksOf(s) : st.status[t] \in Terminal}
    IN  {t \in finished : Cardinality(st.newer[t] \cap finished) >= MaxHistory}

TrimHistory(st, s) == Forget(st, Surplus(st, s))

\* persist_applied_store: the change stays in memory whether or not the save
\* succeeds.
PersistApplied == disk' \in {disk, store'}

-----------------------------------------------------------------------------
(* Runtimes.  link[s]: "none" neither registered nor Connected, "up" both, *)
(* "lost" registered while reconnecting, "closing" already unregistered    *)
(* while the store still says Connected.                                   *)

LinkStates == {"none", "up", "lost", "closing"}

Registered(s) == link[s] \in {"up", "lost"}

\* ssh_runtime_connected for generation g.
RuntimeConnected(s, g) == link[s] = "up" /\ gen[s] = g

\* transfer_ssh_runtime_id without a required id.
SshRuntime(t) ==
    IF KindOf[t] = "ssh" /\ link[SessionOf[t]] = "up"
    THEN gen[SessionOf[t]] ELSE 0

\* An open, or a reconnect's install: a runtime with an id never used before.
InstallRuntime(s) ==
    /\ s \in store.profiles
    /\ link[s] \in {"none", "lost"}
    /\ gen[s] < MaxRuntimes
    /\ link' = [link EXCEPT ![s] = "up"]
    /\ gen' = [gen EXCEPT ![s] = @ + 1]
    /\ UNCHANGED <<persistVars, runnerVars, tokenVars, lanes, cancelling,
                   updateVars, deleteVars, restarts>>

\* The connection drops (reconnect pending, or gone for good), a close takes
\* the runtime out of the registry and later commits Disconnected.
LinkSteps == {<<"up", "lost">>, <<"up", "none">>, <<"up", "closing">>,
              <<"lost", "none">>, <<"closing", "none">>}

LoseRuntime(s) ==
    /\ \E step \in LinkSteps : /\ link[s] = step[1]
                               /\ link' = [link EXCEPT ![s] = step[2]]
    /\ UNCHANGED <<persistVars, gen, runnerVars, tokenVars, lanes, cancelling,
                   updateVars, deleteVars, restarts>>

-----------------------------------------------------------------------------
(* start_transfer_inner_with_context, up to the lock of the store.         *)

Updating == upd # "idle"

\* Holders of a permit of transfer_task_slots.
InFlight == {t \in Tasks : pc[t] \notin {"idle", "done"}}

\* transfer_lane: the session's lane, created (and named) by its first user.
TransferLane(t) ==
    IF lanes[SessionOf[t]] = None THEN t ELSE lanes[SessionOf[t]]

Submit(t) ==
    LET s == SessionOf[t]
    IN  /\ pc[t] = "idle"
        /\ ~Updating
        /\ s \in store.profiles
        /\ Cardinality(InFlight) < MaxActive
        /\ pc' = [pc EXCEPT ![t] = "submitting"]
        /\ expected' = [expected EXCEPT ![t] = SshRuntime(t)]
        /\ lanes' = [lanes EXCEPT ![s] = TransferLane(t)]
        /\ laneOf' = [laneOf EXCEPT ![t] = TransferLane(t)]
        /\ registered' = registered \cup {t}
        /\ staged' = staged \cup ({t} \cap ContentTasks)
        /\ UNCHANGED <<persistVars, linkVars, outcome, binding, holds,
                       cancelled, cancelling, updateVars, deleteVars, restarts>>

\* retry_transfer: the request of a failed or cancelled record, submitted anew;
\* a staged content file is gone by then and cannot be retried.
Retry(old, t) ==
    /\ store.status[old] \in {"Failed", "Cancelled"}
    /\ old \notin ContentTasks /\ t \notin ContentTasks
    /\ SessionOf[old] = SessionOf[t] /\ KindOf[old] = KindOf[t]
    /\ Submit(t)

\* Mutant: the update flag is only checked before the lock.
MayEnqueueWhileUpdating(t) ==
    /\ SessionOf[t] \in store.profiles
    /\ Cardinality(ActiveTasks(store)) + 1 <= MaxActive
    /\ Cardinality(ActiveTasks(store) \cap TasksOf(SessionOf[t])) + 1
         <= MaxActivePerSession

\* The checks repeated inside the commit, under the store lock.
MayEnqueue(t) ==
    /\ ~Updating
    /\ SessionOf[t] \in store.profiles
    /\ Cardinality(ActiveTasks(store)) + 1 <= MaxActive
    /\ Cardinality(ActiveTasks(store) \cap TasksOf(SessionOf[t])) + 1
         <= MaxActivePerSession

EnqueuedStore(t) == TrimHistory(Stamp(store, t, "Queued"), SessionOf[t])

Enqueue(t) ==
    /\ pc[t] = "submitting"
    /\ MayEnqueue(t)
    /\ store' = EnqueuedStore(t)
    /\ disk' = store'
    /\ pc' = [pc EXCEPT ![t] = "waiting"]
    /\ UNCHANGED <<linkVars, outcome, expected, binding, laneOf, holds,
                   tokenVars, lanes, cancelling, updateVars, deleteVars,
                   restarts>>

\* A runner or a refused submission is gone: its locals, its token's last
\* reference, its lane guard and its permit with it.
Exit(t) ==
    /\ pc' = [pc EXCEPT ![t] = "done"]
    /\ outcome' = [outcome EXCEPT ![t] = "none"]
    /\ expected' = [expected EXCEPT ![t] = 0]
    /\ binding' = [binding EXCEPT ![t] = 0]
    /\ laneOf' = [laneOf EXCEPT ![t] = None]
    /\ holds' = holds \ {t}
    /\ cancelled' = cancelled \ {t}

\* Mutant: the token's entry is kept.
KeepToken(t) == registered' = registered /\ staged' = staged \ {t}

\* cleanup_mcp_content_transfer_staging and the removal of the token.
DropRegistrations(t) ==
    /\ staged' = staged \ {t}
    /\ registered' = registered \ {t}

\* A check failed, the save was refused, or its result is unknown: memory is
\* rolled back, the snapshot may be on disk, token and staging are cleaned up.
RefuseEnqueue(t) ==
    /\ pc[t] = "submitting"
    /\ \/ ~MayEnqueue(t) /\ disk' = disk
       \/ MayEnqueue(t) /\ disk' \in {disk, EnqueuedStore(t)}
    /\ DropRegistrations(t)
    /\ Exit(t)
    /\ UNCHANGED <<store, linkVars, lanes, cancelling, updateVars, deleteVars,
                   restarts>>

-----------------------------------------------------------------------------
(* run_queued_transfer.                                                    *)

Goto(t, label) == pc' = [pc EXCEPT ![t] = label]

\* Leave the body with a final status: finish_transfer_task is next.
FinishAs(t, final) ==
    /\ Goto(t, "cleanup")
    /\ outcome' = [outcome EXCEPT ![t] = final]

\* What a runner step never touches.
RunnerFrame == UNCHANGED <<linkVars, lanes, cancelling, updateVars, deleteVars,
                           restarts>>

LaneFree(lane) == \A u \in holds : laneOf[u] # lane

\* tokio::select! on the lane and on the token.
TakeLane(t) ==
    /\ pc[t] = "waiting"
    /\ LaneFree(laneOf[t])
    /\ holds' = holds \cup {t}
    /\ Goto(t, "gate")
    /\ RunnerFrame
    /\ UNCHANGED <<persistVars, outcome, expected, binding, laneOf, tokenVars>>

\* Mutant: the token is only looked at once the lane is free.
CancelledAtLane(t) ==
    /\ pc[t] = "waiting"
    /\ t \in cancelled
    /\ LaneFree(laneOf[t])
    /\ FinishAs(t, "Cancelled")
    /\ RunnerFrame
    /\ UNCHANGED <<persistVars, expected, binding, laneOf, holds, tokenVars>>

CancelledInLine(t) ==
    /\ pc[t] = "waiting"
    /\ t \in cancelled
    /\ FinishAs(t, "Cancelled")
    /\ RunnerFrame
    /\ UNCHANGED <<persistVars, expected, binding, laneOf, holds, tokenVars>>

\* Once the lane is held: cancelled meanwhile, or the runtime the request was
\* submitted for is no longer the connected one.
Gate(t) ==
    LET stale == expected[t] # 0
                 /\ ~RuntimeConnected(SessionOf[t], expected[t])
    IN  /\ pc[t] = "gate"
        /\ \/ t \in cancelled /\ FinishAs(t, "Cancelled")
           \/ t \notin cancelled /\ stale /\ FinishAs(t, "Failed")
           \/ /\ t \notin cancelled /\ ~stale
              /\ Goto(t, "validate") /\ UNCHANGED outcome
        /\ RunnerFrame
        /\ UNCHANGED <<persistVars, expected, binding, laneOf, holds, tokenVars>>

\* validate_current_transfer_protocol (the profile may be gone, or edited so
\* that it no longer allows the protocol), then the late choice of a runtime.
Validate(t) ==
    /\ pc[t] = "validate"
    /\ LET unbound == KindOf[t] = "ssh" /\ expected[t] = 0 IN
       \/ FinishAs(t, "Failed") /\ UNCHANGED expected
       \/ /\ SessionOf[t] \in store.profiles
          /\ unbound => SshRuntime(t) # 0
          /\ expected' = IF unbound
                         THEN [expected EXCEPT ![t] = SshRuntime(t)]
                         ELSE expected
          /\ Goto(t, "mark") /\ UNCHANGED outcome
    /\ RunnerFrame
    /\ UNCHANGED <<persistVars, binding, laneOf, holds, tokenVars>>

MarkedStore(t) ==
    [profiles |-> store.profiles,
     status   |-> [store.status EXCEPT ![t] = "Running"],
     newer    |-> store.newer]

\* The record is gone, was cancelled, or could not be saved as Running (then
\* memory is rolled back, disk may have it).
MarkRefused(t) ==
    \/ store.status[t] = "none" /\ FinishAs(t, "Failed") /\ UNCHANGED disk
    \/ store.status[t] = "Cancelled" /\ FinishAs(t, "Cancelled") /\ UNCHANGED disk
    \/ /\ store.status[t] \notin {"none", "Cancelled"}
       /\ FinishAs(t, "Failed")
       /\ disk' \in {disk, MarkedStore(t)}

MarkTransferRunning(t) ==
    /\ pc[t] = "mark"
    /\ \/ MarkRefused(t) /\ UNCHANGED store
       \/ /\ store.status[t] \notin {"none", "Cancelled"}
          /\ store' = MarkedStore(t) /\ disk' = store'
          /\ Goto(t, IF KindOf[t] = "modem" THEN "bind" ELSE "transfer")
          /\ UNCHANGED outcome
    /\ RunnerFrame
    /\ UNCHANGED <<expected, binding, laneOf, holds, tokenVars>>

\* transfer_modem_binding: the binding is stored in the registered token.
BindModem(t) ==
    LET s == SessionOf[t] IN
    /\ pc[t] = "bind"
    /\ \/ FinishAs(t, "Failed") /\ UNCHANGED binding
       \/ /\ link[s] = "up"
          /\ binding' = [binding EXCEPT ![t] =
                           IF t \in registered THEN gen[s] ELSE 0]
          /\ IF t \in cancelled
             THEN FinishAs(t, "Cancelled")
             ELSE Goto(t, "transfer") /\ UNCHANGED outcome
    /\ RunnerFrame
    /\ UNCHANGED <<persistVars, expected, laneOf, holds, tokenVars>>

\* The transfer notices the token, or a progress update meets a cancelled
\* record: TRANSFER_CANCELLED_MESSAGE.
TransferAborts(t) ==
    /\ pc[t] = "transfer"
    /\ t \in cancelled \/ store.status[t] = "Cancelled"
    /\ FinishAs(t, "Cancelled")
    /\ RunnerFrame
    /\ UNCHANGED <<persistVars, expected, binding, laneOf, holds, tokenVars>>

\* The transfer returns.  A result that arrives after the token was set counts
\* as cancelled, a modem result needs its binding.
TransferEnds(t) ==
    LET unbound == KindOf[t] = "modem" /\ binding[t] = 0 IN
    /\ pc[t] = "transfer"
    /\ \/ FinishAs(t, "Failed")
       \/ t \in cancelled /\ FinishAs(t, "Cancelled")
       \/ t \notin cancelled /\ FinishAs(t, IF unbound THEN "Failed" ELSE "Completed")
    /\ RunnerFrame
    /\ UNCHANGED <<persistVars, expected, binding, laneOf, holds, tokenVars>>

\* finish_transfer_task_for_generations: staging and token first ...
FinishCleanup(t) ==
    /\ pc[t] = "cleanup"
    /\ DropRegistrations(t)
    /\ Goto(t, "commit")
    /\ RunnerFrame
    /\ UNCHANGED <<persistVars, outcome, expected, binding, laneOf, holds,
                   cancelled>>

\* Mutant: any connected runtime of the session will do.
RuntimePermitsAny(t) ==
    expected[t] # 0 => link[SessionOf[t]] = "up"

\* ... then, with the registry and the store locked, the final status.
RuntimePermits(t) ==
    LET s == SessionOf[t] IN
    /\ expected[t] # 0 => RuntimeConnected(s, expected[t])
    /\ binding[t] # 0 => ~Registered(s) \/ gen[s] = binding[t]

\* Mutant: the runner's result wins over a cancellation.
FinalStatusOfRunner(t) ==
    IF outcome[t] = "Completed" /\ ~RuntimePermits(t) THEN "Failed" ELSE outcome[t]

FinalStatus(t) ==
    IF store.status[t] = "Cancelled" THEN "Cancelled"
    ELSE IF outcome[t] = "Completed" /\ ~RuntimePermits(t) THEN "Failed"
    ELSE outcome[t]

FinishCommit(t) ==
    /\ pc[t] = "commit"
    /\ IF store.status[t] = "none"
       THEN UNCHANGED persistVars
       ELSE /\ store' = TrimHistory(Stamp(store, t, FinalStatus(t)), SessionOf[t])
            /\ PersistApplied
    /\ Exit(t)
    /\ RunnerFrame
    /\ UNCHANGED <<registered, staged>>

Runner(t) ==
    \/ TakeLane(t) \/ CancelledInLine(t) \/ Gate(t) \/ Validate(t)
    \/ MarkTransferRunning(t) \/ BindModem(t)
    \/ TransferAborts(t) \/ TransferEnds(t)
    \/ FinishCleanup(t) \/ FinishCommit(t)

-----------------------------------------------------------------------------
(* cancel_transfer: the token is looked up under one lock, the record      *)
(* changed under another.                                                  *)

NoCancel == [task |-> None, token |-> FALSE]

LookUp(c, t) ==
    cancelling' = [cancelling EXCEPT ![c] =
                     [task |-> t, token |-> t \in registered]]

\* A user knows an id once start_transfer returned or a snapshot listed it.
CancelBegin(c, t) ==
    /\ cancelling[c] = NoCancel
    /\ pc[t] \notin {"idle", "submitting"}
    /\ LookUp(c, t)
    /\ UNCHANGED <<persistVars, linkVars, runnerVars, tokenVars, lanes,
                   updateVars, deleteVars, restarts>>

CancelledStore(t) ==
    TrimHistory(IF store.status[t] \in Active
                THEN Stamp(store, t, "Cancelled") ELSE store,
                SessionOf[t])

TokensAfterCancel(c, t) ==
    IF store.status[t] \in Active /\ cancelling[c].token
    THEN cancelled \cup {t} ELSE cancelled

CancelCommit(c) ==
    LET t == cancelling[c].task IN
    /\ t # None
    /\ store.status[t] # "none"
    /\ cancelled' = TokensAfterCancel(c, t)
    /\ store' = CancelledStore(t)
    /\ PersistApplied
    /\ cancelling' = [cancelling EXCEPT ![c] = NoCancel]
    /\ UNCHANGED <<linkVars, runnerVars, registered, staged, lanes, updateVars,
                   deleteVars, restarts>>

\* "unknown transfer": trimmed or deleted meanwhile.  The updater gives up.
CancelUnknown(c) ==
    /\ cancelling[c].task # None
    /\ store.status[cancelling[c].task] = "none"
    /\ cancelling' = [cancelling EXCEPT ![c] = NoCancel]
    /\ IF c = Updater THEN upd' = "idle" /\ todo' = {}
                      ELSE UNCHANGED updateVars
    /\ UNCHANGED <<persistVars, linkVars, runnerVars, tokenVars, lanes,
                   deleteVars, restarts>>

-----------------------------------------------------------------------------
(* prepare_for_update.                                                     *)

UpdateFrame == UNCHANGED <<persistVars, linkVars, runnerVars, tokenVars, lanes,
                           deleteVars, restarts>>

\* The downloaded update is verified: no new work from here on.
UpdateBegin ==
    /\ Updates
    /\ upd = "idle"
    /\ upd' = "preparing"
    /\ UpdateFrame
    /\ UNCHANGED <<todo, cancelling>>

UpdateSnapshot ==
    /\ upd = "preparing"
    /\ upd' = "cancelling"
    /\ todo' = ActiveTasks(store)
    /\ UpdateFrame
    /\ UNCHANGED cancelling

\* Mutant: the cancelled transfer stays on the list.
UpdateCancelAgain(t) ==
    /\ upd = "cancelling"
    /\ t \in todo
    /\ cancelling[Updater] = NoCancel
    /\ LookUp(Updater, t)
    /\ UpdateFrame
    /\ UNCHANGED updateVars

UpdateCancel(t) ==
    /\ upd = "cancelling"
    /\ t \in todo
    /\ cancelling[Updater] = NoCancel
    /\ todo' = todo \ {t}
    /\ LookUp(Updater, t)
    /\ UpdateFrame
    /\ UNCHANGED upd

UpdatePrepared ==
    /\ upd = "cancelling"
    /\ todo = {}
    /\ cancelling[Updater] = NoCancel
    /\ upd' = "prepared"
    /\ UpdateFrame
    /\ UNCHANGED <<todo, cancelling>>

\* A later part of the preparation, or the installer, fails.
UpdateFails ==
    /\ Updating
    /\ cancelling[Updater] = NoCancel
    /\ upd' = "idle"
    /\ todo' = {}
    /\ UpdateFrame
    /\ UNCHANGED cancelling

-----------------------------------------------------------------------------
(* Profiles.                                                               *)

WithoutProfile(s) ==
    WithProfiles(Forget(store, TasksOf(s)), store.profiles \ {s})

MayDelete(s) ==
    /\ s \in store.profiles
    /\ s \notin deleting
    /\ deletes < MaxDeletes
    /\ link[s] = "none"
    /\ ActiveTasks(store) \cap TasksOf(s) = {}

DeleteProfile(s) ==
    /\ MayDelete(s)
    /\ store' = WithoutProfile(s)
    /\ disk' = store'
    /\ deleting' = deleting \cup {s}
    /\ doomed' = [doomed EXCEPT ![s] =
                    {t \in TasksOf(s) : store.status[t] # "none"}]
    /\ deletes' = deletes + 1
    /\ UNCHANGED <<linkVars, runnerVars, tokenVars, lanes, cancelling,
                   updateVars, restarts>>

\* The commit's result is unknown: refused in memory, effective on disk.
DeleteUnknown(s) ==
    /\ MayDelete(s)
    /\ disk' = WithoutProfile(s)
    /\ deletes' = deletes + 1
    /\ UNCHANGED <<store, linkVars, runnerVars, tokenVars, lanes, cancelling,
                   updateVars, deleting, doomed, restarts>>

\* cleanup_deleted_session_runtime_state, after the store is unlocked.
DeleteCleanup(s) ==
    /\ s \in deleting
    /\ lanes' = [lanes EXCEPT ![s] = None]
    /\ registered' = registered \ doomed[s]
    /\ deleting' = deleting \ {s}
    /\ doomed' = [doomed EXCEPT ![s] = {}]
    /\ UNCHANGED <<persistVars, linkVars, runnerVars, cancelled, staged,
                   cancelling, updateVars, deletes, restarts>>

\* save_session_profile or a profile import under a client-supplied id.
CreateProfile(s) ==
    /\ s \notin store.profiles
    /\ disk' = WithProfiles(store, store.profiles \cup {s})
    /\ store' \in {store, disk'}      \* unchanged: the commit's result is unknown
    /\ UNCHANGED <<linkVars, runnerVars, tokenVars, lanes, cancelling,
                   updateVars, deleteVars, restarts>>

-----------------------------------------------------------------------------
(* A restart: load_store and its normalisation.                            *)

\* Mutant: what the last process left running is loaded as it was.
NotInterrupted(st) == st

\* normalize_interrupted_transfers
Interrupted(st) ==
    LET cut == ActiveTasks(st) IN
    [profiles |-> st.profiles,
     status   |-> [t \in Tasks |-> IF t \in cut THEN "Failed" ELSE st.status[t]],
     newer    |-> [t \in Tasks |->
                     IF t \in cut THEN st.newer[t] \cap cut
                     ELSE IF st.status[t] = "none" THEN {}
                     ELSE st.newer[t] \cup cut]]

Loaded(st) ==
    LET orphans == {t \in Tasks : SessionOf[t] \notin st.profiles}
        failed  == Interrupted(Forget(st, orphans))
    IN  Forget(failed, UNION {Surplus(failed, s) : s \in Sessions})

Restart ==
    /\ restarts < MaxRestarts
    /\ restarts' = restarts + 1
    /\ store' = Loaded(disk)
    /\ disk' = disk
    /\ link' = [s \in Sessions |-> "none"]
    /\ pc' = [t \in Tasks |-> IF pc[t] = "idle" THEN "idle" ELSE "done"]
    /\ outcome' = [t \in Tasks |-> "none"]
    /\ expected' = [t \in Tasks |-> 0]
    /\ binding' = [t \in Tasks |-> 0]
    /\ laneOf' = [t \in Tasks |-> None]
    /\ holds' = {}
    /\ lanes' = [s \in Sessions |-> None]
    /\ registered' = {} /\ cancelled' = {} /\ staged' = {}
    /\ cancelling' = [c \in Cancellers |-> NoCancel]
    /\ upd' = "idle" /\ todo' = {}
    /\ deleting' = {} /\ doomed' = [s \in Sessions |-> {}]
    /\ UNCHANGED <<gen, deletes>>

-----------------------------------------------------------------------------

Init ==
    /\ store = [profiles |-> Sessions,
                status   |-> [t \in Tasks |-> "none"],
                newer    |-> [t \in Tasks |-> {}]]
    /\ disk = store
    /\ link = [s \in Sessions |-> "none"]
    /\ gen = [s \in Sessions |-> 0]
    /\ pc = [t \in Tasks |-> "idle"]
    /\ outcome = [t \in Tasks |-> "none"]
    /\ expected = [t \in Tasks |-> 0]
    /\ binding = [t \in Tasks |-> 0]
    /\ laneOf = [t \in Tasks |-> None]
    /\ holds = {}
    /\ lanes = [s \in Sessions |-> None]
    /\ registered = {} /\ cancelled = {} /\ staged = {}
    /\ cancelling = [c \in Cancellers |-> NoCancel]
    /\ upd = "idle" /\ todo = {}
    /\ deleting = {} /\ doomed = [s \in Sessions |-> {}]
    /\ deletes = 0 /\ restarts = 0

Next ==
    \/ \E s \in Sessions :
         \/ InstallRuntime(s) \/ LoseRuntime(s)
         \/ DeleteProfile(s) \/ DeleteUnknown(s) \/ DeleteCleanup(s)
         \/ CreateProfile(s)
    \/ \E t \in Tasks :
         \/ Submit(t) \/ Enqueue(t) \/ RefuseEnqueue(t) \/ Runner(t)
         \/ UpdateCancel(t)
         \/ \E old \in Tasks : Retry(old, t)
         \/ \E c \in Users : CancelBegin(c, t)
    \/ \E c \in Cancellers : CancelCommit(c) \/ CancelUnknown(c)
    \/ UpdateBegin \/ UpdateSnapshot \/ UpdatePrepared \/ UpdateFails
    \/ Restart

Spec == Init /\ [][Next]_vars

\* Runner steps that need nothing from outside: every one but the return of a
\* transfer, which the peer may delay for ever.  A cancelled transfer does not
\* wait for the peer (check_cancelled is polled).
RunnerProgress(t) ==
    \/ TakeLane(t) \/ CancelledInLine(t) \/ Gate(t) \/ Validate(t)
    \/ MarkTransferRunning(t) \/ BindModem(t) \/ TransferAborts(t)
    \/ FinishCleanup(t) \/ FinishCommit(t)

UpdateProgress ==
    \/ UpdateSnapshot \/ UpdatePrepared
    \/ \E t \in Tasks : UpdateCancel(t)
    \/ CancelCommit(Updater) \/ CancelUnknown(Updater)

FairSpec ==
    /\ Spec
    /\ \A t \in Tasks : WF_vars(RunnerProgress(t))
    /\ WF_vars(UpdateProgress)

-----------------------------------------------------------------------------
(* Properties.                                                             *)

Labels == {"idle", "submitting", "waiting", "gate", "validate", "mark", "bind",
           "transfer", "cleanup", "commit", "done"}

\* Type correctness of every variable.
TypeOK ==
    /\ store \in Stores
    /\ disk \in Stores
    /\ link \in [Sessions -> LinkStates]
    /\ gen \in [Sessions -> Nat]
    /\ pc \in [Tasks -> Labels]
    /\ outcome \in [Tasks -> {"none"} \cup Terminal]
    /\ expected \in [Tasks -> Nat]
    /\ binding \in [Tasks -> Nat]
    /\ laneOf \in [Tasks -> Tasks \cup {None}]
    /\ holds \subseteq Tasks
    /\ lanes \in [Sessions -> Tasks \cup {None}]
    /\ registered \subseteq Tasks
    /\ cancelled \subseteq Tasks
    /\ staged \subseteq Tasks
    /\ cancelling \in [Cancellers -> [task : Tasks \cup {None}, token : BOOLEAN]]
    /\ upd \in {"idle", "preparing", "cancelling", "prepared"}
    /\ todo \subseteq Tasks
    /\ deleting \subseteq Sessions
    /\ doomed \in [Sessions -> SUBSET Tasks]
    /\ deletes \in Nat
    /\ restarts \in Nat

Working   == {"waiting", "gate", "validate", "mark", "bind", "transfer"}
Finishing == {"cleanup", "commit"}

\* A record the user sees as Queued or Running has a live runner that will
\* settle it: also after a rolled back commit, and after a restart, which turns
\* what the last process left unfinished into Failed.
ActiveHasRunner ==
    \A t \in Tasks : store.status[t] \in Active => pc[t] \in Working \cup Finishing

\* A runner still working for a record that is no longer active (cancelled, and
\* perhaps trimmed from the history or deleted with its profile since) has its
\* token set: cancel_transfer never changes the record without reaching the
\* runner, although it looks the token up under another lock.
EndedRecordStopsRunner ==
    \A t \in Tasks : pc[t] \in Working /\ store.status[t] \notin Active
                       => t \in cancelled

\* Completed or Failed is never visible before the token and the staged content
\* file of the transfer are gone.
SettledAfterCleanup ==
    \A t \in Tasks : store.status[t] \in {"Completed", "Failed"}
                       => t \notin registered \cup staged

\* No transfer leaves a token or a staged file behind, however it ended.
NoLeak == \A t \in registered \cup staged : pc[t] \notin {"idle", "done"}

\* Once the updater reports the application ready to be replaced, no transfer
\* is queued or running: none slipped in between the flag and the snapshot.
UpdateQuiescent == upd = "prepared" => ActiveTasks(store) = {}

StaysCancelled ==
    \A t \in Tasks : store.status[t] = "Cancelled" /\ restarts' = restarts
                     => store'.status[t] \in {"Cancelled", "none"}

\* A cancelled transfer stays cancelled: its runner, which may be anywhere,
\* never overwrites the status with another one (a restart reloads the disk).
CancelSticks == [][StaysCancelled]_vars

CompletesBound ==
    \A t \in Tasks :
        /\ KindOf[t] = "ssh" /\ restarts' = restarts
        /\ store.status[t] # "Completed" /\ store'.status[t] = "Completed"
        => expected[t] # 0 /\ RuntimeConnected(SessionOf[t], expected[t])

\* A file transfer over SSH becomes Completed only while the very runtime its
\* runner was bound to when it was submitted, or took the lane, is connected: a
\* reconnect in between makes it Failed.
CompletedOnBoundRuntime == [][CompletesBound]_vars

\* A cancelled transfer ends, also one that waits for a lane whose holder never
\* finishes; and the preparation of an update comes to a decision.
RequestsSettle ==
    /\ \A t \in Tasks : t \in cancelled ~> pc[t] = "done"
    /\ upd = "preparing" ~> upd \in {"prepared", "idle"}

-----------------------------------------------------------------------------
(* The inductive invariant behind the safety properties.                   *)

Pending == {"idle", "submitting"}

\* A task has no record before its commit, on disk neither before it is known.
NoRecordYet ==
    \A t \in Tasks : /\ pc[t] \in Pending => store.status[t] = "none"
                     /\ pc[t] = "idle" => disk.status[t] = "none"

\* Whoever looks up the token of a runner that still works finds it, or the
\* token is already set (a deletion swept it from the map).
TokenReachable ==
    \A t \in Tasks : pc[t] \in {"submitting"} \cup Working
                       => t \in registered \cup cancelled

\* A cancel call without the token comes too late to need it.
LateCancels ==
    \A c \in Cancellers, t \in Tasks :
        cancelling[c].task = t
        => /\ pc[t] \notin Pending
           /\ ~cancelling[c].token /\ pc[t] \in Working => t \in cancelled

TodoKnown == \A t \in todo : pc[t] \notin Pending

\* A runner whose record a deletion removed has been told to stop.
DoomedStopped ==
    \A s \in Sessions : \A t \in doomed[s] :
        pc[t] \notin Pending /\ (pc[t] \in Working => t \in cancelled)

CommitUnregistered ==
    \A t \in Tasks : pc[t] = "commit" => t \notin registered \cup staged

SettledIsDone ==
    \A t \in Tasks : store.status[t] \in {"Completed", "Failed"} => pc[t] = "done"

\* After the snapshot every active transfer is one the updater has yet to cancel.
UpdateCovers ==
    upd \in {"cancelling", "prepared"} =>
        \A t \in ActiveTasks(store) :
            upd = "cancelling" /\ (t \in todo \/ cancelling[Updater].task = t)

QueueInvariant ==
    /\ NoRecordYet
    /\ ActiveHasRunner
    /\ EndedRecordStopsRunner
    /\ TokenReachable
    /\ LateCancels
    /\ TodoKnown
    /\ DoomedStopped
    /\ CommitUnregistered
    /\ SettledIsDone
    /\ NoLeak
    /\ UpdateCovers

=============================================================================
