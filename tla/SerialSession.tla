------------------------------ MODULE SerialSession ------------------------------
(***************************************************************************)
(* The life of one serial session: open and close under its lifecycle      *)
(* lane, the blocking task that opens the port, the reader thread, the     *)
(* automatic reconnect thread, the writes and line commands, the           *)
(* background cleanup of a close that timed out, and the shutdown of the   *)
(* application.                                                            *)
(*                                                                         *)
(* A serial device is exclusive: it can be opened only when every clone of *)
(* an earlier handle is gone.  The worker registry counts the threads that *)
(* may own a clone, and a close raises a barrier that refuses new ones.    *)
(* An action is what a thread does under one acquisition of the mutexes of *)
(* the worker registry, of the serial runtimes or of the store.            *)
(*                                                                         *)
(* A runtime id (a UUID) is a number, 0 for none.  A profile is abstracted *)
(* to "off" (no automatic reconnect) or to its connection settings.        *)
(***************************************************************************)
EXTENDS Naturals

CONSTANTS
    Attempts,     \* blocking tasks that open the port for open_session
    Writers,      \* tasks that write, set lines or send a break
    Settings,     \* profiles with reconnect on, by connection settings
    MaxRuntimes,  \* bound: runtimes made
    MaxCleanups,  \* bound: cleanup threads at one time
    LatePrepare,  \* whether an open may be cancelled before its task has begun
    None          \* no attempt, no settings

ASSUME SerialAssumption ==
    /\ MaxRuntimes \in Nat
    /\ MaxCleanups \in Nat
    /\ LatePrepare \in BOOLEAN
    /\ "off" \notin Settings
    /\ None \notin Settings \cup Attempts

VARIABLES
    profile,   \* the stored profile
    status,    \* the stored runtime status
    serial,    \* the registered runtime
    made,      \* runtimes made so far
    closed,    \* runtimes whose closed flag is set
    writer,    \* runtimes whose entry still owns the writer and abort handles
    barrier,   \* closing_sessions holds the session
    polling,   \* cleanup threads waiting for the workers
    ending,    \* cleanup threads that saw no worker
    shutdown,  \* the exit of the application
    life,      \* the command under the lifecycle lane
    opener,    \* the blocking task of the open under the lane
    fresh,     \* the runtime the open under the lane installs
    cancelled, \* that open is cancelled
    quiet,     \* the last command was a close that completed
    prepare,   \* per attempt: prepare_serial_session
    reader,    \* per runtime: its reader thread
    reconnect, \* per runtime: the thread that replaces it
    successor, \* per runtime: the runtime that thread has opened
    attempt,   \* per runtime: the settings of the attempt under way
    write,     \* per writer: its task
    target     \* per writer: the runtime whose writer it holds

storeVars == <<profile, status>>
runtimeVars == <<serial, made, closed, writer>>
workerVars == <<barrier, polling, ending>>
laneVars == <<life, opener, fresh, cancelled, quiet>>
reconnectVars == <<reconnect, successor, attempt>>
writeVars == <<write, target>>
deviceVars == <<reader, reconnectVars, writeVars>>
threadVars == <<prepare, deviceVars>>
vars == <<storeVars, runtimeVars, workerVars, shutdown, laneVars, threadVars>>

Runtimes == 1 .. MaxRuntimes
NoRuntime == 0

Statuses == {"Disconnected", "Connecting", "Connected", "Reconnecting", "Error"}
ActiveStatuses == {"Connecting", "Connected", "Reconnecting"}
OpenSteps == {"opening", "prepared", "registered", "inserted", "spawned",
              "installed", "failed"}
CloseSteps == {"closing", "waiting", "tail"}

TypeOK ==
    /\ profile \in Settings \cup {"off"}
    /\ status \in Statuses
    /\ made \in 0 .. MaxRuntimes
    /\ serial \in 0 .. made
    /\ closed \subseteq 1 .. made
    /\ writer \subseteq 1 .. made
    /\ barrier \in BOOLEAN
    /\ polling \in 0 .. MaxCleanups /\ ending \in 0 .. MaxCleanups
    /\ shutdown \in {"no", "draining", "waiting", "released", "overdue"}
    /\ life \in {"free"} \cup OpenSteps \cup CloseSteps
    /\ opener \in Attempts \cup {None}
    /\ fresh \in 0 .. made
    /\ cancelled \in BOOLEAN
    /\ quiet \in BOOLEAN
    /\ prepare \in [Attempts -> {"none", "queued", "opening", "holding",
                                   "ready", "failed"}]
    /\ reader \in [Runtimes -> {"none", "gate", "reading", "draining",
                                 "reconnecting", "released", "disconnecting"}]
    /\ reconnect \in [Runtimes -> {"none", "waiting", "trying", "opened", "spawned"}]
    /\ successor \in [Runtimes -> 0 .. made]
    /\ attempt \in [Runtimes -> Settings \cup {None}]
    /\ write \in [Writers -> {"idle", "registered", "captured", "driver"}]
    /\ target \in [Writers -> 0 .. made]

Init ==
    /\ profile \in Settings \cup {"off"}
    /\ status = "Disconnected"
    /\ serial = NoRuntime
    /\ made = 0
    /\ closed = {}
    /\ writer = {}
    /\ barrier = FALSE
    /\ polling = 0 /\ ending = 0
    /\ shutdown = "no"
    /\ life = "free"
    /\ opener = None
    /\ fresh = NoRuntime
    /\ cancelled = FALSE
    /\ quiet = TRUE
    /\ prepare = [a \in Attempts |-> "none"]
    /\ reader = [r \in Runtimes |-> "none"]
    /\ reconnect = [r \in Runtimes |-> "none"]
    /\ successor = [r \in Runtimes |-> NoRuntime]
    /\ attempt = [r \in Runtimes |-> None]
    /\ write = [w \in Writers |-> "idle"]
    /\ target = [w \in Writers |-> NoRuntime]

-----------------------------------------------------------------------------
(* The worker registry and the handles.                                     *)

\* The process is gone once the shutdown has stopped waiting.
Running == shutdown \in {"no", "draining", "waiting"}
ShuttingDown == shutdown # "no"

\* register_for_session
Registers == ~ShuttingDown /\ ~barrier

\* active_for_session > 0.  A worker owns its clones at most as long as its guard.
Active ==
    \/ \E a \in Attempts : prepare[a] \in {"opening", "holding"}
    \/ life \in {"registered", "inserted", "spawned"}
    \/ \E r \in Runtimes : reader[r] # "none" \/ reconnect[r] # "none"
    \/ \E w \in Writers : write[w] \in {"registered", "captured", "driver"}

\* Somebody owns a clone of the port handle that runtime r was made with.
Owned(r) ==
    \/ reader[r] \in {"gate", "reading", "draining", "reconnecting", "disconnecting"}
    \/ serial = r /\ r \in writer
    \/ life \in {"inserted", "spawned"} /\ fresh = r
    \/ \E p \in Runtimes : successor[p] = r
    \/ \E w \in Writers : target[w] = r

\* The handles a blocking task has opened and not yet handed over.
Pair(a) == prepare[a] \in {"holding", "ready"}

PortFree ==
    /\ \A r \in Runtimes : ~Owned(r)
    /\ \A a \in Attempts : ~Pair(a)
    /\ life \notin {"prepared", "registered"}

\* remove_runtime_if_owned and the closed flag: r leaves the registry, and the
\* handles of its entry with it.
StopRuntime(r) ==
    /\ serial' = IF serial = r THEN NoRuntime ELSE serial
    /\ writer' = writer \ {r}
    /\ closed' = closed \cup ({r} \ {NoRuntime})
    /\ UNCHANGED made

-----------------------------------------------------------------------------
(* Opening, under the lifecycle lane.                                       *)

\* Mutant: the check for workers that still release their handles is missing.
OpenUnchecked(a) ==
    /\ Running
    /\ life = "free"
    /\ prepare[a] = "none"
    /\ status \notin ActiveStatuses
    /\ serial = NoRuntime
    /\ status' = "Connecting"
    /\ life' = "opening"
    /\ opener' = a
    /\ cancelled' = FALSE
    /\ quiet' = FALSE
    /\ prepare' = [prepare EXCEPT ![a] = "queued"]
    /\ UNCHANGED <<profile, runtimeVars, workerVars, shutdown, fresh, deviceVars>>

\* ensure_session_can_open, then the commit of the status Connecting and the
\* spawn of the blocking task.
Open(a) ==
    /\ Running
    /\ life = "free"
    /\ prepare[a] = "none"
    /\ ~barrier /\ ~Active
    /\ status \notin ActiveStatuses
    /\ serial = NoRuntime
    /\ status' = "Connecting"
    /\ life' = "opening"
    /\ opener' = a
    /\ cancelled' = FALSE
    /\ quiet' = FALSE
    /\ prepare' = [prepare EXCEPT ![a] = "queued"]
    /\ UNCHANGED <<profile, runtimeVars, workerVars, shutdown, fresh, deviceVars>>

\* A close that finds a pending open cancels it before it waits for the lane.
CancelOpen ==
    /\ Running
    /\ life \in OpenSteps
    /\ ~cancelled
    /\ life = "opening" /\ prepare[opener] = "queued" => LatePrepare
    /\ cancelled' = TRUE
    /\ UNCHANGED <<storeVars, runtimeVars, workerVars, shutdown, life, opener,
                   fresh, quiet, threadVars>>

\* What becomes of the result of a blocking task: nobody waits for the one of a
\* cancelled open, and it is dropped.
Abandoned(a) == life # "opening" \/ opener # a
Result(a, outcome) == IF Abandoned(a) THEN "none" ELSE outcome

\* prepare_serial_session takes its worker guard.
PrepareBegins(a) ==
    /\ prepare[a] = "queued"
    /\ prepare' = [prepare EXCEPT ![a] =
                      IF Registers THEN "opening" ELSE Result(a, "failed")]

\* open_configured_serial_port: the port opens only when nobody owns it.
PrepareOpens(a) ==
    /\ prepare[a] = "opening"
    /\ \/ PortFree /\ prepare' = [prepare EXCEPT ![a] = "holding"]
       \/ prepare' = [prepare EXCEPT ![a] = Result(a, "failed")]

\* The lines are set and the handle is cloned; the pair is returned unless that
\* fails or the application exits.
PrepareReturns(a) ==
    /\ prepare[a] = "holding"
    /\ \/ ~ShuttingDown /\ prepare' = [prepare EXCEPT ![a] = Result(a, "ready")]
       \/ prepare' = [prepare EXCEPT ![a] = Result(a, "failed")]

Preparing(a) ==
    /\ Running
    /\ PrepareBegins(a) \/ PrepareOpens(a) \/ PrepareReturns(a)
    /\ UNCHANGED <<storeVars, runtimeVars, workerVars, shutdown, laneVars, deviceVars>>

\* wait_for_session_prepare: the task's result, unless the open is cancelled.
Prepared ==
    /\ Running
    /\ life = "opening"
    /\ ~cancelled
    /\ prepare[opener] \in {"ready", "failed"}
    /\ life' = IF prepare[opener] = "ready" THEN "prepared" ELSE "failed"
    /\ prepare' = [prepare EXCEPT ![opener] = "none"]
    /\ UNCHANGED <<storeVars, runtimeVars, workerVars, shutdown, opener, fresh,
                   cancelled, quiet, deviceVars>>

\* install_serial_session takes its worker guard,
InstallBegins ==
    /\ Running
    /\ life = "prepared"
    /\ ~cancelled
    /\ life' = IF Registers THEN "registered" ELSE "failed"
    /\ UNCHANGED <<storeVars, runtimeVars, workerVars, shutdown, opener, fresh,
                   cancelled, quiet, threadVars>>

\* and makes the new registry entry; an entry it replaces is stopped.
InstallRuntime ==
    /\ Running
    /\ life = "registered"
    /\ made < MaxRuntimes
    /\ made' = made + 1
    /\ fresh' = made + 1
    /\ serial' = made + 1
    /\ closed' = closed \cup ({serial} \ {NoRuntime})
    /\ writer' = (writer \ {serial}) \cup {made + 1}
    /\ life' = "inserted"
    /\ UNCHANGED <<storeVars, workerVars, shutdown, opener, cancelled, quiet,
                   threadVars>>

\* spawn_serial_reader takes the reader's own guard, or the entry goes again.
InstallReader ==
    /\ Running
    /\ life = "inserted"
    /\ IF Registers
       THEN /\ reader' = [reader EXCEPT ![fresh] = "gate"]
            /\ life' = "spawned"
            /\ UNCHANGED runtimeVars
       ELSE /\ StopRuntime(fresh)
            /\ life' = "failed"
            /\ UNCHANGED reader
    /\ UNCHANGED <<storeVars, workerVars, shutdown, opener, fresh, cancelled, quiet,
                   prepare, reconnectVars, writeVars>>

\* The commit of the status Connected opens the reader's gate; when it fails, the
\* reader is cancelled at its gate and joined.
InstallCommit ==
    /\ Running
    /\ life = "spawned"
    /\ \/ /\ status' = "Connected"
          /\ reader' = [reader EXCEPT ![fresh] = "reading"]
          /\ life' = "installed"
          /\ UNCHANGED runtimeVars
       \/ /\ StopRuntime(fresh)
          /\ reader' = [reader EXCEPT ![fresh] = "none"]
          /\ life' = "failed"
          /\ UNCHANGED status
    /\ UNCHANGED <<profile, workerVars, shutdown, opener, fresh, cancelled, quiet,
                   prepare, reconnectVars, writeVars>>

\* open_session returns; record_connection_failure.
OpenReturns ==
    /\ Running
    /\ life \in {"installed", "failed"}
    /\ ~cancelled
    /\ status' = IF life = "failed" THEN "Error" ELSE status
    /\ life' = "free"
    /\ UNCHANGED <<profile, runtimeVars, workerVars, shutdown, opener, fresh,
                   cancelled, quiet, threadVars>>

-----------------------------------------------------------------------------
(* Closing, under the lifecycle lane.                                       *)

\* close_session_under_lifecycle_lock raises the barrier first.  A cancelled open
\* turns into a close at its next check of the cancellation; what its task has
\* returned is dropped.
CloseBegins ==
    /\ Running
    /\ \/ life = "free"
       \/ cancelled /\ life \in {"opening", "prepared", "installed", "failed"}
    /\ barrier' = TRUE
    /\ life' = "closing"
    /\ cancelled' = FALSE
    /\ prepare' = [a \in Attempts |->
                     IF ~Abandoned(a) /\ prepare[a] \in {"ready", "failed"}
                     THEN "none" ELSE prepare[a]]
    /\ UNCHANGED <<storeVars, runtimeVars, polling, ending, shutdown,
                   opener, fresh, quiet, deviceVars>>

\* The runtime leaves the registry and its driver I/O is aborted.
CloseRuntime ==
    /\ Running
    /\ life = "closing"
    /\ StopRuntime(serial)
    /\ life' = "waiting"
    /\ UNCHANGED <<storeVars, workerVars, shutdown, opener, fresh, cancelled, quiet,
                   threadVars>>

\* Mutant: the close does not wait for the workers.
CloseWithoutWaiting ==
    /\ Running
    /\ life = "waiting"
    /\ life' = "tail"
    /\ UNCHANGED <<storeVars, runtimeVars, workerVars, shutdown, opener, fresh,
                   cancelled, quiet, threadVars>>

\* wait_for_session_idle
CloseIdle ==
    /\ Running
    /\ life = "waiting"
    /\ ~Active
    /\ life' = "tail"
    /\ UNCHANGED <<storeVars, runtimeVars, workerVars, shutdown, opener, fresh,
                   cancelled, quiet, threadVars>>

\* Mutant: the barrier is kept, and no cleanup thread lifts it.
TimeoutForgetsBarrier ==
    /\ Running
    /\ life = "waiting"
    /\ Active
    /\ polling + ending < MaxCleanups
    /\ status' = "Disconnected"
    /\ life' = "free"
    /\ UNCHANGED <<profile, runtimeVars, workerVars, shutdown, opener, fresh,
                   cancelled, quiet, threadVars>>

\* The deadline expires first: defer_until_idle leaves the barrier to a cleanup
\* thread, and the close fails.
CloseTimeout ==
    /\ Running
    /\ life = "waiting"
    /\ Active
    /\ polling + ending < MaxCleanups
    /\ polling' = polling + 1
    /\ status' = "Disconnected"
    /\ life' = "free"
    /\ UNCHANGED <<profile, runtimeVars, barrier, ending, shutdown, opener, fresh,
                   cancelled, quiet, threadVars>>

\* The status is stored; the guard of the barrier is dropped last.
CloseReturns ==
    /\ Running
    /\ life = "tail"
    /\ status' = "Disconnected"
    /\ barrier' = FALSE
    /\ life' = "free"
    /\ quiet' = TRUE
    /\ UNCHANGED <<profile, runtimeVars, polling, ending, shutdown,
                   opener, fresh, cancelled, threadVars>>

\* The cleanup thread sees no worker, and then lifts the barrier.
CleanupObserves ==
    /\ Running
    /\ polling > 0
    /\ ~Active
    /\ polling' = polling - 1
    /\ ending' = ending + 1
    /\ UNCHANGED <<storeVars, runtimeVars, barrier, shutdown, laneVars,
                   threadVars>>

CleanupEnds ==
    /\ Running
    /\ ending > 0
    /\ ending' = ending - 1
    /\ barrier' = FALSE
    /\ UNCHANGED <<storeVars, runtimeVars, polling, shutdown, laneVars,
                   threadVars>>

-----------------------------------------------------------------------------
(* The reader thread of runtime r.                                          *)

\* The read loop ends: the closed flag, a read error or the idle timeout.
ReaderStops(r) ==
    /\ reader[r] = "reading"
    /\ reader' = [reader EXCEPT ![r] = "draining"]
    /\ UNCHANGED <<status, runtimeVars, reconnectVars>>

\* The transition commits only while r is the registered runtime.
ReaderTransition(r) ==
    /\ reader[r] = "draining"
    /\ \/ /\ serial # r
          /\ reader' = [reader EXCEPT ![r] = "none"]
          /\ UNCHANGED status
       \/ /\ serial = r /\ r \notin closed /\ profile # "off"
          /\ reader' = [reader EXCEPT ![r] = "reconnecting"]
          /\ status' = "Reconnecting"
       \/ /\ serial = r /\ (r \in closed \/ profile = "off")
          /\ reader' = [reader EXCEPT ![r] = "disconnecting"]
          /\ status' = "Disconnected"
    /\ UNCHANGED <<runtimeVars, reconnectVars>>

\* The reader's clone is dropped, then the entry's writer and abort handles.
ReaderReleases(r) ==
    /\ reader[r] = "reconnecting"
    /\ reader' = [reader EXCEPT ![r] = IF serial = r THEN "released" ELSE "none"]
    /\ writer' = writer \ {r}
    /\ UNCHANGED <<status, serial, made, closed, reconnectVars>>

\* spawn_serial_reconnect
ReaderReconnects(r) ==
    /\ reader[r] = "released"
    /\ reader' = [reader EXCEPT ![r] = "none"]
    /\ IF Registers
       THEN reconnect' = [reconnect EXCEPT ![r] = "waiting"] /\ UNCHANGED closed
       ELSE closed' = closed \cup {r} /\ UNCHANGED reconnect
    /\ UNCHANGED <<status, serial, made, writer, successor, attempt>>

\* Without a reconnect the entry goes, and the thread with it.
ReaderDisconnects(r) ==
    /\ reader[r] = "disconnecting"
    /\ reader' = [reader EXCEPT ![r] = "none"]
    /\ IF serial = r THEN StopRuntime(r) ELSE UNCHANGED runtimeVars
    /\ UNCHANGED <<status, reconnectVars>>

Reading(r) ==
    /\ Running
    /\ \/ ReaderStops(r) \/ ReaderTransition(r)
       \/ ReaderReleases(r) \/ ReaderReconnects(r) \/ ReaderDisconnects(r)
    /\ UNCHANGED <<profile, workerVars, shutdown, laneVars, prepare, writeVars>>

-----------------------------------------------------------------------------
(* The reconnect thread of runtime r.                                       *)

\* The thread goes to step s, with its attempt and the runtime it opened.
Goto(r, s, settings, opened) ==
    /\ reconnect' = [reconnect EXCEPT ![r] = s]
    /\ attempt' = [attempt EXCEPT ![r] = settings]
    /\ successor' = [successor EXCEPT ![r] = opened]

Ends(r) == Goto(r, "none", None, NoRuntime)
Retries(r) == Goto(r, "waiting", None, NoRuntime)

Superseded(r) == serial # r \/ r \in closed \/ ShuttingDown

\* serial_reconnect_pending
Pending(r) == ~Superseded(r) /\ status = "Reconnecting"

\* stop_pending_serial_reconnect_if_disabled, and the same at the install.
StopDisabled(r) == profile = "off" /\ StopRuntime(r) /\ status' = "Disconnected"

\* fail_pending_serial_reconnect_install
FailInstall(r) ==
    /\ StopRuntime(r)
    /\ status' = IF serial = r THEN "Error" ELSE status

\* wait_for_serial_reconnect_attempt, and the latest profile.
ReconnectWaits(r) ==
    /\ reconnect[r] = "waiting"
    /\ \/ ~Pending(r) /\ Ends(r) /\ UNCHANGED <<status, runtimeVars>>
       \/ Pending(r) /\ StopDisabled(r) /\ Ends(r)
       \/ /\ Pending(r) /\ profile # "off"
          /\ Goto(r, "trying", profile, NoRuntime)
          /\ UNCHANGED <<status, runtimeVars>>
    /\ UNCHANGED reader

\* The port is opened with the settings of the attempt.
ReconnectOpens(r) ==
    /\ reconnect[r] = "trying"
    /\ \/ (ShuttingDown \/ r \in closed) /\ Ends(r) /\ UNCHANGED made
       \/ /\ ~ShuttingDown /\ r \notin closed
          /\ PortFree
          /\ made < MaxRuntimes
          /\ made' = made + 1
          /\ Goto(r, "opened", attempt[r], made + 1)
    /\ UNCHANGED <<status, serial, closed, writer, reader>>

\* It does not open: record_serial_reconnect_failure_if_pending.
ReconnectOpenFails(r) ==
    /\ reconnect[r] = "trying"
    /\ ~ShuttingDown
    /\ LET pending == serial = r /\ r \notin closed /\ status = "Reconnecting"
       IN  \/ ~pending /\ Ends(r) /\ UNCHANGED <<status, runtimeVars>>
           \/ pending /\ StopDisabled(r) /\ Ends(r)
           \/ pending /\ profile # "off" /\ Retries(r) /\ UNCHANGED <<status, runtimeVars>>
    /\ UNCHANGED reader

\* The reader of the opened port is spawned behind its gate.
ReconnectSpawns(r) ==
    /\ reconnect[r] = "opened"
    /\ \/ /\ ShuttingDown \/ r \in closed
          /\ Ends(r)
          /\ UNCHANGED <<status, runtimeVars, reader>>
       \/ /\ ~ShuttingDown /\ barrier
          /\ Ends(r) /\ FailInstall(r)
          /\ UNCHANGED reader
       \/ /\ Registers /\ r \notin closed
          /\ Goto(r, "spawned", attempt[r], successor[r])
          /\ reader' = [reader EXCEPT ![successor[r]] = "gate"]
          /\ UNCHANGED <<status, runtimeVars>>

\* The install, under the mutexes of the runtimes and of the store, when r is
\* still registered and its attempt was made with the latest settings.
ReconnectInstalls(r) ==
    /\ reconnect[r] = "spawned"
    /\ ~Superseded(r)
    /\ profile = attempt[r]
    /\ status' = "Connected"
    /\ serial' = successor[r]
    /\ writer' = writer \cup {successor[r]}
    /\ reader' = [reader EXCEPT ![successor[r]] = "reading"]
    /\ Ends(r)
    /\ UNCHANGED <<made, closed>>

\* Otherwise the reader is cancelled at its gate and joined: the runtime was
\* superseded, the profile changed, reconnecting is off, or the commit failed.
ReconnectRefused(r) ==
    /\ reconnect[r] = "spawned"
    /\ reader' = [reader EXCEPT ![successor[r]] = "none"]
    /\ \/ Superseded(r) /\ Ends(r) /\ UNCHANGED <<status, runtimeVars>>
       \/ ~Superseded(r) /\ StopDisabled(r) /\ Ends(r)
       \/ /\ ~Superseded(r) /\ profile \notin {"off", attempt[r]}
          /\ Retries(r)
          /\ UNCHANGED <<status, runtimeVars>>
       \/ ~Superseded(r) /\ profile = attempt[r] /\ FailInstall(r) /\ Ends(r)

Reconnecting(r) ==
    /\ Running
    /\ \/ ReconnectWaits(r) \/ ReconnectOpens(r) \/ ReconnectOpenFails(r)
       \/ ReconnectSpawns(r) \/ ReconnectInstalls(r) \/ ReconnectRefused(r)
    /\ UNCHANGED <<profile, workerVars, shutdown, laneVars, prepare, writeVars>>

-----------------------------------------------------------------------------
(* Writes, line changes and breaks, outside the lane.                       *)

WriteStep(w, s, r) ==
    /\ write' = [write EXCEPT ![w] = s]
    /\ target' = [target EXCEPT ![w] = r]

\* The worker guard is taken before the entry is read.
WriteRegisters(w) ==
    /\ write[w] = "idle"
    /\ Registers
    /\ WriteStep(w, "registered", NoRuntime)
    /\ UNCHANGED profile

\* The entry's writer is captured; without one the write is refused.
WriteCaptures(w) ==
    /\ write[w] = "registered"
    /\ IF serial \in writer
       THEN WriteStep(w, "captured", serial)
       ELSE WriteStep(w, "idle", NoRuntime)
    /\ UNCHANGED profile

\* The closed flag is checked again with the writer locked.
WriteEnters(w) ==
    /\ write[w] = "captured"
    /\ IF target[w] \in closed
       THEN WriteStep(w, "idle", NoRuntime)
       ELSE WriteStep(w, "driver", target[w])
    /\ UNCHANGED profile

\* The driver is done; the handle and the guard go.
WriteReturns(w) ==
    /\ write[w] = "driver"
    /\ WriteStep(w, "idle", NoRuntime)
    /\ UNCHANGED profile

\* serial_set_lines stores the lines it applied in the profile, while the runtime
\* it changed is still registered.
LinesApplied(w) ==
    /\ write[w] = "driver"
    /\ serial = target[w]
    /\ profile # "off"
    /\ profile' \in Settings
    /\ WriteStep(w, "idle", NoRuntime)

Writing(w) ==
    /\ Running
    /\ \/ WriteRegisters(w) \/ WriteCaptures(w) \/ WriteEnters(w)
       \/ WriteReturns(w) \/ LinesApplied(w)
    /\ UNCHANGED <<status, runtimeVars, workerVars, shutdown, laneVars,
                   prepare, reader, reconnectVars>>

\* save_session_profile
EditProfile(p) ==
    /\ Running
    /\ profile # p
    /\ profile' = p
    /\ UNCHANGED <<status, runtimeVars, workerVars, shutdown, laneVars, threadVars>>

-----------------------------------------------------------------------------
(* The exit of the application: shutdown_serial_runtimes.                   *)

ShutdownBegins ==
    /\ shutdown = "no"
    /\ shutdown' = "draining"
    /\ UNCHANGED <<storeVars, runtimeVars, workerVars, laneVars, threadVars>>

ShutdownDrains ==
    /\ shutdown = "draining"
    /\ shutdown' = "waiting"
    /\ StopRuntime(serial)
    /\ UNCHANGED <<storeVars, workerVars, laneVars, threadVars>>

\* wait_for_idle: every worker is gone, or the deadline has passed.
ShutdownEnds ==
    /\ shutdown = "waiting"
    /\ shutdown' = IF Active THEN "overdue" ELSE "released"
    /\ UNCHANGED <<storeVars, runtimeVars, workerVars, laneVars, threadVars>>

-----------------------------------------------------------------------------
Next ==
    \/ \E a \in Attempts : Open(a) \/ Preparing(a)
    \/ CancelOpen \/ Prepared
    \/ InstallBegins \/ InstallRuntime \/ InstallReader \/ InstallCommit \/ OpenReturns
    \/ CloseBegins \/ CloseRuntime \/ CloseIdle \/ CloseTimeout \/ CloseReturns
    \/ CleanupObserves \/ CleanupEnds
    \/ \E r \in Runtimes : Reading(r) \/ Reconnecting(r)
    \/ \E w \in Writers : Writing(w)
    \/ \E p \in Settings \cup {"off"} : EditProfile(p)
    \/ ShutdownBegins \/ ShutdownDrains \/ ShutdownEnds

Spec == Init /\ [][Next]_vars

\* A command that has begun goes on, its deadline included.
LaneStep ==
    \/ Prepared \/ InstallBegins \/ InstallRuntime \/ InstallReader \/ InstallCommit \/ OpenReturns
    \/ (life # "free" /\ CloseBegins)
    \/ CloseRuntime \/ CloseIdle \/ CloseTimeout \/ CloseReturns

\* Threads run.  A reader notices its closed flag (its reads time out after 100 ms)
\* and a driver write ends, for its buffers are cleared when the runtime is stopped;
\* nothing is assumed about an open runtime's reads or about new requests.
Fairness ==
    /\ WF_vars(LaneStep)
    /\ WF_vars(CleanupObserves) /\ WF_vars(CleanupEnds)
    /\ WF_vars(ShutdownDrains) /\ WF_vars(ShutdownEnds)
    /\ \A a \in Attempts : WF_vars(Preparing(a))
    /\ \A r \in Runtimes :
         /\ WF_vars(Reading(r) /\ (reader[r] = "reading" => r \in closed))
         /\ WF_vars(Reconnecting(r))
    /\ \A w \in Writers : WF_vars(Writing(w) /\ write[w] # "idle")

FairSpec == Spec /\ Fairness

-----------------------------------------------------------------------------
(* Properties.                                                              *)

\* After a close that completed, and until the next open, nothing of the session
\* is left: no registered runtime, no clone of the port's handle with a reader,
\* a reconnect, a write or an abandoned open, and no thread that could change the
\* status again (session_close.rs, the wait for the session's serial workers).
\* Nor is a runtime registered, or a handle owned, behind the back of a shutdown
\* that has seen every serial worker gone (shutdown_serial_runtimes).
ClosedIsQuiet ==
    /\ quiet /\ Running =>
        /\ status = "Disconnected"
        /\ serial = NoRuntime
        /\ PortFree
        /\ \A r \in Runtimes : reconnect[r] = "none" /\ reader[r] = "none"
    /\ shutdown = "released" =>
        serial = NoRuntime /\ \A r \in Runtimes : ~Owned(r)

\* An open of the session never meets a handle this application still owns: when
\* the port is about to be opened every earlier clone is gone, also after a close
\* whose workers outlived the deadline (state.rs, defer_until_idle: "Reopen
\* remains blocked until every worker has actually dropped its serial handle").
OpenFindsPortFree ==
    life = "opening" /\ prepare[opener] = "opening" => PortFree

\* The stored status is never orphaned: with no command at work on the session, a
\* Connected one has its registered runtime and the reader that will report the
\* end of the connection, and a Reconnecting one has the thread that reconnects it.
StatusIsServed ==
    life = "free" /\ ~ShuttingDown =>
        /\ status = "Connected" =>
             serial # NoRuntime /\ reader[serial] \in {"reading", "draining"}
        /\ status = "Reconnecting" =>
             /\ serial # NoRuntime
             /\ reader[serial] \in {"reconnecting", "released"} \/ reconnect[serial] # "none"

\* Every close ends, and the barrier it raised is lifted again, by itself or by the
\* cleanup it left behind: the session can be opened again.
BarrierIsLifted == barrier ~> (~barrier \/ ~Running)
=============================================================================
