---------------------------- MODULE ShellSession ----------------------------
(***************************************************************************)
(* One local shell session: the blocking task that starts the child on a   *)
(* PTY, the install, the reader thread, writes, close, and the reaper task *)
(* that owns a child once nobody else does (shell_transport.rs and the     *)
(* shell part of session_open.rs and session_close.rs).                    *)
(*                                                                         *)
(* The n-th open starts child n, which runtime n serves once installed.    *)
(***************************************************************************)
EXTENDS Naturals

CONSTANTS MaxRuntimes,   \* opens one behaviour makes
          Writers,       \* writes at one time
          MaxKillFaults  \* kills that fail and are repeated

VARIABLES
    status,      \* SessionRuntime.status
    shell,       \* the registered runtime, or NoRuntime
    made,        \* opens so far
    closed,      \* runtimes whose closed flag is set
    life,        \* what the holder of the lifecycle lane is doing
    cancelled,   \* the running open's cancellation flag
    start,       \* the blocking task of each open
    child,       \* the child process of each open
    reaper,      \* the cleanup task of each child: ManagedShellChild.cleanup
    kills,       \* kills that may still fail
    reader,      \* the reader thread of each runtime
    write, target    \* a write and the runtime it captured

runtimeVars == <<shell, made, closed>>
laneVars == <<life, cancelled>>
childVars == <<child, reaper, kills>>
writeVars == <<write, target>>
vars == <<status, runtimeVars, laneVars, start, childVars, reader, writeVars>>

Runtimes == 1 .. MaxRuntimes
NoRuntime == 0
ActiveStatuses == {"Connecting", "Connected", "Reconnecting"}

TypeOK ==
    /\ status \in ActiveStatuses \cup {"Disconnected", "Error"}
    /\ made \in 0 .. MaxRuntimes
    /\ shell \in 0 .. made
    /\ closed \subseteq 1 .. made
    /\ life \in {"free", "preparing", "inserted", "spawned", "failed", "installed",
                 "cancelling", "tail"}
    /\ cancelled \in BOOLEAN
    /\ start \in [Runtimes -> {"none", "starting", "ready", "failed", "taken", "dropped"}]
    /\ child \in [Runtimes -> {"none", "running", "exited", "reaped"}]
    /\ reaper \in [Runtimes -> {"none", "polling", "killed", "done", "panicked"}]
    /\ kills \in 0 .. MaxKillFaults
    /\ reader \in [Runtimes -> {"none", "gate", "reading", "ending", "reporting", "removing"}]
    /\ write \in [Writers -> {"idle", "writing"}]
    /\ target \in [Writers -> 0 .. made]

Init ==
    /\ status = "Disconnected"
    /\ shell = NoRuntime
    /\ made = 0
    /\ closed = {}
    /\ life = "free"
    /\ cancelled = FALSE
    /\ start = [r \in Runtimes |-> "none"]
    /\ child = [r \in Runtimes |-> "none"]
    /\ reaper = [r \in Runtimes |-> "none"]
    /\ kills = MaxKillFaults
    /\ reader = [r \in Runtimes |-> "none"]
    /\ write = [w \in Writers |-> "idle"]
    /\ target = [w \in Writers |-> NoRuntime]

-----------------------------------------------------------------------------
(* The child and its reaper.                                                *)

\* begin_cleanup takes the process once; a second caller waits for the first.
Cleaned(r) == [reaper EXCEPT ![r] = IF @ = "none" THEN "polling" ELSE @]

\* The shell ends, by itself or by the signal.
ChildExits(r) ==
    /\ child[r] = "running"
    /\ child' = [child EXCEPT ![r] = "exited"]
    /\ UNCHANGED <<status, runtimeVars, laneVars, start, reaper, kills, reader, writeVars>>

\* poll_shell_child_cleanup: a child that has ended is reaped, any other is
\* killed until the signal has been accepted.
ReaperPolls(r) ==
    /\ reaper[r] \in {"polling", "killed"}
    /\ \/ /\ child[r] \in {"exited", "reaped"}
          /\ child' = [child EXCEPT ![r] = "reaped"]
          /\ reaper' = [reaper EXCEPT ![r] = "done"]
          /\ UNCHANGED kills
       \/ /\ child[r] = "running" /\ reaper[r] = "polling"
          /\ reaper' = [reaper EXCEPT ![r] = "killed"]
          /\ UNCHANGED <<child, kills>>
       \/ /\ child[r] = "running" /\ reaper[r] = "polling" /\ kills > 0
          /\ kills' = kills - 1
          /\ UNCHANGED <<child, reaper>>
    /\ UNCHANGED <<status, runtimeVars, laneVars, start, reader, writeVars>>

\* A blocking worker of the cleanup panics, and drops the child it was given: the
\* task reports the error and ends.
ReaperPanics(r) ==
    /\ reaper[r] \in {"polling", "killed"}
    /\ reaper' = [reaper EXCEPT ![r] = "panicked"]
    /\ UNCHANGED <<status, runtimeVars, laneVars, start, child, kills, reader, writeVars>>

-----------------------------------------------------------------------------
(* Opening and closing, under the lifecycle lane.                           *)

\* ensure_session_can_open, the status Connecting, the blocking task.
OpenSession ==
    /\ life = "free"
    /\ status \notin ActiveStatuses
    /\ shell = NoRuntime
    /\ made < MaxRuntimes
    /\ made' = made + 1
    /\ start' = [start EXCEPT ![made + 1] = "starting"]
    /\ status' = "Connecting"
    /\ life' = "preparing"
    /\ cancelled' = FALSE
    /\ UNCHANGED <<shell, closed, childVars, reader, writeVars>>

\* prepare_shell_session: the child is started; the PTY set-up after it may fail,
\* which leaves the child to the reaper.
PrepareStarts(r) ==
    /\ start[r] = "starting"
    /\ child' = [child EXCEPT ![r] = "running"]
    /\ \/ start' = [start EXCEPT ![r] = "ready"] /\ UNCHANGED reaper
       \/ start' = [start EXCEPT ![r] = "failed"] /\ reaper' = Cleaned(r)
    /\ UNCHANGED <<status, runtimeVars, laneVars, kills, reader, writeVars>>

\* The program, its directory or the PTY is not to be had.
PrepareFails(r) ==
    /\ start[r] = "starting"
    /\ start' = [start EXCEPT ![r] = "failed"]
    /\ UNCHANGED <<status, runtimeVars, laneVars, childVars, reader, writeVars>>

\* Mutant: a prepared session that nobody takes is forgotten with its child.
PrepareForgotten(r) ==
    /\ start[r] = "ready"
    /\ r # made \/ life # "preparing"
    /\ start' = [start EXCEPT ![r] = "dropped"]
    /\ UNCHANGED <<status, runtimeVars, laneVars, childVars, reader, writeVars>>

\* Drop of a PreparedShellSession whose open was cancelled meanwhile.
PrepareDropped(r) ==
    /\ start[r] = "ready"
    /\ r # made \/ life # "preparing"
    /\ start' = [start EXCEPT ![r] = "dropped"]
    /\ reaper' = Cleaned(r)
    /\ UNCHANGED <<status, runtimeVars, laneVars, child, kills, reader, writeVars>>

CancelOpen ==
    /\ life \in {"preparing", "inserted", "spawned", "failed", "installed"}
    /\ ~cancelled
    /\ cancelled' = TRUE
    /\ UNCHANGED <<status, runtimeVars, life, start, childVars, reader, writeVars>>

\* wait_for_session_prepare is biased towards the cancellation, and the open asks
\* again when the prepared session is in its hands.
OpenCancelled ==
    /\ life \in {"preparing", "installed", "failed"}
    /\ cancelled
    /\ life' = "cancelling"
    /\ UNCHANGED <<status, runtimeVars, cancelled, start, childVars, reader, writeVars>>

OpenPrepareFailed ==
    /\ life = "preparing" /\ ~cancelled
    /\ start[made] = "failed"
    /\ status' = "Error"
    /\ life' = "free"
    /\ UNCHANGED <<runtimeVars, cancelled, start, childVars, reader, writeVars>>

\* install_shell_session: the runtime is registered with its child.
InstallRuntime ==
    /\ life = "preparing" /\ ~cancelled
    /\ start[made] = "ready"
    /\ start' = [start EXCEPT ![made] = "taken"]
    /\ shell' = made
    /\ life' = "inserted"
    /\ UNCHANGED <<status, made, closed, cancelled, childVars, reader, writeVars>>

\* The reader thread, held at its start gate.
InstallReader ==
    /\ life = "inserted"
    /\ reader' = [reader EXCEPT ![made] = "gate"]
    /\ life' = "spawned"
    /\ UNCHANGED <<status, runtimeVars, cancelled, start, childVars, writeVars>>

InstallCommits ==
    /\ life = "spawned"
    /\ status' = "Connected"
    /\ reader' = [reader EXCEPT ![made] = "reading"]
    /\ life' = "installed"
    /\ UNCHANGED <<runtimeVars, cancelled, start, childVars, writeVars>>

\* The thread cannot be started or the commit fails: closed, the gate cancelled,
\* the child cleaned up, the runtime removed.
InstallFails ==
    /\ life \in {"inserted", "spawned"}
    /\ closed' = closed \cup {made}
    /\ reader' = [reader EXCEPT ![made] = "none"]
    /\ reaper' = Cleaned(made)
    /\ shell' = NoRuntime
    /\ life' = "failed"
    /\ UNCHANGED <<status, made, cancelled, start, child, kills, writeVars>>

OpenReturns ==
    /\ life \in {"installed", "failed"} /\ ~cancelled
    /\ status' = IF life = "failed" THEN "Error" ELSE status
    /\ life' = "free"
    /\ UNCHANGED <<runtimeVars, cancelled, start, childVars, reader, writeVars>>

\* close_session_under_lifecycle_lock and disconnect_shell_runtime, for a close
\* and for a cancelled open.
CloseRemove ==
    /\ \/ life = "free" /\ (status \in ActiveStatuses \/ shell # NoRuntime)
       \/ life = "cancelling"
    /\ closed' = closed \cup ({shell} \ {NoRuntime})
    /\ reaper' = IF shell = NoRuntime THEN reaper ELSE Cleaned(shell)
    /\ shell' = NoRuntime
    /\ life' = "tail"
    /\ UNCHANGED <<status, made, cancelled, start, child, kills, reader, writeVars>>

\* The reaper has finished or its three seconds are over.
CloseFinish ==
    /\ life = "tail"
    /\ status' = "Disconnected"
    /\ life' = "free"
    /\ UNCHANGED <<runtimeVars, cancelled, start, childVars, reader, writeVars>>

-----------------------------------------------------------------------------
(* read_shell_pty.                                                          *)

\* The closed flag, or a read that fails because the child is going.
ReadEnds(r) ==
    /\ reader[r] = "reading"
    /\ r \in closed \/ child[r] # "running"
    /\ reader' = [reader EXCEPT ![r] = "ending"]
    /\ UNCHANGED <<status, runtimeVars, laneVars, start, childVars, writeVars>>

\* An empty read finds the child ended: try_wait reaps it, unless the reaper has it.
ReadFindsExit(r) ==
    /\ reader[r] = "reading"
    /\ reaper[r] = "none"
    /\ child[r] = "exited"
    /\ child' = [child EXCEPT ![r] = "reaped"]
    /\ reader' = [reader EXCEPT ![r] = "ending"]
    /\ UNCHANGED <<status, runtimeVars, laneVars, start, reaper, kills, writeVars>>

ReaderCleans(r) ==
    /\ reader[r] = "ending"
    /\ closed' = closed \cup {r}
    /\ reaper' = Cleaned(r)
    /\ reader' = [reader EXCEPT ![r] = "reporting"]
    /\ UNCHANGED <<status, shell, made, laneVars, start, child, kills, writeVars>>

\* with_current_session_runtime_store
ReaderReports(r) ==
    /\ reader[r] = "reporting"
    /\ IF shell = r
       THEN /\ status' = "Disconnected"
            /\ reader' = [reader EXCEPT ![r] = "removing"]
       ELSE /\ reader' = [reader EXCEPT ![r] = "none"]
            /\ UNCHANGED status
    /\ UNCHANGED <<runtimeVars, laneVars, start, childVars, writeVars>>

\* remove_runtime_if_owned
ReaderRemoves(r) ==
    /\ reader[r] = "removing"
    /\ shell' = IF shell = r THEN NoRuntime ELSE shell
    /\ reader' = [reader EXCEPT ![r] = "none"]
    /\ UNCHANGED <<status, made, closed, laneVars, start, childVars, writeVars>>

-----------------------------------------------------------------------------
(* write_shell_bytes.                                                       *)

WriteStarts(w) ==
    /\ write[w] = "idle"
    /\ shell # NoRuntime
    /\ write' = [write EXCEPT ![w] = "writing"]
    /\ target' = [target EXCEPT ![w] = shell]
    /\ UNCHANGED <<status, runtimeVars, laneVars, start, childVars, reader>>

WriteCompletes(w) ==
    /\ write[w] = "writing"
    /\ target[w] \notin closed
    /\ write' = [write EXCEPT ![w] = "idle"]
    /\ target' = [target EXCEPT ![w] = NoRuntime]
    /\ UNCHANGED <<status, runtimeVars, laneVars, start, childVars, reader>>

\* Cancelled, late, failed or dropped half way: ShellWriteGuard ends this PTY.
WriteFails(w) ==
    /\ write[w] = "writing"
    /\ closed' = closed \cup {target[w]}
    /\ reaper' = Cleaned(target[w])
    /\ write' = [write EXCEPT ![w] = "idle"]
    /\ target' = [target EXCEPT ![w] = NoRuntime]
    /\ UNCHANGED <<status, shell, made, laneVars, start, child, kills, reader>>

-----------------------------------------------------------------------------
Lifecycle ==
    \/ OpenSession \/ CancelOpen \/ OpenCancelled \/ OpenPrepareFailed
    \/ InstallRuntime \/ InstallReader \/ InstallCommits \/ InstallFails
    \/ OpenReturns \/ CloseRemove \/ CloseFinish

ReaderStep(r) ==
    \/ ReadEnds(r) \/ ReadFindsExit(r) \/ ReaderCleans(r) \/ ReaderReports(r)
    \/ ReaderRemoves(r)

Next ==
    \/ Lifecycle
    \/ \E r \in Runtimes :
         \/ ChildExits(r) \/ ReaperPolls(r) \/ ReaperPanics(r) \/ ReaderStep(r)
         \/ PrepareStarts(r) \/ PrepareFails(r) \/ PrepareDropped(r)
    \/ \E w \in Writers : WriteStarts(w) \/ WriteCompletes(w) \/ WriteFails(w)

Spec == Init /\ [][Next]_vars

-----------------------------------------------------------------------------
(* Properties.                                                              *)

\* A live status has a registered runtime whose reader will report its end, and
\* no runtime stays registered without one (install, reader and close race).
ShellStatusIsServed ==
    life = "free" =>
        /\ status = "Connected" =>
             shell # NoRuntime /\ reader[shell] \in {"reading", "ending", "reporting"}
        /\ shell # NoRuntime => reader[shell] # "none"

\* A child is never lost: it is reaped, or the open, the registered runtime or the
\* task that prepared it still owns it, or a reaper will wait for it, whether its
\* open was cancelled, failed or closed and whatever became of the first kill; only
\* a panic of the reaper's own worker leaves it to nobody
\* (shell_transport.rs: "this task owns the actual child, independent of a caller
\* being cancelled or dropping its last runtime reference").
NoChildIsLost ==
    \A r \in Runtimes :
        child[r] \in {"running", "exited"} =>
            \/ start[r] = "ready"
            \/ shell = r
            \/ reaper[r] \in {"polling", "killed", "panicked"}
=============================================================================
