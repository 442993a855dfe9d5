# PortMate: TLA+ models, checks and proofs

PortMate is a terminal workspace (Tauri, Rust, React): SSH, serial, TCP/Telnet and
local-shell sessions, file transfers and tunnels over them, stored credentials,
and an MCP interface through which other programs use the sessions.  This directory
models the parts of its Rust code in which several tasks, threads or processes
change shared state, or in which an algorithm must be right for every
cut of its input; checks them with TLC; and proves the main results with TLAPS.
Source paths below are relative to `src-tauri/src/` unless they begin with
`crates/` or `src/`.

Contents

1. [The system](#1-the-system)
2. [The modules](#2-the-modules)
3. [The runs](#3-the-runs)
4. [What is proved](#4-what-is-proved)
5. [Findings](#5-findings)
6. [What is not modelled](#6-what-is-not-modelled)
7. [What could come next](#7-what-could-come-next)

## 1. The system

One desktop process owns an `AppState` (`state.rs`): the `SessionStore` behind
one mutex, registries of live runtimes (SSH, shell, TCP, serial, tunnels), and
maps of locks and cancellation flags.  Commands arrive from the window and from
MCP clients and run as concurrent async tasks.  Several processes may use one
data directory.

| Component | State it keeps | Operations | Interacts with | What is hard | What makes it correct |
|---|---|---|---|---|---|
| Transfer queue (`transfer_runtime.rs`, `transfer_runtime/state.rs`, `crates/portmate-core/src/store/histories.rs`) | transfer records in the store; `transfer_lanes`; `transfer_cancellations`; staged MCP content | start, retry, cancel, run, finish, trim | store, session runtimes, updater, profile deletion | a cancel between two locks; a runtime replaced under a transfer; restart with active records | a cancel reaches the runner and sticks; no record without a runner; nothing leaks |
| Store and its snapshot (`store_persistence.rs`, `store_transactions.rs`, `state_snapshot.rs`, `sqlite_store.rs`) | the store in memory, the SQLite snapshot, the expected version per path, the file lock | transactions, applied changes, journal updates, load, verification after an error | every command; other processes | errors after COMMIT; another process between two reads; crash | nothing saved is lost; what a caller is told is true |
| JSON compatibility snapshots (`store_compatibility.rs`) | a bounded queue per path, one worker, one condition variable | enqueue, write, flush with a timeout | every successful save; updater; exit | a wake-up given to the wrong waiter; a flush while the worker writes | the newest store of every path is tried; a flush that says Ok saw it |
| Session lifecycle (`session_open.rs`, `session_close.rs`, `session_profile_delete.rs`, `profile_commands.rs`) | lifecycle lanes, pending opens, stored status | open, cancel, close, delete, edit | runtimes, updater, tunnels, transfers | commands queue on a lane while tasks outside the lane end or replace the runtime | status and registry agree; a close always ends; a closed session stays closed |
| SSH connection, authentication and host keys (`ssh_transport.rs`, `ssh_handler.rs`, `ssh_security.rs`, `ssh_authentication.rs`, `crates/portmate-core/src/host_keys.rs`, `ssh_host_key_*.rs`) | trusted keys, confirmations for one connection, the copies an attempt works from | scan, trust, revoke, confirm, connect over jump hosts, authenticate, install | profile and key edits, lifecycle, reconnect | a profile and a file of keys that change while an attempt waits; two first meetings at once | every hop was trusted under the key rules when it counted; a confirmation serves one connection and is not lost |
| SSH runtime and reconnect (`ssh_session_lifecycle.rs`, `ssh_reader.rs`, `ssh_reconnect*.rs`) | the SSH registry, `closed` flags | register, read, disconnect, reconnect, install | lifecycle, tunnels, transfers | a connection that arrives after a close; a commit that fails half way | every active session has exactly the task that will move it |
| Work beside the terminal (`ssh_auxiliary.rs`, `tmux_runtime.rs` and `tmux_runtime/`, `sysmon_*`, `ssh_health.rs`) | watchers per target, leases of a runtime | start, stop, listen, ask, sample | SSH runtime, lifecycle, exit | a handle used after its runtime was replaced; two starts for one target | a watcher can always be stopped; an answer is about one connection |
| Tunnels (`ssh_tunnel*.rs`, `host_proxy_*.rs`, `proxy_protocol.rs`) | tunnel registry, tunnel lanes, the enabled tunnels of the profile, remote listeners and routes, the app's connection slots | create, bind, install, restore, check, stop, fail; accept, shake hands, route, pipe | SSH runtime, updater, profile | a listener bound for a runtime that is gone; routes shared by tunnels; half-closed pipes | a tunnel belongs to the registered runtime, its port leads to it alone, and what goes through is whole |
| Updater (`update_commands.rs`) | the updating flag | begin, survey, cancel, close, drain | transfers, sessions, tunnels, JSON snapshots | work that was admitted before the flag and starts after the drain | when it is prepared nothing runs |
| Serial sessions (`state.rs`, `serial_transport.rs`, `serial_reconnect*.rs`) | worker registry, `closing_sessions` barrier, the serial registry | open, install, write, set lines, close, deferred cleanup, reconnect, shutdown | lifecycle, outbound writes | a blocking task that returns to nobody; a worker that outlives the close; two closes | the port is not opened while a clone of its handle lives; every barrier is lifted |
| TCP and Telnet sessions (`tcp_*.rs`, `telnet_protocol.rs`) | registry, options and protocol lane per runtime, parser state | open, read, negotiate, resize, write, reconnect, close | lifecycle, outbound writes | a reply, a resize and a text that meet between encoding and writing; a stream cut anywhere | the peer reads text in the mode it was told and knows the size; the terminal gets the data |
| Local shell sessions (`shell_transport.rs`) | registry, reaper | prepare, install, read, write, close, reap | lifecycle | a child nobody waits for | a child has an owner or a reaper |
| Credential migration (`migration_*.rs`, `migration_runtime/`) | a journal in the store, secrets in two providers | plan, write targets, commit profiles, clean up, recover | store, secrets, vault | a crash between any two steps | every reference in the store is readable; every journal can be resolved |
| Portable vault and secrets (`portable_vault.rs`, `secret_provider.rs`, `session_credentials.rs`) | the vault snapshot and its version | unlock, put, delete, save | migration, sessions | two processes; a save whose version cannot be read | a command changes only its own entries; a connect keeps what it captured |
| MCP control (`mcp_*.rs`) | grants, pending approvals, audit records, the HTTP bridge's settings, token and process | authorise, approve, execute, grant, revoke, start, probe, retire | sessions, transfers, outbound writes, keyring | an approval that outlives its deadline, grant or target; a grant that expires under a running bridge | a write is authorised, and what was approved, when it happens; a token serves the grant it was made for |
| MCP server (`crates/portmate-mcp`) | permits, the endpoint file, content uploads on disk | take a request off its socket, dispatch, call the desktop, begin/append/commit/expire an upload | desktop process over IPC, other server processes | requests cut anywhere; a desktop that dies before it answers; several servers and one quota | a request is what was sent; an answer says what happened; the quota holds |
| Outbound writes (`outbound_*.rs`, `paced_send.rs`, `terminal_input_stream.rs`, `src/terminal-input-stream.ts`) | input streams, write queues and their workers, the outbound lane, the active command | number, accept, queue, pace, cancel, write, run a command | runtimes, triggers, MCP, tmux | calls that arrive late, twice and out of order; a channel replaced while input waits | keys reach the channel they were typed for, once and in order; output belongs to the command it is marked with |
| Events and logs (`session_events.rs`, `outbound_events.rs`, `log_*.rs`) | inbound queues, the store's event list, an outbox, deferred log queues, log shards and their index | record, trim, flush, append, prune, delete, read back | all runtimes, triggers | a worker replaced after a flush timed out; retention against appends | what was accepted is recorded, in order and within its bounds; a reference reads its own text |
| Automation (`trigger_runtime*`, `one_key_*`, `tmux_*`) | triggers, running local commands, tmux state | match, run, send, attach | outbound writes, SSH runtime | text sent to a connection that replaced the one that matched | a trigger's text goes to the connection whose output matched |
| File protocols (`modem_*`, `scp_*`, `sftp_*`, `tftp_transfer.rs`, `file_transfer.rs`) | per transfer: blocks, part files, bindings | send, acknowledge, resume, commit, abort | transfer queue, serial settings | lost and repeated blocks; a part of another attempt or another source | the file arrives whole or the transfer fails, and the device is left alone |
| File operations and exports (`file_operations.rs`, `file_batch*.rs`, `file_*delete.rs`, `external_drop_*.rs`, `remote_safe_tree.*`, `terminal_export_commands.rs`, `bundle_*.rs`) | names in a tree; temporary and backup names | plan, move, delete, walk, batch; write, install, undo | transfer queue, others who change the tree | a tree that changes between plan and step; a failure between two renames | nothing is lost or replaced that was not given to it |
| The rest: host scripts, start-up, frontend, vendored libraries | | | | | see section 6 |

`PROJECT.json` lists every component with its sources and its status, and under
`hazards` the places where this code can go wrong in a way a test hardly
reaches, each with the properties that would catch it.

## 2. The modules

| Module | Extends or instantiates | Models |
|---|---|---|
| `TransferQueue` | | the transfer queue of one desktop process |
| `MCTransferQueue` | `TransferQueue` | workloads for TLC |
| `DurableLog` | | what a persisted store promises |
| `StoreSnapshot` | `DurableLog` | processes that share one store |
| `CompatibilitySnapshot` | | the queue of JSON snapshots |
| `Persistence` | `StoreSnapshot`, `CompatibilitySnapshot` | the two halves of saving |
| `SshSession` | | lifecycle, SSH runtime, reconnect, tunnels and update of one session |
| `SshAuxiliary` | `SshSession` | tmux watchers and single questions beside the session |
| `SshConnection` | | how a connection is established: hops, host keys, authentication |
| `RemoteForwards` | | listeners and routes of remote tunnels |
| `TunnelClient` | | one connection through a tunnel or a proxy |
| `SshWork`, `MCSshWork` | `SshConnection`, `RemoteForwards`, `TunnelClient` | the three together; keys and targets for TLC |
| `SerialSession` | | lifecycle, workers, reader and reconnect of one serial session, and the shutdown |
| `TcpSession`, `TelnetCodec`, `ShellSession` | | the same for TCP and Telnet; the codec byte by byte; the same for shells |
| `SessionKinds` | `SerialSession`, the three above | a session of any of these kinds |
| `CredentialStore` | | references, secrets, the vault and the migration journal, for several processes |
| `TerminalInput` | | key strokes from the window to the terminal channel and the log |
| `CommandOutput`, `EventLog`, `LogShards` | | which command output belongs to; events, triggers and remarks; log shards |
| `TerminalWork`, `MCTerminalWork` | `TerminalInput`, the three above | the four together; budgets for TLC |
| `McpControl` | | MCP writes, approvals and grants, and the HTTP bridge |
| `McpServer`, `ContentUpload`, `HttpFraming` | | the MCP server process; uploads shared by processes; requests on a socket |
| `McpWork`, `MCMcpWork` | `McpControl`, the three above | the four together; budgets for TLC |
| `DeviceLink` | | the binding of a transfer to a terminal runtime, and its cancellation |
| `ModemTransfer`, `TftpTransfer` | `DeviceLink` | XMODEM and YMODEM with the line and the other program; the one-shot TFTP server |
| `FileCopy`, `ExportFiles`, `FileManager` | | SFTP, SCP and local copies; exports; moves, walks and batches |
| `FileWork` | `ModemTransfer`, `TftpTransfer`, the three above | the work on files together |
| `TransferQueueProofs`, `StoreSnapshotProofs`, `SshAuxiliaryProofs`, `SshWorkProofs`, `CredentialStoreProofs`, `TerminalWorkProofs`, `McpWorkProofs`, `SessionKindsProofs` | the module they are named for and the ones it composes | theorems (section 4) |

The rule for what is one step is the same everywhere: what the code does while
it holds a mutex, or between two awaits, is one action; what two lock regions
or an await separate is two.  An action carries the name of its function or of
the part of it that it stands for; `PROJECT.json` maps each to its lines.
Definitions introduced by a comment `Mutant:` are deliberate errors; each
property is shown to fail when its mutant takes the place of the definition that
follows it.  No specification uses them.

Six modules compose others: `Persistence`, `SshWork`, `SessionKinds`,
`TerminalWork`, `McpWork` and `FileWork` give components that share no variable in
the code (or, for the session kinds, the same lane, status and tasks) one
specification: a variable chosen at the start says which of them a behaviour is about, and the
others rest.  Nothing is claimed of their interleaving.  `SshAuxiliary` is different:
the session and the work beside it take steps in one behaviour and meet in the registry.

### TransferQueue

A transfer is a task with a program counter: `Submit` (or `Retry`) registers the
cancellation token and the staged content; `Enqueue` commits the Queued record,
under the store's mutex, with the update flag and the limits checked again there;
`RefuseEnqueue` unwinds.  The runner then waits for its session's lane
(`TakeLane`, or `CancelledInLine` when the token is set first), re-checks its runtime
(`Gate`, `Validate`), marks the record Running (`MarkTransferRunning`), binds the
modem, transfers (`TransferEnds` with any result, `TransferAborts` when the token
is set), releases token and staging (`FinishCleanup`) and commits the result
(`FinishCommit`).  A cancel is two steps, `CancelBegin` (token looked up) and
`CancelCommit` (record changed, token set), as in
`cancel_transfer_inner_with_validation`.

State that matters to the properties: `store` and `disk` are the same record
(profiles, status of each transfer, which records are newer than which) because
the history keeps the latest results.  `PersistApplied` lets a save fail, so that
memory and disk part.  `Restart` loads `disk` through
`normalize_interrupted_transfers`.  A lane is named after the task that created
it, so that a lane dropped by a deletion and a lane created later are
different locks although they belong to the same session id.  `gen` counts SSH
or modem runtimes of a session; a runner remembers the one it was bound to.

Not in the model: bytes and progress messages (a result is one step),
paths and validation of requests (a request that is refused before its token is
registered changes nothing).

### StoreSnapshot, DurableLog, CompatibilitySnapshot, Persistence

Each process has a store in memory, the version it expects on disk, and at most
one operation under way (the code holds the `SessionStore` mutex from the change
to the end of the verification).  `LockSnapshot` takes the file lock and reads the
version; `Refuse` is the stale-write error; `WriteSkipped` is the save of identical bytes
(which leaves the version as it is); `Write` is COMMIT; `WriteFails` an error before it, `ReadbackFails` an error
after it; `Refresh` and `RefreshFails` read the new version.  An error leads to
`verify_persisted_store_commit`, in two steps because it reads the store and then
its version, without the file lock: `VerifyMatches`/`VerifyDiffers`/`VerifyFails`, then
`Adopt`.  `Crash` drops memory and lock; `LoadStore` reads the disk.

A store's contents are the set of changes made to reach them.  This is enough
because every save replaces the whole snapshot: what a save loses is a change
that is in the old set and not in the new one.  A version is a number since the
revision is a fresh UUID in each writing transaction.

`DurableLog` is the abstract specification: a log that only grows, a set of
acknowledged changes contained in it, and a set of rejected ones that never
enter it.  `ImplementsDurableLog` maps the log to the contents on disk, and the
other two to what the callers were told.

`CompatibilitySnapshot` has paths with their pending store, the order of arrival, the paths being written, the
worker thread (which may fail to start) and the threads that flush.  The
condition variable is modelled by who waits on it: `NotifyOne` wakes any one
waiter, worker or flusher, `NotifyAll` wakes all.  `Persistence` puts both in one
specification; all that passes between them is the store of a save that succeeded.

### SshSession

One session with its callers.  A command registers (`RegisterOpen`, `BeginClose`,
`BeginDelete`), waits for the lifecycle lane (`TakeLane`) and then takes the steps of
its function between awaits: `OpenConnecting`, `OpenProceeds`, `OpenInstalls`,
`OpenConnected` or one of the ways out (`OpenRefused`, `OpenFails`,
`OpenCancelled`, `OpenCommitFails` and `OpenUnwinds`); `CloseRemoves`,
`CloseStopsTunnels`, `CloseEnds`; `DeleteChecks`, `DeleteErases`, `DeleteFails`.  The update is a
caller too: it sets the flag, surveys, cancels pending opens, closes the session and drains
what is left.

Each runtime has one task: its reader, which becomes its reconnect task.  The
task, the restoring of tunnels after an open or a reconnect, and the tunnel
commands run outside the lane and check the registry under its mutex, as the
code does.  A tunnel's start is at least two steps, with the bind between them.

The profile is reduced to what those tasks look at: whether it exists, whether
it reconnects, and with which settings an attempt connects (an attempt made with
settings that were edited meanwhile is discarded).

### SshAuxiliary

A watcher of tmux's control mode is a record per call of `start_tmux_control`: it leases the
registered runtime (`Leases`, which checks the limits in the same step as the code's one
lock region), looks for a rival of its target (`LooksAgain`, `Joins`), opens its channel, installs itself over
what is there (`Installs`, `Replaces`: a watcher that is replaced has always been
cancelled by the second look before), hears changes and tells them (`Hears`, `Tells`), and ends
because its channel, its connection or its parent is gone or because it was stopped
(`Ends`, `ChannelEnds`, `ParentIsGone`, `Unregisters`).  A question (`Asks`, for tmux, health or the
system monitor) takes the handle of the registered runtime, does without the registry
what it does, and checks it again before it answers.  `held` is auxiliary: the facts that have been true of
the runtime without interruption since the question.  `Shutdown` is the exit.  A scene
(`Scenes`) says how much of this a behaviour does, to keep the instance small.

### SshConnection

An attempt, an open or a reconnect, works from a copy of the profile and, taken later, a copy of the
trusted keys and confirmations (`TakeView`).  It goes hop by hop: the key is shown and judged
(`ConnectJump`, `ConnectTarget`, or libssh's `LibsshConnect` and `LibsshVerify`), authentication tries the
methods in order (`AuthenticateJump`, `AuthenticateTarget`), and after it the profile is compared with the stored one and
the key judged again under the store's mutex (`PersistJumpKey`, `PersistHostKey`, `PersistRefused`), where trust on first use adds
it.  Then the terminal, the registry (`InsertRuntime`, `CommitOpen`, `InstallReconnect`) and the confirmations that the
connection takes with it (`TakeOneTimeHostKeys`), or the way back (`CommitOpenFails`,
`ForgetOneTimeHostKeys`, `RestoreOneTimeHostKeys`, `RollBack`).  Beside it the user edits and deletes the
profile, trusts once or always, imports, updates and deletes keys; servers change theirs; connections are lost.
A scan of a host is one step.  `Evaluate`, `Verified`, `Persisted` and `IgnoresChange` are the trust decision as
operators on sets of records.

### RemoteForwards

A remote tunnel has a lane, an address it asked the server for and a port it got.  `CreateBegins`, `Listen`
(or `ListenFails`, `ListenElsewhere`), `Install`, `CommitStarted` are `start_remote_tunnel`; `CheckBegins` to `Restore` are the
health monitor, which looks at routes, acceptor and listener and restores what is missing; `StopBegins`, `Cancelling`, `Cancel`, `Unroute` stop.
`routes` is one map for all tunnels of the connection, with a key for the address and one for the port alone, and
that is where tunnels can hurt each other.  The reader's end, a replacement and the drain of the tunnels (`ReaderEnds`, `ConnectionGoes`, `TunnelsStop`)
do not hold the lanes.  The server may drop a listener, fail a request after doing it, or answer with another port.

### TunnelClient

One connection from its accept to the end of its pipe, for each kind of tunnel and for a proxied connection of the
program itself: its place among `slots`, the SOCKS5 messages in turn, the rules of a dynamic route (before the name of a target is
looked up), the way to the target, and the pipe with two half-closes.  Streams carry handshake messages, pieces of data and ends; what a
side has been given is numbered, so that loss, repetition and reordering show.  The read of a response takes any number of the pieces
that are there.

### SerialSession, TcpSession, TelnetCodec, ShellSession, SessionKinds

The lifecycle lane is one variable, `life`, with the step of the command that holds it:
`Open` (`ensure_session_can_open` and the commit of Connecting), for a serial port the blocking task on its own
thread (`PrepareBegins`, `PrepareOpens`, `PrepareReturns`), the install (`InstallBegins` to
`InstallCommit`), the close (`CloseBegins` to `CloseReturns`).  A cancelled open turns into a
close at its next check; its task goes on alone, and its result is dropped.  Beside the lane run
the reader thread of each runtime, which may become its reconnect thread, writes and line
changes, the cleanup threads of closes that timed out, profile edits and the shutdown of the
application.

The worker registry is not a counter but the state of those threads: `Active` says that one of
them has a guard, `Owned(r)` that one of them has a clone of the port's handle, and `PortFree` that
nobody has.  A guard lives at least as long as its handle, except that the code releases the guard of
a worker an instant before the last local handle is dropped; that instant is not modelled.

`TcpSession` has the same lane with its own open, close, reader and reconnect, and what Telnet adds: the options of a
runtime and the protocol lane.  `ReadChunk` filters a chunk and computes replies under the registry's mutex, `WriteReply`
sends them later; `WriteEncode` encodes a text in the mode of that moment and `WriteSends` sends it;
a resize tells the peer (`ResizeTell`, `ResizeSends`) and then commits.  `peer` is the other side: what it was
told and whether it was sent text in another mode.  Connecting, through a proxy or not, is one step that succeeds
or fails.  `TelnetCodec` is the parser, a byte at a time (`Byte` calls `InData`, `AfterIac`, `AfterNegotiation`, `InSub`, `AfterSubIac`), against
`Wire`, the encoding of any data with a command of any kind slipped in between.  A WILL or WONT BINARY changes the mode in
the middle of the data (`remoteBinary`); the peer encodes what follows in the new one.

`ShellSession` has the blocking task that starts a child on a PTY, the install, the reader, writes, close and
the reaper.  `SessionKinds` is a session of any of these kinds; the kinds share lane, status, reader,
reconnect and write variables because they share that code.

### CredentialStore

Secrets are their references.  On disk: the references of profiles and one-keys, the keyring,
the vault's snapshot, the journal with its payload.  Per process: the store in memory, whether its
expected version is that of the disk, its copy of the vault with the state of its version, the profiles
it is connecting.  A command that changes credentials holds the credential file lock from beginning
to end (`lock_credential_operations`), so there is one `holder` with one `step`; the steps are
separate because the process can die between any two (`Restart`) and because other processes save the
store meanwhile.

A replacement (`BeginReplace`, `Generate`, `CommitReplace`, `VerifyReplace`, then `CleanupReplaced` or
`RollbackReplace`) stands for a profile save with a proxy password, an identity rotation, a
one-key save and their deletions, which have the same order of writes.  A migration goes from
`Prepare` to `Clear` or `KeepPending` with a way back from every step, and `BeginRecover` with
`Disposition` and `Unsafe` is the recovery.  Each journal event may be recorded, recorded but
reported as an error, or not recorded.  `Windows` opens two windows that are known to break
`NoDangling` (section 5); the passing run keeps them closed.

### TerminalInput

The window numbers the packets of a stream and does not wait for answers: `Type` adds a packet, and
`AcceptPacket` may take any packet sent so far, at any time and again.  `accept_inner` orders them (`InOrder`) and hands
what is in order to the session's write queue (`Enqueue`).  A queue has a worker thread, which merges packets
(`WorkerTakes`, `Merged`) and sets aside the one it may not merge, waits in the FIFO of the outbound lane, captures the channel
(`WorkerCaptures`), writes and hands the text to the deferred log queue (`WorkerRecords`, `Gathered`).  A stopped queue and its worker live on
beside the one that replaces it, as do deferred queues.  The paced sender uses the same queue
with a cancellation.  Close, tmux attach and exit stop all of this in the order of the code.
`typed`, `opened`, `carried` and `wire` are auxiliary: what the properties compare.

### CommandOutput, EventLog, LogShards, TerminalWork

`CommandOutput`: everything that sends (text, bytes, keys, one-key values, modem data, commands, the tmux attach) holds
the outbound lane from its first check to its record, and takes the steps between which the registry can change:
`Begin…`, `Capture`, `Write`, `Recorded` or `Fails`.  A command is active from before its bytes are written; opens,
closes, losses and reconnects go on without the lane.

`EventLog`: a reader stamps a chunk and puts it on the inbound queue (`Receive`); the queue's worker takes a batch, records,
appends, applies triggers and saves, with the store unlocked in between (`TakeBatch`, `RecordEvent`, `AppendShards`, `ApplyTriggers`, `Checkpoint`); a trigger starts
local commands and sends texts, each a task with its slot; a remark goes to the store at once and through the outbox to its worker
(`SinkWakes`, `SinkWrites`); a flush and the exit close and wait, and a flush that timed out leaves its queue behind.  The clock does not run backwards.

`LogShards`: one shard and its directory.  An append prunes first (`MaybePrune`, `ListExpired`, `RemoveExpired`, `RemoveDirectory`), then
creates, opens, locks and writes; a user deletes; a reference reads the bytes of its range and compares their digest.
`KeysAgree` says whether an append locks by the same name as a prune (section 5).

### McpControl, McpServer, ContentUpload, HttpFraming, McpWork

`McpControl`: a write is a handler with a program counter from `Submit` to `FinishApplied`.  Its approval is an entry of
`pending` that is removed by whoever comes first: the answer, the timeout (two steps: the timer
fires, then the entry is removed) or the deletion of the session.  `Valid` is the second and third
validation.  Saving an audit record may fail after it reached the disk.  Grants, binding, token and process change under the bridge's mutex and are one step each; expiry,
the keyring and the child process move by themselves.  The readiness probe is three steps because it runs
without the mutex.  `episode` is auxiliary: it counts how often a grant came into force, so that a token can be
compared with the grant it was made for.

`McpServer`: a request comes on a connection or as a line, with an envelope of one message or several; each is answered
alone or by a call to the desktop that the endpoint file names (`Connect`, `Send`, `Receive`, `GiveUp`).  On the other side a desktop
admits a call, runs it and answers (`TakeCall`, `AdmitCall`, `RunRead`, `RunWrite`).  Desktops publish themselves, retire and
crash, and two may be there at once.

`ContentUpload`: processes share a directory.  The root's lock guards the beginning of uploads with its sweep of expired ones, each
upload's lock guards that upload, and a lock is a name that leads to an inode, so that a lock file removed and
made again is another lock (`OpensLock`, `TakesLock`, `Verified`).  A process may die anywhere.

`HttpFraming`: messages of several forms come in reads cut anywhere; head, declared length, chunks with sizes and
trailers, limits.  `BodyOf` is what was meant.

### DeviceLink, ModemTransfer, TftpTransfer

One transfer through a terminal session.  `Bind`, `Register` and `CheckAfterBind` are
`transfer_modem_binding`; beside it the user cancels (`CancelTask`, `CancelLooksUp`, `CancelWrites`) and the
runtime may be lost (`RuntimeLost`).

X/YMODEM: `out` and `inn` are the two directions of the line, `pc` the place in the sender
(`Transmit`, `HearAnswer`, `AnswerTimesOut`, `HearCrcRequest`) or in the receiver (`ReceiveHeader`, `TakeBlock`,
`RefuseBlock`, `TakeEot`, `TakeLast`, `CommitOutput`), with the setup of the four kinds of peer:
started by hand, started through the shell (`StartPeer`, `PeerIsReady`, and after the file `PeerFinished`,
`FinalizeRemote`), a boot loader, and a boot loader that wants another baud rate (`SwitchBaud`, `ConfirmBaud`,
`AbortDevice`, `RestoreBaud`).  A byte is real or padding (`"e"`, 0x1A), because what is stripped
depends on it; a packet is its number and data, or torn or garbled.  `DropOther` reads a byte nobody
waits for.  A deadline passes when what is waited for is not on its way, or as one of the
faults, late.

TFTP: `wire` holds every datagram sent.  Delivering an element removes nothing, so a datagram may be delivered
late, again and out of order; one that is never delivered is lost.  `NumberMod` makes block numbers
wrap; a datagram has left the network before its number is expected again.

### FileCopy, ExportFiles, FileManager, FileWork

`FileCopy`: a transfer by one of seven methods from its first attempt to its last: what it reuses of the part file
(`ResumeLocal`, `ResumeScpDownload`, `ResumeRemote`, by length and digest), the copy byte by byte, and the commit (`FinalizeLocal`, or `FinalizeLink` and
`FinalizeUnlink`, or a script on the host that checks, writes and links: the `shell` variable).  Names and contents are apart.  The source may be edited, the part may be another's, every step may fail,
and a script may outlive its client.

`ExportFiles`: artifact, checksum and signature written under temporary names, existing files backed up, installed one by
one and undone; every call may fail and the process may stop between any two.

`FileManager` has three specifications: a request to move, rename, create or delete, planned against the tree and carried out
item by item while somebody changes it (`Stir`); the walk of a tree here or on the host (`List`, `Look`, `Enter`, `Take`, `Leave`, `Recheck`) while a
directory is swapped for another or for a link (`Swap`); the planning of a batch of transfers with its names, policy and capacity.

## 3. The runs

`tlc -config <cfg> <module>`; times with two workers.

| Run | Configuration | Checks | States | Time |
|---|---|---|---|---|
| `transfer_session` | `TransferQueueSession.cfg` on `MCTransferQueue` | `SettledAfterCleanup`, `CancelSticks`, `CompletedOnBoundRuntime` | 945 000 | 80 s |
| `transfer_update` | `TransferQueueUpdate.cfg` on `MCTransferQueue` | `UpdateQuiescent`, `ActiveHasRunner`, `RequestsSettle` | 65 000 | 75 s |
| `persistence` | `Persistence.cfg` | `ImplementsDurableLog`, `StoresAreTried` | 252 000 | 60 s |
| `ssh_lifecycle` | `SshLifecycle.cfg` on `SshSession` | `RuntimeMatchesStatus`, `SessionIsDriven`, `TunnelsOnRuntime`, `NoResurrection` | 2.9 million | 180 s |
| `ssh_live` | `SshAuxiliary.cfg` | `CloseCompletes`, `SideWorkIsSound`, `WatchersEnd` | 180 000 | 190 s |
| `ssh_connect` | `SshConnect.cfg` on `MCSshWork` | `FirstUseIsUnique`, `ConfirmationIsKept`, `KeysAreTrusted`, `ForwardsAreServed`, `TunnelsAreFaithful` | 1.0 million | 220 s |
| `session_kinds` | `SessionKinds.cfg` | `SerialPortIsReleased`, `EveryStatusIsServed`, `TelnetIsFaithful`, `NoShellChildIsLost`, `BarrierIsLifted` | 784 000 | 120 s |
| `credential_migration` | `CredentialMigration.cfg` on `CredentialStore` | `NoDangling`, `Recoverable`, `SparesConnecting` | 1.35 million | 140 s |
| `credential_stale_delete` | `CredentialStaleDelete.cfg` on `CredentialStore` | `NoDangling` (violated, section 5) | | |
| `terminal_input` | `TerminalWork.cfg` on `MCTerminalWork` | `KeysInOrder`, `InputStaysHome`, `OutputIsAttributed`, `LogsAreKept` | 2.7 million | 145 s |
| `mcp_control` | `McpWork.cfg` on `MCMcpWork` | `WritesAreApproved`, `TokenIsCurrent`, `ServerIsTrue`, `ServerIsExact`, `EveryRequestEnds` | 342 000 | 130 s |
| `file_work` | `FileWork.cfg` | `FilesAreIntact`, `DeviceLeftAlone`, `TransferEnds` | 837 000 | 145 s |

What they show, beyond the names:

- `persistence`: what a caller was told of its save is true through errors before and after COMMIT and crashes; a
  JSON file never goes back to an older store, no wake-up is lost, and a flush that says Ok saw every store enqueued before it.
- `ssh_live`: every close ends; a watcher that goes on can be reached by a stop; what a question answers was true of one
  connection from its beginning to its end; a watcher ends with its connection and a change it heard is announced.
- `ssh_connect`: no connection rests on a key revoked before its last check; trust on first use trusts one key, also when two attempts meet a
  host at once; a confirmation serves one connection and survives failed opens.  A remote tunnel that is
  listed and left alone has its routes, its acceptor and, if the server does as it is told, its listener; a connection that arrives at its port is
  not handed to another.  A tunnel's pipe delivers what was sent, in order and whole; no target is
  reached that the rules exclude; places are given back.
- `session_kinds`: after a close that completed no clone of the serial port's handle is left, not with a
  reader, a reconnect, a write or the blocking task of a cancelled open that had begun before the workers were counted
  (`LatePrepare = FALSE`; section 5 says what a task that begins later does); with the same exception, a close that gave up
  waiting leaves a barrier that a later close may lift, yet no open meets a handle of this
  application.  Every barrier is lifted.  A status that says a session is live has a task that will report its end, for serial, TCP and shell
  sessions.  A Telnet peer reads text in the mode it was told and knows the size; the codec returns
  the data for every cut.  A shell's child that nobody owns has its reaper, unless that has panicked.
- `credential_migration`: no reference on disk loses its secret to a failure, a death, a stale vault
  or another process; profiles and journal never disagree about which side of the commit they are on;
  only an entry lost outside PortMate freezes a migration; no step deletes a secret that a connect under way has captured.
- `terminal_input`: order and uniqueness of keys survive arbitrary delays, repetitions and queues that
  are stopped and replaced; a channel opened for a tmux attach is never installed on another connection;
  a trigger's text goes to the connection whose output matched; output carries the id of the command last accepted; the store's
  events are in order and within their bounds, what was accepted by a queue is recorded, an append lands in a shard that is there, and a reference reads its
  own text or nothing.
- `mcp_control`: no answer, deletion, expiry, failed save or restart lets a write through that
  was not approved for the target it runs on; a token never outlives the grant it was made
  for even when its deletion failed; a reply that says "not executed" is true, a request body is what was sent, uploads keep
  quota, pieces and owner; every request and every connection ends and every bridge without a grant is stopped.
- `file_work`: a file that is reported as sent, received, copied or served is the file, byte for byte but for the
  padding the protocol cannot tell, whatever one fault of the line, or any number of faults of the network, did; no part of another source
  is ever committed; an export leaves old files or new ones; a move loses and replaces nothing; a walk stays in its tree; no two transfers of a batch share a target;
  a device that has a transfer taken from it is told, and gets its baud rate back; no peer can hold a transfer for ever
  except by chattering (section 5).

### Bounds

One bound for everything would be too small or out of reach in most modules.  There a behaviour chooses
one of several budgets, mixes or scenes at its start and keeps to it: each is generous in what one group of
hazards needs and small in the rest.

- *Transfers*: two tasks of one session.  The lane, the limits and the history
  relate at most two transfers at a time.  `transfer_session` pairs an SSH transfer
  that has staged content with a modem transfer, one user who cancels, two
  runtime generations, so that a reconnect happens under a transfer, one deletion and
  re-creation, and a history of one result, so that every end trims.  No restart
  happens in it, so nothing reads `disk`; its `VIEW` leaves that variable out of what
  distinguishes two states.  `transfer_update` has two local
  copies, a retry, the updater and one restart; `Users = {}` because the updater
  cancels through the same two steps.
- *Saving*: one process and three changes: one change is saved, one is lost or
  kept, one is made on top (for several processes see `SharedStoreIsDurable`).  `MaxRevision` caps writing transactions; it is larger
  than the number of changes, so that saves of the same contents happen.  Two JSON paths against a queue of one, so that the queue is full,
  two flushers and the worker on one condition variable, two stores per path so
  that a pending store is replaced.
- *SSH session*: two callers are enough for a command to wait behind another one, and for an update
  against an open or a close.  Two
  runtimes: an old one whose task is late and its successor.  One tunnel, in all of
  its phases.  Two settings in `ssh_lifecycle`, so that an edit outdates an
  attempt; callers, settings and tunnels are symmetric (no liveness is checked
  with symmetry).  Beside the session in `ssh_live`: two starts for one target and one question, with limits of one and two.
- *SSH connect*: a jump host and a target; two keys of the target and one of the jump host; two attempts; two acts of the
  user; trust on first use over russh and asking every time over libssh.  Two remote tunnels on two hosts and ports, so that they share a port, a host or both; one fault of the server.
  Two clients on one slot; two pieces of data each way; one fault.  Keys are symmetric.
- *Session kinds*: one serial open attempt at a time whose task is abandoned by a close and used again by the next
  open, one writer, two settings (an edit outdates an attempt), two runtimes (an old one and its
  successor, by reconnect or by a new open) and two cleanup threads, so that a second close times out
  while the first one's cleanup polls.  Telnet: two runtimes, two chunks of two commands, one write and one resize, in four
  budgets.  The codec: data of up to three of the bytes that matter, one command or option at any place, a subnegotiation longer than is kept.
- *Credentials*: two processes, two profiles that may share a source, two sources, two targets, one
  command by hand, one lost entry, and one profile that connects.  Sources, targets and processes are
  symmetric; the view forgets the copy of a vault whose version is stale, which nothing reads.
  One-keys differ from profiles only in that a migration leaves them alone.
- *Terminal*: budgets for keys and reordering; queues and closes;
  connections and attaches; the paced job; the exit.  Commands: two senders and two runtimes.  Events: three in the store with a queue of two, batches of two, one slot each.
  Shards: three appends, retention of one of two ticks, one deletion.
- *MCP*: budgets for writes with approvals; grants and
  bridge; two clients; a restart of the application.  Server: two connections, one permit of each kind, batches of two, two desktops.
  Uploads: two processes, two names, quota of one upload and two bytes.  Framing: messages with bodies of up to three bytes and a buffer of four.
- *Files*: blocks of two bytes with numbers modulo three, so that three blocks wrap; files that are empty, that
  end in a byte that looks like padding, and of three blocks with one that is all padding; two tries per block; one
  fault of the line at any point (lost, garbled, torn or late).  TFTP with files of 0, 6 and 7 bytes in blocks of two or three, numbers modulo
  three, two command lines, and a device that starts over once.  Copies: two attempts, one edit, what earlier attempts leave.  Exports: three
  faults.  Trees of two directories and what may be swapped in; batches of three files in two folders.

Deadlock is not checked where the system may rest: when the bounds are used up, everything is written and every command has
returned.  It is checked in `transfer_session`, `transfer_update` and `ssh_lifecycle`.

### Fairness

- `TransferQueue!FairSpec`: weak fairness of each runner's own steps
  (`RunnerProgress`) and of the updater's.  These are tokio tasks that wait for
  nothing but a lane or a mutex.  The end of a transfer is *not* fair: a peer may
  never answer.  A cancelled transfer is, since the transfer loops poll the token.
  The lane needs no fairness: a cancelled waiter selects on its token.
- `Persistence!SavingFairness`: weak fairness of the worker thread and of each
  flusher's return, whose wait has a timeout.
- `SshAuxiliary!AuxFairness`: weak fairness of each command's steps and of the
  tasks' steps, each of which is an await with a timeout, and strong fairness of
  taking the lane, because a tokio mutex queues its waiters in order; weak fairness of what a watcher
  does by itself: telling what it heard, its 1 s check of its parent, its tick.  Nothing
  is assumed of users, of peers or of the network: a reader need not end, an
  attempt may always fail.
- `SessionKinds!KindsFairness` (only serial steps): weak fairness of the command that holds the lane, its deadline included,
  of cleanup threads, blocking tasks, reconnect threads, writes that have begun, and the shutdown.  A
  reader is fair only once its runtime is closed, because its reads time out after 100 ms; the end of an
  open connection is not.
- `McpWork!WorkFairness`: weak fairness of a request's handler, of its deadline, of each expiry
  worker's tick, and of a server's steps for a connection, each of which has a deadline.  No user has to answer, no child or desktop has to listen.
- `FileWork!WorkFairness`: weak fairness of a device transfer's steps and of its deadlines, which are absolute, but for
  the one of `modem_wait_for_next_marker`, which starts again with every byte and is left out; of the peer while it does not hang;
  of the server and of its overall deadline.

## 4. What is proved

Each theorem holds for every value of the constants that the named `ASSUME`s
admit: any number of tasks, sessions, processes, callers, tunnels, runtimes, streams,
queues and any limits.

| Theorem | Statement |
|---|---|
| `TransferQueueProofs!TypeCorrect` | `Spec => []TypeOK` |
| `TransferQueueProofs!ActiveRecordsHaveRunners` | a Queued or Running record has a runner, through failed saves and restarts |
| `TransferQueueProofs!CancelReachesRunner` | a runner that works for an ended record has its token set |
| `TransferQueueProofs!CleanupPrecedesResult` | a result is visible only after token and staging are gone, and nothing leaks |
| `TransferQueueProofs!UpdateIsQuiescent` | a prepared update has no active transfer |
| `TransferQueueProofs!CancellationSticks` | no step but a restart overwrites Cancelled |
| `TransferQueueProofs!CompletionsAreBound` | a file transfer over SSH is Completed only while the runtime it was bound to is connected |
| `StoreSnapshotProofs!StoreTypeCorrect` | `Spec => []TypeOK` |
| `StoreSnapshotProofs!SharedStoreIsDurable` | under `PlainSharing`, any number of processes implement `DurableLog` |
| `StoreSnapshotProofs!SoloVersionIsCurrent` | under `OneInstance`, `Spec => []CurrentKnowsDisk` |
| `StoreSnapshotProofs!SoloStoreIsDurable` | under `OneInstance`, every operation and every I/O failure: `DurableLog` is implemented |
| `SshAuxiliaryProofs!SessionTypeCorrect` | `Spec => []TypeOK` |
| `SshAuxiliaryProofs!StatusMatchesRuntime` | status and registry agree whenever the lane is free |
| `SshAuxiliaryProofs!ActiveSessionsAreDriven` | a connected session has a reader, a reconnecting one a reconnect task |
| `SshAuxiliaryProofs!TunnelsBelongToRuntime` | a tunnel over SSH belongs to the registered runtime |
| `SshAuxiliaryProofs!ClosedStaysClosed` | only an open under the lane registers a runtime where there is none |
| `SshAuxiliaryProofs!SideWorkHolds` | a watcher that goes on can be reached; an answer is about one connection |
| `SshAuxiliaryProofs!SessionIsItsOwn` | the session with its side work implements the session alone |
| `SshWorkProofs!FirstUseTrustsOneKey` | trust on first use adds one key of an algorithm for an endpoint |
| `SshWorkProofs!ConfirmationsAreNotLost` | a confirmation waits, is held by an attempt, or was used |
| `SshWorkProofs!KeysStayTrusted` | the keys behind a connection are kept or were confirmed when the last is stored; a confirmation an open has used serves no later connection |
| `SshWorkProofs!ForwardsStayServed` | routes, listeners, profile and acceptor of remote tunnels agree |
| `SshWorkProofs!TunnelsStayFaithful` | connections through tunnels and proxies return their places, obey the rules, and lose, add and reorder nothing |
| `SshWorkProofs!WorkIsSafe` | the composition of `SshWork` keeps what is proved of its parts |
| `SessionKindsProofs!StatusesStayServed` | a live status has a registered runtime and the task that reports its end, for serial, TCP and shell sessions |
| `SessionKindsProofs!SerialPortStaysReleased` | with `LatePrepare = FALSE`, a completed close leaves no handle behind and an open meets none |
| `SessionKindsProofs!ShellChildrenAreKept` | a child that nobody else owns has its reaper, unless that has panicked |
| `CredentialStoreProofs!NothingDangles` | with `Windows = {}`, no reference on disk loses its secret |
| `CredentialStoreProofs!JournalsResolve` | with `Windows = {}`, every journal on disk can be resolved |
| `CredentialStoreProofs!ClearingLeavesNothing` | with `Windows = {}`, a migration that is cleared has left no planned secret behind |
| `CredentialStoreProofs!ConnectsAreSpared` | no step deletes a secret that a connect of that process has captured (any `Windows`) |
| `TerminalWorkProofs!KeysStayInOrder` | the keys of a stream reach the terminal in order and once |
| `TerminalWorkProofs!InputReachesItsHome` | input reaches only the channel it was typed for, a trigger's text only the connection that matched |
| `TerminalWorkProofs!OutputFollowsItsCommand` | output is marked with the command its connection last accepted |
| `McpWorkProofs!TokenBelongsToGrant` | a usable token of the bridge was made for the grant and the client in force |
| `McpWorkProofs!WritesRunApproved` | a write that runs was approved under the grant in force, for its target, once |
| `McpWorkProofs!RepliesStayTrue` | the MCP server's replies are true, complete and in order, each message runs at most once, permits are counted; the endpoint file leads to the desktop in force |

### The arguments

*TransferQueue.*  None of the properties is inductive.  `QueueInvariant` adds what
the two-lock cancel rests on: the token of a runner that works is in the map or
already set (`TokenReachable`), so a cancel that found no token came after the
runner was past working (`LateCancels`); the tasks a deletion collected or the
updater has still to cancel have left their submission (`DoomedStopped`, `TodoKnown`);
after the updater's snapshot every active record is on its list or in its
hands (`UpdateCovers`), because `Enqueue` checks the flag under the store's
mutex.  `BoundInvariant` is for `CompletionsAreBound`: a file transfer that was validated is bound, and stays bound; only
a transfer that returned has a result.  `TypeOK` is proved first and used in every step.

*StoreSnapshot.*  Two inductive invariants, for the two settings in which the
promise holds.  `SharedInvariant` (any number of processes; the only fault is an
error before COMMIT; every save carries a change): the version a lock holder has
seen is the one on disk, an unsaved change is known to its process alone, and a
process whose expected version is on disk has all of the disk in memory.
`SoloInvariant` (one process, everything may fail): a failed save either wrote
exactly the store it meant to write or did not write its change, which is what
makes comparing whole stores a sound test.  Section 5 shows why
the two assumptions cannot both be dropped.  The refinement is proved step by step: each action
is a `Write`, `Ack` or `Reject` of the log, or leaves it alone.

*SshSession.*  `SessionInvariant` says, for each phase of the command that holds
the lane, how far status and registry may differ (`PhaseOfSession`); which task the registered
runtime has, given the status (`TaskOfRuntime`); that a tunnel's runtime is
the registered, connected one (`TunnelsOfRuntime`); and that exactly the lane's holder is in a
phase that needs it (`LaneHeld`).  The tasks outside the lane preserve it because
each of them compares its runtime with the registered one in the step in which it acts.

*SshAuxiliary.*  `AuxInvariant`: the watcher that goes on is the one listed for its target (`WatchersAreListed`), a
rival seen by a start is current (`RivalsAreCurrent`), and what a question has kept is a fact now, what it has lost is lost for
good (`QueriesHoldFacts`), since a runtime that has left the registry never comes back (`Gone`).
`SessionIsItsOwn` maps each step to a step of the session or a stutter, so the theorems of `SshSession` hold here too.

*SshConnection.*  For first use: a key is added in the step that judges it, under the store's mutex and on the records of that moment,
whatever the attempt's copy says.  For confirmations: every one has a place, and each way out of an attempt
puts back what `TakeOneTimeHostKeys` took.
For `KeysAreTrusted` there are two invariants.  `ChainInv`: an attempt has the keys of the hops it has come to, in order, and as long as no
key was removed since its copy, those behind it are kept or were confirmed - keys are added without notice but removed only with a
count (`Grows`), and the count is compared before the next key is judged.  `OnceInv`: one open is under way at a time, and
whoever else is under way beside it after its first step is superseded or past its installation (`Alone`); so the numbers of the confirmations an open has
taken are in no attempt that could still be installed (`Apart`), and new numbers are new.  Every step of an attempt is one of a few
shapes (`Moved`, `Fades`, `Dies`), for which both are shown once.

*RemoteForwards.*  `ForwardsAreServed` is made inductive by saying what each place in a tunnel's lane means: which
routes it has made and not yet taken back (the routes' owners), what the server listens on while the link is up and no fault came (the server), that an acceptor is
there when a tunnel is listed (the acceptor), and who may have a port while two tunnels are under way (the lanes).

*TunnelClient.*  `ClientsInv` is about each connection by itself (`Proper`), and about the places: those of `slots` and those held make `Slots`.
In each direction, what was delivered and the data still in the stream make what was sent (`UpFits`, `DownFits`), and no
data comes after an end (`EndsLast`), so a direction whose end was read has delivered all.  A response that was not cut obeys the
same sum up to its end (`ResponseFits`).  Of a proxy's stream, the answers not yet read come before the
data, and their number is what separates the two (`ProxyFits`).  Each place fits its kind (`PlaceFits`), and behind the rules it
keeps that they allowed the target (`RouteFits`).  The lemmas about counting data in a stream, at an append and a read, carry the sums.

*SessionKinds.*  A step of a session is a step of its kind's module (`StepOfAKind`), so each kind has an invariant of its own.
`SerialInv`: a blocking task is the current open's, and it is gone before the lane is (`PrepareFits`, the only part that
needs `LatePrepare = FALSE`); a thread that is not there holds nothing, and the handle a reconnect opened is for a runtime that no
other thread knows (`HandlesFit`); between the count of a close and the end of the next open's task there is no thread at all, and an
install meets no reconnect (`LaneFits`); after a shutdown has drained the registry only an install that was under way
registers a runtime, and takes it out again (`ShutdownFits`).  `SerialPortIsReleased` is read off these.  `ServedInv` says
which one thread the status of a registered runtime stands for: its reader, the reader that hands over, or the reconnect.
`TcpInv` says the same of the tasks of a TCP session, and what each step of its open has registered.  `ShellInv` adds to that
what each step of a prepared session says of its child and its reaper (`ChildrenFit`).

*CredentialStore.*  `CInv` joins the types; that a process whose version is current has the disk in memory (`Views`); that the
journal on disk fits what is in keyring and vault, for a plan, before the commit and after it (`JournalFits`); and what each
step of the command under way has done and not done yet (`StepFits`).  `Recoverable` and the clearing are then cases of
`JournalFits`.  `ConnectsAreSpared` needs only that a deletion asks for the captured references in the step in which it deletes.

*TerminalInput.*  `InputInvariant`: the newest queue is the one that takes input, and workers stand in the lane in the order of their queues' age
(`NewestTakesInput`, `LaneByAge`); batches have one connection and fit (`BatchesFit`); names of
connections and channels are new when they are given (`NamesAreNew`); what is kept of a stream has numbers that were given and not yet passed on
(`NumbersAreGiven`); and, for each stream, wire, batches, requests set aside and queues from the oldest queue to the newest, then the
numbers not yet passed on, ascend (`QueuesInOrder`) - which is the theorem for the wire.  A key cannot overtake because a queue that is stopped writes nothing more once its
worker has left the lane, and the new one's worker stands behind it.  `InputAtHome` is the same for channels: what was
typed for a channel that is gone is in a queue that is stopped, or in the batch that already waits (`carried`).

*CommandOutput, EventLog.*  `CommandInvariant`: one call holds the lane (`OneSends`), and its place says what the
active command can be (`ActiveFits`): before its bytes are written only it can have set it.  A trigger's text is bound in the step that matches
(`TriggerInvariant`).

*McpControl.*  `PolicyInv` joins the types of grants, binding and token to `TokenIsCurrent`, which is then
inductive: a token is made for the grant in force, and every command that renews a grant or moves the
binding deletes the token before its change takes effect, so that a keyring that refuses the deletion
stops the change too.  A grant that merely ends may leave its token behind; the token serves
nobody until a grant comes into force, and that is such a command.  For writes, the invariant says what each place of a handler has
established of its approval, and that an entry of `pending` belongs to the handler that waits for it.

*McpServer.*  `RepliesInv` says of each connection (`Fine`) that its place, its message and its envelope fit (`Shape`); that a message it has not
come to yet has no call and has not run (`NothingYet`); that there is one reply for each message that must be answered, in the order of the envelope
(`InOrder`); what the place says of the call under way, which only a caller with the token could start and which
the desktop named by the connection runs (`Admits`); and that each reply given is true of the call as it is now and can still become (`Told`): "not
executed" is said only of a message for which no call was made, and none is made for it later, because the connection goes on to the next.  A desktop may run a call that was
given up, but only once, and only where `Admits` lets it.  The permits are counted by `Taken`: each step adds one connection to the open ones, takes one away, or leaves them.
`EndpointInv`: only the desktop that holds the file's lock publishes or retires, the file names the newest desktop or nothing, and that desktop as long as it has published and not retired; so
what is removed under the lock is the remover's own.

Some assumptions are there for proofs: `IsFiniteSet(Senders)` and `Cardinality` bounds in `TerminalWork`, which any
process meets; `KindsAssumption`, the shape of the bounds of a TCP session; `LatePrepare = FALSE` in
`SerialPortStaysReleased` and `Windows = {}` in the first three theorems on credentials (section 5 shows that
they fail without it); `PlainSharing` and `OneInstance` above; `ServerAssumption`, that loads are made of the connections, desktops and envelopes there are;
`ClientsAssumption`, that there are finitely many connections, of the kinds there are, and natural numbers for the places and the size of a response.

### Only model-checked

By TLC on the instances of section 3:

- every liveness property (`RequestsSettle`, `StoresAreTried`'s second half, `CloseCompletes`, `WatchersEnd`, `BarrierIsLifted`,
  `EveryRequestEnds`, `TransferEnds`): the prover has no support for fairness and ENABLED;
- `LogsAreKept`, `TelnetIsFaithful`, `ServerIsExact` (the bytes of the uploads, and the framing), `FilesAreIntact`: what they say is
  computed by folds over sequences of any length (trimming and sorting events, parsing, framing), and the prover has no
  induction over data;
- `DeviceLeftAlone`, and the parts of `FilesAreIntact` about exports, moves and batches, for which no inductive invariant has been worked
  out by hand.

## 5. Findings

One run ends in a violation:

- `credential_stale_delete` / `NoDangling`: when a save ends in an unknown commit state, the new
  secret is kept because the store on disk may refer to it, but the store in memory does not.
  `delete_secret` asks only the store in memory, so the session settings dialog, which deletes the secrets it
  staged when it is cancelled, deletes one that the persisted profile needs.

Further behaviours the models show, which the passing runs exclude by a constant; each can be reproduced
by changing that constant:

- `CredentialStore` with `Windows = {"sharedVerify"}`: another process saves between a commit that was
  reported as an error and its verification; the comparison of whole stores fails, and the roll-back
  deletes a secret that is referred to (`store_transactions.rs:93`).  `StoreSnapshot!NotCommittedIsAbsent`
  states the cause, and fails with two instances and the faults `readback` or `refresh`.
- `StoreSnapshot!NoLostChange` with two instances and the fault `refresh`: `verify_persisted_store_commit`
  records the version it finds without the file lock (`store_transactions.rs:118`); if another
  process saved in between, the next save drops that process's change.
- `TransferQueue` with a deletion and re-creation: deleting a profile drops the
  session's transfer lane (`session_close.rs:90`) while a runner may hold it; a profile created
  again under the same id gets a new lane, and two transfers run at once.
- `SshSession!UpdateQuiescent`, which is not among the properties of `ssh_lifecycle`, with `"host"` among the operations: a tunnel that leaves from this computer checks
  the update flag before its bind and not after (`host_proxy_runtime.rs:54`).
- `SerialSession!ClosedIsQuiet` with `LatePrepare = TRUE` and two attempts: the blocking task of an
  open that was cancelled before the task began takes its worker guard after the close has counted the
  workers, and opens the port of a closed session for a moment.
- `SshConnection` with `OneKeys = TRUE`: an open with a OneKey works from a profile whose credentials were replaced
  (`session_open.rs:133-164`), and `persist_observed_host_key` compares that profile with the stored one
  (`ssh_security.rs:52-58`), so a OneKey that differs from the profile is refused after it was authenticated.
- `LogShards` with `KeysAgree = FALSE`: an append locks by the path as it was given (`log_storage.rs`, `log_shard_path`), a prune, a delete and a
  read by the canonical path; where the two differ (Windows, a data directory behind a link) an append may write into a shard that is being
  removed.

Facts the models had to accept, because the code is so:

- *Terminal input.* A batch that already waits for the outbound lane when tmux attaches is written to the tmux channel
  (`carried`).  The order of the log may differ from the order on the wire when a write finishes after a close
  took the deferred queue, although `outbound_events.rs:724` speaks of preserving event order.
  On exit `DEFERRED_INTERACTIVE_ACCEPTING` is cleared before the write workers are waited for: a write that
  finishes then is not logged.  An exit does not wait for a deferred queue that a close in
  progress has taken over.  A write error drops its batch, and later keys of the stream are still written.
- *Commands.* `PROGRESS.md:400` says that a disconnect and a reconnect clear the active command; a reconnect that succeeds does not
  (`ssh_reconnect_runtime.rs:141-203`; only the reader's end and a failed install do).  A command accepted by the channel of a connection that is
  already lost stays active into the next one: `OutputIsAttributed` excepts it (`late`).  A bound `run_command` whose
  connection was replaced overwrites and then clears the active command.
- *Events.* After a flush for an update timed out, a new inbound queue may run beside the old one: the store's
  order is repaired by sorting, that of the shard and of the screen is not.  Sessions that share a shard are pruned by either's
  retention.  References of the first format have no digest.
- *MCP.* The second validation of a write asks whether the grant allows the write, not whether it asks for
  confirmation: a grant that gains `confirmWrites` after a write was authorised does not stop it.
  Deleting a session may end a grant without stopping the bridge; the expiry worker does it later.  With an unreadable keyring the
  retirement of a token is given up; it is deleted before the next grant takes effect.  An upload whose start timed out may be started
  again; the reply "error" says nothing about execution; an endpoint file that cannot be locked, read or removed at
  exit stays, as after a crash (`RetireFails`; `EndpointIsCurrent` is about a retirement without an error).  In `read_http_chunk_line` the bound `MAX + 1 - encoded.len() + position` underflows for a chunked
  body of more than 64 KiB in a build with overflow checks.
- *SSH.* `AskEveryTime` rejects a confirmed key that is kept persistently as well (`PROGRESS.md:371` against `host_keys.rs:85-92`); an
  open that is cancelled during its roll-back keeps the confirmations it took; a reconnect that added a key on first use is retried once,
  and takes confirmations after its install.
- *Beside the terminal.* A tmux attach during the end of a reader may install a channel on a runtime that is reconnecting.  A command whose channel ends without an
  exit status counts as a success, so a listing can be cut short, and a change be recorded that never ran.  A start between the two
  halves of a close installs a watcher that only its parent check ends.  A start may return an "existing" watcher that is about to end.
- *Tunnels.* While a lost connection's transport is still open, routes of drained tunnels still serve.  A cancel that
  failed leaves the server listening, and the key without a host then leads such a connection to a later tunnel of that port on another address.
  A rollback after an unexpected port takes the routes of a listed tunnel until its next check.  libssh's own timeout counts as a failure although
  the server may have done what was asked.  `pipe_ssh_channel_to_tcp` couples the directions: two peers that both
  write before they read can block each other.  Stopping a tunnel does not end the clients already piped.  A direct channel that times out disconnects the
  whole connection.
- *Shells.* When the blocking worker of a child's cleanup panics, the reaper reports it and gives the child up
  (`shell_transport.rs:133-138`, `ReaperPanics`): `NoChildIsLost` excepts this.
- *Telnet.* A resize that is stored while an open is connecting is told to the peer only by the next resize.
- *Files.* The comment at `file_transfer.rs:191-195` says that a failed transfer's temporary file is removed; it is kept for a
  resume.  Two sessions that download to one local target share a part file.  A command on the host that outlives its client may append to the part of a
  later attempt (`crowded` in `FileCopy`).  A transfer may report failure after its target was put in place.  A batch checks names when it is planned, and a
  local finalize replaces what is there by then; a batch's reserved names lack the directories it makes itself.  A remote move accepts
  directories when it is planned and refuses them when it is carried out, after earlier items were moved.  An overwriting export that is stopped between backup and install leaves
  the old files under their backup names.
- *XMODEM.* The receiver accepts a repeated block when `expected != 1` (`modem_xmodem.rs:118`), to tell it
  from a first block.  The counter is a `u8` and is 1 again after 256 blocks: if the acknowledgement of the 256th block
  is lost, its repetition is refused and the download fails, although the comment says that a
  retransmitted block is safe to acknowledge.  `FilesAreIntact` excepts this block.
  An acknowledgement carries no number: one that comes after its deadline is taken for the
  next block's, and if that block is lost nobody notices; the payload of a torn packet is read as markers, and a byte 0x04 in it ends a
  download early and with success; `FilesAreIntact` excepts both.
  `check_modem_cancelled` means to write CAN, but `write_runtime_bytes` refuses once the flag is set; the
  peer is told by the canceller.

## 6. What is not modelled

- Bytes: terminal data, file contents, SQLite rows, JSON, formatting and localisation, beyond what Telnet, HTTP framing, X/YMODEM
  and TFTP need.
- Time, other than that a timeout may happen and that a clock orders events.
- The peers, the operating system, libssh, russh, SQLite, the keyring and
  Stronghold: each call succeeds or fails.  The vendored libraries, among them `zmodem2`: ZMODEM is theirs.
- Within the modelled components: keep-alive; metrics and labels of tunnels; progress updates of a transfer; download and signature of an update; the serial capture
  buffer; migration from the vault to the keyring (the same steps with the stores exchanged); writes that
  bypass the input queue in `TerminalInput` (they only lengthen the wait for the lane, and are the subject of `CommandOutput`); mouse and unordered text input (which an attach does not protect); the deletion of
  an outbound lane with its profile; the tmux attach in `SshAuxiliary` (the terminal is never opened again there); writers of TCP sessions that name no
  runtime; individual MCP tools; a child process that survives its kill; searches, previews and archives of logs; local sampling of the system monitor;
  listings, properties and modes of files.
- The instant between a serial worker's guard and its handle, and the instant between a write worker's last
  check of its stop flag and its place in the lane's FIFO, are one step each.
- The SQLite schema and its mirror, host scripts and their watchdog, application start and the wiring of commands, the frontend but for its
  numbering of keys: they share no state in which two actors of this program meet, or only hand on what a modelled component does.

## 7. What could come next

- Theorems: `DeviceLeftAlone`; the locks and owners of `UploadsHold` inside `ServerIsExact`.
- Models: the OneKey login as a run of its own; the tmux attach inside `SshAuxiliary`; ZMODEM's use of `zmodem2`.
