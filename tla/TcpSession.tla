----------------------------- MODULE TcpSession -----------------------------
(***************************************************************************)
(* One TCP or Telnet session: open_tcp_session, the reader task, automatic *)
(* reconnect and close (tcp_transport.rs, tcp_reconnect.rs,                *)
(* tcp_reconnect_runtime.rs), and the Telnet options that the reader, the  *)
(* writers and a terminal resize share through the protocol lane           *)
(* (telnet_protocol.rs, session_terminal.rs, outbound_io.rs).              *)
(*                                                                         *)
(* The registry mutex and the store mutex make every block below one step; *)
(* what happens between two of them is a step of its own.  The peer's side *)
(* of the negotiation is what has been written to its socket so far.       *)
(***************************************************************************)
EXTENDS Naturals, Sequences

CONSTANTS MaxRuntimes,   \* runtimes one behaviour makes
          Writers,       \* senders of text
          Sizes,         \* terminal sizes
          Chunks,        \* the commands of a chunk a peer may send, at most two
          Budgets,       \* bounds of a behaviour, one of which it keeps to
          None

VARIABLES
    settings,    \* the stored profile: reconnect, size
    status,      \* SessionRuntime.status
    tcp,         \* the registered runtime, or NoRuntime
    made,        \* runtimes made so far
    closed,      \* runtimes whose closed flag is set
    life,        \* what the holder of the lifecycle lane is doing
    opener,      \* the profile the running open was given
    cancelled,   \* the running open's cancellation flag
    reader,      \* the reader task of each runtime
    reconnect,   \* the reconnect task each runtime's reader started
    attempt,     \* the profile a reconnect task connects with
    lane,        \* telnet.protocol_lane: who holds it
    options,     \* TelnetRuntimeState: local_binary, naws_negotiated, cols and rows
    replies,     \* negotiation replies a reader has still to write
    peer,        \* what the peer of each runtime has been told
    broken,      \* runtimes on which a write failed half way
    write, target, encoding,     \* a sender of text, its runtime and its encoding
    resize, resized,             \* the resize command: its step, <<runtime, size>>
    left         \* chunks, writes, resizes and edits still to come, and the
                 \* runtimes this behaviour may make

storeVars == <<settings, status>>
runtimeVars == <<tcp, made, closed>>
laneVars == <<life, opener, cancelled>>
taskVars == <<reader, reconnect, attempt>>
wireVars == <<options, peer, broken>>
telnetVars == <<lane, wireVars, replies>>
writeVars == <<write, target, encoding>>
resizeVars == <<resize, resized, left>>
vars == <<storeVars, runtimeVars, laneVars, taskVars, telnetVars, writeVars, resizeVars>>

Runtimes == 1 .. MaxRuntimes
NoRuntime == 0
\* A lane is held by a reader (its runtime), a writer, the resize command or nobody.
Resizer == 0
Profiles == [reconnect : BOOLEAN, size : Sizes]
ActiveStatuses == {"Connecting", "Connected", "Reconnecting"}

\* The negotiation commands a peer sends, and how text is put on the wire.
Commands == {"DO BINARY", "DONT BINARY", "DO NAWS", "DONT NAWS"}

TypeOK ==
    /\ settings \in Profiles
    /\ status \in ActiveStatuses \cup {"Disconnected", "Error"}
    /\ made \in 0 .. MaxRuntimes
    /\ tcp \in 0 .. made
    /\ closed \subseteq 1 .. made
    /\ life \in {"free", "connecting", "inserted", "cancelling", "tail"}
    /\ opener \in Profiles \cup {None}
    /\ cancelled \in BOOLEAN
    /\ reader \in [Runtimes -> {"none", "reading", "replying", "ending",
                                 "handover", "removing"}]
    /\ reconnect \in [Runtimes -> {"none", "waiting", "loading", "trying",
                                    "stopping", "opened", "failing"}]
    /\ attempt \in [Runtimes -> Profiles \cup {None}]
    /\ lane \in [Runtimes -> {None, Resizer} \cup Runtimes \cup Writers]
    /\ options \in [Runtimes -> [binary : BOOLEAN, naws : BOOLEAN, size : Sizes]]
    /\ peer \in [Runtimes -> [binary : BOOLEAN, garbled : BOOLEAN,
                               size : Sizes \cup {None}]]
    /\ broken \subseteq 1 .. made
    /\ write \in [Writers -> {"idle", "waiting", "encoded"}]
    /\ target \in [Writers -> 0 .. made]
    /\ encoding \in [Writers -> BOOLEAN]
    /\ resize \in {"idle", "captured", "sending", "commit"}

Init ==
    /\ settings \in [reconnect : BOOLEAN, size : {1}]
    /\ status = "Disconnected"
    /\ tcp = NoRuntime
    /\ made = 0
    /\ closed = {}
    /\ life = "free"
    /\ opener = None
    /\ cancelled = FALSE
    /\ reader = [r \in Runtimes |-> "none"]
    /\ reconnect = [r \in Runtimes |-> "none"]
    /\ attempt = [r \in Runtimes |-> None]
    /\ lane = [r \in Runtimes |-> None]
    /\ options = [r \in Runtimes |-> [binary |-> FALSE, naws |-> FALSE, size |-> 1]]
    /\ replies = [r \in Runtimes |-> <<>>]
    /\ peer = [r \in Runtimes |-> [binary |-> FALSE, garbled |-> FALSE, size |-> None]]
    /\ broken = {}
    /\ write = [w \in Writers |-> "idle"]
    /\ target = [w \in Writers |-> NoRuntime]
    /\ encoding = [w \in Writers |-> FALSE]
    /\ resize = "idle"
    /\ resized = <<NoRuntime, 1>>
    /\ left \in Budgets

-----------------------------------------------------------------------------
(* The registry.                                                            *)

Current(r) == tcp = r

Spend(what) == left[what] > 0 /\ left' = [left EXCEPT ![what] = @ - 1]

\* remove_runtime_if_owned, then the closed flag of what was removed.
RemoveIfOwned(r) ==
    /\ tcp' = IF Current(r) THEN NoRuntime ELSE tcp
    /\ closed' = IF Current(r) THEN closed \cup {r} ELSE closed
    /\ UNCHANGED made

\* The next runtime, registered: TelnetRuntimeState::from_profile, a fresh
\* closed flag and, once the commit is made, a reader of its own.
Insert(p) ==
    /\ made < left.runtimes
    /\ made' = made + 1
    /\ tcp' = made + 1
    /\ options' = [options EXCEPT ![made + 1] =
                      [binary |-> FALSE, naws |-> FALSE, size |-> p.size]]

-----------------------------------------------------------------------------
(* Opening, under the lifecycle lane.                                       *)

\* ensure_session_can_open, the profile and the status Connecting.
OpenSession ==
    /\ life = "free"
    /\ status \notin ActiveStatuses
    /\ tcp = NoRuntime
    /\ made < left.runtimes
    /\ life' = "connecting"
    /\ opener' = settings
    /\ cancelled' = FALSE
    /\ status' = "Connecting"
    /\ UNCHANGED <<settings, runtimeVars, taskVars, telnetVars, writeVars, resizeVars>>

\* A close that finds the open pending cancels it before it waits for the lane.
CancelOpen ==
    /\ life \in {"connecting", "inserted"}
    /\ ~cancelled
    /\ cancelled' = TRUE
    /\ UNCHANGED <<storeVars, runtimeVars, life, opener, taskVars, telnetVars,
                   writeVars, resizeVars>>

\* The cancellation wins the select while the open waits for its socket.
OpenCancelled ==
    /\ life = "connecting"
    /\ cancelled
    /\ life' = "cancelling"
    /\ UNCHANGED <<storeVars, runtimeVars, opener, cancelled, taskVars, telnetVars,
                   writeVars, resizeVars>>

\* connect_tcp_transport fails, record_connection_failure.
OpenFailed ==
    /\ life = "connecting"
    /\ status' = "Error"
    /\ life' = "free"
    /\ opener' = None
    /\ UNCHANGED <<settings, runtimeVars, cancelled, taskVars, telnetVars,
                   writeVars, resizeVars>>

\* The connected stream becomes the registered runtime.
OpenInsert ==
    /\ life = "connecting"
    /\ Insert(opener)
    /\ life' = "inserted"
    /\ UNCHANGED <<storeVars, closed, opener, cancelled, taskVars, lane, replies, peer,
                   broken, writeVars, resizeVars>>

\* mark_session_connected_with_events, then the reader is spawned.
OpenCommitted ==
    /\ life = "inserted"
    /\ status' = "Connected"
    /\ reader' = [reader EXCEPT ![made] = "reading"]
    /\ life' = "free"
    /\ opener' = None
    /\ UNCHANGED <<settings, runtimeVars, cancelled, reconnect, attempt, telnetVars,
                   writeVars, resizeVars>>

\* The commit fails: closed, removed, shut down, recorded.
OpenCommitFailed ==
    /\ life = "inserted"
    /\ closed' = closed \cup {made}
    /\ tcp' = IF Current(made) THEN NoRuntime ELSE tcp
    /\ status' = "Error"
    /\ life' = "free"
    /\ opener' = None
    /\ UNCHANGED <<settings, made, cancelled, taskVars, telnetVars, writeVars,
                   resizeVars>>

\* close_session_under_lifecycle_lock up to the removal of the runtime, for a
\* close of its own and for a cancelled open.
CloseRemove ==
    /\ \/ life = "free" /\ (status \in ActiveStatuses \/ tcp # NoRuntime)
       \/ life = "cancelling"
    /\ tcp' = NoRuntime
    /\ closed' = closed \cup ({tcp} \ {NoRuntime})
    /\ life' = "tail"
    /\ opener' = None
    /\ UNCHANGED <<storeVars, made, cancelled, taskVars, telnetVars, writeVars,
                   resizeVars>>

\* The socket is shut down; the session is recorded as closed.
CloseFinish ==
    /\ life = "tail"
    /\ status' = "Disconnected"
    /\ life' = "free"
    /\ UNCHANGED <<settings, runtimeVars, opener, cancelled, taskVars, telnetVars,
                   writeVars, resizeVars>>

\* The user turns automatic reconnect on or off.
EditProfile ==
    /\ Spend("edits")
    /\ settings' = [settings EXCEPT !.reconnect = ~@]
    /\ UNCHANGED <<status, runtimeVars, laneVars, taskVars, telnetVars, writeVars,
                   resize, resized>>

-----------------------------------------------------------------------------
(* Telnet options.                                                          *)

\* The lane of the runtime that is registered now; none without one.
LaneFree == tcp # NoRuntime => lane[tcp] = None
TakeLane(who) ==
    lane' = IF tcp = NoRuntime THEN lane ELSE [lane EXCEPT ![tcp] = who]
ReleaseLane(who) ==
    lane' = [r \in Runtimes |-> IF lane[r] = who THEN None ELSE lane[r]]

\* telnet_option_replies with BINARY and NAWS enabled: an option that is
\* already in the requested mode is answered by silence.
OptionAfter(o, c) ==
    CASE c = "DO BINARY" -> [o EXCEPT !.binary = TRUE]
      [] c = "DONT BINARY" -> [o EXCEPT !.binary = FALSE]
      [] c = "DO NAWS" -> [o EXCEPT !.naws = TRUE]
      [] c = "DONT NAWS" -> [o EXCEPT !.naws = FALSE]

OptionReplies(o, c) ==
    IF OptionAfter(o, c) = o THEN <<>>
    ELSE CASE c = "DO BINARY" -> <<[option |-> "binary", value |-> TRUE]>>
           [] c = "DONT BINARY" -> <<[option |-> "binary", value |-> FALSE]>>
           [] c = "DO NAWS" -> <<[option |-> "size", value |-> o.size]>>
           [] c = "DONT NAWS" -> <<[option |-> "wont naws", value |-> FALSE]>>

\* TelnetNegotiator::filter over the commands of one chunk.
Filtered(o, chunk) ==
    IF chunk = <<>> THEN o
    ELSE IF Len(chunk) = 1 THEN OptionAfter(o, chunk[1])
    ELSE OptionAfter(OptionAfter(o, chunk[1]), chunk[2])
FilterReplies(o, chunk) ==
    IF chunk = <<>> THEN <<>>
    ELSE IF Len(chunk) = 1 THEN OptionReplies(o, chunk[1])
    ELSE OptionReplies(o, chunk[1])
             \o OptionReplies(OptionAfter(o, chunk[1]), chunk[2])

\* What a peer knows once it has read a reply.
Told(p, reply) ==
    CASE reply.option = "binary" -> [p EXCEPT !.binary = reply.value]
      [] reply.option = "size" -> [p EXCEPT !.size = reply.value]
      [] OTHER -> p

\* A chunk arrives: the lane, the filter, the terminal bytes.
ReadChunk(r, chunk) ==
    /\ Spend("chunks")
    /\ reader[r] = "reading"
    /\ LaneFree
    /\ TakeLane(r)
    /\ options' = [options EXCEPT ![r] = Filtered(@, chunk)]
    /\ replies' = [replies EXCEPT ![r] = FilterReplies(options[r], chunk)]
    /\ reader' = [reader EXCEPT ![r] = "replying"]
    /\ UNCHANGED <<storeVars, runtimeVars, laneVars, reconnect, attempt, peer, broken,
                   writeVars, resize, resized>>

\* The replies are written in order; the lane is held until the last one.
WriteReply(r) ==
    /\ reader[r] = "replying"
    /\ IF replies[r] = <<>>
       THEN /\ reader' = [reader EXCEPT ![r] = "reading"]
            /\ ReleaseLane(r)
            /\ UNCHANGED <<peer, replies>>
       ELSE /\ peer' = [peer EXCEPT ![r] = Told(@, Head(replies[r]))]
            /\ replies' = [replies EXCEPT ![r] = Tail(@)]
            /\ UNCHANGED <<reader, lane>>
    /\ UNCHANGED <<storeVars, runtimeVars, laneVars, reconnect, attempt, options,
                   broken, writeVars, resizeVars>>

\* A reply cannot be written: the reader gives the connection up.
WriteReplyFails(r) ==
    /\ reader[r] = "replying"
    /\ replies[r] # <<>>
    /\ broken' = broken \cup {r}
    /\ replies' = [replies EXCEPT ![r] = <<>>]
    /\ reader' = [reader EXCEPT ![r] = "ending"]
    /\ ReleaseLane(r)
    /\ UNCHANGED <<storeVars, runtimeVars, laneVars, reconnect, attempt, options, peer,
                   writeVars, resizeVars>>

-----------------------------------------------------------------------------
(* The end of a reader.                                                     *)

\* The peer closes, a read fails, the lane is not to be had, or the closed flag
\* is seen at the head of the loop.
ReadEnds(r) ==
    /\ reader[r] = "reading"
    /\ reader' = [reader EXCEPT ![r] = "ending"]
    /\ UNCHANGED <<storeVars, runtimeVars, laneVars, reconnect, attempt, telnetVars,
                   writeVars, resizeVars>>

\* with_current_session_runtime_store: the transition is the current runtime's.
ReaderTransition(r) ==
    /\ reader[r] = "ending"
    /\ \/ /\ ~Current(r)
          /\ reader' = [reader EXCEPT ![r] = "none"]
          /\ UNCHANGED status
       \/ /\ Current(r) /\ r \notin closed /\ settings.reconnect
          /\ status' = "Reconnecting"
          /\ reader' = [reader EXCEPT ![r] = "handover"]
       \/ /\ Current(r) /\ (r \in closed \/ ~settings.reconnect)
          /\ status' = "Disconnected"
          /\ reader' = [reader EXCEPT ![r] = "removing"]
    /\ UNCHANGED <<settings, runtimeVars, laneVars, reconnect, attempt, telnetVars,
                   writeVars, resizeVars>>

\* The reconnect task is spawned for a runtime that is still current.
ReaderHandsOver(r) ==
    /\ reader[r] = "handover"
    /\ reader' = [reader EXCEPT ![r] = "none"]
    /\ reconnect' = IF Current(r) THEN [reconnect EXCEPT ![r] = "waiting"]
                    ELSE reconnect
    /\ UNCHANGED <<storeVars, runtimeVars, laneVars, attempt, telnetVars, writeVars,
                   resizeVars>>

ReaderRemoves(r) ==
    /\ reader[r] = "removing"
    /\ reader' = [reader EXCEPT ![r] = "none"]
    /\ RemoveIfOwned(r)
    /\ UNCHANGED <<storeVars, laneVars, reconnect, attempt, telnetVars, writeVars,
                   resizeVars>>

-----------------------------------------------------------------------------
(* Automatic reconnect.                                                     *)

\* tcp_reconnect_pending
Pending(r) == r \notin closed /\ Current(r) /\ status = "Reconnecting"

ReconnectTo(r, step) == reconnect' = [reconnect EXCEPT ![r] = step]

\* wait_for_tcp_reconnect_attempt: is the attempt still wanted?
ReconnectWait(r) ==
    /\ reconnect[r] = "waiting"
    /\ ReconnectTo(r, IF Pending(r) THEN "loading" ELSE "none")
    /\ UNCHANGED <<storeVars, runtimeVars, laneVars, reader, attempt, telnetVars,
                   writeVars, resizeVars>>

\* latest_tcp_reconnect_profile
ReconnectLoad(r) ==
    /\ reconnect[r] = "loading"
    /\ IF settings.reconnect
       THEN /\ attempt' = [attempt EXCEPT ![r] = settings]
            /\ ReconnectTo(r, "trying")
       ELSE /\ ReconnectTo(r, "stopping")
            /\ UNCHANGED attempt
    /\ UNCHANGED <<storeVars, runtimeVars, laneVars, reader, telnetVars, writeVars,
                   resizeVars>>

\* stop_pending_tcp_reconnect_if_disabled, which reads the profile again.
ReconnectStop(r) ==
    /\ reconnect[r] = "stopping"
    /\ IF Current(r) /\ ~settings.reconnect
       THEN /\ RemoveIfOwned(r)
            /\ status' = "Disconnected"
            /\ ReconnectTo(r, "none")
       ELSE /\ ReconnectTo(r, "waiting")
            /\ UNCHANGED <<status, runtimeVars>>
    /\ attempt' = [attempt EXCEPT ![r] = None]
    /\ UNCHANGED <<settings, laneVars, reader, telnetVars, writeVars, resizeVars>>

\* record_tcp_reconnect_failure_if_pending
ReconnectFails(r) ==
    /\ reconnect[r] = "trying"
    /\ ReconnectTo(r, IF ~Pending(r) THEN "none"
                      ELSE IF ~settings.reconnect THEN "stopping" ELSE "waiting")
    /\ attempt' = [attempt EXCEPT ![r] = None]
    /\ UNCHANGED <<storeVars, runtimeVars, laneVars, reader, telnetVars, writeVars,
                   resizeVars>>

ReconnectConnects(r) ==
    /\ reconnect[r] = "trying"
    /\ made < left.runtimes
    /\ ReconnectTo(r, "opened")
    /\ UNCHANGED <<storeVars, runtimeVars, laneVars, reader, attempt, telnetVars,
                   writeVars, resizeVars>>

\* The install decisions that keep the socket out, under both locks.
Superseded(r) == ~Current(r) \/ r \in closed

ReconnectRefused(r) ==
    /\ reconnect[r] = "opened"
    /\ attempt' = [attempt EXCEPT ![r] = None]
    /\ \/ /\ Superseded(r)
          /\ ReconnectTo(r, "none")
          /\ UNCHANGED <<status, runtimeVars>>
       \/ /\ ~Superseded(r) /\ settings.reconnect /\ attempt[r] # settings
          /\ ReconnectTo(r, "waiting")
          /\ UNCHANGED <<status, runtimeVars>>
       \/ /\ ~Superseded(r) /\ ~settings.reconnect
          /\ RemoveIfOwned(r)
          /\ status' = "Disconnected"
          /\ ReconnectTo(r, "none")
    /\ UNCHANGED <<settings, laneVars, reader, telnetVars, writeVars, resizeVars>>

\* Mutant: the install does not look at the registry again.
ReconnectInstallsAnyway(r) ==
    /\ reconnect[r] = "opened"
    /\ attempt[r] = settings
    /\ Insert(attempt[r])
    /\ status' = "Connected"
    /\ reader' = [reader EXCEPT ![made + 1] = "reading"]
    /\ ReconnectTo(r, "none")
    /\ attempt' = [attempt EXCEPT ![r] = None]
    /\ UNCHANGED <<settings, closed, laneVars, lane, replies, peer, broken, writeVars,
                   resizeVars>>

\* The commit is made, the runtime replaced and its reader spawned.
ReconnectInstalls(r) ==
    /\ reconnect[r] = "opened"
    /\ ~Superseded(r)
    /\ attempt[r] = settings
    /\ Insert(attempt[r])
    /\ status' = "Connected"
    /\ reader' = [reader EXCEPT ![made + 1] = "reading"]
    /\ ReconnectTo(r, "none")
    /\ attempt' = [attempt EXCEPT ![r] = None]
    /\ UNCHANGED <<settings, closed, laneVars, lane, replies, peer, broken, writeVars,
                   resizeVars>>

ReconnectCommitFails(r) ==
    /\ reconnect[r] = "opened"
    /\ ~Superseded(r)
    /\ attempt[r] = settings
    /\ ReconnectTo(r, "failing")
    /\ attempt' = [attempt EXCEPT ![r] = None]
    /\ UNCHANGED <<storeVars, runtimeVars, laneVars, reader, telnetVars, writeVars,
                   resizeVars>>

\* fail_pending_tcp_reconnect_install
ReconnectGivesUp(r) ==
    /\ reconnect[r] = "failing"
    /\ closed' = closed \cup {r}
    /\ IF Current(r)
       THEN tcp' = NoRuntime /\ status' = "Error"
       ELSE UNCHANGED <<tcp, status>>
    /\ ReconnectTo(r, "none")
    /\ UNCHANGED <<settings, made, laneVars, reader, attempt, telnetVars, writeVars,
                   resizeVars>>

-----------------------------------------------------------------------------
(* Senders of text.                                                         *)

\* The sender captures the runtime it was typed for.
WriteStart(w) ==
    /\ Spend("writes")
    /\ write[w] = "idle"
    /\ status = "Connected" /\ tcp # NoRuntime
    /\ write' = [write EXCEPT ![w] = "waiting"]
    /\ target' = [target EXCEPT ![w] = tcp]
    /\ UNCHANGED <<storeVars, runtimeVars, laneVars, taskVars, telnetVars, encoding,
                   resize, resized>>

WriteEnds(w) ==
    /\ write' = [write EXCEPT ![w] = "idle"]
    /\ target' = [target EXCEPT ![w] = NoRuntime]
    /\ encoding' = [encoding EXCEPT ![w] = FALSE]

\* The lane, encode_telnet_outbound_text, and the writer of that runtime.
WriteEncode(w) ==
    /\ write[w] = "waiting"
    /\ Current(target[w])
    /\ LaneFree
    /\ TakeLane(w)
    /\ encoding' = [encoding EXCEPT ![w] = options[tcp].binary]
    /\ write' = [write EXCEPT ![w] = "encoded"]
    /\ UNCHANGED <<storeVars, runtimeVars, laneVars, taskVars, wireVars, replies, target,
                   resizeVars>>

\* The runtime has been replaced or the lane is not to be had.
WriteRefused(w) ==
    /\ write[w] = "waiting"
    /\ WriteEnds(w)
    /\ UNCHANGED <<storeVars, runtimeVars, laneVars, taskVars, telnetVars, resizeVars>>

WriteSends(w) ==
    /\ write[w] = "encoded"
    /\ peer' = [peer EXCEPT ![target[w]].garbled =
                   @ \/ encoding[w] # peer[target[w]].binary]
    /\ ReleaseLane(w)
    /\ WriteEnds(w)
    /\ UNCHANGED <<storeVars, runtimeVars, laneVars, taskVars, options, broken, replies,
                   resizeVars>>

WriteFails(w) ==
    /\ write[w] = "encoded"
    /\ broken' = broken \cup {target[w]}
    /\ ReleaseLane(w)
    /\ WriteEnds(w)
    /\ UNCHANGED <<storeVars, runtimeVars, laneVars, taskVars, options, peer, replies,
                   resizeVars>>

-----------------------------------------------------------------------------
(* resize_session_inner: the runtime is looked up before the lane.          *)

ResizeStart(s) ==
    /\ resize = "idle"
    /\ Spend("resizes")
    /\ resized' = <<tcp, s>>
    /\ resize' = IF tcp = NoRuntime THEN "commit" ELSE "captured"
    /\ UNCHANGED <<storeVars, runtimeVars, laneVars, taskVars, telnetVars, writeVars>>

\* Mutant: the resize does not wait for the lane.
ResizeTellUnlocked ==
    /\ resize = "captured"
    /\ options' = [options EXCEPT ![resized[1]].size = resized[2]]
    /\ resize' = IF options[resized[1]].naws THEN "sending" ELSE "commit"
    /\ UNCHANGED <<storeVars, runtimeVars, laneVars, taskVars, lane, peer, broken, replies,
                   writeVars, resized, left>>

\* Under the lane the size is stored and, with NAWS agreed, sent.
ResizeTell ==
    /\ resize = "captured"
    /\ LaneFree
    /\ options' = [options EXCEPT ![resized[1]].size = resized[2]]
    /\ IF options[resized[1]].naws
       THEN resize' = "sending" /\ TakeLane(Resizer)
       ELSE resize' = "commit" /\ UNCHANGED lane
    /\ UNCHANGED <<storeVars, runtimeVars, laneVars, taskVars, peer, broken, replies,
                   writeVars, resized, left>>

ResizeSends ==
    /\ resize = "sending"
    /\ peer' = [peer EXCEPT ![resized[1]].size = resized[2]]
    /\ ReleaseLane(Resizer)
    /\ resize' = "commit"
    /\ UNCHANGED <<storeVars, runtimeVars, laneVars, taskVars, options, broken, replies,
                   writeVars, resized, left>>

ResizeFails ==
    /\ resize = "sending"
    /\ broken' = broken \cup {resized[1]}
    /\ ReleaseLane(Resizer)
    /\ resize' = "idle"
    /\ UNCHANGED <<storeVars, runtimeVars, laneVars, taskVars, options, peer, replies,
                   writeVars, resized, left>>

\* resize_session_profile_in_store
ResizeCommit ==
    /\ resize = "commit"
    /\ settings' = [settings EXCEPT !.size = resized[2]]
    /\ resize' = "idle"
    /\ UNCHANGED <<status, runtimeVars, laneVars, taskVars, telnetVars, writeVars,
                   resized, left>>

-----------------------------------------------------------------------------
Lifecycle ==
    \/ OpenSession \/ CancelOpen \/ OpenCancelled \/ OpenFailed \/ OpenInsert
    \/ OpenCommitted \/ OpenCommitFailed \/ CloseRemove \/ CloseFinish
    \/ EditProfile

ReaderStep(r) ==
    \/ \E chunk \in Chunks : ReadChunk(r, chunk)
    \/ WriteReply(r) \/ WriteReplyFails(r) \/ ReadEnds(r) \/ ReaderTransition(r)
    \/ ReaderHandsOver(r) \/ ReaderRemoves(r)

ReconnectStep(r) ==
    \/ ReconnectWait(r) \/ ReconnectLoad(r) \/ ReconnectStop(r) \/ ReconnectFails(r)
    \/ ReconnectConnects(r) \/ ReconnectRefused(r) \/ ReconnectInstalls(r)
    \/ ReconnectCommitFails(r) \/ ReconnectGivesUp(r)

WriterStep(w) ==
    \/ WriteStart(w) \/ WriteEncode(w) \/ WriteRefused(w) \/ WriteSends(w)
    \/ WriteFails(w)

ResizeStep ==
    \/ \E s \in Sizes : ResizeStart(s)
    \/ ResizeTell \/ ResizeSends \/ ResizeFails \/ ResizeCommit

Next ==
    \/ Lifecycle
    \/ \E r \in Runtimes : ReaderStep(r) \/ ReconnectStep(r)
    \/ \E w \in Writers : WriterStep(w)
    \/ ResizeStep

Spec == Init /\ [][Next]_vars

-----------------------------------------------------------------------------
(* Properties.                                                              *)

\* A status that shows the session as live is served by tasks of the registered
\* runtime, and a registered runtime that no task serves is about to go
\* (read_tcp_stream's transition against reconnect, open and close).
TcpStatusIsServed ==
    /\ status = "Connected" /\ life = "free" =>
          /\ tcp # NoRuntime
          /\ reader[tcp] \in {"reading", "replying", "ending"}
    /\ status = "Reconnecting" /\ life = "free" =>
          /\ tcp # NoRuntime
          /\ reader[tcp] = "handover" \/ reconnect[tcp] # "none"
    /\ tcp # NoRuntime /\ life = "free" =>
          reader[tcp] # "none" \/ reconnect[tcp] # "none"

\* The peer of the registered runtime reads text in the mode it was told, and
\* between two holders of the protocol lane it knows the size the runtime has
\* (telnet_option_replies, encode_telnet_outbound_text and the NAWS resize race).
PeerInStep ==
    tcp # NoRuntime /\ tcp \notin broken =>
        /\ ~peer[tcp].garbled
        /\ lane[tcp] = None /\ options[tcp].naws => peer[tcp].size = options[tcp].size
=============================================================================
