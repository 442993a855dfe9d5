----------------------------- MODULE McpServer -----------------------------
(***************************************************************************)
(* The MCP server process between a client and the desktop.                *)
(*                                                                         *)
(* A request comes in on a connection of the HTTP bridge, or as a line of  *)
(* the stdio server; its envelope holds one JSON-RPC message or a batch.   *)
(* The messages are handled in turn, each alone or by a call to the        *)
(* desktop that the endpoint file names.  Desktops publish themselves in   *)
(* that file and retire from it, crash without retiring, and another one   *)
(* may listen later where one listened before.                             *)
(***************************************************************************)
EXTENDS Naturals, Sequences, FiniteSets

CONSTANTS
    Conns,          \* HTTP connections, and requests of the stdio server
    Desktops,       \* runs of the desktop application
    Loads,          \* bounds of a behaviour: its connections, desktops, the envelopes
                    \* (sequences of messages) and the heads of requests that are sent
    MaxConnections, \* MAX_HTTP_CONNECTIONS
    MaxStreams,     \* MAX_HTTP_SSE_CONNECTIONS
    MaxIpc,         \* MAX_IPC_CONNECTIONS
    MaxBatch,       \* MAX_JSON_RPC_BATCH_ITEMS
    NoDesktop       \* no endpoint file

VARIABLES
    load,       \* the bounds of this behaviour
    conn,       \* each request's connection
    active,     \* active_connections
    streams,    \* active_sse_connections
    desktop,    \* the state of each run of the desktop
    slots,      \* IPC connections it serves
    endpoint,   \* the run the endpoint file names
    fileLock,   \* holder of the endpoint file's lock
    ipc,        \* the desktop's side of the call for each message
    ran,        \* auxiliary: how often each message was executed
    newest      \* auxiliary: the run that published last

serverVars == <<load, conn, active, streams, desktop, slots, endpoint, fileLock, ipc, ran, newest>>

NoIpc == [at |-> "none", desktop |-> NoDesktop, sent |-> FALSE]
NoConn == [at |-> "idle", via |-> "http", request |-> "none", envelope |-> <<>>, next |-> 1,
           named |-> NoDesktop, replies |-> <<>>, status |-> 0]

ServerInit ==
    /\ load \in Loads
    /\ conn = [c \in Conns |-> NoConn]
    /\ active = 0 /\ streams = 0
    /\ desktop = [d \in Desktops |-> "off"]
    /\ slots = [d \in Desktops |-> 0]
    /\ endpoint = NoDesktop /\ fileLock = NoDesktop
    /\ ipc = [c \in Conns |-> [i \in 1..MaxBatch |-> NoIpc]]
    /\ ran = [c \in Conns |-> [i \in 1..MaxBatch |-> 0]]
    /\ newest = NoDesktop

Put(c, rec) == conn' = [conn EXCEPT ![c] = rec]
To(c, at)   == Put(c, [conn[c] EXCEPT !.at = at])
Status(c, status) == Put(c, [conn[c] EXCEPT !.at = "answer", !.status = status])

(* A reply is the number of the message, 0 for none (its id is null), and  *)
(* what it says.                                                           *)
Reply(id, says) == <<id, says>>

desktops == <<desktop, slots, endpoint, fileLock, newest>>

----------------------------------------------------------------------------
(* The HTTP bridge.                                                        *)

(* spawn_http_connection: a connection over the limit is told so. *)
Accept(c) ==
    /\ conn[c].at = "idle"
    /\ \E e \in load.envelopes, r \in load.requests :
         IF active < MaxConnections
         THEN /\ active' = active + 1
              /\ Put(c, [NoConn EXCEPT !.at = "head", !.request = r, !.envelope = e])
         ELSE /\ Put(c, [NoConn EXCEPT !.at = "done", !.status = 503])
              /\ UNCHANGED active
    /\ UNCHANGED <<streams, desktops, ipc, ran>>

(* The head of a request is read before HTTP_REQUEST_TIMEOUT, or is not;   *)
(* a body is read only for a POST that carries the token (the limit given  *)
(* to read_http_request_with_body_limit).                                  *)
ReadRequest(c) ==
    /\ conn[c].at = "head"
    /\ \/ Status(c, 408)
       \/ /\ conn[c].request.method = "POST" /\ conn[c].request.path
          /\ IF conn[c].request.token
             THEN Status(c, 400) \/ To(c, "request") ELSE Status(c, 401)
       \/ /\ ~(conn[c].request.method = "POST" /\ conn[c].request.path)
          /\ Status(c, 400) \/ To(c, "request")
    /\ UNCHANGED <<active, streams, desktops, ipc, ran>>

(* is_sse_stream_request. *)
IsStream(r) == r.method = "GET" /\ r.path /\ "sse" \in r.accepts

(* handle_http_request and http_sse_stream_start_response: the status of   *)
(* the first thing that is wrong, 200 when nothing is.                     *)
HttpStatus(r) ==
    IF ~r.origin THEN 403
    ELSE IF ~r.path THEN 404
    ELSE IF r.method = "OPTIONS" THEN 204
    ELSE IF IsStream(r) THEN (IF ~r.version THEN 400 ELSE IF ~r.token THEN 401 ELSE 200)
    ELSE IF r.method # "POST" THEN 405
    ELSE IF ~r.version THEN 400
    ELSE IF ~r.json THEN 415
    ELSE IF r.accepts = {} THEN 406
    ELSE IF ~r.token THEN 401
    ELSE 200

(* A stream needs a second permit; its state is sent until the lease ends  *)
(* or the client is gone.                                                  *)
OpenStream(c) ==
    /\ conn[c].at = "request" /\ IsStream(conn[c].request)
    /\ IF streams < MaxStreams
       THEN streams' = streams + 1 /\ To(c, "stream")
       ELSE UNCHANGED streams /\ Status(c, 503)
    /\ UNCHANGED <<active, desktops, ipc, ran>>

EndStream(c) ==
    /\ conn[c].at = "stream"
    /\ streams' = streams - 1
    /\ Status(c, HttpStatus(conn[c].request))
    /\ UNCHANGED <<active, desktops, ipc, ran>>

HandleRequest(c) ==
    LET status == HttpStatus(conn[c].request)
    IN  /\ conn[c].at = "request" /\ ~IsStream(conn[c].request)
        /\ IF status = 200 THEN To(c, "envelope") ELSE Status(c, status)
        /\ UNCHANGED <<active, streams, desktops, ipc, ran>>

(* run_stdio_server reads one line at a time.  A line that is too long is  *)
(* dropped as a whole and answered.                                        *)
StdioIdle == \A c \in Conns : conn[c].via = "stdio" => conn[c].at \in {"idle", "done"}

ReadLine(c) ==
    /\ conn[c].at = "idle" /\ StdioIdle
    /\ \/ \E e \in load.envelopes :
            Put(c, [NoConn EXCEPT !.at = "envelope", !.via = "stdio", !.envelope = e])
       \/ Put(c, [NoConn EXCEPT !.at = "answer", !.via = "stdio", !.replies = <<Reply(0, "error")>>])
    /\ UNCHANGED <<active, streams, desktops, ipc, ran>>

----------------------------------------------------------------------------
(* dispatch_json_rpc_value.                                                *)

(* The store and the endpoint file are read once for the envelope (new, or *)
(* refresh_runtime_sources); without a store an HTTP request fails.  No    *)
(* JSON, an empty batch and one over the limit are answered as a whole.    *)
OpenEnvelope(c) ==
    LET e == conn[c].envelope
        refused == [conn[c] EXCEPT !.at = "answer", !.status = 200,
                                   !.replies = <<Reply(0, "error")>>]
    IN  /\ conn[c].at = "envelope"
        /\ \/ /\ e = <<>> \/ Len(e) > MaxBatch \/ conn[c].via = "http"
              /\ Put(c, refused)
           \/ /\ e # <<>> /\ Len(e) <= MaxBatch
              /\ Put(c, [conn[c] EXCEPT !.at = "item", !.named = endpoint, !.status = 200])
        /\ UNCHANGED <<active, streams, desktops, ipc, ran>>

Item(c) == conn[c].envelope[conn[c].next]

(* The next message, after a reply to this one if it had an id. *)
Answered(c, says) ==
    [conn[c] EXCEPT !.at = "item", !.next = @ + 1,
        !.replies = IF Item(c).id THEN Append(@, Reply(conn[c].next, says)) ELSE @]

At(c, is) == /\ conn[c].at = "item" /\ conn[c].next <= Len(conn[c].envelope)
             /\ Item(c).is = is

(* dispatch_one_json_rpc_value: what is not a request is answered even     *)
(* without an id, a notification that fails is not.                        *)
RejectItem(c) ==
    /\ At(c, "malformed")
    /\ Put(c, [conn[c] EXCEPT !.next = @ + 1,
                  !.replies = Append(@, Reply(IF Item(c).id THEN conn[c].next ELSE 0, "error"))])
    /\ UNCHANGED <<active, streams, desktops, ipc, ran>>

(* What handle answers alone, from the snapshot of the store. *)
AnswerItem(c) ==
    /\ At(c, "local")
    /\ Put(c, Answered(c, "result")) \/ Put(c, Answered(c, "error"))
    /\ UNCHANGED <<active, streams, desktops, ipc, ran>>

(* tool_call: the tools that read and those that write ask the desktop,    *)
(* unless the arguments, the snapshot's grant or its sessions forbid it.   *)
ReadTool(c) ==
    /\ At(c, "read")
    /\ Put(c, Answered(c, "error")) \/ To(c, "connect")
    /\ UNCHANGED <<active, streams, desktops, ipc, ran>>

WriteTool(c) ==
    /\ At(c, "write")
    /\ Put(c, Answered(c, "error")) \/ To(c, "connect")
    /\ UNCHANGED <<active, streams, desktops, ipc, ran>>

HandleItem(c) == RejectItem(c) \/ AnswerItem(c) \/ ReadTool(c) \/ WriteTool(c)

EndEnvelope(c) ==
    /\ conn[c].at = "item" /\ conn[c].next > Len(conn[c].envelope)
    /\ Put(c, [conn[c] EXCEPT !.at = "answer",
                              !.status = IF @ = 0 THEN 0 ELSE IF conn[c].replies = <<>> THEN 202 ELSE 200])
    /\ UNCHANGED <<active, streams, desktops, ipc, ran>>

(* The answer is written, within its timeout or not; the permit returns.   *)
Answer(c) ==
    /\ conn[c].at = "answer"
    /\ To(c, "done")
    /\ active' = IF conn[c].via = "http" THEN active - 1 ELSE active
    /\ UNCHANGED <<streams, desktops, ipc, ran>>

----------------------------------------------------------------------------
(* call_ipc_value.                                                         *)

Up(d) == d # NoDesktop /\ desktop[d] \in {"serving", "retiring", "retireLocked"}

(* Nothing is named by the endpoint file, or nothing listens there: then a *)
(* read answers from the snapshot, and a write says that it was not done.  *)
(* Another desktop may have got the address of one that is gone.           *)
Connect(c) ==
    LET named == conn[c].named
        unavailable == Put(c, Answered(c, IF Item(c).is = "read" THEN "snapshot" ELSE "unexecuted"))
    IN  /\ conn[c].at = "connect"
        /\ \/ /\ ~Up(named)
              /\ unavailable /\ UNCHANGED ipc
           \/ \E d \in Desktops :
                /\ named # NoDesktop /\ Up(d) /\ (d = named \/ ~Up(named))
                /\ To(c, "send")
                /\ ipc' = [ipc EXCEPT ![c][conn[c].next] =
                              [at |-> "arrived", desktop |-> d, sent |-> FALSE]]
        /\ UNCHANGED <<active, streams, desktops, ran>>

(* The request is written whole, or the call fails. *)
Send(c) ==
    /\ conn[c].at = "send"
    /\ \/ /\ ipc' = [ipc EXCEPT ![c][conn[c].next].sent = TRUE] /\ To(c, "wait")
       \/ /\ Put(c, Answered(c, "error")) /\ UNCHANGED ipc
    /\ UNCHANGED <<active, streams, desktops, ran>>

\* Mutant: a desktop that does not answer is one that is not there.
GiveUpQuietly(c) ==
    /\ conn[c].at = "wait"
    /\ Put(c, Answered(c, "unexecuted"))
    /\ UNCHANGED <<active, streams, desktops, ipc, ran>>

\* Mutant: only a connection that ends early is given up.
GiveUpOnClose(c) ==
    /\ conn[c].at = "wait" /\ ~Up(ipc[c][conn[c].next].desktop)
    /\ Put(c, Answered(c, "error"))
    /\ UNCHANGED <<active, streams, desktops, ipc, ran>>

(* IPC_RESPONSE_TIMEOUT, a connection that ends early, or an answer that   *)
(* cannot be read.                                                         *)
GiveUp(c) ==
    /\ conn[c].at = "wait"
    /\ Put(c, Answered(c, "error"))
    /\ UNCHANGED <<active, streams, desktops, ipc, ran>>

Receive(c) ==
    /\ conn[c].at = "wait" /\ ipc[c][conn[c].next].at \in {"ok", "error"}
    /\ Put(c, Answered(c, IF ipc[c][conn[c].next].at = "ok" THEN "result" ELSE "error"))
    /\ ipc' = [ipc EXCEPT ![c][conn[c].next] = NoIpc]
    /\ UNCHANGED <<active, streams, desktops, ran>>

----------------------------------------------------------------------------
(* The desktop serves a call: spawn_ipc_client and handle_ipc_client.      *)

Served(c, i)    == ipc[c][i].desktop
Serve(c, i, at) == ipc' = [ipc EXCEPT ![c][i].at = at]
Slot(d, n)      == slots' = [slots EXCEPT ![d] = n]
Serving(c, i, at) == ipc[c][i].at = at /\ Up(Served(c, i))

TakeCall(c, i) ==
    LET d == Served(c, i)
    IN  /\ Serving(c, i, "arrived")
        /\ IF slots[d] < MaxIpc
           THEN Serve(c, i, "reading") /\ Slot(d, slots[d] + 1)
           ELSE Serve(c, i, "error") /\ UNCHANGED slots
        /\ UNCHANGED <<conn, active, streams, desktop, endpoint, fileLock, ran, newest>>

(* A request that does not come whole in IPC_IO_TIMEOUT, has another       *)
(* token or another client than the selected one is refused.               *)
RefuseCall(c, i) ==
    /\ Serving(c, i, "reading")
    /\ Serve(c, i, "error") /\ Slot(Served(c, i), slots[Served(c, i)] - 1)
    /\ UNCHANGED <<conn, active, streams, desktop, endpoint, fileLock, ran, newest>>

\* Mutant: whoever reaches the port is served.
AdmitAnyCall(c, i) ==
    /\ Serving(c, i, "reading") /\ ipc[c][i].sent
    /\ Serve(c, i, "running")
    /\ UNCHANGED <<conn, active, streams, desktops, ran>>

(* The token is that of the run the endpoint file named. *)
AdmitCall(c, i) ==
    /\ Serving(c, i, "reading") /\ ipc[c][i].sent
    /\ conn[c].named = Served(c, i)
    /\ Serve(c, i, "running")
    /\ UNCHANGED <<conn, active, streams, desktops, ran>>

(* execute_ipc_request: a read, and a write, which fails before or after   *)
(* it had its effect; a desktop that dies then answers nothing.            *)
FreesSlot(c, i) == Slot(Served(c, i), slots[Served(c, i)] - 1)

RunRead(c, i) ==
    /\ Serving(c, i, "running") /\ conn[c].envelope[i].is = "read"
    /\ Serve(c, i, "ok") \/ Serve(c, i, "error")
    /\ FreesSlot(c, i)
    /\ UNCHANGED <<conn, active, streams, desktop, endpoint, fileLock, newest, ran>>

RunWrite(c, i) ==
    /\ Serving(c, i, "running") /\ conn[c].envelope[i].is = "write"
    /\ \/ Serve(c, i, "ok") /\ ran' = [ran EXCEPT ![c][i] = @ + 1]
       \/ Serve(c, i, "error") /\ ran' = [ran EXCEPT ![c][i] = @ + 1]
       \/ Serve(c, i, "error") /\ UNCHANGED ran
    /\ FreesSlot(c, i)
    /\ UNCHANGED <<conn, active, streams, desktop, endpoint, fileLock, newest>>

----------------------------------------------------------------------------
(* The desktop's endpoint.                                                 *)

Set(d, to) == desktop' = [desktop EXCEPT ![d] = to]

(* start_ipc_server listens. *)
StartDesktop(d) ==
    /\ desktop[d] = "off"
    /\ Set(d, "listening")
    /\ UNCHANGED <<conn, active, streams, slots, endpoint, fileLock, ipc, ran, newest>>

(* publish_ipc_endpoint holds the publication's mutex, so that a shutdown  *)
(* waits, and the lock of the file.                                        *)
PublishLocks(d) ==
    /\ desktop[d] = "listening" /\ fileLock = NoDesktop
    /\ fileLock' = d /\ Set(d, "publishing")
    /\ UNCHANGED <<conn, active, streams, slots, endpoint, ipc, ran, newest>>

Publish(d) ==
    /\ desktop[d] = "publishing"
    /\ \/ endpoint' = d /\ newest' = d /\ Set(d, "serving")
       \/ Set(d, "stopped") /\ UNCHANGED <<endpoint, newest>>   \* it cannot be written
    /\ fileLock' = NoDesktop
    /\ UNCHANGED <<conn, active, streams, slots, ipc, ran>>

(* retire_ipc_publication_with takes the publication and forbids another.  *)
Retire(d) ==
    /\ desktop[d] \in {"listening", "serving"}
    /\ Set(d, IF desktop[d] = "serving" THEN "retiring" ELSE "stopped")
    /\ UNCHANGED <<conn, active, streams, slots, endpoint, fileLock, ipc, ran, newest>>

RetireLocks(d) ==
    /\ desktop[d] = "retiring" /\ fileLock = NoDesktop
    /\ fileLock' = d /\ Set(d, "retireLocked")
    /\ UNCHANGED <<conn, active, streams, slots, endpoint, ipc, ran, newest>>

\* Mutant: the endpoint file is removed, whoever wrote it.
RetireAny(d) ==
    /\ desktop[d] = "retireLocked"
    /\ endpoint' = NoDesktop
    /\ fileLock' = NoDesktop /\ Set(d, "stopped")
    /\ UNCHANGED <<conn, active, streams, slots, ipc, ran, newest>>

(* The file is removed when it is still this run's own; then the process   *)
(* ends.                                                                   *)
RetireRemoves(d) ==
    /\ desktop[d] = "retireLocked"
    /\ endpoint' = IF endpoint = d THEN NoDesktop ELSE endpoint
    /\ fileLock' = NoDesktop /\ Set(d, "stopped")
    /\ UNCHANGED <<conn, active, streams, slots, ipc, ran, newest>>

DesktopCrashes(d) ==
    /\ desktop[d] \notin {"off", "stopped", "crashed"}
    /\ Set(d, "crashed")
    /\ fileLock' = IF fileLock = d THEN NoDesktop ELSE fileLock
    /\ UNCHANGED <<conn, active, streams, slots, endpoint, ipc, ran, newest>>

(* The lock is not to be had, or the file cannot be read or removed: the   *)
(* process ends all the same and leaves the file, as a crash does.         *)
RetireFails(d) == desktop[d] \in {"retiring", "retireLocked"} /\ DesktopCrashes(d)

----------------------------------------------------------------------------
(* What a connection's thread and the stdio server do of themselves. *)
ServerStep(c) ==
    \/ ReadRequest(c) \/ OpenStream(c) \/ EndStream(c) \/ HandleRequest(c) \/ OpenEnvelope(c)
    \/ HandleItem(c) \/ EndEnvelope(c) \/ Answer(c) \/ Connect(c) \/ Send(c) \/ GiveUp(c)
    \/ Receive(c)

DesktopStep(d) ==
    \/ StartDesktop(d) \/ PublishLocks(d) \/ Publish(d) \/ Retire(d) \/ RetireLocks(d)
    \/ RetireRemoves(d) \/ RetireFails(d) \/ DesktopCrashes(d)

ServerNext ==
    /\ UNCHANGED load
    /\ \/ \E c \in load.conns :
            \/ Accept(c) \/ ReadLine(c) \/ ServerStep(c)
            \/ \E i \in 1..MaxBatch :
                 \/ TakeCall(c, i) \/ RefuseCall(c, i) \/ AdmitCall(c, i)
                 \/ RunRead(c, i) \/ RunWrite(c, i)
       \/ \E d \in load.desktops : DesktopStep(d)

ServerSpec == ServerInit /\ [][ServerNext]_serverVars

----------------------------------------------------------------------------
(* A message is executed at most once, by the desktop whose endpoint was   *)
(* read, and only for a caller with the token; a result was produced by an *)
(* execution, and what is reported as not executed is not executed, then   *)
(* or later; every message that must be answered is, once and in order;    *)
(* and the permits are those of the connections and streams that are open  *)
(* (call_ipc_value, dispatch_json_rpc_value, handle_ipc_client).           *)
Due(c) == {i \in 1..conn[c].next - 1 : conn[c].envelope[i].id \/ conn[c].envelope[i].is = "malformed"}

RepliesAreTrue ==
    /\ streams = Cardinality({c \in Conns : conn[c].at = "stream"})
    /\ active = Cardinality({c \in Conns : conn[c].via = "http"
                                            /\ conn[c].at \notin {"idle", "done"}})
    /\ \A c \in Conns :
        /\ \A i \in 1..MaxBatch :
            /\ ran[c][i] <= 1
            /\ ipc[c][i].at = "running" => ipc[c][i].desktop = conn[c].named
            /\ ran[c][i] = 1 => conn[c].via = "stdio" \/ conn[c].request.token
        /\ \A k \in 1..Len(conn[c].replies) :
            LET r == conn[c].replies[k]
            IN  r[1] # 0 =>
                /\ r[2] = "unexecuted" => ran[c][r[1]] = 0
                /\ (r[2] = "result" /\ conn[c].envelope[r[1]].is = "write") => ran[c][r[1]] = 1
        /\ conn[c].at \in {"item", "connect", "send", "wait"} =>
            Len(conn[c].replies) = Cardinality(Due(c))

(* The endpoint file leads to the desktop that published last as long as   *)
(* that one serves, and never to one that retired from it without an error *)
(* (publish_ipc_endpoint, retire_ipc_publication_with).                    *)
EndpointIsCurrent ==
    /\ newest # NoDesktop /\ desktop[newest] = "serving" => endpoint = newest
    /\ endpoint # NoDesktop => desktop[endpoint] # "stopped"

(* Every connection comes to its end, though neither its client nor the    *)
(* desktop answers (HTTP_REQUEST_TIMEOUT, IPC_RESPONSE_TIMEOUT, the lease  *)
(* of a stream).                                                           *)
Closed(c) == conn[c].at \in {"idle", "done"}
ConnectionsEnd == (\E c \in Conns : ~Closed(c)) ~> (\A c \in Conns : Closed(c))
============================================================================
