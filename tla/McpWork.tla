------------------------------ MODULE McpWork ------------------------------
(***************************************************************************)
(* The MCP service: what the desktop lets a client do, the server process  *)
(* between them, the uploads of content its processes share, and the way a *)
(* request is taken off a socket.  Each behaves as its own module says; a  *)
(* behaviour is about one of them.                                         *)
(***************************************************************************)
EXTENDS McpControl, Sequences, FiniteSets

CONSTANTS
    Conns, Desktops, Loads, MaxConnections, MaxStreams, MaxIpc, MaxBatch, NoDesktop,  \* McpServer
    Callers, Assignments, FirstClient, Uploads, SizeChoices, MaxUploads, MaxTotal, MaxCalls,
    MaxAges, MaxLocks,                                                         \* ContentUpload
    Messages, BufferSize, MaxHeader, MaxBody, MaxFraming, MaxTrailers          \* HttpFraming

\* A message as the server tells one from another; an envelope holds one, or a
\* batch.
ItemKinds == {"malformed", "local", "read", "write"}
Envelopes == Seq([is : ItemKinds, id : BOOLEAN])

ASSUME ServerAssumption ==
    /\ NoDesktop \notin Desktops
    /\ IsFiniteSet(Conns)
    /\ MaxBatch \in Nat
    /\ \A l \in Loads :
        /\ l.conns \subseteq Conns /\ l.desktops \subseteq Desktops
        /\ l.envelopes \subseteq Envelopes

VARIABLES
    work,
    load, conn, active, streams, desktop, slots, endpoint, fileLock, ipc, executed, newest,
    clientOf, dir, lockFile, held, root, call, desk, calls, ages, acked, staged, dropped,
    message, got, step, position, framing, chunk, trailers, body

Server  == INSTANCE McpServer WITH ran <- executed
Content == INSTANCE ContentUpload
Wire    == INSTANCE HttpFraming

serverVars  == <<load, conn, active, streams, desktop, slots, endpoint, fileLock, ipc,
                 executed, newest>>
uploadVars  == <<clientOf, dir, lockFile, held, root, call, desk, calls, ages, acked, staged,
                 dropped>>
framingVars == <<message, got, step, position, framing, chunk, trailers, body>>
workVars    == <<work, vars, serverVars, uploadVars, framingVars>>

Idle == "idle"

ServerIdle ==
    /\ load = Idle /\ conn = [c \in Conns |-> Server!NoConn]
    /\ active = 0 /\ streams = 0 /\ desktop = Idle /\ slots = Idle /\ endpoint = Idle /\ fileLock = Idle /\ ipc = Idle
    /\ executed = Idle /\ newest = Idle
UploadIdle ==
    /\ clientOf = Idle /\ dir = Idle /\ lockFile = Idle /\ held = Idle /\ root = Idle
    /\ call = Idle /\ desk = Idle /\ calls = 0 /\ ages = 0 /\ acked = Idle
    /\ staged = Idle /\ dropped = Idle
FramingIdle ==
    /\ message = Idle /\ got = 0 /\ step = Idle /\ position = 0 /\ framing = 0
    /\ chunk = 0 /\ trailers = 0 /\ body = Idle

WorkInit ==
    /\ work \in {"control", "server", "upload", "wire"}
    /\ Init
    /\ work # "control" => budget = (CHOOSE b \in Budgets : TRUE)
                           /\ bound = (CHOOSE c \in budget.clients : TRUE)
    /\ IF work = "server" THEN Server!ServerInit ELSE ServerIdle
    /\ IF work = "upload" THEN Content!UploadInit ELSE UploadIdle
    /\ IF work = "wire" THEN Wire!FramingInit ELSE FramingIdle

Controls(A) == work = "control" /\ A /\ UNCHANGED <<work, serverVars, uploadVars, framingVars>>
Serves(A)   == work = "server" /\ A /\ UNCHANGED <<work, vars, uploadVars, framingVars>>

WorkNext ==
    \/ Controls(Next)
    \/ Serves(Server!ServerNext)
    \/ /\ work = "upload" /\ Content!UploadNext
       /\ UNCHANGED <<work, vars, serverVars, framingVars>>
    \/ /\ work = "wire" /\ Wire!FramingNext
       /\ UNCHANGED <<work, vars, serverVars, uploadVars>>

\* The fairness of McpControl, and the threads of the server process with the
\* timeouts of what they wait for.
WorkFairness ==
    /\ \A w \in Writes :
         WF_vars(Controls(Handles(w))) /\ WF_vars(Controls(DeadlinePasses(w)))
    /\ \A o \in Owners : WF_vars(Controls(WatcherTicks(o)))
    /\ \A c \in Conns : WF_serverVars(Serves(Server!ServerStep(c) /\ UNCHANGED load))

WorkSpec == WorkInit /\ [][WorkNext]_workVars /\ WorkFairness

----------------------------------------------------------------------------
(* Properties.                                                             *)

\* The messages of a request are answered truly, and the endpoint file leads to
\* a desktop that serves (McpServer: dispatch_json_rpc_value, call_ipc_value,
\* publish_ipc_endpoint, retire_ipc_publication_with).
ServerIsTrue == work = "server" => Server!RepliesAreTrue /\ Server!EndpointIsCurrent

\* A request is taken as it was sent (HttpFraming), and shared uploads keep their
\* quota, their pieces and their owner (ContentUpload).
ServerIsExact ==
    /\ work = "upload" => Content!UploadsHold
    /\ work = "wire" => Wire!BodyIsExact

\* Every request ends, whoever does not answer, and so does a bridge that
\* nobody is allowed to use (McpControl, McpServer).
EveryRequestEnds ==
    /\ work = "control" => RequestsEnd /\ BridgeRetires
    /\ work = "server" => Server!ConnectionsEnd
============================================================================
