---------------------------- MODULE TunnelClient ----------------------------
(***************************************************************************)
(* What happens to one connection through a tunnel, from the moment it is  *)
(* accepted: its place among the app's connections, the SOCKS5 handshake   *)
(* and the route rules of a dynamic tunnel, the way to the target, and the *)
(* pipe between the two.  An agent's request through a dynamic route of    *)
(* this host ("tcp", "udp") takes the same places.  A connection that the  *)
(* program makes through a proxy ("http", "socks", and "socksAuth" with a  *)
(* password) is at the other end of such a handshake.  For a connection    *)
(* that comes by a remote forward ("remote") the client is the program on   *)
(* this host that it leads to, and the target the one that made it.        *)
(*                                                                         *)
(* What is read of a stream at once is a token: a message of a handshake,  *)
(* a piece of data with its number, the end.  Data of the target is        *)
(* numbered from 1, and so is data of the client.                          *)
(***************************************************************************)
EXTENDS Naturals, Sequences, FiniteSets, SequencesExt

CONSTANTS
    Clients,      \* the connections, each made once
    Mixes,        \* how they come: per connection the kind
    Slots,        \* MAX_TUNNEL_CONNECTIONS
    Targets,      \* the targets a client may ask for
    Rules,        \* the route rules: each a record of the hosts and the port it covers
    MaxData,      \* bound: the pieces of data each side sends
    MaxResponse,  \* max_response_bytes
    MaxTroubles   \* bound: timeouts, resets and failures

VARIABLES
    slots,    \* tunnel_connection_slots
    sshUp,    \* whether the SSH connection is there
    client,   \* per connection: see Fresh
    troubles  \* how often something went wrong

clientVars == <<slots, sshUp, client, troubles>>

Dynamic == {"dynamic", "hostDynamic"}
OverSsh == {"local", "dynamic", "remote"}
Exchanges == {"tcp", "udp"}
Proxied == {"http", "socks", "socksAuth"}
Piped == OverSsh \cup {"host", "hostDynamic"}
Kinds == Piped \cup Exchanges \cup Proxied

\* up, down: what reached the target and the client; inbox, chan: what they have
\* sent and was not read; upSent, downSent: the number of the last piece sent.
Fresh(kind, target) ==
    [pc |-> "new", kind |-> kind, target |-> target, inbox |-> <<>>, chan |-> <<>>,
     upSent |-> 0, downSent |-> 0, up |-> <<>>, down |-> <<>>, localEof |-> FALSE,
     remoteEof |-> FALSE, truncated |-> FALSE, timedOut |-> FALSE, result |-> "none"]

ClientInit ==
    /\ slots = Slots /\ sshUp = TRUE /\ troubles = 0
    /\ \E mix \in Mixes : \E target \in [Clients -> Targets] :
         client = [c \in Clients |-> Fresh(mix[c], target[c])]

At(c, pc) == client[c].pc = pc
Is(c, kinds) == client[c].kind \in kinds
Trouble == troubles < MaxTroubles /\ troubles' = troubles + 1

\* The connection goes on with other fields; slots and the SSH connection stay.
Becomes(c, r) == client' = [client EXCEPT ![c] = r] /\ UNCHANGED <<slots, sshUp>>
Ends(c, result) ==
    Becomes(c, [client[c] EXCEPT !.pc = "ended", !.result = result])

-----------------------------------------------------------------------------
(* The place and the handshake.                                            *)

\* try_acquire_tunnel_connection.
TakeSlot(c, pc) ==
    /\ IF slots > 0
       THEN slots' = slots - 1 /\ client' = [client EXCEPT ![c].pc = pc]
       ELSE client' = [client EXCEPT ![c].pc = "refused"] /\ UNCHANGED slots
    /\ UNCHANGED <<sshUp, troubles>>

\* The listener of a tunnel.  A connection for which there is no place is dropped.
AcceptLocal(c) ==
    /\ At(c, "new") /\ Is(c, {"local", "dynamic"})
    /\ TakeSlot(c, IF Is(c, Dynamic) THEN "hello" ELSE "open")

\* server_channel_open_forwarded_tcpip, or the acceptor of libssh.
AcceptForwarded(c) == At(c, "new") /\ Is(c, {"remote"}) /\ TakeSlot(c, "open")

\* The listener of a route of this host.
AcceptHost(c) ==
    /\ At(c, "new") /\ Is(c, {"host", "hostDynamic"})
    /\ TakeSlot(c, IF Is(c, Dynamic) THEN "hello" ELSE "open")

\* Mutant: what has come is read into a buffer.
ReadAll(stream) == <<>>

\* read_exact: no more than the message asked for.
ReadExact(stream) == Tail(stream)

\* read_socks5_connect_request: version, methods, and the answer.
ReadHello(c) ==
    /\ At(c, "hello") /\ client[c].inbox # <<>>
    /\ IF Head(client[c].inbox) = "hello"
       THEN Becomes(c, [client[c] EXCEPT !.inbox = ReadExact(@), !.pc = "request"])
       ELSE Ends(c, "error")
    /\ UNCHANGED troubles

\* Command, address and port.
ReadRequest(c) ==
    /\ At(c, "request") /\ client[c].inbox # <<>>
    /\ IF Head(client[c].inbox) = "request"
       THEN Becomes(c, [client[c] EXCEPT !.inbox = ReadExact(@), !.pc = "route"])
       ELSE Ends(c, "error")
    /\ UNCHANGED troubles

\* One deadline for the whole handshake.
HandshakeTimesOut(c) ==
    /\ client[c].pc \in {"hello", "request"}
    /\ Trouble
    /\ Ends(c, "error")

\* Mutant: a rule with a port is taken for one without.
RouteAllowedAnyPort(target) ==
    Rules = {} \/ \E rule \in Rules : target.host \in rule.hosts

\* tunnel_route_allowed; port 0 in a rule stands for none.
RouteAllowed(target) ==
    \/ Rules = {}
    \/ \E rule \in Rules : target.host \in rule.hosts /\ rule.port \in {0, target.port}

\* A target that is not allowed is answered with an error.
Routing(c) ==
    /\ At(c, "route")
    /\ IF RouteAllowed(client[c].target)
       THEN Becomes(c, [client[c] EXCEPT !.pc = "open"])
       ELSE Ends(c, "error")
    /\ UNCHANGED troubles

RouteDynamic(c) == Is(c, {"dynamic"}) /\ Routing(c)
RouteHost(c) == Is(c, {"hostDynamic"}) /\ Routing(c)

\* An agent's request is checked before it takes a place.
Checking(c) ==
    /\ At(c, "new")
    /\ Becomes(c, [client[c] EXCEPT !.pc = IF RouteAllowed(client[c].target) THEN "place" ELSE "refused"])
    /\ UNCHANGED troubles

RouteRequest(c) == Is(c, {"tcp"}) /\ Checking(c)
RouteUdpRequest(c) == Is(c, {"udp"}) /\ Checking(c)

\* The address of a UDP target is looked up, and a socket bound, before.
LookupFails(c) ==
    /\ At(c, "place") /\ Is(c, {"udp"})
    /\ Trouble
    /\ Becomes(c, [client[c] EXCEPT !.pc = "refused"])

PlaceRequest(c) == At(c, "place") /\ TakeSlot(c, "open")

-----------------------------------------------------------------------------
(* The way to the target.                                                  *)

Opened(c, pc) ==
    /\ At(c, "open")
    /\ Becomes(c, [client[c] EXCEPT !.pc = pc])
    /\ UNCHANGED troubles

\* A direct-tcpip channel; a client that speaks SOCKS5 is told.
OpenDirect(c) == Is(c, {"local", "dynamic"}) /\ sshUp /\ Opened(c, "pipe")

\* A TCP connection from this host: to the program a remote forward leads to,
OpenForwardTarget(c) == Is(c, {"remote"}) /\ Opened(c, "pipe")

\* to the target of a route of this host,
OpenHostTarget(c) == Is(c, {"host", "hostDynamic"}) /\ Opened(c, "pipe")

\* or to that of a request.
OpenExchange(c) == Is(c, Exchanges) /\ Opened(c, "write")

OpenFails(c) ==
    /\ At(c, "open")
    /\ IF Is(c, {"local", "dynamic"}) /\ ~ sshUp THEN UNCHANGED troubles ELSE Trouble
    /\ Ends(c, "error")

\* The end of the SSH connection is the last message of all its channels.
SshLost(A) ==
    [c \in Clients |-> IF A[c].kind \in OverSsh /\ A[c].pc = "pipe"
                       THEN [A[c] EXCEPT !.chan = Append(@, "none")] ELSE A[c]]

SshFails ==
    /\ sshUp /\ Trouble
    /\ sshUp' = FALSE /\ client' = SshLost(client)
    /\ UNCHANGED slots

\* The time to open a channel is up: the connection is given up for all.
OpenTimesOut(c) ==
    /\ At(c, "open") /\ Is(c, {"local", "dynamic"}) /\ sshUp
    /\ Trouble
    /\ sshUp' = FALSE
    /\ client' = [SshLost(client) EXCEPT ![c] = [@ EXCEPT !.pc = "ended", !.result = "error"]]
    /\ UNCHANGED slots

-----------------------------------------------------------------------------
(* The two ends.                                                           *)

\* A SOCKS5 client may send its data before it is answered.
ClientSends(c) ==
    /\ client[c].pc \in {"hello", "request", "route", "open", "pipe"}
    /\ ~ Is(c, Exchanges)
    /\ \E token \in IF ~ Is(c, Dynamic) THEN {"data"}
                    ELSE IF At(c, "hello") /\ client[c].inbox = <<>> THEN {"hello", "bad"}
                    ELSE IF \/ At(c, "hello") /\ client[c].inbox = <<"hello">>
                            \/ At(c, "request") /\ client[c].inbox = <<>>
                         THEN {"request", "bad"}
                    ELSE {"data"} :
         IF token # "data"
         THEN Becomes(c, [client[c] EXCEPT !.inbox = Append(@, token)])
         ELSE /\ client[c].upSent < MaxData
              /\ ~ Contains(client[c].inbox, "eof") /\ ~ client[c].localEof
              /\ Becomes(c, [client[c] EXCEPT !.inbox = Append(@, "data"), !.upSent = @ + 1])
    /\ UNCHANGED troubles

ClientCloses(c) ==
    /\ At(c, "pipe")
    /\ ~ Contains(client[c].inbox, "eof") /\ ~ client[c].localEof
    /\ \/ Becomes(c, [client[c] EXCEPT !.inbox = Append(@, "eof")]) /\ UNCHANGED troubles
       \/ Trouble /\ Becomes(c, [client[c] EXCEPT !.inbox = Append(@, "reset")])

Over(c) == client[c].remoteEof \/ \E t \in {"eof", "close", "none", "reset"} : Contains(client[c].chan, t)

\* An answer may be longer than the response that was asked for.
TargetSends(c) ==
    /\ client[c].pc \in {"pipe", "write", "read"}
    /\ ~ Over(c) /\ client[c].downSent < (IF Is(c, Exchanges) THEN MaxResponse + 1 ELSE MaxData)
    /\ Becomes(c, [client[c] EXCEPT !.chan = Append(@, "data"), !.downSent = @ + 1])
    /\ UNCHANGED troubles

\* It closes its side, the channel, or breaks off.
TargetCloses(c) ==
    /\ client[c].pc \in {"pipe", "write", "read"}
    /\ \/ ~ Over(c) /\ Becomes(c, [client[c] EXCEPT !.chan = Append(@, "eof")]) /\ UNCHANGED troubles
       \/ /\ Is(c, OverSsh) /\ ~ \E t \in {"close", "none", "reset"} : Contains(client[c].chan, t)
          /\ Becomes(c, [client[c] EXCEPT !.chan = Append(@, "close")]) /\ UNCHANGED troubles
       \/ ~ Over(c) /\ Trouble /\ Becomes(c, [client[c] EXCEPT !.chan = Append(@, "reset")])

-----------------------------------------------------------------------------
(* The pipe: pipe_ssh_channel_to_tcp, copy_bidirectional for the host's.   *)

Delivered(seq) == Append(seq, Len(seq) + 1)

\* Mutant: the client's end ends the pipe.
EndIsTheEnd(r) == [r EXCEPT !.localEof = TRUE, !.pc = "ended", !.result = "ok"]

\* It closes the direction to the target; what the target answers is still due.
HalfClosed(r) ==
    IF r.remoteEof THEN [r EXCEPT !.localEof = TRUE, !.pc = "ended", !.result = "ok"]
    ELSE [r EXCEPT !.localEof = TRUE]

\* The write half of the channel, until a timeout or the end of the connection.
Writable(c) == Is(c, OverSsh) => sshUp

PipeLocal(c) ==
    /\ At(c, "pipe") /\ ~ client[c].localEof /\ client[c].inbox # <<>>
    /\ LET r == [client[c] EXCEPT !.inbox = Tail(@)]
       IN  CASE Head(client[c].inbox) = "data" ->
                  \/ Writable(c) /\ Becomes(c, [r EXCEPT !.up = Delivered(@)]) /\ UNCHANGED troubles
                  \/ ~ Writable(c) /\ Ends(c, "error") /\ UNCHANGED troubles
                  \/ Trouble /\ Ends(c, "error")
             [] Head(client[c].inbox) = "eof" ->
                  /\ IF Writable(c) THEN Becomes(c, HalfClosed(r)) ELSE Ends(c, "error")
                  /\ UNCHANGED troubles
             [] OTHER -> Ends(c, "error") /\ UNCHANGED troubles

\* The read half: of russh the messages as they come, of libssh what a poll of
\* the channel finds first, and its end.
NextMessage(c) == Head(client[c].chan)

PipeRemote(c) ==
    /\ At(c, "pipe") /\ client[c].chan # <<>>
    /\ LET r == [client[c] EXCEPT !.chan = Tail(@)]
           token == NextMessage(c)
       IN  CASE token = "data" /\ ~ r.remoteEof -> Becomes(c, [r EXCEPT !.down = Delivered(@)])
             [] token = "eof" ->
                  Becomes(c, IF r.localEof
                             THEN [r EXCEPT !.remoteEof = TRUE, !.pc = "ended", !.result = "ok"]
                             ELSE [r EXCEPT !.remoteEof = TRUE])
             [] token \in {"close", "none"} ->
                  Becomes(c, [r EXCEPT !.pc = "ended", !.result = "ok"])
             [] OTHER -> Ends(c, "error")
    /\ UNCHANGED troubles

\* The client does not take what is written to it.
LocalWriteFails(c) ==
    /\ At(c, "pipe") /\ client[c].chan # <<>> /\ NextMessage(c) \in {"data", "eof"}
    /\ Trouble
    /\ Ends(c, "error")

\* The channel is closed, and the place returned.
Finish(c) ==
    /\ At(c, "ended")
    /\ client' = [client EXCEPT ![c] = [Fresh(client[c].kind, client[c].target) EXCEPT !.pc = "done"]]
    /\ slots' = IF Is(c, Proxied) THEN slots ELSE slots + 1
    /\ UNCHANGED <<sshUp, troubles>>

-----------------------------------------------------------------------------
(* A request of an agent: exchange_host_tcp_request and its form for UDP.  *)

\* One deadline for connection, writing and reading.
Write(c) ==
    /\ At(c, "write")
    /\ Becomes(c, [client[c] EXCEPT !.pc = "read", !.up = <<1>>])
    /\ UNCHANGED troubles

WriteFails(c) == At(c, "write") /\ Trouble /\ Ends(c, "error")

\* Mutant: a response of just the size asked for counts as complete.
FullIsComplete(r, n) ==
    IF Len(r.down) + n >= MaxResponse
    THEN [r EXCEPT !.truncated = Len(r.down) + n > MaxResponse, !.pc = "ended", !.result = "ok"] ELSE r

\* read_bounded_tunnel_response: a piece that does not fit is cut; at the limit
\* nobody waits to learn whether more would come.
Bounded(r, n) ==
    IF Len(r.down) + n >= MaxResponse
    THEN [r EXCEPT !.truncated = TRUE, !.pc = "ended", !.result = "ok"] ELSE r

\* A read returns one or more of the pieces that have come.
ReadResponse(c) ==
    /\ At(c, "read") /\ client[c].chan # <<>>
    /\ \E n \in 1 .. Len(client[c].chan) :
         /\ \A i \in 1 .. n : client[c].chan[i] = "data"
         /\ Is(c, {"udp"}) => n = 1
         /\ LET taken == IF Len(client[c].down) + n > MaxResponse THEN MaxResponse - Len(client[c].down) ELSE n
                r == [client[c] EXCEPT !.chan = SubSeq(@, n + 1, Len(@)),
                                       !.down = @ \o [i \in 1 .. taken |-> Len(client[c].down) + i]]
            IN  IF Is(c, {"udp"})
                THEN Becomes(c, [r EXCEPT !.pc = "ended", !.result = "ok"])
                ELSE Becomes(c, [Bounded(client[c], n) EXCEPT !.chan = r.chan, !.down = r.down])
    /\ UNCHANGED troubles

ResponseEnds(c) ==
    /\ At(c, "read") /\ client[c].chan # <<>> /\ Head(client[c].chan) # "data"
    /\ Ends(c, IF Head(client[c].chan) = "eof" /\ Is(c, {"tcp"}) THEN "ok" ELSE "error")
    /\ UNCHANGED troubles

\* The deadline: what has come so far is the response.
ResponseTimesOut(c) ==
    /\ At(c, "read")
    /\ Trouble
    /\ Becomes(c, [client[c] EXCEPT !.timedOut = TRUE, !.pc = "ended", !.result = "ok"])

-----------------------------------------------------------------------------
(* Through a proxy: connect_target_stream.                                 *)

\* What the proxy answers before the stream is the target's.
Replies(kind) ==
    CASE kind = "http" -> <<"status">>
      [] kind = "socks" -> <<"method", "bound">>
      [] kind = "socksAuth" -> <<"method", "auth", "bound">>

ProxyConnected(c) ==
    /\ At(c, "new") /\ Is(c, Proxied)
    /\ Becomes(c, [client[c] EXCEPT !.pc = "proxy"])
    /\ UNCHANGED troubles

\* Its next answer, one that refuses or is malformed, or already the target's data.
ProxySends(c) ==
    /\ At(c, "proxy")
    /\ LET replies == Replies(client[c].kind)
       IN  IF client[c].upSent < Len(replies)
           THEN \E token \in {replies[client[c].upSent + 1], "bad"} :
                  Becomes(c, [client[c] EXCEPT !.chan = Append(@, token), !.upSent = @ + 1])
           ELSE /\ client[c].downSent < MaxData
                /\ Becomes(c, [client[c] EXCEPT !.chan = Append(@, "data"), !.downSent = @ + 1])
    /\ UNCHANGED troubles

\* perform_http_connect, perform_socks5_connect: request and answer in turn; up
\* counts the answers read.
Reading(c) ==
    /\ At(c, "proxy") /\ client[c].chan # <<>>
    /\ LET read == Len(client[c].up) + 1
           replies == Replies(client[c].kind)
       IN  IF Head(client[c].chan) # replies[read] THEN Ends(c, "error")
           ELSE Becomes(c, [client[c] EXCEPT
                    !.chan = ReadExact(@), !.up = Delivered(@),
                    !.pc = IF read = Len(replies) THEN "handed" ELSE "proxy"])
    /\ UNCHANGED troubles

ReadHttpReply(c) == Is(c, {"http"}) /\ Reading(c)
ReadSocksReply(c) == Is(c, {"socks", "socksAuth"}) /\ Reading(c)

ProxyFails(c) == At(c, "proxy") /\ Trouble /\ Ends(c, "error")

-----------------------------------------------------------------------------
ClientStep(c) ==
    \/ AcceptLocal(c) \/ AcceptForwarded(c) \/ AcceptHost(c)
    \/ ReadHello(c) \/ ReadRequest(c) \/ HandshakeTimesOut(c) \/ RouteDynamic(c) \/ RouteHost(c)
    \/ RouteRequest(c) \/ RouteUdpRequest(c) \/ LookupFails(c) \/ PlaceRequest(c)
    \/ OpenDirect(c) \/ OpenForwardTarget(c) \/ OpenHostTarget(c) \/ OpenExchange(c)
    \/ OpenFails(c) \/ OpenTimesOut(c)
    \/ ClientSends(c) \/ ClientCloses(c) \/ TargetSends(c) \/ TargetCloses(c)
    \/ PipeLocal(c) \/ PipeRemote(c) \/ LocalWriteFails(c) \/ Finish(c)
    \/ Write(c) \/ WriteFails(c) \/ ReadResponse(c) \/ ResponseEnds(c) \/ ResponseTimesOut(c)
    \/ ProxyConnected(c) \/ ProxySends(c) \/ ReadHttpReply(c) \/ ReadSocksReply(c) \/ ProxyFails(c)

ClientNext == SshFails \/ \E c \in Clients : ClientStep(c)

ClientSpec == ClientInit /\ [][ClientNext]_clientVars

-----------------------------------------------------------------------------
(* Properties.                                                             *)

Upto(n) == [i \in 1 .. n |-> i]

\* The number of pieces of data in a stream.
Pieces(stream) == Cardinality({i \in 1 .. Len(stream) : stream[i] = "data"})

\* A place is held by exactly the connections that are under way, whichever way
\* they ended: refused, denied, timed out, broken or complete.
SlotsAreReturned ==
    slots + Cardinality({c \in Clients :
        client[c].pc \notin {"new", "place", "refused", "done", "proxy", "handed"}
        /\ ~ Is(c, Proxied)}) = Slots

\* No target is reached that the rules of a dynamic route exclude.
RulesAreObeyed ==
    \A c \in Clients :
        /\ Is(c, Dynamic \cup Exchanges) /\ Rules # {}
        /\ client[c].pc \in {"pipe", "write", "read"}
        => \E rule \in Rules :
              client[c].target.host \in rule.hosts /\ rule.port \in {0, client[c].target.port}

\* A pipe delivers what was sent, in order, with the handshake taken out and
\* nothing else; and a pipe that ends well has delivered all the target sent
\* before it ended its side, even if the client had long ended its own, and all
\* the client sent unless the target closed the channel first.
PipeIsComplete ==
    \A c \in Clients :
        /\ Is(c, Piped)
        /\ client[c].pc \in {"pipe", "ended"}
        => /\ client[c].down = Upto(Len(client[c].down)) /\ Len(client[c].down) <= client[c].downSent
           /\ Len(client[c].up) + Pieces(client[c].inbox) = client[c].upSent
           /\ At(c, "ended") /\ client[c].result = "ok" =>
                /\ Len(client[c].down) = client[c].downSent
                /\ client[c].localEof /\ client[c].remoteEof => Len(client[c].up) = client[c].upSent

\* The response to an agent's request is the beginning of what the target sent,
\* and all of it unless it says that it was truncated or timed out; a stream that
\* a proxy hands over begins with the first piece of the target's data.
ResponseIsExact ==
    \A c \in Clients :
        /\ Is(c, {"tcp"}) /\ At(c, "ended") /\ client[c].result = "ok" =>
              /\ Len(client[c].down) <= MaxResponse
              /\ ~ client[c].truncated /\ ~ client[c].timedOut =>
                    Len(client[c].down) = client[c].downSent
        /\ At(c, "handed") =>
              client[c].chan = [i \in 1 .. client[c].downSent |-> "data"]
=============================================================================
