---------------------------- MODULE TftpTransfer ----------------------------
(***************************************************************************)
(* The one-shot TFTP server: the boot loader at the other end of a serial  *)
(* session is told to fetch a file, which is then served over UDP.         *)
(*                                                                         *)
(* UDP may lose, duplicate and reorder: wire is the set of datagrams sent, *)
(* any of which may be delivered at any time, again or never.  Block       *)
(* numbers are u16 and wrap; a datagram has left the network before the    *)
(* number it carries is expected again.  Datagrams of other hosts, and     *)
(* those of the device that are neither the awaited acknowledgement nor an *)
(* error, are read and ignored: they change nothing.                       *)
(***************************************************************************)
EXTENDS DeviceLink

CONSTANTS
    Sizes,         \* sizes of the file
    Offers,        \* requests of a device: its blksize option (0 is none)
                   \* and whether another option is accepted
    MinBlock, DefaultBlock, MaxBlock,   \* 8, 512, 1468
    NumberMod,     \* 65536: block numbers are u16
    CommandLines,  \* lines of the U-Boot command sequence
    MaxRestarts    \* bound: times the device starts over from a new port

ASSUME TftpAssumption ==
    /\ Sizes \subseteq Nat
    /\ Offers \subseteq Nat \X BOOLEAN
    /\ {MinBlock, DefaultBlock, MaxBlock, CommandLines} \subseteq Nat \ {0}
    /\ MinBlock <= DefaultBlock /\ DefaultBlock <= MaxBlock
    /\ NumberMod \in Nat \ {0, 1}
    /\ MaxRestarts \in Nat

VARIABLES
    size,     \* bytes of the source
    lines,    \* command lines written
    blksize,  \* negotiated block size; 0 before
    client,   \* the port the request came from
    count,    \* the block being sent: 0 for OACK
    wire,     \* datagrams sent
    dev       \* the device

server == <<size, lines, blksize, client, count>>
tftpVars == <<size, lines, blksize, client, count, wire, dev>>

Tftp == proto = "tftp"

File == [i \in 1 .. size |-> i]

\* The bytes of block n; the last block is short, and empty when the size is a
\* multiple of the block size.
Slice(n) ==
    SubSeq(File, (n - 1) * blksize + 1, IF n * blksize < size THEN n * blksize ELSE size)

TftpInit ==
    /\ size \in IF Tftp THEN Sizes ELSE {0}
    /\ lines = 0
    /\ blksize = 0
    /\ client = 0
    /\ count = 0
    /\ wire = {}
    /\ \E offer \in IF Tftp THEN Offers ELSE {<<0, FALSE>>} :
         dev = [at |-> "prompt", offer |-> offer, port |-> 0, n |-> 0,
                blksize |-> DefaultBlock, file |-> <<>>]

\* From the server: true block number, number on the wire, and data.
ToDevice(kind, n, data) ==
    [to |-> "device", port |-> client, kind |-> kind, n |-> n, no |-> n % NumberMod, data |-> data]

ToServer(kind, n, data) ==
    [to |-> "server", port |-> dev.port, kind |-> kind, n |-> n, no |-> n % NumberMod, data |-> data]

\* Every error once command lines were begun leaves through ^C.
Stop(result) == outcome' = result /\ pc' = "stop"

----------------------------------------------------------------------------
(* Setting the device up. *)

\* acquire_tftp_outbound_lane: the lane of the session is awaited, polling the
\* flag, and then held to the end.
AcquireLane ==
    /\ pc = "start"
    /\ \/ cancelled /\ End("cancelled")
       \/ ~cancelled /\ Goto("lines")
       \/ End("failed")
    /\ UNCHANGED <<tftpVars, aborted>>

SendLine ==
    /\ pc = "lines"
    /\ ~Interrupted
    /\ lines' = lines + 1
    /\ IF lines' = CommandLines
         THEN Goto("request") /\ dev' = [dev EXCEPT !.at = "request"]
         ELSE UNCHANGED <<pc, outcome, dev>>
    /\ UNCHANGED <<size, blksize, client, count, wire, aborted>>

\* A line cannot be written, the deadline passes, the socket or the source
\* cannot be read, or the transfer is interrupted.
ServingFails ==
    /\ pc \in {"lines", "request", "oack", "block"}
    /\ \/ Interrupted /\ Stop(InterruptedResult)
       \/ Stop("failed")
    /\ UNCHANGED <<tftpVars, aborted>>

\* ^C brings the boot loader back to its prompt.
InterruptDevice ==
    /\ pc = "stop"
    /\ aborted' = (aborted \/ live)
    /\ dev' = IF live /\ dev.at # "done" THEN [dev EXCEPT !.at = "prompt"] ELSE dev
    /\ pc' = "ended"
    /\ UNCHANGED <<outcome, server, wire>>

----------------------------------------------------------------------------
(* serve_tftp_file. *)

\* wait_for_tftp_read_request and negotiate_tftp_options: anything else from
\* the device, and options that cannot be met, end the transfer.
ReceiveRequest ==
    /\ pc = "request" /\ ~Interrupted
    /\ \E p \in wire :
         /\ p.to = "server"
         /\ client' = p.port
         /\ \/ /\ p.kind = "RRQ" /\ p.data[1] \notin 1 .. MinBlock - 1
               /\ blksize' = IF p.data[1] = 0 THEN DefaultBlock
                             ELSE IF p.data[1] < MaxBlock THEN p.data[1] ELSE MaxBlock
               /\ IF p.data[1] = 0 /\ ~p.data[2]
                    THEN count' = 1 /\ Goto("block")
                    ELSE count' = 0 /\ Goto("oack")
               /\ UNCHANGED wire
            \/ /\ p.kind # "RRQ" \/ p.data[1] \in 1 .. MinBlock - 1
               /\ wire' = wire \cup {[ToDevice("ERROR", 0, <<>>) EXCEPT !.port = p.port]}
               /\ Stop("failed")
               /\ UNCHANGED <<blksize, count>>
    /\ UNCHANGED <<size, lines, dev, aborted>>

Datagram ==
    IF pc = "oack" THEN ToDevice("OACK", 0, <<blksize>>) ELSE ToDevice("DATA", count, Slice(count))

\* send_tftp_packet_with_ack: at once, and again whenever the retry timeout
\* passes.
SendDatagram ==
    /\ pc \in {"oack", "block"} /\ ~Interrupted
    /\ wire' = wire \cup {Datagram}
    /\ UNCHANGED <<pc, outcome, server, dev, aborted>>

\* Mutant: the transfer is over once all bytes are acknowledged.
LastAllBytes == count * blksize >= size

LastBlock == Len(Slice(count)) < blksize

Current(p) == p.to = "server" /\ p.port = client /\ p.kind = "ACK" /\ p.no = count % NumberMod

\* With block n under way, n + 1 may be expected: what carries its number from
\* a turn ago has left the network.
Unexpired(n) == {p \in wire : p.n > n + 1 - NumberMod}

ReceiveAck ==
    /\ pc \in {"oack", "block"} /\ ~Interrupted
    /\ \E p \in wire :
         /\ Current(p)
         /\ IF pc = "block" /\ LastBlock
              THEN End("ok") /\ UNCHANGED <<count, wire>>
              ELSE Goto("block") /\ count' = count + 1 /\ wire' = Unexpired(count + 1)
    /\ UNCHANGED <<size, lines, blksize, client, dev, aborted>>

ReceiveError ==
    /\ pc \in {"oack", "block"} /\ ~Interrupted
    /\ \E p \in wire : p.to = "server" /\ p.kind = "ERROR" /\ p.port = client
    /\ Stop("failed")
    /\ UNCHANGED <<tftpVars, aborted>>

----------------------------------------------------------------------------
(* The device, and the network. *)

DeviceRequests ==
    /\ dev.at = "request"
    /\ wire' = wire \cup {ToServer("RRQ", 0, dev.offer)}
    /\ UNCHANGED dev

DeviceTakes(p) ==
    CASE p.kind = "ERROR" -> dev' = [dev EXCEPT !.at = "prompt"]
      [] p.kind = "OACK" /\ dev.at \in {"request", "data"} /\ dev.n = 0 ->
           dev' = [dev EXCEPT !.at = "data", !.blksize = p.data[1]]
      [] p.kind = "DATA" /\ dev.at \in {"request", "data"} /\ p.no = (dev.n + 1) % NumberMod ->
           dev' = [dev EXCEPT !.at = IF Len(p.data) < dev.blksize THEN "done" ELSE "data",
                              !.n = @ + 1, !.file = @ \o p.data]
      [] OTHER -> UNCHANGED dev

\* It acknowledges what it has, also when it is sent again.
DeviceReceives ==
    /\ dev.at \in {"request", "data"}
    /\ \E p \in wire :
         /\ p.to = "device" /\ p.port = dev.port
         /\ DeviceTakes(p)
         /\ wire' = IF p.kind \in {"DATA", "OACK"} /\ p.no = dev'.n % NumberMod
                      THEN wire \cup {ToServer("ACK", dev'.n, <<>>)} ELSE wire

\* It gives up, with an error or by starting over from another port.
DeviceFails ==
    /\ dev.at = "data"
    /\ \/ /\ dev' = [dev EXCEPT !.at = "prompt"]
          /\ wire' = wire \cup {ToServer("ERROR", dev.n, <<>>)}
       \/ /\ dev.port < MaxRestarts
          /\ dev' = [dev EXCEPT !.at = "request", !.port = @ + 1, !.n = 0,
                                !.blksize = DefaultBlock, !.file = <<>>]
          /\ UNCHANGED wire

----------------------------------------------------------------------------
(* All steps. *)

ServerStep ==
    /\ Tftp
    /\ \/ AcquireLane \/ SendLine \/ ServingFails \/ InterruptDevice
       \/ ReceiveRequest \/ SendDatagram \/ ReceiveAck \/ ReceiveError
    /\ UNCHANGED <<proto, begun, live, cancelled, registered, canceller>>

DeviceStep ==
    /\ Tftp
    /\ DeviceRequests \/ DeviceReceives \/ DeviceFails
    /\ UNCHANGED <<linkVars, server>>

----------------------------------------------------------------------------
(* Properties. *)

\* A file that is reported as served is at the device, whole and known to be
\* whole, whatever was lost, duplicated or reordered, and after the block
\* numbers have wrapped: serve_tftp_file ends with the acknowledgement of a
\* short block, be it an empty one.
ServedIsWhole ==
    Tftp /\ outcome = "ok" => dev.at = "done" /\ dev.file = File
============================================================================
