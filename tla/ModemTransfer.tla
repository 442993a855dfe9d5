--------------------------- MODULE ModemTransfer ---------------------------
(***************************************************************************)
(* XMODEM and YMODEM over a terminal session, in both directions, with the *)
(* program at the other end (rx, sx, rb, sb, or a boot loader's load       *)
(* command) as an external peer.                                           *)
(*                                                                         *)
(* The line is two queues of what is written at once.  A write may be lost *)
(* (noise on a serial line, or the reader's broadcast receiver lagging:    *)
(* Lagged(_) => continue) or a packet garbled, so that its number or CRC   *)
(* check fails.  A torn packet has lost its marker byte: the reader then   *)
(* looks for a marker among its payload.  An answer that is still on its   *)
(* way when its receiver gives up waiting is a late one.                   *)
(*                                                                         *)
(* A file is a sequence of bytes of which only 0x1A (MODEM_EOF, "e") is    *)
(* told from the others ("b").  ZMODEM is driven by the zmodem2 library    *)
(* and not modelled.                                                       *)
(***************************************************************************)
EXTENDS DeviceLink

CONSTANTS
    Setups,       \* subset of {"manual", "auto", "load", "baud"}
    Directions,   \* subset of {"send", "receive"}
    Sources,      \* files to transfer
    BlockSize,    \* XMODEM_BLOCK_SIZE, YMODEM_BLOCK_SIZE
    BlockMod,     \* 256: block numbers are u8
    MaxRetries,   \* MODEM_MAX_RETRIES
    FinishTries,  \* 3: tries of an automatic receiver's last answer
    MaxFaults     \* bound: faults of the line

ASSUME ModemAssumption ==
    /\ Setups \subseteq {"manual", "auto", "load", "baud"}
    /\ Directions \subseteq {"send", "receive"}
    /\ Sources \subseteq Seq({"b", "e"})
    /\ BlockSize \in Nat \ {0}
    /\ BlockMod \in Nat \ {0, 1, 2}
    /\ MaxRetries \in Nat \ {0} /\ FinishTries \in Nat \ {0}
    /\ MaxFaults \in Nat

VARIABLES
    setup,     \* how the peer is started
    dir,       \* ModemDirection
    src,       \* the file at the sending side
    sized,     \* the YMODEM header carries the size
    out, inn,  \* writes on their way to the peer, and from it
    marks,     \* output markers seen by the completion receiver
    blk,       \* blocks acknowledged by the peer, or accepted from it
    tries,     \* writes of the current packet
    waiting,   \* its answer is awaited
    written,   \* bytes in the temporary file
    pad,       \* trailing_padding
    target,    \* the local target of a download
    baud,      \* the host's baud rate
    peer,      \* the program at the other end
    remote,    \* the remote target of an automatic upload
    faults     \* faults of the line so far

line == <<out, inn, marks, faults>>
local == <<blk, tries, waiting, written, pad, target, baud>>
modemVars == <<setup, dir, src, sized, out, inn, marks, blk, tries, waiting, written,
               pad, target, baud, peer, remote, faults>>

Old == <<"old">>       \* what a target held before
Header == <<"h">>      \* ymodem_metadata_block

Message(kind, no, data) == [kind |-> kind, no |-> no, data |-> data, good |-> TRUE]
Byte(kind) == Message(kind, 0, <<>>)
Packet(no, data) == Message("block", no, data)

----------------------------------------------------------------------------
(* Blocks and padding. *)

Blocks(file) == (Len(file) + BlockSize - 1) \div BlockSize

\* modem_packet_bytes: block n of the file, filled up with MODEM_EOF.
Block(file, n) ==
    [i \in 1 .. BlockSize |->
        LET at == (n - 1) * BlockSize + i IN IF at <= Len(file) THEN file[at] ELSE "e"]

Fill(n) == [i \in 1 .. n |-> "e"]

\* rposition(|byte| *byte != MODEM_EOF) + 1, and 0 when there is none.
LastContent(data) ==
    CHOOSE n \in 0 .. Len(data) :
        /\ n = 0 \/ data[n] # "e"
        /\ \A i \in n + 1 .. Len(data) : data[i] = "e"

Unpadded(data) == SubSeq(data, 1, LastContent(data))

\* append_modem_data_without_trailing_padding.
AppendStripped(data) ==
    IF LastContent(data) = 0
      THEN pad' = pad + Len(data) /\ UNCHANGED written
      ELSE /\ written' = written \o Fill(pad) \o Unpadded(data)
           /\ pad' = Len(data) - LastContent(data)

\* append_modem_data_with_size_limit.
AppendLimited(data) ==
    LET room == Len(src) - Len(written)
    IN /\ written' = written \o SubSeq(data, 1, IF room < Len(data) THEN room ELSE Len(data))
       /\ UNCHANGED pad

----------------------------------------------------------------------------
(* Initial states. *)

IdlePeer == [at |-> "off", n |-> 0, file |-> <<>>, waiting |-> FALSE, tries |-> 0]

\* A transfer that is not X/YMODEM leaves these variables alone.
ModemIdle ==
    /\ setup = "manual" /\ dir = "send" /\ src = <<>> /\ sized = FALSE
    /\ peer = IdlePeer

\* Only load: endpoints start the device's own receiver; the user starts a
\* manual peer.
ModemRequest ==
    /\ setup \in Setups
    /\ dir \in Directions
    /\ setup \in {"load", "baud"} => dir = "send"
    /\ src \in Sources
    /\ sized \in BOOLEAN
    /\ proto = "xmodem" => ~sized
    /\ proto = "ymodem" /\ dir = "send" => sized
    /\ peer = [IdlePeer EXCEPT !.at = IF setup = "manual" THEN "call" ELSE "off"]

ModemInit ==
    /\ IF proto = "tftp" THEN ModemIdle ELSE ModemRequest
    /\ out = <<>> /\ inn = <<>> /\ marks = {}
    /\ blk = 0 /\ tries = 0 /\ waiting = FALSE
    /\ written = <<>> /\ pad = 0 /\ target = Old
    /\ baud = "original"
    /\ remote = Old
    /\ faults = [lost |-> 0, garbled |-> 0, torn |-> 0, late |-> 0]

----------------------------------------------------------------------------
(* The reader and the writer of the bound runtime. *)

Modem == proto \in {"xmodem", "ymodem"}

\* The transfer returns; a changed baud rate is restored first.
Leave(result) ==
    /\ outcome' = result
    /\ pc' = CASE baud = "original" -> "ended"
               [] baud = "target" /\ result = "ok" -> "restore"
               [] OTHER -> "abort"

Write(messages) == ~Interrupted /\ out' = out \o messages

Hears(kinds) == ~cancelled /\ inn # <<>> /\ Head(inn).kind \in kinds

\* What a transfer waits for in each place.
Answers == {"ACK", "NAK", "CAN"}
Markers == {"block", "EOT", "CAN", "torn"}
Awaited ==
    CASE pc = "ready" -> {"READY"}
      [] pc = "banner" -> {"ENTER"}
      [] pc = "receiver" -> {"C", "NAK", "CAN"}
      [] pc \in {"headerC", "eotC"} -> {"C", "CAN"}
      [] pc \in {"header", "data", "eot", "final"} -> IF waiting THEN Answers ELSE {}
      [] pc = "marker0" -> IF waiting THEN Markers ELSE {}
      [] pc \in {"marker", "last"} -> Markers
      [] OTHER -> {}

\* The peer is about to write one of these by itself.
PeerWillSend(kinds) ==
    IF dir = "send" THEN peer.at = "call" /\ "C" \in kinds
                    ELSE peer.at \in {"header", "data", "eot", "final"} /\ ~peer.waiting

\* Nothing awaited is under way: the wait can only end by its deadline.
Quiet(kinds) ==
    /\ \A i \in 1 .. Len(inn) : inn[i].kind \notin kinds
    /\ peer.at # "hung" => out = <<>> /\ ~PeerWillSend(kinds)

Fault(kind) ==
    /\ faults.lost + faults.garbled + faults.torn + faults.late < MaxFaults
    /\ faults' = [faults EXCEPT ![kind] = @ + 1]

\* A deadline passes, with the answer possibly still on its way.
DeadlinePasses(quiet) ==
    IF quiet THEN UNCHANGED faults
             ELSE Fault("late")

TimesOut ==
    /\ Awaited # {}
    /\ ~Interrupted
    /\ DeadlinePasses(Quiet(Awaited))
    /\ UNCHANGED <<out, inn, marks>>

\* check_interrupted before a write and in an empty read, check_modem_cancelled
\* before a block.  The CAN that check_modem_cancelled means to write is
\* refused by the same check: telling the peer is left to the canceller.
ModemInterrupted ==
    /\ begun /\ pc \notin {"check", "start", "enter", "last", "commit", "finalize",
                           "abort", "restore", "ended"}
    /\ Interrupted
    /\ Leave(InterruptedResult)
    /\ UNCHANGED <<line, local>>

\* Bytes that mean nothing here are read and dropped.
DropOther ==
    /\ Awaited # {}
    /\ ~cancelled
    /\ inn # <<>> /\ Head(inn).kind \notin Awaited
    /\ inn' = Tail(inn)
    /\ UNCHANGED <<pc, outcome, out, marks, faults, local>>

----------------------------------------------------------------------------
(* Starting the peer: maybe_start_remote_modem, start_device_modem. *)

FirstPlace == IF dir = "send" THEN "receiver" ELSE "marker0"

StartPeer ==
    /\ pc = "start"
    /\ live
    /\ out' = IF setup = "manual" THEN out ELSE Append(out, Byte("RUN"))
    /\ Goto(CASE setup = "auto" -> "ready"
              [] setup = "baud" -> "banner"
              [] OTHER -> FirstPlace)
    /\ UNCHANGED <<inn, marks, faults, local>>

\* after_marker_for_binding.
PeerIsReady ==
    /\ pc = "ready"
    /\ Hears({"READY"})
    /\ inn' = Tail(inn)
    /\ Goto(FirstPlace)
    /\ UNCHANGED <<out, marks, faults, local>>

\* set_serial_runtime_baud, which fails when the port has gone or refuses.
SwitchBaud ==
    /\ pc = "banner"
    /\ Hears({"ENTER"})
    /\ inn' = Tail(inn)
    /\ \/ live /\ baud' = "target" /\ Goto("enter")
       \/ Leave("failed") /\ UNCHANGED baud
    /\ UNCHANGED <<out, marks, faults, blk, tries, waiting, written, pad, target>>

\* The confirmation; the rate is put back when it cannot be written.
ConfirmBaud ==
    /\ pc = "enter"
    /\ \/ live /\ out' = Append(out, Byte("KEY")) /\ Goto("receiver") /\ UNCHANGED baud
       \/ /\ End("failed")
          /\ baud' = IF live THEN "original" ELSE baud
          /\ UNCHANGED out
    /\ UNCHANGED <<inn, marks, faults, blk, tries, waiting, written, pad, target>>

\* A wait whose timeout is an error.
WaitFails ==
    /\ pc \in {"ready", "banner", "receiver", "headerC", "eotC", "marker"}
    /\ TimesOut
    /\ Leave("failed")
    /\ UNCHANGED local

\* CAN from the peer, wherever it is listened for.
PeerCancels ==
    /\ "CAN" \in Awaited /\ pc # "last"
    /\ Hears({"CAN"})
    /\ inn' = Tail(inn)
    /\ Leave("failed")
    /\ UNCHANGED <<out, marks, faults, local>>

----------------------------------------------------------------------------
(* Sending: xmodem_send_file, ymodem_send_file. *)

Sending == {"header", "data", "eot", "final"}

\* modem_wait_for_receiver: 'C' or, for XMODEM, NAK.
ReceiverCalls ==
    /\ pc = "receiver"
    /\ Hears({"C", "NAK"})
    /\ inn' = Tail(inn)
    /\ IF proto = "ymodem"
         THEN IF Head(inn).kind = "C" THEN Goto("header") ELSE Leave("failed")
         ELSE Goto(IF src = <<>> THEN "eot" ELSE "data")
    /\ UNCHANGED <<out, marks, faults, local>>

Outgoing ==
    CASE pc = "header" -> Packet(0, Header)
      [] pc = "data" -> Packet((blk + 1) % BlockMod, Block(src, blk + 1))
      [] pc = "eot" -> Byte("EOT")
      [] pc = "final" -> Packet(0, <<>>)
      [] pc = "marker0" -> Byte("C")

\* The last answer of an automatic receiver may be missed: it may have left.
LastOfAuto == setup = "auto" /\ pc = (IF proto = "xmodem" THEN "eot" ELSE "final")

Allowed == IF LastOfAuto THEN FinishTries ELSE MaxRetries

\* Mutant: the writes are not counted.
TransmitUncounted ==
    /\ pc \in Sending \cup {"marker0"}
    /\ ~waiting
    /\ Write(<<Outgoing>>)
    /\ waiting' = TRUE
    /\ UNCHANGED <<pc, outcome, inn, marks, faults, blk, tries, written, pad, target, baud>>

\* A packet, or the call, is written once more.
Transmit ==
    /\ pc \in Sending \cup {"marker0"}
    /\ ~waiting
    /\ tries < Allowed
    /\ Write(<<Outgoing>>)
    /\ waiting' = TRUE
    /\ tries' = tries + 1
    /\ UNCHANGED <<pc, outcome, inn, marks, faults, blk, written, pad, target, baud>>

GiveUp ==
    /\ pc \in Sending \cup {"marker0"}
    /\ ~waiting
    /\ tries = Allowed
    /\ Leave("failed")
    /\ UNCHANGED <<line, local>>

Sent == IF setup = "auto" THEN Goto("done") ELSE Leave("ok")

\* The packet was acknowledged: on to the next.
Advance ==
    /\ tries' = 0
    /\ waiting' = FALSE
    /\ blk' = IF pc = "data" THEN blk + 1 ELSE blk
    /\ CASE pc = "header" -> Goto("headerC")
         [] pc = "data" -> Goto(IF blk + 1 < Blocks(src) THEN "data" ELSE "eot")
         [] pc = "eot" -> IF proto = "ymodem" THEN Goto("eotC") ELSE Sent
         [] pc = "final" -> Sent
    /\ UNCHANGED <<written, pad, target, baud>>

Retry ==
    /\ waiting' = FALSE
    /\ UNCHANGED <<pc, outcome, blk, tries, written, pad, target, baud>>

\* Mutant: any answer of the receiver moves on to the next block.
HearAnswerAsAck ==
    /\ pc \in Sending
    /\ waiting
    /\ Hears({"ACK", "NAK"})
    /\ inn' = Tail(inn)
    /\ Advance
    /\ UNCHANGED <<out, marks, faults>>

\* modem_wait_for_ack.
HearAnswer ==
    /\ pc \in Sending
    /\ waiting
    /\ Hears({"ACK", "NAK"})
    /\ inn' = Tail(inn)
    /\ IF Head(inn).kind = "ACK" THEN Advance ELSE Retry
    /\ UNCHANGED <<out, marks, faults>>

AnswerTimesOut ==
    /\ pc \in Sending
    /\ TimesOut
    /\ IF LastOfAuto THEN Advance ELSE Retry

\* modem_wait_for_crc_request, after the header and after the end.
HearCrcRequest ==
    /\ pc \in {"headerC", "eotC"}
    /\ Hears({"C"})
    /\ inn' = Tail(inn)
    /\ Goto(CASE pc = "eotC" -> "final" [] src = <<>> -> "eot" [] OTHER -> "data")
    /\ UNCHANGED <<out, marks, faults, local>>

----------------------------------------------------------------------------
(* Receiving: xmodem_receive_file, ymodem_receive_file. *)

Expected == (blk + 1) % BlockMod

\* YMODEM's first packet must be the header.
ReceiveHeader ==
    /\ pc = "marker0" /\ proto = "ymodem"
    /\ Hears({"block", "EOT"})
    /\ inn' = Tail(inn)
    /\ LET p == Head(inn) IN
         \/ /\ p.kind = "block" /\ p.good /\ p.no = 0 /\ p.data = Header
            /\ Write(<<Byte("ACK"), Byte("C")>>)
            /\ Goto("marker")
            /\ waiting' = FALSE
         \/ /\ p.kind = "block" /\ p.good /\ p.no = 0 /\ p.data = <<>>
            /\ Write(<<Byte("ACK")>>)
            /\ Leave("failed")
            /\ UNCHANGED waiting
         \/ /\ ~(p.kind = "block" /\ p.good /\ p.no = 0)
            /\ Leave("failed")
            /\ UNCHANGED <<out, waiting>>
    /\ UNCHANGED <<marks, faults, blk, tries, written, pad, target, baud>>

\* The first packet of XMODEM ends the calling.
Receiving == pc = "marker" \/ (pc = "marker0" /\ proto = "xmodem")

Accept(data) == IF sized THEN AppendLimited(data) ELSE AppendStripped(data)

\* The last block again: its acknowledgement was lost.  XMODEM's test of the
\* first block also catches the block after which the number wraps to 1.
Repeated(p) ==
    IF proto = "xmodem" THEN Expected # 1 /\ p.no = blk % BlockMod
                        ELSE blk > 0 /\ p.no = blk % BlockMod

\* Mutant: a header that is sent again is a block out of order.
NoHeaderAgain(p) == FALSE

HeaderAgain(p) == proto = "ymodem" /\ blk = 0 /\ p.no = 0 /\ p.data = Header

TakeBlock ==
    /\ Receiving
    /\ Hears({"block"}) /\ Head(inn).good
    /\ LET p == Head(inn) IN
         \/ p.no = Expected /\ Accept(p.data) /\ blk' = blk + 1 /\ Write(<<Byte("ACK")>>)
         \/ /\ p.no # Expected /\ Repeated(p) /\ Write(<<Byte("ACK")>>)
            /\ UNCHANGED <<written, pad, blk>>
         \/ /\ p.no # Expected /\ HeaderAgain(p) /\ Write(<<Byte("ACK"), Byte("C")>>)
            /\ UNCHANGED <<written, pad, blk>>
    /\ inn' = Tail(inn)
    /\ Goto("marker")
    /\ waiting' = FALSE
    /\ UNCHANGED <<marks, faults, tries, target, baud>>

Disordered(p) == p.no # Expected /\ ~Repeated(p) /\ ~HeaderAgain(p)

\* A block out of order ends the transfer, as does a garbled one; XMODEM
\* answers it with NAK all the same.
RefuseBlock ==
    /\ Receiving
    /\ Hears({"block"})
    /\ LET p == Head(inn) IN
         /\ p.good => Disordered(p)
         /\ IF live /\ (p.good \/ proto = "xmodem")
              THEN out' = Append(out, Byte("NAK")) ELSE UNCHANGED out
         /\ Leave(IF p.good THEN "disorder" ELSE "failed")
    /\ inn' = Tail(inn)
    /\ UNCHANGED <<marks, faults, local>>

\* The payload of a torn packet holds no marker, a packet's, or EOT's.
TakeTorn ==
    /\ pc \in {"marker0", "marker", "last"}
    /\ Hears({"torn"})
    /\ inn' \in {Tail(inn), <<Byte("EOT")>> \o Tail(inn),
                 <<[Packet(0, <<>>) EXCEPT !.good = FALSE]>> \o Tail(inn)}
    /\ UNCHANGED <<pc, outcome, out, marks, faults, local>>

TakeEot ==
    /\ Receiving
    /\ Hears({"EOT"})
    /\ inn' = Tail(inn)
    /\ IF proto = "xmodem" THEN Write(<<Byte("ACK")>>) /\ Goto("commit")
                           ELSE Write(<<Byte("ACK"), Byte("C")>>) /\ Goto("last")
    /\ UNCHANGED <<marks, faults, local>>

SizeMatches == sized => Len(written) = Len(src)

AfterLast == IF SizeMatches THEN Goto("commit") ELSE Leave("failed")

\* The end of a YMODEM batch: the empty header, EOT again, or nothing; a
\* cancellation of this wait is taken for nothing.
TakeLast ==
    /\ pc = "last"
    /\ \/ /\ Hears({"block"})
          /\ inn' = Tail(inn)
          /\ LET p == Head(inn) IN
               \/ p.good /\ p.no # 0 /\ AfterLast /\ UNCHANGED out
               \/ p.good /\ p.no = 0 /\ Write(<<Byte("ACK")>>) /\ AfterLast
               \/ p.good /\ p.no = 0 /\ Leave("failed") /\ UNCHANGED out
               \/ ~p.good /\ Leave("failed") /\ UNCHANGED out
          /\ UNCHANGED <<marks, faults>>
       \/ /\ Hears({"EOT", "CAN"})
          /\ inn' = Tail(inn)
          /\ AfterLast
          /\ UNCHANGED <<out, marks, faults>>
       \/ TimesOut /\ AfterLast
       \/ Interrupted /\ AfterLast /\ UNCHANGED line
    /\ UNCHANGED local

CallTimesOut ==
    /\ pc = "marker0"
    /\ TimesOut
    /\ Retry

\* What was heard is written to the file and answered.
Answering ==
    \/ Receiving /\ Hears({"block"}) /\ Head(inn).good /\ ~Disordered(Head(inn))
    \/ Receiving /\ Hears({"EOT"})
    \/ pc = "marker0" /\ Hears({"block"}) /\ Head(inn).good

\* The outbound lane is not free in time, the transport fails, or the local
\* file cannot be read or written or has changed: before a packet or the call
\* is written, and when one that arrived is stored and answered.
ModemFails ==
    /\ \/ pc \in {"start", "finalize", "commit"}
       \/ pc \in {"header", "data", "eot", "final", "marker0"} /\ ~waiting
       \/ Answering
    /\ Leave("failed")
    /\ UNCHANGED <<line, local>>

\* PendingLocalTransferOutput::finish: sync, and rename over the target.
CommitOutput ==
    /\ pc = "commit"
    /\ target' = written
    /\ Sent
    /\ UNCHANGED <<line, blk, tries, waiting, written, pad, baud>>

----------------------------------------------------------------------------
(* After the exchange: wait_for_remote_modem_completion, the remote        *)
(* finalize command, and finish_device_modem.                              *)

\* The markers have a subscription of their own; a wait for one also ends at
\* its deadline.
PeerFinished ==
    /\ pc = "done"
    /\ ~Interrupted
    /\ \/ "DONE" \in marks /\ (IF dir = "send" THEN Goto("finalize") ELSE Leave("ok"))
       \/ Leave("failed")
    /\ UNCHANGED <<line, local>>

\* truncate -s for XMODEM (which also lengthens), and mv -f onto the target.
FinalizeRemote ==
    /\ pc = "finalize"
    /\ live
    /\ out' = Append(out, Byte("MOVE"))
    /\ Goto("moved")
    /\ UNCHANGED <<inn, marks, faults, local>>

RemoteMoved ==
    /\ pc = "moved"
    /\ ~Interrupted
    /\ \/ "MOVED" \in marks /\ Leave("ok")
       \/ Leave("failed")
    /\ UNCHANGED <<line, local>>

\* finish_device_modem tells the device when the transfer has failed.
AbortDevice ==
    /\ pc = "abort"
    /\ out' = IF live THEN Append(out, Byte("CAN")) ELSE out
    /\ aborted' = (aborted \/ live)
    /\ pc' = "restore"
    /\ UNCHANGED <<outcome, inn, marks, faults, local>>

\* The prompt for ESC is awaited, not relied upon; then the rate is restored
\* on the bound runtime, and the device told.
RestoreBaud ==
    /\ pc = "restore"
    /\ pc' = "ended"
    /\ \/ /\ live /\ baud' = "original"
          /\ out' = Append(out, Byte("ESC"))
          /\ outcome' \in {outcome, "failed"}
          /\ outcome' = outcome => "ESC" \in marks
       \/ /\ outcome' = "failed"
          /\ UNCHANGED <<baud, out>>
    /\ UNCHANGED <<inn, marks, faults, blk, tries, waiting, written, pad, target>>

----------------------------------------------------------------------------
(* The peer, and the line between. *)

\* A runtime that was lost brings nothing more.
Reply(messages) == inn' = IF live THEN inn \o messages ELSE inn

Mark(m) == marks' = IF setup \in {"auto", "baud"} THEN marks \cup {m} ELSE marks

\* It is not running: a command starts it, or moves its file.
PeerOff(m) ==
    /\ \/ /\ m.kind = "RUN" /\ setup = "baud" /\ Reply(<<Byte("ENTER")>>)
          /\ UNCHANGED peer
       \/ /\ m.kind = "RUN" /\ setup # "baud"
          /\ Reply(IF setup = "auto" THEN <<Byte("READY")>> ELSE <<>>)
          /\ peer' = [peer EXCEPT !.at = "call"]
       \/ /\ m.kind = "KEY" /\ setup = "baud"
          /\ peer' = [peer EXCEPT !.at = "call"]
          /\ UNCHANGED inn
       \/ /\ m.kind \notin {"RUN", "KEY"}
          /\ UNCHANGED <<peer, inn>>
    /\ UNCHANGED <<marks, remote>>

Truncated(file, size) ==
    [i \in 1 .. size |-> IF i <= Len(file) THEN file[i] ELSE "0"]

PeerExited(m) ==
    /\ \/ /\ m.kind = "MOVE"
          /\ \/ /\ remote' = IF proto = "xmodem" THEN Truncated(peer.file, Len(src)) ELSE peer.file
                /\ Mark("MOVED")
             \/ UNCHANGED <<remote, marks>>
       \/ m.kind # "MOVE" /\ UNCHANGED <<remote, marks>>
    /\ UNCHANGED <<peer, inn>>

PeerQuits(mark) ==
    /\ peer' = [peer EXCEPT !.at = "exited"]
    /\ Mark(mark)
    /\ UNCHANGED remote

PeerStays(next) == peer' = next /\ UNCHANGED <<marks, remote>>

PeerCan == Reply(<<Byte("CAN")>>) /\ PeerQuits("FAIL")

\* A receiver: blocks in order, each acknowledged; the size of a YMODEM
\* header cuts the padding off.
PeerReceives(m) ==
    LET file == peer.file \o m.data
        cut == SubSeq(file, 1, IF sized /\ Len(src) < Len(file) THEN Len(src) ELSE Len(file))
        inData == peer.at = "data" \/ (peer.at = "call" /\ proto = "xmodem")
    IN
    CASE m.kind = "CAN" -> UNCHANGED inn /\ PeerQuits("FAIL")
      [] m.kind = "block" /\ ~m.good -> Reply(<<Byte("NAK")>>) /\ PeerStays(peer)
      [] m.kind = "EOT" /\ proto = "xmodem" -> Reply(<<Byte("ACK")>>) /\ PeerQuits("DONE")
      [] m.kind = "EOT" /\ proto = "ymodem" /\ peer.at # "call" ->
           Reply(<<Byte("ACK"), Byte("C")>>) /\ PeerStays([peer EXCEPT !.at = "final"])
      [] m.kind = "block" /\ m.data = Header /\ peer.at \in {"call", "data"} /\ peer.n = 0 ->
           Reply(<<Byte("ACK"), Byte("C")>>) /\ PeerStays([peer EXCEPT !.at = "data"])
      [] m.kind = "block" /\ m.data = <<>> /\ peer.at = "final" ->
           Reply(<<Byte("ACK")>>) /\ PeerQuits("DONE")
      [] m.kind = "block" /\ inData /\ m.no = (peer.n + 1) % BlockMod ->
           /\ Reply(<<Byte("ACK")>>)
           /\ PeerStays([peer EXCEPT !.at = "data", !.n = @ + 1, !.file = cut])
      [] m.kind = "block" /\ inData /\ peer.n > 0 /\ m.no = peer.n % BlockMod ->
           Reply(<<Byte("ACK")>>) /\ PeerStays(peer)
      [] OTHER -> PeerCan

PeerNext(at) == [peer EXCEPT !.at = at, !.waiting = FALSE, !.tries = 0]

FirstData == IF src = <<>> THEN "eot" ELSE "data"

\* A sender: the mirror image.
PeerHears(m) ==
    /\ UNCHANGED inn
    /\ CASE m.kind = "CAN" -> PeerQuits("FAIL")
         [] m.kind = "C" /\ peer.at = "call" ->
              PeerStays(PeerNext(IF proto = "ymodem" THEN "header" ELSE FirstData))
         [] m.kind = "C" /\ peer.at = "headerC" -> PeerStays(PeerNext(FirstData))
         [] m.kind = "C" /\ peer.at = "eotC" -> PeerStays(PeerNext("final"))
         [] m.kind = "NAK" /\ peer.waiting -> PeerStays([peer EXCEPT !.waiting = FALSE])
         [] m.kind = "ACK" /\ peer.waiting ->
              CASE peer.at = "header" -> PeerStays(PeerNext("headerC"))
                [] peer.at = "data" ->
                     PeerStays([PeerNext(IF peer.n + 1 < Blocks(src) THEN "data" ELSE "eot")
                                EXCEPT !.n = @ + 1])
                [] peer.at = "eot" /\ proto = "ymodem" -> PeerStays(PeerNext("eotC"))
                [] OTHER -> PeerQuits("DONE")
         [] OTHER -> PeerStays(peer)

PeerTakes ==
    /\ out # <<>> /\ peer.at # "hung"
    /\ out' = Tail(out)
    /\ LET m == Head(out) IN
         CASE peer.at = "off" -> PeerOff(m)
           [] peer.at = "exited" -> PeerExited(m)
           [] OTHER -> IF dir = "send" THEN PeerReceives(m) ELSE PeerHears(m)
    /\ UNCHANGED faults

\* A receiver calls until the first packet comes; a call that crosses the
\* packet is a late one.
PeerCalls ==
    /\ dir = "send" /\ peer.at = "call"
    /\ inn = <<>> /\ out = <<>>
    /\ DeadlinePasses(pc \notin Sending)
    /\ \E kind \in {"C"} \cup (IF proto = "xmodem" THEN {"NAK"} ELSE {}) : Reply(<<Byte(kind)>>)
    /\ UNCHANGED <<out, marks, peer, remote>>

PeerOutgoing ==
    CASE peer.at = "header" -> Packet(0, Header)
      [] peer.at = "data" -> Packet((peer.n + 1) % BlockMod, Block(src, peer.n + 1))
      [] peer.at = "eot" -> Byte("EOT")
      [] peer.at = "final" -> Packet(0, <<>>)

PeerSends ==
    /\ dir = "receive" /\ peer.at \in Sending /\ ~peer.waiting
    /\ IF peer.tries < MaxRetries
         THEN /\ Reply(<<PeerOutgoing>>)
              /\ PeerStays([peer EXCEPT !.waiting = TRUE, !.tries = @ + 1])
         ELSE UNCHANGED inn /\ PeerQuits("FAIL")
    /\ UNCHANGED <<out, faults>>

\* It waits for an answer that this side is not about to give.
PeerTimesOut ==
    /\ dir = "receive" /\ peer.at \in Sending /\ peer.waiting
    /\ DeadlinePasses(out = <<>> /\ inn = <<>>)
    /\ PeerStays([peer EXCEPT !.waiting = FALSE])
    /\ UNCHANGED <<out, inn>>

\* After a load with its own rate the device asks for ESC.
PeerPrompts ==
    /\ setup = "baud" /\ peer.at = "exited" /\ "ESC" \notin marks
    /\ Mark("ESC")
    /\ UNCHANGED <<out, inn, faults, peer, remote>>

PeerHangs ==
    /\ peer.at \notin {"exited", "hung"} /\ pc # "ended"
    /\ peer' = [peer EXCEPT !.at = "hung"]
    /\ UNCHANGED <<out, inn, marks, faults, remote>>

Spoil(queue, change) == [queue EXCEPT ![1] = change]

LineFails ==
    /\ pc # "ended"
    /\ \/ Fault("lost") /\ out # <<>> /\ out' = Tail(out) /\ UNCHANGED inn
       \/ Fault("lost") /\ inn # <<>> /\ inn' = Tail(inn) /\ UNCHANGED out
       \/ /\ Fault("garbled") /\ out # <<>> /\ Head(out).kind = "block"
          /\ out' = Spoil(out, [Head(out) EXCEPT !.good = FALSE]) /\ UNCHANGED inn
       \/ /\ Fault("garbled") /\ inn # <<>> /\ Head(inn).kind = "block"
          /\ inn' = Spoil(inn, [Head(inn) EXCEPT !.good = FALSE]) /\ UNCHANGED out
       \/ /\ Fault("torn") /\ inn # <<>> /\ Head(inn).kind = "block"
          /\ inn' = Spoil(inn, Byte("torn")) /\ UNCHANGED out
    /\ UNCHANGED <<marks, peer, remote>>

----------------------------------------------------------------------------
(* All steps. *)

request == <<proto, begun, setup, dir, src, sized>>
outside == <<live, cancelled, registered, canceller>>

\* Steps of the transfer.
ModemStep ==
    \/ StartPeer \/ PeerIsReady \/ SwitchBaud \/ ConfirmBaud
    \/ WaitFails \/ PeerCancels \/ DropOther \/ ModemInterrupted \/ ModemFails
    \/ ReceiverCalls \/ Transmit \/ GiveUp \/ HearAnswer \/ AnswerTimesOut
    \/ HearCrcRequest
    \/ ReceiveHeader \/ TakeBlock \/ RefuseBlock \/ TakeTorn \/ TakeEot \/ TakeLast
    \/ CallTimesOut \/ CommitOutput
    \/ PeerFinished \/ FinalizeRemote \/ RemoteMoved \/ RestoreBaud

\* A binding that finds the cancellation, and the canceller, write CAN.
LinkStep ==
    /\ \/ Binding /\ out' = IF pc = "check" /\ cancelled /\ live
                              THEN Append(out, Byte("CAN")) ELSE out
       \/ CancelTask /\ UNCHANGED out
       \/ CancelLooksUp /\ UNCHANGED out
       \/ CancelWrites /\ out' = IF live THEN Append(out, Byte("CAN")) ELSE out
       \/ RuntimeLost /\ UNCHANGED out
    /\ UNCHANGED <<setup, dir, src, sized, inn, marks, local, peer, remote, faults>>

TransferStep ==
    /\ Modem
    /\ \/ ModemStep /\ UNCHANGED aborted
       \/ AbortDevice
    /\ UNCHANGED <<request, outside, peer, remote>>

PeerStep ==
    /\ Modem
    /\ PeerTakes \/ PeerCalls \/ PeerSends \/ PeerTimesOut \/ PeerPrompts
    /\ UNCHANGED <<linkVars, setup, dir, src, sized, local>>

Disturbance ==
    /\ Modem
    /\ PeerHangs \/ LineFails
    /\ UNCHANGED <<linkVars, setup, dir, src, sized, local>>

----------------------------------------------------------------------------
(* Properties. *)

Faultless(kinds) == \A kind \in kinds : faults[kind] = 0

Padded(file) == file \o Fill(Blocks(file) * BlockSize - Len(file))

\* A file that is reported as transferred, or that has replaced the target, is
\* the file of the sending side, whatever writes were lost, garbled or repeated.
\* XMODEM has no size: a download loses its trailing 0x1A bytes and an upload
\* to a peer started by hand gains some.  Without a size neither a torn packet
\* nor an answer that comes late can be told from the real one.
IntactFile ==
    /\ dir = "receive" /\ target # Old /\ (sized \/ Faultless({"late", "torn"})) =>
         target = IF sized THEN src ELSE Unpadded(src)
    /\ dir = "send" /\ outcome = "ok" /\ Modem /\ Faultless({"late"}) =>
         peer.file = IF proto = "xmodem" THEN Padded(src) ELSE src
    /\ remote # Old /\ Faultless({"late"}) => remote = src

\* A download is refused as out of order only when it is: a block sent again
\* because its acknowledgement was lost is taken as such.  The exception is
\* XMODEM's last block before the number wraps to 1.
LostAckTolerated ==
    outcome = "disorder" /\ Faultless({"late", "torn"}) => proto = "xmodem" /\ Expected = 1
============================================================================
