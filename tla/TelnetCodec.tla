----------------------------- MODULE TelnetCodec ----------------------------
(***************************************************************************)
(* What PortMate's Telnet codec does to a stream, byte by byte             *)
(* (telnet_protocol.rs): text or raw bytes are encoded for the wire, the   *)
(* peer slips one control sequence in between two bytes of data, and the   *)
(* filter of the receiving side takes the stream apart again.  The filter  *)
(* keeps its state between chunks, so a chunk is one byte here.            *)
(***************************************************************************)
EXTENDS Naturals, Sequences

CONSTANTS Data,        \* data bytes: "CR", "LF", "NUL", "IAC" and an ordinary one
          MaxData,     \* length of the data
          MaxSub       \* subnegotiation bytes kept (4096)

VARIABLES
    data,       \* what is sent
    coding,     \* how: "text" in NVT mode, "binary" text, or raw "bytes" in binary
                \* mode, before the control sequence and after it
    control,    \* the control sequence slipped in
    stream,     \* bytes that have still to arrive
    parser,     \* TelnetState; Command(c) is c
    remoteBinary,    \* remote_binary, and remote_options[BINARY]
    afterCr,    \* after_cr
    sub, overflow,   \* subnegotiation and subnegotiation_overflow
    output, answers  \* what the terminal gets, and the replies

vars == <<data, coding, control, stream, parser, remoteBinary, afterCr, sub, overflow,
          output, answers>>

DataStrings == UNION {[1 .. n -> Data] : n \in 0 .. MaxData}

Negotiations == {"DO", "DONT", "WILL", "WONT"}
Negotiation(c, option) == <<"IAC", c, option>>

\* NOP, options, and a request for the terminal type, one with a doubled IAC, one
\* too long.
Controls == {<<>>, <<"IAC", "NOP">>} \cup {Negotiation(c, "OPT") : c \in Negotiations}
            \cup {Negotiation(c, "BINARY") : c \in {"WILL", "WONT"}} \cup {
             <<"IAC", "SB", "TTYPE", "SEND", "IAC", "SE">>,
             <<"IAC", "SB", "TTYPE", "SEND", "IAC", "IAC", "IAC", "SE">>,
             <<"IAC", "SB", "TTYPE", "SEND", "SEND", "SEND", "SEND", "IAC", "SE">>}

\* encode_telnet_outbound_text in NVT mode, as a recursive function on the text.
EncodedText(s) ==
    LET enc[n \in 0 .. Len(s)] ==
        IF n = 0 THEN <<>>
        ELSE IF s[n] = "CR" THEN
            IF n < Len(s) /\ s[n + 1] = "LF"
            THEN Append(enc[n - 1], "CR") ELSE enc[n - 1] \o <<"CR", "NUL">>
        ELSE IF s[n] = "LF" THEN
            IF n > 1 /\ s[n - 1] = "CR"
            THEN Append(enc[n - 1], "LF") ELSE enc[n - 1] \o <<"CR", "LF">>
        ELSE Append(enc[n - 1], s[n])
    IN enc[Len(s)]

\* encode_telnet_outbound_bytes
EncodedBytes(s) ==
    LET enc[n \in 0 .. Len(s)] ==
        IF n = 0 THEN <<>>
        ELSE IF s[n] = "IAC" THEN enc[n - 1] \o <<"IAC", "IAC">>
        ELSE Append(enc[n - 1], s[n])
    IN enc[Len(s)]

Wire(s, c) == CASE c = "text" -> EncodedText(s)
                [] c = "binary" -> s
                [] c = "bytes" -> EncodedBytes(s)

\* A peer that changes the mode holds the data back until the change is agreed.
NextCoding(c) == CASE control = Negotiation("WILL", "BINARY") /\ c = "text" -> "binary"
                   [] control = Negotiation("WONT", "BINARY") /\ c = "binary" -> "text"
                   [] OTHER -> c

\* The peer may send a command between any two bytes, but not inside an IAC IAC.
Cuts(w) == {n \in 0 .. Len(w) :
              n \in 1 .. Len(w) - 1 => ~(w[n] = "IAC" /\ w[n + 1] = "IAC")}

Init ==
    /\ data \in DataStrings
    /\ control \in Controls
    /\ \E c \in {"text", "binary", "bytes"}, at \in 0 .. Len(data) :
         /\ \A n \in 1 .. Len(data) : data[n] = "IAC" => c = "bytes"  \* no UTF-8 text has 0xFF
         /\ c = "bytes" => control # Negotiation("WONT", "BINARY")
         /\ coding = [before |-> c, after |-> NextCoding(c), at |-> at]
         /\ remoteBinary = (c # "text")
    /\ LET first == Wire(SubSeq(data, 1, coding.at), coding.before)
           last == Wire(SubSeq(data, coding.at + 1, Len(data)), coding.after)
       IN IF coding.before # coding.after
          THEN stream = first \o control \o last
          ELSE /\ coding.at = Len(data)
               /\ \E n \in Cuts(first) :
                    stream = SubSeq(first, 1, n) \o control \o SubSeq(first, n + 1, Len(first))
    /\ parser = "Data"
    /\ afterCr = FALSE
    /\ sub = <<>>
    /\ overflow = FALSE
    /\ output = <<>>
    /\ answers = 0

-----------------------------------------------------------------------------
(* TelnetNegotiator::filter.                                                *)

Byte == Head(stream)
Goes(state) == parser' = state

\* Mutant: the pending NUL is forgotten only by data, but swallowed wherever it is.
PushDataByteDropsNul(b) ==
    /\ output' = IF b = "NUL" /\ ~remoteBinary THEN output ELSE Append(output, b)
    /\ afterCr' = (b = "CR")

\* push_data_byte: outside binary mode a NUL right after a CR is its padding.
PushDataByte(b) ==
    /\ output' = IF ~remoteBinary /\ afterCr /\ b = "NUL" THEN output
                 ELSE Append(output, b)
    /\ afterCr' = (~remoteBinary /\ b = "CR")

\* push_subnegotiation, for one byte or for the two of an undoubled IAC.
SubAfter(bytes) ==
    IF overflow \/ Len(sub) + Len(bytes) > MaxSub THEN <<<<>>, TRUE>>
    ELSE <<sub \o bytes, FALSE>>
PushSub(bytes) == sub' = SubAfter(bytes)[1] /\ overflow' = SubAfter(bytes)[2]

\* telnet_subnegotiation_reply
Answered == ~overflow /\ Len(sub) >= 2 /\ sub[1] = "TTYPE" /\ sub[2] = "SEND"

InData ==
    /\ parser = "Data"
    /\ \/ Byte = "IAC" /\ Goes("Iac") /\ UNCHANGED <<afterCr, output>>
       \/ Byte # "IAC" /\ PushDataByte(Byte) /\ UNCHANGED parser
    /\ UNCHANGED <<remoteBinary, sub, overflow, answers>>

AfterIac ==
    /\ parser = "Iac"
    /\ \/ /\ Byte = "IAC"
          /\ PushDataByte("IAC") /\ Goes("Data") /\ UNCHANGED <<sub, overflow>>
       \/ /\ Byte = "SB"
          /\ sub' = <<>> /\ overflow' = FALSE /\ Goes("Sub")
          /\ UNCHANGED <<afterCr, output>>
       \/ /\ Byte \in Negotiations
          /\ Goes(Byte) /\ UNCHANGED <<afterCr, output, sub, overflow>>
       \/ /\ Byte \notin Negotiations \cup {"IAC", "SB"}
          /\ Goes("Data") /\ UNCHANGED <<afterCr, output, sub, overflow>>
    /\ UNCHANGED <<remoteBinary, answers>>

\* telnet_option_replies, with BINARY enabled: silence for a mode that is so
\* already, and one reply otherwise.  Only BINARY touches what is filtered here.
AfterNegotiation ==
    /\ parser \in Negotiations
    /\ LET wanted == parser \in {"DO", "WILL"}
           enabled == IF Byte = "BINARY" THEN remoteBinary ELSE FALSE
       IN /\ answers' = IF wanted = enabled THEN answers ELSE answers + 1
          /\ remoteBinary' = IF Byte = "BINARY" THEN wanted ELSE remoteBinary
    /\ Goes("Data")
    /\ UNCHANGED <<afterCr, sub, overflow, output>>

InSub ==
    /\ parser = "Sub"
    /\ \/ Byte = "IAC" /\ Goes("SubIac") /\ UNCHANGED <<sub, overflow>>
       \/ Byte # "IAC" /\ PushSub(<<Byte>>) /\ UNCHANGED parser
    /\ UNCHANGED <<remoteBinary, afterCr, output, answers>>

AfterSubIac ==
    /\ parser = "SubIac"
    /\ IF Byte = "SE"
       THEN /\ Goes("Data")
            /\ sub' = <<>>
            /\ answers' = IF Answered THEN answers + 1 ELSE answers
            /\ UNCHANGED overflow
       ELSE /\ PushSub(IF Byte = "IAC" THEN <<"IAC">> ELSE <<"IAC", Byte>>)
            /\ Goes("Sub")
            /\ UNCHANGED answers
    /\ UNCHANGED <<remoteBinary, afterCr, output>>

Next ==
    /\ stream # <<>>
    /\ stream' = Tail(stream)
    /\ InData \/ AfterIac \/ AfterNegotiation \/ InSub \/ AfterSubIac
    /\ UNCHANGED <<data, coding, control>>

-----------------------------------------------------------------------------
\* The line ends an NVT terminal is shown: every LF after a CR.
Shown(s) ==
    LET nvt[n \in 0 .. Len(s)] ==
        IF n = 0 THEN <<>>
        ELSE IF s[n] = "LF" /\ (n = 1 \/ s[n - 1] # "CR") THEN nvt[n - 1] \o <<"CR", "LF">>
        ELSE Append(nvt[n - 1], s[n])
    IN nvt[Len(s)]

Received(s, c) == IF c = "text" THEN Shown(s) ELSE s

\* What must be answered: a request for the terminal type, unless it was too long
\* to be kept, and an option that is not yet as it is asked to be.
MustAnswer ==
    \/ Len(control) \in {6, 8}
    \/ control \in {Negotiation("DO", "OPT"), Negotiation("WILL", "OPT")}
    \/ coding.before # coding.after

\* Whatever the chunks and wherever a command falls, even between a CR and its
\* padding, and whether or not it changes the mode, the terminal gets the data,
\* and what must be answered is, once.
TextSurvives ==
    stream = <<>> =>
        /\ parser = "Data"
        /\ output = Received(SubSeq(data, 1, coding.at), coding.before)
                      \o Received(SubSeq(data, coding.at + 1, Len(data)), coding.after)
        /\ answers = IF MustAnswer THEN 1 ELSE 0
=============================================================================
