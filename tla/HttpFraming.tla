---------------------------- MODULE HttpFraming ----------------------------
(***************************************************************************)
(* How the HTTP bridge takes a request off its socket.                     *)
(*                                                                         *)
(* The bytes of a request come in reads of any length, cut anywhere.  The  *)
(* head ends with an empty line, and may bring bytes of the body with it;  *)
(* the body has a declared length or comes in chunks with their sizes and  *)
(* trailers.  Head, body and the framing of chunks have limits, and all of *)
(* it has one deadline.                                                    *)
(***************************************************************************)
EXTENDS Naturals, Sequences, SequencesExt, FiniteSetsExt

CONSTANTS
    Messages,       \* what clients send, as descriptions
    BufferSize,     \* bytes of one read
    MaxHeader,      \* MAX_HTTP_HEADER_BYTES
    MaxBody,        \* MAX_HTTP_BODY_BYTES
    MaxFraming,     \* MAX_HTTP_CHUNK_FRAMING_BYTES
    MaxTrailers     \* MAX_HTTP_HEADERS, of the trailers

VARIABLES
    message,    \* the description of what is sent
    got,        \* bytes read from the socket
    step,       \* what the reader does
    position,   \* bytes of them consumed
    framing,    \* framing_bytes
    chunk,      \* size of the chunk that is read
    trailers,   \* trailer_count
    body        \* the body so far

framingVars == <<message, got, step, position, framing, chunk, trailers, body>>

End == <<"cr", "lf">>
Digit(n) == <<"0", "1", "2", "3", "4">>[n + 1]
Digits == {Digit(n) : n \in 0..4}
Size(digit) == CHOOSE n \in 0..4 : Digit(n) = digit

(* The bytes of a description: its head, then its body.  A broken message  *)
(* has a chunk without its line end, a size that is none, or a trailer     *)
(* without a name; more bytes may follow.                                  *)
ChunkOf(m, part) ==
    <<IF m.broken = "size" THEN "a" ELSE Digit(Len(part))>> \o End \o part
        \o (IF m.broken = "end" THEN <<"a", "a">> ELSE End)

BodyOf(m) == FlattenSeq(m.parts)

HeadOf(m) == [i \in 1..m.head |-> "h"] \o End \o End
WireBody(m) ==
    IF m.chunked
    THEN FlattenSeq([i \in 1..Len(m.parts) |-> ChunkOf(m, m.parts[i])]) \o <<"0">> \o End
         \o FlattenSeq([i \in 1..m.trailers |-> <<IF m.broken = "trailer" THEN ":" ELSE "t">> \o End])
         \o End \o m.extra
    ELSE BodyOf(m) \o m.extra
Wire(m) == HeadOf(m) \o WireBody(m)

(* What the framing of a message counts. *)
Framing(m) == (Len(m.parts) * 5) + 3 + (m.trailers * 3) + 2

(* A message the bridge has to take. *)
Good(m) ==
    /\ m.authorized /\ m.broken = "none" /\ m.extra = <<>>
    /\ m.head + 4 <= MaxHeader
    /\ Len(BodyOf(m)) <= MaxBody
    /\ m.chunked => Framing(m) <= MaxFraming /\ m.trailers <= MaxTrailers

FramingInit ==
    /\ message \in Messages
    /\ got = 0 /\ step = "head" /\ position = 0 /\ framing = 0 /\ chunk = 0
    /\ trailers = 0 /\ body = <<>>

wire == Wire(message)
Sent == SubSeq(wire, 1, got)

(* read_stream_chunk_before: some bytes, at most "room" of them. *)
Read(room) ==
    /\ \E n \in 1..Min({BufferSize, room, Len(wire) - got}) : got' = got + n
    /\ UNCHANGED <<message, step, position, framing, chunk, trailers, body>>

(* The deadline passes, or the client closes early. *)
NoMore ==
    /\ step \notin {"done", "failed", "late"}
    /\ step' = "late"
    /\ UNCHANGED <<message, got, position, framing, chunk, trailers, body>>

Goes(to) == step' = to /\ UNCHANGED <<message, got, trailers>>
Fails == Goes("failed") /\ UNCHANGED <<position, framing, chunk, body>>

----------------------------------------------------------------------------
(* find_header_end. *)
Ends(s, mark) == {i \in 0..(Len(s) - Len(mark)) : SubSeq(s, i + 1, i + Len(mark)) = mark}
HeaderEnd == Ends(Sent, End \o End)

(* The loop over the head; then the limit of the body, which asks for the  *)
(* token, and the kind of the body.  A body of a declared length starts    *)
(* with the bytes that came with the head.                                 *)
ReadHead ==
    /\ step = "head" /\ HeaderEnd = {}
    /\ IF got > MaxHeader THEN Fails ELSE Read(BufferSize)

ParseHead ==
    LET start == Min(HeaderEnd) + 4
    IN  /\ step = "head" /\ HeaderEnd # {}
        /\ IF start > MaxHeader \/ ~message.authorized THEN Fails
           ELSE /\ Goes(IF message.chunked THEN "line" ELSE "length")
                /\ position' = start
                /\ body' = IF message.chunked THEN <<>> ELSE SubSeq(Sent, start + 1, got)
                /\ UNCHANGED <<framing, chunk>>

----------------------------------------------------------------------------
(* read_http_content_length_body. *)
Declared == Len(BodyOf(message))

ReadLength ==
    /\ step = "length"
    /\ IF Declared > MaxBody \/ Len(body) > Declared THEN Fails
       ELSE IF Len(body) = Declared
       THEN Goes("done") /\ UNCHANGED <<position, framing, chunk, body>>
       ELSE /\ \E n \in 1..Min({BufferSize, Declared - Len(body), Len(wire) - got}) :
                 /\ got' = got + n
                 /\ body' = body \o SubSeq(wire, got + 1, got + n)
            /\ UNCHANGED <<message, step, position, framing, chunk, trailers>>

----------------------------------------------------------------------------
(* read_http_chunk_line: the line at the position, once its end is there.  *)
Rest == SubSeq(wire, position + 1, got)
LineThere == Ends(Rest, End) # {}
LineEnd == Min(Ends(Rest, End))

ReadLine ==
    /\ step \in {"line", "trailer"} /\ ~LineThere
    /\ IF Len(Rest) >= MaxFraming THEN Fails ELSE Read(MaxFraming + 1 - Len(Rest))

(* read_http_chunked_body takes the size line of the next chunk. *)
TakeSize ==
    LET line == SubSeq(Rest, 1, LineEnd)
    IN  /\ step = "line" /\ LineThere
        /\ IF \/ framing + LineEnd + 2 > MaxFraming
              \/ Len(line) # 1 \/ line[1] \notin Digits
              \/ Size(line[1]) > MaxBody - Len(body)
           THEN Fails
           ELSE /\ Goes(IF Size(line[1]) = 0 THEN "trailer" ELSE "data")
                /\ position' = position + LineEnd + 2
                /\ framing' = framing + LineEnd + 2
                /\ chunk' = Size(line[1])
                /\ UNCHANGED body

\* Mutant: the data is taken as soon as there is as much as its size.
TakeDataEarly ==
    /\ step = "data"
    /\ IF Len(Rest) < chunk THEN Read(chunk - Len(Rest))
       ELSE /\ Goes("line")
            /\ body' = body \o SubSeq(Rest, 1, chunk)
            /\ position' = position + chunk + 2 /\ framing' = framing + 2
            /\ UNCHANGED chunk

(* ensure_http_chunk_bytes, then the data and its line end. *)
TakeData ==
    /\ step = "data"
    /\ IF Len(Rest) < chunk + 2 THEN Read(chunk + 2 - Len(Rest))
       ELSE IF SubSeq(Rest, chunk + 1, chunk + 2) # End \/ framing + 2 > MaxFraming THEN Fails
       ELSE /\ Goes("line")
            /\ body' = body \o SubSeq(Rest, 1, chunk)
            /\ position' = position + chunk + 2 /\ framing' = framing + 2
            /\ UNCHANGED chunk

(* read_http_chunk_trailers; nothing may follow the empty line that came   *)
(* with it.                                                                *)
TakeTrailer ==
    LET line == SubSeq(Rest, 1, LineEnd)
        after == position + LineEnd + 2
    IN  /\ step = "trailer" /\ LineThere
        /\ IF \/ framing + LineEnd + 2 > MaxFraming
              \/ line = <<>> /\ after # got
              \/ line # <<>> /\ (trailers = MaxTrailers \/ line[1] # "t")
           THEN Fails
           ELSE /\ step' = IF line = <<>> THEN "done" ELSE "trailer"
                /\ trailers' = IF line = <<>> THEN trailers ELSE trailers + 1
                /\ position' = after /\ framing' = framing + LineEnd + 2
                /\ UNCHANGED <<message, got, chunk, body>>

FramingNext ==
    \/ ReadHead \/ ParseHead \/ ReadLength \/ ReadLine \/ TakeSize \/ TakeData \/ TakeTrailer
    \/ NoMore

FramingSpec == FramingInit /\ [][FramingNext]_framingVars

----------------------------------------------------------------------------
(* However the bytes were cut: a request that is taken has exactly the     *)
(* body that was sent, within the limits and with the token; and a good    *)
(* request is never refused for its form                                   *)
(* (read_http_request_with_timeout_and_body_limit).                        *)
BodyIsExact ==
    /\ step = "done" =>
        /\ message.authorized /\ body = BodyOf(message) /\ Len(body) <= MaxBody
        /\ message.broken = "none"
    /\ step = "failed" => ~Good(message)
=============================================================================
