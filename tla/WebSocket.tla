------------------------------ MODULE WebSocket ------------------------------
(***************************************************************************)
(* The WebSocket client under the DevTools sessions,                       *)
(* src/src/capture/WebSocketClient.js.  What the server sends is a row of  *)
(* frames, encoded to bytes that arrive in chunks of any size.             *)
(*                                                                         *)
(* Lengths are scaled down: Inline stands for 126, the first length that   *)
(* does not fit the second byte, and Word for 65536.  A byte of a payload  *)
(* or of a masking key is one bit, and XOR is that of bits.                *)
(***************************************************************************)
EXTENDS Naturals, Sequences, SequencesExt

CONSTANTS
    Scripts,         \* rows of frames that a server may send
    Inline, Word,    \* scaled 126 and 65536
    MaxPayload,      \* maxPayload, the longest payload
    Key,             \* a masking key
    Outgoing,        \* the payloads that may be sent
    MaxSends         \* bound: how many are

VARIABLES
    sent,            \* history: the messages of the server
    incoming,        \* the bytes of its frames that have not arrived
    buffer,          \* _buffer
    fragments,       \* _fragments
    fragmentOpcode,  \* _fragmentOpcode, or None
    delivered,       \* the messages that were emitted: opcode and payload
    output,          \* the bytes written to the socket
    outgoing,        \* history: the frames handed to _write while it was open
    wsClosed,        \* closed
    socket,          \* open, ending after close(), or destroyed
    oversize         \* a frame was found too large

wsVars == <<sent, incoming, buffer, fragments, fragmentOpcode, delivered, output, outgoing,
            wsClosed, socket, oversize>>

CONTINUATION == 0   TEXT == 1   BINARY == 2   CLOSE == 8   PING == 9   PONG == 10
NoOpcode == 16
OPCODES == {CONTINUATION, TEXT, BINARY, CLOSE, PING, PONG}

DataOpcodes == {CONTINUATION, TEXT, BINARY}

Frames == [fin: BOOLEAN, opcode: OPCODES, payload: Seq({0, 1})]

\* What a server keeps to: a message goes on only from a frame that is not its last, and
\* nothing comes after a CLOSE.
Lawful(script) ==
    /\ \A k \in DOMAIN script : script[k].opcode = CLOSE => k = Len(script)
    /\ \A i, k \in DOMAIN script :
          /\ i < k /\ script[i].opcode \in DataOpcodes /\ script[k].opcode = CONTINUATION
          /\ \A j \in i + 1..k - 1 : script[j].opcode \notin DataOpcodes
          => ~script[i].fin

\* The other end, in its turn, takes what may be sent.
ASSUME WebSocketAssumption ==
    /\ Inline \in Nat \ {0} /\ Word \in Nat /\ Inline < Word
    /\ Inline <= 126 /\ Word <= 256 /\ MaxPayload \in 0..255
    /\ Key \in Seq({0, 1}) /\ Len(Key) = 4 /\ MaxSends \in Nat
    /\ \A payload \in Outgoing : payload \in Seq({0, 1}) /\ Len(payload) <= MaxPayload
    /\ \A script \in Scripts : /\ script \in Seq(Frames) /\ Lawful(script)
                               /\ \A k \in DOMAIN script : Len(script[k].payload) < 256

-----------------------------------------------------------------------------
(* Frames and bytes. *)

\* A length, below 256, in so many bytes, the most significant first.
BigEndian(length, width) == [k \in 1..width |-> IF k = width THEN length ELSE 0]
Value(bytes) ==
    LET value[k \in 0..Len(bytes)] == IF k = 0 THEN 0 ELSE value[k - 1] * 256 + bytes[k]
    IN  value[Len(bytes)]

Masked(payload, key) == [k \in DOMAIN payload |-> (payload[k] + key[((k - 1) % 4) + 1]) % 2]

\* The slip of a length at the boundary in the short form.
EncodeFrameShort(frame, mask) ==
    LET length == Len(frame.payload)
        form == IF length <= Inline THEN <<length, 0>>
                ELSE IF length < Word THEN <<Inline, 2>> ELSE <<Inline + 1, 8>>
        first == (IF frame.fin THEN 128 ELSE 0) + frame.opcode
    IN  <<first, form[1] + (IF mask THEN 128 ELSE 0)>> \o BigEndian(length, form[2])
        \o (IF mask THEN Key \o Masked(frame.payload, Key) ELSE frame.payload)

\* encodeFrame, which always sets the bit for the last fragment: servers need not.
EncodeFrame(frame, mask) ==
    LET length == Len(frame.payload)
        form == IF length < Inline THEN <<length, 0>>
                ELSE IF length < Word THEN <<Inline, 2>> ELSE <<Inline + 1, 8>>
        first == (IF frame.fin THEN 128 ELSE 0) + frame.opcode
    IN  <<first, form[1] + (IF mask THEN 128 ELSE 0)>> \o BigEndian(length, form[2])
        \o (IF mask THEN Key \o Masked(frame.payload, Key) ELSE frame.payload)

\* The frame at the head of a buffer: whether its header and its payload are there, how many
\* bytes it takes, and the frame itself.
FirstFrame(bytes) ==
    LET marker == bytes[2] % 128
        masked == bytes[2] >= 128
        extended == IF marker = Inline THEN 2 ELSE IF marker = Inline + 1 THEN 8 ELSE 0
        known == Len(bytes) >= 2 /\ Len(bytes) >= 2 + extended
        length == IF extended = 0 THEN marker ELSE Value(SubSeq(bytes, 3, 2 + extended))
        start == 2 + extended + (IF masked THEN 4 ELSE 0)
        body == SubSeq(bytes, start + 1, start + length)
    IN  IF ~known THEN [state |-> "partial"]
        ELSE IF length > MaxPayload THEN [state |-> "oversize"]
        ELSE IF Len(bytes) < start + length THEN [state |-> "partial"]
        ELSE [state |-> "whole", size |-> start + length,
              frame |-> [fin |-> bytes[1] >= 128, opcode |-> bytes[1] % 16,
                         payload |-> IF masked
                                     THEN Masked(body, SubSeq(bytes, start - 3, start))
                                     ELSE body]]

\* decodeFrames: the whole frames at the head of a buffer and the bytes that are left; when one
\* is too large it throws, and what it had decoded is gone with it.
DecodeFrames(bytes) ==
    LET from[start \in 1..Len(bytes) + 1] ==
            LET rest == SubSeq(bytes, start, Len(bytes))
                first == FirstFrame(rest)
            IN  IF first.state = "whole"
                THEN [from[start + first.size] EXCEPT !.frames = <<first.frame>> \o @]
                ELSE [state |-> first.state, frames |-> <<>>, rest |-> rest]
    IN  from[1]

Delivery == [opcode: OPCODES, payload: Seq({0, 1})]

\* The message that ends with frame k, if one does: it is made of the frames of data from the
\* last one that is not a continuation.
MessageAt(script, k) ==
    LET starts == {j \in 1..k : script[j].opcode \in {TEXT, BINARY}}
        part(j) == IF j >= Max(starts) /\ script[j].opcode \in DataOpcodes
                   THEN script[j].payload ELSE <<>>
    IN  IF script[k].opcode \in DataOpcodes /\ script[k].fin /\ starts # {}
        THEN <<[opcode |-> script[Max(starts)].opcode, payload |-> FlattenSeq([j \in 1..k |-> part(j)])]>>
        ELSE <<>>

Messages(script) == FlattenSeq([k \in DOMAIN script |-> MessageAt(script, k)])

-----------------------------------------------------------------------------
(* The client. *)

WsInit ==
    /\ \E script \in Scripts :
          /\ sent = Messages(script)
          /\ incoming = FlattenSeq([k \in DOMAIN script |-> EncodeFrame(script[k], FALSE)])
    /\ buffer = <<>> /\ fragments = <<>> /\ fragmentOpcode = NoOpcode
    /\ delivered = <<>> /\ output = <<>> /\ outgoing = <<>>
    /\ wsClosed = FALSE /\ socket = "open" /\ oversize = FALSE

\* What one frame does to the client; nothing more is looked at after a CLOSE.
Client == [fragments |-> fragments, fragmentOpcode |-> fragmentOpcode, delivered |-> delivered,
           pongs |-> <<>>, closed |-> FALSE]

\* _deliver.
Delivered(acc, opcode, payload) ==
    [acc EXCEPT !.delivered = Append(@, [opcode |-> opcode, payload |-> payload])]

\* The slip of a fragment that is delivered as it comes.
HandleDataFrameAtOnce(acc, frame) ==
    Delivered(acc, IF frame.opcode = CONTINUATION THEN acc.fragmentOpcode ELSE frame.opcode,
              frame.payload)

\* _handleDataFrame: a new message takes the place of one that was not finished, and a
\* continuation of nothing is dropped.
HandleDataFrame(acc, frame) ==
    LET parts == Append(acc.fragments, frame.payload)
        started == [acc EXCEPT !.fragmentOpcode = frame.opcode, !.fragments = <<frame.payload>>]
        whole == [acc EXCEPT !.fragmentOpcode = NoOpcode, !.fragments = <<>>]
    IN  IF frame.opcode = CONTINUATION
        THEN IF acc.fragmentOpcode = NoOpcode THEN acc
             ELSE IF frame.fin THEN Delivered(whole, acc.fragmentOpcode, FlattenSeq(parts))
             ELSE [acc EXCEPT !.fragments = parts]
        ELSE IF frame.fin THEN Delivered(acc, frame.opcode, frame.payload) ELSE started

\* What the loop of _onData does with one of the decoded frames.
HandleFrame(acc, frame) ==
    IF acc.closed \/ frame.opcode = PONG THEN acc
    ELSE IF frame.opcode = PING
    THEN [acc EXCEPT !.pongs =
             Append(@, [fin |-> TRUE, opcode |-> PONG, payload |-> frame.payload])]
    ELSE IF frame.opcode = CLOSE THEN [acc EXCEPT !.closed = TRUE]
    ELSE HandleDataFrame(acc, frame)

\* The loop of _onData over the decoded frames.
HandleFrames(frames) ==
    LET after[k \in 0..Len(frames)] == IF k = 0 THEN Client ELSE HandleFrame(after[k - 1], frames[k])
    IN  after[Len(frames)]

\* _write: frames that are handed over while the socket takes them, masked.
Write(frames) ==
    IF wsClosed \/ socket = "destroyed" THEN UNCHANGED <<output, outgoing>>
    ELSE /\ output' = output \o FlattenSeq([k \in DOMAIN frames |-> EncodeFrame(frames[k], TRUE)])
         /\ outgoing' = outgoing \o frames

CloseFrame == [fin |-> TRUE, opcode |-> CLOSE, payload |-> <<>>]

\* close: the close frame is written, the rest of the socket's life is short.
CloseClient ==
    IF wsClosed THEN UNCHANGED <<output, outgoing, wsClosed, socket>>
    ELSE /\ Write(<<CloseFrame>>) /\ wsClosed' = TRUE
         /\ socket' = IF socket = "open" THEN "ending" ELSE socket

\* _onData, for the next so many bytes; chunks that come after close() are handled too.
OnData(n) ==
    /\ socket # "destroyed" /\ n <= Len(incoming)
    /\ incoming' = SubSeq(incoming, n + 1, Len(incoming))
    /\ \E decoded \in {DecodeFrames(buffer \o SubSeq(incoming, 1, n))} :
          \/ /\ decoded.state = "oversize"
             /\ buffer' = buffer \o SubSeq(incoming, 1, n) /\ oversize' = TRUE
             /\ CloseClient
             /\ UNCHANGED <<fragments, fragmentOpcode, delivered>>
          \/ /\ decoded.state # "oversize"
             /\ \E done \in {HandleFrames(decoded.frames)} :
                   /\ buffer' = decoded.rest
                   /\ fragments' = done.fragments /\ fragmentOpcode' = done.fragmentOpcode
                   /\ delivered' = done.delivered
                   /\ Write(done.pongs)
                   /\ wsClosed' = (wsClosed \/ done.closed)
                   /\ UNCHANGED <<socket, oversize>>
    /\ UNCHANGED sent

\* close called from outside.
LocalClose ==
    /\ ~wsClosed
    /\ CloseClient
    /\ UNCHANGED <<sent, incoming, buffer, fragments, fragmentOpcode, delivered, oversize>>

\* The socket's close event, and the timer that destroys a socket that is ending.
SocketCloses ==
    /\ socket # "destroyed"
    /\ socket' = "destroyed" /\ wsClosed' = TRUE
    /\ UNCHANGED <<sent, incoming, buffer, fragments, fragmentOpcode, delivered, output,
                   outgoing, oversize>>

\* send.
SendData(payload) ==
    /\ Len(outgoing) < MaxSends
    /\ Write(<<[fin |-> TRUE, opcode |-> BINARY, payload |-> payload]>>)
    /\ UNCHANGED <<sent, incoming, buffer, fragments, fragmentOpcode, delivered, wsClosed,
                   socket, oversize>>

Arrives == \E n \in 1..Len(incoming) : OnData(n)

WsNext == Arrives \/ LocalClose \/ SocketCloses \/ \E p \in Outgoing : SendData(p)

-----------------------------------------------------------------------------
WsTypeOK ==
    /\ sent \in Seq(Delivery) /\ incoming \in Seq(0..255)
    /\ buffer \in Seq(0..255) /\ fragments \in Seq(Seq({0, 1}))
    /\ fragmentOpcode \in OPCODES \union {NoOpcode}
    /\ delivered \in Seq(Delivery)
    /\ outgoing \in Seq(Frames) /\ wsClosed \in BOOLEAN
    /\ socket \in {"open", "ending", "destroyed"} /\ oversize \in BOOLEAN

Incoming == INSTANCE Channel WITH
    over <- (oversize \/ socket = "destroyed")

\* Whatever the chunks and wherever control frames come between, the messages of the server
\* are delivered whole, in order and once, and all of them unless a frame is too large or the
\* socket goes.
MessagesInOrder == Incoming!Spec

\* What was written decodes, at the other end, to the frames that were sent; and the state of
\* the client is of its types.
WritesDecode ==
    LET decoded == DecodeFrames(output)
    IN  WsTypeOK /\ decoded.state = "partial" /\ decoded.frames = outgoing /\ decoded.rest = <<>>
=============================================================================
