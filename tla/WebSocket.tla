----------------------------- MODULE WebSocket ------------------------------
(***************************************************************************)
(* WebSocket (networking/WebSocket.cpp): frames over a stream socket, one  *)
(* thread using it.  A payload is its length and whether it is masked;     *)
(* what is followed is how many bytes of which frame each read takes, and  *)
(* at which place of the 4 byte key it unmasks them.  The other end is any *)
(* program that frames correctly.                                          *)
(***************************************************************************)
EXTENDS Integers, Sequences, SequencesExt

CONSTANTS WriteSizes,   \* sizes given to write
          FrameOps,     \* opcodes of the other end's frames
          FrameSizes,   \* payload sizes of the other end's frames
          ReadSizes,    \* readlens given to readTo
          MaxFrames,    \* bound: the most frames received
          MaxWrites     \* bound: the most calls of write

(* Sizes and opcodes are numbers.                                           *)
ASSUME WebSocketAssumption ==
    FrameSizes \subseteq Nat /\ ReadSizes \subseteq Nat /\ FrameOps \subseteq Nat

VARIABLES wire,             \* external: frames received, the one being read first
          wire_read,        \* external: how much of that one's payload was read
          need_header_read, header_opcode, payload_len, payload_remaining, payload_i,
          amount_still_to_read,     \* 0 outside a call of readTo
          open,             \* FALSE once readTo has thrown
          buffer_out,       \* how many bytes are written and not flushed
          sent,             \* frames written to the underlying socket
          asked, got,       \* history: bytes readTo was asked for, and gave
          frames, writes    \* history: how many frames were received, writes made

readVars  == <<wire, wire_read, need_header_read, header_opcode, payload_len,
               payload_remaining, payload_i, amount_still_to_read, open, got>>
wsVars    == <<readVars, buffer_out, sent, asked, frames, writes>>

(* Opcodes; smaller ones than Binary are of data frames too.                *)
Binary     == 2
CloseFrame == 8
Ping       == 9
Pong       == 10

Garbled == -1

InitSocket ==
    /\ wire = <<>> /\ wire_read = 0
    /\ need_header_read = TRUE /\ header_opcode = 0
    /\ payload_len = 0 /\ payload_remaining = 0 /\ payload_i = 0
    /\ amount_still_to_read = 0 /\ open = TRUE
    /\ buffer_out = 0 /\ sent = <<>>
    /\ asked = 0 /\ got = 0 /\ frames = 0 /\ writes = 0

-----------------------------------------------------------------------------
(* The length in a frame's header: 7 bits, and 16 or 64 more if they are    *)
(* 126 or 127.  The one the other end writes, the one writeDataInFrame      *)
(* writes, and how either is read.                                          *)
ProperLength(n) ==
    [len7 |-> IF n <= 125 THEN n ELSE IF n < 65536 THEN 126 ELSE 127, ext |-> n]
WrittenLength(n) ==
    IF n <= 125 THEN [len7 |-> n, ext |-> 0]
    ELSE IF n <= 65536 THEN [len7 |-> 126, ext |-> n % 65536]
    ELSE [len7 |-> 127, ext |-> n]
LengthOf(f) == IF f.length.len7 <= 125 THEN f.length.len7 ELSE f.length.ext

(* The frame writeDataInFrame writes.                                       *)
Frame(op, n, masked) ==
    [op |-> op, n |-> n, length |-> WrittenLength(n), masked |-> masked]

(* The other end sends a frame.                                             *)
Receive(op, n, masked) ==
    /\ frames < MaxFrames
    /\ frames' = frames + 1
    /\ wire' = Append(wire, [op |-> op, n |-> n, length |-> ProperLength(n), masked |-> masked])
    /\ UNCHANGED <<wire_read, need_header_read, header_opcode, payload_len, payload_remaining,
                   payload_i, amount_still_to_read, open, got, buffer_out, sent, asked, writes>>

-----------------------------------------------------------------------------
(* readTo is called; the steps below are its loop.  Outside a call nothing  *)
(* reads.                                                                   *)
ReadTo(readlen) ==
    /\ open /\ amount_still_to_read = 0
    /\ amount_still_to_read' = readlen
    /\ asked' = asked + readlen
    /\ UNCHANGED <<wire, wire_read, need_header_read, header_opcode, payload_len,
                   payload_remaining, payload_i, open, got, buffer_out, sent, frames, writes>>

Reading == open /\ amount_still_to_read > 0 /\ wire # <<>>

ReadHeader ==
    /\ Reading /\ need_header_read
    /\ header_opcode' = Head(wire).op
    /\ payload_len' = LengthOf(Head(wire))
    /\ payload_remaining' = payload_len'
    /\ payload_i' = 0
    /\ need_header_read' = FALSE
    /\ UNCHANGED <<wire, wire_read, amount_still_to_read, open, got, buffer_out, sent,
                   asked, frames, writes>>

(* n bytes are taken from the first frame on the wire; got goes wrong when  *)
(* they are not in it, or the key is not at their place.                    *)
Take(n) ==
    LET f == Head(wire) IN
    /\ wire' = IF wire_read + n < f.n THEN wire ELSE Tail(wire)
    /\ wire_read' = IF wire_read + n < f.n THEN wire_read + n ELSE 0
InPlace(n) ==
    LET f == Head(wire) IN
    /\ wire_read + n <= f.n
    /\ n > 0 /\ f.masked => payload_i % 4 = wire_read % 4

(* Mutant of ReadPayload: what is left of a frame is forgotten once the     *)
(* caller has enough.                                                       *)
ReadPayloadDropsRest ==
    LET n == Min({payload_remaining, amount_still_to_read}) IN
    /\ Reading /\ ~need_header_read /\ header_opcode <= Binary
    /\ Take(n)
    /\ got' = IF InPlace(n) /\ got # Garbled THEN got + n ELSE Garbled
    /\ payload_i' = payload_i + n
    /\ payload_remaining' = payload_remaining - n
    /\ amount_still_to_read' = amount_still_to_read - n
    /\ need_header_read' = (payload_remaining' = 0 \/ amount_still_to_read' = 0)
    /\ UNCHANGED <<header_opcode, payload_len, open, buffer_out, sent, asked, frames, writes>>

(* A data frame: what the caller still wants, or what is left of it.        *)
ReadPayload ==
    LET n == Min({payload_remaining, amount_still_to_read}) IN
    /\ Reading /\ ~need_header_read /\ header_opcode <= Binary
    /\ Take(n)
    /\ got' = IF InPlace(n) /\ got # Garbled THEN got + n ELSE Garbled
    /\ payload_i' = payload_i + n
    /\ payload_remaining' = payload_remaining - n
    /\ amount_still_to_read' = amount_still_to_read - n
    /\ need_header_read' = (payload_remaining' = 0)
    /\ UNCHANGED <<header_opcode, payload_len, open, buffer_out, sent, asked, frames, writes>>

(* A ping of at most 2048 bytes is answered with the payload as it was      *)
(* read, that is, as it was masked, and the reading goes on.                *)
AnswerPing ==
    /\ Reading /\ ~need_header_read /\ header_opcode = Ping /\ payload_len <= 2048
    /\ Take(payload_len)
    /\ sent' = Append(sent, Frame(Pong, payload_len, Head(wire).masked))
    /\ need_header_read' = TRUE
    /\ UNCHANGED <<header_opcode, payload_len, payload_remaining, payload_i,
                   amount_still_to_read, open, got, buffer_out, asked, frames, writes>>

(* A close frame is answered, and ends the reading by an exception; so does *)
(* a ping that is too long, and a frame of any other kind, a pong too.      *)
Throw ==
    /\ Reading /\ ~need_header_read /\ header_opcode > Binary
    /\ header_opcode = Ping => payload_len > 2048
    /\ open' = FALSE
    /\ sent' = IF header_opcode = CloseFrame
               THEN Append(sent, Frame(CloseFrame, 0, FALSE)) ELSE sent
    /\ UNCHANGED <<wire, wire_read, need_header_read, header_opcode, payload_len,
                   payload_remaining, payload_i, amount_still_to_read, got, buffer_out,
                   asked, frames, writes>>

-----------------------------------------------------------------------------
Write(n) ==
    /\ open /\ writes < MaxWrites
    /\ writes' = writes + 1
    /\ buffer_out' = buffer_out + n
    /\ UNCHANGED <<readVars, sent, asked, frames>>

Flush ==
    /\ open /\ buffer_out > 0
    /\ sent' = Append(sent, Frame(Binary, buffer_out, FALSE))
    /\ buffer_out' = 0
    /\ UNCHANGED <<readVars, asked, frames, writes>>

NextSocket ==
    \/ \E op \in FrameOps, n \in FrameSizes, masked \in BOOLEAN : Receive(op, n, masked)
    \/ \E n \in ReadSizes : ReadTo(n)
    \/ ReadHeader \/ ReadPayload \/ AnswerPing \/ Throw
    \/ \E n \in WriteSizes : Write(n)
    \/ Flush

SpecSocket == InitSocket /\ [][NextSocket]_wsVars

-----------------------------------------------------------------------------
(* "we aren't interested in the chunking of the underlying stream into      *)
(* messages": however calls of readTo cut frames, and pings lie between     *)
(* them, a call gives the bytes that follow those given before, unmasked at *)
(* the place of the key they were masked at, and no byte of a header.       *)
StreamIsWhatWasWritten == got = asked - amount_still_to_read

(* "the following 2 bytes interpreted as a 16-bit unsigned integer are the  *)
(* payload length": what the other end reads in a frame's header is the     *)
(* length of its payload.                                                   *)
FramesAnnounceTheirLength == \A i \in DOMAIN sent : LengthOf(sent[i]) = sent[i].n

(* "A Pong frame sent in response to a Ping frame must have identical       *)
(* "Application data" as found in the message body of the Ping frame":      *)
(* frames are sent unmasked, so the payload must not be masked.             *)
PongEchoesPing ==
    \A i \in DOMAIN sent : sent[i].op = Pong /\ sent[i].n > 0 => ~sent[i].masked
=============================================================================
