----------------------------- MODULE LineReader -----------------------------
(***************************************************************************)
(* How the bytes of a connection become requests (server.rs:126-168, 211-  *)
(* 222, 341-385, framing.rs:45-65): one byte is read to tell the transport *)
(* and put back in front of the socket, and the rest comes in chunks whose *)
(* borders mean nothing.                                                   *)
(*                                                                         *)
(* ShellSession takes the requests from here, one at a time: what it does  *)
(* with them does not touch the state of this module.                      *)
(***************************************************************************)
EXTENDS Naturals, Sequences, SequencesExt

CONSTANTS
    Base,           \* the number of bytes there are (256)
    Newline,
    Brace,          \* NDJSON_LEAD
    HeaderBytes,    \* the width of a frame's length (4)
    Cap,            \* MAX_FRAME_BYTES
    BufSize,        \* the capacity of the BufReader
    MaxBytes        \* bound: bytes the client writes

\* framing.rs: a length that starts with Brace is above the cap.
ASSUME ReaderAssumption ==
    /\ Base \in Nat
    /\ {Newline, Brace} \subseteq 1 .. Base - 1 /\ Newline # Brace
    /\ HeaderBytes \in Nat \ {0} /\ BufSize \in Nat \ {0}
    /\ Cap \in Nat /\ Cap < Base ^ (HeaderBytes - 1)
    /\ MaxBytes \in Nat

Byte == 0 .. Base - 1
LENGTH_PREFIXED_LEAD == 0

VARIABLES
    sent,       \* history: what the client has written
    peer,       \* the client: "open", "eof" (writes no more) or "broken"
    socket,     \* bytes written and not read
    stage,      \* "lead", "frame" or "lines" by transport, or "done"
    lead,       \* the byte put back in front of the socket, until it is read
    buffer,     \* what the BufReader holds
    line,       \* the line, or the frame, as far as it was read
    lines,      \* the lines returned to ndjson_session
    frame       \* the frame read_frame decodes, a sequence of length 1 or 0

vars == <<sent, peer, socket, stage, lead, buffer, line, lines, frame>>

TypeOK ==
    /\ sent \in Seq(Byte) /\ Len(sent) <= MaxBytes
    /\ peer \in {"open", "eof", "broken"}
    /\ {socket, lead, buffer, line} \subseteq Seq(Byte)
    /\ stage \in {"lead", "frame", "lines", "done"}
    /\ Len(lead) <= 1
    /\ Len(buffer) <= BufSize
    /\ lines \in Seq(Seq(Byte)) /\ frame \in Seq(Seq(Byte))

Init ==
    /\ sent = << >> /\ peer = "open" /\ socket = << >>
    /\ stage = "lead" /\ lead = << >> /\ buffer = << >> /\ line = << >>
    /\ lines = << >> /\ frame = << >>

-----------------------------------------------------------------------------
(* The client *)

Write(byte) ==
    /\ peer = "open"
    /\ Len(sent) < MaxBytes
    /\ sent' = Append(sent, byte)
    /\ socket' = Append(socket, byte)
    /\ UNCHANGED <<peer, stage, lead, buffer, line, lines, frame>>

\* The client shuts its writing side, or goes away with answers unread.
HangUp(how) ==
    /\ peer = "open"
    /\ peer' = how
    /\ UNCHANGED <<sent, socket, stage, lead, buffer, line, lines, frame>>

-----------------------------------------------------------------------------
(* Reading *)

\* The bytes there are for a read: those put back come first, alone.
Available == IF lead # << >> THEN lead ELSE socket

\* A read takes n of them.
Take(n) ==
    /\ n \in 1 .. Len(Available)
    /\ IF lead # << >> THEN lead' = << >> /\ UNCHANGED socket
       ELSE socket' = SubSeq(socket, n + 1, Len(socket)) /\ UNCHANGED lead

\* A read finds the stream ended, by a close or by an error.
Ended == Available = << >> /\ peer # "open"

\* handle_connection: the first byte selects the transport.
Lead ==
    /\ stage = "lead"
    /\ socket # << >>
    /\ lead' = <<Head(socket)>>
    /\ socket' = Tail(socket)
    /\ stage' = CASE Head(socket) = LENGTH_PREFIXED_LEAD -> "frame"
                  [] Head(socket) = Brace                -> "lines"
                  [] OTHER                               -> "done"
    /\ UNCHANGED <<sent, peer, buffer, line, lines, frame>>

\* fill_buf of an empty buffer.
FillBuf ==
    /\ stage = "lines"
    /\ buffer = << >>
    /\ \E n \in 1 .. BufSize :
           /\ Take(n)
           /\ buffer' = SubSeq(Available, 1, n)
    /\ UNCHANGED <<sent, peer, stage, line, lines, frame>>

\* Mutant: the line that was returned is not cleared.
LineIsKept ==
    /\ stage = "lines"
    /\ Newline \in Range(buffer)
    /\ LET i == SelectInSeq(buffer, LAMBDA byte : byte = Newline) IN
       /\ line' = line \o SubSeq(buffer, 1, i - 1)
       /\ lines' = Append(lines, line')
       /\ buffer' = SubSeq(buffer, i + 1, Len(buffer))
    /\ UNCHANGED <<sent, peer, socket, stage, lead, frame>>

\* read_line_capped: the chunk ends the line, which is returned; the caller
\* clears it and reads the next.
EndLine ==
    /\ stage = "lines"
    /\ Newline \in Range(buffer)
    /\ LET i == SelectInSeq(buffer, LAMBDA byte : byte = Newline) IN
       /\ lines' = Append(lines, line \o SubSeq(buffer, 1, i - 1))
       /\ buffer' = SubSeq(buffer, i + 1, Len(buffer))
    /\ line' = << >>
    /\ UNCHANGED <<sent, peer, socket, stage, lead, frame>>

\* Mutant: the length is not checked.
GrowUnchecked ==
    /\ stage = "lines"
    /\ buffer # << >> /\ Newline \notin Range(buffer)
    /\ line' = line \o buffer
    /\ buffer' = << >>
    /\ UNCHANGED <<sent, peer, socket, stage, lead, lines, frame>>

\* read_line_capped: the chunk has no newline.  A line that has become too
\* long is an error, and ends the connection.
GrowLine ==
    /\ stage = "lines"
    /\ buffer # << >> /\ Newline \notin Range(buffer)
    /\ line' = line \o buffer
    /\ buffer' = << >>
    /\ stage' = IF Len(line') > Cap THEN "done" ELSE stage
    /\ UNCHANGED <<sent, peer, socket, lead, lines, frame>>

\* read_line_capped at the end of the stream: what was read so far is a line
\* if the client closed, and is dropped after an error.
EndOfLines ==
    /\ stage = "lines"
    /\ buffer = << >> /\ Ended
    /\ IF line # << >> /\ peer = "eof"
       THEN lines' = Append(lines, line) /\ line' = << >> /\ UNCHANGED stage
       ELSE stage' = "done" /\ UNCHANGED <<line, lines>>
    /\ UNCHANGED <<sent, peer, socket, lead, buffer, frame>>

\* read_u32: the length of a frame whose header was read, big-endian.
Announced(bytes) ==
    LET value[i \in 0 .. HeaderBytes] ==
            IF i = 0 THEN 0 ELSE Base * value[i - 1] + bytes[i]
    IN value[HeaderBytes]

\* What read_frame still waits for: the header, then the frame.
Wanted ==
    IF Len(line) < HeaderBytes THEN HeaderBytes - Len(line)
                               ELSE HeaderBytes + Announced(line) - Len(line)

\* Mutant: the cap is one byte short.
ReadFrameShort ==
    /\ stage = "frame"
    /\ \E n \in 1 .. Wanted :
           /\ Take(n)
           /\ line' = line \o SubSeq(Available, 1, n)
    /\ stage' = IF Len(line') >= HeaderBytes /\ Announced(line') >= Cap
                THEN "done" ELSE stage
    /\ UNCHANGED <<sent, peer, buffer, lines, frame>>

\* read_frame reads on.  A length above the cap is an error before anything
\* is allocated for it.
ReadFrame ==
    /\ stage = "frame"
    /\ \E n \in 1 .. Wanted :
           /\ Take(n)
           /\ line' = line \o SubSeq(Available, 1, n)
    /\ stage' = IF Len(line') >= HeaderBytes /\ Announced(line') > Cap
                THEN "done" ELSE stage
    /\ UNCHANGED <<sent, peer, buffer, lines, frame>>

\* Mutant: what has arrived of the frame is taken for all of it.
EndFrameEarly ==
    /\ stage = "frame"
    /\ Len(line) >= HeaderBytes
    /\ frame' = <<SubSeq(line, HeaderBytes + 1, Len(line))>>
    /\ stage' = "done"
    /\ UNCHANGED <<sent, peer, socket, lead, buffer, line, lines>>

\* The frame is complete; the connection reads no further.
EndFrame ==
    /\ stage = "frame"
    /\ Wanted = 0
    /\ frame' = <<SubSeq(line, HeaderBytes + 1, Len(line))>>
    /\ stage' = "done"
    /\ UNCHANGED <<sent, peer, socket, lead, buffer, line, lines>>

\* The stream ends before the first byte, which is a probe, or in a frame.
EndEarly ==
    /\ \/ stage = "lead"
       \/ stage = "frame" /\ Wanted > 0
    /\ Ended
    /\ stage' = "done"
    /\ UNCHANGED <<sent, peer, socket, lead, buffer, line, lines, frame>>

Reader ==
    \/ Lead \/ FillBuf \/ EndLine \/ GrowLine \/ EndOfLines
    \/ ReadFrame \/ EndFrame \/ EndEarly

Next ==
    \/ \E byte \in Byte : Write(byte)
    \/ \E how \in {"eof", "broken"} : HangUp(how)
    \/ Reader

Spec == Init /\ [][Next]_vars

\* Tokio runs the task whenever there is something to read.
FairSpec == Spec /\ WF_vars(Reader)

-----------------------------------------------------------------------------
(* Properties *)

\* The bytes that were not handed on yet, in the order they were written in.
Pending == line \o buffer \o lead \o socket

\* server.rs:211-222, 341-385: the lines the session gets are those of the
\* stream, however it was cut into chunks, and each of them arrives.
Stream == INSTANCE LineStream
    WITH sent <- Len(sent),
         pending <- Pending,
         stopped <- stage \notin {"lead", "lines"},
         Slack <- BufSize - 1

ImplementsLineStream == Stream!Spec

\* server.rs:341-350, framing.rs:50-58: whatever the client writes, a line
\* takes no more memory than the cap and one chunk, and a frame no more than
\* the cap.
MemoryBounded ==
    /\ sent # << >> /\ Head(sent) = Brace => Len(line) <= Cap + BufSize
    /\ stage = "frame" /\ Len(line) >= HeaderBytes => Announced(line) <= Cap

\* A client that speaks v1 has written all of its request.
FrameSent ==
    /\ Len(sent) >= HeaderBytes
    /\ Announced(sent) <= Cap
    /\ Len(sent) >= HeaderBytes + Announced(sent)

\* The frame that was read is the one the client wrote.
FrameRead ==
    /\ FrameSent
    /\ frame = <<SubSeq(sent, HeaderBytes + 1, HeaderBytes + Announced(sent))>>

\* framing.rs:45-65: what is taken for a request is what the client framed, byte
\* for byte, however it was cut into reads and whatever came behind it.
FrameIsSound == frame # << >> => FrameRead

\* server.rs:22-28, framing.rs:41-65: the first byte of a legal frame is never
\* taken for another transport, and a frame that was written arrives.
FrameArrives == FrameSent ~> FrameRead
=============================================================================
