---------------------------- MODULE ShellSession ----------------------------
(***************************************************************************)
(* One connection to the daemon's socket (server.rs:126-333): the task     *)
(* that reads and dispatches requests, the task that owns the write half,  *)
(* and, once subscribed, the task that forwards registry changes.  All     *)
(* that is written goes through one unbounded queue.                       *)
(*                                                                         *)
(* Requests are numbered; what they contain is their kind.  The registry   *)
(* is a version that other clients advance: how its changes reach the      *)
(* forwarder is the subject of PinRegistry.                                *)
(***************************************************************************)
EXTENDS Naturals, Sequences

CONSTANTS
    MaxRequests,    \* bound: requests the client sends
    MaxVersion,     \* bound: changes of the registry
    SocketSpace     \* lines the kernel buffers for a client that does not read

ASSUME SessionAssumption ==
    /\ MaxRequests \in Nat
    /\ MaxVersion \in Nat
    /\ SocketSpace \in Nat \ {0}

Version == 0 .. MaxVersion
Number == 1 .. MaxRequests

\* What a client that speaks v1 may send: a request that is answered at once, a
\* capture, which waits for the user, a frame that cannot be decoded, and the
\* beginning of one that never comes to its end.
V1 == {"frame", "frame_capture", "frame_bad", "frame_cut"}

\* What a client may send: a v1 frame, or a line.  "list" stands for every
\* request that is answered at once.
Kind == V1 \cup {"subscribe", "list", "capture", "malformed", "blank",
                 "oversized"}
Request == [kind: Kind, n: Number]

\* What the daemon writes.
Line ==
    [kind: {"hello"}]
    \cup [kind: {"reply"}, n: Number]
    \cup [kind: {"event"}, version: Version]

Hello == [kind |-> "hello"]
Reply(request) == [kind |-> "reply", n |-> request.n]

VARIABLES
    version,    \* the registry: how often it changed
    sent,       \* the client: requests sent
    peer,       \* the client: "open", "eof" (writes no more) or "gone"
    got,        \* the client: lines read
    input,      \* requests on their way to the daemon
    wire,       \* lines on their way to the client
    session,    \* where the request loop is
    request,    \* the request it is at, a sequence of length 1 or 0
    out,        \* out_rx: lines queued for the writer
    writer,     \* "run", or "ended" after an error or a closed queue
    forwarder,  \* the forwarder task: "none", "spawned", "open", "recv" or
                \* "stopped"
    bus,        \* the snapshots its receiver holds, which may be out of order
    due         \* history: the requests the loop has to answer, in order

clientVars == <<sent, peer, got>>
vars == <<version, sent, peer, got, input, wire, session, request, out,
          writer, forwarder, bus, due>>

TypeOK ==
    /\ version \in Version /\ bus \subseteq Version
    /\ sent \in 0 .. MaxRequests
    /\ peer \in {"open", "eof", "gone"}
    /\ got \in Seq(Line) /\ wire \in Seq(Line) /\ out \in Seq(Line)
    /\ Len(wire) <= SocketSpace
    /\ input \in Seq(Request) /\ request \in Seq(Request)
    /\ Len(request) <= 1
    /\ session \in {"lead", "frame", "answer", "read", "dispatch", "confirm",
                    "leave", "join", "done"}
    /\ writer \in {"off", "run", "ended"}
    /\ forwarder \in {"none", "spawned", "open", "recv", "stopped"}
    /\ due \in Seq(Number)

Init ==
    /\ version = 0 /\ bus = {}
    /\ sent = 0 /\ peer = "open" /\ got = << >>
    /\ input = << >> /\ wire = << >>
    /\ session = "lead" /\ request = << >>
    /\ out = << >> /\ writer = "off" /\ forwarder = "none"
    /\ due = << >>

-----------------------------------------------------------------------------
(* The client and the other clients *)

\* A client that speaks v1 starts with a frame.  Nothing follows a frame that
\* never comes to its end.
Send(kind) ==
    /\ peer = "open"
    /\ sent < MaxRequests
    /\ kind \in V1 => sent = 0
    /\ \A i \in DOMAIN input : input[i].kind # "frame_cut"
    /\ sent' = sent + 1
    /\ input' = Append(input, [kind |-> kind, n |-> sent + 1])
    /\ UNCHANGED <<version, peer, got, wire, session, request, out, writer,
                   forwarder, bus, due>>

\* The client reads a line.
Read ==
    /\ peer # "gone"
    /\ wire # << >>
    /\ got' = Append(got, Head(wire))
    /\ wire' = Tail(wire)
    /\ UNCHANGED <<version, sent, peer, input, session, request, out, writer,
                   forwarder, bus, due>>

\* The client shuts its writing side, or closes the socket.
HangUp(how) ==
    /\ \/ peer = "open" /\ how = "eof"
       \/ peer # "gone" /\ how = "gone"
    /\ peer' = how
    /\ UNCHANGED <<version, sent, got, input, wire, session, request, out,
                   writer, forwarder, bus, due>>

\* Somebody else changes the pins; a receiver, if there is one, gets a snapshot.
Change ==
    /\ version < MaxVersion
    /\ version' = version + 1
    /\ bus' = IF forwarder \in {"open", "recv"} THEN bus \cup {version'} ELSE bus
    /\ UNCHANGED <<clientVars, input, wire, session, request, out, writer,
                   forwarder, due>>

-----------------------------------------------------------------------------
(* Writing *)

\* send_json: a line for a writer that has ended is dropped.
Push(line) == out' = IF writer = "ended" THEN out ELSE Append(out, line)

\* Mutant: the writer stops as soon as the session lets go of the queue.
WriterLeavesEarly ==
    /\ writer = "run"
    /\ session = "join"
    /\ writer' = "ended"
    /\ UNCHANGED <<version, clientVars, input, wire, session, request, out,
                   forwarder, bus, due>>

\* write_lines: the queue is empty and every sender of it is gone.
WriterEnds ==
    /\ writer = "run"
    /\ out = << >> /\ session = "join" /\ forwarder \in {"none", "stopped"}
    /\ writer' = "ended"
    /\ UNCHANGED <<version, clientVars, input, wire, session, request, out,
                   forwarder, bus, due>>

\* Mutant: the writer does not wait for a slow reader.
WriteAtOnce ==
    /\ writer = "run"
    /\ out # << >>
    /\ wire' = Append(wire, Head(out))
    /\ out' = Tail(out)
    /\ UNCHANGED <<version, clientVars, input, session, request, writer,
                   forwarder, bus, due>>

\* write_lines: the next line fits into the socket, or the peer is gone.
Write ==
    /\ writer = "run"
    /\ out # << >>
    /\ \/ /\ peer # "gone" /\ Len(wire) < SocketSpace
          /\ wire' = Append(wire, Head(out))
          /\ out' = Tail(out)
          /\ UNCHANGED writer
       \/ /\ peer = "gone"
          /\ writer' = "ended"
          /\ out' = << >>
          /\ UNCHANGED wire
    /\ UNCHANGED <<version, clientVars, input, session, request, forwarder,
                   bus, due>>

-----------------------------------------------------------------------------
(* handle_connection *)

\* The first byte selects the transport for the connection's whole life.
Transport(kind) ==
    CASE kind \in V1   -> "frame"
      [] kind = "blank" -> "done"
      [] OTHER          -> "read"

\* The first byte arrives.  An NDJSON session greets the client before it
\* reads the line.
Lead ==
    /\ session = "lead"
    /\ input # << >>
    /\ session' = Transport(Head(input).kind)
    /\ IF session' = "read"
       THEN out' = <<Hello>> /\ writer' = "run"
       ELSE UNCHANGED <<out, writer>>
    /\ UNCHANGED <<version, clientVars, input, wire, request, forwarder, bus,
                   due>>

\* Connect, then close: a probe.
LeadEof ==
    /\ session = "lead"
    /\ input = << >> /\ peer # "open"
    /\ session' = "done"
    /\ UNCHANGED <<version, clientVars, input, wire, request, out, writer,
                   forwarder, bus, due>>

\* length_prefixed_session: read one request ...
Frame ==
    /\ session = "frame"
    /\ Head(input).kind \in {"frame", "frame_capture"}
    /\ request' = <<Head(input)>>
    /\ input' = Tail(input)
    /\ session' = "answer"
    /\ due' = Append(due, Head(input).n)
    /\ UNCHANGED <<version, clientVars, wire, out, writer, forwarder, bus>>

\* A frame that announces too many bytes, or is no request, ends the session.
FrameRefused ==
    /\ session = "frame"
    /\ Head(input).kind = "frame_bad"
    /\ input' = Tail(input)
    /\ session' = "done"
    /\ UNCHANGED <<version, clientVars, wire, request, out, writer, forwarder,
                   bus, due>>

\* So does the end of the stream within a frame; until then the rest of the
\* frame is waited for.
FrameCutOff ==
    /\ session = "frame"
    /\ Head(input).kind = "frame_cut" /\ peer # "open"
    /\ session' = "done"
    /\ UNCHANGED <<version, clientVars, input, wire, request, out, writer,
                   forwarder, bus, due>>

\* ... dispatch it, which takes a capture as long as it takes the user, write
\* one response and hang up.
Answer ==
    /\ session = "answer"
    /\ \/ /\ peer # "gone" /\ Len(wire) < SocketSpace
          /\ wire' = Append(wire, Reply(request[1]))
       \/ peer = "gone" /\ UNCHANGED wire
    /\ request' = << >>
    /\ session' = "done"
    /\ UNCHANGED <<version, clientVars, input, out, writer, forwarder, bus,
                   due>>

-----------------------------------------------------------------------------
(* ndjson_session: the request loop *)

NextLine(kinds) ==
    /\ session = "read"
    /\ input # << >>
    /\ Head(input).kind \in kinds
    /\ input' = Tail(input)

\* A blank line is skipped.
ReadBlank ==
    /\ NextLine({"blank"})
    /\ UNCHANGED <<version, clientVars, wire, session, request, out, writer,
                   forwarder, bus, due>>

\* A line that is no request is reported, and the loop goes on.
ReadMalformed ==
    /\ NextLine({"malformed"})
    /\ Push(Reply(Head(input)))
    /\ due' = Append(due, Head(input).n)
    /\ UNCHANGED <<version, clientVars, wire, session, request, writer,
                   forwarder, bus>>

\* A line without an end is cut off, and the session with it.
ReadOversized ==
    /\ NextLine({"oversized"})
    /\ session' = "leave"
    /\ UNCHANGED <<version, clientVars, wire, request, out, writer, forwarder,
                   bus, due>>

\* The first subscribe spawns the forwarder, before it is confirmed.
ReadSubscribe ==
    /\ NextLine({"subscribe"})
    /\ request' = <<Head(input)>>
    /\ due' = Append(due, Head(input).n)
    /\ session' = "confirm"
    /\ forwarder' = IF forwarder = "none" THEN "spawned" ELSE forwarder
    /\ UNCHANGED <<version, clientVars, wire, out, writer, bus>>

\* Any other request is dispatched on this task.
ReadRequest ==
    /\ NextLine({"list", "capture"})
    /\ request' = <<Head(input)>>
    /\ due' = Append(due, Head(input).n)
    /\ session' = "dispatch"
    /\ UNCHANGED <<version, clientVars, wire, out, writer, forwarder, bus>>

\* The response is queued.
QueueReply ==
    /\ session \in {"dispatch", "confirm"}
    /\ Push(Reply(request[1]))
    /\ request' = << >>
    /\ session' = "read"
    /\ UNCHANGED <<version, clientVars, input, wire, writer, forwarder, bus,
                   due>>

\* The peer hung up.
ReadEof ==
    /\ session = "read"
    /\ input = << >> /\ peer # "open"
    /\ session' = "leave"
    /\ UNCHANGED <<version, clientVars, input, wire, request, out, writer,
                   forwarder, bus, due>>

\* Mutant: the forwarder is not stopped, and keeps the queue open.
LeaveForwarder ==
    /\ session = "leave"
    /\ session' = "join"
    /\ UNCHANGED <<version, clientVars, input, wire, request, out, writer,
                   forwarder, bus, due>>

\* The forwarder is aborted and this task's sender dropped.  A task that is
\* running goes on to its next await, which is in recv().
Leave ==
    /\ session = "leave"
    /\ forwarder' = IF forwarder \in {"spawned", "recv"} THEN "stopped"
                                                        ELSE forwarder
    /\ session' = "join"
    /\ UNCHANGED <<version, clientVars, input, wire, request, out, writer,
                   bus, due>>

\* The writer is awaited.
Join ==
    /\ session = "join"
    /\ writer = "ended"
    /\ session' = "done"
    /\ UNCHANGED <<version, clientVars, input, wire, request, out, writer,
                   forwarder, bus, due>>

-----------------------------------------------------------------------------
(* spawn_event_forwarder *)

\* A receiver from now on.
ForwardStart ==
    /\ forwarder = "spawned"
    /\ forwarder' = "open"
    /\ UNCHANGED <<version, clientVars, input, wire, session, request, out,
                   writer, bus, due>>

\* The opening snapshot.
ForwardOpening ==
    /\ forwarder = "open"
    /\ Push([kind |-> "event", version |-> version])
    /\ forwarder' = IF session \in {"join", "done"} THEN "stopped" ELSE "recv"
    /\ UNCHANGED <<version, clientVars, input, wire, session, request, writer,
                   bus, due>>

\* Mutant: the request loop forwards as well, so not while it waits.
ForwardInLoop ==
    /\ forwarder = "recv"
    /\ session = "read"
    /\ \E v \in bus :
           /\ Push([kind |-> "event", version |-> v])
           /\ bus' = bus \ {v}
    /\ UNCHANGED <<version, clientVars, input, wire, session, request, writer,
                   forwarder, due>>

\* A snapshot the receiver holds.
ForwardNext ==
    /\ forwarder = "recv"
    /\ \E v \in bus :
           /\ Push([kind |-> "event", version |-> v])
           /\ bus' = bus \ {v}
    /\ UNCHANGED <<version, clientVars, input, wire, session, request, writer,
                   forwarder, due>>

Forward == ForwardStart \/ ForwardOpening \/ ForwardNext

-----------------------------------------------------------------------------
Loop ==
    \/ Lead \/ LeadEof \/ Frame \/ FrameRefused \/ FrameCutOff \/ Answer
    \/ ReadBlank \/ ReadMalformed \/ ReadOversized \/ ReadSubscribe
    \/ ReadRequest \/ QueueReply \/ ReadEof \/ Leave \/ Join

Next ==
    \/ \E kind \in Kind : Send(kind)
    \/ Read
    \/ \E how \in {"eof", "gone"} : HangUp(how)
    \/ Change
    \/ Loop
    \/ Write \/ WriterEnds
    \/ Forward

Spec == Init /\ [][Next]_vars

\* The session waits for the user to drag a region, over either transport.
Capturing ==
    /\ session \in {"dispatch", "answer"}
    /\ request[1].kind \in {"capture", "frame_capture"}

\* Tokio runs each task that can go on, and the peer reads what it is sent.
\* A capture may take forever.
Fairness ==
    /\ WF_vars(Loop /\ ~Capturing)
    /\ WF_vars(Write \/ WriterEnds)
    /\ WF_vars(Forward)
    /\ WF_vars(Read)

FairSpec == Spec /\ Fairness

-----------------------------------------------------------------------------
(* Properties *)

\* Everything the daemon has written or queued for the client, in order.
Transcript == got \o wire \o out

\* The requests that these lines answer, in their order.
Answered(written) ==
    LET upTo[i \in 0 .. Len(written)] ==
            IF i = 0 THEN << >>
            ELSE IF written[i].kind = "reply"
                 THEN Append(upTo[i - 1], written[i].n) ELSE upTo[i - 1]
    IN upTo[Len(written)]

\* The requests that are read and not answered yet.
Unanswered == [i \in DOMAIN request |-> request[i].n]

\* server.rs:181-186: every request that is read, and every line that is none,
\* is answered once, in the order in which they came, also on a connection that
\* is shutting down, and no answer is dropped as long as the peer is there to
\* read it.  A v1 frame that is no request is not answered, against what ipc.rs
\* says of malformed requests.
OneReplyPerRequest ==
    peer # "gone" =>
        /\ Answered(Transcript) \o Unanswered = due
        /\ session = "done" => out = << >>

\* server.rs:181-184: a capture that waits for the user does not stall the
\* event stream: a subscriber is told of every state the pins stay in.
SubscriberHears ==
    \A v \in Version :
        forwarder # "none" /\ version = v ~>
            \/ \E i \in DOMAIN got :
                   got[i].kind = "event" /\ got[i].version >= v
            \/ session \in {"leave", "join", "done"}
            \/ peer = "gone"

\* server.rs:260-266: when the peer has hung up, or has only shut its writing
\* side and reads what it is sent, the connection comes to its end, unless a
\* capture holds it.
SessionEnds == peer # "open" ~> session = "done" \/ Capturing
=============================================================================
