----------------------------- MODULE LineStream -----------------------------
(***************************************************************************)
(* What the daemon promises about the requests of a connection: a stream   *)
(* of bytes is cut at its newlines, however it comes in, and each line is  *)
(* handed on once and in order.  What follows the last newline is a line   *)
(* too once the client has said that it is done, and not if the connection *)
(* broke.  A line is refused only if it is longer than Cap; one that is    *)
(* longer than Cap by less than a buffer may slip through.                 *)
(***************************************************************************)
EXTENDS Naturals, Sequences

CONSTANTS
    Byte,       \* the bytes there are
    Newline,    \* the one that ends a line
    Brace,      \* the one that opens the first line
    Cap,        \* the length of a line that is always accepted
    Slack,      \* what a line that is accepted may exceed Cap by
    MaxBytes    \* bound: bytes the client writes

VARIABLES
    sent,       \* how many bytes the client has written
    peer,       \* "open", "eof" (writes no more) or "broken"
    pending,    \* bytes written and not handed on
    lines,      \* lines handed on
    stopped     \* nothing is handed on any more

vars == <<sent, peer, pending, lines, stopped>>

Init ==
    /\ sent = 0
    /\ peer = "open"
    /\ pending = << >>
    /\ lines = << >>
    /\ stopped = FALSE

Write(byte) ==
    /\ peer = "open"
    /\ sent < MaxBytes
    /\ sent' = sent + 1
    /\ pending' = Append(pending, byte)
    /\ UNCHANGED <<peer, lines, stopped>>

HangUp(how) ==
    /\ peer = "open"
    /\ peer' = how
    /\ UNCHANGED <<sent, pending, lines, stopped>>

\* There is no newline among the first n pending bytes.
NoNewline(n) == \A i \in 1 .. n : i \in DOMAIN pending => pending[i] # Newline

\* The connection is one of lines: it opened with a brace.
Readable ==
    /\ ~stopped
    /\ pending # << >>
    /\ lines = << >> => Head(pending) = Brace

\* The first n pending bytes are a line; skip bytes separate it from the next.
HandOn(n, skip) ==
    /\ Readable
    /\ n <= Cap + Slack
    /\ NoNewline(n)
    /\ lines' = Append(lines, SubSeq(pending, 1, n))
    /\ pending' = SubSeq(pending, n + skip + 1, Len(pending))
    /\ UNCHANGED <<sent, peer, stopped>>

Line ==
    \E n \in 0 .. Len(pending) - 1 : pending[n + 1] = Newline /\ HandOn(n, 1)

LastLine == peer = "eof" /\ HandOn(Len(pending), 0)

Stop ==
    /\ ~stopped
    /\ \/ Len(pending) > Cap /\ NoNewline(Cap + 1)
       \/ peer = "eof" /\ pending = << >>
       \/ peer = "broken" /\ NoNewline(Len(pending))
       \/ pending # << >> /\ ~Readable
    /\ stopped' = TRUE
    /\ UNCHANGED <<sent, peer, pending, lines>>

Next ==
    \/ \E byte \in Byte : Write(byte)
    \/ \E how \in {"eof", "broken"} : HangUp(how)
    \/ Line \/ LastLine \/ Stop

\* A line that is there is handed on, or the connection ends.
Spec == Init /\ [][Next]_vars /\ WF_vars(Line \/ LastLine \/ Stop)
=============================================================================
