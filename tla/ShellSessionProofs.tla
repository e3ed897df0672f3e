------------------------- MODULE ShellSessionProofs -------------------------
(***************************************************************************)
(* Machine-checked proofs about ShellSession, for any number of requests   *)
(* and changes and any space in the socket.                                *)
(***************************************************************************)
EXTENDS ShellSession, DataTheorems

-----------------------------------------------------------------------------
(* What a transcript answers *)

\* What a line adds to the answers before it.
Adds(line) ==
    [v \in Seq(Number) |-> IF line.kind = "reply" THEN Append(v, line.n) ELSE v]

AllAdd(written) == [i \in 1 .. Len(written) |-> Adds(written[i])]

\* The loop of Answered, as a function of how far it went.
LEMMA AnsweredIsALoop ==
    ASSUME NEW s \in Seq(Line)
    PROVE  \E f : /\ IsLoop(f, Seq(Number), << >>, Len(s), AllAdd(s))
                  /\ Answered(s) = f[Len(s)]
<1> DEFINE After(g, i) ==
               IF s[i].kind = "reply" THEN Append(g[i - 1], s[i].n) ELSE g[i - 1]
           Reads(g) ==
               g = [i \in 0 .. Len(s) |-> IF i = 0 THEN << >> ELSE After(g, i)]
           Some == Seq(Number)
           step == AllAdd(s)
<1>1. Len(s) \in Nat
  BY LenProperties
<1>2. << >> \in Some
  BY EmptySeq
<1>3. \A i \in 1 .. Len(s) : s[i].kind = "reply" => s[i].n \in Number
  <2> SUFFICES ASSUME NEW i \in 1 .. Len(s), s[i].kind = "reply"
               PROVE  s[i].n \in Number
    OBVIOUS
  <2>1. s[i] \in Line
    BY ElementOfSeq
  <2> QED BY <2>1 DEF Line
<1>4. step \in [1 .. Len(s) -> [Some -> Some]]
  <2>1. ASSUME NEW i \in 1 .. Len(s), NEW v \in Some
        PROVE  (IF s[i].kind = "reply" THEN Append(v, s[i].n) ELSE v) \in Some
    BY <1>3, AppendProperties
  <2> QED BY <2>1 DEF AllAdd, Adds
<1>5. \A i \in 1 .. Len(s) : \A v \in Some :
          step[i][v] = IF s[i].kind = "reply" THEN Append(v, s[i].n) ELSE v
  BY DEF AllAdd, Adds
<1> HIDE DEF Some, step
<1>6. PICK f : IsLoop(f, Some, << >>, Len(s), step)
  BY <1>1, <1>2, <1>4, LoopExists
<1>7. /\ f \in [0 .. Len(s) -> Some] /\ f[0] = << >>
      /\ \A i \in 1 .. Len(s) : f[i] = step[i][f[i - 1]]
  BY <1>6 DEF IsLoop, Follows
<1>8. \A i \in 1 .. Len(s) : f[i] = After(f, i)
  <2> SUFFICES ASSUME NEW i \in 1 .. Len(s) PROVE f[i] = After(f, i)
    OBVIOUS
  <2>1. i - 1 \in 0 .. Len(s)
    BY <1>1
  <2>2. f[i - 1] \in Some
    BY <1>7, <2>1
  <2> QED BY <1>5, <1>7, <2>2
<1>9. Reads(f)
  <2> HIDE DEF After
  <2> QED BY <1>1, <1>7, <1>8
<1>10. PICK g : g = (CHOOSE h : Reads(h)) /\ Reads(g)
  <2> HIDE DEF Reads
  <2> QED BY <1>9
<1>11. Answered(s) = g[Len(s)]
  BY <1>10 DEF Answered
<1>12. \A i \in 0 .. Len(s) : g[i] = f[i]
  <2> HIDE DEF After
  <2>0. g = [i \in 0 .. Len(s) |-> IF i = 0 THEN << >> ELSE After(g, i)]
    BY <1>10
  <2>1. g[0] = << >> /\ \A i \in 1 .. Len(s) : g[i] = After(g, i)
    BY <1>1, <2>0
  <2> DEFINE apart == {i \in 0 .. Len(s) : g[i] # f[i]}
  <2> SUFFICES ASSUME apart # {} PROVE FALSE
    OBVIOUS
  <2>2. PICK k \in apart : \A i \in apart : k <= i
    <3>1. apart \subseteq Nat
      OBVIOUS
    <3> QED BY <3>1, LeastExists
  <2>3. k \in 1 .. Len(s) /\ k - 1 \in 0 .. Len(s) /\ ~(k <= k - 1)
    BY <1>1, <1>7, <2>1, <2>2
  <2>4. g[k - 1] = f[k - 1]
    BY <2>2, <2>3
  <2> QED BY <1>8, <2>1, <2>2, <2>3, <2>4 DEF After
<1>13. Answered(s) = f[Len(s)]
  BY <1>1, <1>11, <1>12
<1> QED BY <1>6, <1>13 DEF Some, step

\* Nothing is answered by nothing.
LEMMA AnsweredNothing == Answered(<< >>) = << >>
<1>1. << >> \in Seq(Line) /\ Len(<< >>) = 0
  BY EmptySeq
<1>2. PICK f : /\ IsLoop(f, Seq(Number), << >>, 0, AllAdd(<< >>))
               /\ Answered(<< >>) = f[0]
  BY <1>1, AnsweredIsALoop
<1> QED BY <1>2 DEF IsLoop, Follows

\* A line answers what was answered before it, and its own request if it is a
\* reply.
LEMMA AnsweredMore ==
    ASSUME NEW s \in Seq(Line), NEW line \in Line
    PROVE  /\ Answered(s) \in Seq(Number)
           /\ Answered(Append(s, line)) =
                  IF line.kind = "reply" THEN Append(Answered(s), line.n)
                                         ELSE Answered(s)
<1> DEFINE t == Append(s, line)
           Some == Seq(Number)
<1>1. /\ Len(s) \in Nat /\ t \in Seq(Line) /\ Len(t) = Len(s) + 1
      /\ \A i \in 1 .. Len(s) : t[i] = s[i]
      /\ t[Len(s) + 1] = line
  BY AppendProperties, LenProperties
<1> HIDE DEF t
<1>2. PICK f : IsLoop(f, Some, << >>, Len(s), AllAdd(s)) /\ Answered(s) = f[Len(s)]
  BY AnsweredIsALoop
<1>3. PICK g : IsLoop(g, Some, << >>, Len(t), AllAdd(t)) /\ Answered(t) = g[Len(t)]
  BY <1>1, AnsweredIsALoop
<1>4. /\ f \in [0 .. Len(s) -> Some] /\ f[0] = << >>
      /\ \A i \in 1 .. Len(s) : f[i] = AllAdd(s)[i][f[i - 1]]
  BY <1>2 DEF IsLoop, Follows
<1>5. /\ g \in [0 .. Len(s) + 1 -> Some] /\ g[0] = << >>
      /\ \A i \in 1 .. Len(s) + 1 : g[i] = AllAdd(t)[i][g[i - 1]]
  BY <1>1, <1>3 DEF IsLoop, Follows
<1>6. \A i \in 1 .. Len(s) : AllAdd(t)[i] = AllAdd(s)[i]
  <2> SUFFICES ASSUME NEW i \in 1 .. Len(s) PROVE AllAdd(t)[i] = AllAdd(s)[i]
    OBVIOUS
  <2>1. AllAdd(t)[i] = Adds(t[i]) /\ AllAdd(s)[i] = Adds(s[i])
    BY <1>1 DEF AllAdd
  <2> QED BY <1>1, <2>1
<1>7. \A i \in 1 .. Len(s) : g[i] = AllAdd(s)[i][g[i - 1]]
  BY <1>1, <1>5, <1>6
<1>8. \A i \in 0 .. Len(s) : f[i] = g[i]
  <2> DEFINE step == AllAdd(s)
             n == Len(s)
  <2>1. n \in Nat /\ f[0] = g[0] /\ Follows(f, n, step) /\ Follows(g, n, step)
    BY <1>1, <1>4, <1>5, <1>7 DEF Follows
  <2> HIDE DEF step, n
  <2>2. \A i \in 0 .. n : f[i] = g[i]
    BY ONLY <2>1, LoopsAgree
  <2> QED BY <2>2 DEF n
<1>9. Answered(s) = g[Len(s)] /\ Answered(s) \in Some
  BY <1>1, <1>2, <1>4, <1>8
<1>10. Answered(t) = AllAdd(t)[Len(s) + 1][Answered(s)]
  BY <1>1, <1>3, <1>5, <1>9
<1>11. AllAdd(t)[Len(s) + 1][Answered(s)] =
           IF line.kind = "reply" THEN Append(Answered(s), line.n) ELSE Answered(s)
  <2> DEFINE a == Answered(s)
  <2>1. a \in Seq(Number) /\ Len(s) + 1 \in 1 .. Len(t)
    BY <1>1, <1>9
  <2> HIDE DEF a
  <2>2. AllAdd(t)[Len(s) + 1][a] =
            IF t[Len(s) + 1].kind = "reply" THEN Append(a, t[Len(s) + 1].n) ELSE a
    BY <2>1 DEF AllAdd, Adds
  <2> QED BY <1>1, <2>2 DEF a
<1> QED BY <1>9, <1>10, <1>11 DEF t

-----------------------------------------------------------------------------
(* The inductive invariant *)

\* Transcript, grouped, and under a name the provers do not expand.
Told == Cat(Cat(got, wire), out)

\* The loop holds a request just while it works on one.
RequestAtHand ==
    /\ session \in {"answer", "dispatch", "confirm"} => Len(request) = 1
    /\ session \notin {"answer", "dispatch", "confirm"} => request = << >>
    /\ session = "frame" => input # << >>

\* There is a writer from the greeting on, and it ends before the session
\* does.  As long as the peer is there it ends last of all that write.
WriterLast ==
    /\ writer = "off" =>
           /\ session \in {"lead", "frame", "answer", "done"}
           /\ out = << >> /\ forwarder = "none"
    /\ writer = "run" =>
           session \in {"read", "dispatch", "confirm", "leave", "join"}
    /\ writer = "ended" =>
           /\ session \notin {"lead", "frame", "answer"}
           /\ out = << >>
           /\ peer # "gone" => /\ session \in {"join", "done"}
                               /\ forwarder \in {"none", "stopped"}

\* What was answered and what is at hand are the requests that were read.
Balanced == peer # "gone" => Cat(Answered(Told), Unanswered) = due

IInv ==
    /\ TypeOK
    /\ RequestAtHand
    /\ WriterLast
    /\ Balanced

-----------------------------------------------------------------------------
(* Lemmas about what is written *)

\* What the daemon writes are lines, and a reply is one to its request.
LEMMA LinesAreTyped ==
    /\ Hello \in Line /\ Hello.kind # "reply"
    /\ \A r \in Request : /\ r.n \in Number /\ Reply(r) \in Line
                          /\ Reply(r).kind = "reply" /\ Reply(r).n = r.n
    /\ \A v \in Version : /\ [kind |-> "event", version |-> v] \in Line
                          /\ [kind |-> "event", version |-> v].kind # "reply"
BY DEF Line, Hello, Reply, Request

\* The transcript is one of lines.
LEMMA ToldType ==
    ASSUME TypeOK
    PROVE  /\ got \in Seq(Line) /\ wire \in Seq(Line) /\ out \in Seq(Line)
           /\ Cat(got, wire) \in Seq(Line) /\ Told \in Seq(Line)
           /\ Answered(Told) \in Seq(Number)
<1>1. got \in Seq(Line) /\ wire \in Seq(Line) /\ out \in Seq(Line)
  BY DEF TypeOK
<1>2. \A s, t \in Seq(Line) : Cat(s, t) \in Seq(Line)
  BY CatFacts
<1>3. Cat(got, wire) \in Seq(Line) /\ Told \in Seq(Line)
  BY <1>1, <1>2, Zenon DEF Told
<1>4. Answered(Told) \in Seq(Number)
  BY <1>3, LinesAreTyped, AnsweredMore
<1> QED BY <1>1, <1>3, <1>4

\* A line that is queued is the last of the transcript.
LEMMA PushIsTold ==
    ASSUME TypeOK, NEW line \in Line, out' = Append(out, line),
           UNCHANGED <<got, wire>>
    PROVE  /\ Told' = Append(Told, line) /\ out' \in Seq(Line)
           /\ Answered(Told') = IF line.kind = "reply"
                                THEN Append(Answered(Told), line.n)
                                ELSE Answered(Told)
<1>1. out' \in Seq(Line)
  BY ToldType, AppendProperties
<1>2. Told' = Append(Told, line)
  <2>1. Told' = Cat(Cat(got, wire), Append(out, line))
    BY DEF Told
  <2>2. \A s, t \in Seq(Line) : Cat(s, Append(t, line)) = Append(Cat(s, t), line)
    BY CatAppend
  <2> QED BY <2>1, <2>2, ToldType, Zenon DEF Told
<1>3. Answered(Append(Told, line)) = IF line.kind = "reply"
                                     THEN Append(Answered(Told), line.n)
                                     ELSE Answered(Told)
  BY ToldType, AnsweredMore
<1> QED BY <1>1, <1>2, <1>3

\* So is one that is written while nothing is queued.
LEMMA WrittenIsTold ==
    ASSUME TypeOK, NEW line \in Line, wire' = Append(wire, line),
           out = << >>, UNCHANGED <<got, out>>
    PROVE  /\ Told' = Append(Told, line) /\ wire' \in Seq(Line)
           /\ Len(wire') = Len(wire) + 1
           /\ Answered(Told') = IF line.kind = "reply"
                                THEN Append(Answered(Told), line.n)
                                ELSE Answered(Told)
<1>1. wire' \in Seq(Line) /\ Len(wire') = Len(wire) + 1
  BY ToldType, AppendProperties
<1>2. \A s \in Seq(Line) : Cat(s, << >>) = s
  BY CatEmpty
<1>3. Told = Cat(got, wire)
  BY <1>2, ToldType, Zenon DEF Told
<1>4. Told' = Append(Told, line)
  <2>1. Told' = Cat(Cat(got, Append(wire, line)), << >>)
    BY DEF Told
  <2>2. Cat(got, Append(wire, line)) = Append(Cat(got, wire), line)
    <3>1. \A s, t \in Seq(Line) : Cat(s, Append(t, line)) = Append(Cat(s, t), line)
      BY CatAppend
    <3> QED BY <3>1, ToldType, Zenon
  <2>3. Append(Cat(got, wire), line) \in Seq(Line)
    BY ToldType, AppendProperties
  <2> QED BY <1>2, <1>3, <2>1, <2>2, <2>3, Zenon
<1>5. Answered(Append(Told, line)) = IF line.kind = "reply"
                                     THEN Append(Answered(Told), line.n)
                                     ELSE Answered(Told)
  BY ToldType, AnsweredMore
<1> QED BY <1>1, <1>4, <1>5

\* A line that is written was told when it was queued.
LEMMA WriteTellsNothing ==
    ASSUME TypeOK, out # << >>, wire' = Append(wire, Head(out)),
           out' = Tail(out), UNCHANGED got
    PROVE  /\ Told' = Told /\ wire' \in Seq(Line) /\ out' \in Seq(Line)
           /\ Len(wire') = Len(wire) + 1
<1>1. Head(out) \in Line /\ out' \in Seq(Line)
  BY ToldType, HeadTailProperties
<1>2. wire' \in Seq(Line) /\ Len(wire') = Len(wire) + 1
  BY <1>1, ToldType, AppendProperties
<1>3. Told' = Cat(Cat(got, Append(wire, Head(out))), Tail(out))
  BY DEF Told
<1>4. Cat(got, Append(wire, Head(out))) = Append(Cat(got, wire), Head(out))
  <2>1. \A s, t \in Seq(Line), e \in Line :
            Cat(s, Append(t, e)) = Append(Cat(s, t), e)
    BY CatAppend
  <2> QED BY <1>1, <2>1, ToldType, Zenon
<1>5. Cat(Append(Cat(got, wire), Head(out)), Tail(out)) = Cat(Cat(got, wire), out)
  BY ToldType, CatMoves
<1> QED BY <1>1, <1>2, <1>3, <1>4, <1>5 DEF Told

\* One that is read too.
LEMMA ReadTellsNothing ==
    ASSUME TypeOK, wire # << >>, got' = Append(got, Head(wire)),
           wire' = Tail(wire), UNCHANGED out
    PROVE  /\ Told' = Told /\ wire' \in Seq(Line) /\ got' \in Seq(Line)
           /\ Len(wire') = Len(wire) - 1
<1>1. /\ Head(wire) \in Line /\ wire' \in Seq(Line)
      /\ Len(wire') = Len(wire) - 1
  BY ToldType, HeadTailProperties
<1>2. got' \in Seq(Line)
  BY <1>1, ToldType, AppendProperties
<1>3. Told' = Cat(Cat(Append(got, Head(wire)), Tail(wire)), out)
  BY DEF Told
<1>4. Cat(Append(got, Head(wire)), Tail(wire)) = Cat(got, wire)
  BY ToldType, CatMoves
<1> QED BY <1>1, <1>2, <1>3, <1>4 DEF Told

\* What is at hand is one number or none.
LEMMA AtHand ==
    /\ request = << >> => Unanswered = << >>
    /\ \A r : request = <<r>> => Unanswered = <<r.n>>
    /\ TypeOK /\ Len(request) = 1 =>
           request[1] \in Request /\ Unanswered = <<request[1].n>>
BY DEF Unanswered, TypeOK

\* A request that was read is due, and one that is answered is off the list.
LEMMA Takes ==
    ASSUME NEW a \in Seq(Number), NEW n \in Number
    PROVE  Cat(a, <<n>>) = Append(a, n) /\ Cat(a, << >>) = a
BY AppendIsConcat, CatEmpty DEF Cat

-----------------------------------------------------------------------------
(* What a step does to the balance *)

\* The actions that read no request, answer none and drop nothing.
LEMMA QuietKeepsBalance ==
    ASSUME TypeOK, Balanced, peer' # "gone" => peer # "gone",
           UNCHANGED <<request, due>>,
           Answered(Told') = Answered(Told)
    PROVE  Balanced'
<1>1. Unanswered' = Unanswered
  BY DEF Unanswered
<1> QED BY <1>1 DEF Balanced

\* Reading a request puts it on the list of those that are due.
LEMMA ReadingKeepsBalance ==
    ASSUME TypeOK, Balanced, request = << >>, NEW r \in Request,
           request' = <<r>>, due' = Append(due, r.n),
           UNCHANGED <<peer, got, wire, out>>
    PROVE  Balanced'
<1>1. Told' = Told
  BY DEF Told
<1>2. Unanswered = << >> /\ Unanswered' = <<r.n>>
  BY DEF Unanswered
<1>3. r.n \in Number /\ Answered(Told) \in Seq(Number)
  BY LinesAreTyped, ToldType
<1>4. /\ Cat(Answered(Told), << >>) = Answered(Told)
      /\ Cat(Answered(Told), <<r.n>>) = Append(Answered(Told), r.n)
  BY <1>3, Takes
<1> QED BY <1>1, <1>2, <1>4 DEF Balanced

\* Answering it takes it off.
LEMMA AnsweringKeepsBalance ==
    ASSUME TypeOK, Balanced, Len(request) = 1, request' = << >>,
           UNCHANGED due, peer' # "gone" => peer # "gone",
           peer # "gone" =>
               Answered(Told') = Append(Answered(Told), request[1].n)
    PROVE  Balanced'
<1> DEFINE n == request[1].n
           a == Answered(Told)
<1>1. Unanswered = <<n>> /\ Unanswered' = << >> /\ n \in Number
  BY AtHand, LinesAreTyped DEF Unanswered
<1>2. a \in Seq(Number)
  BY ToldType
<1> HIDE DEF n, a
<1>3. Cat(a, <<n>>) = Append(a, n) /\ Append(a, n) \in Seq(Number)
  BY <1>1, <1>2, Takes, AppendProperties
<1>4. Cat(Append(a, n), << >>) = Append(a, n)
  BY <1>3, CatEmpty
<1>5. peer # "gone" => Answered(Told') = Append(a, n)
  BY DEF a, n
<1> QED BY <1>1, <1>3, <1>4, <1>5 DEF Balanced, a

\* Push queues a line, or drops it when the peer is gone.
LEMMA PushFacts ==
    ASSUME TypeOK, WriterLast, NEW line \in Line, Push(line),
           UNCHANGED <<got, wire>>
    PROVE  /\ out' \in Seq(Line)
           /\ writer = "ended" => out' = << >> /\ Told' = Told
           /\ writer # "ended" =>
                  Answered(Told') = IF line.kind = "reply"
                                    THEN Append(Answered(Told), line.n)
                                    ELSE Answered(Told)
<1>1. CASE writer = "ended"
  BY <1>1, ToldType DEF Push, Told, WriterLast
<1>2. CASE writer # "ended"
  BY <1>2, PushIsTold DEF Push
<1> QED BY <1>1, <1>2

-----------------------------------------------------------------------------
(* The client and the other clients *)

\* The invariant holds at the start.
LEMMA InitIInv == Init => IInv
<1> SUFFICES ASSUME Init PROVE IInv
  OBVIOUS
<1>1. TypeOK
  <2>1. /\ << >> \in Seq(Line) /\ << >> \in Seq(Request) /\ << >> \in Seq(Number)
        /\ Len(<< >>) = 0
    BY EmptySeq
  <2> QED BY <2>1, SessionAssumption DEF Init, TypeOK, Version
<1>2. Balanced
  <2>1. \A S : Cat(<< >>, << >>) = << >>
    BY EmptySeq, CatEmpty
  <2>2. Told = << >> /\ Unanswered = << >>
    BY <2>1, AtHand DEF Init, Told
  <2> QED BY <2>1, <2>2, AnsweredNothing DEF Balanced, Init
<1> QED BY <1>1, <1>2 DEF Init, IInv, RequestAtHand, WriterLast

\* A request is sent.
LEMMA SendStep ==
    ASSUME IInv, NEW kind \in Kind, Send(kind)
    PROVE  IInv'
<1>0. TypeOK /\ RequestAtHand /\ WriterLast /\ Balanced
  BY DEF IInv
<1>1. UNCHANGED <<version, peer, got, wire, session, request, out, writer,
                  forwarder, bus, due>>
  BY DEF Send
<1>2. /\ input' \in Seq(Request) /\ input' # << >>
      /\ sent' \in 0 .. MaxRequests
  <2>1. [kind |-> kind, n |-> sent + 1] \in Request /\ sent + 1 \in 0 .. MaxRequests
    BY <1>0, SessionAssumption DEF Send, TypeOK, Request, Number
  <2>2. input \in Seq(Request)
    BY <1>0 DEF TypeOK
  <2> QED BY <2>1, <2>2, AppendProperties DEF Send
<1>3. TypeOK'
  BY <1>0, <1>1, <1>2 DEF TypeOK
<1>4. RequestAtHand' /\ WriterLast'
  BY <1>0, <1>1, <1>2 DEF RequestAtHand, WriterLast
<1>5. Balanced'
  BY <1>0, <1>1, QuietKeepsBalance DEF Told
<1> QED BY <1>3, <1>4, <1>5 DEF IInv

\* The client reads a line.
LEMMA ReadStep ==
    ASSUME IInv, Read
    PROVE  IInv'
<1>0. TypeOK /\ RequestAtHand /\ WriterLast /\ Balanced
  BY DEF IInv
<1>1. UNCHANGED <<version, sent, peer, input, session, request, out, writer,
                  forwarder, bus, due>>
  BY DEF Read
<1>2. /\ Told' = Told /\ wire' \in Seq(Line) /\ got' \in Seq(Line)
      /\ Len(wire') = Len(wire) - 1
  BY <1>0, ReadTellsNothing DEF Read
<1>3. Len(wire') <= SocketSpace
  BY <1>0, <1>2, LenProperties, SessionAssumption DEF TypeOK
<1>4. TypeOK'
  BY <1>0, <1>1, <1>2, <1>3 DEF TypeOK
<1>5. RequestAtHand' /\ WriterLast'
  BY <1>0, <1>1 DEF RequestAtHand, WriterLast
<1>6. Balanced'
  BY <1>0, <1>1, <1>2, QuietKeepsBalance
<1> QED BY <1>4, <1>5, <1>6 DEF IInv

\* It hangs up: what it was owed is not owed any more when it is gone.
LEMMA HangUpStep ==
    ASSUME IInv, NEW how \in {"eof", "gone"}, HangUp(how)
    PROVE  IInv'
<1>0. TypeOK /\ RequestAtHand /\ WriterLast /\ Balanced
  BY DEF IInv
<1>1. /\ UNCHANGED <<version, sent, got, input, wire, session, request, out,
                     writer, forwarder, bus, due>>
      /\ peer' \in {"eof", "gone"} /\ peer # "gone"
  BY DEF HangUp
<1>2. TypeOK'
  BY <1>0, <1>1 DEF TypeOK
<1>3. RequestAtHand' /\ WriterLast'
  BY <1>0, <1>1 DEF RequestAtHand, WriterLast
<1>4. Balanced'
  BY <1>0, <1>1, QuietKeepsBalance DEF Told
<1> QED BY <1>2, <1>3, <1>4 DEF IInv

\* Somebody else changes the pins.
LEMMA ChangeStep ==
    ASSUME IInv, Change
    PROVE  IInv'
<1>0. TypeOK /\ RequestAtHand /\ WriterLast /\ Balanced
  BY DEF IInv
<1>1. UNCHANGED <<sent, peer, got, input, wire, session, request, out, writer,
                  forwarder, due>>
  BY DEF Change, clientVars
<1>2. version' \in Version /\ bus' \subseteq Version
  BY <1>0, SessionAssumption DEF Change, TypeOK, Version
<1>3. TypeOK'
  BY <1>0, <1>1, <1>2 DEF TypeOK
<1>4. RequestAtHand' /\ WriterLast'
  BY <1>0, <1>1 DEF RequestAtHand, WriterLast
<1>5. Balanced'
  BY <1>0, <1>1, QuietKeepsBalance DEF Told
<1> QED BY <1>3, <1>4, <1>5 DEF IInv

-----------------------------------------------------------------------------
(* The writer *)

\* The writer ends with an empty queue, or drops it when the peer is gone.
LEMMA WriteStep ==
    ASSUME IInv, Write
    PROVE  IInv'
<1>0. TypeOK /\ RequestAtHand /\ WriterLast /\ Balanced /\ writer = "run"
  BY DEF IInv, Write
<1>1. UNCHANGED <<version, sent, peer, got, input, session, request, forwarder,
                  bus, due>>
  BY DEF Write, clientVars
<1>2. CASE /\ peer # "gone" /\ Len(wire) < SocketSpace /\ out # << >>
           /\ wire' = Append(wire, Head(out)) /\ out' = Tail(out)
           /\ writer' = writer
  <2>1. /\ Told' = Told /\ wire' \in Seq(Line) /\ out' \in Seq(Line)
        /\ Len(wire') = Len(wire) + 1
    BY <1>0, <1>1, <1>2, WriteTellsNothing
  <2>2. Len(wire') <= SocketSpace
    BY <1>2, <2>1, ToldType, LenProperties, <1>0, SessionAssumption
  <2>3. TypeOK'
    BY <1>0, <1>1, <1>2, <2>1, <2>2 DEF TypeOK
  <2>4. RequestAtHand' /\ WriterLast'
    BY <1>0, <1>1, <1>2 DEF RequestAtHand, WriterLast
  <2>5. Balanced'
    BY <1>0, <1>1, <2>1, QuietKeepsBalance
  <2> QED BY <2>3, <2>4, <2>5 DEF IInv
<1>3. CASE peer = "gone" /\ writer' = "ended" /\ out' = << >> /\ wire' = wire
  <2>1. TypeOK'
    BY <1>0, <1>1, <1>3, EmptySeq DEF TypeOK
  <2>2. RequestAtHand' /\ WriterLast'
    BY <1>0, <1>1, <1>3 DEF RequestAtHand, WriterLast
  <2>3. Balanced'
    BY <1>1, <1>3 DEF Balanced
  <2> QED BY <2>1, <2>2, <2>3 DEF IInv
<1> QED BY <1>2, <1>3 DEF Write

\* The queue is closed.
LEMMA WriterEndsStep ==
    ASSUME IInv, WriterEnds
    PROVE  IInv'
<1>0. TypeOK /\ RequestAtHand /\ WriterLast /\ Balanced
  BY DEF IInv
<1>1. UNCHANGED <<version, sent, peer, got, input, wire, session, request, out,
                  forwarder, bus, due>>
  BY DEF WriterEnds, clientVars
<1>2. TypeOK'
  BY <1>0, <1>1 DEF TypeOK, WriterEnds
<1>3. RequestAtHand' /\ WriterLast'
  BY <1>0, <1>1 DEF RequestAtHand, WriterLast, WriterEnds
<1>4. Balanced'
  BY <1>0, <1>1, QuietKeepsBalance DEF Told
<1> QED BY <1>2, <1>3, <1>4 DEF IInv

-----------------------------------------------------------------------------
(* handle_connection *)

\* The session greets the client with an empty queue.
LEMMA LeadStep ==
    ASSUME IInv, Lead
    PROVE  IInv'
<1>0. TypeOK /\ RequestAtHand /\ WriterLast /\ Balanced
  BY DEF IInv
<1>1. /\ UNCHANGED <<version, sent, peer, got, input, wire, request, forwarder,
                     bus, due>>
      /\ session = "lead" /\ input # << >>
      /\ session' \in {"frame", "done", "read"}
  BY DEF Lead, clientVars, Transport
<1>2. writer = "off" /\ out = << >> /\ forwarder = "none" /\ request = << >>
  BY <1>0, <1>1 DEF WriterLast, RequestAtHand, TypeOK
<1>3. CASE session' = "read" /\ out' = <<Hello>> /\ writer' = "run"
  <2>1. out' = Append(out, Hello)
    BY <1>2, <1>3
  <2>2. out' \in Seq(Line) /\ Answered(Told') = Answered(Told)
    BY <1>0, <1>1, <2>1, LinesAreTyped, PushIsTold
  <2>3. TypeOK'
    BY <1>0, <1>1, <1>3, <2>2 DEF TypeOK
  <2>4. RequestAtHand' /\ WriterLast'
    BY <1>0, <1>1, <1>2, <1>3 DEF RequestAtHand, WriterLast
  <2>5. Balanced'
    BY <1>0, <1>1, <2>2, QuietKeepsBalance
  <2> QED BY <2>3, <2>4, <2>5 DEF IInv
<1>4. CASE session' \in {"frame", "done"} /\ UNCHANGED <<out, writer>>
  <2>1. TypeOK'
    BY <1>0, <1>1, <1>4 DEF TypeOK
  <2>2. RequestAtHand' /\ WriterLast'
    BY <1>0, <1>1, <1>2, <1>4 DEF RequestAtHand, WriterLast
  <2>3. Balanced'
    BY <1>0, <1>1, <1>4, QuietKeepsBalance DEF Told
  <2> QED BY <2>1, <2>2, <2>3 DEF IInv
<1> QED BY <1>1, <1>3, <1>4 DEF Lead

\* The steps of the session that write nothing and read no request.
LEMMA SilentStep ==
    ASSUME IInv, LeadEof \/ FrameCutOff \/ ReadEof \/ Leave \/ Join
    PROVE  IInv'
<1>0. TypeOK /\ RequestAtHand /\ WriterLast /\ Balanced
  BY DEF IInv
<1>1. UNCHANGED <<version, sent, peer, got, input, wire, request, out, writer,
                  bus, due>>
  BY DEF LeadEof, FrameCutOff, ReadEof, Leave, Join, clientVars
<1>2. /\ session \in {"lead", "frame", "read", "leave", "join"}
      /\ session' \in {"leave", "join", "done"}
      /\ forwarder' \in {forwarder, "stopped"}
      /\ writer = "off" => forwarder' = forwarder /\ session' # "join"
  BY <1>0 DEF LeadEof, FrameCutOff, ReadEof, Leave, Join, WriterLast
<1>3. TypeOK'
  BY <1>0, <1>1, <1>2 DEF TypeOK
<1>4. RequestAtHand'
  BY <1>0, <1>1, <1>2 DEF RequestAtHand
<1>5. WriterLast'
  BY <1>0, <1>1 DEF WriterLast, LeadEof, FrameCutOff, ReadEof, Leave,
     Join
<1>6. Balanced'
  BY <1>0, <1>1, QuietKeepsBalance DEF Told
<1> QED BY <1>3, <1>4, <1>5, <1>6 DEF IInv

\* The request at the head of the input is read.
LEMMA HeadIsARequest ==
    ASSUME TypeOK, input # << >>
    PROVE  /\ Head(input) \in Request /\ Tail(input) \in Seq(Request)
           /\ Head(input).n \in Number
           /\ <<Head(input)>> \in Seq(Request) /\ Len(<<Head(input)>>) = 1
           /\ Append(due, Head(input).n) \in Seq(Number)
<1>1. Head(input) \in Request /\ Tail(input) \in Seq(Request)
  BY HeadTailProperties DEF TypeOK
<1>2. Head(input).n \in Number
  BY <1>1, LinesAreTyped
<1>3. due \in Seq(Number)
  BY DEF TypeOK
<1> QED BY <1>1, <1>2, <1>3, AppendProperties

\* A request is read and kept at hand.
LEMMA ReadingStep ==
    ASSUME IInv, Frame \/ ReadSubscribe \/ ReadRequest
    PROVE  IInv'
<1>0. TypeOK /\ RequestAtHand /\ WriterLast /\ Balanced
  BY DEF IInv
<1>1. /\ UNCHANGED <<version, sent, peer, got, wire, out, writer, bus>>
      /\ request' = <<Head(input)>> /\ due' = Append(due, Head(input).n)
      /\ input' = Tail(input)
      /\ session \in {"frame", "read"} /\ input # << >>
  BY <1>0 DEF Frame, ReadSubscribe, ReadRequest, NextLine, clientVars,
     RequestAtHand
<1>2. /\ session' \in {"answer", "confirm", "dispatch"}
      /\ session' = "answer" <=> session = "frame"
      /\ forwarder' = forwarder \/ (session = "read" /\ forwarder' = "spawned")
  BY DEF Frame, ReadSubscribe, ReadRequest, NextLine
<1>3. TypeOK'
  <2>1. forwarder' \in {"none", "spawned", "open", "recv", "stopped"}
    BY <1>0, <1>2 DEF TypeOK
  <2>2. request' \in Seq(Request) /\ Len(request') <= 1
    BY <1>0, <1>1, HeadIsARequest
  <2>3. input' \in Seq(Request) /\ due' \in Seq(Number)
    BY <1>0, <1>1, HeadIsARequest
  <2> QED BY <1>0, <1>1, <1>2, <2>1, <2>2, <2>3 DEF TypeOK
<1>4. RequestAtHand'
  BY <1>0, <1>1, <1>2, HeadIsARequest DEF RequestAtHand
<1>5. WriterLast'
  BY <1>0, <1>1, <1>2 DEF WriterLast
<1>6. Balanced'
  <2>1. request = << >> /\ Head(input) \in Request
    BY <1>0, <1>1, HeadIsARequest DEF RequestAtHand
  <2> QED BY <1>0, <1>1, <2>1, ReadingKeepsBalance
<1> QED BY <1>3, <1>4, <1>5, <1>6 DEF IInv

\* A frame that is no request ends the session, with nothing due.
LEMMA FrameRefusedStep ==
    ASSUME IInv, FrameRefused
    PROVE  IInv'
<1>0. TypeOK /\ RequestAtHand /\ WriterLast /\ Balanced
  BY DEF IInv
<1>1. /\ UNCHANGED <<version, sent, peer, got, wire, request, out, writer,
                     forwarder, bus, due>>
      /\ session = "frame" /\ session' = "done" /\ input # << >>
      /\ input' = Tail(input)
  BY <1>0 DEF FrameRefused, clientVars, RequestAtHand
<1>2. TypeOK'
  BY <1>0, <1>1, HeadIsARequest DEF TypeOK
<1>3. RequestAtHand' /\ WriterLast'
  BY <1>0, <1>1 DEF RequestAtHand, WriterLast
<1>4. Balanced'
  BY <1>0, <1>1, QuietKeepsBalance DEF Told
<1> QED BY <1>2, <1>3, <1>4 DEF IInv

\* The one response of a v1 exchange goes into the socket, not the queue.
LEMMA AnswerStep ==
    ASSUME IInv, Answer
    PROVE  IInv'
<1>0. TypeOK /\ RequestAtHand /\ WriterLast /\ Balanced
  BY DEF IInv
<1>1. /\ UNCHANGED <<version, sent, peer, got, input, out, writer, forwarder,
                     bus, due>>
      /\ session = "answer" /\ session' = "done" /\ request' = << >>
      /\ Len(request) = 1
  BY <1>0 DEF Answer, clientVars, RequestAtHand
<1>2. writer = "off" /\ out = << >>
  BY <1>0, <1>1 DEF WriterLast, TypeOK
<1>3. /\ request[1] \in Request /\ Reply(request[1]) \in Line
      /\ Reply(request[1]).kind = "reply" /\ Reply(request[1]).n = request[1].n
  BY <1>0, <1>1, AtHand, LinesAreTyped
<1>4. /\ wire' \in Seq(Line) /\ Len(wire') <= SocketSpace
      /\ peer # "gone" =>
             Answered(Told') = Append(Answered(Told), request[1].n)
  <2>1. CASE /\ peer # "gone" /\ Len(wire) < SocketSpace
             /\ wire' = Append(wire, Reply(request[1]))
    <3>1. /\ wire' \in Seq(Line) /\ Len(wire') = Len(wire) + 1
          /\ Answered(Told') = Append(Answered(Told), request[1].n)
      BY <1>0, <1>1, <1>2, <1>3, <2>1, WrittenIsTold
    <3> QED BY <1>0, <2>1, <3>1, ToldType, LenProperties, SessionAssumption
  <2>2. CASE peer = "gone" /\ wire' = wire
    BY <1>0, <2>2 DEF TypeOK
  <2> QED BY <2>1, <2>2 DEF Answer
<1>5. TypeOK'
  BY <1>0, <1>1, <1>4, EmptySeq DEF TypeOK
<1>6. RequestAtHand' /\ WriterLast'
  BY <1>0, <1>1, <1>2 DEF RequestAtHand, WriterLast
<1>7. Balanced'
  BY <1>0, <1>1, <1>4, AnsweringKeepsBalance
<1> QED BY <1>5, <1>6, <1>7 DEF IInv

-----------------------------------------------------------------------------
(* ndjson_session *)

\* What is no request is skipped, or ends the session.
LEMMA SkipStep ==
    ASSUME IInv, ReadBlank \/ ReadOversized
    PROVE  IInv'
<1>0. TypeOK /\ RequestAtHand /\ WriterLast /\ Balanced
  BY DEF IInv
<1>1. /\ UNCHANGED <<version, sent, peer, got, wire, request, out, writer,
                     forwarder, bus, due>>
      /\ session = "read" /\ session' \in {"read", "leave"}
      /\ input # << >> /\ input' = Tail(input)
  BY DEF ReadBlank, ReadOversized, NextLine, clientVars
<1>2. TypeOK'
  BY <1>0, <1>1, HeadIsARequest DEF TypeOK
<1>3. RequestAtHand' /\ WriterLast'
  BY <1>0, <1>1 DEF RequestAtHand, WriterLast
<1>4. Balanced'
  BY <1>0, <1>1, QuietKeepsBalance DEF Told
<1> QED BY <1>2, <1>3, <1>4 DEF IInv

\* A line that is no request is answered in the step that reads it.
LEMMA ReadMalformedStep ==
    ASSUME IInv, ReadMalformed
    PROVE  IInv'
<1>0. TypeOK /\ RequestAtHand /\ WriterLast /\ Balanced
  BY DEF IInv
<1> DEFINE r == Head(input)
<1>1. /\ UNCHANGED <<version, sent, peer, got, wire, session, request, writer,
                     forwarder, bus>>
      /\ session = "read" /\ input # << >> /\ input' = Tail(input)
      /\ due' = Append(due, r.n) /\ Push(Reply(r))
  BY DEF ReadMalformed, NextLine, clientVars
<1>2. /\ r \in Request /\ r.n \in Number /\ input' \in Seq(Request)
      /\ due' \in Seq(Number)
  BY <1>0, <1>1, HeadIsARequest
<1> HIDE DEF r
<1>3. /\ Reply(r) \in Line /\ Reply(r).kind = "reply" /\ Reply(r).n = r.n
  BY <1>2, LinesAreTyped
<1>4. /\ out' \in Seq(Line)
      /\ writer = "ended" => out' = << >> /\ Told' = Told
      /\ writer # "ended" => Answered(Told') = Append(Answered(Told), r.n)
  BY <1>0, <1>1, <1>3, PushFacts
<1>5. TypeOK'
  BY <1>0, <1>1, <1>2, <1>4 DEF TypeOK
<1>6. RequestAtHand' /\ WriterLast'
  BY <1>0, <1>1, <1>4 DEF RequestAtHand, WriterLast
<1>7. Balanced'
  <2> SUFFICES ASSUME peer' # "gone" PROVE Cat(Answered(Told'), Unanswered') = due'
    BY DEF Balanced
  <2>1. writer # "ended" /\ request = << >> /\ request' = << >>
    BY <1>0, <1>1 DEF WriterLast, RequestAtHand
  <2>2. Unanswered = << >> /\ Unanswered' = << >>
    BY <2>1 DEF Unanswered
  <2>3. Cat(Answered(Told), << >>) = due /\ due = Answered(Told)
    BY <1>0, <1>1, <2>2, ToldType, CatEmpty DEF Balanced
  <2>4. Answered(Told') = due' /\ due' \in Seq(Number)
    BY <1>1, <1>2, <1>4, <2>1, <2>3
  <2> QED BY <2>2, <2>4, CatEmpty
<1> QED BY <1>5, <1>6, <1>7 DEF IInv

\* The reply to the request at hand is queued.
LEMMA QueueReplyStep ==
    ASSUME IInv, QueueReply
    PROVE  IInv'
<1>0. TypeOK /\ RequestAtHand /\ WriterLast /\ Balanced
  BY DEF IInv
<1>1. /\ UNCHANGED <<version, sent, peer, got, input, wire, writer, forwarder,
                     bus, due>>
      /\ session \in {"dispatch", "confirm"} /\ session' = "read"
      /\ request' = << >> /\ Len(request) = 1 /\ Push(Reply(request[1]))
  BY <1>0 DEF QueueReply, clientVars, RequestAtHand
<1>2. /\ Reply(request[1]) \in Line /\ Reply(request[1]).kind = "reply"
      /\ Reply(request[1]).n = request[1].n
  BY <1>0, <1>1, AtHand, LinesAreTyped
<1>3. /\ out' \in Seq(Line)
      /\ writer = "ended" => out' = << >> /\ Told' = Told
      /\ writer # "ended" =>
             Answered(Told') = Append(Answered(Told), request[1].n)
  BY <1>0, <1>1, <1>2, PushFacts
<1>4. TypeOK'
  BY <1>0, <1>1, <1>3, EmptySeq DEF TypeOK
<1>5. RequestAtHand' /\ WriterLast'
  BY <1>0, <1>1, <1>3 DEF RequestAtHand, WriterLast, TypeOK
<1>6. Balanced'
  <2>1. peer # "gone" => writer # "ended"
    BY <1>0, <1>1 DEF WriterLast
  <2> QED BY <1>0, <1>1, <1>3, <2>1, AnsweringKeepsBalance
<1> QED BY <1>4, <1>5, <1>6 DEF IInv

-----------------------------------------------------------------------------
(* spawn_event_forwarder *)

\* What the forwarder queues answers nothing.
LEMMA ForwardStep ==
    ASSUME IInv, Forward
    PROVE  IInv'
<1>0. TypeOK /\ RequestAtHand /\ WriterLast /\ Balanced
  BY DEF IInv
<1>1. /\ UNCHANGED <<version, sent, peer, got, input, wire, session, request,
                     writer, due>>
      /\ bus' \subseteq bus
      /\ forwarder \in {"spawned", "open", "recv"}
      /\ forwarder' \in {"open", "recv", "stopped"}
      /\ out' = out \/ \E v \in Version : Push([kind |-> "event", version |-> v])
  BY <1>0 DEF Forward, ForwardStart, ForwardOpening, ForwardNext, clientVars,
     TypeOK
<1>2. /\ out' \in Seq(Line) /\ Answered(Told') = Answered(Told)
      /\ writer = "ended" => out' = << >>
  <2>1. CASE out' = out
    BY <1>0, <1>1, <2>1, ToldType DEF Told, WriterLast
  <2>2. ASSUME NEW v \in Version, Push([kind |-> "event", version |-> v])
        PROVE  /\ out' \in Seq(Line) /\ Answered(Told') = Answered(Told)
               /\ writer = "ended" => out' = << >>
    <3> DEFINE event == [kind |-> "event", version |-> v]
    <3>1. event \in Line /\ event.kind # "reply" /\ Push(event)
      BY <2>2, LinesAreTyped
    <3> HIDE DEF event
    <3> QED BY <1>0, <1>1, <3>1, PushFacts
  <2> QED BY <1>1, <2>1, <2>2
<1>3. TypeOK'
  BY <1>0, <1>1, <1>2 DEF TypeOK
<1>4. RequestAtHand' /\ WriterLast'
  BY <1>0, <1>1, <1>2 DEF RequestAtHand, WriterLast, TypeOK
<1>5. Balanced'
  BY <1>0, <1>1, <1>2, QuietKeepsBalance
<1> QED BY <1>3, <1>4, <1>5 DEF IInv

-----------------------------------------------------------------------------
(* The theorems *)

\* Every step keeps the invariant.
LEMMA StepIInv == IInv /\ [Next]_vars => IInv'
<1> SUFFICES ASSUME IInv, [Next]_vars PROVE IInv'
  OBVIOUS
<1>1. CASE Loop
  BY <1>1, LeadStep, SilentStep, ReadingStep, FrameRefusedStep, AnswerStep,
     SkipStep, ReadMalformedStep, QueueReplyStep DEF Loop
<1>2. CASE UNCHANGED vars
  <2>1. UNCHANGED <<version, sent, peer, got, input, wire, session, request,
                    out, writer, forwarder, bus, due>>
    BY <1>2 DEF vars, clientVars
  <2>2. TypeOK' /\ RequestAtHand' /\ WriterLast'
    BY <2>1 DEF IInv, TypeOK, RequestAtHand, WriterLast
  <2>3. Balanced'
    BY <2>1, QuietKeepsBalance DEF IInv, Told
  <2> QED BY <2>2, <2>3 DEF IInv
<1> QED BY <1>1, <1>2, SendStep, ReadStep, HangUpStep, ChangeStep, WriteStep,
           WriterEndsStep, ForwardStep DEF Next

\* The invariant holds in every reachable state.
LEMMA Invariance == Spec => []IInv
<1> QED BY InitIInv, StepIInv, PTL DEF Spec

\* Whatever its peer sends and whenever it leaves, every variable of a session
\* keeps its type, and the socket never holds more than it can
\* (server.rs:126-333).
THEOREM TypeCorrect == Spec => []TypeOK
<1>1. IInv => TypeOK
  BY DEF IInv
<1> QED BY <1>1, Invariance, PTL

\* Every request that is read is answered once and in order, with the events of
\* the forwarder between the answers, and none of the answers is dropped while
\* the peer is there (server.rs:181-186, 260-268).  What cannot be decoded is
\* answered the same way if it is a line; a v1 frame that cannot be decoded
\* counts as no request here (server.rs:173).
THEOREM EachRequestIsAnswered == Spec => []OneReplyPerRequest
<1>1. IInv => OneReplyPerRequest
  <2> SUFFICES ASSUME IInv, peer # "gone" PROVE OneReplyPerRequest
    BY DEF OneReplyPerRequest
  <2>1. Answered(Transcript) \o Unanswered = due
    BY DEF IInv, Balanced, Told, Transcript, Cat
  <2>2. session = "done" => out = << >>
    BY DEF IInv, WriterLast, TypeOK
  <2> QED BY <2>1, <2>2 DEF OneReplyPerRequest
<1> QED BY <1>1, Invariance, PTL
=============================================================================
