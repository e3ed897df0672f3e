-------------------------- MODULE LineReaderProofs --------------------------
(***************************************************************************)
(* Machine-checked proofs about LineReader, for any number of bytes, any   *)
(* width of a header, any cap and any size of the buffer.                  *)
(***************************************************************************)
EXTENDS LineReader, DataTheorems

-----------------------------------------------------------------------------
(* The inductive invariant *)

\* What of the stream was not handed on yet (Pending), grouped in two halves.
Rest == Cat(Cat(line, buffer), Cat(lead, socket))

\* Nothing is in the line before the first byte was read.
NothingYet == sent = << >> => line = << >> /\ stage \in {"lead", "done"}

\* Until the transport is selected nothing is read.
LeadShape ==
    stage = "lead" =>
        /\ socket = sent
        /\ lead = << >> /\ buffer = << >> /\ line = << >> /\ lines = << >>

\* A frame is read without the buffer, and after a byte that opens no line.
FrameShape ==
    stage = "frame" => buffer = << >> /\ (sent # << >> => Head(sent) # Brace)

\* The line that is being read has no end yet and is not too long, and the
\* first one opens with a brace.
LinesShape ==
    stage = "lines" =>
        /\ \A i \in 1 .. Len(line) : line[i] # Newline
        /\ Len(line) <= Cap
        /\ lines = << >> => Len(Rest) > 0 /\ Rest[1] = Brace

IInv ==
    /\ TypeOK
    /\ NothingYet
    /\ LeadShape
    /\ FrameShape
    /\ LinesShape
    /\ MemoryBounded

-----------------------------------------------------------------------------
(* Lemmas about the operators *)

\* The constants are numbers, and the two bytes are two.
LEMMA ConstantsAreNumbers ==
    /\ Base \in Nat /\ HeaderBytes \in Nat /\ Cap \in Nat /\ MaxBytes \in Nat
    /\ BufSize \in Nat /\ BufSize >= 1 /\ HeaderBytes >= 1
    /\ Brace # LENGTH_PREFIXED_LEAD /\ Byte \subseteq Nat
BY ReaderAssumption DEF Byte, LENGTH_PREFIXED_LEAD

\* What the bytes of a header do to the number that is read.
Shifts(bytes) ==
    [i \in 1 .. HeaderBytes |-> [v \in Nat |-> Base * v + bytes[i]]]

\* The loop of Announced, as a function of how far it went.
LEMMA AnnouncedIsALoop ==
    ASSUME NEW bytes \in Seq(Byte), Len(bytes) >= HeaderBytes
    PROVE  \E f : /\ IsLoop(f, Nat, 0, HeaderBytes, Shifts(bytes))
                  /\ Announced(bytes) = f[HeaderBytes]
<1> DEFINE step == Shifts(bytes)
           Reads(f) ==
               f = [i \in 0 .. HeaderBytes |->
                       IF i = 0 THEN 0 ELSE Base * f[i - 1] + bytes[i]]
<1>1. \A i \in 1 .. HeaderBytes : bytes[i] \in Nat
  <2> SUFFICES ASSUME NEW i \in 1 .. HeaderBytes PROVE bytes[i] \in Nat
    OBVIOUS
  <2>1. i \in 1 .. Len(bytes)
    BY ConstantsAreNumbers
  <2> QED BY <2>1, ElementOfSeq, ConstantsAreNumbers
<1>2. \A i \in 1 .. HeaderBytes : \A v \in Nat : step[i][v] = Base * v + bytes[i]
  BY DEF Shifts
<1>3. step \in [1 .. HeaderBytes -> [Nat -> Nat]]
  <2>1. \A i \in 1 .. HeaderBytes : \A v \in Nat : Base * v + bytes[i] \in Nat
    BY <1>1, ConstantsAreNumbers
  <2> QED BY <2>1 DEF Shifts
<1>3a. PICK f : IsLoop(f, Nat, 0, HeaderBytes, step)
  <2> HIDE DEF step
  <2>1. 0 \in Nat /\ HeaderBytes \in Nat
    BY ConstantsAreNumbers
  <2> QED BY <1>3, <2>1, LoopExists
<1>4. /\ f \in [0 .. HeaderBytes -> Nat] /\ f[0] = 0
      /\ \A i \in 1 .. HeaderBytes : f[i] = step[i][f[i - 1]]
  <2> HIDE DEF step
  <2> QED BY <1>3a DEF IsLoop, Follows
<1>5. Reads(f)
  <2>1. \A i \in 1 .. HeaderBytes : f[i] = Base * f[i - 1] + bytes[i]
    <3> HIDE DEF step
    <3> SUFFICES ASSUME NEW i \in 1 .. HeaderBytes
                 PROVE  f[i] = Base * f[i - 1] + bytes[i]
      OBVIOUS
    <3>1. i - 1 \in 0 .. HeaderBytes
      BY ConstantsAreNumbers
    <3>2. f[i - 1] \in Nat
      BY <1>4, <3>1
    <3> QED BY <1>2, <1>4, <3>2
  <2> QED BY <1>4, <2>1, ConstantsAreNumbers
<1>6. PICK g : g = (CHOOSE h : Reads(h)) /\ Reads(g)
  <2> HIDE DEF Reads
  <2> QED BY <1>5
<1>7. Announced(bytes) = g[HeaderBytes]
  BY <1>6 DEF Announced
<1>8. \A i \in 0 .. HeaderBytes : g[i] = f[i]
  <2>0. g = [i \in 0 .. HeaderBytes |->
                 IF i = 0 THEN 0 ELSE Base * g[i - 1] + bytes[i]]
    BY <1>6
  <2>1. g[0] = 0
    BY <2>0, ConstantsAreNumbers
  <2>2. \A i \in 1 .. HeaderBytes : g[i] = Base * g[i - 1] + bytes[i]
    BY <2>0, ConstantsAreNumbers
  <2> DEFINE apart == {i \in 0 .. HeaderBytes : g[i] # f[i]}
  <2> SUFFICES ASSUME apart # {} PROVE FALSE
    OBVIOUS
  <2>3. PICK k \in apart : \A i \in apart : k <= i
    <3>1. apart \subseteq Nat
      OBVIOUS
    <3> QED BY <3>1, LeastExists
  <2>4. k \in 1 .. HeaderBytes /\ k - 1 \in 0 .. HeaderBytes /\ ~(k <= k - 1)
    <3>1. k \in 0 .. HeaderBytes /\ k # 0
      BY <1>4, <2>1, <2>3
    <3> QED BY <3>1, ConstantsAreNumbers
  <2>5. g[k - 1] = f[k - 1]
    BY <2>3, <2>4
  <2>6. g[k] = Base * g[k - 1] + bytes[k] /\ f[k] = Base * f[k - 1] + bytes[k]
    BY <1>2, <1>4, <2>2, <2>4
  <2> QED BY <2>3, <2>5, <2>6
<1>9. Announced(bytes) = f[HeaderBytes]
  BY <1>7, <1>8, ConstantsAreNumbers
<1> QED BY <1>3a, <1>9

\* read_u32 makes a number of every header.
LEMMA AnnouncedType ==
    ASSUME NEW bytes \in Seq(Byte), Len(bytes) >= HeaderBytes
    PROVE  Announced(bytes) \in Nat
<1>1. PICK f : /\ IsLoop(f, Nat, 0, HeaderBytes, Shifts(bytes))
               /\ Announced(bytes) = f[HeaderBytes]
  BY AnnouncedIsALoop
<1> QED BY <1>1, ConstantsAreNumbers DEF IsLoop

\* t is s and perhaps more.
StartsWith(t, s) == Len(s) <= Len(t) /\ \A i \in 1 .. Len(s) : t[i] = s[i]

\* What comes behind a header and behind a frame changes neither.
LEMMA PrefixFacts ==
    ASSUME NEW s \in Seq(Byte), NEW t \in Seq(Byte), StartsWith(t, s),
           Len(s) >= HeaderBytes
    PROVE  /\ Announced(t) = Announced(s)
           /\ \A n \in HeaderBytes .. Len(s) :
                  SubSeq(t, HeaderBytes + 1, n) = SubSeq(s, HeaderBytes + 1, n)
<1>1. /\ Len(s) \in Nat /\ Len(t) \in Nat /\ Len(t) >= HeaderBytes
      /\ Len(s) <= Len(t) /\ HeaderBytes \in Nat
      /\ \A i \in 1 .. Len(s) : t[i] = s[i]
  BY LenProperties, ConstantsAreNumbers DEF StartsWith
<1>2. Announced(t) = Announced(s)
  <2>1. PICK f : /\ IsLoop(f, Nat, 0, HeaderBytes, Shifts(s))
                 /\ Announced(s) = f[HeaderBytes]
    BY AnnouncedIsALoop
  <2>2. PICK g : /\ IsLoop(g, Nat, 0, HeaderBytes, Shifts(t))
                 /\ Announced(t) = g[HeaderBytes]
    BY <1>1, AnnouncedIsALoop
  <2>3. Shifts(s) = Shifts(t)
    <3>1. \A i \in 1 .. HeaderBytes : s[i] = t[i]
      BY <1>1
    <3> QED BY <3>1, Zenon DEF Shifts
  <2>4. \A i \in 0 .. HeaderBytes : f[i] = g[i]
    <3> DEFINE step == Shifts(s)
    <3>1. /\ HeaderBytes \in Nat /\ f[0] = g[0]
          /\ Follows(f, HeaderBytes, step) /\ Follows(g, HeaderBytes, step)
      BY <1>1, <2>1, <2>2, <2>3 DEF IsLoop
    <3> HIDE DEF step
    <3> QED BY ONLY <3>1, LoopsAgree
  <2> QED BY <1>1, <2>1, <2>2, <2>4
<1>3. ASSUME NEW n \in HeaderBytes .. Len(s)
      PROVE  SubSeq(t, HeaderBytes + 1, n) = SubSeq(s, HeaderBytes + 1, n)
  <2> DEFINE x == SubSeq(t, HeaderBytes + 1, n)
             y == SubSeq(s, HeaderBytes + 1, n)
  <2>1. /\ x \in Seq(Byte) /\ Len(x) = n - HeaderBytes
        /\ \A i \in 1 .. n - HeaderBytes : x[i] = t[HeaderBytes + i]
    BY <1>1
  <2>2. /\ y \in Seq(Byte) /\ Len(y) = n - HeaderBytes
        /\ \A i \in 1 .. n - HeaderBytes : y[i] = s[HeaderBytes + i]
    BY <1>1
  <2>3. \A i \in 1 .. n - HeaderBytes : t[HeaderBytes + i] = s[HeaderBytes + i]
    BY <1>1
  <2> HIDE DEF x, y
  <2>4. x = y
    BY <2>1, <2>2, <2>3, SeqEqual
  <2> QED BY <2>4 DEF x, y
<1> QED BY <1>2, <1>3

\* The grouping does not matter.
LEMMA PendingIsRest ==
    ASSUME TypeOK
    PROVE  Pending = Rest
<1>1. /\ line \in Seq(Byte) /\ buffer \in Seq(Byte)
      /\ lead \in Seq(Byte) /\ socket \in Seq(Byte)
  BY DEF TypeOK
<1>2. Cat(line, buffer) \in Seq(Byte)
  BY <1>1, CatFacts
<1>3. Cat(Cat(Cat(line, buffer), lead), socket) = Rest
  BY <1>1, <1>2, CatAssociative DEF Rest
<1> QED BY <1>3 DEF Cat, Pending

\* A read takes bytes away from the front of the stream.
LEMMA TakeFacts ==
    ASSUME TypeOK, NEW n, Take(n)
    PROVE  /\ n \in Nat /\ n >= 1
           /\ SubSeq(Available, 1, n) \in Seq(Byte)
           /\ Len(SubSeq(Available, 1, n)) = n
           /\ lead' \in Seq(Byte) /\ Len(lead') <= 1 /\ socket' \in Seq(Byte)
           /\ Cat(SubSeq(Available, 1, n), Cat(lead', socket')) = Cat(lead, socket)
<1>1. lead \in Seq(Byte) /\ socket \in Seq(Byte) /\ Len(lead) <= 1
  BY DEF TypeOK
<1>2. CASE lead # << >>
  <2>1. Len(lead) = 1 /\ n = 1
    <3>1. n \in 1 .. Len(lead)
      BY <1>2 DEF Take, Available
    <3>2. Len(lead) \in Nat
      BY <1>1, LenProperties
    <3>3. \A k \in Nat : k <= 1 /\ n \in 1 .. k => k = 1 /\ n = 1
      OBVIOUS
    <3> QED BY <1>1, <3>1, <3>2, <3>3
  <2>2. SubSeq(Available, 1, n) = lead
    BY <1>1, <1>2, <2>1, SubSeqFull DEF Available
  <2>3. lead' = << >> /\ socket' = socket
    BY <1>2 DEF Take
  <2>4. Cat(<< >>, socket) = socket
    BY <1>1, CatEmpty
  <2>5. << >> \in Seq(Byte) /\ Len(<< >>) = 0
    BY EmptySeq
  <2>6. Cat(SubSeq(Available, 1, n), Cat(lead', socket')) = Cat(lead, socket)
    BY <2>2, <2>3, <2>4
  <2>7. lead' \in Seq(Byte) /\ Len(lead') <= 1 /\ socket' \in Seq(Byte)
    BY <1>1, <2>3, <2>5
  <2>8. SubSeq(Available, 1, n) \in Seq(Byte) /\ Len(SubSeq(Available, 1, n)) = n
    BY <1>1, <2>1, <2>2
  <2> QED BY <2>1, <2>6, <2>7, <2>8
<1>3. CASE lead = << >>
  <2>1. /\ Len(socket) \in Nat /\ n \in 1 .. Len(socket)
        /\ lead' = << >> /\ socket' = SubSeq(socket, n + 1, Len(socket))
        /\ Available = socket
    BY <1>1, <1>3, LenProperties DEF Take, Available
  <2>2. SubSeq(socket, 1, n) \in Seq(Byte) /\ Len(SubSeq(socket, 1, n)) = n
    BY <1>1, <2>1
  <2>3. socket' \in Seq(Byte)
    BY <1>1, <2>1
  <2>4. Cat(SubSeq(socket, 1, n), SubSeq(socket, n + 1, Len(socket))) = socket
    <3>1. /\ 1 \in 1 .. Len(socket) + 1 /\ n \in 1 - 1 .. Len(socket)
          /\ Len(socket) \in n .. Len(socket)
      BY <2>1
    <3>2. SubSeq(socket, 1, n) \o SubSeq(socket, n + 1, Len(socket))
              = SubSeq(socket, 1, Len(socket))
      BY <1>1, <3>1, ConcatAdjacentSubSeq
    <3> QED BY <1>1, <3>2, SubSeqFull DEF Cat
  <2>5. Cat(<< >>, socket') = socket' /\ Cat(<< >>, socket) = socket
    BY <1>1, <2>3, CatEmpty
  <2>6. << >> \in Seq(Byte) /\ Len(<< >>) = 0
    BY EmptySeq
  <2>7. Cat(SubSeq(Available, 1, n), Cat(lead', socket')) = Cat(lead, socket)
    <3>1. Cat(lead', socket') = socket'
      BY <2>1, <2>5
    <3>2. Cat(SubSeq(socket, 1, n), socket') = socket
      BY <2>1, <2>4, Zenon
    <3> QED BY <1>3, <2>1, <2>5, <3>1, <3>2, Zenon
  <2>8. lead' \in Seq(Byte) /\ Len(lead') <= 1
    BY <2>1, <2>6
  <2>9. /\ SubSeq(Available, 1, n) \in Seq(Byte)
        /\ Len(SubSeq(Available, 1, n)) = n
    BY <2>1, <2>2, Zenon
  <2>10. n \in Nat /\ n >= 1
    BY <2>1
  <2> QED BY <2>3, <2>7, <2>8, <2>9, <2>10
<1> QED BY <1>2, <1>3

\* Where the first newline of the buffer is.
LEMMA FirstNewline ==
    ASSUME TypeOK, Newline \in Range(buffer)
    PROVE  LET i == SelectInSeq(buffer, LAMBDA byte : byte = Newline) IN
           /\ i \in 1 .. Len(buffer)
           /\ buffer[i] = Newline
           /\ \A j \in 1 .. Len(buffer) : j < i => buffer[j] # Newline
<1> DEFINE I == {i \in 1 .. Len(buffer) : buffer[i] = Newline}
<1>1. buffer \in Seq(Byte) /\ Len(buffer) \in Nat /\ DOMAIN buffer = 1 .. Len(buffer)
  BY LenProperties DEF TypeOK
<1>2. I # {} /\ I \subseteq Nat
  BY <1>1 DEF Range
<1>3. SelectInSeq(buffer, LAMBDA byte : byte = Newline)
          = CHOOSE i \in I : \A j \in I : i <= j
  BY <1>2 DEF SelectInSeq, Min
<1>4. PICK i \in I : /\ \A j \in I : i <= j
                     /\ i = CHOOSE k \in I : \A j \in I : k <= j
  <2> HIDE DEF I
  <2>1. \E k \in I : \A j \in I : k <= j
    BY <1>2, LeastExists
  <2> QED BY <2>1
<1>5. \A j \in 1 .. Len(buffer) : j < i => buffer[j] # Newline
  <2> SUFFICES ASSUME NEW j \in 1 .. Len(buffer), j < i, buffer[j] = Newline
               PROVE  FALSE
    OBVIOUS
  <2>1. j \in I /\ i \in Nat /\ j \in Nat
    BY <1>2
  <2> QED BY <1>4, <2>1
<1> QED BY <1>3, <1>4, <1>5

\* What TypeOK says, as facts about each sequence.
LEMMA Types ==
    ASSUME TypeOK
    PROVE  /\ sent \in Seq(Byte) /\ Len(sent) \in Nat /\ Len(sent) <= MaxBytes
           /\ socket \in Seq(Byte) /\ Len(socket) \in Nat
           /\ lead \in Seq(Byte) /\ Len(lead) \in Nat /\ Len(lead) <= 1
           /\ buffer \in Seq(Byte) /\ Len(buffer) \in Nat /\ Len(buffer) <= BufSize
           /\ line \in Seq(Byte) /\ Len(line) \in Nat
           /\ lines \in Seq(Seq(Byte)) /\ frame \in Seq(Seq(Byte))
<1>1. /\ sent \in Seq(Byte) /\ socket \in Seq(Byte) /\ lead \in Seq(Byte)
      /\ buffer \in Seq(Byte) /\ line \in Seq(Byte)
  BY DEF TypeOK
<1>2. \A s \in Seq(Byte) : Len(s) \in Nat
  BY LenProperties
<1> QED BY <1>1, <1>2 DEF TypeOK

\* One more line was handed on.
LEMMA MoreLines ==
    ASSUME TypeOK, NEW l \in Seq(Byte)
    PROVE  /\ Append(lines, l) \in Seq(Seq(Byte)) /\ Append(lines, l) # << >>
<1>1. lines \in Seq(Seq(Byte))
  BY Types
<1> DEFINE S == Seq(Byte)
<1>2. lines \in Seq(S) /\ l \in S
  BY <1>1
<1> HIDE DEF S
<1>3. Append(lines, l) \in Seq(S) /\ Append(lines, l) # << >>
  BY <1>2, AppendProperties
<1> QED BY <1>3 DEF S

-----------------------------------------------------------------------------
(* What a step does to the stream *)

\* The stream is one of bytes.
LEMMA RestType ==
    ASSUME TypeOK
    PROVE  /\ Rest \in Seq(Byte)
           /\ Cat(line, buffer) \in Seq(Byte) /\ Cat(lead, socket) \in Seq(Byte)
           /\ Len(Rest) = Len(line) + Len(buffer) + Len(lead) + Len(socket)
<1>1. /\ Cat(line, buffer) \in Seq(Byte) /\ Cat(lead, socket) \in Seq(Byte)
      /\ Len(Cat(line, buffer)) = Len(line) + Len(buffer)
      /\ Len(Cat(lead, socket)) = Len(lead) + Len(socket)
  BY Types, CatFacts
<1>2. /\ Rest \in Seq(Byte)
      /\ Len(Rest) = Len(Cat(line, buffer)) + Len(Cat(lead, socket))
  <2>1. \A s, t \in Seq(Byte) :
            Cat(s, t) \in Seq(Byte) /\ Len(Cat(s, t)) = Len(s) + Len(t)
    BY CatFacts
  <2> QED BY <1>1, <2>1, Zenon DEF Rest
<1> QED BY <1>1, <1>2, Types

\* A byte the client writes is the last one of the stream.
LEMMA WriteGrowsTheStream ==
    ASSUME TypeOK, NEW byte \in Byte, Write(byte)
    PROVE  Rest' = Append(Rest, byte)
<1>1. Rest' = Cat(Cat(line, buffer), Cat(lead, Append(socket, byte)))
  BY DEF Rest, Write
<1>2. Cat(lead, Append(socket, byte)) = Append(Cat(lead, socket), byte)
  BY Types, CatAppend
<1>3. Cat(Cat(line, buffer), Append(Cat(lead, socket), byte)) = Append(Rest, byte)
  BY RestType, CatAppend DEF Rest
<1> QED BY <1>1, <1>2, <1>3

\* The first byte is put back where it was.
LEMMA LeadKeepsTheStream ==
    ASSUME TypeOK, LeadShape, Lead
    PROVE  /\ Rest' = Rest /\ Rest = socket
           /\ lead' \in Seq(Byte) /\ Len(lead') = 1 /\ socket' \in Seq(Byte)
           /\ Len(socket) > 0 /\ socket[1] = Head(socket)
<1>1. /\ socket \in Seq(Byte) /\ socket # << >>
      /\ lead = << >> /\ buffer = << >> /\ line = << >>
      /\ lead' = <<Head(socket)>> /\ socket' = Tail(socket)
      /\ buffer' = << >> /\ line' = << >>
  BY Types DEF Lead, LeadShape
<1>2. /\ Head(socket) \in Byte /\ Tail(socket) \in Seq(Byte)
      /\ Len(socket) > 0 /\ Head(socket) = socket[1]
  BY <1>1, HeadTailProperties, EmptySeq
<1>3. lead' \in Seq(Byte) /\ Len(lead') = 1
  BY <1>1, <1>2
<1>4. Cat(<< >>, socket) = socket /\ Cat(<< >>, << >>) = << >>
  BY <1>1, EmptySeq, CatEmpty
<1>5. Rest = socket
  BY <1>1, <1>4 DEF Rest
<1>6. Cat(<<Head(socket)>>, Tail(socket)) = socket
  BY <1>1, CatHeadTail
<1>7. Rest' = socket
  BY <1>1, <1>4, <1>6 DEF Rest
<1> QED BY <1>1, <1>2, <1>3, <1>5, <1>7

\* A chunk goes from the socket into an empty buffer.
LEMMA FillBufKeepsTheStream ==
    ASSUME TypeOK, FillBuf
    PROVE  /\ Rest' = Rest
           /\ lead' \in Seq(Byte) /\ Len(lead') <= 1 /\ socket' \in Seq(Byte)
           /\ buffer' \in Seq(Byte) /\ Len(buffer') <= BufSize
<1>1. PICK n \in 1 .. BufSize :
          Take(n) /\ buffer' = SubSeq(Available, 1, n)
  BY DEF FillBuf
<1>2. /\ buffer' \in Seq(Byte) /\ Len(buffer') = n /\ n <= BufSize
      /\ lead' \in Seq(Byte) /\ Len(lead') <= 1 /\ socket' \in Seq(Byte)
      /\ Cat(buffer', Cat(lead', socket')) = Cat(lead, socket)
  <2>1. n \in Nat /\ n <= BufSize
    BY ConstantsAreNumbers
  <2> QED BY <1>1, <2>1, TakeFacts
<1>3. line' = line /\ line \in Seq(Byte) /\ buffer = << >>
  BY Types DEF FillBuf
<1>4. Cat(lead', socket') \in Seq(Byte)
  BY <1>2, CatFacts
<1>5. Cat(Cat(line, buffer'), Cat(lead', socket')) = Cat(line, Cat(lead, socket))
  BY <1>2, <1>3, <1>4, CatAssociative
<1>6. Cat(line, << >>) = line
  BY <1>3, CatEmpty
<1> QED BY <1>2, <1>3, <1>5, <1>6 DEF Rest

\* A chunk without a newline goes from the buffer into the line.
LEMMA GrowLineKeepsTheStream ==
    ASSUME TypeOK, GrowLine
    PROVE  /\ Rest' = Rest
           /\ line' \in Seq(Byte) /\ Len(line') = Len(line) + Len(buffer)
           /\ (\A i \in 1 .. Len(line) : line[i] # Newline)
                  => \A i \in 1 .. Len(line') : line'[i] # Newline
<1>1. /\ line' = Cat(line, buffer) /\ buffer' = << >> /\ lead' = lead
      /\ socket' = socket /\ Newline \notin Range(buffer)
  BY DEF GrowLine, Cat
<1>2. /\ line' \in Seq(Byte) /\ Len(line') = Len(line) + Len(buffer)
      /\ \A i \in 1 .. Len(line) + Len(buffer) :
             line'[i] = IF i <= Len(line) THEN line[i] ELSE buffer[i - Len(line)]
  BY <1>1, Types, CatFacts
<1>3. \A i \in 1 .. Len(buffer) : buffer[i] # Newline
  BY <1>1, Types, LenProperties DEF Range
<1>4. ASSUME \A i \in 1 .. Len(line) : line[i] # Newline, NEW i \in 1 .. Len(line')
      PROVE  line'[i] # Newline
  <2>0. i \in 1 .. Len(line) + Len(buffer)
    BY <1>2
  <2>1. CASE i <= Len(line)
    <3>1. i \in 1 .. Len(line)
      BY <2>0, <2>1, Types
    <3> QED BY <1>2, <1>4, <2>0, <2>1, <3>1
  <2>2. CASE ~(i <= Len(line))
    <3>1. i - Len(line) \in 1 .. Len(buffer)
      BY <2>0, <2>2, Types
    <3> QED BY <1>2, <1>3, <2>0, <2>2, <3>1
  <2> QED BY <2>1, <2>2
<1>5. Cat(line', << >>) = line'
  BY <1>2, CatEmpty
<1>6. Rest' = Rest
  BY <1>1, <1>5 DEF Rest
<1> QED BY <1>2, <1>4, <1>6

\* A part of a frame goes from the socket into the frame.
LEMMA ReadFrameKeepsTheStream ==
    ASSUME TypeOK, buffer = << >>, ReadFrame
    PROVE  /\ Rest' = Rest
           /\ lead' \in Seq(Byte) /\ Len(lead') <= 1 /\ socket' \in Seq(Byte)
           /\ line' \in Seq(Byte)
<1>1. PICK n \in 1 .. Wanted :
          Take(n) /\ line' = line \o SubSeq(Available, 1, n)
  BY DEF ReadFrame
<1> DEFINE chunk == SubSeq(Available, 1, n)
<1>2. /\ chunk \in Seq(Byte)
      /\ lead' \in Seq(Byte) /\ Len(lead') <= 1 /\ socket' \in Seq(Byte)
      /\ Cat(chunk, Cat(lead', socket')) = Cat(lead, socket)
  BY <1>1, TakeFacts
<1>3. line' = Cat(line, chunk) /\ buffer' = << >>
  BY <1>1 DEF ReadFrame, Cat
<1> HIDE DEF chunk
<1>4. line' \in Seq(Byte) /\ line \in Seq(Byte)
  BY <1>2, <1>3, Types, CatFacts
<1>5. Cat(lead', socket') \in Seq(Byte)
  BY <1>2, CatFacts
<1>6. Cat(line, << >>) = line /\ Cat(line', << >>) = line'
  BY <1>4, CatEmpty
<1>7. Cat(Cat(line, chunk), Cat(lead', socket')) = Cat(line, Cat(lead, socket))
  BY <1>2, <1>4, <1>5, CatAssociative
<1>8. Rest' = Rest
  BY <1>3, <1>6, <1>7 DEF Rest
<1> QED BY <1>2, <1>4, <1>8

-----------------------------------------------------------------------------
(* The invariant is inductive *)

\* Nothing is read or written in the beginning.
LEMMA InitIInv == Init => IInv
<1> SUFFICES ASSUME Init PROVE IInv
  OBVIOUS
<1>1. << >> \in Seq(Byte) /\ << >> \in Seq(Seq(Byte)) /\ Len(<< >>) = 0
  BY EmptySeq
<1>2. TypeOK
  BY <1>1, ConstantsAreNumbers DEF Init, TypeOK
<1>3. NothingYet /\ LeadShape /\ FrameShape /\ LinesShape
  BY DEF Init, NothingYet, LeadShape, FrameShape, LinesShape
<1>4. MemoryBounded
  BY DEF Init, MemoryBounded
<1> QED BY <1>2, <1>3, <1>4 DEF IInv

\* What the client writes later changes neither the first byte nor the line.
LEMMA WriteStep ==
    ASSUME IInv, NEW byte \in Byte, Write(byte)
    PROVE  IInv'
<1>0. /\ TypeOK /\ NothingYet /\ LeadShape /\ FrameShape /\ LinesShape
      /\ MemoryBounded
  BY DEF IInv
<1>1. /\ Len(sent) < MaxBytes
      /\ sent' = Append(sent, byte) /\ socket' = Append(socket, byte)
      /\ UNCHANGED <<peer, stage, lead, buffer, line, lines, frame>>
  BY DEF Write
<1>2. /\ sent' \in Seq(Byte) /\ sent' # << >> /\ Len(sent') = Len(sent) + 1
      /\ socket' \in Seq(Byte)
      /\ Head(sent') = IF sent = << >> THEN byte ELSE Head(sent)
  BY <1>0, <1>1, Types, AppendProperties, HeadTailAppend
<1>3. TypeOK'
  <2>1. Len(sent') <= MaxBytes
    BY <1>0, <1>1, <1>2, Types, ConstantsAreNumbers
  <2> QED BY <1>0, <1>1, <1>2, <2>1 DEF TypeOK
<1>4. NothingYet'
  BY <1>2 DEF NothingYet
<1>5. LeadShape'
  BY <1>0, <1>1 DEF LeadShape
<1>6. FrameShape'
  BY <1>0, <1>1, <1>2 DEF FrameShape, NothingYet
<1>7. LinesShape'
  <2>1. /\ Rest' = Append(Rest, byte) /\ Rest \in Seq(Byte)
        /\ Len(Rest) \in Nat
    BY <1>0, WriteGrowsTheStream, RestType, LenProperties
  <2>2. Len(Rest') = Len(Rest) + 1
        /\ \A i \in 1 .. Len(Rest) : Rest'[i] = Rest[i]
    BY <2>1, AppendProperties
  <2>3. Len(Rest) > 0 => Len(Rest') > 0 /\ Rest'[1] = Rest[1]
    BY <2>1, <2>2
  <2> QED BY <1>0, <1>1, <2>3 DEF LinesShape
<1>8. MemoryBounded'
  <2>1. sent = << >> => Len(line) = 0
    BY <1>0, EmptySeq DEF NothingYet
  <2>2. Head(sent') = Brace => Len(line) <= Cap + BufSize
    BY <1>0, <1>2, <2>1, ConstantsAreNumbers DEF MemoryBounded
  <2> QED BY <1>0, <1>1, <2>2 DEF MemoryBounded
<1> QED BY <1>3, <1>4, <1>5, <1>6, <1>7, <1>8 DEF IInv

\* A client that hangs up takes nothing back.
LEMMA HangUpStep ==
    ASSUME IInv, NEW how \in {"eof", "broken"}, HangUp(how)
    PROVE  IInv'
<1>1. /\ UNCHANGED <<sent, socket, stage, lead, buffer, line, lines, frame>>
      /\ peer' \in {"open", "eof", "broken"}
  BY DEF HangUp
<1>2. Rest' = Rest
  BY <1>1 DEF Rest
<1> QED BY <1>1, <1>2 DEF IInv, TypeOK, NothingYet, LeadShape, FrameShape,
           LinesShape, MemoryBounded

\* The first byte decides: lines open with a brace, frames with another byte.
LEMMA LeadStep ==
    ASSUME IInv, Lead
    PROVE  IInv'
<1>0. TypeOK /\ LeadShape
  BY DEF IInv
<1>1. /\ UNCHANGED <<sent, peer, buffer, line, lines, frame>>
      /\ stage = "lead" /\ socket # << >>
      /\ stage' = CASE Head(socket) = LENGTH_PREFIXED_LEAD -> "frame"
                    [] Head(socket) = Brace                -> "lines"
                    [] OTHER                               -> "done"
  BY DEF Lead
<1>2. /\ socket = sent /\ line = << >> /\ buffer = << >> /\ lines = << >>
      /\ Len(line) = 0
  BY <1>0, <1>1, EmptySeq DEF LeadShape
<1>3. /\ Rest' = Rest /\ Rest = socket
      /\ lead' \in Seq(Byte) /\ Len(lead') = 1 /\ socket' \in Seq(Byte)
      /\ Len(socket) > 0 /\ socket[1] = Head(socket)
  BY <1>0, LeadKeepsTheStream
<1>4. /\ stage' \in {"frame", "lines", "done"}
      /\ stage' = "frame" => Head(socket) = LENGTH_PREFIXED_LEAD
      /\ stage' = "lines" => Head(socket) = Brace
  BY <1>1
<1>5. TypeOK'
  BY <1>0, <1>1, <1>3, <1>4 DEF TypeOK
<1>6. NothingYet' /\ LeadShape'
  BY <1>1, <1>2, <1>4 DEF NothingYet, LeadShape
<1>7. FrameShape'
  BY <1>1, <1>2, <1>4, ConstantsAreNumbers DEF FrameShape
<1>8. LinesShape'
  BY <1>1, <1>2, <1>3, <1>4, ConstantsAreNumbers DEF LinesShape
<1>9. MemoryBounded'
  BY <1>1, <1>2, ConstantsAreNumbers DEF MemoryBounded
<1> QED BY <1>5, <1>6, <1>7, <1>8, <1>9 DEF IInv

\* A chunk in the buffer is not in the line yet.
LEMMA FillBufStep ==
    ASSUME IInv, FillBuf
    PROVE  IInv'
<1>0. TypeOK
  BY DEF IInv
<1>1. UNCHANGED <<sent, peer, stage, line, lines, frame>> /\ stage = "lines"
  BY DEF FillBuf
<1>2. /\ Rest' = Rest
      /\ lead' \in Seq(Byte) /\ Len(lead') <= 1 /\ socket' \in Seq(Byte)
      /\ buffer' \in Seq(Byte) /\ Len(buffer') <= BufSize
  BY <1>0, FillBufKeepsTheStream
<1>3. TypeOK'
  BY <1>0, <1>1, <1>2 DEF TypeOK
<1> QED BY <1>1, <1>2, <1>3 DEF IInv, NothingYet, LeadShape, FrameShape,
           LinesShape, MemoryBounded

\* The next line begins empty.
LEMMA EndLineStep ==
    ASSUME IInv, EndLine
    PROVE  IInv'
<1> DEFINE i == SelectInSeq(buffer, LAMBDA byte : byte = Newline)
<1>0. TypeOK /\ NothingYet
  BY DEF IInv
<1>1. /\ UNCHANGED <<sent, peer, socket, stage, lead, frame>> /\ stage = "lines"
      /\ lines' = Append(lines, line \o SubSeq(buffer, 1, i - 1))
      /\ buffer' = SubSeq(buffer, i + 1, Len(buffer))
      /\ line' = << >>
      /\ Newline \in Range(buffer)
  BY DEF EndLine
<1>2. i \in 1 .. Len(buffer)
  BY <1>0, <1>1, FirstNewline
<1> HIDE DEF i
<1>3. /\ SubSeq(buffer, 1, i - 1) \in Seq(Byte)
      /\ buffer' \in Seq(Byte) /\ Len(buffer') <= BufSize
  BY <1>0, <1>1, <1>2, Types, ConstantsAreNumbers
<1>4. lines' \in Seq(Seq(Byte)) /\ lines' # << >>
  <2>1. line \o SubSeq(buffer, 1, i - 1) \in Seq(Byte)
    BY <1>0, <1>3, Types, ConcatProperties
  <2> QED BY <1>0, <1>1, <2>1, MoreLines, Zenon
<1>5. line' \in Seq(Byte) /\ Len(line') = 0
  BY <1>1, EmptySeq
<1>6. TypeOK'
  BY <1>0, <1>1, <1>3, <1>4, <1>5 DEF TypeOK
<1>7. NothingYet' /\ LeadShape' /\ FrameShape'
  BY <1>0, <1>1 DEF NothingYet, LeadShape, FrameShape
<1>8. LinesShape'
  BY <1>4, <1>5, ConstantsAreNumbers DEF LinesShape
<1>9. MemoryBounded'
  BY <1>1, <1>5, ConstantsAreNumbers DEF MemoryBounded
<1> QED BY <1>6, <1>7, <1>8, <1>9 DEF IInv

\* A line within the cap grows by a chunk at most, and then is within the cap
\* again or the last one.
LEMMA GrowLineStep ==
    ASSUME IInv, GrowLine
    PROVE  IInv'
<1>0. TypeOK /\ NothingYet /\ LinesShape
  BY DEF IInv
<1>1. /\ UNCHANGED <<sent, peer, socket, lead, lines, frame>>
      /\ stage = "lines" /\ buffer' = << >>
      /\ stage' = IF Len(line') > Cap THEN "done" ELSE "lines"
  BY DEF GrowLine
<1>2. /\ Rest' = Rest
      /\ line' \in Seq(Byte) /\ Len(line') = Len(line) + Len(buffer)
      /\ (\A i \in 1 .. Len(line) : line[i] # Newline)
             => \A i \in 1 .. Len(line') : line'[i] # Newline
  BY <1>0, GrowLineKeepsTheStream
<1>3. /\ Len(line) <= Cap /\ Len(line) \in Nat
      /\ Len(buffer) <= BufSize /\ Len(buffer) \in Nat
  BY <1>0, <1>1, Types DEF LinesShape
<1>4. Len(line') <= Cap + BufSize /\ Len(line') \in Nat
  BY <1>2, <1>3, ConstantsAreNumbers
<1>5. TypeOK'
  <2>1. << >> \in Seq(Byte) /\ Len(<< >>) <= BufSize
    BY EmptySeq, ConstantsAreNumbers
  <2> QED BY <1>0, <1>1, <1>2, <2>1 DEF TypeOK
<1>6. NothingYet' /\ LeadShape' /\ FrameShape'
  BY <1>0, <1>1 DEF NothingYet, LeadShape, FrameShape
<1>7. LinesShape'
  <2>1. stage' = "lines" => Len(line') <= Cap
    BY <1>1, <1>4, ConstantsAreNumbers
  <2> QED BY <1>0, <1>1, <1>2, <2>1 DEF LinesShape
<1>8. MemoryBounded'
  BY <1>1, <1>4 DEF MemoryBounded
<1> QED BY <1>5, <1>6, <1>7, <1>8 DEF IInv

\* The end of the stream ends the last line.
LEMMA EndOfLinesStep ==
    ASSUME IInv, EndOfLines
    PROVE  IInv'
<1>0. TypeOK /\ NothingYet
  BY DEF IInv
<1>1. UNCHANGED <<sent, peer, socket, lead, buffer, frame>> /\ stage = "lines"
  BY DEF EndOfLines
<1>2. CASE /\ lines' = Append(lines, line) /\ line' = << >> /\ stage' = stage
  <2>1. /\ lines' \in Seq(Seq(Byte)) /\ lines' # << >>
        /\ line' \in Seq(Byte) /\ Len(line') = 0
    <3>1. line \in Seq(Byte)
      BY <1>0, Types
    <3>2. lines' \in Seq(Seq(Byte)) /\ lines' # << >>
      BY <1>0, <1>2, <3>1, MoreLines, Zenon
    <3> QED BY <1>2, <3>2, EmptySeq
  <2>2. TypeOK'
    BY <1>0, <1>1, <1>2, <2>1 DEF TypeOK
  <2>3. NothingYet' /\ LeadShape' /\ FrameShape'
    BY <1>0, <1>1, <1>2 DEF NothingYet, LeadShape, FrameShape
  <2>4. LinesShape'
    BY <2>1, ConstantsAreNumbers DEF LinesShape
  <2>5. MemoryBounded'
    BY <1>1, <1>2, <2>1, ConstantsAreNumbers DEF MemoryBounded
  <2> QED BY <2>2, <2>3, <2>4, <2>5 DEF IInv
<1>3. CASE stage' = "done" /\ UNCHANGED <<line, lines>>
  BY <1>1, <1>3 DEF IInv, TypeOK, NothingYet, LeadShape, FrameShape,
     LinesShape, MemoryBounded
<1> QED BY <1>2, <1>3 DEF EndOfLines

\* A frame is given up before it grows beyond the cap.
LEMMA ReadFrameStep ==
    ASSUME IInv, ReadFrame
    PROVE  IInv'
<1>0. TypeOK /\ NothingYet /\ FrameShape
  BY DEF IInv
<1>1. /\ UNCHANGED <<sent, peer, buffer, lines, frame>>
      /\ stage = "frame" /\ buffer = << >>
      /\ stage' = IF Len(line') >= HeaderBytes /\ Announced(line') > Cap
                  THEN "done" ELSE "frame"
  BY <1>0 DEF ReadFrame, FrameShape
<1>2. /\ lead' \in Seq(Byte) /\ Len(lead') <= 1 /\ socket' \in Seq(Byte)
      /\ line' \in Seq(Byte)
  BY <1>0, <1>1, ReadFrameKeepsTheStream
<1>3. stage' \in {"frame", "done"}
  BY <1>1
<1>4. TypeOK'
  BY <1>0, <1>1, <1>2, <1>3 DEF TypeOK
<1>5. sent # << >> /\ Head(sent) # Brace
  BY <1>0, <1>1 DEF NothingYet, FrameShape
<1>6. NothingYet' /\ LeadShape' /\ FrameShape' /\ LinesShape'
  BY <1>1, <1>3, <1>5 DEF NothingYet, LeadShape, FrameShape, LinesShape
<1>7. stage' = "frame" /\ Len(line') >= HeaderBytes => Announced(line') <= Cap
  <2>1. Len(line') >= HeaderBytes => Announced(line') \in Nat
    BY <1>2, AnnouncedType
  <2> QED BY <1>1, <2>1, ConstantsAreNumbers
<1>8. MemoryBounded'
  BY <1>1, <1>5, <1>7 DEF MemoryBounded
<1> QED BY <1>4, <1>6, <1>8 DEF IInv

\* The frame is done with.
LEMMA EndFrameStep ==
    ASSUME IInv, EndFrame
    PROVE  IInv'
<1>0. TypeOK
  BY DEF IInv
<1>1. /\ UNCHANGED <<sent, peer, socket, lead, buffer, line, lines>>
      /\ stage = "frame" /\ stage' = "done"
      /\ frame' = <<SubSeq(line, HeaderBytes + 1, Len(line))>>
  BY DEF EndFrame
<1>2. SubSeq(line, HeaderBytes + 1, Len(line)) \in Seq(Byte)
  BY <1>0, Types, ConstantsAreNumbers
<1>3. TypeOK'
  BY <1>0, <1>1, <1>2 DEF TypeOK
<1> QED BY <1>1, <1>3 DEF IInv, NothingYet, LeadShape, FrameShape, LinesShape,
           MemoryBounded

\* So is the connection.
LEMMA EndEarlyStep ==
    ASSUME IInv, EndEarly
    PROVE  IInv'
<1>1. /\ UNCHANGED <<sent, peer, socket, lead, buffer, line, lines, frame>>
      /\ stage \in {"lead", "frame"} /\ stage' = "done"
  BY DEF EndEarly
<1> QED BY <1>1 DEF IInv, TypeOK, NothingYet, LeadShape, FrameShape, LinesShape,
           MemoryBounded

\* Every step keeps the invariant.
LEMMA StepIInv == IInv /\ [Next]_vars => IInv'
<1> SUFFICES ASSUME IInv, [Next]_vars PROVE IInv'
  OBVIOUS
<1>1. CASE Reader
  BY <1>1, LeadStep, FillBufStep, EndLineStep, GrowLineStep, EndOfLinesStep,
     ReadFrameStep, EndFrameStep, EndEarlyStep DEF Reader
<1>2. CASE UNCHANGED vars
  <2>1. UNCHANGED <<sent, peer, socket, stage, lead, buffer, line, lines, frame>>
    BY <1>2 DEF vars
  <2> QED BY <2>1 DEF IInv, TypeOK, NothingYet, LeadShape, FrameShape,
             LinesShape, MemoryBounded, Rest
<1> QED BY <1>1, <1>2, WriteStep, HangUpStep DEF Next

\* The invariant holds in every reachable state.
LEMMA Invariance == Spec => []IInv
<1>1. Init => IInv
  BY InitIInv
<1>2. IInv /\ [Next]_vars => IInv'
  BY StepIInv
<1> QED BY <1>1, <1>2, PTL DEF Spec

\* Whatever the client writes, and however it is cut into chunks, every
\* variable of the reader keeps its type (server.rs:341-385, framing.rs:45-65).
THEOREM TypeCorrect == Spec => []TypeOK
<1>1. IInv => TypeOK
  BY DEF IInv
<1> QED BY <1>1, Invariance, PTL

\* A line that is being read never holds more than the cap and one chunk, and a
\* frame is never longer than the cap (server.rs:341-350, framing.rs:50-58).
THEOREM ReadersAreBounded == Spec => []MemoryBounded
<1>1. IInv => MemoryBounded
  BY DEF IInv
<1> QED BY <1>1, Invariance, PTL

-----------------------------------------------------------------------------
(* The reader implements the stream of lines *)

\* The stream p is cut in two at the newline that follows its first n elements:
\* the end of a and of b's first i - 1, when p is a \o b \o c.
Cut(a, b, c, i, p, n) ==
    /\ n \in 0 .. Len(p) - 1 /\ p[n + 1] = b[i]
    /\ SubSeq(p, 1, n) = Cat(a, SubSeq(b, 1, i - 1))
    /\ SubSeq(p, n + 2, Len(p)) = Cat(SubSeq(b, i + 1, Len(b)), c)
    /\ \A j \in 1 .. n : p[j] = IF j <= Len(a) THEN a[j] ELSE b[j - Len(a)]

\* Where a line is cut off the stream a \o b \o c, at the i-th element of b.
LEMMA CutFacts ==
    ASSUME NEW S, NEW a \in Seq(S), NEW b \in Seq(S), NEW c \in Seq(S),
           NEW i \in 1 .. Len(b), NEW p, p = Cat(Cat(a, b), c),
           NEW n, n = Len(a) + i - 1
    PROVE  Cut(a, b, c, i, p, n)
<1>1. Len(a) \in Nat /\ Len(b) \in Nat /\ Len(c) \in Nat /\ i \in Nat /\ n \in Nat
  BY LenProperties
<1> DEFINE ab == Cat(a, b)
<1>2. /\ ab \in Seq(S) /\ Len(ab) = Len(a) + Len(b)
      /\ \A j \in 1 .. Len(a) + Len(b) :
             ab[j] = IF j <= Len(a) THEN a[j] ELSE b[j - Len(a)]
  BY CatFacts
<1>3. p = Cat(ab, c)
  OBVIOUS
<1> HIDE DEF ab
<1>4. /\ p \in Seq(S) /\ Len(p) = Len(ab) + Len(c)
      /\ \A j \in 1 .. Len(ab) + Len(c) :
             p[j] = IF j <= Len(ab) THEN ab[j] ELSE c[j - Len(ab)]
  <2>1. ab \in Seq(S) /\ c \in Seq(S)
    BY <1>2
  <2>2. /\ Cat(ab, c) \in Seq(S) /\ Len(Cat(ab, c)) = Len(ab) + Len(c)
        /\ \A j \in 1 .. Len(ab) + Len(c) :
               Cat(ab, c)[j] = IF j <= Len(ab) THEN ab[j] ELSE c[j - Len(ab)]
    BY ONLY <2>1, CatFacts
  <2> QED BY ONLY <1>3, <2>2, Zenon
<1>5. \A j \in 1 .. Len(a) + Len(b) :
          p[j] = IF j <= Len(a) THEN a[j] ELSE b[j - Len(a)]
  BY <1>1, <1>2, <1>4
<1>6. n \in 0 .. Len(p) - 1 /\ p[n + 1] = b[i]
  <2>1. n + 1 \in 1 .. Len(a) + Len(b) /\ ~(n + 1 <= Len(a)) /\ (n + 1) - Len(a) = i
    BY <1>1
  <2> QED BY <1>1, <1>2, <1>4, <1>5, <2>1
<1> DEFINE front == SubSeq(b, 1, i - 1)
           back == SubSeq(b, i + 1, Len(b))
<1>7. /\ front \in Seq(S) /\ Len(front) = i - 1
      /\ \A j \in 1 .. i - 1 : front[j] = b[j]
      /\ back \in Seq(S) /\ Len(back) = Len(b) - i
      /\ \A j \in 1 .. Len(b) - i : back[j] = b[i + j]
  BY <1>1
<1> HIDE DEF front, back
<1>8. SubSeq(p, 1, n) = Cat(a, front)
  <2>1. /\ SubSeq(p, 1, n) \in Seq(S) /\ Len(SubSeq(p, 1, n)) = n
        /\ \A j \in 1 .. n : SubSeq(p, 1, n)[j] = p[j]
    BY <1>1, <1>2, <1>4
  <2>2. /\ Cat(a, front) \in Seq(S) /\ Len(Cat(a, front)) = Len(a) + (i - 1)
        /\ \A j \in 1 .. Len(a) + (i - 1) :
               Cat(a, front)[j] = IF j <= Len(a) THEN a[j] ELSE front[j - Len(a)]
    <3>1. a \in Seq(S)
      OBVIOUS
    <3>2. /\ Cat(a, front) \in Seq(S) /\ Len(Cat(a, front)) = Len(a) + Len(front)
          /\ \A j \in 1 .. Len(a) + Len(front) :
                 Cat(a, front)[j] = IF j <= Len(a) THEN a[j] ELSE front[j - Len(a)]
      BY ONLY <1>7, <3>1, CatFacts
    <3> QED BY ONLY <1>7, <3>2, Zenon
  <2>3. ASSUME NEW j \in 1 .. n PROVE Cat(a, front)[j] = p[j]
    <3>1. j \in 1 .. Len(a) + (i - 1) /\ j \in 1 .. Len(a) + Len(b)
      BY <1>1
    <3>2. ~(j <= Len(a)) => j - Len(a) \in 1 .. i - 1
      BY <1>1
    <3> QED BY <1>5, <1>7, <2>2, <3>1, <3>2
  <2>4. Len(Cat(a, front)) = n
    BY <1>1, <2>2
  <2> DEFINE x == SubSeq(p, 1, n)
  <2>5. x \in Seq(S) /\ Len(x) = n /\ \A j \in 1 .. n : x[j] = p[j]
    BY <2>1
  <2> HIDE DEF x
  <2>6. x = Cat(a, front)
    BY <2>2, <2>3, <2>4, <2>5, SeqEqual
  <2> QED BY <2>6 DEF x
<1>9. SubSeq(p, n + 2, Len(p)) = Cat(back, c)
  <2> DEFINE x == SubSeq(p, n + 2, Len(p))
  <2>1. /\ x \in Seq(S) /\ Len(x) = Len(p) - (n + 1)
        /\ \A j \in 1 .. Len(p) - (n + 1) : x[j] = p[(n + 1) + j]
    <3>1. /\ Len(p) \in Nat /\ n + 2 \in Int /\ Len(p) \in Int
          /\ \A k \in n + 2 .. Len(p) : p[k] \in S
      BY <1>1, <1>2, <1>4
    <3>2. /\ x \in Seq(S)
          /\ Len(x) = IF n + 2 <= Len(p) THEN Len(p) - (n + 2) + 1 ELSE 0
          /\ \A j \in 1 .. Len(p) - (n + 2) + 1 : x[j] = p[(n + 2) + j - 1]
      BY <3>1, SubSeqProperties
    <3> HIDE DEF x
    <3>3. Len(p) - (n + 1) = Len(p) - (n + 2) + 1 /\ n + 1 <= Len(p)
      BY <1>1, <1>6, <3>1
    <3>4. \A j \in 1 .. Len(p) - (n + 1) : (n + 2) + j - 1 = (n + 1) + j
      BY <1>1, <3>1
    <3>5. Len(x) = Len(p) - (n + 1)
      <4>0. \A k, m \in Nat : k + 1 <= m => k + 2 <= m \/ k + 1 = m
        OBVIOUS
      <4>1. n + 2 <= Len(p) \/ n + 1 = Len(p)
        BY ONLY <1>1, <3>1, <3>3, <4>0
      <4>2. ~(n + 2 <= Len(p)) => Len(p) - (n + 1) = 0
        BY <1>1, <3>1, <4>1
      <4> QED BY <3>2, <3>3, <4>2, Zenon
    <3>6. \A j \in 1 .. Len(p) - (n + 1) : x[j] = p[(n + 1) + j]
      BY <3>2, <3>3, <3>4, Zenon
    <3> QED BY <3>2, <3>5, <3>6
  <2>2. /\ Cat(back, c) \in Seq(S) /\ Len(Cat(back, c)) = (Len(b) - i) + Len(c)
        /\ \A j \in 1 .. (Len(b) - i) + Len(c) :
               Cat(back, c)[j] = IF j <= Len(b) - i THEN back[j]
                                                    ELSE c[j - (Len(b) - i)]
    <3>1. c \in Seq(S)
      OBVIOUS
    <3>2. /\ Cat(back, c) \in Seq(S) /\ Len(Cat(back, c)) = Len(back) + Len(c)
          /\ \A j \in 1 .. Len(back) + Len(c) :
                 Cat(back, c)[j] = IF j <= Len(back) THEN back[j]
                                                     ELSE c[j - Len(back)]
      BY ONLY <1>7, <3>1, CatFacts
    <3> QED BY ONLY <1>7, <3>2, Zenon
  <2> HIDE DEF x
  <2>3. Len(p) - (n + 1) = (Len(b) - i) + Len(c)
    BY <1>1, <1>2, <1>4
  <2>4. ASSUME NEW j \in 1 .. (Len(b) - i) + Len(c)
        PROVE  x[j] = Cat(back, c)[j]
    <3>1. x[j] = p[(n + 1) + j]
      BY <2>1, <2>3
    <3>2. CASE j <= Len(b) - i
      <4>1. /\ (n + 1) + j \in 1 .. Len(a) + Len(b) /\ ~((n + 1) + j <= Len(a))
            /\ ((n + 1) + j) - Len(a) = i + j /\ j \in 1 .. Len(b) - i
        BY <1>1, <3>2
      <4> QED BY <1>5, <1>7, <2>2, <3>1, <3>2, <4>1
    <3>3. CASE ~(j <= Len(b) - i)
      <4>1. /\ (n + 1) + j \in 1 .. Len(ab) + Len(c) /\ ~((n + 1) + j <= Len(ab))
            /\ ((n + 1) + j) - Len(ab) = j - (Len(b) - i)
        BY <1>1, <1>2, <3>3
      <4> QED BY <1>4, <2>2, <3>1, <3>3, <4>1
    <3> QED BY <3>2, <3>3
  <2>5. x = Cat(back, c)
    BY <2>1, <2>2, <2>3, <2>4, SeqEqual
  <2> QED BY <2>5 DEF x
<1>10. \A j \in 1 .. n : p[j] = IF j <= Len(a) THEN a[j] ELSE b[j - Len(a)]
  BY <1>1, <1>5
<1> QED BY <1>6, <1>8, <1>9, <1>10 DEF front, back, Cut

\* The abstract state is the same.
SameStream ==
    /\ UNCHANGED <<sent, peer, lines>> /\ Rest' = Rest
    /\ (stage \in {"lead", "lines"}) = (stage' \in {"lead", "lines"})

\* The first byte, chunks and the frame are no matter of the stream.
LEMMA QuietSteps ==
    ASSUME IInv,
           \/ Lead /\ stage' = "lines"
           \/ FillBuf
           \/ GrowLine /\ stage' = "lines"
           \/ ReadFrame
           \/ EndFrame
           \/ EndEarly /\ stage = "frame"
    PROVE  SameStream
<1>0. TypeOK /\ LeadShape /\ FrameShape
  BY DEF IInv
<1>1. CASE Lead /\ stage' = "lines"
  BY <1>0, <1>1, LeadKeepsTheStream DEF SameStream, Lead
<1>2. CASE FillBuf
  BY <1>0, <1>2, FillBufKeepsTheStream DEF SameStream, FillBuf
<1>3. CASE GrowLine /\ stage' = "lines"
  BY <1>0, <1>3, GrowLineKeepsTheStream DEF SameStream, GrowLine
<1>4. CASE ReadFrame
  <2>1. buffer = << >> /\ stage = "frame" /\ stage' \in {"frame", "done"}
    BY <1>0, <1>4 DEF ReadFrame, FrameShape
  <2> QED BY <1>0, <1>4, <2>1, ReadFrameKeepsTheStream DEF SameStream, ReadFrame
<1>5. CASE EndFrame
  BY <1>5 DEF SameStream, EndFrame, Rest
<1>6. CASE EndEarly /\ stage = "frame"
  BY <1>6 DEF SameStream, EndEarly, Rest
<1> QED BY <1>1, <1>2, <1>3, <1>4, <1>5, <1>6

\* A line is handed on as far as its newline, which is dropped.
LEMMA EndLineCuts ==
    ASSUME IInv, EndLine
    PROVE  \E n \in 0 .. Len(Rest) - 1 :
               /\ Rest[n + 1] = Newline
               /\ n <= Cap + (BufSize - 1)
               /\ \A j \in 1 .. n : Rest[j] # Newline
               /\ lines' = Append(lines, SubSeq(Rest, 1, n))
               /\ Rest' = SubSeq(Rest, n + 1 + 1, Len(Rest))
<1> DEFINE i == SelectInSeq(buffer, LAMBDA byte : byte = Newline)
           rest == Cat(lead, socket)
           n == Len(line) + i - 1
<1>0. TypeOK /\ LinesShape
  BY DEF IInv
<1>1. /\ UNCHANGED <<lead, socket>> /\ stage = "lines"
      /\ lines' = Append(lines, Cat(line, SubSeq(buffer, 1, i - 1)))
      /\ buffer' = SubSeq(buffer, i + 1, Len(buffer))
      /\ line' = << >>
      /\ Newline \in Range(buffer)
  BY DEF EndLine, Cat
<1>2. /\ i \in 1 .. Len(buffer) /\ buffer[i] = Newline
      /\ \A j \in 1 .. Len(buffer) : j < i => buffer[j] # Newline
  BY <1>0, <1>1, FirstNewline
<1>3. rest \in Seq(Byte) /\ Rest = Cat(Cat(line, buffer), rest)
  BY <1>0, RestType DEF Rest
<1>4. Rest' = Cat(Cat(<< >>, buffer'), rest)
  BY <1>1 DEF Rest
<1> HIDE DEF i, rest
<1>5. buffer' \in Seq(Byte)
  BY <1>0, <1>1, <1>2, Types
<1>6. Rest' = Cat(buffer', rest)
  BY <1>4, <1>5, CatEmpty
<1>7. /\ Len(line) \in Nat /\ Len(line) <= Cap
      /\ Len(buffer) \in Nat /\ Len(buffer) <= BufSize /\ i \in Nat
      /\ \A j \in 1 .. Len(line) : line[j] # Newline
  BY <1>0, <1>1, <1>2, Types DEF LinesShape
<1>8. n <= Cap + (BufSize - 1)
  BY <1>2, <1>7, ConstantsAreNumbers
<1> HIDE DEF n
<1>9. /\ n \in 0 .. Len(Rest) - 1 /\ Rest[n + 1] = buffer[i]
      /\ SubSeq(Rest, 1, n) = Cat(line, SubSeq(buffer, 1, i - 1))
      /\ SubSeq(Rest, n + 2, Len(Rest))
             = Cat(SubSeq(buffer, i + 1, Len(buffer)), rest)
      /\ \A j \in 1 .. n :
             Rest[j] = IF j <= Len(line) THEN line[j] ELSE buffer[j - Len(line)]
  <2>1. n = Len(line) + i - 1
    BY DEF n
  <2>2. line \in Seq(Byte) /\ buffer \in Seq(Byte)
    BY <1>0, Types
  <2>3. i \in 1 .. Len(buffer) /\ rest \in Seq(Byte) /\ Rest = Cat(Cat(line, buffer), rest)
    BY <1>2, <1>3
  <2>4. Cut(line, buffer, rest, i, Rest, n)
    BY ONLY <2>1, <2>2, <2>3, CutFacts
  <2> QED BY ONLY <2>4 DEF Cut
<1>10. ASSUME NEW j \in 1 .. n PROVE Rest[j] # Newline
  <2>1. j \in 1 .. Len(line) \/ ~(j <= Len(line))
    BY <1>7, <1>9
  <2>2. CASE j \in 1 .. Len(line)
    BY <1>7, <1>9, <2>2
  <2>3. CASE ~(j <= Len(line))
    <3>1. j - Len(line) \in 1 .. Len(buffer) /\ j - Len(line) < i
      BY <1>2, <1>7, <2>3 DEF n
    <3> QED BY <1>2, <1>9, <2>3, <3>1
  <2> QED BY <2>1, <2>2, <2>3
<1>11. lines' = Append(lines, SubSeq(Rest, 1, n))
  BY <1>1, <1>9, Zenon
<1>12. Rest' = SubSeq(Rest, n + 1 + 1, Len(Rest))
  <2>1. n + 1 + 1 = n + 2
    BY <1>9
  <2>2. Rest' = SubSeq(Rest, n + 2, Len(Rest))
    BY <1>1, <1>6, <1>9, Zenon
  <2> QED BY <2>1, <2>2, Zenon
<1> QED BY <1>2, <1>8, <1>9, <1>10, <1>11, <1>12, Zenon

\* At the end of the stream the line is all that is left.
LEMMA EndOfLinesRest ==
    ASSUME IInv, EndOfLines
    PROVE  /\ Rest = line /\ Rest' = line' /\ Len(Rest) <= Cap
           /\ SubSeq(Rest, 1, Len(Rest)) = Rest
           /\ SubSeq(Rest, Len(Rest) + 0 + 1, Len(Rest)) = << >>
           /\ \A j \in 1 .. Len(Rest) : Rest[j] # Newline
<1>0. /\ TypeOK /\ LinesShape /\ stage = "lines" /\ UNCHANGED <<lead, buffer, socket>>
      /\ buffer = << >> /\ Available = << >>
  BY DEF IInv, EndOfLines, Ended
<1>1. lead = << >> /\ socket = << >>
  BY <1>0 DEF Available
<1>2. Cat(<< >>, << >>) = << >>
  BY EmptySeq, CatEmpty
<1>3. line \in Seq(Byte) /\ line' \in Seq(Byte)
  <2>1. line \in Seq(Byte) /\ << >> \in Seq(Byte)
    BY <1>0, Types, EmptySeq
  <2> QED BY <2>1 DEF EndOfLines
<1>4. Rest = line /\ Rest' = line'
  BY <1>0, <1>1, <1>2, <1>3, CatEmpty DEF Rest
<1>5. SubSeq(line, 1, Len(line)) = line
  BY <1>3, SubSeqFull
<1>6. Len(line) \in Nat /\ SubSeq(line, Len(line) + 0 + 1, Len(line)) = << >>
  <2>1. Len(line) \in Nat
    BY <1>3, LenProperties
  <2>2. /\ Len(line) + 0 + 1 \in Int /\ Len(line) \in Int
        /\ Len(line) < Len(line) + 0 + 1
    BY <2>1
  <2> QED BY <2>1, <2>2, SubSeqEmpty
<1> QED BY <1>0, <1>4, <1>5, <1>6 DEF LinesShape

\* What a step of the stream reads and writes is what Rest says.
SameRest == Pending = Rest

\* It does so before and after a step.
LEMMA PendingIsTheRest ==
    /\ IInv => Pending = Rest
    /\ IInv' => Pending' = Rest'
<1>1. IInv => SameRest
  BY PendingIsRest DEF IInv, SameRest
<1>2. IInv' => SameRest'
  BY <1>1, PTL
<1> QED BY <1>1, <1>2 DEF SameRest

\* A byte that is written is pending.
LEMMA WriteRefines ==
    ASSUME IInv, NEW byte \in Byte, Write(byte),
           Pending = Rest, Pending' = Rest'
    PROVE  Stream!Write(byte)
<1>0. TypeOK /\ sent \in Seq(Byte)
  BY Types DEF IInv
<1>1. Pending' = Append(Pending, byte)
  BY <1>0, WriteGrowsTheStream, Zenon
<1>2. Len(sent') = Len(sent) + 1
  BY <1>0 DEF Write
<1> QED BY <1>1, <1>2 DEF Stream!Write, Write

\* A line that is read is handed on.
LEMMA EndLineRefines ==
    ASSUME IInv, EndLine, Pending = Rest, Pending' = Rest'
    PROVE  Stream!Line
<1>0. TypeOK /\ LinesShape /\ stage = "lines"
      /\ UNCHANGED <<sent, peer, stage>>
  BY DEF IInv, EndLine
<1>1. PICK n \in 0 .. Len(Pending) - 1 :
          /\ Pending[n + 1] = Newline
          /\ n <= Cap + (BufSize - 1)
          /\ \A j \in 1 .. n : Pending[j] # Newline
          /\ lines' = Append(lines, SubSeq(Pending, 1, n))
          /\ Pending' = SubSeq(Pending, n + 1 + 1, Len(Pending))
  BY EndLineCuts, Zenon
<1>2. Stream!Readable
  <2>1. Pending \in Seq(Byte)
    BY <1>0, RestType
  <2>2. Pending # << >> /\ Head(Pending) = Pending[1]
    BY <1>1, <2>1
  <2> QED BY <1>0, <2>2 DEF Stream!Readable, LinesShape
<1>3. Stream!NoNewline(n)
  BY <1>1 DEF Stream!NoNewline
<1>4. Stream!HandOn(n, 1)
  <2>1. Len(sent') = Len(sent) /\ (stage' \notin {"lead", "lines"})
            = (stage \notin {"lead", "lines"})
    BY <1>0
  <2> QED BY <1>0, <1>1, <1>2, <1>3, <2>1, Zenon DEF Stream!HandOn
<1> QED BY <1>1, <1>4, Zenon DEF Stream!Line

\* What is left when the client is done is the last line, if it is one; after
\* that, and when the connection broke, nothing more is handed on.
LEMMA EndOfLinesRefines ==
    ASSUME IInv, EndOfLines, Pending = Rest, Pending' = Rest'
    PROVE  Stream!LastLine \/ Stream!Stop
<1>0. TypeOK /\ LinesShape /\ stage = "lines" /\ peer # "open"
      /\ UNCHANGED <<sent, peer>>
  BY DEF IInv, EndOfLines, Ended
<1>1. /\ Pending = line /\ Pending' = line' /\ Len(Pending) <= Cap
      /\ SubSeq(Pending, 1, Len(Pending)) = Pending
      /\ SubSeq(Pending, Len(Pending) + 0 + 1, Len(Pending)) = << >>
      /\ \A j \in 1 .. Len(Pending) : Pending[j] # Newline
  BY EndOfLinesRest, Zenon
<1>2. Pending \in Seq(Byte) /\ Len(Pending) \in Nat
  BY <1>0, RestType, LenProperties
<1>3. Stream!NoNewline(Len(Pending))
  BY <1>1 DEF Stream!NoNewline
<1>4. CASE /\ line # << >> /\ peer = "eof"
           /\ lines' = Append(lines, line) /\ line' = << >> /\ stage' = stage
  <2>1. Stream!Readable
    <3>1. Pending # << >> /\ Head(Pending) = Pending[1]
      BY <1>1, <1>2, <1>4
    <3> QED BY <1>0, <3>1 DEF Stream!Readable, LinesShape
  <2>2. Len(Pending) <= Cap + (BufSize - 1)
    BY <1>1, <1>2, ConstantsAreNumbers
  <2>3. Stream!HandOn(Len(Pending), 0)
    <3>1. Len(sent') = Len(sent) /\ (stage' \notin {"lead", "lines"})
              = (stage \notin {"lead", "lines"})
      BY <1>0, <1>4
    <3>2. /\ lines' = Append(lines, SubSeq(Pending, 1, Len(Pending)))
          /\ Pending' = SubSeq(Pending, Len(Pending) + 0 + 1, Len(Pending))
      BY <1>1, <1>4, Zenon
    <3> QED BY <1>0, <1>3, <2>1, <2>2, <3>1, <3>2, Zenon DEF Stream!HandOn
  <2> QED BY <1>4, <2>3, Zenon DEF Stream!LastLine
<1>5. CASE /\ ~(line # << >> /\ peer = "eof")
           /\ stage' = "done" /\ UNCHANGED <<line, lines>>
  <2>1. peer \in {"eof", "broken"}
    BY <1>0 DEF TypeOK
  <2>2. \/ peer = "eof" /\ Pending = << >>
        \/ peer = "broken" /\ Stream!NoNewline(Len(Pending))
    BY <1>1, <1>3, <1>5, <2>1
  <2>3. Pending' = Pending
    BY <1>1, <1>5
  <2> QED BY <1>0, <1>5, <2>2, <2>3 DEF Stream!Stop
<1> QED BY <1>4, <1>5 DEF EndOfLines

\* A line that is given up is too long, and has no newline up to there.
LEMMA GrowLineRefines ==
    ASSUME IInv, GrowLine, stage' # "lines", Pending = Rest, Pending' = Rest'
    PROVE  Stream!Stop
<1>0. TypeOK /\ LinesShape /\ stage = "lines" /\ stage' = "done"
      /\ UNCHANGED <<sent, peer, lines, lead, socket>> /\ buffer' = << >>
      /\ Len(line') > Cap
  BY DEF IInv, GrowLine
<1>1. /\ Pending' = Pending /\ line' \in Seq(Byte)
      /\ \A i \in 1 .. Len(line') : line'[i] # Newline
  BY <1>0, GrowLineKeepsTheStream DEF LinesShape
<1> DEFINE rest == Cat(lead, socket)
<1>2. rest \in Seq(Byte) /\ Pending = Cat(line', rest)
  <2>1. rest \in Seq(Byte)
    BY <1>0, RestType
  <2>2. Pending' = Cat(Cat(line', << >>), rest)
    BY <1>0 DEF Rest
  <2> QED BY <1>1, <2>1, <2>2, CatEmpty
<1> HIDE DEF rest
<1>3. /\ Len(Pending) = Len(line') + Len(rest)
      /\ \A i \in 1 .. Len(line') + Len(rest) :
             Pending[i] = IF i <= Len(line') THEN line'[i] ELSE rest[i - Len(line')]
  <2> DEFINE l == line'
  <2>1. l \in Seq(Byte) /\ rest \in Seq(Byte) /\ Pending = Cat(l, rest)
    BY <1>1, <1>2
  <2> HIDE DEF l
  <2>2. /\ Len(Cat(l, rest)) = Len(l) + Len(rest)
        /\ \A i \in 1 .. Len(l) + Len(rest) :
               Cat(l, rest)[i] = IF i <= Len(l) THEN l[i] ELSE rest[i - Len(l)]
    BY ONLY <2>1, CatFacts
  <2>3. /\ Len(Pending) = Len(l) + Len(rest)
        /\ \A i \in 1 .. Len(l) + Len(rest) :
               Pending[i] = IF i <= Len(l) THEN l[i] ELSE rest[i - Len(l)]
    BY ONLY <2>1, <2>2, Zenon
  <2> QED BY <2>3 DEF l
<1>4. Len(line') \in Nat /\ Len(rest) \in Nat
  BY <1>1, <1>2, LenProperties
<1>5. Len(Pending) > Cap
  BY <1>0, <1>3, <1>4, ConstantsAreNumbers
<1>6. Stream!NoNewline(Cap + 1)
  <2> SUFFICES ASSUME NEW i \in 1 .. Cap + 1 PROVE Pending[i] # Newline
    BY DEF Stream!NoNewline
  <2>1. i \in 1 .. Len(line') /\ i \in 1 .. Len(line') + Len(rest) /\ i <= Len(line')
    BY <1>0, <1>4, ConstantsAreNumbers
  <2> QED BY <1>1, <1>3, <2>1
<1> QED BY <1>0, <1>1, <1>5, <1>6 DEF Stream!Stop

\* A connection that opens with another byte than a brace has no lines.
LEMMA LeadRefines ==
    ASSUME IInv, Lead, stage' # "lines", Pending = Rest, Pending' = Rest'
    PROVE  Stream!Stop
<1>0. TypeOK /\ LeadShape /\ stage = "lead" /\ stage' \in {"frame", "done"}
      /\ UNCHANGED <<sent, peer, lines>> /\ Head(socket) # Brace
      /\ lines = << >> /\ socket # << >>
  BY ConstantsAreNumbers DEF IInv, Lead, LeadShape
<1>1. Pending' = Pending /\ Pending = socket
  BY <1>0, LeadKeepsTheStream
<1> QED BY <1>0, <1>1 DEF Stream!Stop, Stream!Readable

\* Nor has one that ends before its first byte.
LEMMA EndEarlyRefines ==
    ASSUME IInv, EndEarly, stage = "lead", Pending = Rest, Pending' = Rest'
    PROVE  Stream!Stop
<1>0. TypeOK /\ LeadShape /\ peer \in {"eof", "broken"} /\ stage' = "done"
      /\ UNCHANGED <<sent, peer, socket, lead, buffer, line, lines, frame>>
      /\ Available = << >>
  BY DEF IInv, TypeOK, EndEarly, Ended
<1>1. lead = << >> /\ socket = << >> /\ buffer = << >> /\ line = << >>
  BY <1>0 DEF Available, LeadShape
<1>2. Pending = << >> /\ Pending' = Pending
  <2>1. Cat(<< >>, << >>) = << >>
    BY EmptySeq, CatEmpty
  <2> QED BY <1>0, <1>1, <2>1 DEF Rest
<1>3. Stream!NoNewline(Len(Pending))
  BY <1>2, EmptySeq DEF Stream!NoNewline
<1> QED BY <1>0, <1>2, <1>3 DEF Stream!Stop

\* A step that leaves the stream alone is a stutter.
LEMMA QuietStepsStutter ==
    ASSUME SameStream, Pending = Rest, Pending' = Rest'
    PROVE  UNCHANGED Stream!vars
<1>1. Pending' = Pending /\ Len(sent') = Len(sent)
      /\ UNCHANGED <<peer, lines>>
      /\ (stage' \notin {"lead", "lines"}) = (stage \notin {"lead", "lines"})
  BY DEF SameStream
<1> QED BY <1>1 DEF Stream!vars

\* Every step of the reader is a step of the stream, or none.
LEMMA StepRefines == IInv /\ [Next]_vars => [Stream!Next]_(Stream!vars)
<1> SUFFICES ASSUME IInv, [Next]_vars PROVE [Stream!Next]_(Stream!vars)
  OBVIOUS
<1>1. Pending = Rest /\ Pending' = Rest'
  BY StepIInv, PendingIsTheRest
<1>2. ASSUME NEW byte \in Byte, Write(byte) PROVE Stream!Next
  <2>1. Stream!Write(byte)
    BY <1>1, <1>2, WriteRefines
  <2> QED BY <2>1 DEF Stream!Next
<1>3. ASSUME NEW how \in {"eof", "broken"}, HangUp(how) PROVE Stream!Next
  <2>1. Pending' = Pending
    BY <1>1, <1>3 DEF HangUp, Rest
  <2>2. Stream!HangUp(how)
    BY <1>3, <2>1 DEF HangUp, Stream!HangUp
  <2> QED BY <2>2 DEF Stream!Next
<1>4. CASE Reader
  <2>1. CASE EndLine
    BY <1>1, <2>1, EndLineRefines DEF Stream!Next
  <2>2. CASE EndOfLines
    BY <1>1, <2>2, EndOfLinesRefines DEF Stream!Next
  <2>3. CASE \/ Lead /\ stage' # "lines"
             \/ GrowLine /\ stage' # "lines"
             \/ EndEarly /\ stage = "lead"
    BY <1>1, <2>3, LeadRefines, GrowLineRefines, EndEarlyRefines DEF Stream!Next
  <2>4. CASE \/ Lead /\ stage' = "lines"
             \/ FillBuf
             \/ GrowLine /\ stage' = "lines"
             \/ ReadFrame
             \/ EndFrame
             \/ EndEarly /\ stage = "frame"
    BY <1>1, <2>4, QuietSteps, QuietStepsStutter
  <2>5. EndEarly => stage \in {"lead", "frame"}
    BY DEF EndEarly
  <2> QED BY <1>4, <2>1, <2>2, <2>3, <2>4, <2>5 DEF Reader
<1>5. CASE UNCHANGED vars
  <2>1. SameStream
    BY <1>5 DEF vars, SameStream, Rest
  <2> QED BY <1>1, <2>1, QuietStepsStutter
<1> QED BY <1>2, <1>3, <1>4, <1>5 DEF Next

\* The reader starts as the stream does.
LEMMA InitRefines == Init => Stream!Init
BY EmptySeq DEF Init, Stream!Init, Pending

\* What the session gets are the lines the client wrote, each of them once and
\* in order, however the stream was cut into chunks; a line is refused only if
\* it is too long (server.rs:211-222, 341-385).  This is the safety part of
\* ImplementsLineStream.
THEOREM LinesAreCutFromTheStream ==
    Spec => Stream!Init /\ [][Stream!Next]_(Stream!vars)
<1>1. Init => Stream!Init
  BY InitRefines
<1>2. IInv /\ [Next]_vars => [Stream!Next]_(Stream!vars)
  BY StepRefines
<1> QED BY <1>1, <1>2, Invariance, PTL DEF Spec

-----------------------------------------------------------------------------
(* The frame is the one that was sent *)

\* Nothing was handed on of a stream that is one frame.
FrameInv ==
    /\ stage = "frame" => Rest = sent
    /\ FrameIsSound

\* What the client writes behind a frame does not change it.
LEMMA WriteKeepsFrames ==
    ASSUME TypeOK, FrameRead, NEW byte \in Byte, Write(byte)
    PROVE  FrameRead'
<1>1. /\ sent \in Seq(Byte) /\ sent' = Append(sent, byte) /\ frame' = frame
  BY Types DEF Write
<1>2. /\ sent' \in Seq(Byte) /\ Len(sent') = Len(sent) + 1
      /\ \A i \in 1 .. Len(sent) : sent'[i] = sent[i]
      /\ Len(sent) \in Nat
  BY <1>1, AppendProperties, LenProperties
<1>3. /\ Len(sent) >= HeaderBytes /\ Announced(sent) <= Cap
      /\ Len(sent) >= HeaderBytes + Announced(sent)
      /\ frame = <<SubSeq(sent, HeaderBytes + 1, HeaderBytes + Announced(sent))>>
  BY DEF FrameRead, FrameSent
<1>4. Announced(sent) \in Nat
  BY <1>1, <1>3, AnnouncedType
<1> DEFINE t == sent'
<1>5. t \in Seq(Byte) /\ StartsWith(t, sent)
  BY <1>2 DEF StartsWith
<1> HIDE DEF t
<1>6. /\ Announced(t) = Announced(sent)
      /\ \A n \in HeaderBytes .. Len(sent) :
             SubSeq(t, HeaderBytes + 1, n) = SubSeq(sent, HeaderBytes + 1, n)
  BY <1>1, <1>3, <1>5, PrefixFacts
<1>7. HeaderBytes + Announced(sent) \in HeaderBytes .. Len(sent)
  BY <1>2, <1>3, <1>4, ConstantsAreNumbers
<1>8. SubSeq(t, HeaderBytes + 1, HeaderBytes + Announced(sent))
          = SubSeq(sent, HeaderBytes + 1, HeaderBytes + Announced(sent))
  BY <1>6, <1>7
<1>9. Len(t) >= HeaderBytes /\ Len(t) >= HeaderBytes + Announced(sent)
  BY <1>2, <1>3, <1>4, ConstantsAreNumbers DEF t
<1> QED BY <1>1, <1>3, <1>6, <1>8, <1>9 DEF t, FrameRead, FrameSent

\* What is decoded is the frame at the start of the stream.
LEMMA EndFrameReads ==
    ASSUME IInv, Rest = sent, EndFrame
    PROVE  FrameRead'
<1>0. TypeOK /\ FrameShape /\ MemoryBounded
  BY DEF IInv
<1>1. /\ stage = "frame" /\ Wanted = 0 /\ sent' = sent /\ buffer = << >>
      /\ frame' = <<SubSeq(line, HeaderBytes + 1, Len(line))>>
  BY <1>0 DEF EndFrame, FrameShape
<1>2. line \in Seq(Byte) /\ Len(line) \in Nat
  BY <1>0, Types
<1>3. Len(line) >= HeaderBytes
  BY <1>1, <1>2, ConstantsAreNumbers DEF Wanted
<1>4. Announced(line) \in Nat /\ Announced(line) <= Cap
  BY <1>0, <1>1, <1>2, <1>3, AnnouncedType DEF MemoryBounded
<1>5. Len(line) = HeaderBytes + Announced(line)
  BY <1>1, <1>2, <1>3, <1>4, ConstantsAreNumbers DEF Wanted
<1> DEFINE rest == Cat(lead, socket)
<1>6. sent = Cat(line, rest) /\ rest \in Seq(Byte) /\ sent \in Seq(Byte)
  <2>1. rest \in Seq(Byte)
    BY <1>0, RestType
  <2>2. Rest = Cat(Cat(line, << >>), rest)
    BY <1>1 DEF Rest
  <2> QED BY <1>0, <1>2, <2>1, <2>2, CatEmpty, Types
<1> HIDE DEF rest
<1>7. /\ Len(Cat(line, rest)) = Len(line) + Len(rest)
      /\ \A i \in 1 .. Len(line) + Len(rest) :
             Cat(line, rest)[i] = IF i <= Len(line) THEN line[i]
                                                    ELSE rest[i - Len(line)]
      /\ Len(rest) \in Nat
  BY ONLY <1>2, <1>6, CatFacts, LenProperties
<1>8. StartsWith(sent, line)
  <2>1. \A i \in 1 .. Len(line) : i \in 1 .. Len(line) + Len(rest) /\ i <= Len(line)
    BY <1>2, <1>7
  <2>2. \A i \in 1 .. Len(line) : Cat(line, rest)[i] = line[i]
    BY ONLY <1>7, <2>1, Zenon
  <2>3. Len(line) <= Len(line) + Len(rest)
    BY <1>2, <1>7
  <2> QED BY <1>6, <1>7, <2>2, <2>3, Zenon DEF StartsWith
<1>9. /\ Announced(sent) = Announced(line)
      /\ \A n \in HeaderBytes .. Len(line) :
             SubSeq(sent, HeaderBytes + 1, n) = SubSeq(line, HeaderBytes + 1, n)
  BY <1>2, <1>3, <1>6, <1>8, PrefixFacts
<1>10. SubSeq(sent, HeaderBytes + 1, Len(line)) = SubSeq(line, HeaderBytes + 1, Len(line))
  BY <1>2, <1>3, <1>9, ConstantsAreNumbers
<1>11. Len(sent) >= HeaderBytes + Announced(sent) /\ Len(sent) >= HeaderBytes
  BY <1>3, <1>5, <1>8, <1>9, <1>2, <1>6, LenProperties, ConstantsAreNumbers DEF StartsWith
<1> QED BY <1>1, <1>4, <1>5, <1>9, <1>10, <1>11 DEF FrameRead, FrameSent

\* Every step keeps it.
LEMMA StepFrameInv == IInv /\ FrameInv /\ [Next]_vars => FrameInv'
<1> SUFFICES ASSUME IInv, FrameInv, [Next]_vars PROVE FrameInv'
  OBVIOUS
<1>0. TypeOK /\ LeadShape /\ FrameShape /\ FrameIsSound
  BY DEF IInv, FrameInv
<1>1. ASSUME NEW byte \in Byte, Write(byte) PROVE FrameInv'
  <2>1. stage' = "frame" => Rest' = sent'
    BY <1>0, <1>1, WriteGrowsTheStream DEF FrameInv, Write
  <2>2. frame' # << >> => FrameRead'
    BY <1>0, <1>1, WriteKeepsFrames DEF FrameIsSound, Write
  <2> QED BY <2>1, <2>2 DEF FrameInv, FrameIsSound
<1>2. CASE EndFrame
  <2>1. FrameRead' /\ stage' # "frame"
    BY <1>2, EndFrameReads DEF FrameInv, EndFrame
  <2> QED BY <2>1 DEF FrameInv, FrameIsSound
<1>3. ASSUME UNCHANGED <<sent, frame>> PROVE FrameIsSound'
  BY <1>0, <1>3 DEF FrameIsSound, FrameRead, FrameSent
<1>4. CASE Lead
  <2>1. Rest' = socket /\ UNCHANGED <<sent, frame>> /\ socket = sent
    BY <1>0, <1>4, LeadKeepsTheStream DEF Lead, LeadShape
  <2> QED BY <1>3, <2>1 DEF FrameInv
<1>5. CASE ReadFrame
  <2>1. buffer = << >> /\ stage = "frame" /\ UNCHANGED <<sent, frame>>
    BY <1>0, <1>5 DEF ReadFrame, FrameShape
  <2>2. Rest' = Rest
    BY <1>0, <1>5, <2>1, ReadFrameKeepsTheStream
  <2> QED BY <1>3, <2>1, <2>2 DEF FrameInv
<1>6. CASE FillBuf \/ EndLine \/ GrowLine \/ EndOfLines \/ EndEarly
  <2>1. stage' # "frame" /\ UNCHANGED <<sent, frame>>
    BY <1>6 DEF FillBuf, EndLine, GrowLine, EndOfLines, EndEarly
  <2> QED BY <1>3, <2>1 DEF FrameInv
<1>7. CASE \/ \E how \in {"eof", "broken"} : HangUp(how)
           \/ UNCHANGED vars
  <2>1. UNCHANGED <<stage, line, buffer, lead, socket, sent, frame>>
    BY <1>7 DEF HangUp, vars
  <2> QED BY <1>3, <2>1 DEF FrameInv, Rest
<1> QED BY <1>1, <1>2, <1>4, <1>5, <1>6, <1>7 DEF Next, Reader

\* What is taken for a request is what the client framed, byte for byte, however
\* it was cut into reads and whatever comes behind it (framing.rs:45-65).
THEOREM FramesAreRead == Spec => []FrameIsSound
<1>1. Init => FrameInv
  BY DEF Init, FrameInv, FrameIsSound
<1>2. IInv /\ FrameInv /\ [Next]_vars => FrameInv'
  BY StepFrameInv
<1>3. FrameInv => FrameIsSound
  BY DEF FrameInv
<1> QED BY <1>1, <1>2, <1>3, Invariance, PTL DEF Spec
=============================================================================
