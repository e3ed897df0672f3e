---------------------------- MODULE DataTheorems ----------------------------
(***************************************************************************)
(* Facts about data that the proofs of several modules cite by name: what  *)
(* the map operators do to a domain, to the values in it and to the type   *)
(* of a map; what concatenation does; and what stands in for induction     *)
(* over the naturals: a set of them has a least element, and a recursive   *)
(* function is the one that the steps of its loop compute.                 *)
(***************************************************************************)
EXTENDS Maps, FiniteSetTheorems, SequenceTheorems,
    WellFoundedInduction, TLAPS

-----------------------------------------------------------------------------
(* Maps *)

\* An empty map maps nothing.
LEMMA EmptyMapDomain == DOMAIN EmptyMap = {}
BY DEF EmptyMap

\* Binding a key adds it to the domain and leaves the other keys alone.
LEMMA PutFacts ==
    ASSUME NEW m, NEW k, NEW v
    PROVE  /\ DOMAIN Put(m, k, v) = DOMAIN m \cup {k}
           /\ Put(m, k, v)[k] = v
           /\ \A x \in DOMAIN m : x # k => Put(m, k, v)[x] = m[x]
BY DEF Put

\* Dropping keys removes exactly them from the domain.
LEMMA WithoutFacts ==
    ASSUME NEW m, NEW S
    PROVE  /\ DOMAIN Without(m, S) = DOMAIN m \ S
           /\ \A x \in DOMAIN m \ S : Without(m, S)[x] = m[x]
BY DEF Without, Restrict

\* A map into T stays one when a key is bound to a member of T.
LEMMA PutType ==
    ASSUME NEW S, NEW T, NEW m, DOMAIN m \subseteq S,
           \A x \in DOMAIN m : m[x] \in T,
           NEW k \in S, NEW v \in T
    PROVE  /\ DOMAIN Put(m, k, v) \subseteq S
           /\ \A x \in DOMAIN Put(m, k, v) : Put(m, k, v)[x] \in T
BY DEF Put

\* A map into T stays one when keys are dropped.
LEMMA WithoutType ==
    ASSUME NEW S, NEW T, NEW m, DOMAIN m \subseteq S,
           \A x \in DOMAIN m : m[x] \in T, NEW R
    PROVE  /\ DOMAIN Without(m, R) \subseteq S
           /\ \A x \in DOMAIN Without(m, R) : Without(m, R)[x] \in T
BY DEF Without, Restrict

-----------------------------------------------------------------------------
(* Numbers *)

\* A set of naturals that is not empty has a least element.
LEMMA LeastExists ==
    ASSUME NEW T, T \subseteq Nat, T # {}
    PROVE  \E x \in T : \A y \in T : x <= y
<1> DEFINE upTo(x) == {y \in T : y <= x}
           cuts == {upTo(x) : x \in T}
           smaller == StrictSubsetOrdering(Nat)
<1>1. IsWellFoundedOn(smaller, FiniteSubsetsOf(Nat))
  BY FS_StrictSubsetOrderingWellFounded
<1>2. cuts \subseteq FiniteSubsetsOf(Nat) /\ cuts # {}
  <2> SUFFICES ASSUME NEW x \in T PROVE upTo(x) \in FiniteSubsetsOf(Nat)
    OBVIOUS
  <2>1. upTo(x) \in SUBSET Nat /\ x \in Nat /\ \A y \in upTo(x) : y <= x
    OBVIOUS
  <2>2. IsFiniteSet(upTo(x))
    <3> HIDE DEF upTo
    <3> QED
      BY <2>1, FS_BoundedSetOfNaturals
  <2> QED
    BY <2>1, <2>2 DEF FiniteSubsetsOf
<1>3. PICK least \in cuts : \A c \in cuts : <<c, least>> \notin smaller
  <2> HIDE DEF cuts, smaller
  <2> QED
    BY <1>1, <1>2, WFMin
<1>4. PICK x \in T : least = upTo(x)
  OBVIOUS
<1>5. ASSUME NEW y \in T, y < x PROVE FALSE
  <2>1. /\ upTo(y) \in SUBSET Nat /\ upTo(x) \in SUBSET Nat
        /\ upTo(y) \subseteq upTo(x) /\ x \in upTo(x) /\ x \notin upTo(y)
    <3>1. \A z \in T : z \in Int
      OBVIOUS
    <3>2. x \in Int /\ y \in Int /\ ~(x <= y) /\ x <= x
      BY <1>5, <3>1
    <3>3. \A z \in T : z <= y => z <= x
      BY <1>5, <3>1
    <3> QED
      BY <3>2, <3>3
  <2>2. <<upTo(y), upTo(x)>> \in smaller
    <3> HIDE DEF upTo
    <3> QED
      BY <2>1 DEF StrictSubsetOrdering
  <2> QED
    BY <1>3, <1>4, <2>2
<1> QED
  BY <1>5

\* A bounded one has a greatest element.
LEMMA GreatestExists ==
    ASSUME NEW n \in Nat, NEW T, T \subseteq 1 .. n, T # {}
    PROVE  \E x \in T : \A y \in T : y <= x
<1> DEFINE bounds == {b \in Nat : \A y \in T : y <= b}
<1>1. n \in bounds /\ bounds \subseteq Nat
  OBVIOUS
<1>2. PICK b \in bounds : \A c \in bounds : b <= c
  BY <1>1, LeastExists
<1>3. b \in T
  <2> SUFFICES ASSUME b \notin T PROVE FALSE
    OBVIOUS
  <2>1. b \in Nat /\ \A y \in T : y \in Nat /\ 1 <= y /\ y <= b /\ y # b
    OBVIOUS
  <2>2. b - 1 \in bounds
    <3>1. PICK y \in T : TRUE
      OBVIOUS
    <3>2. b - 1 \in Nat
      BY <2>1, <3>1
    <3>3. \A z \in T : z <= b - 1
      BY <2>1
    <3> QED
      BY <3>2, <3>3
  <2> QED
    BY <1>2, <2>1, <2>2
<1> QED
  BY <1>3

-----------------------------------------------------------------------------
(* Recursion *)

\* A loop takes n steps, step[i] being what its i-th step does to the value:
\* f[i] is the value after i of them.
Follows(f, n, step) == \A i \in 1 .. n : f[i] = step[i][f[i - 1]]

\* What it computes from base.
IsLoop(f, S, base, n, step) ==
    /\ f \in [0 .. n -> S]
    /\ f[0] = base
    /\ Follows(f, n, step)

\* There is such a function.
LEMMA LoopExists ==
    ASSUME NEW S, NEW base \in S, NEW n \in Nat,
           NEW step \in [1 .. n -> [S -> S]]
    PROVE  \E f : IsLoop(f, S, base, n, step)
<1> DEFINE Loop(f, k) == IsLoop(f, S, base, k, step)
           stuck == {k \in 0 .. n : \A f : ~Loop(f, k)}
<1>1. stuck = {}
  <2> SUFFICES ASSUME stuck # {} PROVE FALSE
    OBVIOUS
  <2>1. stuck \subseteq Nat
    OBVIOUS
  <2>2. PICK k \in stuck : \A i \in stuck : k <= i
    BY <2>1, LeastExists
  <2>3. k # 0
    <3>1. Loop([i \in 0 .. 0 |-> base], 0)
      BY DEF IsLoop, Follows
    <3> QED BY <2>2, <3>1
  <2>4. k \in Nat /\ k <= n /\ k - 1 \in 0 .. n
    BY <2>2, <2>3
  <2>5. PICK f : Loop(f, k - 1)
    <3> HIDE DEF Loop
    <3>1. ~(k <= k - 1)
      BY <2>4
    <3>2. k - 1 \notin stuck
      BY <2>2, <3>1
    <3> QED BY <2>4, <3>2
  <2> USE DEF IsLoop, Follows
  <2> DEFINE g == [i \in 0 .. k |-> IF i < k THEN f[i] ELSE step[k][f[k - 1]]]
  <2>6. step[k][f[k - 1]] \in S
    BY <2>3, <2>4, <2>5
  <2>7. g \in [0 .. k -> S]
    BY <2>4, <2>5, <2>6
  <2>8. /\ \A i \in 0 .. k : i < k => g[i] = f[i]
        /\ g[k] = step[k][f[k - 1]]
    BY <2>4
  <2>9. Loop(g, k)
    <3> HIDE DEF g
    <3>1. g[0] = base
      BY <2>3, <2>4, <2>5, <2>8
    <3>2. ASSUME NEW i \in 1 .. k PROVE g[i] = step[i][g[i - 1]]
      <4>1. i - 1 \in 0 .. k /\ i - 1 < k
        BY <2>4
      <4>2. CASE i < k
        BY <2>4, <2>5, <2>8, <4>1, <4>2
      <4>3. CASE i = k
        BY <2>4, <2>8, <4>1, <4>3
      <4> QED BY <2>4, <4>2, <4>3
    <3> QED BY <2>7, <3>1, <3>2
  <2> QED BY <2>2, <2>9
<1>2. PICK f : Loop(f, n)
  <2> HIDE DEF Loop
  <2>1. n \in 0 .. n
    OBVIOUS
  <2>2. n \notin stuck
    BY <1>1
  <2> QED BY <2>1, <2>2
<1> QED BY <1>2

\* Two loops that take the same n steps agree as far.
LEMMA LoopsAgree ==
    ASSUME NEW n \in Nat, NEW step, NEW f, NEW g, f[0] = g[0],
           Follows(f, n, step), Follows(g, n, step)
    PROVE  \A i \in 0 .. n : f[i] = g[i]
<1> DEFINE apart == {i \in 0 .. n : f[i] # g[i]}
<1> SUFFICES ASSUME apart # {} PROVE FALSE
  OBVIOUS
<1>1. apart \subseteq Nat
  OBVIOUS
<1>2. PICK k \in apart : \A i \in apart : k <= i
  BY <1>1, LeastExists
<1>3. k \in 1 .. n /\ k - 1 \in 0 .. n /\ ~(k <= k - 1)
  BY <1>2
<1>4. f[k - 1] = g[k - 1]
  BY <1>2, <1>3
<1>5. f[k] = step[k][f[k - 1]] /\ g[k] = step[k][g[k - 1]]
  BY <1>3 DEF Follows
<1> QED BY <1>2, <1>4, <1>5

-----------------------------------------------------------------------------
(* Concatenation *)

\* Concatenation, under a name the provers do not expand.
Cat(s, t) == s \o t

\* What concatenation does to types, lengths and elements.
LEMMA CatFacts ==
    ASSUME NEW S, NEW s \in Seq(S), NEW t \in Seq(S)
    PROVE  /\ Cat(s, t) \in Seq(S)
           /\ Len(Cat(s, t)) = Len(s) + Len(t)
           /\ \A i \in 1 .. Len(s) + Len(t) :
                  Cat(s, t)[i] = IF i <= Len(s) THEN s[i] ELSE t[i - Len(s)]
BY ConcatProperties DEF Cat

\* The empty sequence adds nothing.
LEMMA CatEmpty ==
    ASSUME NEW S, NEW s \in Seq(S)
    PROVE  Cat(s, << >>) = s /\ Cat(<< >>, s) = s
BY ConcatEmptySeq DEF Cat

\* How three parts are put together does not matter.
LEMMA CatAssociative ==
    ASSUME NEW S, NEW s \in Seq(S), NEW t \in Seq(S), NEW u \in Seq(S)
    PROVE  Cat(Cat(s, t), u) = Cat(s, Cat(t, u))
BY ConcatAssociative DEF Cat

\* An element at the end of the second part is at the end of the whole.
LEMMA CatAppend ==
    ASSUME NEW S, NEW s \in Seq(S), NEW t \in Seq(S), NEW e \in S
    PROVE  Cat(s, Append(t, e)) = Append(Cat(s, t), e)
<1>1. <<e>> \in Seq(S) /\ Cat(s, t) \in Seq(S)
  BY CatFacts
<1>2. Append(t, e) = Cat(t, <<e>>) /\ Append(Cat(s, t), e) = Cat(Cat(s, t), <<e>>)
  BY <1>1, AppendIsConcat DEF Cat
<1>3. \A one \in Seq(S) : Cat(Cat(s, t), one) = Cat(s, Cat(t, one))
  BY CatAssociative
<1> QED BY <1>1, <1>2, <1>3, Zenon

\* A sequence is its head and its tail.
LEMMA CatHeadTail ==
    ASSUME NEW S, NEW s \in Seq(S), s # << >>
    PROVE  Cat(<<Head(s)>>, Tail(s)) = s
<1>1. Len(s) \in Nat /\ Len(s) > 0 /\ Head(s) = s[1]
  BY EmptySeq
<1>2. 1 \in 1 .. Len(s) /\ Len(s) \in 1 .. Len(s)
  BY <1>1
<1>3. SubSeq(s, 1, Len(s)) = <<s[1]>> \o SubSeq(s, 1 + 1, Len(s))
  BY <1>2, SubSeqRecursiveFirst
<1>4. Tail(s) = SubSeq(s, 2, Len(s))
  BY TailIsSubSeq
<1> QED BY <1>1, <1>3, <1>4, SubSeqFull DEF Cat

\* The head of the second part may as well be the last of the first.
LEMMA CatMoves ==
    ASSUME NEW S, NEW s \in Seq(S), NEW t \in Seq(S), t # << >>
    PROVE  Cat(Append(s, Head(t)), Tail(t)) = Cat(s, t)
<1>1. Head(t) \in S /\ Tail(t) \in Seq(S)
  BY HeadTailProperties
<1>2. <<Head(t)>> \in Seq(S) /\ Append(s, Head(t)) = Cat(s, <<Head(t)>>)
  BY <1>1, AppendIsConcat DEF Cat
<1>3. Cat(Cat(s, <<Head(t)>>), Tail(t)) = Cat(s, Cat(<<Head(t)>>, Tail(t)))
  <2>1. \A u, v \in Seq(S) : Cat(Cat(s, u), v) = Cat(s, Cat(u, v))
    BY CatAssociative
  <2> QED BY <1>1, <1>2, <2>1, Zenon
<1> QED BY <1>2, <1>3, CatHeadTail
=============================================================================
