--------------------------- MODULE ProjectionProofs ---------------------------
(***************************************************************************)
(* Proofs about Projection for every set of processes, every set of        *)
(* streams of the agent and every bound: as long as one process projects a *)
(* run at a time, streaming and reloading show the same, and a part never  *)
(* turns into another one; and as long as no projection goes on behind     *)
(* text that was held back, a completed message has the agent's whole text *)
(* and what was streamed is a beginning of it.                             *)
(*                                                                         *)
(* Texts are put together by recursive functions.  That these exist and    *)
(* what they compute are inductions, made here as the search for a least   *)
(* counterexample.                                                         *)
(***************************************************************************)
EXTENDS Projection, SequenceTheorems, FunctionTheorems, FiniteSetTheorems, WellFoundedInduction, TLAPS


-----------------------------------------------------------------------------
(* Induction over the natural numbers.                                     *)

\* Every set of natural numbers has a least one: the intervals below them are finite
\* sets, which strict inclusion orders well.
LEMMA LeastNumber ==
    ASSUME NEW S \in SUBSET Nat, S # {}
    PROVE  \E n \in S : \A m \in S : n <= m
<1> DEFINE Upto(n) == 0 .. n
           T == {Upto(n) : n \in S}
<1>1. IsWellFoundedOn(StrictSubsetOrdering(Nat), FiniteSubsetsOf(Nat))
  BY FS_StrictSubsetOrderingWellFounded
<1>2. T \subseteq FiniteSubsetsOf(Nat) /\ T # {}
  <2>1. \A n \in S : IsFiniteSet(Upto(n)) /\ Upto(n) \subseteq Nat BY FS_Interval
  <2> QED BY <2>1 DEF FiniteSubsetsOf
<1>3. PICK x \in T : \A y \in T : ~(<<y, x>> \in StrictSubsetOrdering(Nat))
  <2> HIDE DEF T
  <2> QED BY <1>1, <1>2, WFMin
<1>4. PICK n \in S : x = Upto(n) BY <1>3
<1>5. ASSUME NEW m \in S, ~(n <= m) PROVE FALSE
  <2>1. m \in Nat /\ n \in Nat /\ m < n BY <1>5
  <2>2. Upto(m) \subseteq Upto(n) /\ n \in Upto(n) /\ n \notin Upto(m) BY <2>1
  <2>3. Upto(m) \in SUBSET Nat /\ Upto(n) \in SUBSET Nat BY <2>1
  <2>4. Upto(m) # Upto(n) BY <2>2
  <2>5. <<Upto(m), Upto(n)>> \in StrictSubsetOrdering(Nat)
    BY <2>2, <2>3, <2>4 DEF StrictSubsetOrdering
  <2>6. Upto(m) \in T BY <1>5
  <2> QED BY <1>3, <1>4, <2>5, <2>6
<1> QED BY <1>5

\* Induction over the natural numbers, for a set instead of an operator.
LEMMA Induction ==
    ASSUME NEW S, 0 \in S, \A n \in Nat : n \in S => n + 1 \in S
    PROVE  Nat \subseteq S
<1> DEFINE Out == {n \in Nat : n \notin S}
<1>1. SUFFICES ASSUME Out # {} PROVE FALSE OBVIOUS
<1>2. PICK k \in Out : \A m \in Out : k <= m
  <2> HIDE DEF Out
  <2>1. Out \in SUBSET Nat BY DEF Out
  <2> QED BY <1>1, <2>1, LeastNumber
<1>3. k - 1 \in Nat /\ k - 1 \notin Out BY <1>2
<1>4. (k - 1) + 1 \in S BY <1>3
<1> QED BY <1>2, <1>4

\* f begins with a and goes on by a step, which may depend on the place.
Recurs(f, n, a, step) == f[0] = a /\ \A i \in 1 .. n : f[i] = step[<<i, f[i - 1]>>]

\* A function that is given by its first value and by a step exists.
LEMMA RecursionExists ==
    ASSUME NEW n \in Nat, NEW S, NEW a \in S, NEW step \in [(1 .. n) \X S -> S]
    PROVE  \E f \in [0 .. n -> S] : Recurs(f, n, a, step)
<1> DEFINE Good(f, k) == Recurs(f, k, a, step)
           N == {k \in Nat : k <= n => \E f \in [0 .. k -> S] : Good(f, k)}
<1>1. 0 \in N
  <2> DEFINE f == [i \in 0 .. 0 |-> a]
  <2>1. f \in [0 .. 0 -> S] /\ Good(f, 0) BY DEF Recurs
  <2> QED BY <2>1
<1>2. ASSUME NEW k \in Nat, k \in N PROVE k + 1 \in N
  <2>1. SUFFICES ASSUME k + 1 <= n PROVE \E f \in [0 .. k + 1 -> S] : Good(f, k + 1) OBVIOUS
  <2>2. PICK f \in [0 .. k -> S] : Good(f, k) BY <1>2, <2>1
  <2> DEFINE g == [i \in 0 .. k + 1 |-> IF i = k + 1 THEN step[<<k + 1, f[k]>>] ELSE f[i]]
  <2>3. <<k + 1, f[k]>> \in (1 .. n) \X S BY <2>1
  <2>4. step[<<k + 1, f[k]>>] \in S BY <2>3
  <2>5. g \in [0 .. k + 1 -> S] BY <2>4
  <2>6. g[0] = a BY <2>2 DEF Recurs
  <2>7. ASSUME NEW i \in 1 .. k + 1 PROVE g[i] = step[<<i, g[i - 1]>>]
    <3>1. i - 1 \in 0 .. k /\ i - 1 # k + 1 OBVIOUS
    <3>2. g[i - 1] = f[i - 1] BY <3>1
    <3>3. CASE i = k + 1 BY <3>2, <3>3
    <3>4. CASE i # k + 1
      <4>1. i \in 1 .. k /\ i \in 0 .. k + 1 BY <3>4
      <4>2. g[i] = f[i] BY <3>4, <4>1
      <4> QED BY <2>2, <3>2, <4>1, <4>2 DEF Recurs
    <3> QED BY <3>3, <3>4
  <2> HIDE DEF g
  <2>8. Good(g, k + 1) BY <2>6, <2>7 DEF Recurs
  <2> QED BY <2>5, <2>8
<1>3. Nat \subseteq N
  <2> HIDE DEF N
  <2> QED BY <1>1, <1>2, Induction
<1>4. n \in N BY <1>3
<1> QED BY <1>4

-----------------------------------------------------------------------------
(* ToolProtocolStripper: where tags are.                                   *)

\* Texts of the agent, and the answer of the user.
Characters == STRING \cup {"r"}

Texts == Seq(Characters)

\* A tag from i to j.
TagAt(s, i, j, tail) ==
    /\ i \in 1 .. Len(s) /\ j \in i + 1 .. Len(s)
    /\ s[i] = "<" /\ s[j] = tail
    /\ \A k \in i + 1 .. j - 1 : s[k] = "w"

\* Two tags that begin at one place are the same.
LEMMA TagUnique ==
    ASSUME NEW s \in Texts, NEW i, NEW j, NEW k, NEW tail \in {"T", "C"}, NEW other \in {"T", "C"},
           TagAt(s, i, j, tail), TagAt(s, i, k, other)
    PROVE  j = k /\ tail = other
<1>1. i \in Nat /\ j \in Nat /\ k \in Nat BY DEF TagAt, Texts
<1>2. ~(j < k)
  <2>1. SUFFICES ASSUME j < k PROVE FALSE OBVIOUS
  <2>2. j \in i + 1 .. k - 1 BY <1>1, <2>1 DEF TagAt, Texts
  <2>3. s[j] = "w" BY <2>2 DEF TagAt
  <2>4. s[j] = tail BY DEF TagAt
  <2> QED BY <2>3, <2>4
<1>3. ~(k < j)
  <2>1. SUFFICES ASSUME k < j PROVE FALSE OBVIOUS
  <2>2. k \in i + 1 .. j - 1 BY <1>1, <2>1 DEF TagAt, Texts
  <2>3. s[k] = "w" BY <2>2 DEF TagAt
  <2>4. s[k] = other BY DEF TagAt
  <2> QED BY <2>3, <2>4
<1>4. j = k BY <1>1, <1>2, <1>3
<1>5. s[j] = tail /\ s[k] = other BY DEF TagAt
<1> QED BY <1>4, <1>5

\* TagEnd finds the end of the tag, if there is one.
LEMMA TagEndIs ==
    ASSUME NEW s \in Texts, NEW i \in 1 .. Len(s), NEW tail \in {"T", "C"}
    PROVE  /\ \A j : TagAt(s, i, j, tail) => TagEnd(s, i, tail) = j
           /\ TagEnd(s, i, tail) # 0 => TagAt(s, i, TagEnd(s, i, tail), tail)
<1> DEFINE ends == {j \in i + 1 .. Len(s) : s[j] = tail /\ \A k \in i + 1 .. j - 1 : s[k] = "w"}
<1>1. TagEnd(s, i, tail) = IF s[i] = "<" /\ ends # {} THEN CHOOSE j \in ends : TRUE ELSE 0
  BY DEF TagEnd
<1>2. \A j : TagAt(s, i, j, tail) <=> s[i] = "<" /\ j \in ends BY DEF TagAt, Texts
<1> HIDE DEF ends
<1>3. ASSUME NEW j, TagAt(s, i, j, tail) PROVE TagEnd(s, i, tail) = j
  <2>1. s[i] = "<" /\ j \in ends BY <1>2, <1>3
  <2>2. (CHOOSE e \in ends : TRUE) \in ends BY <2>1
  <2>3. TagEnd(s, i, tail) \in ends BY <1>1, <2>1, <2>2
  <2>4. TagAt(s, i, TagEnd(s, i, tail), tail) BY <1>2, <2>1, <2>3
  <2> QED BY <1>3, <2>4, TagUnique
<1>4. ASSUME TagEnd(s, i, tail) # 0 PROVE TagAt(s, i, TagEnd(s, i, tail), tail)
  <2>1. s[i] = "<" /\ ends # {} BY <1>1, <1>4
  <2>2. (CHOOSE e \in ends : TRUE) \in ends BY <2>1
  <2> QED BY <1>1, <1>2, <2>1, <2>2
<1> QED BY <1>3, <1>4

\* Tags are the places where a tag begins.
LEMMA TagsAre ==
    ASSUME NEW s \in Texts, NEW tail \in {"T", "C"}, NEW i
    PROVE  i \in Tags(s, tail) <=> \E j : TagAt(s, i, j, tail)
<1>1. DOMAIN s = 1 .. Len(s) /\ Len(s) \in Nat BY DEF Texts
<1>2. CASE i \in 1 .. Len(s)
  <2>1. i \in Tags(s, tail) <=> TagEnd(s, i, tail) # 0 BY <1>1, <1>2 DEF Tags
  <2>2. ASSUME NEW j, TagAt(s, i, j, tail) PROVE TagEnd(s, i, tail) # 0
    <3>1. TagEnd(s, i, tail) = j BY <1>2, <2>2, TagEndIs
    <3> QED BY <1>1, <2>2, <3>1 DEF TagAt
  <2> QED BY <1>2, <2>1, <2>2, TagEndIs
<1>3. CASE i \notin 1 .. Len(s) BY <1>1, <1>3 DEF Tags, TagAt
<1> QED BY <1>2, <1>3

\* What the rest of a text from m on is.
LEMMA FromIs ==
    ASSUME NEW s \in Texts, NEW m \in 1 .. Len(s) + 1
    PROVE  /\ From(s, m) \in Texts /\ Len(From(s, m)) = Len(s) - m + 1
           /\ \A k \in 1 .. Len(s) - m + 1 : From(s, m)[k] = s[m + k - 1]
BY DEF From, Texts

\* Two texts with the same symbols are the same.
LEMMA SameText ==
    ASSUME NEW s \in Texts, NEW t \in Texts, Len(s) = Len(t),
           \A i \in 1 .. Len(s) : s[i] = t[i]
    PROVE  s = t
BY DEF Texts

\* A tag of the rest of a text is a tag of the text.
LEMMA TagShifts ==
    ASSUME NEW s \in Texts, NEW m \in 1 .. Len(s) + 1, NEW k \in Nat \ {0}, NEW j \in Nat, NEW tail
    PROVE  TagAt(From(s, m), k, j, tail) <=> TagAt(s, m + k - 1, m + j - 1, tail)
<1> DEFINE r == From(s, m)
<1>1. Len(s) \in Nat /\ r \in Texts /\ Len(r) = Len(s) - m + 1 BY FromIs DEF Texts
<1>2. \A i \in 1 .. Len(r) : r[i] = s[m + i - 1] BY <1>1, FromIs
<1> HIDE DEF r
<1>3. ASSUME TagAt(r, k, j, tail) PROVE TagAt(s, m + k - 1, m + j - 1, tail)
  <2>1. k \in 1 .. Len(r) /\ j \in k + 1 .. Len(r) BY <1>3 DEF TagAt
  <2>2. m + k - 1 \in 1 .. Len(s) /\ m + j - 1 \in (m + k - 1) + 1 .. Len(s) BY <1>1, <2>1
  <2>3. s[m + k - 1] = "<" /\ s[m + j - 1] = tail
    <3>1. j \in 1 .. Len(r) BY <1>1, <2>1
    <3> QED BY <1>2, <1>3, <2>1, <3>1 DEF TagAt
  <2>4. ASSUME NEW i \in (m + k - 1) + 1 .. (m + j - 1) - 1 PROVE s[i] = "w"
    <3>1. i - m + 1 \in k + 1 .. j - 1 /\ i - m + 1 \in 1 .. Len(r) /\ m + (i - m + 1) - 1 = i
      BY <1>1, <2>1
    <3>2. PICK e : e = i - m + 1 OBVIOUS
    <3>3. r[e] = "w" BY <1>3, <3>1, <3>2 DEF TagAt
    <3>4. r[e] = s[m + e - 1] BY <1>2, <3>1, <3>2
    <3> QED BY <3>1, <3>2, <3>3, <3>4
  <2> QED BY <2>2, <2>3, <2>4 DEF TagAt
<1>4. ASSUME TagAt(s, m + k - 1, m + j - 1, tail) PROVE TagAt(r, k, j, tail)
  <2>1. m + k - 1 \in 1 .. Len(s) /\ m + j - 1 \in (m + k - 1) + 1 .. Len(s) BY <1>4 DEF TagAt
  <2>2. k \in 1 .. Len(r) /\ j \in k + 1 .. Len(r) /\ j \in 1 .. Len(r) BY <1>1, <2>1
  <2>3. r[k] = "<" /\ r[j] = tail BY <1>2, <1>4, <2>2 DEF TagAt
  <2>4. ASSUME NEW i \in k + 1 .. j - 1 PROVE r[i] = "w"
    <3>1. i \in 1 .. Len(r) /\ m + i - 1 \in (m + k - 1) + 1 .. (m + j - 1) - 1 BY <1>1, <2>2
    <3>2. s[m + i - 1] = "w" BY <1>4, <3>1 DEF TagAt
    <3> QED BY <1>2, <3>1, <3>2
  <2> QED BY <2>2, <2>3, <2>4 DEF TagAt
<1> QED BY <1>3, <1>4 DEF r

\* More text does not change a tag that is complete.
LEMMA TagStays ==
    ASSUME NEW s \in Texts, NEW t \in Texts, NEW i, NEW j, NEW tail
    PROVE  TagAt(s, i, j, tail) <=> TagAt(s \o t, i, j, tail) /\ j <= Len(s)
<1>1. Len(s) \in Nat /\ Len(t) \in Nat /\ Len(s \o t) = Len(s) + Len(t) BY DEF Texts
<1>2. \A k \in 1 .. Len(s) : (s \o t)[k] = s[k] BY DEF Texts
<1>3. PICK u : u = s \o t OBVIOUS
<1>4. ASSUME TagAt(s, i, j, tail) PROVE TagAt(u, i, j, tail) /\ j <= Len(s)
  <2>1. i \in 1 .. Len(s) /\ j \in i + 1 .. Len(s) /\ j \in 1 .. Len(s) BY <1>1, <1>4 DEF TagAt
  <2>2. \A k \in i + 1 .. j - 1 : k \in 1 .. Len(s) BY <1>1, <2>1
  <2> QED BY <1>1, <1>2, <1>3, <1>4, <2>1, <2>2 DEF TagAt
<1>5. ASSUME TagAt(u, i, j, tail), j <= Len(s) PROVE TagAt(s, i, j, tail)
  <2>1. i \in 1 .. Len(s) /\ j \in i + 1 .. Len(s) /\ j \in 1 .. Len(s)
    BY <1>1, <1>3, <1>5 DEF TagAt
  <2>2. \A k \in i + 1 .. j - 1 : k \in 1 .. Len(s) BY <1>1, <2>1
  <2> QED BY <1>1, <1>2, <1>3, <1>5, <2>1, <2>2 DEF TagAt
<1> QED BY <1>3, <1>4, <1>5

-----------------------------------------------------------------------------
(* What a text is without its blocks.                                      *)

\* A set of places has a first one.
LEMMA FirstIs ==
    ASSUME NEW P \in SUBSET Nat, P # {}
    PROVE  First(P) \in P /\ \A j \in P : First(P) <= j
<1>1. \E n \in P : \A m \in P : n <= m BY LeastNumber
<1> QED BY <1>1 DEF First

\* A block ends behind the tag that opens it.
LEMMA BlockEndIs ==
    ASSUME NEW s \in Texts, NEW i \in 1 .. Len(s)
    PROVE  BlockEnd(s, i) \in i + 1 .. Len(s) + 1
<1> DEFINE closes == {j \in Tags(s, "C") : j > i}
<1>1. SUFFICES ASSUME closes # {} PROVE BlockEnd(s, i) \in i + 1 .. Len(s) + 1
  BY DEF BlockEnd, Texts
<1>2. closes \in SUBSET Nat /\ Len(s) \in Nat BY DEF Tags, Texts
<1>3. PICK c \in closes : c = First(closes)
  <2> HIDE DEF closes
  <2> QED BY <1>1, <1>2, FirstIs
<1>4. c \in 1 .. Len(s) /\ c > i /\ TagEnd(s, c, "C") # 0 BY <1>2, <1>3 DEF Tags, Texts
<1>5. TagAt(s, c, TagEnd(s, c, "C"), "C") BY <1>4, TagEndIs
<1>6. TagEnd(s, c, "C") \in c + 1 .. Len(s) BY <1>5 DEF TagAt
<1>7. BlockEnd(s, i) = TagEnd(s, c, "C") + 1 BY <1>1, <1>3 DEF BlockEnd
<1> QED BY <1>2, <1>4, <1>6, <1>7

\* What is left of s from place i on, if f says it of the places behind.
RestAt(f, s, i) ==
    IF i > Len(s) THEN <<>>
    ELSE IF TagEnd(s, i, "T") = 0 THEN <<s[i]>> \o f[i + 1]
    ELSE f[BlockEnd(s, i)]

Rests(f, s) == f = [i \in 1 .. Len(s) + 1 |-> RestAt(f, s, i)]

\* What is left of the rests of a text is a function of where they begin.
LEMMA RestsExist ==
    ASSUME NEW s \in Texts
    PROVE  \E f \in [1 .. Len(s) + 1 -> Texts] : Rests(f, s)
<1> DEFINE len == Len(s) + 1
           N == {n \in Nat : n < len =>
                   \E f \in [len - n .. len -> Texts] : \A i \in len - n .. len : f[i] = RestAt(f, s, i)}
<1>1. len \in Nat \ {0} BY DEF Texts
<1>2. 0 \in N
  <2> DEFINE f == [i \in len .. len |-> <<>>]
  <2>1. f \in [len - 0 .. len -> Texts] BY <1>1 DEF Texts
  <2>2. \A i \in len - 0 .. len : f[i] = RestAt(f, s, i) BY <1>1 DEF RestAt, Texts
  <2> QED BY <2>1, <2>2
<1>3. ASSUME NEW n \in Nat, n \in N PROVE n + 1 \in N
  <2>1. SUFFICES ASSUME n + 1 < len
                 PROVE  \E f \in [len - (n + 1) .. len -> Texts] :
                           \A i \in len - (n + 1) .. len : f[i] = RestAt(f, s, i)
    OBVIOUS
  <2>2. PICK f \in [len - n .. len -> Texts] : \A i \in len - n .. len : f[i] = RestAt(f, s, i)
    BY <1>1, <1>3, <2>1
  <2>3. PICK k : k = len - (n + 1) OBVIOUS
  <2>4. k \in 1 .. Len(s) /\ k + 1 = len - n BY <1>1, <2>1, <2>3
  <2> DEFINE g == [i \in k .. len |-> IF i = k THEN RestAt(f, s, k) ELSE f[i]]
  <2>5. RestAt(f, s, k) \in Texts
    <3>1. <<s[k]>> \in Texts BY <2>4 DEF Texts
    <3>2. f[k + 1] \in Texts BY <1>1, <2>2, <2>4
    <3>3. f[BlockEnd(s, k)] \in Texts
      <4>1. BlockEnd(s, k) \in len - n .. len BY <1>1, <2>4, BlockEndIs
      <4> QED BY <2>2, <4>1
    <3>4. <<s[k]>> \o f[k + 1] \in Texts BY <3>1, <3>2 DEF Texts
    <3>5. <<>> \in Texts BY DEF Texts
    <3> QED BY <3>3, <3>4, <3>5 DEF RestAt
  <2>6. g \in [k .. len -> Texts]
    <3>1. \A i \in k .. len : i # k => i \in len - n .. len BY <1>1, <2>4
    <3> QED BY <2>2, <2>5, <3>1
  <2>7. \A i \in k + 1 .. len : g[i] = f[i] BY <1>1, <2>4
  <2>8. ASSUME NEW i \in k .. len PROVE g[i] = RestAt(g, s, i)
    <3>1. i \in 1 .. len /\ i \in Nat BY <1>1, <2>4
    <3>2. g[i] = RestAt(f, s, i)
      <4>1. CASE i = k BY <1>1, <2>4, <4>1
      <4>2. CASE i # k
        <5>1. i \in len - n .. len /\ i \in k + 1 .. len BY <1>1, <2>4, <3>1, <4>2
        <5> QED BY <2>2, <2>7, <5>1
      <4> QED BY <4>1, <4>2
    <3>3. RestAt(f, s, i) = RestAt(g, s, i)
      <4>1. CASE i > Len(s) BY <4>1 DEF RestAt
      <4>2. CASE ~(i > Len(s))
        <5>1. i \in 1 .. Len(s) /\ i + 1 \in k + 1 .. len BY <1>1, <2>4, <3>1, <4>2
        <5>2. BlockEnd(s, i) \in k + 1 .. len
          <6>1. BlockEnd(s, i) \in i + 1 .. Len(s) + 1 BY <5>1, BlockEndIs
          <6> QED BY <1>1, <2>4, <5>1, <6>1
        <5>3. f[i + 1] = g[i + 1] BY <2>7, <5>1
        <5>4. f[BlockEnd(s, i)] = g[BlockEnd(s, i)] BY <2>7, <5>2
        <5> HIDE DEF g
        <5> QED BY <5>3, <5>4 DEF RestAt
      <4> QED BY <4>1, <4>2
    <3> QED BY <3>2, <3>3
  <2> HIDE DEF g
  <2> QED BY <2>3, <2>6, <2>8
<1>4. Nat \subseteq N
  <2> HIDE DEF N
  <2> QED BY <1>2, <1>3, Induction
<1>5. len - 1 \in N /\ len - 1 < len /\ len - (len - 1) = 1 BY <1>1, <1>4
<1>6. PICK f \in [1 .. len -> Texts] : \A i \in 1 .. len : f[i] = RestAt(f, s, i) BY <1>5
<1>7. Rests(f, s) BY <1>6 DEF Rests
<1> QED BY <1>6, <1>7

\* Strip is what such a function says of the whole text.
LEMMA StripIs ==
    ASSUME NEW s \in Texts
    PROVE  \E f : Rests(f, s) /\ Strip(s) = f[1]
<1> DEFINE f == CHOOSE f : Rests(f, s)
<1>1. Rests(f, s) BY RestsExist
<1>2. Strip(s) = f[1] BY DEF Strip, Rests, RestAt
<1> QED BY <1>1, <1>2

\* The closing tag that ends a block is the first behind the place.
Closes(s, i, c, e) ==
    /\ TagAt(s, c, e, "C") /\ c > i
    /\ \A j, k : TagAt(s, j, k, "C") /\ j > i => c <= j

\* BlockEnd is behind it, or behind the text.
LEMMA BlockEndAt ==
    ASSUME NEW s \in Texts, NEW i \in Nat
    PROVE  /\ \A c, e : Closes(s, i, c, e) => BlockEnd(s, i) = e + 1
           /\ (\E c, e : Closes(s, i, c, e)) \/ (\A j, k : TagAt(s, j, k, "C") => j <= i)
           /\ (\A j, k : TagAt(s, j, k, "C") => j <= i) => BlockEnd(s, i) = Len(s) + 1
<1> DEFINE closes == {j \in Tags(s, "C") : j > i}
<1>1. BlockEnd(s, i) = IF closes = {} THEN Len(s) + 1 ELSE TagEnd(s, First(closes), "C") + 1
  BY DEF BlockEnd
<1>2. closes \in SUBSET Nat BY DEF Tags, Texts
<1>3. \A j : j \in closes <=> j > i /\ \E k : TagAt(s, j, k, "C") BY TagsAre
<1> HIDE DEF closes
<1>4. ASSUME NEW c, NEW e, Closes(s, i, c, e) PROVE BlockEnd(s, i) = e + 1
  <2>1. c \in closes BY <1>3, <1>4 DEF Closes
  <2>2. First(closes) \in closes /\ \A j \in closes : First(closes) <= j BY <1>2, <2>1, FirstIs
  <2>3. c <= First(closes) BY <1>3, <1>4, <2>2 DEF Closes
  <2>4. c = First(closes)
    <3>1. PICK d : d = First(closes) OBVIOUS
    <3>2. c \in Nat /\ d \in Nat /\ c <= d /\ d <= c BY <1>2, <2>1, <2>2, <2>3, <3>1
    <3> QED BY <3>1, <3>2
  <2>5. TagAt(s, c, e, "C") /\ c \in 1 .. Len(s) BY <1>4 DEF Closes, TagAt
  <2>6. TagEnd(s, c, "C") = e BY <2>5, TagEndIs
  <2> QED BY <1>1, <2>1, <2>4, <2>6
<1>5. (\E c, e : Closes(s, i, c, e)) \/ (\A j, k : TagAt(s, j, k, "C") => j <= i)
  <2>1. SUFFICES ASSUME NEW j, NEW k, TagAt(s, j, k, "C"), ~(j <= i)
                 PROVE  \E c, e : Closes(s, i, c, e)
    OBVIOUS
  <2>2. j \in Nat BY <2>1 DEF TagAt, Texts
  <2>3. j \in closes BY <1>3, <2>1, <2>2
  <2>4. First(closes) \in closes /\ \A c \in closes : First(closes) <= c BY <1>2, <2>3, FirstIs
  <2>5. PICK e : TagAt(s, First(closes), e, "C") BY <1>3, <2>4
  <2>6. Closes(s, i, First(closes), e) BY <1>3, <2>4, <2>5 DEF Closes
  <2> QED BY <2>6
<1>6. ASSUME \A j, k : TagAt(s, j, k, "C") => j <= i PROVE BlockEnd(s, i) = Len(s) + 1
  <2>1. closes = {}
    <3>1. SUFFICES ASSUME NEW j \in closes PROVE FALSE OBVIOUS
    <3>2. PICK k : TagAt(s, j, k, "C") BY <1>3, <3>1
    <3>3. j <= i /\ j > i /\ j \in Nat BY <1>2, <1>3, <1>6, <3>1, <3>2
    <3> QED BY <3>3
  <2> QED BY <1>1, <2>1
<1> QED BY <1>4, <1>5, <1>6

\* A block ends in the rest of a text where it ends in the text.
LEMMA BlockEndShifts ==
    ASSUME NEW s \in Texts, NEW m \in 1 .. Len(s) + 1, NEW k \in 1 .. Len(s) - m + 1
    PROVE  BlockEnd(s, m + k - 1) = m + BlockEnd(From(s, m), k) - 1
<1>1. PICK r : r = From(s, m) OBVIOUS
<1>2. Len(s) \in Nat /\ r \in Texts /\ Len(r) = Len(s) - m + 1
  <2>1. Len(s) \in Nat BY DEF Texts
  <2>2. r \in Texts /\ Len(r) = Len(s) - m + 1 BY <1>1, FromIs
  <2> QED BY <2>1, <2>2
<1>3. PICK p \in Nat : p = m + k - 1 BY <1>2
<1>4. k \in Nat /\ k \in Nat \ {0} BY <1>2
<1>5. CASE \A j, e : TagAt(r, j, e, "C") => j <= k
  <2>1. BlockEnd(r, k) = Len(r) + 1 BY <1>2, <1>4, <1>5, BlockEndAt
  <2>2. ASSUME NEW j, NEW e, TagAt(s, j, e, "C"), ~(j <= p) PROVE FALSE
    <3>1. j \in Nat /\ e \in Nat /\ e > j /\ j > p BY <1>2, <1>3, <2>2 DEF TagAt
    <3>2. PICK a \in Nat \ {0}, b \in Nat : a = j - m + 1 /\ b = e - m + 1
      BY <1>2, <1>3, <1>4, <3>1
    <3>3. j = m + a - 1 /\ e = m + b - 1 /\ a > k BY <1>2, <1>3, <1>4, <3>1, <3>2
    <3>4. TagAt(r, a, b, "C") BY <1>1, <2>2, <3>3, TagShifts
    <3> QED BY <1>4, <1>5, <3>3, <3>4
  <2>3. \A j, e : TagAt(s, j, e, "C") => j <= p BY <2>2
  <2>4. BlockEnd(s, p) = Len(s) + 1 BY <2>3, BlockEndAt
  <2> QED BY <1>1, <1>2, <1>3, <2>1, <2>4
<1>6. CASE ~(\A j, e : TagAt(r, j, e, "C") => j <= k)
  <2>1. PICK c, e : Closes(r, k, c, e) BY <1>2, <1>4, <1>6, BlockEndAt
  <2>2. BlockEnd(r, k) = e + 1 BY <1>2, <1>4, <2>1, BlockEndAt
  <2>3. TagAt(r, c, e, "C") /\ c > k BY <2>1 DEF Closes
  <2>4. c \in Nat \ {0} /\ e \in Nat BY <1>2, <2>3 DEF TagAt
  <2>5. TagAt(s, m + c - 1, m + e - 1, "C") BY <1>1, <2>3, <2>4, TagShifts
  <2>6. m + c - 1 > p BY <1>2, <1>3, <1>4, <2>3, <2>4
  <2>7. ASSUME NEW j, NEW i, TagAt(s, j, i, "C"), j > p PROVE m + c - 1 <= j
    <3>1. j \in Nat /\ i \in Nat /\ i > j BY <1>2, <2>7 DEF TagAt
    <3>2. PICK a \in Nat \ {0}, b \in Nat : a = j - m + 1 /\ b = i - m + 1
      BY <1>2, <1>3, <1>4, <2>7, <3>1
    <3>3. j = m + a - 1 /\ i = m + b - 1 /\ a > k BY <1>2, <1>3, <1>4, <2>7, <3>1, <3>2
    <3>4. TagAt(r, a, b, "C") BY <1>1, <2>7, <3>3, TagShifts
    <3>5. c <= a BY <2>1, <3>3, <3>4 DEF Closes
    <3> QED BY <2>4, <3>1, <3>2, <3>5
  <2>8. Closes(s, p, m + c - 1, m + e - 1) BY <2>5, <2>6, <2>7 DEF Closes
  <2>9. BlockEnd(s, p) = (m + e - 1) + 1 BY <2>8, BlockEndAt
  <2> QED BY <1>1, <1>3, <2>2, <2>4, <2>9
<1> QED BY <1>5, <1>6

\* An opening tag begins in the rest of a text where it begins in the text.
LEMMA OpeningShifts ==
    ASSUME NEW s \in Texts, NEW m \in 1 .. Len(s) + 1, NEW k \in 1 .. Len(s) - m + 1
    PROVE  TagEnd(From(s, m), k, "T") = 0 <=> TagEnd(s, m + k - 1, "T") = 0
<1>1. PICK r : r = From(s, m) OBVIOUS
<1>2. Len(s) \in Nat /\ r \in Texts /\ Len(r) = Len(s) - m + 1
  <2>1. Len(s) \in Nat BY DEF Texts
  <2>2. r \in Texts /\ Len(r) = Len(s) - m + 1 BY <1>1, FromIs
  <2> QED BY <2>1, <2>2
<1>3. k \in 1 .. Len(r) /\ k \in Nat \ {0} /\ m + k - 1 \in 1 .. Len(s) BY <1>2
<1>4. ASSUME TagEnd(r, k, "T") # 0 PROVE TagEnd(s, m + k - 1, "T") # 0
  <2>1. PICK e : e = TagEnd(r, k, "T") OBVIOUS
  <2>2. TagAt(r, k, e, "T") BY <1>2, <1>3, <1>4, <2>1, TagEndIs
  <2>3. e \in Nat /\ e > k BY <1>2, <1>3, <2>2 DEF TagAt
  <2>4. TagAt(s, m + k - 1, m + e - 1, "T") BY <1>1, <1>3, <2>2, <2>3, TagShifts
  <2>5. TagEnd(s, m + k - 1, "T") = m + e - 1 BY <1>3, <2>4, TagEndIs
  <2> QED BY <1>2, <1>3, <2>3, <2>5
<1>5. ASSUME TagEnd(s, m + k - 1, "T") # 0 PROVE TagEnd(r, k, "T") # 0
  <2>1. PICK e : e = TagEnd(s, m + k - 1, "T") OBVIOUS
  <2>2. TagAt(s, m + k - 1, e, "T") BY <1>3, <1>5, <2>1, TagEndIs
  <2>3. e \in Nat /\ e > m + k - 1 BY <1>2, <1>3, <2>2 DEF TagAt
  <2>4. PICK b \in Nat : b = e - m + 1 /\ b > k /\ e = m + b - 1 BY <1>2, <1>3, <2>3
  <2>5. TagAt(r, k, b, "T") BY <1>1, <1>3, <2>2, <2>4, TagShifts
  <2>6. TagEnd(r, k, "T") = b BY <1>2, <1>3, <2>5, TagEndIs
  <2> QED BY <1>3, <2>4, <2>6
<1> QED BY <1>1, <1>4, <1>5

\* What is left of the rest of a text is the same in the text.
LEMMA RestsShift ==
    ASSUME NEW s \in Texts, NEW m \in 1 .. Len(s) + 1, NEW f, Rests(f, s),
           NEW g, Rests(g, From(s, m)), NEW k \in 1 .. Len(s) - m + 2
    PROVE  g[k] = f[m + k - 1]
<1>1. PICK r : r = From(s, m) OBVIOUS
<1>2. Len(s) \in Nat /\ r \in Texts /\ Len(r) = Len(s) - m + 1
  <2>1. Len(s) \in Nat BY DEF Texts
  <2>2. r \in Texts /\ Len(r) = Len(s) - m + 1 BY <1>1, FromIs
  <2> QED BY <2>1, <2>2
<1>3. PICK len \in Nat \ {0} : len = Len(r) + 1 BY <1>2
<1> DEFINE Same(i) == g[i] = f[m + i - 1]
           N == {n \in Nat : \A i \in 1 .. len : len - i <= n => Same(i)}
<1>4. \A i \in 1 .. len : g[i] = RestAt(g, r, i) BY <1>1, <1>3 DEF Rests
<1>5. \A i \in 1 .. Len(s) + 1 : f[i] = RestAt(f, s, i) BY DEF Rests
<1>6. Same(len)
  <2>1. g[len] = <<>>
    <3>1. len \in 1 .. len /\ len > Len(r) BY <1>2, <1>3
    <3>2. g[len] = RestAt(g, r, len) BY <1>4, <3>1
    <3> QED BY <3>1, <3>2 DEF RestAt
  <2>2. m + len - 1 = Len(s) + 1 /\ Len(s) + 1 \in 1 .. Len(s) + 1 BY <1>2, <1>3
  <2>3. f[Len(s) + 1] = <<>>
    <3>1. Len(s) + 1 > Len(s) BY <1>2
    <3>2. f[Len(s) + 1] = RestAt(f, s, Len(s) + 1) BY <1>5, <2>2
    <3> QED BY <3>1, <3>2 DEF RestAt
  <2> QED BY <2>1, <2>2, <2>3
<1>7. 0 \in N
  <2>1. \A i \in 1 .. len : len - i <= 0 => i = len BY <1>3
  <2> HIDE DEF Same
  <2> QED BY <1>6, <2>1
<1>8. ASSUME NEW n \in Nat, n \in N PROVE n + 1 \in N
  <2>1. SUFFICES ASSUME NEW i \in 1 .. len, len - i <= n + 1 PROVE Same(i) OBVIOUS
  <2>2. \A j \in i + 1 .. len : Same(j)
    <3>1. \A j \in i + 1 .. len : j \in 1 .. len /\ len - j <= n BY <1>3, <2>1
    <3> HIDE DEF Same
    <3> QED BY <1>8, <3>1
  <2>3. CASE i = len BY <1>6, <2>3
  <2>4. CASE i # len
    <3>1. i \in 1 .. Len(r) /\ i \in 1 .. Len(s) - m + 1 BY <1>2, <1>3, <2>1, <2>4
    <3>2. PICK p \in 1 .. Len(s) : p = m + i - 1 BY <1>2, <3>1
    <3>3. ~(i > Len(r)) /\ ~(p > Len(s)) BY <1>2, <3>1, <3>2
    <3>4. g[i] = IF TagEnd(r, i, "T") = 0 THEN <<r[i]>> \o g[i + 1] ELSE g[BlockEnd(r, i)]
      BY <1>4, <2>1, <3>3 DEF RestAt
    <3>5. f[p] = IF TagEnd(s, p, "T") = 0 THEN <<s[p]>> \o f[p + 1] ELSE f[BlockEnd(s, p)]
      <4>1. p \in 1 .. Len(s) + 1 BY <1>2
      <4> QED BY <1>5, <3>3, <4>1 DEF RestAt
    <3>6. TagEnd(r, i, "T") = 0 <=> TagEnd(s, p, "T") = 0 BY <1>1, <3>1, <3>2, OpeningShifts
    <3>7. r[i] = s[p] BY <1>1, <3>1, <3>2, FromIs
    <3>8. g[i + 1] = f[p + 1]
      <4>1. i + 1 \in i + 1 .. len /\ m + (i + 1) - 1 = p + 1 BY <1>2, <1>3, <3>1, <3>2
      <4> QED BY <2>2, <4>1
    <3>9. g[BlockEnd(r, i)] = f[BlockEnd(s, p)]
      <4>1. BlockEnd(r, i) \in i + 1 .. len BY <1>2, <1>3, <3>1, BlockEndIs
      <4>2. BlockEnd(s, p) = m + BlockEnd(r, i) - 1 BY <1>1, <3>1, <3>2, BlockEndShifts
      <4> QED BY <2>2, <4>1, <4>2
    <3> QED BY <3>2, <3>4, <3>5, <3>6, <3>7, <3>8, <3>9
  <2> QED BY <2>3, <2>4
<1>9. Nat \subseteq N
  <2> HIDE DEF N
  <2> QED BY <1>7, <1>8, Induction
<1>10. k \in 1 .. len /\ len - k \in Nat BY <1>2, <1>3
<1>11. len - k \in N
  <2> HIDE DEF N
  <2> QED BY <1>9, <1>10
<1>12. len - k <= len - k BY <1>10
<1> QED BY <1>10, <1>11, <1>12

\* Texts are put together in any order.
LEMMA Joined ==
    ASSUME NEW s \in Texts, NEW t \in Texts, NEW u \in Texts
    PROVE  /\ s \o t \in Texts /\ Len(s \o t) = Len(s) + Len(t) /\ Len(s) \in Nat
           /\ (s \o t) \o u = s \o (t \o u)
           /\ s \o <<>> = s /\ <<>> \o s = s
<1>1. s \in Seq(Characters) /\ t \in Seq(Characters) /\ u \in Seq(Characters) BY DEF Texts
<1>2. (s \o t) \o u = s \o (t \o u) BY <1>1, ConcatAssociative
<1>3. s \o <<>> = s /\ <<>> \o s = s BY <1>1, ConcatEmptySeq
<1>4. s \o t \in Seq(Characters) /\ Len(s \o t) = Len(s) + Len(t) BY <1>1, ConcatProperties
<1>5. Len(s) \in Nat BY <1>1
<1> QED BY <1>2, <1>3, <1>4, <1>5 DEF Texts

\* In whichever order.
LEMMA JoinedAnyhow ==
    \A s, t, u \in Texts : (s \o t) \o u = s \o (t \o u)
BY ConcatAssociative DEF Texts

\* Beginnings of a text.
LEMMA Beginnings ==
    ASSUME NEW s \in Texts, NEW n \in 0 .. Len(s)
    PROVE  /\ SubSeq(s, 1, n) \in Texts /\ Len(SubSeq(s, 1, n)) = n
           /\ SubSeq(s, 1, n) \o From(s, n + 1) = s
           /\ n < Len(s) => SubSeq(s, 1, n + 1) = SubSeq(s, 1, n) \o <<s[n + 1]>>
           /\ SubSeq(s, 1, 0) = <<>> /\ From(s, 1) = s
<1>1. s \in Seq(Characters) /\ Len(s) \in Nat /\ n \in Nat BY DEF Texts
<1>2. SubSeq(s, 1, n) \in Seq(Characters) /\ Len(SubSeq(s, 1, n)) = n BY <1>1
<1>3. SubSeq(s, 1, n) \o From(s, n + 1) = s
  <2>1. 1 \in 1 .. Len(s) + 1 /\ n \in 1 - 1 .. Len(s) /\ Len(s) \in n .. Len(s) BY <1>1
  <2>2. SubSeq(s, 1, n) \o SubSeq(s, n + 1, Len(s)) = SubSeq(s, 1, Len(s))
    BY <1>1, <2>1, ConcatAdjacentSubSeq
  <2>3. SubSeq(s, 1, Len(s)) = s BY <1>1, SubSeqFull
  <2> QED BY <2>2, <2>3, Zenon DEF From
<1>4. ASSUME n < Len(s) PROVE SubSeq(s, 1, n + 1) = SubSeq(s, 1, n) \o <<s[n + 1]>>
  <2>1. 1 \in 1 .. Len(s) /\ n + 1 \in 1 .. Len(s) /\ (n + 1) - 1 = n BY <1>1, <1>4
  <2> QED BY <1>1, <2>1, SubSeqRecursiveSecond
<1>5. SubSeq(s, 1, 0) = <<>> BY SubSeqEmpty
<1>6. From(s, 1) = s BY <1>1, SubSeqFull DEF From
<1> QED BY <1>2, <1>3, <1>4, <1>5, <1>6 DEF Texts

\* What is left of a text from a place on.
LEMMA StripRest ==
    ASSUME NEW s \in Texts, NEW f, Rests(f, s), NEW m \in 1 .. Len(s) + 1
    PROVE  Strip(From(s, m)) = f[m]
<1>1. From(s, m) \in Texts /\ Len(s) \in Nat BY FromIs DEF Texts
<1>2. PICK g : Rests(g, From(s, m)) /\ Strip(From(s, m)) = g[1] BY <1>1, StripIs
<1>3. 1 \in 1 .. Len(s) - m + 2 /\ m + 1 - 1 = m BY <1>1
<1>4. g[1] = f[m + 1 - 1] BY <1>2, <1>3, RestsShift
<1> QED BY <1>2, <1>3, <1>4

\* What is left of a text is a text, and nothing is left of no text.
LEMMA StripTyped ==
    ASSUME NEW s \in Texts
    PROVE  Strip(s) \in Texts /\ Strip(<<>>) = <<>>
<1>1. PICK f \in [1 .. Len(s) + 1 -> Texts] : Rests(f, s) BY RestsExist
<1>2. Len(s) \in Nat /\ 1 \in 1 .. Len(s) + 1 /\ Len(s) + 1 \in 1 .. Len(s) + 1
  <2>1. Len(s) \in Nat BY DEF Texts
  <2> QED BY <2>1
<1>3. Strip(s) = f[1]
  <2>1. Strip(From(s, 1)) = f[1] BY <1>1, <1>2, StripRest
  <2>2. 0 \in 0 .. Len(s) BY <1>2
  <2>3. From(s, 1) = s BY <2>2, Beginnings
  <2> QED BY <2>1, <2>3
<1>4. From(s, Len(s) + 1) = <<>> BY <1>2, SubSeqEmpty DEF From
<1>5. f[Len(s) + 1] = <<>>
  <2>1. f[Len(s) + 1] = RestAt(f, s, Len(s) + 1) BY <1>1, <1>2 DEF Rests
  <2>2. Len(s) + 1 > Len(s) BY <1>2
  <2> QED BY <2>1, <2>2 DEF RestAt
<1>6. Strip(<<>>) = <<>>
  <2>1. Strip(From(s, Len(s) + 1)) = f[Len(s) + 1] BY <1>1, <1>2, StripRest
  <2> QED BY <1>4, <1>5, <2>1
<1> QED BY <1>1, <1>2, <1>3, <1>6

\* A text stays as it is up to its first opening tag.
LEMMA StripBegins ==
    ASSUME NEW s \in Texts, NEW n \in 0 .. Len(s), \A i \in 1 .. n : TagEnd(s, i, "T") = 0
    PROVE  Strip(s) = SubSeq(s, 1, n) \o Strip(From(s, n + 1))
<1>1. PICK f \in [1 .. Len(s) + 1 -> Texts] : Rests(f, s) BY RestsExist
<1> DEFINE Begun(k) == f[1] = SubSeq(s, 1, k) \o f[k + 1]
           N == {k \in Nat : k <= n => Begun(k)}
<1>2. Len(s) \in Nat /\ n \in Nat /\ n <= Len(s)
  <2>1. Len(s) \in Nat BY DEF Texts
  <2> QED BY <2>1
<1>3. 0 \in N
  <2>1. f[1] \in Texts BY <1>1, <1>2
  <2>2. SubSeq(s, 1, 0) = <<>> BY SubSeqEmpty
  <2>3. <<>> \o f[1] = f[1] BY <2>1, Joined
  <2>4. Begun(0)
    <3>1. 0 + 1 = 1 OBVIOUS
    <3> QED BY <2>2, <2>3, <3>1, Zenon
  <2> HIDE DEF Begun
  <2> QED BY <2>4
<1>4. ASSUME NEW k \in Nat, k \in N PROVE k + 1 \in N
  <2>1. SUFFICES ASSUME k + 1 <= n PROVE Begun(k + 1)
    <3> HIDE DEF Begun
    <3> QED OBVIOUS
  <2>2. Begun(k)
    <3> HIDE DEF Begun
    <3> QED BY <1>2, <1>4, <2>1
  <2>3. k + 1 \in 1 .. n /\ k + 1 \in 1 .. Len(s) + 1 /\ ~(k + 1 > Len(s)) /\ k + 1 \in 1 .. Len(s)
        /\ k \in 0 .. Len(s) /\ k < Len(s) /\ (k + 1) + 1 \in 1 .. Len(s) + 1
    BY <1>2, <2>1
  <2>4. f[k + 1] = <<s[k + 1]>> \o f[(k + 1) + 1]
    <3>1. f[k + 1] = RestAt(f, s, k + 1) BY <1>1, <2>3 DEF Rests
    <3>2. TagEnd(s, k + 1, "T") = 0 BY <2>3
    <3> QED BY <2>3, <3>1, <3>2 DEF RestAt
  <2>5. PICK b : b = SubSeq(s, 1, k) OBVIOUS
  <2>6. SubSeq(s, 1, k + 1) = b \o <<s[k + 1]>> /\ b \in Texts BY <2>3, <2>5, Beginnings
  <2>7. PICK x : x = <<s[k + 1]>> OBVIOUS
  <2>8. x \in Texts BY <2>3, <2>7 DEF Texts
  <2>9. PICK r \in Texts : r = f[(k + 1) + 1] BY <1>1, <2>3
  <2>10. (b \o x) \o r = b \o (x \o r)
    <3>1. b \in Texts BY <2>6
    <3> HIDE DEF Begun
    <3> QED BY <2>8, <2>9, <3>1, JoinedAnyhow, Zenon
  <2> QED BY <2>2, <2>4, <2>5, <2>6, <2>7, <2>9, <2>10, Zenon
<1>5. Nat \subseteq N
  <2> HIDE DEF N
  <2> QED BY <1>3, <1>4, Induction
<1>6. Begun(n)
  <2> HIDE DEF Begun
  <2> QED BY <1>2, <1>5
<1>7. 1 \in 1 .. Len(s) + 1 /\ n + 1 \in 1 .. Len(s) + 1 BY <1>2
<1>8. Strip(From(s, 1)) = f[1] /\ Strip(From(s, n + 1)) = f[n + 1] BY <1>1, <1>7, StripRest
<1>9. From(s, 1) = s BY Beginnings
<1> QED BY <1>6, <1>8, <1>9

\* What is left of a text that begins with an opening tag.
AfterBlock(s) == Strip(From(s, BlockEnd(s, 1)))

\* From an opening tag to the end of its block nothing is left.
LEMMA StripBlock ==
    ASSUME NEW s \in Texts, NEW e, TagAt(s, 1, e, "T")
    PROVE  Strip(s) = AfterBlock(s)
<1>1. PICK f \in [1 .. Len(s) + 1 -> Texts] : Rests(f, s) BY RestsExist
<1>2. Len(s) \in Nat /\ 1 \in 1 .. Len(s) BY DEF TagAt, Texts
<1>3. TagEnd(s, 1, "T") # 0
  <2>1. TagEnd(s, 1, "T") = e BY <1>2, TagEndIs
  <2> QED BY <2>1 DEF TagAt, Texts
<1>4. f[1] = f[BlockEnd(s, 1)]
  <2>1. 1 \in 1 .. Len(s) + 1 /\ ~(1 > Len(s)) BY <1>2
  <2>2. f[1] = RestAt(f, s, 1) BY <1>1, <2>1 DEF Rests
  <2> QED BY <1>3, <2>1, <2>2 DEF RestAt
<1>5. BlockEnd(s, 1) \in 1 .. Len(s) + 1 /\ 1 \in 1 .. Len(s) + 1
  <2>1. BlockEnd(s, 1) \in 1 + 1 .. Len(s) + 1 BY <1>2, BlockEndIs
  <2> QED BY <1>2, <2>1
<1>6. Strip(From(s, 1)) = f[1] /\ Strip(From(s, BlockEnd(s, 1))) = f[BlockEnd(s, 1)]
  BY <1>1, <1>5, StripRest
<1>7. 0 \in 0 .. Len(s) BY <1>2
<1>8. From(s, 1) = s BY <1>7, Beginnings
<1> QED BY <1>4, <1>6, <1>8 DEF AfterBlock

-----------------------------------------------------------------------------
(* What a stripper does with a text, turn by turn.                         *)

\* A finite set of numbers has a greatest one.
LEMMA GreatestNumber ==
    ASSUME NEW S \in SUBSET Nat, IsFiniteSet(S), S # {}
    PROVE  \E n \in S : \A m \in S : m <= n
<1> DEFINE Above(n) == {m \in S : m >= n}
           T == {Above(n) : n \in S}
<1>1. IsWellFoundedOn(StrictSubsetOrdering(Nat), FiniteSubsetsOf(Nat))
  BY FS_StrictSubsetOrderingWellFounded
<1>2. T \subseteq FiniteSubsetsOf(Nat) /\ T # {}
  <2>1. \A n \in S : IsFiniteSet(Above(n)) /\ Above(n) \subseteq Nat BY FS_Subset
  <2> QED BY <2>1 DEF FiniteSubsetsOf
<1>3. PICK x \in T : \A y \in T : ~(<<y, x>> \in StrictSubsetOrdering(Nat))
  <2> HIDE DEF T
  <2> QED BY <1>1, <1>2, WFMin
<1>4. PICK n \in S : x = Above(n) BY <1>3
<1>5. ASSUME NEW m \in S, ~(m <= n) PROVE FALSE
  <2>1. m \in Nat /\ n \in Nat /\ n < m BY <1>5
  <2>2. Above(m) \subseteq Above(n) /\ n \in Above(n) /\ n \notin Above(m)
    <3>1. \A k \in S : k \in Nat OBVIOUS
    <3>2. \A k \in S : k >= m => k >= n BY <2>1, <3>1
    <3>3. n >= n /\ ~(n >= m) BY <2>1
    <3> QED BY <3>2, <3>3
  <2>3. Above(m) \in SUBSET Nat /\ Above(n) \in SUBSET Nat BY <2>1
  <2>4. Above(m) # Above(n) BY <2>2
  <2>5. <<Above(m), Above(n)>> \in StrictSubsetOrdering(Nat)
    BY <2>2, <2>3, <2>4 DEF StrictSubsetOrdering
  <2>6. Above(m) \in T BY <1>5
  <2> QED BY <1>3, <1>4, <2>5, <2>6
<1> QED BY <1>5

\* A text is let through up to a "<" that may begin a tag, and no "<" that is let
\* through is the last one and within the look-behind.
LEMMA FlushLengthIs ==
    ASSUME NEW s \in Texts
    PROVE  /\ FlushLength(s) \in 0 .. Len(s)
           /\ \A i \in 1 .. FlushLength(s) :
                 s[i] = "<" /\ (\A k \in i + 1 .. Len(s) : s[k] # "<") => Len(s) - i + 1 > Lookbehind
<1> DEFINE starts == {i \in DOMAIN s : s[i] = "<"}
           last == CHOOSE i \in starts : \A j \in starts : j <= i
<1>1. Len(s) \in Nat /\ DOMAIN s = 1 .. Len(s) BY DEF Texts
<1>2. FlushLength(s) = IF starts = {} THEN Len(s)
                       ELSE IF Len(s) - last + 1 <= Lookbehind THEN last - 1 ELSE Len(s)
  BY DEF FlushLength
<1>3. \A i : i \in starts <=> i \in 1 .. Len(s) /\ s[i] = "<" BY <1>1
<1>4. starts # {} => last \in starts /\ \A j \in starts : j <= last
  <2>1. starts \in SUBSET Nat /\ starts \subseteq 1 .. Len(s) BY <1>1
  <2>2. IsFiniteSet(1 .. Len(s)) BY <1>1, FS_Interval
  <2> HIDE DEF starts
  <2>3. starts # {} => \E i \in starts : \A j \in starts : j <= i 
    <3>1. IsFiniteSet(starts) BY <2>1, <2>2, FS_Subset
    <3> QED BY <2>1, <3>1, GreatestNumber
  <2> QED BY <2>3
<1> HIDE DEF starts, last
<1>5. FlushLength(s) \in 0 .. Len(s)
  <2>1. CASE starts = {} BY <1>1, <1>2, <2>1
  <2>2. CASE starts # {}
    <3>1. last \in 1 .. Len(s) BY <1>3, <1>4, <2>2
    <3> QED BY <1>1, <1>2, <2>2, <3>1
  <2> QED BY <2>1, <2>2
<1>6. ASSUME NEW i \in 1 .. FlushLength(s), s[i] = "<", \A k \in i + 1 .. Len(s) : s[k] # "<"
      PROVE  Len(s) - i + 1 > Lookbehind
  <2>1. i \in 1 .. Len(s) BY <1>1, <1>5
  <2>2. i \in starts BY <1>3, <1>6, <2>1
  <2>3. last \in starts /\ last \in 1 .. Len(s) /\ i <= last BY <1>3, <1>4, <2>2
  <2>4. ~(i < last)
    <3>1. SUFFICES ASSUME i < last PROVE FALSE OBVIOUS
    <3>2. last \in i + 1 .. Len(s) BY <1>1, <2>1, <2>3, <3>1
    <3>3. s[last] = "<" BY <1>3, <2>3
    <3> QED BY <1>6, <3>2, <3>3
  <2>5. i = last BY <1>1, <2>1, <2>3, <2>4
  <2>6. ~(Len(s) - last + 1 <= Lookbehind)
    <3>1. SUFFICES ASSUME Len(s) - last + 1 <= Lookbehind PROVE FALSE OBVIOUS
    <3>2. FlushLength(s) = last - 1 BY <1>2, <2>2, <3>1
    <3> QED BY <1>1, <2>3, <2>5, <3>2
  <2> QED BY <1>1, <2>3, <2>5, <2>6, LookbehindAssumption
<1> QED BY <1>5, <1>6

\* The rest and the beginning of a text with more behind it.
LEMMA FromJoined ==
    ASSUME NEW s \in Texts, NEW t \in Texts, NEW n \in 0 .. Len(s)
    PROVE  /\ From(s \o t, n + 1) = From(s, n + 1) \o t
           /\ SubSeq(s \o t, 1, n) = SubSeq(s, 1, n)
<1>1. PICK u : u = s \o t OBVIOUS
<1>2. /\ u \in Texts /\ Len(u) = Len(s) + Len(t) /\ Len(s) \in Nat /\ Len(t) \in Nat
      /\ \A k \in 1 .. Len(s) + Len(t) : u[k] = IF k <= Len(s) THEN s[k] ELSE t[k - Len(s)]
  <2>1. Len(s) \in Nat /\ Len(t) \in Nat BY DEF Texts
  <2>2. u \in Texts /\ Len(u) = Len(s) + Len(t) BY <1>1, Joined
  <2>3. \A k \in 1 .. Len(s) + Len(t) : u[k] = IF k <= Len(s) THEN s[k] ELSE t[k - Len(s)]
    BY <1>1, ConcatProperties DEF Texts
  <2> QED BY <2>1, <2>2, <2>3
<1>3. From(u, n + 1) = From(s, n + 1) \o t
  <2>1. n + 1 \in 1 .. Len(s) + 1 /\ n + 1 \in 1 .. Len(u) + 1 BY <1>2
  <2>2. PICK r : r = From(s, n + 1) OBVIOUS
  <2>3. r \in Texts /\ Len(r) = Len(s) - n /\ \A k \in 1 .. Len(s) - n : r[k] = s[n + k]
    <3>1. PICK m : m = n + 1 OBVIOUS
    <3>2. r \in Texts /\ Len(r) = Len(s) - m + 1 /\ \A k \in 1 .. Len(s) - m + 1 : r[k] = s[m + k - 1]
      BY <2>1, <2>2, <3>1, FromIs
    <3>3. Len(s) - m + 1 = Len(s) - n /\ \A k \in 1 .. Len(s) - n : m + k - 1 = n + k
      BY <1>2, <3>1
    <3> QED BY <3>2, <3>3
  <2>4. PICK w : w = From(u, n + 1) OBVIOUS
  <2>5. w \in Texts /\ Len(w) = Len(u) - n /\ \A k \in 1 .. Len(u) - n : w[k] = u[n + k]
    <3>1. PICK m : m = n + 1 OBVIOUS
    <3>2. w \in Texts /\ Len(w) = Len(u) - m + 1 /\ \A k \in 1 .. Len(u) - m + 1 : w[k] = u[m + k - 1]
      <4>1. u \in Texts BY <1>2
      <4> QED BY <2>1, <2>4, <3>1, <4>1, FromIs
    <3>3. Len(u) - m + 1 = Len(u) - n /\ \A k \in 1 .. Len(u) - n : m + k - 1 = n + k
      BY <1>2, <3>1
    <3> QED BY <3>2, <3>3
  <2>6. PICK v : v = r \o t OBVIOUS
  <2>7. /\ v \in Texts /\ Len(v) = Len(r) + Len(t)
        /\ \A k \in 1 .. Len(r) + Len(t) : v[k] = IF k <= Len(r) THEN r[k] ELSE t[k - Len(r)]
    <3>1. v \in Texts /\ Len(v) = Len(r) + Len(t) BY <2>3, <2>6, Joined
    <3>2. \A k \in 1 .. Len(r) + Len(t) : v[k] = IF k <= Len(r) THEN r[k] ELSE t[k - Len(r)]
      BY <2>3, <2>6, ConcatProperties DEF Texts
    <3> QED BY <3>1, <3>2
  <2>8. Len(w) = Len(v) BY <1>2, <2>3, <2>5, <2>7
  <2>9. ASSUME NEW k \in 1 .. Len(w) PROVE w[k] = v[k]
    <3>1. k \in 1 .. Len(u) - n /\ n + k \in 1 .. Len(s) + Len(t) /\ k \in 1 .. Len(r) + Len(t)
      BY <1>2, <2>3, <2>5, <2>7, <2>8
    <3>2. w[k] = IF n + k <= Len(s) THEN s[n + k] ELSE t[(n + k) - Len(s)] BY <1>2, <2>5, <3>1
    <3>3. v[k] = IF k <= Len(r) THEN r[k] ELSE t[k - Len(r)] BY <2>7, <3>1
    <3>4. k - Len(r) = (n + k) - Len(s) /\ (k <= Len(r) <=> n + k <= Len(s))
          /\ (k <= Len(r) => k \in 1 .. Len(s) - n)
      BY <1>2, <2>3, <3>1
    <3> QED BY <2>3, <3>2, <3>3, <3>4
  <2>10. w = v BY <2>5, <2>7, <2>8, <2>9, SameText
  <2> QED BY <2>2, <2>4, <2>6, <2>10
<1>4. SubSeq(u, 1, n) = SubSeq(s, 1, n)
  <2>1. CASE n = 0 BY <2>1, SubSeqEmpty
  <2>2. CASE n # 0
    <3>1. 1 \in 1 .. Len(s) /\ n \in 1 .. Len(s) BY <1>2, <2>2
    <3>2. SubSeq(s \o t, 1, n) = SubSeq(s, 1, n) BY <3>1, SubSeqOfConcat1 DEF Texts
    <3> QED BY <1>1, <3>2
  <2> QED BY <2>1, <2>2
<1> QED BY <1>1, <1>3, <1>4

\* Tags that fit into the look-behind still do in the rest of a text.
LEMMA TagsFitFrom ==
    ASSUME NEW s \in Texts, TagsFit(s), NEW m \in 1 .. Len(s) + 1
    PROVE  TagsFit(From(s, m))
<1>1. PICK r : r = From(s, m) OBVIOUS
<1>2. r \in Texts /\ Len(r) = Len(s) - m + 1 BY <1>1, FromIs
<1>3. Len(s) \in Nat BY DEF Texts
<1>4. ASSUME NEW i \in Tags(r, "T") PROVE TagEnd(r, i, "T") - i <= Lookbehind
  <2>1. PICK j : TagAt(r, i, j, "T") BY <1>2, <1>4, TagsAre
  <2>2. i \in 1 .. Len(r) /\ i \in Nat \ {0} /\ j \in Nat BY <1>2, <1>3, <2>1 DEF TagAt
  <2>3. TagEnd(r, i, "T") = j BY <1>2, <2>1, <2>2, TagEndIs
  <2>4. TagAt(s, m + i - 1, m + j - 1, "T") BY <1>1, <2>1, <2>2, TagShifts
  <2>5. m + i - 1 \in 1 .. Len(s) BY <2>4 DEF TagAt
  <2>6. TagEnd(s, m + i - 1, "T") = m + j - 1 BY <2>4, <2>5, TagEndIs
  <2>7. m + i - 1 \in Tags(s, "T") BY <2>4, TagsAre
  <2>8. (m + j - 1) - (m + i - 1) <= Lookbehind BY <2>6, <2>7 DEF TagsFit
  <2> QED BY <1>3, <2>2, <2>3, <2>8
<1> QED BY <1>1, <1>4 DEF TagsFit

\* A tag that more text completes takes all the text from its beginning on.
LEMMA TagAcross ==
    ASSUME NEW s \in Texts, NEW t \in Texts, NEW tail, NEW i, NEW j,
           TagAt(s \o t, i, j, tail), i <= Len(s), ~TagAt(s, i, j, tail)
    PROVE  /\ i \in 1 .. Len(s) /\ j \in Nat /\ j > Len(s)
           /\ s[i] = "<" /\ \A k \in i + 1 .. Len(s) : s[k] = "w"
<1>1. PICK u : u = s \o t OBVIOUS
<1>2. Len(s) \in Nat /\ Len(t) \in Nat /\ Len(u) = Len(s) + Len(t) BY <1>1 DEF Texts
<1>3. \A k \in 1 .. Len(s) : u[k] = s[k] BY <1>1 DEF Texts
<1>4. TagAt(u, i, j, tail) BY <1>1
<1>5. i \in 1 .. Len(s) /\ j \in i + 1 .. Len(u) /\ j \in Nat BY <1>2, <1>4 DEF TagAt
<1>6. ~(j <= Len(s)) BY TagStays
<1>7. s[i] = "<" BY <1>3, <1>4, <1>5 DEF TagAt
<1>8. ASSUME NEW k \in i + 1 .. Len(s) PROVE s[k] = "w"
  <2>1. k \in i + 1 .. j - 1 /\ k \in 1 .. Len(s) BY <1>2, <1>5, <1>6
  <2> QED BY <1>3, <1>4, <2>1 DEF TagAt
<1> QED BY <1>2, <1>5, <1>6, <1>7, <1>8

StripperStates == [buffer : Texts, inside : BOOLEAN]

Drained == [st : StripperStates, out : Texts]

\* What will be left of a text of which a stripper has read all but t.
Rest(st, t) == IF st.inside THEN AfterBlock(st.buffer \o t) ELSE Strip(st.buffer \o t)

\* A stripper can read on: tags fit, and inside a block it still has the opening tag.
Fits(st, t) ==
    /\ TagsFit(st.buffer \o t)
    /\ st.inside => \E e : TagAt(st.buffer, 1, e, "T")

\* What is let through of a text without an opening tag begins none.
LEMMA NoTagFlushed ==
    ASSUME NEW s \in Texts, NEW t \in Texts, TagsFit(s \o t), \A i, j : ~TagAt(s, i, j, "T"),
           NEW n \in 0 .. Len(s), n = FlushLength(s) \/ t = <<>>
    PROVE  \A i \in 1 .. n : TagEnd(s \o t, i, "T") = 0
<1>1. SUFFICES ASSUME NEW i \in 1 .. n, TagEnd(s \o t, i, "T") # 0 PROVE FALSE OBVIOUS
<1>2. PICK u : u = s \o t OBVIOUS
<1>3. PICK j : j = TagEnd(u, i, "T") OBVIOUS
<1>4. u \in Texts /\ Len(u) = Len(s) + Len(t) /\ Len(s) \in Nat /\ Len(t) \in Nat
  <2>1. Len(s) \in Nat /\ Len(t) \in Nat BY DEF Texts
  <2> QED BY <1>2, <2>1, Joined
<1>5. i \in 1 .. Len(u) /\ i <= Len(s) BY <1>4
<1>6. TagAt(u, i, j, "T") BY <1>1, <1>2, <1>3, <1>4, <1>5, TagEndIs
<1>7. t # <<>>
  <2>1. t = <<>> => u = s BY <1>2, Joined
  <2> QED BY <1>6, <2>1
<1>8. j \in Nat /\ j > Len(s) /\ s[i] = "<" /\ \A k \in i + 1 .. Len(s) : s[k] = "w"
  BY <1>2, <1>5, <1>6, TagAcross
<1>9. \A k \in i + 1 .. Len(s) : s[k] # "<" BY <1>8
<1>10. Len(s) - i + 1 > Lookbehind BY <1>1, <1>7, <1>8, <1>9, FlushLengthIs
<1>11. j - i <= Lookbehind
  <2>1. i \in Tags(u, "T") BY <1>4, <1>6, TagsAre
  <2> QED BY <1>2, <1>3, <2>1 DEF TagsFit
<1> QED BY <1>4, <1>5, <1>8, <1>10, <1>11, LookbehindAssumption

\* No tag begins before the first one, whatever follows.
LEMMA NoTagBefore ==
    ASSUME NEW s \in Texts, NEW t \in Texts, NEW p, NEW e, TagAt(s, p, e, "T"),
           \A i, j : TagAt(s, i, j, "T") => p <= i
    PROVE  \A i \in 1 .. p - 1 : TagEnd(s \o t, i, "T") = 0
<1>1. SUFFICES ASSUME NEW i \in 1 .. p - 1, TagEnd(s \o t, i, "T") # 0 PROVE FALSE OBVIOUS
<1>2. PICK u : u = s \o t OBVIOUS
<1>3. PICK j : j = TagEnd(u, i, "T") OBVIOUS
<1>4. u \in Texts /\ Len(u) = Len(s) + Len(t) /\ Len(s) \in Nat /\ Len(t) \in Nat
  <2>1. Len(s) \in Nat /\ Len(t) \in Nat BY DEF Texts
  <2> QED BY <1>2, <2>1, Joined
<1>5. p \in 1 .. Len(s) /\ s[p] = "<" BY DEF TagAt
<1>6. i \in 1 .. Len(u) /\ i <= Len(s) /\ i < p /\ p \in i + 1 .. Len(s) BY <1>4, <1>5
<1>7. TagAt(u, i, j, "T") BY <1>1, <1>2, <1>3, <1>4, <1>6, TagEndIs
<1>8. ~TagAt(s, i, j, "T")
  <2>1. SUFFICES ASSUME TagAt(s, i, j, "T") PROVE FALSE OBVIOUS
  <2>2. p <= i BY <2>1
  <2> QED BY <1>4, <1>5, <1>6, <2>2
<1>9. \A k \in i + 1 .. Len(s) : s[k] = "w" BY <1>2, <1>6, <1>7, <1>8, TagAcross
<1> QED BY <1>5, <1>6, <1>9

\* A block that is closed stays so, whatever follows.
LEMMA BlockStays ==
    ASSUME NEW s \in Texts, NEW t \in Texts, NEW c, NEW e, Closes(s, 1, c, e)
    PROVE  BlockEnd(s \o t, 1) = e + 1
<1>1. PICK u : u = s \o t OBVIOUS
<1>2. u \in Texts /\ Len(s) \in Nat
  <2>1. Len(s) \in Nat BY DEF Texts
  <2> QED BY <1>1, <2>1, Joined
<1>3. TagAt(u, c, e, "C") /\ c > 1 BY <1>1, TagStays DEF Closes
<1>4. c \in 1 .. Len(s) /\ s[c] = "<" BY DEF Closes, TagAt
<1>5. ASSUME NEW j, NEW k, TagAt(u, j, k, "C"), j > 1 PROVE c <= j
  <2>1. SUFFICES ASSUME ~(c <= j) PROVE FALSE OBVIOUS
  <2>2. j \in Nat BY <1>2, <1>5 DEF TagAt, Texts
  <2>3. j <= Len(s) /\ c \in j + 1 .. Len(s) BY <1>2, <1>4, <2>1, <2>2
  <2>4. ~TagAt(s, j, k, "C") BY <1>5, <2>1 DEF Closes
  <2>5. \A i \in j + 1 .. Len(s) : s[i] = "w" BY <1>1, <1>5, <2>3, <2>4, TagAcross
  <2> QED BY <1>4, <2>3, <2>5
<1>6. Closes(u, 1, c, e) BY <1>3, <1>5 DEF Closes
<1>7. BlockEnd(u, 1) = e + 1 BY <1>2, <1>6, BlockEndAt
<1> QED BY <1>1, <1>7

\* What is left of a text, beginning by beginning.
LEMMA StripFlushed ==
    ASSUME NEW s \in Texts, NEW t \in Texts, NEW n \in 0 .. Len(s),
           \A i \in 1 .. n : TagEnd(s \o t, i, "T") = 0
    PROVE  Strip(s \o t) = SubSeq(s, 1, n) \o Strip(From(s, n + 1) \o t)
<1>1. PICK u : u = s \o t OBVIOUS
<1>2. u \in Texts /\ Len(u) = Len(s) + Len(t) /\ Len(s) \in Nat /\ Len(t) \in Nat
  <2>1. Len(s) \in Nat /\ Len(t) \in Nat BY DEF Texts
  <2> QED BY <1>1, <2>1, Joined
<1>3. n \in 0 .. Len(u) BY <1>2
<1>4. \A i \in 1 .. n : TagEnd(u, i, "T") = 0 BY <1>1
<1>5. Strip(u) = SubSeq(u, 1, n) \o Strip(From(u, n + 1)) BY <1>2, <1>3, <1>4, StripBegins
<1>6. From(u, n + 1) = From(s, n + 1) \o t /\ SubSeq(u, 1, n) = SubSeq(s, 1, n)
  BY <1>1, FromJoined
<1> QED BY <1>1, <1>5, <1>6

\* What a turn keeps: what has come out and what will be left of the rest.
Kept(r, d, t) ==
    /\ r \in Drained /\ Fits(r.st, t)
    /\ r.out \o Rest(r.st, t) = d.out \o Rest(d.st, t)

\* Joining what is let through to what came before.
LEMMA LetThrough ==
    ASSUME NEW d \in Drained, NEW t \in Texts, NEW r, NEW begin \in Texts, NEW buffer \in Texts,
           NEW inside \in BOOLEAN,
           r = [st |-> [buffer |-> buffer, inside |-> inside], out |-> d.out \o begin],
           Fits(r.st, t), Rest(d.st, t) = begin \o Rest(r.st, t), Rest(r.st, t) \in Texts
    PROVE  Kept(r, d, t)
<1>1. d.out \in Texts BY DEF Drained
<1>2. r.st = [buffer |-> buffer, inside |-> inside] /\ r.out = d.out \o begin OBVIOUS
<1>3. r.st \in StripperStates BY <1>2 DEF StripperStates
<1>4. d.out \o begin \in Texts BY <1>1, Joined
<1>5. r \in Drained BY <1>3, <1>4 DEF Drained
<1>6. PICK out, rest : out = d.out /\ rest = Rest(r.st, t) OBVIOUS
<1>7. (out \o begin) \o rest = out \o (begin \o rest) BY <1>1, <1>6, JoinedAnyhow, Zenon
<1> QED BY <1>2, <1>5, <1>6, <1>7 DEF Kept

\* What will be left is a text.
LEMMA RestTyped ==
    ASSUME NEW st \in StripperStates, NEW t \in Texts
    PROVE  Rest(st, t) \in Texts
<1>1. PICK u : u = st.buffer \o t OBVIOUS
<1>2. u \in Texts
  <2>1. st.buffer \in Texts BY DEF StripperStates
  <2> QED BY <1>1, <2>1, Joined
<1>3. Strip(u) \in Texts BY <1>2, StripTyped
<1>4. CASE u # <<>>
  <2>1. Len(u) \in Nat /\ 1 \in 1 .. Len(u) BY <1>2, <1>4 DEF Texts
  <2>2. BlockEnd(u, 1) \in 1 + 1 .. Len(u) + 1 BY <1>2, <2>1, BlockEndIs
  <2>3. BlockEnd(u, 1) \in 1 .. Len(u) + 1 BY <2>1, <2>2
  <2>4. From(u, BlockEnd(u, 1)) \in Texts BY <1>2, <2>3, FromIs
  <2>5. AfterBlock(u) \in Texts BY <2>4, StripTyped DEF AfterBlock
  <2> QED BY <1>1, <1>3, <2>5 DEF Rest
<1>5. CASE u = <<>>
  <2>1. Len(u) = 0 /\ \A j, k : ~TagAt(u, j, k, "C")
    <3>1. Len(u) = 0 BY <1>5
    <3> QED BY <3>1 DEF TagAt
  <2>2. BlockEnd(u, 1) = 1
    <3>1. \A j, k : TagAt(u, j, k, "C") => j <= 1 BY <2>1
    <3>2. BlockEnd(u, 1) = Len(u) + 1 BY <1>2, <3>1, BlockEndAt
    <3> QED BY <2>1, <3>2
  <2>3. From(u, 1) \in Texts BY <1>2, <2>1, FromIs
  <2>4. AfterBlock(u) \in Texts BY <2>2, <2>3, StripTyped DEF AfterBlock
  <2> QED BY <1>1, <1>3, <2>4 DEF Rest
<1> QED BY <1>4, <1>5

\* The rest of a buffer fits where the buffer did.
LEMMA FitsFrom ==
    ASSUME NEW s \in Texts, NEW t \in Texts, TagsFit(s \o t), NEW n \in 0 .. Len(s)
    PROVE  TagsFit(From(s, n + 1) \o t)
<1>1. PICK u : u = s \o t OBVIOUS
<1>2. u \in Texts /\ Len(u) = Len(s) + Len(t) /\ Len(s) \in Nat /\ Len(t) \in Nat
  <2>1. Len(s) \in Nat /\ Len(t) \in Nat BY DEF Texts
  <2> QED BY <1>1, <2>1, Joined
<1>3. n + 1 \in 1 .. Len(u) + 1 BY <1>2
<1>4. TagsFit(From(u, n + 1)) BY <1>1, <1>2, <1>3, TagsFitFrom
<1> QED BY <1>1, <1>4, FromJoined

\* A turn outside a block keeps what there is.
LEMMA OutsideKeeps ==
    ASSUME NEW d \in Drained, NEW t \in Texts, NEW final \in BOOLEAN, final => t = <<>>,
           Fits(d.st, t), ~d.st.inside
    PROVE  Kept(TurnOutside(d, final), d, t)
<1>1. PICK s : s = d.st.buffer OBVIOUS
<1>2. s \in Texts /\ d.out \in Texts BY <1>1 DEF Drained, StripperStates
<1>3. Len(s) \in Nat BY <1>2 DEF Texts
<1>4. TagsFit(s \o t) /\ Rest(d.st, t) = Strip(s \o t) BY <1>1 DEF Fits, Rest
<1>5. PICK r : r = TurnOutside(d, final) OBVIOUS
<1>6. CASE Tags(s, "T") = {}
  <2>1. PICK n : n = IF final THEN Len(s) ELSE FlushLength(s) OBVIOUS
  <2>2. n \in 0 .. Len(s) BY <1>2, <1>3, <2>1, FlushLengthIs
  <2>3. \A i, j : ~TagAt(s, i, j, "T") BY <1>2, <1>6, TagsAre
  <2>4. n = FlushLength(s) \/ t = <<>> BY <2>1
  <2>5. \A i \in 1 .. n : TagEnd(s \o t, i, "T") = 0 BY <1>2, <1>4, <2>2, <2>3, <2>4, NoTagFlushed
  <2>6. Strip(s \o t) = SubSeq(s, 1, n) \o Strip(From(s, n + 1) \o t)
    BY <1>2, <2>2, <2>5, StripFlushed
  <2>7. PICK buffer, begin : buffer = From(s, n + 1) /\ begin = SubSeq(s, 1, n) OBVIOUS
  <2>8. buffer \in Texts /\ begin \in Texts
    <3>1. n + 1 \in 1 .. Len(s) + 1 BY <1>3, <2>2
    <3>2. buffer \in Texts BY <1>2, <2>7, <3>1, FromIs
    <3>3. begin \in Texts BY <1>2, <2>2, <2>7, Beginnings
    <3> QED BY <3>2, <3>3
  <2>9. r = [st |-> [buffer |-> buffer, inside |-> FALSE], out |-> d.out \o begin]
    BY <1>1, <1>5, <1>6, <2>1, <2>7 DEF TurnOutside
  <2>10. r.st = [buffer |-> buffer, inside |-> FALSE] BY <2>9
  <2>11. TagsFit(buffer \o t) BY <1>2, <1>4, <2>2, <2>7, FitsFrom
  <2>12. Fits(r.st, t) BY <2>10, <2>11 DEF Fits
  <2>13. Rest(r.st, t) = Strip(buffer \o t) BY <2>10 DEF Rest
  <2>14. Rest(d.st, t) = begin \o Rest(r.st, t) BY <1>4, <2>6, <2>7, <2>13
  <2>15. Rest(r.st, t) \in Texts
    <3>1. r.st \in StripperStates BY <2>8, <2>10 DEF StripperStates
    <3> QED BY <3>1, RestTyped
  <2>16. Kept(r, d, t) BY <2>8, <2>9, <2>12, <2>14, <2>15, LetThrough
  <2> QED BY <1>5, <2>16
<1>7. CASE Tags(s, "T") # {}
  <2>1. Tags(s, "T") \in SUBSET Nat BY <1>2 DEF Tags, Texts
  <2>2. PICK p : p = First(Tags(s, "T")) OBVIOUS
  <2>3. p \in Tags(s, "T") /\ \A i \in Tags(s, "T") : p <= i BY <1>7, <2>1, <2>2, FirstIs
  <2>4. PICK e : TagAt(s, p, e, "T") BY <1>2, <2>3, TagsAre
  <2>5. \A i, j : TagAt(s, i, j, "T") => p <= i BY <1>2, <2>3, TagsAre
  <2>6. p \in 1 .. Len(s) /\ e \in p + 1 .. Len(s) BY <2>4 DEF TagAt
  <2>7. PICK n : n = p - 1 OBVIOUS
  <2>8. n \in 0 .. Len(s) /\ n + 1 = p BY <1>3, <2>6, <2>7
  <2>9. \A i \in 1 .. n : TagEnd(s \o t, i, "T") = 0 BY <1>2, <2>4, <2>5, <2>7, NoTagBefore
  <2>10. Strip(s \o t) = SubSeq(s, 1, n) \o Strip(From(s, n + 1) \o t)
    BY <1>2, <2>8, <2>9, StripFlushed
  <2>11. PICK buffer, begin : buffer = From(s, n + 1) /\ begin = SubSeq(s, 1, n) OBVIOUS
  <2>12. buffer \in Texts /\ begin \in Texts
    <3>1. n + 1 \in 1 .. Len(s) + 1 BY <1>3, <2>8
    <3>2. buffer \in Texts BY <1>2, <2>11, <3>1, FromIs
    <3>3. begin \in Texts BY <1>2, <2>8, <2>11, Beginnings
    <3> QED BY <3>2, <3>3
  <2>13. r = [st |-> [buffer |-> buffer, inside |-> TRUE], out |-> d.out \o begin]
    BY <1>1, <1>5, <1>7, <2>2, <2>7, <2>8, <2>11 DEF TurnOutside
  <2>14. r.st = [buffer |-> buffer, inside |-> TRUE] BY <2>13
  <2>15. TagsFit(buffer \o t) BY <1>2, <1>4, <2>8, <2>11, FitsFrom
  <2>16. PICK o : TagAt(buffer, 1, o, "T")
    <3>1. PICK k \in Nat : k = e - p + 1 /\ p + k - 1 = e BY <1>3, <2>6
    <3>2. 1 \in Nat \ {0} /\ p + 1 - 1 = p /\ p \in 1 .. Len(s) + 1 BY <1>3, <2>6
    <3>3. TagAt(From(s, p), 1, k, "T") <=> TagAt(s, p + 1 - 1, p + k - 1, "T")
      BY <1>2, <3>2, TagShifts
    <3>4. TagAt(From(s, p), 1, k, "T") BY <2>4, <3>1, <3>2, <3>3
    <3> QED BY <2>8, <2>11, <3>4
  <2>17. Fits(r.st, t) BY <2>14, <2>15, <2>16 DEF Fits
  <2>18. Rest(r.st, t) = Strip(buffer \o t)
    <3>1. TagAt(buffer \o t, 1, o, "T") BY <2>12, <2>16, TagStays
    <3>2. buffer \o t \in Texts BY <2>12, Joined
    <3>3. Strip(buffer \o t) = AfterBlock(buffer \o t) BY <3>1, <3>2, StripBlock
    <3> QED BY <2>14, <3>3 DEF Rest
  <2>19. Rest(d.st, t) = begin \o Rest(r.st, t) BY <1>4, <2>10, <2>11, <2>18
  <2>20. Rest(r.st, t) \in Texts
    <3>1. r.st \in StripperStates BY <2>12, <2>14 DEF StripperStates
    <3> QED BY <3>1, RestTyped
  <2>21. Kept(r, d, t) BY <2>12, <2>13, <2>17, <2>19, <2>20, LetThrough
  <2> QED BY <1>5, <2>21
<1> QED BY <1>6, <1>7

\* The block that an opening tag at the beginning opens is closed by the first closing tag.
LEMMA ClosedBy ==
    ASSUME NEW s \in Texts, NEW o, TagAt(s, 1, o, "T"), Tags(s, "C") # {}
    PROVE  \E c, e : /\ c = First(Tags(s, "C")) /\ e = TagEnd(s, c, "C") /\ Closes(s, 1, c, e)
                     /\ e \in 1 .. Len(s)
<1>1. Tags(s, "C") \in SUBSET Nat /\ Len(s) \in Nat BY DEF Tags, Texts
<1>2. PICK c : c = First(Tags(s, "C")) OBVIOUS
<1>3. c \in Tags(s, "C") /\ \A i \in Tags(s, "C") : c <= i BY <1>1, <1>2, FirstIs
<1>4. PICK e : TagAt(s, c, e, "C") BY <1>3, TagsAre
<1>5. c \in 1 .. Len(s) /\ e \in c + 1 .. Len(s) BY <1>4 DEF TagAt
<1>6. e = TagEnd(s, c, "C") BY <1>4, <1>5, TagEndIs
<1>7. c # 1
  <2>1. SUFFICES ASSUME c = 1 PROVE FALSE OBVIOUS
  <2>2. TagAt(s, 1, e, "C") BY <1>4, <2>1
  <2>3. "T" = "C" BY <2>2, TagUnique
  <2> QED BY <2>3
<1>8. Closes(s, 1, c, e)
  <2>1. c > 1 BY <1>1, <1>5, <1>7
  <2>2. \A j, k : TagAt(s, j, k, "C") => c <= j BY <1>3, TagsAre
  <2> QED BY <1>4, <2>1, <2>2 DEF Closes
<1>9. e \in 1 .. Len(s) BY <1>1, <1>5
<1> QED BY <1>2, <1>6, <1>8, <1>9

\* A turn inside a block keeps what there is.
LEMMA InsideKeeps ==
    ASSUME NEW d \in Drained, NEW t \in Texts, NEW final \in BOOLEAN, final => t = <<>>,
           Fits(d.st, t), d.st.inside
    PROVE  Kept(TurnInside(d, final), d, t)
<1>1. PICK s : s = d.st.buffer OBVIOUS
<1>2. s \in Texts /\ d.out \in Texts /\ d = [st |-> d.st, out |-> d.out]
  BY <1>1 DEF Drained, StripperStates
<1>3. Len(s) \in Nat BY <1>2 DEF Texts
<1>4. TagsFit(s \o t) /\ Rest(d.st, t) = AfterBlock(s \o t) BY <1>1 DEF Fits, Rest
<1>5. PICK o : TagAt(s, 1, o, "T") BY <1>1 DEF Fits
<1>6. PICK r : r = TurnInside(d, final) OBVIOUS
<1>7. <<>> \in Texts /\ d.out \o <<>> = d.out BY <1>2, Joined DEF Texts
<1>8. CASE Tags(s, "C") = {}
  <2>1. CASE ~final
    <3>1. r = d BY <1>1, <1>6, <1>8, <2>1 DEF TurnInside
    <3> QED BY <1>6, <3>1 DEF Kept
  <2>2. CASE final
    <3>1. r = [st |-> [buffer |-> <<>>, inside |-> FALSE], out |-> d.out \o <<>>]
      <4>1. r = [d EXCEPT !.st = NewStripper] BY <1>1, <1>6, <1>8, <2>2 DEF TurnInside
      <4> QED BY <1>2, <1>7, <4>1 DEF NewStripper
    <3>2. t = <<>> /\ s \o t = s BY <1>2, <2>2, Joined
    <3>3. \A j, k : ~TagAt(s, j, k, "C") BY <1>2, <1>8, TagsAre
    <3>4. BlockEnd(s, 1) = Len(s) + 1
      <4>1. \A j, k : TagAt(s, j, k, "C") => j <= 1 BY <3>3
      <4> QED BY <1>2, <4>1, BlockEndAt
    <3>5. From(s, Len(s) + 1) = <<>> BY <1>3, SubSeqEmpty DEF From
    <3>6. Strip(<<>>) = <<>> BY <1>2, StripTyped
    <3>7. Rest(d.st, t) = <<>> BY <1>4, <3>2, <3>4, <3>5, <3>6 DEF AfterBlock
    <3>8. r.st = [buffer |-> <<>>, inside |-> FALSE] BY <3>1
    <3>9. r.st.buffer \o t = <<>>
      <4>1. r.st.buffer = <<>> BY <3>8
      <4> QED BY <3>2, <4>1
    <3>10. Rest(r.st, t) = <<>> BY <3>6, <3>8, <3>9 DEF Rest
    <3>11. Fits(r.st, t)
      <4>1. Tags(<<>>, "T") = {} BY DEF Tags
      <4>2. TagsFit(<<>>) BY <4>1 DEF TagsFit
      <4> QED BY <3>8, <3>9, <4>2 DEF Fits
    <3>12. Rest(d.st, t) = <<>> \o Rest(r.st, t) BY <3>7, <3>10
    <3>13. Rest(r.st, t) \in Texts BY <1>7, <3>10
    <3>14. Kept(r, d, t) BY <1>7, <3>1, <3>11, <3>12, <3>13, LetThrough
    <3> QED BY <1>6, <3>14
  <2> QED BY <2>1, <2>2
<1>9. CASE Tags(s, "C") # {}
  <2>1. PICK c, e : /\ c = First(Tags(s, "C")) /\ e = TagEnd(s, c, "C") /\ Closes(s, 1, c, e)
                    /\ e \in 1 .. Len(s)
    BY <1>2, <1>5, <1>9, ClosedBy
  <2>2. e \in 0 .. Len(s) /\ e + 1 \in 1 .. Len(s) + 1 BY <1>3, <2>1
  <2>3. PICK buffer : buffer = From(s, e + 1) OBVIOUS
  <2>4. buffer \in Texts BY <1>2, <2>2, <2>3, FromIs
  <2>5. r = [st |-> [buffer |-> buffer, inside |-> FALSE], out |-> d.out \o <<>>]
    <3>1. r = [d EXCEPT !.st = [buffer |-> buffer, inside |-> FALSE]]
      BY <1>1, <1>6, <1>9, <2>1, <2>3 DEF TurnInside
    <3> QED BY <1>2, <1>7, <3>1
  <2>6. r.st = [buffer |-> buffer, inside |-> FALSE] BY <2>5
  <2>7. TagsFit(buffer \o t) BY <1>2, <1>4, <2>2, <2>3, FitsFrom
  <2>8. Fits(r.st, t) BY <2>6, <2>7 DEF Fits
  <2>9. Rest(r.st, t) = Strip(buffer \o t) BY <2>6 DEF Rest
  <2>10. BlockEnd(s \o t, 1) = e + 1 BY <1>2, <2>1, BlockStays
  <2>11. From(s \o t, e + 1) = buffer \o t BY <1>2, <2>2, <2>3, FromJoined
  <2>12. Rest(d.st, t) = Rest(r.st, t) BY <1>4, <2>9, <2>10, <2>11 DEF AfterBlock
  <2>13. Rest(r.st, t) \in Texts
    <3>1. r.st \in StripperStates BY <2>4, <2>6 DEF StripperStates
    <3> QED BY <3>1, RestTyped
  <2>14. Rest(d.st, t) = <<>> \o Rest(r.st, t) BY <2>12, <2>13, Joined
  <2>15. Kept(r, d, t) BY <1>7, <2>4, <2>5, <2>8, <2>13, <2>14, LetThrough
  <2> QED BY <1>6, <2>15
<1> QED BY <1>8, <1>9

\* A turn keeps what there is.
LEMMA TurnKeeps ==
    ASSUME NEW d \in Drained, NEW t \in Texts, NEW final \in BOOLEAN, final => t = <<>>, Fits(d.st, t)
    PROVE  Kept(Turn(d, final), d, t)
<1>1. CASE d.st.buffer = <<>>
  <2>1. Turn(d, final) = d BY <1>1 DEF Turn
  <2> QED BY <2>1 DEF Kept
<1>2. CASE d.st.buffer # <<>> /\ ~d.st.inside
  <2>1. Turn(d, final) = TurnOutside(d, final) BY <1>2 DEF Turn
  <2> QED BY <1>2, <2>1, OutsideKeeps
<1>3. CASE d.st.buffer # <<>> /\ d.st.inside
  <2>1. Turn(d, final) = TurnInside(d, final) BY <1>3 DEF Turn
  <2> QED BY <1>3, <2>1, InsideKeeps
<1> QED BY <1>1, <1>2, <1>3

\* A turn leaves a state of the stripper and a text.
LEMMA TurnTyped ==
    ASSUME NEW d \in Drained, NEW final \in BOOLEAN
    PROVE  Turn(d, final) \in Drained
<1>1. PICK s : s = d.st.buffer OBVIOUS
<1>2. s \in Texts /\ d.out \in Texts BY <1>1 DEF Drained, StripperStates
<1>3. Len(s) \in Nat BY <1>2 DEF Texts
<1>4. TurnOutside(d, final) \in Drained
  <2>1. PICK r : r = TurnOutside(d, final) OBVIOUS
  <2>2. \E n \in 0 .. Len(s), inside \in BOOLEAN :
           r = [st |-> [buffer |-> From(s, n + 1), inside |-> inside], out |-> d.out \o SubSeq(s, 1, n)]
    <3>1. CASE Tags(s, "T") = {}
      <4>1. PICK n : n = IF final THEN Len(s) ELSE FlushLength(s) OBVIOUS
      <4>2. n \in 0 .. Len(s) BY <1>2, <1>3, <4>1, FlushLengthIs
      <4>3. r = [st |-> [buffer |-> From(s, n + 1), inside |-> FALSE], out |-> d.out \o SubSeq(s, 1, n)]
        BY <1>1, <2>1, <3>1, <4>1 DEF TurnOutside
      <4> QED BY <4>2, <4>3
    <3>2. CASE Tags(s, "T") # {}
      <4>1. Tags(s, "T") \in SUBSET Nat /\ Tags(s, "T") \subseteq 1 .. Len(s)
        BY <1>2 DEF Tags, Texts
      <4>2. PICK p : p = First(Tags(s, "T")) OBVIOUS
      <4>3. p \in 1 .. Len(s) BY <3>2, <4>1, <4>2, FirstIs
      <4>4. PICK n : n = p - 1 OBVIOUS
      <4>5. n \in 0 .. Len(s) /\ n + 1 = p BY <1>3, <4>3, <4>4
      <4>6. r = [st |-> [buffer |-> From(s, n + 1), inside |-> TRUE], out |-> d.out \o SubSeq(s, 1, n)]
        BY <1>1, <2>1, <3>2, <4>2, <4>4, <4>5 DEF TurnOutside
      <4> QED BY <4>5, <4>6
    <3> QED BY <3>1, <3>2
  <2>3. PICK n \in 0 .. Len(s), inside \in BOOLEAN :
           r = [st |-> [buffer |-> From(s, n + 1), inside |-> inside], out |-> d.out \o SubSeq(s, 1, n)]
    BY <2>2
  <2>4. n + 1 \in 1 .. Len(s) + 1 BY <1>3
  <2>5. PICK buffer, begin : buffer = From(s, n + 1) /\ begin = SubSeq(s, 1, n) OBVIOUS
  <2>6. buffer \in Texts BY <1>2, <2>4, <2>5, FromIs
  <2>7. begin \in Texts BY <1>2, <2>5, Beginnings
  <2>8. d.out \o begin \in Texts BY <1>2, <2>7, Joined
  <2>9. r = [st |-> [buffer |-> buffer, inside |-> inside], out |-> d.out \o begin] BY <2>3, <2>5
  <2>10. r \in Drained BY <2>6, <2>8, <2>9 DEF Drained, StripperStates
  <2> QED BY <2>1, <2>10
<1>5. TurnInside(d, final) \in Drained
  <2>1. <<>> \in Texts BY DEF Texts
  <2>2. NewStripper \in StripperStates BY <2>1 DEF NewStripper, StripperStates
  <2>3. \A st \in StripperStates : [d EXCEPT !.st = st] \in Drained BY DEF Drained
  <2>4. CASE Tags(s, "C") = {} BY <1>1, <2>2, <2>3, <2>4 DEF TurnInside
  <2>5. CASE Tags(s, "C") # {}
    <3>1. Tags(s, "C") \in SUBSET Nat BY <1>2 DEF Tags, Texts
    <3>2. PICK c : c = First(Tags(s, "C")) OBVIOUS
    <3>3. c \in Tags(s, "C") BY <2>5, <3>1, <3>2, FirstIs
    <3>4. PICK e : TagAt(s, c, e, "C") BY <1>2, <3>3, TagsAre
    <3>5. c \in 1 .. Len(s) /\ e \in c + 1 .. Len(s) BY <3>4 DEF TagAt
    <3>6. TagEnd(s, c, "C") = e BY <1>2, <3>4, <3>5, TagEndIs
    <3>7. e + 1 \in 1 .. Len(s) + 1 BY <1>3, <3>5
    <3>8. PICK buffer : buffer = From(s, e + 1) OBVIOUS
    <3>9. buffer \in Texts BY <1>2, <3>7, <3>8, FromIs
    <3>10. TurnInside(d, final) = [d EXCEPT !.st = [buffer |-> buffer, inside |-> FALSE]]
      BY <1>1, <2>5, <3>2, <3>6, <3>8 DEF TurnInside
    <3>11. [buffer |-> buffer, inside |-> FALSE] \in StripperStates BY <3>9 DEF StripperStates
    <3> QED BY <2>3, <3>10, <3>11
  <2> QED BY <2>4, <2>5
<1> QED BY <1>4, <1>5 DEF Turn

\* Turns from a state on.
Turns(f, st, final) ==
    f = [n \in 0 .. Len(st.buffer) + 1 |->
            IF n = 0 THEN [st |-> st, out |-> <<>>] ELSE Turn(f[n - 1], final)]

TurnsFrom(f, st, final) ==
    /\ \A n \in 0 .. Len(st.buffer) + 1 : f[n] \in Drained
    /\ f[0] = [st |-> st, out |-> <<>>]
    /\ \A n \in 1 .. Len(st.buffer) + 1 : f[n] = Turn(f[n - 1], final)

\* Draining is a sequence of turns.
LEMMA DrainIs ==
    ASSUME NEW st \in StripperStates, NEW final \in BOOLEAN
    PROVE  \E f : TurnsFrom(f, st, final) /\ Drain(st, final) = f[Len(st.buffer) + 1]
<1>1. Len(st.buffer) \in Nat BY DEF StripperStates, Texts
<1>2. PICK n \in Nat : n = Len(st.buffer) + 1 BY <1>1
<1>3. PICK a : a = [st |-> st, out |-> <<>>] OBVIOUS
<1>4. a \in Drained
  <2>1. <<>> \in Texts BY DEF Texts
  <2> QED BY <1>3, <2>1 DEF Drained
<1> DEFINE step == [x \in (1 .. n) \X Drained |-> Turn(x[2], final)]
<1>5. step \in [(1 .. n) \X Drained -> Drained]
  <2>1. \A x \in (1 .. n) \X Drained : Turn(x[2], final) \in Drained BY TurnTyped
  <2> QED BY <2>1
<1>6. ASSUME NEW f PROVE (\A k \in 0 .. n : f[k] \in Drained) =>
                            (Recurs(f, n, a, step) <=> TurnsFrom(f, st, final))
  <2>1. SUFFICES ASSUME \A k \in 0 .. n : f[k] \in Drained
                 PROVE  Recurs(f, n, a, step) <=> TurnsFrom(f, st, final)
    OBVIOUS
  <2>2. ASSUME NEW i \in 1 .. n PROVE step[<<i, f[i - 1]>>] = Turn(f[i - 1], final)
    <3>1. i - 1 \in 0 .. n OBVIOUS
    <3>2. <<i, f[i - 1]>> \in (1 .. n) \X Drained BY <2>1, <3>1
    <3> QED BY <3>2
  <2> HIDE DEF step
  <2> QED BY <1>2, <1>3, <2>1, <2>2 DEF Recurs, TurnsFrom
<1> HIDE DEF step
<1>7. PICK g \in [0 .. n -> Drained] : Recurs(g, n, a, step) BY <1>4, <1>5, RecursionExists
<1>8. TurnsFrom(g, st, final) BY <1>6, <1>7
<1>9. Turns(g, st, final)
  <2>1. g = [k \in 0 .. n |-> g[k]] BY <1>7
  <2>2. \A k \in 0 .. n : g[k] = IF k = 0 THEN a ELSE Turn(g[k - 1], final)
    <3>1. \A k \in 0 .. n : k # 0 => k \in 1 .. n OBVIOUS
    <3> QED BY <1>2, <1>3, <1>8, <3>1 DEF TurnsFrom
  <2> QED BY <1>2, <1>3, <2>1, <2>2 DEF Turns
<1> DEFINE f == CHOOSE f : Turns(f, st, final)
<1>10. Turns(f, st, final) BY <1>9
<1>11. Drain(st, final) = f[n] BY <1>2 DEF Drain, Turns
<1> HIDE DEF f
<1>12. f[0] = a /\ \A i \in 1 .. n : f[i] = Turn(f[i - 1], final)
  <2>1. 0 \in 0 .. n BY <1>2
  <2>2. \A k \in 0 .. n : f[k] = IF k = 0 THEN a ELSE Turn(f[k - 1], final)
    BY <1>2, <1>3, <1>10 DEF Turns
  <2>3. \A k \in 1 .. n : k \in 0 .. n /\ k # 0 OBVIOUS
  <2> QED BY <2>1, <2>2, <2>3
<1>13. \A k \in 0 .. n : f[k] \in Drained
  <2> DEFINE N == {k \in Nat : k <= n => f[k] \in Drained}
  <2>1. 0 \in N BY <1>4, <1>12
  <2>2. ASSUME NEW k \in Nat, k \in N PROVE k + 1 \in N
    <3>1. SUFFICES ASSUME k + 1 <= n PROVE f[k + 1] \in Drained OBVIOUS
    <3>2. f[k] \in Drained BY <2>2, <3>1
    <3>3. k + 1 \in 1 .. n /\ (k + 1) - 1 = k BY <3>1
    <3>4. f[k + 1] = Turn(f[k], final) BY <1>12, <3>3
    <3> QED BY <3>2, <3>4, TurnTyped
  <2>3. Nat \subseteq N
    <3> HIDE DEF N
    <3> QED BY <2>1, <2>2, Induction
  <2> QED BY <2>3
<1>14. TurnsFrom(f, st, final) BY <1>2, <1>3, <1>12, <1>13 DEF TurnsFrom
<1> QED BY <1>2, <1>11, <1>14

\* What draining leaves is a state of the stripper and a text.
LEMMA DrainTyped ==
    ASSUME NEW st \in StripperStates, NEW final \in BOOLEAN
    PROVE  Drain(st, final) \in Drained
<1>1. PICK f : TurnsFrom(f, st, final) /\ Drain(st, final) = f[Len(st.buffer) + 1] BY DrainIs
<1>2. Len(st.buffer) \in Nat BY DEF StripperStates, Texts
<1>3. Len(st.buffer) + 1 \in 0 .. Len(st.buffer) + 1 BY <1>2
<1> QED BY <1>1, <1>3 DEF TurnsFrom

\* Draining keeps what there is.
LEMMA DrainKeeps ==
    ASSUME NEW st \in StripperStates, NEW t \in Texts, NEW final \in BOOLEAN, final => t = <<>>, Fits(st, t)
    PROVE  Kept(Drain(st, final), [st |-> st, out |-> <<>>], t)
<1>1. PICK f : TurnsFrom(f, st, final) /\ Drain(st, final) = f[Len(st.buffer) + 1] BY DrainIs
<1>2. PICK n \in Nat : n = Len(st.buffer) + 1 BY DEF StripperStates, Texts
<1>3. PICK d : d = [st |-> st, out |-> <<>>] OBVIOUS
<1>4. f[0] = d /\ d.st = st /\ \A k \in 1 .. n : f[k] = Turn(f[k - 1], final)
  BY <1>1, <1>2, <1>3 DEF TurnsFrom
<1>5. \A k \in 0 .. n : f[k] \in Drained BY <1>1, <1>2 DEF TurnsFrom
<1> DEFINE N == {k \in Nat : k <= n => Kept(f[k], d, t)}
<1>6. 0 \in N
  <2>1. d \in Drained
    <3>1. 0 \in 0 .. n BY <1>2
    <3> QED BY <1>4, <1>5, <3>1
  <2>2. Kept(d, d, t) BY <1>4, <2>1 DEF Kept
  <2> QED BY <1>4, <2>2
<1>7. ASSUME NEW k \in Nat, k \in N PROVE k + 1 \in N
  <2>1. SUFFICES ASSUME k + 1 <= n PROVE Kept(f[k + 1], d, t) OBVIOUS
  <2>2. Kept(f[k], d, t) BY <1>2, <1>7, <2>1
  <2>3. k + 1 \in 1 .. n /\ (k + 1) - 1 = k BY <1>2, <2>1
  <2>4. f[k + 1] = Turn(f[k], final) BY <1>4, <2>3
  <2>5. f[k] \in Drained /\ Fits(f[k].st, t) BY <2>2 DEF Kept
  <2>6. Kept(Turn(f[k], final), f[k], t) BY <2>5, TurnKeeps
  <2> QED BY <2>2, <2>4, <2>6 DEF Kept
<1>8. Nat \subseteq N
  <2> HIDE DEF N
  <2> QED BY <1>6, <1>7, Induction
<1>9. Kept(f[n], d, t) BY <1>2, <1>8
<1> QED BY <1>1, <1>2, <1>3, <1>9

\* What a last turn has left to do.
Measure(st) == IF st.buffer = <<>> THEN 0 ELSE Len(st.buffer) + IF st.inside THEN 0 ELSE 1

\* It is a number, and 0 when nothing is held back.
LEMMA MeasureIs ==
    ASSUME NEW st \in StripperStates
    PROVE  /\ st.buffer = <<>> => Measure(st) = 0
           /\ st.buffer # <<>> /\ st.inside => Measure(st) = Len(st.buffer)
           /\ st.buffer # <<>> /\ ~st.inside => Measure(st) = Len(st.buffer) + 1
           /\ Measure(st) \in Nat /\ Measure(st) <= Len(st.buffer) + 1 /\ Len(st.buffer) \in Nat
           /\ Measure(st) = 0 => st.buffer = <<>>
<1>1. st.buffer \in Texts /\ st.inside \in BOOLEAN BY DEF StripperStates
<1>2. Len(st.buffer) \in Nat /\ (st.buffer # <<>> => Len(st.buffer) # 0) BY <1>1 DEF Texts
<1>3. CASE st.buffer = <<>>
  <2>1. Measure(st) = 0 BY <1>3 DEF Measure
  <2> QED BY <1>2, <1>3, <2>1
<1>4. CASE st.buffer # <<>> /\ st.inside
  <2>1. Measure(st) = Len(st.buffer) + 0 BY <1>4 DEF Measure
  <2> QED BY <1>2, <1>4, <2>1
<1>5. CASE st.buffer # <<>> /\ ~st.inside
  <2>1. Measure(st) = Len(st.buffer) + 1 BY <1>5 DEF Measure
  <2> QED BY <1>2, <1>5, <2>1
<1> QED BY <1>1, <1>3, <1>4, <1>5

\* A last turn has less left to do than the one before.
LEMMA LastTurn ==
    ASSUME NEW d \in Drained, d.st.buffer # <<>>
    PROVE  Measure(Turn(d, TRUE).st) < Measure(d.st)
<1>1. PICK s : s = d.st.buffer OBVIOUS
<1>2. s \in Texts /\ s # <<>> /\ d.st.inside \in BOOLEAN BY <1>1 DEF Drained, StripperStates
<1>3. Len(s) \in Nat \ {0} BY <1>2 DEF Texts
<1>4. (d.st.inside => Measure(d.st) = Len(s)) /\ (~d.st.inside => Measure(d.st) = Len(s) + 1)
  <2>1. d.st \in StripperStates BY DEF Drained
  <2> QED BY <1>1, <1>2, <2>1, MeasureIs
<1>5. PICK r : r = Turn(d, TRUE) OBVIOUS
<1>a. SUFFICES Measure(r.st) < Measure(d.st) BY <1>5, Zenon
<1>6. CASE d.st.inside
  <2>1. r = TurnInside(d, TRUE) BY <1>1, <1>2, <1>5, <1>6 DEF Turn
  <2>2. CASE Tags(s, "C") = {}
    <3>1. r = [d EXCEPT !.st = NewStripper] BY <1>1, <2>1, <2>2 DEF TurnInside
    <3>2. r.st.buffer = <<>> BY <3>1 DEF Drained, NewStripper
    <3>3. Measure(r.st) = 0 BY <3>2 DEF Measure
    <3> QED BY <1>3, <1>4, <1>6, <3>3
  <2>3. CASE Tags(s, "C") # {}
    <3>1. Tags(s, "C") \in SUBSET Nat BY <1>2 DEF Tags, Texts
    <3>2. PICK c : c = First(Tags(s, "C")) OBVIOUS
    <3>3. c \in Tags(s, "C") BY <2>3, <3>1, <3>2, FirstIs
    <3>4. PICK e : TagAt(s, c, e, "C") BY <1>2, <3>3, TagsAre
    <3>5. c \in 1 .. Len(s) /\ e \in c + 1 .. Len(s) BY <3>4 DEF TagAt
    <3>6. TagEnd(s, c, "C") = e BY <1>2, <3>4, <3>5, TagEndIs
    <3>7. e + 1 \in 1 .. Len(s) + 1 /\ e >= 2 BY <1>3, <3>5
    <3>8. PICK buffer : buffer = From(s, e + 1) OBVIOUS
    <3>9. buffer \in Texts /\ Len(buffer) = Len(s) - (e + 1) + 1 BY <1>2, <3>7, <3>8, FromIs
    <3>10. r = [d EXCEPT !.st = [buffer |-> buffer, inside |-> FALSE]]
      BY <1>1, <2>1, <2>3, <3>2, <3>6, <3>8 DEF TurnInside
    <3>11. r.st = [buffer |-> buffer, inside |-> FALSE] BY <3>10 DEF Drained
    <3>12. Measure(r.st) <= Len(buffer) + 1 /\ Measure(r.st) \in Nat
      <4>1. Measure(r.st) = IF buffer = <<>> THEN 0 ELSE Len(buffer) + 1 BY <3>11 DEF Measure
      <4>2. Len(buffer) \in Nat BY <3>9 DEF Texts
      <4> QED BY <4>1, <4>2
    <3>13. Len(buffer) + 1 < Len(s) BY <1>3, <3>5, <3>7, <3>9
    <3>14. Len(buffer) \in Nat BY <3>9 DEF Texts
    <3> QED BY <1>3, <1>4, <1>6, <3>12, <3>13, <3>14
  <2> QED BY <2>2, <2>3
<1>7. CASE ~d.st.inside
  <2>1. r = TurnOutside(d, TRUE) BY <1>1, <1>2, <1>5, <1>7 DEF Turn
  <2>2. CASE Tags(s, "T") = {}
    <3>1. r.st = [buffer |-> From(s, Len(s) + 1), inside |-> FALSE]
      BY <1>1, <2>1, <2>2 DEF TurnOutside
    <3>2. From(s, Len(s) + 1) = <<>> BY <1>3, SubSeqEmpty DEF From
    <3>3. Measure(r.st) = 0 BY <3>1, <3>2 DEF Measure
    <3> QED BY <1>3, <1>4, <1>7, <3>3
  <2>3. CASE Tags(s, "T") # {}
    <3>1. Tags(s, "T") \in SUBSET Nat /\ Tags(s, "T") \subseteq 1 .. Len(s)
      BY <1>2 DEF Tags, Texts
    <3>2. PICK p : p = First(Tags(s, "T")) OBVIOUS
    <3>3. p \in 1 .. Len(s) /\ p \in 1 .. Len(s) + 1 BY <1>3, <2>3, <3>1, <3>2, FirstIs
    <3>4. PICK buffer : buffer = From(s, p) OBVIOUS
    <3>5. buffer \in Texts /\ Len(buffer) = Len(s) - p + 1 BY <1>2, <3>3, <3>4, FromIs
    <3>6. r.st = [buffer |-> buffer, inside |-> TRUE]
      BY <1>1, <2>1, <2>3, <3>2, <3>4 DEF TurnOutside
    <3>7. Measure(r.st) <= Len(s) /\ Measure(r.st) \in Nat
      <4>1. Measure(r.st) = IF buffer = <<>> THEN 0 ELSE Len(buffer) + 0 BY <3>6 DEF Measure
      <4>2. Len(buffer) \in Nat /\ Len(buffer) <= Len(s) BY <1>3, <3>3, <3>5
      <4> QED BY <1>3, <4>1, <4>2
    <3> QED BY <1>3, <1>4, <1>7, <3>7
  <2> QED BY <2>2, <2>3
<1> QED BY <1>6, <1>7

\* After the last drain nothing is held back.
LEMMA FlushEmpties ==
    ASSUME NEW st \in StripperStates
    PROVE  Flush(st).st.buffer = <<>>
<1>1. PICK f : TurnsFrom(f, st, TRUE) /\ Drain(st, TRUE) = f[Len(st.buffer) + 1] BY DrainIs
<1>2. PICK n \in Nat : n = Len(st.buffer) + 1 BY DEF StripperStates, Texts
<1>3. f[0].st = st /\ \A k \in 1 .. n : f[k] = Turn(f[k - 1], TRUE)
  <2>1. f[0] = [st |-> st, out |-> <<>>] BY <1>1 DEF TurnsFrom
  <2>2. \A k \in 1 .. n : f[k] = Turn(f[k - 1], TRUE) BY <1>1, <1>2 DEF TurnsFrom
  <2>3. f[0].st = st BY <2>1
  <2> QED BY <2>2, <2>3, Zenon
<1>4. \A k \in 0 .. n : f[k] \in Drained BY <1>1, <1>2 DEF TurnsFrom
<1>5. \A d \in Drained : Measure(d.st) \in Nat /\ (Measure(d.st) = 0 => d.st.buffer = <<>>)
  <2>1. \A d \in Drained : d.st \in StripperStates BY DEF Drained
  <2> QED BY <2>1, MeasureIs
<1>6. Measure(st) <= n BY <1>2, MeasureIs
<1> DEFINE Less(k) == f[k].st.buffer = <<>> \/ Measure(f[k].st) <= n - k
           N == {k \in Nat : k <= n => Less(k)}
<1>7. 0 \in N BY <1>3, <1>6
<1>8. ASSUME NEW k \in Nat, k \in N PROVE k + 1 \in N
  <2>1. SUFFICES ASSUME k + 1 <= n PROVE Less(k + 1)
    <3> HIDE DEF Less
    <3> QED OBVIOUS
  <2>2. Less(k)
    <3> HIDE DEF Less
    <3> QED BY <1>2, <1>8, <2>1
  <2>3. k \in 0 .. n /\ k + 1 \in 1 .. n /\ (k + 1) - 1 = k /\ k + 1 \in 0 .. n BY <1>2, <2>1
  <2>4. f[k + 1] = Turn(f[k], TRUE) BY <1>3, <2>3
  <2>5. f[k] \in Drained /\ f[k + 1] \in Drained BY <1>4, <2>3
  <2>6. CASE f[k].st.buffer = <<>>
    <3>1. f[k + 1] = f[k] BY <2>4, <2>6 DEF Turn
    <3> QED BY <2>6, <3>1
  <2>7. CASE f[k].st.buffer # <<>>
    <3>1. Measure(f[k + 1].st) < Measure(f[k].st) BY <2>4, <2>5, <2>7, LastTurn
    <3>2. Measure(f[k].st) \in Nat /\ Measure(f[k + 1].st) \in Nat BY <1>5, <2>5
    <3>3. Measure(f[k].st) <= n - k BY <2>2, <2>7
    <3>4. Measure(f[k + 1].st) <= n - (k + 1) BY <1>2, <3>1, <3>2, <3>3
    <3> QED BY <3>4
  <2> QED BY <2>6, <2>7
<1>9. Nat \subseteq N
  <2> HIDE DEF N
  <2> QED BY <1>7, <1>8, Induction
<1>10. Less(n)
  <2> HIDE DEF Less
  <2> QED BY <1>2, <1>9
<1>11. f[n] \in Drained
  <2>1. n \in 0 .. n BY <1>2
  <2> QED BY <1>4, <2>1
<1>12. f[n].st.buffer = <<>>
  <2>1. SUFFICES ASSUME Measure(f[n].st) <= n - n PROVE f[n].st.buffer = <<>> BY <1>10
  <2>2. Measure(f[n].st) \in Nat /\ (Measure(f[n].st) = 0 => f[n].st.buffer = <<>>) BY <1>5, <1>11
  <2>3. Measure(f[n].st) = 0 BY <1>2, <2>1, <2>2
  <2> QED BY <2>2, <2>3
<1> QED BY <1>1, <1>2, <1>12 DEF Flush

-----------------------------------------------------------------------------
(* What one stripper makes of the stream.                                  *)

\* What an event brings is a text.
LEMMA EventTextIs ==
    ASSUME NEW event \in Events
    PROVE  event.text \in Texts
<1>1. event.text \in Seq(STRING) BY DEF Events
<1>2. STRING \subseteq Characters BY DEF Characters
<1>3. PICK n \in Nat : n = Len(event.text) BY <1>1
<1>4. event.text \in [1 .. n -> STRING] BY <1>1, <1>3, LenProperties
<1>5. event.text \in [1 .. n -> Characters] BY <1>2, <1>4
<1>6. event.text \in Seq(Characters) BY <1>5, SeqDef
<1> QED BY <1>6 DEF Texts

\* A text that is written leaves a state of the stripper and a text.
LEMMA WriteTyped ==
    ASSUME NEW st \in StripperStates, NEW text \in Texts
    PROVE  /\ Write(st, text) \in Drained /\ Flush(st) \in Drained
           /\ [st EXCEPT !.buffer = @ \o text] \in StripperStates
           /\ [st EXCEPT !.buffer = @ \o text] = [buffer |-> st.buffer \o text, inside |-> st.inside]
<1>1. st.buffer \in Texts BY DEF StripperStates
<1>2. PICK buffer : buffer = st.buffer \o text OBVIOUS
<1>3. buffer \in Texts BY <1>1, <1>2, Joined
<1>4. [st EXCEPT !.buffer = buffer] \in StripperStates
      /\ [st EXCEPT !.buffer = buffer] = [buffer |-> buffer, inside |-> st.inside]
  BY <1>3 DEF StripperStates
<1>5. [st EXCEPT !.buffer = @ \o text] = [st EXCEPT !.buffer = buffer] BY <1>2
<1>6. Write(st, text) \in Drained BY <1>4, <1>5, DrainTyped DEF Write
<1>7. Flush(st) \in Drained BY DrainTyped DEF Flush
<1> QED BY <1>2, <1>4, <1>5, <1>6, <1>7

\* What an event does to the stripper.
StripEvent(d, event) ==
    IF event.type # "text" THEN d
    ELSE [st |-> Write(d.st, event.text).st, out |-> d.out \o Write(d.st, event.text).out]

\* A state of the stripper and a text stay so.
LEMMA StripEventTyped ==
    ASSUME NEW d \in Drained, NEW event \in Events
    PROVE  StripEvent(d, event) \in Drained
<1>1. d.st \in StripperStates /\ d.out \in Texts BY DEF Drained
<1>2. event.text \in Texts BY EventTextIs
<1>3. PICK r \in Drained : r = Write(d.st, event.text) BY <1>1, <1>2, WriteTyped
<1>4. r.st \in StripperStates /\ r.out \in Texts BY DEF Drained
<1>5. d.out \o r.out \in Texts BY <1>1, <1>4, Joined
<1>6. [st |-> r.st, out |-> d.out \o r.out] \in Drained BY <1>4, <1>5 DEF Drained
<1> QED BY <1>3, <1>6 DEF StripEvent

Begun == [st |-> NewStripper, out |-> <<>>]

\* What has come out of the stream is given event by event.
LEMMA StrippedIs ==
    ASSUME stream \in Seq(Events)
    PROVE  /\ Stripped(0) = Begun
           /\ \A i \in 0 .. Len(stream) : Stripped(i) \in Drained
           /\ \A i \in 1 .. Len(stream) : Stripped(i) = StripEvent(Stripped(i - 1), Event(i))
<1> DEFINE Reads(f, i) == f = [n \in 0 .. i |-> IF n = 0 THEN Begun ELSE StripEvent(f[n - 1], Event(n))]
<1>1. PICK len \in Nat : len = Len(stream) OBVIOUS
<1>2. Begun \in Drained
  <2>1. <<>> \in Texts BY DEF Texts
  <2> QED BY <2>1 DEF Begun, NewStripper, Drained, StripperStates
<1>3. \A i \in 1 .. len : Event(i) \in Events BY <1>1 DEF Event
<1>4. ASSUME NEW i \in 0 .. len PROVE \E f \in [0 .. i -> Drained] : Reads(f, i)
  <2> DEFINE step == [x \in (1 .. i) \X Drained |-> StripEvent(x[2], Event(x[1]))]
  <2>1. step \in [(1 .. i) \X Drained -> Drained]
    <3>1. \A x \in (1 .. i) \X Drained : x[2] \in Drained /\ x[1] \in 1 .. len BY <1>1, <1>4
    <3>2. \A x \in (1 .. i) \X Drained : StripEvent(x[2], Event(x[1])) \in Drained
      BY <1>3, <3>1, StripEventTyped
    <3> QED BY <3>2
  <2>2. i \in Nat BY <1>1
  <2> HIDE DEF step
  <2>3. PICK f \in [0 .. i -> Drained] : Recurs(f, i, Begun, step)
    BY <1>2, <2>1, <2>2, RecursionExists
  <2>4. ASSUME NEW n \in 0 .. i PROVE f[n] = IF n = 0 THEN Begun ELSE StripEvent(f[n - 1], Event(n))
    <3>1. CASE n = 0 BY <2>3, <3>1 DEF Recurs
    <3>2. CASE n # 0
      <4>1. n \in 1 .. i /\ n - 1 \in 0 .. i BY <2>2, <3>2
      <4>2. <<n, f[n - 1]>> \in (1 .. i) \X Drained BY <2>3, <4>1
      <4>3. step[<<n, f[n - 1]>>] = StripEvent(f[n - 1], Event(n)) BY <4>2 DEF step
      <4>4. f[n] = step[<<n, f[n - 1]>>] BY <2>3, <4>1 DEF Recurs
      <4> QED BY <3>2, <4>3, <4>4
    <3> QED BY <3>1, <3>2
  <2>5. Reads(f, i) BY <2>3, <2>4
  <2> QED BY <2>3, <2>5
<1>5. ASSUME NEW i \in 0 .. len PROVE \E f : Reads(f, i) /\ Stripped(i) = f[i]
  <2> DEFINE f == CHOOSE f : Reads(f, i)
  <2>1. Reads(f, i) BY <1>4
  <2>2. Stripped(i) = f[i] BY DEF Stripped, StripEvent, Begun
  <2> QED BY <2>1, <2>2
<1>6. ASSUME NEW f, NEW i \in Nat, Reads(f, i)
      PROVE  f[0] = Begun /\ \A n \in 1 .. i : f[n] = StripEvent(f[n - 1], Event(n))
  <2>1. \A n \in 0 .. i : f[n] = IF n = 0 THEN Begun ELSE StripEvent(f[n - 1], Event(n)) BY <1>6
  <2>2. \A n \in 1 .. i : n \in 0 .. i /\ n # 0 BY <1>6
  <2>3. 0 \in 0 .. i OBVIOUS
  <2> HIDE DEF Reads
  <2> QED BY <2>1, <2>2, <2>3
<1> HIDE DEF Reads
<1>7. PICK f \in [0 .. len -> Drained] : Reads(f, len) BY <1>1, <1>4
<1>8. f[0] = Begun /\ \A n \in 1 .. len : f[n] = StripEvent(f[n - 1], Event(n)) BY <1>6, <1>7
<1>9. ASSUME NEW i \in 0 .. len PROVE Stripped(i) = f[i]
  <2>1. PICK g : Reads(g, i) /\ Stripped(i) = g[i] BY <1>5
  <2>2. i \in Nat BY <1>1
  <2>3. g[0] = Begun /\ \A n \in 1 .. i : g[n] = StripEvent(g[n - 1], Event(n))
    BY <1>6, <2>1, <2>2
  <2> DEFINE N == {n \in Nat : n <= i => g[n] = f[n]}
  <2>4. 0 \in N BY <1>8, <2>3
  <2>5. ASSUME NEW n \in Nat, n \in N PROVE n + 1 \in N
    <3>1. SUFFICES ASSUME n + 1 <= i PROVE g[n + 1] = f[n + 1] OBVIOUS
    <3>2. g[n] = f[n] BY <2>2, <2>5, <3>1
    <3>3. n + 1 \in 1 .. i /\ n + 1 \in 1 .. len /\ (n + 1) - 1 = n BY <1>1, <2>2, <3>1
    <3>4. g[n + 1] = StripEvent(g[n], Event(n + 1)) BY <2>3, <3>3
    <3>5. f[n + 1] = StripEvent(f[n], Event(n + 1)) BY <1>8, <3>3
    <3> QED BY <3>2, <3>4, <3>5
  <2>6. Nat \subseteq N
    <3> HIDE DEF N
    <3> QED BY <2>4, <2>5, Induction
  <2>7. g[i] = f[i] BY <2>2, <2>6
  <2> QED BY <2>1, <2>7
<1>10. Stripped(0) = Begun
  <2>1. 0 \in 0 .. len BY <1>1
  <2> QED BY <1>8, <1>9, <2>1
<1>11. \A i \in 0 .. len : Stripped(i) \in Drained BY <1>7, <1>9
<1>12. ASSUME NEW i \in 1 .. len PROVE Stripped(i) = StripEvent(Stripped(i - 1), Event(i))
  <2>1. i \in 0 .. len /\ i - 1 \in 0 .. len BY <1>1
  <2> QED BY <1>8, <1>9, <2>1
<1> QED BY <1>1, <1>10, <1>11, <1>12

-----------------------------------------------------------------------------
(* Texts that are put together chunk by chunk.                             *)

\* f says what the chunks c at the places H among the first n add up to.
Adds(f, n, H, c) ==
    \A k \in 0 .. n : f[k] = IF k = 0 THEN <<>> ELSE IF k \in H THEN f[k - 1] \o c[k] ELSE f[k - 1]

\* There is such a function.
LEMMA SumExists ==
    ASSUME NEW n \in Nat, NEW H, NEW c, \A k \in H : c[k] \in Texts
    PROVE  \E f \in [0 .. n -> Texts] : Adds(f, n, H, c)
<1> DEFINE step == [x \in (1 .. n) \X Texts |-> IF x[1] \in H THEN x[2] \o c[x[1]] ELSE x[2]]
<1>1. <<>> \in Texts BY DEF Texts
<1>2. step \in [(1 .. n) \X Texts -> Texts]
  <2>1. \A x \in (1 .. n) \X Texts : (IF x[1] \in H THEN x[2] \o c[x[1]] ELSE x[2]) \in Texts
    <3>1. SUFFICES ASSUME NEW x \in (1 .. n) \X Texts, x[1] \in H PROVE x[2] \o c[x[1]] \in Texts OBVIOUS
    <3>2. x[2] \in Texts /\ c[x[1]] \in Texts BY <3>1
    <3> QED BY <3>2, Joined
  <2> QED BY <2>1
<1> HIDE DEF step
<1>3. PICK f \in [0 .. n -> Texts] : Recurs(f, n, <<>>, step) BY <1>1, <1>2, RecursionExists
<1>4. ASSUME NEW k \in 0 .. n
      PROVE  f[k] = IF k = 0 THEN <<>> ELSE IF k \in H THEN f[k - 1] \o c[k] ELSE f[k - 1]
  <2>1. CASE k = 0 BY <1>3, <2>1 DEF Recurs
  <2>2. CASE k # 0
    <3>1. k \in 1 .. n /\ k - 1 \in 0 .. n BY <2>2
    <3>2. <<k, f[k - 1]>> \in (1 .. n) \X Texts BY <1>3, <3>1
    <3>3. step[<<k, f[k - 1]>>] = IF k \in H THEN f[k - 1] \o c[k] ELSE f[k - 1] BY <3>2 DEF step
    <3>4. f[k] = step[<<k, f[k - 1]>>] BY <1>3, <3>1 DEF Recurs
    <3> QED BY <2>2, <3>3, <3>4
  <2> QED BY <2>1, <2>2
<1> QED BY <1>3, <1>4 DEF Adds

\* Sums are texts.
LEMMA SumTyped ==
    ASSUME NEW n \in Nat, NEW H, NEW c, \A k \in H : c[k] \in Texts, NEW f, Adds(f, n, H, c)
    PROVE  \A k \in 0 .. n : f[k] \in Texts
<1> DEFINE N == {k \in Nat : k <= n => f[k] \in Texts}
<1>1. 0 \in N
  <2>1. <<>> \in Texts BY DEF Texts
  <2>2. 0 \in 0 .. n OBVIOUS
  <2>3. f[0] = <<>> BY <2>2 DEF Adds
  <2> QED BY <2>1, <2>3
<1>2. ASSUME NEW k \in Nat, k \in N PROVE k + 1 \in N
  <2>1. SUFFICES ASSUME k + 1 <= n PROVE f[k + 1] \in Texts OBVIOUS
  <2>2. f[k] \in Texts BY <1>2, <2>1
  <2>3. k + 1 \in 0 .. n /\ k + 1 # 0 /\ (k + 1) - 1 = k BY <2>1
  <2>4. f[k + 1] = IF k + 1 \in H THEN f[k] \o c[k + 1] ELSE f[k] BY <2>3 DEF Adds
  <2>5. k + 1 \in H => f[k] \o c[k + 1] \in Texts BY <2>2, Joined
  <2> QED BY <2>2, <2>4, <2>5
<1>3. Nat \subseteq N
  <2> HIDE DEF N
  <2> QED BY <1>1, <1>2, Induction
<1> QED BY <1>3

\* Sums of the same chunks are the same.
LEMMA SumUnique ==
    ASSUME NEW n \in Nat, NEW H, NEW c, NEW f, Adds(f, n, H, c),
           NEW m \in Nat, NEW G, NEW d, NEW g, Adds(g, m, G, d),
           NEW l \in Nat, l <= n, l <= m, \A k \in 1 .. l : (k \in H <=> k \in G) /\ c[k] = d[k]
    PROVE  f[l] = g[l]
<1> DEFINE N == {k \in Nat : k <= l => f[k] = g[k]}
<1>1. 0 \in N
  <2>1. 0 \in 0 .. n /\ 0 \in 0 .. m OBVIOUS
  <2>2. f[0] = <<>> /\ g[0] = <<>> BY <2>1 DEF Adds
  <2> QED BY <2>2
<1>2. ASSUME NEW k \in Nat, k \in N PROVE k + 1 \in N
  <2>1. SUFFICES ASSUME k + 1 <= l PROVE f[k + 1] = g[k + 1] OBVIOUS
  <2>2. f[k] = g[k] BY <1>2, <2>1
  <2>3. k + 1 \in 0 .. n /\ k + 1 \in 0 .. m /\ k + 1 # 0 /\ (k + 1) - 1 = k /\ k + 1 \in 1 .. l
    BY <2>1
  <2>4. f[k + 1] = IF k + 1 \in H THEN f[k] \o c[k + 1] ELSE f[k] BY <2>3 DEF Adds
  <2>5. g[k + 1] = IF k + 1 \in G THEN g[k] \o d[k + 1] ELSE g[k] BY <2>3 DEF Adds
  <2>6. (k + 1 \in H <=> k + 1 \in G) /\ c[k + 1] = d[k + 1] BY <2>3
  <2> QED BY <2>2, <2>4, <2>5, <2>6
<1>3. Nat \subseteq N
  <2> HIDE DEF N
  <2> QED BY <1>1, <1>2, Induction
<1> QED BY <1>3

\* The places and the chunks of the texts in the stream.
TextPlaces == {i \in DOMAIN stream : Event(i).type = "text"}

TextChunks == [i \in DOMAIN stream |-> Event(i).text]

\* The whole text is the sum of the texts in the stream.
LEMMA WholeTextIs ==
    ASSUME stream \in Seq(Events)
    PROVE  \E f : Adds(f, Len(stream), TextPlaces, TextChunks) /\ WholeText = f[Len(stream)]
<1> DEFINE Reads(f) == f = [n \in 0 .. Len(stream) |->
                               IF n = 0 THEN <<>>
                               ELSE IF Event(n).type = "text" THEN f[n - 1] \o Event(n).text ELSE f[n - 1]]
<1>1. PICK len \in Nat : len = Len(stream) /\ DOMAIN stream = 1 .. len OBVIOUS
<1>2. \A k \in TextPlaces : TextChunks[k] \in Texts
  <2>1. \A k \in 1 .. len : Event(k) \in Events BY <1>1 DEF Event
  <2>2. \A k \in 1 .. len : Event(k).text \in Texts BY <2>1, EventTextIs
  <2> QED BY <1>1, <2>2 DEF TextPlaces, TextChunks
<1>3. \A k \in 0 .. len : k # 0 => /\ k \in TextPlaces <=> Event(k).type = "text"
                                   /\ TextChunks[k] = Event(k).text
  <2>1. \A k \in 0 .. len : k # 0 => k \in DOMAIN stream BY <1>1
  <2> QED BY <2>1 DEF TextPlaces, TextChunks
<1>4. PICK g \in [0 .. len -> Texts] : Adds(g, len, TextPlaces, TextChunks)
  BY <1>1, <1>2, SumExists
<1>5. Reads(g)
  <2>1. \A n \in 0 .. len : g[n] = IF n = 0 THEN <<>>
                                   ELSE IF Event(n).type = "text" THEN g[n - 1] \o Event(n).text ELSE g[n - 1]
    BY <1>3, <1>4 DEF Adds
  <2> QED BY <1>1, <1>4, <2>1
<1> DEFINE f == CHOOSE f : Reads(f)
<1>6. Reads(f) BY <1>5, Zenon
<1>7. WholeText = f[Len(stream)] BY DEF WholeText
<1> HIDE DEF f
<1>8. Adds(f, len, TextPlaces, TextChunks)
  <2>1. \A n \in 0 .. len : f[n] = IF n = 0 THEN <<>>
                                   ELSE IF Event(n).type = "text" THEN f[n - 1] \o Event(n).text ELSE f[n - 1]
    BY <1>1, <1>6
  <2> QED BY <1>3, <2>1 DEF Adds
<1> QED BY <1>1, <1>7, <1>8

-----------------------------------------------------------------------------
(* The inductive invariant: what the rows and the projections are.         *)

SourceSuffixes == {"", "tool", "reasoning", "text", "message"}

Sources == Nat \X SourceSuffixes

LogEntries == [src : Sources, order : Nat \cup {NoPart}, delta : Texts]

TextKeys == TextKinds \X {""}

ToolKeys == ToolKinds \X STRING

PartRows == [key : TextKeys \cup ToolKeys, text : Texts]

Steps == {"none", "text"} \cup ToolEvents

Jobs == [step : Steps, src : Sources, key : {<<"", "">>} \cup TextKeys \cup ToolKeys,
         order : Nat, text : Texts, delta : Texts]

\* Text and reasoning have their fixed orders, tool parts come behind them.
OrderOf(o, key) ==
    IF key[1] \in TextKinds THEN o = getSinglePartOrder[key[1]] ELSE o >= ToolPartOrderStart

\* Parts, at orders of their own.
PartsOK ==
    /\ IsFiniteSet(DOMAIN parts) /\ DOMAIN parts \subseteq Nat
    /\ parts \in [DOMAIN parts -> PartRows]
    /\ \A o \in DOMAIN parts : OrderOf(o, parts[o].key)

\* The rows of the run.
RowsOK ==
    /\ stream \in Streams
    /\ status \in {"running", "requires_action", "completed"}
    /\ PartsOK
    /\ log \in Seq(LogEntries)
    /\ answered \in Nat /\ crashes \in 0 .. MaxCrashes
    /\ dropped \in BOOLEAN /\ shared \in BOOLEAN

\* The tool parts a projection knows of have different orders, all of them taken.
ToolsOK(tools) ==
    /\ tools = [entries |-> tools.entries, used |-> tools.used, next |-> tools.next]
    /\ IsFiniteSet(tools.used) /\ tools.used \subseteq Nat
    /\ tools.next \in Nat /\ tools.next >= ToolPartOrderStart
    /\ DOMAIN tools.entries \subseteq ToolKeys
    /\ tools.entries \in [DOMAIN tools.entries -> [order : Nat, text : Texts]]
    /\ \A key \in DOMAIN tools.entries :
          tools.entries[key].order \in tools.used
          /\ tools.entries[key].order >= ToolPartOrderStart
    /\ \A key, other \in DOMAIN tools.entries :
          tools.entries[key].order = tools.entries[other].order => key = other

ToolKey(event) == IF event.type = "result" THEN <<"result", event.call>> ELSE <<"call", event.call>>

\* A transaction is for the event it was made of.
JobOK(p) ==
    LET event == Event(p.pos + 1)
        job == p.job
    IN  /\ event.type \in TextKinds \cup ToolEvents
        /\ job.src = Src(p.pos + 1, IF event.type = "action" THEN "tool" ELSE "")
        /\ event.type \in TextKinds =>
              /\ job.step = "text" /\ job.key = <<event.type, "">>
              /\ job.order = getSinglePartOrder[event.type]
        /\ event.type \in ToolEvents =>
              /\ job.step = event.type /\ job.key = ToolKey(event)
              /\ job.key \in DOMAIN p.tools.entries
              /\ job.order = p.tools.entries[job.key].order

\* What a projection has in memory.
ProjectionOK(p) ==
    /\ p = [pc |-> p.pc, pos |-> p.pos, texts |-> p.texts, strippers |-> p.strippers,
            tools |-> p.tools, job |-> p.job]
    /\ p.pc \in {"idle", "load", "read", "write", "action", "complete"}
    /\ p.pos \in 0 .. Len(stream)
    /\ p.texts \in [TextKinds -> Texts] /\ p.strippers \in [TextKinds -> StripperStates]
    /\ ToolsOK(p.tools) /\ p.job \in Jobs
    /\ p.pc = "idle" => p = IdleProjection
    /\ p.pc = "load" => p.strippers = IdleProjection.strippers
    /\ p.pc \in {"write", "action", "complete"} => Published(p.pos + 1)
    /\ p.pc = "write" => JobOK(p)
    /\ p.pc = "action" => Event(p.pos + 1).type = "action"
    /\ p.pc = "complete" => Event(p.pos + 1).type = "completed"

Recorded(i) == HasSourceEvent(Src(i, ""))

RecordedActions == {i \in Actions : Recorded(i)}

\* Every client action recorded was answered, but for the one that is waited for.
ActionsCounted ==
    answered + (IF status = "requires_action" THEN 1 ELSE 0) = Cardinality(RecordedActions)

\* Sources are events of the stream, and every suffix has an event that has it.
SourcesOK ==
    \A n \in DOMAIN log :
        /\ log[n].src # NoSrc => log[n].src[1] \in DOMAIN stream
        /\ log[n].src[2] # "" =>
              Event(log[n].src[1]).type = IF log[n].src[2] = "tool" THEN "action" ELSE "completed"

ToolPartThere == \E o \in DOMAIN parts : o >= ToolPartOrderStart

\* A client action has a tool part before it is waited for.
ActionsHaveParts ==
    /\ status = "requires_action" => ToolPartThere
    /\ \A n \in DOMAIN log : log[n].src[2] = "tool" => ToolPartThere
    /\ \A a \in Apis : proj[a].pc = "action" => ToolPartThere \/ status = "completed"

ProjectionsOK ==
    /\ proj = [a \in Apis |-> proj[a]]
    /\ \A a \in Apis : ProjectionOK(proj[a])

ProjectionInv ==
    /\ RowsOK /\ ProjectionsOK
    /\ SourcesOK
    /\ ActionsCounted
    /\ ActionsHaveParts

-----------------------------------------------------------------------------
(* As long as one process projects the run at a time.                      *)

Snapshot(o) == IF o \in DOMAIN parts THEN parts[o].text ELSE <<>>

\* One projection, and of a run that runs.
Alone ==
    /\ \A a, b \in Apis : proj[a].pc # "idle" /\ proj[b].pc # "idle" => a = b
    /\ \A a \in Apis : proj[a].pc # "idle" => status = "running"

\* The snapshot is what the log adds up to; a repeated result is what it ends with.
Superseded(o) ==
    /\ o \in DOMAIN parts /\ Repeated(parts[o].key)
    /\ \E before \in Texts : DeltasOf(o) = before \o Snapshot(o)

SnapshotTrue(o) == DeltasOf(o) = Snapshot(o) \/ Superseded(o)

SnapshotsTrue == \A o \in Nat : SnapshotTrue(o)

\* A delta is what a text adds, or all of a result that is repeated.
GoesOn(text, current, delta, key) ==
    text = current \o delta \/ (text = delta /\ Repeated(key))

\* A projection remembers the tool parts as they are.
ToolsTrue(tools) ==
    /\ \A key \in DOMAIN tools.entries :
          /\ tools.entries[key].text = Snapshot(tools.entries[key].order)
          /\ tools.entries[key].order \in DOMAIN parts =>
                parts[tools.entries[key].order].key = key
    /\ \A o \in DOMAIN parts : o >= ToolPartOrderStart => o \in tools.used

\* A projection remembers the rows as they are, and what it is about to write adds to them.
MemoryTrue(p) ==
    /\ p.pc \in {"read", "write"} => ToolsTrue(p.tools)
    /\ \A k \in TextKinds :
          /\ p.pc = "read" \/ (p.pc = "write" /\ p.job.key[1] # k) =>
                p.texts[k] = Snapshot(getSinglePartOrder[k])
          /\ p.pc = "write" /\ p.job.key[1] = k => p.texts[k] = p.job.text
          /\ p.pc = "complete" =>
                p.texts[k] = Snapshot(getSinglePartOrder[k]) \o p.strippers[k].buffer
    /\ p.pc = "write" => GoesOn(p.job.text, Snapshot(p.job.order), p.job.delta, p.job.key)
    /\ p.pc = "write" /\ p.job.step # "action" => ~HasSourceEvent(p.job.src)

\* Results come from events on record.
ResultsRecorded ==
    \A o \in DOMAIN parts : parts[o].key[1] = "result" =>
        \E j \in DOMAIN stream : /\ Event(j).type \in {"result", "action"} /\ Recorded(j)
                                 /\ Event(j).call = parts[o].key[2]

\* What is waited for is the action recorded last.
WaitsForAction ==
    status = "requires_action" => LatestSourceEvent \in RecordedActions

AloneInv ==
    /\ Alone /\ SnapshotsTrue
    /\ \A a \in Apis : MemoryTrue(proj[a])
    /\ ResultsRecorded /\ WaitsForAction

-----------------------------------------------------------------------------
(* As long as no projection goes on behind text that was held back.        *)

\* Events that have to be recorded, for every projection alike.
Due(i) == \/ Event(i).type \in ToolEvents
          \/ Event(i).type = "text" /\ Stripped(i).out # Stripped(i - 1).out

DoneTo(pos) == \A i \in 1 .. pos : Due(i) => Recorded(i)

\* Nothing is recorded behind an event that has to be and is not.
InOrder ==
    \A n \in DOMAIN log : \A i \in DOMAIN stream :
        i < log[n].src[1] /\ Due(i) => Recorded(i)

ActionToolRecorded == \A i \in RecordedActions : HasSourceEvent(Src(i, "tool"))

\* A run that waits, does so for an action that is not yet answered.
WaitsUnanswered ==
    status = "requires_action" =>
        \E j \in RecordedActions : answered < Cardinality({k \in Actions : k <= j})

\* The stripper of a projection is where every projection's is at that place.
StripperTrue(p) ==
    LET st == p.strippers["text"]
        event == Event(p.pos + 1)
    IN  /\ p.pc \in {"load", "read", "action"} => st = Stripped(p.pos).st
        /\ p.pc = "write" /\ event.type # "text" => st = Stripped(p.pos).st
        /\ p.pc = "write" /\ event.type = "text" =>
              /\ Stripped(p.pos + 1).st = st /\ p.job.delta # <<>>
              /\ Stripped(p.pos + 1).out = Stripped(p.pos).out \o p.job.delta
        /\ p.pc = "complete" => st.buffer = Flush(Stripped(p.pos).st).out

\* The text on record is what has come out of the stream so far.
TextRecorded ==
    IF status = "completed"
    THEN DeltasOf(getSinglePartOrder["text"]) =
            Stripped(Len(stream)).out \o Flush(Stripped(Len(stream)).st).out
    ELSE \E j \in 0 .. Len(stream) :
            /\ DeltasOf(getSinglePartOrder["text"]) = Stripped(j).out
            /\ \A i \in DOMAIN stream :
                  Event(i).type = "text" /\ Due(i) => (Recorded(i) <=> i <= j)

IntactInv ==
    /\ InOrder /\ ActionToolRecorded /\ WaitsUnanswered /\ TextRecorded
    /\ \A a \in Apis :
          /\ proj[a].pc # "idle" => DoneTo(proj[a].pos) /\ StripperTrue(proj[a])
          /\ proj[a].pc = "action" => status = "completed" \/ HasSourceEvent(Src(proj[a].pos + 1, "tool"))
    /\ status = "completed" => DoneTo(Len(stream))

\* A message completed by one process at a time has the text on record.
ContentTrue == status = "completed" => content = DeltasOf(getSinglePartOrder["text"])

IInv ==
    /\ ProjectionInv
    /\ ~shared => AloneInv /\ ContentTrue
    /\ ~dropped => IntactInv

-----------------------------------------------------------------------------
(* The orders of tool parts.                                               *)

\* An order that is reserved is free, and not below the one that is preferred.
LEMMA ReserveOrderIs ==
    ASSUME NEW used, IsFiniteSet(used), used \subseteq Nat, NEW preferred \in Nat
    PROVE  /\ ReserveOrder(used, preferred) \in Nat
           /\ ReserveOrder(used, preferred) >= preferred
           /\ ReserveOrder(used, preferred) \notin used
<1>1. PICK size \in Nat : size = Cardinality(used) BY FS_CardinalityType
<1> DEFINE range == preferred .. preferred + size
           free == {o \in range : o \notin used}
<1>2. free # {}
  <2>1. SUFFICES ASSUME range \subseteq used PROVE FALSE OBVIOUS
  <2>2. preferred + size \in Nat /\ preferred + size >= preferred BY <1>1
  <2>3. Cardinality(range) = size + 1
    <3>1. PICK top \in Nat : top = preferred + size BY <2>2
    <3>2. Cardinality(preferred .. top) = IF preferred > top THEN 0 ELSE top - preferred + 1
      BY <3>1, FS_Interval
    <3> QED BY <1>1, <2>2, <3>1, <3>2
  <2>4. Cardinality(range) <= size
    <3> HIDE DEF range
    <3> QED BY <1>1, <2>1, FS_Subset
  <2> QED BY <1>1, <2>3, <2>4
<1>3. free \in SUBSET Nat OBVIOUS
<1>4. PICK o \in free : \A m \in free : o <= m
  <2> HIDE DEF free
  <2> QED BY <1>2, <1>3, LeastNumber
<1>5. \A lower \in preferred .. o - 1 : lower \in used
  <2>1. SUFFICES ASSUME NEW lower \in preferred .. o - 1, lower \notin used PROVE FALSE OBVIOUS
  <2>2. lower \in range /\ lower < o BY <1>1, <1>4, <2>1
  <2> QED BY <1>3, <1>4, <2>1, <2>2
<1> DEFINE r == ReserveOrder(used, preferred)
<1>6. r \in range /\ r \notin used
  <2>1. \E x \in range : x \notin used /\ \A lower \in preferred .. x - 1 : lower \in used
    BY <1>4, <1>5
  <2> QED BY <1>1, <2>1 DEF ReserveOrder
<1>7. \A x \in range : x \in Nat /\ x >= preferred BY <1>1
<1> HIDE DEF r, range
<1>8. r \in Nat /\ r >= preferred BY <1>6, <1>7
<1> QED BY <1>6, <1>8 DEF r

\* What a projection knows of the tool parts once it has the entry of a key.
ToolsHave(tools, before, key) ==
    /\ key \in DOMAIN tools.entries
    /\ DOMAIN tools.entries = DOMAIN before.entries \cup {key}
    /\ \A k \in DOMAIN before.entries : tools.entries[k] = before.entries[k]
    /\ before.used \subseteq tools.used
    /\ key \notin DOMAIN before.entries =>
          /\ tools.entries[key].text = <<>> /\ tools.entries[key].order \notin before.used
          /\ tools.used = before.used \cup {tools.entries[key].order}

\* An entry that is made has an order of its own.
LEMMA GetOrCreateEntryIs ==
    ASSUME NEW tools, ToolsOK(tools), NEW key \in ToolKeys
    PROVE  /\ ToolsOK(GetOrCreateEntry(tools, key))
           /\ ToolsHave(GetOrCreateEntry(tools, key), tools, key)
<1>1. CASE key \in DOMAIN tools.entries
  <2>1. GetOrCreateEntry(tools, key) = tools BY <1>1 DEF GetOrCreateEntry
  <2> QED BY <1>1, <2>1 DEF ToolsHave
<1>2. CASE key \notin DOMAIN tools.entries
  <2> DEFINE callKey == <<"call", key[2]>>
             paired == key[1] = "result" /\ callKey \in DOMAIN tools.entries
  <2>1. PICK preferred : preferred = IF paired THEN tools.entries[callKey].order + 1 ELSE tools.next OBVIOUS
  <2>2. preferred \in Nat /\ preferred >= ToolPartOrderStart
    <3>1. tools.next \in Nat /\ tools.next >= ToolPartOrderStart BY DEF ToolsOK
    <3>2. CASE paired
      <4>1. tools.entries[callKey].order \in Nat /\ tools.entries[callKey].order >= ToolPartOrderStart
        BY <3>2 DEF ToolsOK
      <4> QED BY <2>1, <3>2, <4>1 DEF ToolPartOrderStart
    <3>3. CASE ~paired BY <2>1, <3>1, <3>3
    <3> QED BY <3>2, <3>3
  <2>3. PICK order : order = ReserveOrder(tools.used, preferred) OBVIOUS
  <2>4. IsFiniteSet(tools.used) /\ tools.used \subseteq Nat BY DEF ToolsOK
  <2>5. order \in Nat /\ order >= ToolPartOrderStart /\ order \notin tools.used
    <3>1. order \in Nat /\ order >= preferred /\ order \notin tools.used
      BY <2>2, <2>3, <2>4, ReserveOrderIs
    <3> QED BY <2>2, <3>1 DEF ToolPartOrderStart
  <2>6. PICK entries : entries = [k \in DOMAIN tools.entries \cup {key} |->
                                     IF k = key THEN [order |-> order, text |-> <<>>] ELSE tools.entries[k]]
    OBVIOUS
  <2>7. PICK next : next = Larger(tools.next, order + IF key[1] = "call" THEN 2 ELSE 1) OBVIOUS
  <2>8. PICK r : r = GetOrCreateEntry(tools, key) OBVIOUS
  <2>9. r = [entries |-> entries, used |-> tools.used \cup {order}, next |-> next]
    BY <1>2, <2>1, <2>3, <2>6, <2>7, <2>8 DEF GetOrCreateEntry
  <2>10. r.entries = entries /\ r.used = tools.used \cup {order} /\ r.next = next BY <2>9
  <2>11. DOMAIN entries = DOMAIN tools.entries \cup {key} BY <2>6
  <2>12. entries[key] = [order |-> order, text |-> <<>>] BY <2>6
  <2>13. \A k \in DOMAIN tools.entries : entries[k] = tools.entries[k] BY <1>2, <2>6
  <2>14. ToolsHave(r, tools, key) BY <1>2, <2>5, <2>10, <2>11, <2>12, <2>13 DEF ToolsHave
  <2>15. next \in Nat /\ next >= ToolPartOrderStart
    <3>1. tools.next \in Nat /\ tools.next >= ToolPartOrderStart BY DEF ToolsOK
    <3>2. PICK more \in Nat : more = order + IF key[1] = "call" THEN 2 ELSE 1 BY <2>5
    <3>3. next = Larger(tools.next, more) BY <2>7, <3>2
    <3>4. more >= order BY <2>5, <3>2
    <3> QED BY <2>5, <3>1, <3>3, <3>4 DEF Larger, ToolPartOrderStart
  <2>16. IsFiniteSet(tools.used \cup {order}) BY <2>4, FS_AddElement
  <2>17. <<>> \in Texts BY DEF Texts
  <2>18. \A k \in DOMAIN tools.entries :
            /\ tools.entries[k].order \in tools.used /\ tools.entries[k].order >= ToolPartOrderStart
            /\ tools.entries[k] \in [order : Nat, text : Texts]
    BY DEF ToolsOK
  <2>19. \A k \in DOMAIN entries :
            /\ entries[k].order \in r.used /\ entries[k].order >= ToolPartOrderStart
            /\ entries[k] \in [order : Nat, text : Texts]
    BY <2>5, <2>10, <2>11, <2>12, <2>13, <2>17, <2>18
  <2>20. \A k, other \in DOMAIN entries : entries[k].order = entries[other].order => k = other
    <3>1. SUFFICES ASSUME NEW k \in DOMAIN entries, NEW other \in DOMAIN entries,
                          entries[k].order = entries[other].order, k # other
                   PROVE  FALSE
      OBVIOUS
    <3>2. CASE k = key
      <4>1. other \in DOMAIN tools.entries BY <2>11, <3>1, <3>2
      <4> QED BY <2>5, <2>12, <2>13, <2>18, <3>1, <3>2, <4>1
    <3>3. CASE other = key
      <4>1. k \in DOMAIN tools.entries BY <2>11, <3>1, <3>3
      <4> QED BY <2>5, <2>12, <2>13, <2>18, <3>1, <3>3, <4>1
    <3>4. CASE k # key /\ other # key
      <4>1. k \in DOMAIN tools.entries /\ other \in DOMAIN tools.entries BY <2>11, <3>4
      <4>2. \A x, y \in DOMAIN tools.entries : tools.entries[x].order = tools.entries[y].order => x = y
        BY DEF ToolsOK
      <4> QED BY <2>13, <3>1, <4>1, <4>2
    <3> QED BY <3>2, <3>3, <3>4
  <2>21. DOMAIN entries \subseteq ToolKeys BY <2>11 DEF ToolsOK
  <2>22. entries \in [DOMAIN entries -> [order : Nat, text : Texts]] BY <2>6, <2>11, <2>19
  <2>23. r = [entries |-> r.entries, used |-> r.used, next |-> r.next] BY <2>9
  <2>24. r.used \subseteq Nat BY <2>4, <2>5, <2>10
  <2>25. ToolsOK(r)
    BY <2>10, <2>15, <2>16, <2>19, <2>20, <2>21, <2>22, <2>23, <2>24 DEF ToolsOK
  <2> QED BY <2>8, <2>14, <2>25
<1> QED BY <1>1, <1>2

\* What is read back is what the parts are.
LEMMA LoadToolsIs ==
    ASSUME PartsOK
    PROVE  /\ ToolsOK(LoadTools) /\ LoadTools.used = DOMAIN parts
           /\ \A key \in DOMAIN LoadTools.entries :
                 /\ LoadTools.entries[key].order \in DOMAIN parts
                 /\ parts[LoadTools.entries[key].order].key = key
                 /\ LoadTools.entries[key].text = parts[LoadTools.entries[key].order].text
<1> DEFINE tooled == {o \in DOMAIN parts : parts[o].key[1] \in ToolKinds}
           Has(o, k) == parts[o].key = k /\ \A q \in tooled : parts[q].key = k => q <= o
           last(k) == CHOOSE o \in tooled : Has(o, k)
           keys == {parts[o].key : o \in tooled}
           Above(n) == n >= ToolPartOrderStart /\ \A o \in DOMAIN parts : n > o
           places == {ToolPartOrderStart} \cup {o + 1 : o \in DOMAIN parts}
<1>1. IsFiniteSet(DOMAIN parts) /\ DOMAIN parts \subseteq Nat BY DEF PartsOK
<1>2. \A o \in DOMAIN parts : parts[o].key \in TextKeys \cup ToolKeys /\ parts[o].text \in Texts
  BY DEF PartsOK, PartRows
<1>3. \A o \in tooled : parts[o].key \in ToolKeys /\ o >= ToolPartOrderStart
  <2>1. SUFFICES ASSUME NEW o \in tooled PROVE parts[o].key \in ToolKeys /\ o >= ToolPartOrderStart OBVIOUS
  <2>2. o \in DOMAIN parts /\ parts[o].key[1] \in ToolKinds /\ parts[o].key[1] \notin TextKinds
    BY DEF ToolKinds, TextKinds
  <2>3. parts[o].key \in ToolKeys BY <1>2, <2>2 DEF TextKeys
  <2>4. OrderOf(o, parts[o].key) BY <2>2 DEF PartsOK
  <2> QED BY <2>2, <2>3, <2>4 DEF OrderOf
<1>4. ASSUME NEW k \in keys PROVE last(k) \in tooled /\ Has(last(k), k)
  <2> DEFINE S == {o \in tooled : parts[o].key = k}
  <2>1. IsFiniteSet(S) BY <1>1, FS_Subset
  <2>2. S # {} /\ S \in SUBSET Nat BY <1>1, <1>4
  <2>3. PICK o \in S : \A m \in S : m <= o
    <3> HIDE DEF S
    <3> QED BY <2>1, <2>2, GreatestNumber
  <2>4. o \in tooled /\ Has(o, k) BY <2>3
  <2> HIDE DEF tooled, Has
  <2> QED BY <2>4
<1>5. PICK next : next = CHOOSE n \in places : Above(n) OBVIOUS
<1>6. next \in Nat /\ next >= ToolPartOrderStart
  <2>1. IsFiniteSet(places)
    <3> DEFINE after == [o \in DOMAIN parts |-> o + 1]
               orders == {after[o] : o \in DOMAIN parts}
    <3>1. orders = {o + 1 : o \in DOMAIN parts} OBVIOUS
    <3>2. after \in Surjection(DOMAIN parts, orders) BY Fun_SurjectionProperties DEF Surjection
    <3>3. IsFiniteSet(orders) BY <1>1, <3>2, FS_Surjection
    <3> QED BY <3>1, <3>3, FS_AddElement
  <2>2. places # {} /\ places \in SUBSET Nat BY <1>1 DEF ToolPartOrderStart
  <2>3. PICK n \in places : \A m \in places : m <= n
    <3> HIDE DEF places
    <3> QED BY <2>1, <2>2, GreatestNumber
  <2>4. n \in Nat BY <2>2, <2>3
  <2>5. n >= ToolPartOrderStart BY <2>3 DEF ToolPartOrderStart
  <2>6. ASSUME NEW o \in DOMAIN parts PROVE n > o
    <3>1. o + 1 \in places /\ o \in Nat BY <1>1
    <3>2. o + 1 <= n BY <2>3, <3>1
    <3> QED BY <2>4, <3>1, <3>2
  <2>7. Above(n) BY <2>5, <2>6
  <2> HIDE DEF places, Above
  <2>8. next \in places /\ Above(next) BY <1>5, <2>3, <2>7
  <2>9. next >= ToolPartOrderStart BY <2>8 DEF Above
  <2> QED BY <2>2, <2>8, <2>9
<1>7. PICK entries : entries = [k \in keys |-> [order |-> last(k), text |-> parts[last(k)].text]] OBVIOUS
<1>8. PICK r : r = LoadTools OBVIOUS
<1>9. r = [entries |-> entries, used |-> DOMAIN parts, next |-> next]
  BY <1>5, <1>7, <1>8 DEF LoadTools
<1>10. r.entries = entries /\ r.used = DOMAIN parts /\ r.next = next
       /\ r = [entries |-> r.entries, used |-> r.used, next |-> r.next]
  BY <1>9
<1>11. DOMAIN entries = keys BY <1>7
<1>12. ASSUME NEW k \in keys
       PROVE  /\ entries[k] \in [order : Nat, text : Texts]
              /\ entries[k].order \in DOMAIN parts /\ entries[k].order >= ToolPartOrderStart
              /\ parts[entries[k].order].key = k
              /\ entries[k].text = parts[entries[k].order].text
  <2>1. PICK o : o = last(k) OBVIOUS
  <2>2. o \in tooled /\ Has(o, k) BY <1>4, <2>1
  <2>3. entries[k] = [order |-> o, text |-> parts[o].text] BY <1>7, <2>1
  <2>4. o \in DOMAIN parts /\ o \in Nat /\ parts[o].text \in Texts BY <1>1, <1>2, <2>2
  <2>5. parts[o].key = k /\ o >= ToolPartOrderStart BY <1>3, <2>2
  <2> QED BY <2>3, <2>4, <2>5
<1>13. keys \subseteq ToolKeys BY <1>3
<1> HIDE DEF tooled, Has, last, keys, Above, places
<1>14. \A k, other \in keys : entries[k].order = entries[other].order => k = other BY <1>12
<1>15. entries \in [keys -> [order : Nat, text : Texts]] BY <1>7, <1>12
<1>16. ToolsOK(r) BY <1>1, <1>6, <1>10, <1>11, <1>12, <1>13, <1>14, <1>15 DEF ToolsOK
<1> QED BY <1>8, <1>10, <1>11, <1>12, <1>16

-----------------------------------------------------------------------------
(* The log.                                                                *)

\* What an entry more makes of a log.
LEMMA Appended ==
    ASSUME NEW l \in Seq(LogEntries), NEW e \in LogEntries
    PROVE  /\ Append(l, e) \in Seq(LogEntries) /\ Len(Append(l, e)) = Len(l) + 1 /\ Len(l) \in Nat
           /\ DOMAIN Append(l, e) = DOMAIN l \cup {Len(l) + 1} /\ DOMAIN l = 1 .. Len(l)
           /\ \A n \in DOMAIN l : Append(l, e)[n] = l[n] /\ l[n] \in LogEntries
           /\ Append(l, e)[Len(l) + 1] = e
<1>1. Len(l) \in Nat /\ DOMAIN l = 1 .. Len(l) OBVIOUS
<1>2. Append(l, e) \in Seq(LogEntries) /\ Len(Append(l, e)) = Len(l) + 1 OBVIOUS
<1>3. DOMAIN Append(l, e) = 1 .. Len(l) + 1 BY <1>1, <1>2
<1>4. DOMAIN Append(l, e) = DOMAIN l \cup {Len(l) + 1} BY <1>1, <1>3
<1>5. \A n \in DOMAIN l : Append(l, e)[n] = l[n] /\ l[n] \in LogEntries OBVIOUS
<1>6. Append(l, e)[Len(l) + 1] = e OBVIOUS
<1> QED BY <1>1, <1>2, <1>4, <1>5, <1>6

\* A log and at most one entry.
LEMMA PerhapsAppended ==
    ASSUME NEW l \in Seq(LogEntries), NEW e \in LogEntries
    PROVE  l \o <<>> = l /\ l \o <<e>> = Append(l, e)
<1>1. Len(l) \in Nat OBVIOUS
<1>2. <<e>> \in Seq(LogEntries) /\ <<>> \in Seq(LogEntries) OBVIOUS
<1>3. l \o <<>> = l BY <1>2
<1>4. l \o <<e>> = Append(l, e) BY <1>2
<1> QED BY <1>3, <1>4

\* DeltasOf of a log.
DeltasIn(l, order) ==
    LET text[n \in 0 .. Len(l)] ==
            IF n = 0 THEN <<>>
            ELSE IF l[n].order = order THEN text[n - 1] \o l[n].delta ELSE text[n - 1]
    IN  text[Len(l)]

\* The deltas of an order in the log are those of a log.
LEMMA DeltasOfIs ==
    ASSUME NEW order
    PROVE  DeltasOf(order) = DeltasIn(log, order)
BY DEF DeltasOf, DeltasIn

\* Where the deltas of an order are.
DeltaPlaces(l, order) == {n \in DOMAIN l : l[n].order = order}

Deltas(l) == [n \in DOMAIN l |-> l[n].delta]

\* The deltas of an order are a sum.
LEMMA DeltasInIs ==
    ASSUME NEW l \in Seq(LogEntries), NEW order
    PROVE  \E f : Adds(f, Len(l), DeltaPlaces(l, order), Deltas(l)) /\ DeltasIn(l, order) = f[Len(l)]
<1> DEFINE Reads(f) == f = [n \in 0 .. Len(l) |->
                               IF n = 0 THEN <<>>
                               ELSE IF l[n].order = order THEN f[n - 1] \o l[n].delta ELSE f[n - 1]]
<1>1. PICK len \in Nat : len = Len(l) /\ DOMAIN l = 1 .. len OBVIOUS
<1>2. \A k \in DeltaPlaces(l, order) : Deltas(l)[k] \in Texts
  <2>1. \A k \in 1 .. len : l[k] \in LogEntries BY <1>1
  <2> QED BY <1>1, <2>1 DEF DeltaPlaces, Deltas, LogEntries
<1>3. \A k \in 0 .. len : k # 0 => /\ k \in DeltaPlaces(l, order) <=> l[k].order = order
                                   /\ Deltas(l)[k] = l[k].delta
  <2>1. \A k \in 0 .. len : k # 0 => k \in DOMAIN l BY <1>1
  <2> QED BY <2>1 DEF DeltaPlaces, Deltas
<1>4. PICK g \in [0 .. len -> Texts] : Adds(g, len, DeltaPlaces(l, order), Deltas(l))
  BY <1>1, <1>2, SumExists
<1>5. Reads(g)
  <2>1. \A n \in 0 .. len : g[n] = IF n = 0 THEN <<>>
                                   ELSE IF l[n].order = order THEN g[n - 1] \o l[n].delta ELSE g[n - 1]
    BY <1>3, <1>4, Zenon DEF Adds
  <2> QED BY <1>1, <1>4, <2>1
<1> DEFINE f == CHOOSE f : Reads(f)
<1>6. Reads(f) BY <1>5, Zenon
<1>7. DeltasIn(l, order) = f[Len(l)] BY DEF DeltasIn
<1> HIDE DEF f
<1>8. Adds(f, len, DeltaPlaces(l, order), Deltas(l))
  <2>1. \A n \in 0 .. len : f[n] = IF n = 0 THEN <<>>
                                   ELSE IF l[n].order = order THEN f[n - 1] \o l[n].delta ELSE f[n - 1]
    BY <1>1, <1>6
  <2> QED BY <1>3, <2>1 DEF Adds
<1> QED BY <1>1, <1>7, <1>8

\* The deltas of an order are a text, and an entry more adds its delta.
LEMMA DeltasAppended ==
    ASSUME NEW l \in Seq(LogEntries), NEW order
    PROVE  /\ DeltasIn(l, order) \in Texts
           /\ \A e \in LogEntries :
                 DeltasIn(Append(l, e), order) =
                     IF e.order = order THEN DeltasIn(l, order) \o e.delta ELSE DeltasIn(l, order)
<1>1. PICK len \in Nat : len = Len(l) /\ DOMAIN l = 1 .. len OBVIOUS
<1>2. PICK f : Adds(f, len, DeltaPlaces(l, order), Deltas(l)) /\ DeltasIn(l, order) = f[len]
  BY <1>1, DeltasInIs
<1>3. DeltasIn(l, order) \in Texts
  <2>1. \A k \in 1 .. len : l[k] \in LogEntries BY <1>1
  <2>2. \A k \in DeltaPlaces(l, order) : Deltas(l)[k] \in Texts
    BY <1>1, <2>1 DEF DeltaPlaces, Deltas, LogEntries
  <2>3. \A k \in 0 .. len : f[k] \in Texts BY <1>2, <2>2, SumTyped
  <2> QED BY <1>1, <1>2, <2>3
<1>4. ASSUME NEW e \in LogEntries
      PROVE  DeltasIn(Append(l, e), order) =
                 IF e.order = order THEN DeltasIn(l, order) \o e.delta ELSE DeltasIn(l, order)
  <2>1. PICK m : m = Append(l, e) OBVIOUS
  <2>2. m \in Seq(LogEntries) /\ Len(m) = len + 1 /\ DOMAIN m = DOMAIN l \cup {len + 1}
        /\ m[len + 1] = e /\ \A n \in DOMAIN l : m[n] = l[n]
    BY <1>1, <2>1, Appended
  <2>3. PICK g : Adds(g, len + 1, DeltaPlaces(m, order), Deltas(m)) /\ DeltasIn(m, order) = g[len + 1]
    BY <2>2, DeltasInIs
  <2>4. len + 1 \in DOMAIN m BY <2>2
  <2>5. len + 1 \in DeltaPlaces(m, order) <=> e.order = order BY <2>2, <2>4 DEF DeltaPlaces
  <2>6. Deltas(m)[len + 1] = e.delta BY <2>2, <2>4 DEF Deltas
  <2>7. len + 1 \in 0 .. len + 1 /\ len + 1 # 0 /\ (len + 1) - 1 = len BY <1>1
  <2>8. g[len + 1] = IF len + 1 \in DeltaPlaces(m, order) THEN g[len] \o Deltas(m)[len + 1] ELSE g[len]
    BY <2>3, <2>7 DEF Adds
  <2>9. \A k \in 1 .. len : /\ k \in DeltaPlaces(l, order) <=> k \in DeltaPlaces(m, order)
                            /\ Deltas(l)[k] = Deltas(m)[k]
    BY <1>1, <2>2 DEF DeltaPlaces, Deltas
  <2>10. f[len] = g[len]
    <3>1. PICK more \in Nat : more = len + 1 OBVIOUS
    <3>2. len <= more /\ len <= len BY <3>1
    <3>3. Adds(g, more, DeltaPlaces(m, order), Deltas(m)) BY <2>3, <3>1
    <3> QED BY <1>2, <2>9, <3>2, <3>3, SumUnique
  <2> QED BY <1>2, <2>1, <2>3, <2>5, <2>6, <2>8, <2>10
<1> QED BY <1>3, <1>4

\* No log, no deltas.
LEMMA DeltasBegin ==
    ASSUME NEW order
    PROVE  DeltasIn(<<>>, order) = <<>>
<1>1. PICK l : l = <<>> OBVIOUS
<1>2. l \in Seq(LogEntries) /\ Len(l) = 0 BY <1>1
<1>3. PICK f : Adds(f, 0, DeltaPlaces(l, order), Deltas(l)) /\ DeltasIn(l, order) = f[0]
  BY <1>2, DeltasInIs
<1>4. 0 \in 0 .. 0 OBVIOUS
<1> QED BY <1>1, <1>3, <1>4 DEF Adds

\* LatestSourceEvent of a log.
LatestOf(l) ==
    LET sourced == {n \in DOMAIN l : l[n].src # NoSrc}
    IN  IF sourced = {} THEN 0
        ELSE l[CHOOSE n \in sourced : \A m \in sourced : m <= n].src[1]

\* The latest source event is that of the log.
LEMMA LatestSourceEventIs == LatestSourceEvent = LatestOf(log)
BY DEF LatestSourceEvent, LatestOf

\* It is the source of an entry, if any has one, and of the last one that has.
LEMMA LatestIs ==
    ASSUME NEW l \in Seq(LogEntries)
    PROVE  /\ LatestOf(l) \in Nat
           /\ \/ LatestOf(l) = 0 /\ \A n \in DOMAIN l : l[n].src = NoSrc
              \/ \E n \in DOMAIN l : l[n].src # NoSrc /\ LatestOf(l) = l[n].src[1]
           /\ \A e \in LogEntries : e.src # NoSrc => LatestOf(Append(l, e)) = e.src[1]
<1> DEFINE sourced(m) == {n \in DOMAIN m : m[n].src # NoSrc}
           Ending(m, n) == \A k \in sourced(m) : k <= n
<1>1. ASSUME NEW m \in Seq(LogEntries), sourced(m) # {}
      PROVE  \E n \in sourced(m) : Ending(m, n) /\ LatestOf(m) = m[n].src[1]
  <2>1. PICK len \in Nat : len = Len(m) /\ DOMAIN m = 1 .. len OBVIOUS
  <2>2. IsFiniteSet(1 .. len) BY <2>1, FS_Interval
  <2>3. IsFiniteSet(sourced(m)) /\ sourced(m) \in SUBSET Nat BY <2>1, <2>2, FS_Subset
  <2>4. PICK n \in sourced(m) : Ending(m, n)
    <3> HIDE DEF sourced
    <3> QED BY <1>1, <2>3, GreatestNumber DEF sourced
  <2>5. PICK c : c = CHOOSE k \in sourced(m) : Ending(m, k) OBVIOUS
  <2>6. c \in sourced(m) /\ Ending(m, c)
    <3> HIDE DEF sourced, Ending
    <3> QED BY <2>4, <2>5
  <2>7. LatestOf(m) = m[c].src[1] BY <1>1, <2>5 DEF LatestOf
  <2> QED BY <2>6, <2>7
<1>2. ASSUME NEW e \in LogEntries, e.src # NoSrc PROVE LatestOf(Append(l, e)) = e.src[1]
  <2>1. PICK m : m = Append(l, e) OBVIOUS
  <2>2. m \in Seq(LogEntries) /\ Len(l) \in Nat /\ DOMAIN m = DOMAIN l \cup {Len(l) + 1}
        /\ DOMAIN l = 1 .. Len(l) /\ m[Len(l) + 1] = e
    BY <2>1, Appended
  <2>3. Len(l) + 1 \in sourced(m) BY <1>2, <2>2
  <2>4. PICK n \in sourced(m) : Ending(m, n) /\ LatestOf(m) = m[n].src[1] BY <1>1, <2>2, <2>3
  <2>5. n = Len(l) + 1
    <3>1. Len(l) + 1 <= n BY <2>3, <2>4
    <3>2. n \in DOMAIN m BY <2>4
    <3> QED BY <2>2, <3>1, <3>2
  <2> QED BY <2>1, <2>2, <2>4, <2>5
<1>3. CASE sourced(l) = {}
  <2>1. LatestOf(l) = 0 BY <1>3 DEF LatestOf
  <2> QED BY <1>2, <1>3, <2>1
<1>4. CASE sourced(l) # {}
  <2>1. PICK n \in sourced(l) : LatestOf(l) = l[n].src[1] BY <1>1, <1>4
  <2>2. n \in DOMAIN l /\ l[n] \in LogEntries /\ l[n].src # NoSrc OBVIOUS
  <2>3. l[n].src[1] \in Nat BY <2>2 DEF LogEntries, Sources
  <2> QED BY <1>2, <2>1, <2>2, <2>3
<1> QED BY <1>3, <1>4

-----------------------------------------------------------------------------
(* What the rows are, and what a projection has in memory.                 *)

\* The stream is a well-formed one.
LEMMA StreamIs ==
    ASSUME stream \in Streams
    PROVE  /\ stream \in Seq(Events) /\ WellFormed(stream)
           /\ Len(stream) \in Nat /\ DOMAIN stream = 1 .. Len(stream) /\ IsFiniteSet(DOMAIN stream)
           /\ \A i \in DOMAIN stream : Event(i) \in Events
           /\ Actions \subseteq DOMAIN stream /\ IsFiniteSet(Actions) /\ Cardinality(Actions) \in Nat
<1>1. stream \in Seq(Events) /\ WellFormed(stream) BY StreamsAssumption
<1>2. PICK len \in Nat : len = Len(stream) /\ DOMAIN stream = 1 .. len BY <1>1
<1>3. IsFiniteSet(1 .. len) BY <1>2, FS_Interval
<1>4. \A i \in DOMAIN stream : Event(i) \in Events BY <1>1 DEF Event
<1>5. Actions \subseteq DOMAIN stream BY DEF Actions
<1>6. IsFiniteSet(Actions) BY <1>2, <1>3, <1>5, FS_Subset
<1>7. Cardinality(Actions) \in Nat BY <1>6, FS_CardinalityType
<1> QED BY <1>1, <1>2, <1>3, <1>4, <1>5, <1>6, <1>7

\* What is published stays so.
LEMMA PublishedStays ==
    ASSUME stream \in Streams, stream' = stream, answered \in Nat, answered' \in Nat,
           answered <= answered', NEW i, Published(i)
    PROVE  Published(i)'
<1> DEFINE before == {j \in Actions : j < i}
<1>1. before \subseteq Actions OBVIOUS
<1>2. IsFiniteSet(before)
  <2> HIDE DEF before
  <2> QED BY <1>1, StreamIs, FS_Subset
<1>3. Cardinality(before) \in Nat BY <1>2, FS_CardinalityType
<1>4. Cardinality(before) <= answered BY DEF Published
<1>5. before' = before BY DEF Actions, Event
<1>6. Cardinality(before') <= answered' BY <1>3, <1>4, <1>5
<1> QED BY <1>6 DEF Published

\* A projection that stays as it is stays right.
LEMMA ProjectionStays ==
    ASSUME stream \in Streams, stream' = stream, answered \in Nat, answered' \in Nat,
           answered <= answered', NEW p, ProjectionOK(p)
    PROVE  ProjectionOK(p)'
<1>1. PICK i : i = p.pos + 1 OBVIOUS
<1>2. p.pc \in {"write", "action", "complete"} => Published(i)'
  <2>1. p.pc \in {"write", "action", "complete"} => Published(i) BY <1>1 DEF ProjectionOK
  <2> QED BY <2>1, PublishedStays
<1>3. p.pc \in {"write", "action", "complete"} => Published(p.pos + 1)' BY <1>1, <1>2
<1>4. p.pc = "write" => JobOK(p)' BY DEF ProjectionOK, JobOK, Event
<1>5. /\ p.pc = "action" => (Event(p.pos + 1).type = "action")'
      /\ p.pc = "complete" => (Event(p.pos + 1).type = "completed")'
  BY DEF ProjectionOK, Event
<1> QED BY <1>3, <1>4, <1>5 DEF ProjectionOK

\* No projection.
LEMMA IdleOK ==
    ASSUME stream \in Streams
    PROVE  ProjectionOK(IdleProjection)
<1>1. <<>> \in Texts BY DEF Texts
<1>2. NewStripper \in StripperStates BY <1>1 DEF NewStripper, StripperStates
<1>3. ToolsOK(NoTools)
  <2>1. IsFiniteSet({}) BY FS_EmptySet
  <2>2. PICK none : none = [k \in {} |-> 0] OBVIOUS
  <2>3. DOMAIN none = {} /\ none \in [{} -> [order : Nat, text : Texts]] BY <2>2
  <2>4. NoTools = [entries |-> none, used |-> {}, next |-> 10]
    BY <2>2 DEF NoTools, ToolPartOrderStart
  <2> QED BY <2>1, <2>3, <2>4 DEF ToolsOK, ToolPartOrderStart
<1>4. NoJob \in Jobs
  <2>1. NoSrc \in Sources BY DEF NoSrc, Src, Sources, SourceSuffixes
  <2> QED BY <1>1, <2>1 DEF NoJob, Jobs, Steps
<1>5. Len(stream) \in Nat BY StreamIs
<1>6. PICK texts, strippers : texts = [k \in TextKinds |-> <<>>] /\ strippers = [k \in TextKinds |-> NewStripper]
  OBVIOUS
<1>7. texts \in [TextKinds -> Texts] /\ strippers \in [TextKinds -> StripperStates]
  BY <1>1, <1>2, <1>6
<1>8. IdleProjection = [pc |-> "idle", pos |-> 0, texts |-> texts, strippers |-> strippers,
                        tools |-> NoTools, job |-> NoJob]
  BY <1>6 DEF IdleProjection
<1>9. PICK p : p = IdleProjection OBVIOUS
<1>10. p.pc = "idle" /\ p.pos = 0 /\ p.texts = texts /\ p.strippers = strippers
       /\ p.tools = NoTools /\ p.job = NoJob
  BY <1>8, <1>9
<1>11. p = [pc |-> p.pc, pos |-> p.pos, texts |-> p.texts, strippers |-> p.strippers,
            tools |-> p.tools, job |-> p.job]
  BY <1>8, <1>9, <1>10
<1>12. ProjectionOK(p) BY <1>3, <1>4, <1>5, <1>7, <1>9, <1>10, <1>11 DEF ProjectionOK
<1> QED BY <1>9, <1>12

\* When one projection moves, the others stay right.
LEMMA ProjectionMoves ==
    ASSUME RowsOK, ProjectionsOK, stream' = stream, answered' = answered,
           NEW a \in Apis, NEW q, proj' = [proj EXCEPT ![a] = q], ProjectionOK(q)
    PROVE  /\ ProjectionsOK' /\ proj'[a] = q
           /\ \A b \in Apis : b # a => proj'[b] = proj[b]
<1>1. stream \in Streams /\ answered \in Nat /\ answered' \in Nat /\ answered <= answered'
  BY DEF RowsOK
<1>2. DOMAIN proj = Apis BY DEF ProjectionsOK
<1>3. proj'[a] = q BY <1>2
<1>4. \A b \in Apis : b # a => proj'[b] = proj[b] BY <1>2
<1>5. proj' = [b \in Apis |-> proj'[b]] BY <1>2
<1>6. ASSUME NEW b \in Apis PROVE ProjectionOK(proj[b])'
  <2>1. PICK p : p = proj'[b] OBVIOUS
  <2>2. ProjectionOK(p) BY <1>3, <1>4, <2>1 DEF ProjectionsOK
  <2>3. ProjectionOK(p)' BY <1>1, <2>2, ProjectionStays
  <2> QED BY <2>1, <2>3
<1> QED BY <1>3, <1>4, <1>5, <1>6 DEF ProjectionsOK

\* Nothing but the projections changes.
LEMMA RowsStay ==
    ASSUME ProjectionInv, UNCHANGED <<stream, rowVars>>, ProjectionsOK',
           dropped' \in BOOLEAN, shared' \in BOOLEAN, crashes' \in 0 .. MaxCrashes,
           \A a \in Apis : proj'[a].pc = "action" => proj[a].pc = "action"
    PROVE  ProjectionInv'
<1>1. UNCHANGED <<stream, status, parts, content, log, answered>> BY DEF rowVars
<1>2. RowsOK' BY <1>1 DEF ProjectionInv, RowsOK, PartsOK
<1>3. SourcesOK' BY <1>1 DEF ProjectionInv, SourcesOK, Event
<1>4. ActionsCounted'
  BY <1>1 DEF ProjectionInv, ActionsCounted, RecordedActions, Recorded, HasSourceEvent, Actions,
     Event
<1>5. ActionsHaveParts' BY <1>1 DEF ProjectionInv, ActionsHaveParts, ToolPartThere
<1> QED BY <1>2, <1>3, <1>4, <1>5 DEF ProjectionInv

-----------------------------------------------------------------------------
(* What a projection has in memory, step by step.                          *)

Holding(pc, pos, texts, strippers, tools, job) ==
    [pc |-> pc, pos |-> pos, texts |-> texts, strippers |-> strippers, tools |-> tools, job |-> job]

\* A projection is idle or has its fields.
LEMMA ProjectionHolds ==
    ASSUME NEW p, ProjectionOK(p)
    PROVE  /\ p = Holding(p.pc, p.pos, p.texts, p.strippers, p.tools, p.job)
           /\ p.pc = "idle" => p = IdleProjection
BY DEF ProjectionOK, Holding

\* No projection.
LEMMA IdleHolds ==
    IdleProjection = Holding("idle", 0, [k \in TextKinds |-> <<>>], [k \in TextKinds |-> NewStripper],
                             NoTools, NoJob)
BY DEF IdleProjection, Holding

\* The event a projection reads.
LEMMA ReadingIs ==
    ASSUME RowsOK, ProjectionsOK, NEW a \in Apis, NEW types, Reading(a, types)
    PROVE  /\ proj[a].pc = "read" /\ proj[a].pos \in Nat /\ Current(a) = proj[a].pos + 1
           /\ Published(Current(a)) /\ Current(a) \in DOMAIN stream /\ Current(a) \in 0 .. Len(stream)
           /\ Event(Current(a)) \in Events /\ Event(Current(a)).type \in types
           /\ ProjectionOK(proj[a])
<1>1. Published(Current(a)) /\ proj[a].pc = "read" /\ Event(Current(a)).type \in types
  BY DEF Reading
<1>2. stream \in Streams BY DEF RowsOK
<1>3. Current(a) \in DOMAIN stream /\ Current(a) = proj[a].pos + 1 BY <1>1 DEF Published, Current
<1>4. ProjectionOK(proj[a]) BY DEF ProjectionsOK
<1>5. Len(stream) \in Nat /\ DOMAIN stream = 1 .. Len(stream) /\ \A i \in DOMAIN stream : Event(i) \in Events
  BY <1>2, StreamIs
<1>6. proj[a].pos \in Nat BY <1>4, <1>5 DEF ProjectionOK
<1> QED BY <1>1, <1>3, <1>4, <1>5, <1>6

\* Start.
LEMMA StartIs ==
    ASSUME RowsOK, ProjectionsOK, NEW a \in Apis, Start(a)
    PROVE  proj' = [proj EXCEPT ![a] = Holding("load", LatestSourceEvent, [k \in TextKinds |-> <<>>],
                                               [k \in TextKinds |-> NewStripper], NoTools, NoJob)]
<1>1. PICK p : p = proj[a] OBVIOUS
<1>2. p = IdleProjection BY <1>1 DEF Start, ProjectionsOK, ProjectionOK
<1>3. PICK texts, strippers : texts = [k \in TextKinds |-> <<>>] /\ strippers = [k \in TextKinds |-> NewStripper]
  OBVIOUS
<1>4. p = Holding("idle", 0, texts, strippers, NoTools, NoJob) BY <1>2, <1>3, IdleHolds
<1>5. PICK latest : latest = LatestSourceEvent OBVIOUS
<1>6. PICK r : r = [p EXCEPT !.pc = "load"] OBVIOUS
<1>7. r = Holding("load", 0, texts, strippers, NoTools, NoJob) BY <1>4, <1>6 DEF Holding
<1>8. [r EXCEPT !.pos = latest] = Holding("load", latest, texts, strippers, NoTools, NoJob)
  BY <1>7 DEF Holding
<1>9. proj' = [proj EXCEPT ![a] = [r EXCEPT !.pos = latest]]
  BY <1>1, <1>5, <1>6 DEF Start, ProjectionsOK
<1> QED BY <1>3, <1>5, <1>8, <1>9

\* Load.
LEMMA LoadIs ==
    ASSUME RowsOK, ProjectionsOK, NEW a \in Apis, Load(a)
    PROVE  proj' = [proj EXCEPT ![a] =
                       IF status # "running" THEN IdleProjection
                       ELSE Holding("read", proj[a].pos, [k \in TextKinds |-> PartText(k)],
                                    proj[a].strippers, LoadTools, proj[a].job)]
<1>1. PICK p : p = proj[a] OBVIOUS
<1>2. PICK oldPc, oldPos, oldTexts, oldStrippers, oldTools, oldJob :
         p = Holding(oldPc, oldPos, oldTexts, oldStrippers, oldTools, oldJob)
  <2>1. ProjectionOK(p) BY <1>1 DEF ProjectionsOK
  <2> QED BY <2>1, ProjectionHolds
<1>0. p.pc = oldPc /\ p.pos = oldPos /\ p.texts = oldTexts
      /\ p.strippers = oldStrippers /\ p.tools = oldTools /\ p.job = oldJob
  BY <1>2 DEF Holding
<1>3. PICK texts : texts = [k \in TextKinds |-> PartText(k)] OBVIOUS
<1>4. PICK r : r = [p EXCEPT !.pc = "read"] OBVIOUS
<1>5. r = Holding("read", oldPos, oldTexts, oldStrippers, oldTools, oldJob)
  BY <1>2, <1>4 DEF Holding
<1>6. PICK s : s = [r EXCEPT !.texts = texts] OBVIOUS
<1>7. s = Holding("read", oldPos, texts, oldStrippers, oldTools, oldJob) BY <1>5, <1>6 DEF Holding
<1>8. [s EXCEPT !.tools = LoadTools] = Holding("read", oldPos, texts, oldStrippers, LoadTools, oldJob)
  BY <1>7 DEF Holding
<1>9. proj' = [proj EXCEPT ![a] = IF status # "running" THEN IdleProjection
                                  ELSE [s EXCEPT !.tools = LoadTools]]
  BY <1>1, <1>3, <1>4, <1>6 DEF Load, ProjectionsOK
<1> QED BY <1>0, <1>1, <1>3, <1>8, <1>9

\* SkipRecorded.
LEMMA SkipRecordedIs ==
    ASSUME RowsOK, ProjectionsOK, NEW a \in Apis, SkipRecorded(a)
    PROVE  proj' = [proj EXCEPT ![a] =
                       IF Event(Current(a)).type = "action" THEN IdleProjection
                       ELSE Holding("read", Current(a), proj[a].texts, proj[a].strippers,
                                    proj[a].tools, proj[a].job)]
<1>1. PICK p : p = proj[a] OBVIOUS
<1>2. p.pc = "read" /\ Current(a) = p.pos + 1 BY <1>1, ReadingIs DEF SkipRecorded
<1>3. PICK oldPos, oldTexts, oldStrippers, oldTools, oldJob :
         p = Holding("read", oldPos, oldTexts, oldStrippers, oldTools, oldJob)
  <2>1. ProjectionOK(p) BY <1>1 DEF ProjectionsOK
  <2> QED BY <2>1, <1>2, ProjectionHolds
<1>0. p.pos = oldPos /\ p.texts = oldTexts
      /\ p.strippers = oldStrippers /\ p.tools = oldTools /\ p.job = oldJob
  BY <1>3 DEF Holding
<1>4. PICK i : i = Current(a) OBVIOUS
<1>5. [p EXCEPT !.pos = i] = Holding("read", i, oldTexts, oldStrippers, oldTools, oldJob)
  BY <1>3 DEF Holding
<1>6. proj' = [proj EXCEPT ![a] = IF Event(i).type = "action" THEN IdleProjection ELSE [p EXCEPT !.pos = i]]
  BY <1>1, <1>2, <1>4 DEF SkipRecorded, EndProjection, ProjectionsOK
<1> QED BY <1>0, <1>1, <1>4, <1>5, <1>6

\* The kind a projection reads, what the stripper makes of it, and what memory becomes.
TextRead(a, kind, result, text, texts, strippers) ==
    /\ kind = Event(Current(a)).type
    /\ result = Write(proj[a].strippers[kind], Event(Current(a)).text)
    /\ text = proj[a].texts[kind] \o result.out
    /\ texts = [proj[a].texts EXCEPT ![kind] = text]
    /\ strippers = [proj[a].strippers EXCEPT ![kind] = result.st]

\* ReadText: kind of the event, what the stripper makes of it, and the part's text.
LEMMA ReadTextIs ==
    ASSUME RowsOK, ProjectionsOK, NEW a \in Apis, ReadText(a)
    PROVE  \E kind, result, text, texts, strippers :
              /\ TextRead(a, kind, result, text, texts, strippers)
              /\ proj' = [proj EXCEPT ![a] =
                    IF result.out = <<>>
                    THEN Holding("read", Current(a), texts, strippers, proj[a].tools, proj[a].job)
                    ELSE Holding("write", proj[a].pos, texts, strippers, proj[a].tools,
                                 [step |-> "text", src |-> Src(Current(a), ""), key |-> <<kind, "">>,
                                  order |-> getSinglePartOrder[kind], text |-> text, delta |-> result.out])]
<1>18. PICK kind, result, text, texts, strippers :
         /\ kind = Event(Current(a)).type
         /\ result = Write(proj[a].strippers[kind], Event(Current(a)).text)
         /\ text = proj[a].texts[kind] \o result.out
         /\ texts = [proj[a].texts EXCEPT ![kind] = text]
         /\ strippers = [proj[a].strippers EXCEPT ![kind] = result.st]
  OBVIOUS
<1>1. PICK p : p = proj[a] OBVIOUS
<1>2. p.pc = "read" /\ Current(a) = p.pos + 1 BY <1>1, ReadingIs DEF ReadText
<1>3. PICK oldPos, oldTexts, oldStrippers, oldTools, oldJob :
         p = Holding("read", oldPos, oldTexts, oldStrippers, oldTools, oldJob)
  <2>1. ProjectionOK(p) BY <1>1 DEF ProjectionsOK
  <2> QED BY <2>1, <1>2, ProjectionHolds
<1>0. p.pos = oldPos /\ p.texts = oldTexts
      /\ p.strippers = oldStrippers /\ p.tools = oldTools /\ p.job = oldJob
  BY <1>3 DEF Holding
<1>4. PICK i : i = Current(a) OBVIOUS
<1>5. PICK job : job = [step |-> "text", src |-> Src(i, ""), key |-> <<kind, "">>,
                        order |-> getSinglePartOrder[kind], text |-> text, delta |-> result.out]
  OBVIOUS
<1>6. PICK r : r = [p EXCEPT !.strippers[kind] = result.st] OBVIOUS
<1>7. r = Holding("read", oldPos, oldTexts, strippers, oldTools, oldJob)
  <2>1. r = [p EXCEPT !.strippers = strippers] BY <1>0, <1>1, <1>6, <1>18, Zenon
  <2> QED BY <1>3, <2>1 DEF Holding
<1>8. PICK s : s = [r EXCEPT !.texts[kind] = text] OBVIOUS
<1>9. s = Holding("read", oldPos, texts, strippers, oldTools, oldJob)
  <2>1. r.texts = oldTexts BY <1>7 DEF Holding
  <2>2. s = [r EXCEPT !.texts = texts] BY <1>0, <1>1, <1>8, <1>18, <2>1, Zenon
  <2> QED BY <1>7, <2>2 DEF Holding
<1>10. s.pos = oldPos BY <1>9 DEF Holding
<1>11. [s EXCEPT !.pos = i] = Holding("read", i, texts, strippers, oldTools, oldJob)
  BY <1>9 DEF Holding
<1>12. PICK u : u = [s EXCEPT !.pc = "write"] OBVIOUS
<1>13. u = Holding("write", oldPos, texts, strippers, oldTools, oldJob) BY <1>9, <1>12 DEF Holding
<1>14. [u EXCEPT !.job = job] = Holding("write", oldPos, texts, strippers, oldTools, job)
  BY <1>13 DEF Holding
<1>15. proj' = [proj EXCEPT ![a] = IF result.out = <<>> THEN [s EXCEPT !.pos = @ + 1]
                                   ELSE [u EXCEPT !.job = job]]
  BY <1>0, <1>1, <1>4, <1>5, <1>6, <1>8, <1>12, <1>18, ZenonT(40) DEF ReadText, ProjectionsOK
<1>16. [s EXCEPT !.pos = @ + 1] = [s EXCEPT !.pos = i] BY <1>0, <1>2, <1>4, <1>10
<1>17. proj' = [proj EXCEPT ![a] = IF result.out = <<>>
                                   THEN Holding("read", i, texts, strippers, oldTools, oldJob)
                                   ELSE Holding("write", oldPos, texts, strippers, oldTools, job)]
  BY <1>11, <1>14, <1>15, <1>16
<1>19. proj[a].pos = oldPos /\ proj[a].tools = oldTools /\ proj[a].job = oldJob BY <1>0, <1>1
<1>20. TextRead(a, kind, result, text, texts, strippers) BY <1>18, Zenon DEF TextRead
<1> QED BY <1>4, <1>5, <1>17, <1>19, <1>20, Zenon

\* The event a projection reads, its entry, what its text becomes and what is written of it.
ToolRead(a, event, key, tools, entry, text, job) ==
    /\ event = Event(Current(a)) /\ key = ToolKey(event)
    /\ tools = GetOrCreateEntry(proj[a].tools, key) /\ entry = tools.entries[key]
    /\ text = NextToolText(entry.text, event)
    /\ job = [step |-> event.type, key |-> key, order |-> entry.order, text |-> text,
              src |-> Src(Current(a), IF event.type = "action" THEN "tool" ELSE ""),
              delta |-> DeltaOf(entry.text, text)]

\* ReadTool: the tool parts with the event's entry, and what its text becomes.
LEMMA ReadToolIs ==
    ASSUME RowsOK, ProjectionsOK, NEW a \in Apis, ReadTool(a)
    PROVE  \E event, key, tools, entry, text, job :
              /\ ToolRead(a, event, key, tools, entry, text, job)
              /\ proj' = [proj EXCEPT ![a] =
                    Holding("write", proj[a].pos, proj[a].texts, proj[a].strippers, tools, job)]
<1>4. PICK event, key, tools, entry, text, job :
         /\ event = Event(Current(a)) /\ key = ToolKey(event)
         /\ tools = GetOrCreateEntry(proj[a].tools, key) /\ entry = tools.entries[key]
         /\ text = NextToolText(entry.text, event)
         /\ job = [step |-> event.type, key |-> key, order |-> entry.order, text |-> text,
                   src |-> Src(Current(a), IF event.type = "action" THEN "tool" ELSE ""),
                   delta |-> DeltaOf(entry.text, text)]
  OBVIOUS
<1>1. PICK p : p = proj[a] OBVIOUS
<1>2. p.pc = "read" /\ Current(a) = p.pos + 1 BY <1>1, ReadingIs DEF ReadTool
<1>3. PICK oldPos, oldTexts, oldStrippers, oldTools, oldJob :
         p = Holding("read", oldPos, oldTexts, oldStrippers, oldTools, oldJob)
  <2>1. ProjectionOK(p) BY <1>1 DEF ProjectionsOK
  <2> QED BY <2>1, <1>2, ProjectionHolds
<1>0. p.pos = oldPos /\ p.texts = oldTexts
      /\ p.strippers = oldStrippers /\ p.tools = oldTools /\ p.job = oldJob
  BY <1>3 DEF Holding
<1>5. PICK r : r = [p EXCEPT !.pc = "write"] OBVIOUS
<1>6. r = Holding("write", oldPos, oldTexts, oldStrippers, oldTools, oldJob)
  BY <1>3, <1>5 DEF Holding
<1>7. PICK s : s = [r EXCEPT !.tools = tools] OBVIOUS
<1>8. s = Holding("write", oldPos, oldTexts, oldStrippers, tools, oldJob)
  BY <1>6, <1>7 DEF Holding
<1>9. [s EXCEPT !.job = job] = Holding("write", oldPos, oldTexts, oldStrippers, tools, job)
  BY <1>8 DEF Holding
<1>10. proj' = [proj EXCEPT ![a] = [s EXCEPT !.job = job]]
  BY <1>1, <1>4, <1>5, <1>7, ZenonT(40) DEF ReadTool, ToolKey, ProjectionsOK
<1>11. proj[a].pos = oldPos /\ proj[a].texts = oldTexts /\ proj[a].strippers = oldStrippers
  BY <1>0, <1>1
<1>12. proj' = [proj EXCEPT ![a] =
                  Holding("write", proj[a].pos, proj[a].texts, proj[a].strippers, tools, job)]
  BY <1>9, <1>10, <1>11, Zenon
<1>13. ToolRead(a, event, key, tools, entry, text, job) BY <1>4 DEF ToolRead
<1> QED BY <1>12, <1>13

\* ReadCompleted: what the strippers let go of.
LEMMA ReadCompletedIs ==
    ASSUME RowsOK, ProjectionsOK, NEW a \in Apis, ReadCompleted(a)
    PROVE  proj' = [proj EXCEPT ![a] =
                       IF HasSourceEvent(Src(Current(a), "message")) THEN IdleProjection
                       ELSE Holding("complete", proj[a].pos,
                                    [k \in TextKinds |-> proj[a].texts[k] \o Flush(proj[a].strippers[k]).out],
                                    [k \in TextKinds |-> [buffer |-> Flush(proj[a].strippers[k]).out,
                                                          inside |-> FALSE]],
                                    proj[a].tools, proj[a].job)]
<1>1. PICK p : p = proj[a] OBVIOUS
<1>2. p.pc = "read" BY <1>1, ReadingIs DEF ReadCompleted
<1>3. PICK oldPos, oldTexts, oldStrippers, oldTools, oldJob :
         p = Holding("read", oldPos, oldTexts, oldStrippers, oldTools, oldJob)
  <2>1. ProjectionOK(p) BY <1>1 DEF ProjectionsOK
  <2> QED BY <2>1, <1>2, ProjectionHolds
<1>0. p.pos = oldPos /\ p.texts = oldTexts
      /\ p.strippers = oldStrippers /\ p.tools = oldTools /\ p.job = oldJob
  BY <1>3 DEF Holding
<1>4. PICK texts, strippers :
         /\ texts = [k \in TextKinds |-> oldTexts[k] \o Flush(oldStrippers[k]).out]
         /\ strippers = [k \in TextKinds |-> [buffer |-> Flush(oldStrippers[k]).out, inside |-> FALSE]]
  OBVIOUS
<1>5. PICK r : r = [p EXCEPT !.pc = "complete"] OBVIOUS
<1>6. r = Holding("complete", oldPos, oldTexts, oldStrippers, oldTools, oldJob)
  BY <1>3, <1>5 DEF Holding
<1>7. PICK s : s = [r EXCEPT !.texts = texts] OBVIOUS
<1>8. s = Holding("complete", oldPos, texts, oldStrippers, oldTools, oldJob)
  BY <1>6, <1>7 DEF Holding
<1>9. [s EXCEPT !.strippers = strippers] = Holding("complete", oldPos, texts, strippers, oldTools, oldJob)
  BY <1>8 DEF Holding
<1>10. proj' = [proj EXCEPT ![a] = IF HasSourceEvent(Src(Current(a), "message")) THEN IdleProjection
                                   ELSE [s EXCEPT !.strippers = strippers]]
  <2>1. r.texts = oldTexts BY <1>6 DEF Holding
  <2> QED BY <1>0, <1>1, <1>4, <1>5, <1>7, <2>1 DEF ReadCompleted, EndProjection, ProjectionsOK
<1>11. /\ texts = [k \in TextKinds |-> proj[a].texts[k] \o Flush(proj[a].strippers[k]).out]
       /\ strippers = [k \in TextKinds |-> [buffer |-> Flush(proj[a].strippers[k]).out, inside |-> FALSE]]
       /\ oldPos = proj[a].pos /\ oldTools = proj[a].tools /\ oldJob = proj[a].job
  BY <1>0, <1>1, <1>4
<1> QED BY <1>9, <1>10, <1>11, Zenon

TextSet(tools, key, text) == [tools EXCEPT !.entries[key].text = text]

\* What is written, and what the tool parts in memory become.
PartWritten(a, job, tools) ==
    /\ job = proj[a].job
    /\ tools = IF job.step = "text" \/ HasSourceEvent(job.src) THEN proj[a].tools
               ELSE TextSet(proj[a].tools, job.key, job.text)

\* WritePart: the entry in memory takes the text, unless the unique index has rejected it.
LEMMA WritePartIs ==
    ASSUME RowsOK, ProjectionsOK, NEW a \in Apis, WritePart(a)
    PROVE  \E job, tools :
              /\ PartWritten(a, job, tools)
              /\ proj' = [proj EXCEPT ![a] =
                    IF job.step = "action"
                    THEN Holding("action", proj[a].pos, proj[a].texts, proj[a].strippers, tools, job)
                    ELSE Holding("read", Current(a), proj[a].texts, proj[a].strippers, tools, job)]
<1>16. PICK job, tools :
         /\ job = proj[a].job
         /\ tools = IF job.step = "text" \/ HasSourceEvent(job.src) THEN proj[a].tools
                    ELSE [proj[a].tools EXCEPT !.entries[job.key].text = job.text]
  OBVIOUS
<1>1. PICK p : p = proj[a] OBVIOUS
<1>2. p.pc = "write" BY <1>1 DEF WritePart
<1>3. PICK oldPos, oldTexts, oldStrippers, oldTools :
         p = Holding("write", oldPos, oldTexts, oldStrippers, oldTools, job)
  <2>1. ProjectionOK(p) BY <1>1 DEF ProjectionsOK
  <2> QED BY <2>1, <1>1, <1>2, <1>16, ProjectionHolds
<1>0. p.pos = oldPos /\ p.texts = oldTexts
      /\ p.strippers = oldStrippers /\ p.tools = oldTools
  BY <1>3 DEF Holding
<1>4. PICK pc, pos : pc = (IF job.step = "action" THEN "action" ELSE "read")
                     /\ pos = IF job.step = "action" THEN oldPos ELSE oldPos + 1
  OBVIOUS
<1>5. PICK r : r = [p EXCEPT !.pc = pc] OBVIOUS
<1>6. r = Holding(pc, oldPos, oldTexts, oldStrippers, oldTools, job) BY <1>3, <1>5 DEF Holding
<1>7. PICK s : s = [r EXCEPT !.pos = pos] OBVIOUS
<1>8. s = Holding(pc, pos, oldTexts, oldStrippers, oldTools, job) BY <1>6, <1>7 DEF Holding
<1>9. s.tools = oldTools BY <1>8 DEF Holding
<1>10. PICK after : after = [proj[a] EXCEPT !.pc = IF job.step = "action" THEN "action" ELSE "read",
                                            !.pos = IF job.step = "action" THEN @ ELSE @ + 1]
  OBVIOUS
<1>11. after = s
  <2>1. r.pos = oldPos BY <1>6 DEF Holding
  <2> QED BY <1>0, <1>1, <1>4, <1>5, <1>7, <1>10, <2>1
<1>12. proj' = [proj EXCEPT ![a] = IF job.step = "text" \/ HasSourceEvent(job.src) THEN after
                                   ELSE [after EXCEPT !.tools.entries[job.key].text = job.text]]
  BY <1>10, <1>16 DEF WritePart
<1>13. (IF job.step = "text" \/ HasSourceEvent(job.src) THEN s
        ELSE [s EXCEPT !.tools.entries[job.key].text = job.text])
       = Holding(pc, pos, oldTexts, oldStrippers, tools, job)
  <2>1. CASE job.step = "text" \/ HasSourceEvent(job.src) BY <1>0, <1>1, <1>8, <1>16, <2>1
  <2>2. CASE ~(job.step = "text" \/ HasSourceEvent(job.src))
    <3>1. [s EXCEPT !.tools.entries[job.key].text = job.text] = [s EXCEPT !.tools = tools]
      BY <1>0, <1>1, <1>9, <1>16, <2>2
    <3> QED BY <1>8, <2>2, <3>1 DEF Holding
  <2> QED BY <2>1, <2>2
<1>14. proj' = [proj EXCEPT ![a] = Holding(pc, pos, oldTexts, oldStrippers, tools, job)]
  BY <1>11, <1>12, <1>13
<1>15. Current(a) = oldPos + 1 BY <1>0, <1>1 DEF Current
<1>17. proj[a].pos = oldPos /\ proj[a].texts = oldTexts /\ proj[a].strippers = oldStrippers
  BY <1>0, <1>1
<1>18. proj' = [proj EXCEPT ![a] =
                  IF job.step = "action"
                  THEN Holding("action", oldPos, oldTexts, oldStrippers, tools, job)
                  ELSE Holding("read", Current(a), oldTexts, oldStrippers, tools, job)]
  BY <1>4, <1>14, <1>15
<1>19. PartWritten(a, job, tools) BY <1>16 DEF PartWritten, TextSet
<1> QED BY <1>17, <1>18, <1>19, Zenon

-----------------------------------------------------------------------------
(* The rows and the projections through the steps that write no rows.      *)

\* A projection moves, and no row.
LEMMA ProjectionStep ==
    ASSUME ProjectionInv, NEW a \in Apis, UNCHANGED <<stream, rowVars>>,
           dropped' \in BOOLEAN, shared' \in BOOLEAN, crashes' \in 0 .. MaxCrashes,
           NEW q, proj' = [proj EXCEPT ![a] = q], ProjectionOK(q), q.pc # "action"
    PROVE  ProjectionInv'
<1>1. RowsOK /\ ProjectionsOK BY DEF ProjectionInv
<1>2. ProjectionsOK' /\ proj'[a] = q /\ \A b \in Apis : b # a => proj'[b] = proj[b]
  BY <1>1, ProjectionMoves DEF rowVars
<1>3. \A b \in Apis : proj'[b].pc = "action" => proj[b].pc = "action" BY <1>2
<1> QED BY <1>2, <1>3, RowsStay

\* What a projection that is not idle has to be.
LEMMA ProjectionIs ==
    ASSUME NEW pc \in {"load", "read", "write", "action", "complete"}, NEW pos \in 0 .. Len(stream),
           NEW texts \in [TextKinds -> Texts], NEW strippers \in [TextKinds -> StripperStates],
           NEW tools, ToolsOK(tools), NEW job \in Jobs,
           pc = "load" => strippers = IdleProjection.strippers,
           pc = "write" => Published(pos + 1) /\ JobOK(Holding(pc, pos, texts, strippers, tools, job)),
           pc = "action" => Published(pos + 1) /\ Event(pos + 1).type = "action",
           pc = "complete" => Published(pos + 1) /\ Event(pos + 1).type = "completed"
    PROVE  ProjectionOK(Holding(pc, pos, texts, strippers, tools, job))
<1>1. PICK p : p = Holding(pc, pos, texts, strippers, tools, job) OBVIOUS
<1>2. /\ p.pc = pc /\ p.pos = pos /\ p.texts = texts
      /\ p.strippers = strippers /\ p.tools = tools /\ p.job = job
  BY <1>1 DEF Holding
<1>3. p = [pc |-> p.pc, pos |-> p.pos, texts |-> p.texts, strippers |-> p.strippers,
           tools |-> p.tools, job |-> p.job]
  BY <1>1, <1>2 DEF Holding
<1>4. p.pc \in {"load", "read", "write", "action", "complete"} /\ p.pos \in 0 .. Len(stream)
      /\ p.texts \in [TextKinds -> Texts] /\ p.strippers \in [TextKinds -> StripperStates]
      /\ ToolsOK(p.tools) /\ p.job \in Jobs
  BY <1>2
<1>5. /\ p.pc = "load" => p.strippers = IdleProjection.strippers
      /\ p.pc = "write" => Published(p.pos + 1) /\ JobOK(p)
      /\ p.pc = "action" => Published(p.pos + 1) /\ Event(p.pos + 1).type = "action"
      /\ p.pc = "complete" => Published(p.pos + 1) /\ Event(p.pos + 1).type = "completed"
  BY <1>1, <1>2
<1>6. ProjectionOK(p) BY <1>3, <1>4, <1>5 DEF ProjectionOK
<1> QED BY <1>1, <1>6

\* What a projection in memory is.
LEMMA ProjectionTyped ==
    ASSUME ProjectionInv, NEW a \in Apis
    PROVE  /\ ProjectionOK(proj[a]) /\ proj[a].pos \in 0 .. Len(stream)
           /\ proj[a].texts \in [TextKinds -> Texts]
           /\ proj[a].strippers \in [TextKinds -> StripperStates]
           /\ ToolsOK(proj[a].tools) /\ proj[a].job \in Jobs
           /\ proj[a] = Holding(proj[a].pc, proj[a].pos, proj[a].texts, proj[a].strippers,
                                proj[a].tools, proj[a].job)
<1>1. PICK p : p = proj[a] OBVIOUS
<1>2. ProjectionOK(p) BY <1>1 DEF ProjectionInv, ProjectionsOK
<1>3. p = Holding(p.pc, p.pos, p.texts, p.strippers, p.tools, p.job) BY <1>2, ProjectionHolds
<1> QED BY <1>1, <1>2, <1>3 DEF ProjectionOK

\* Start.
LEMMA StartKeepsRows ==
    ASSUME ProjectionInv, NEW a \in Apis, Start(a)
    PROVE  ProjectionInv'
<1>1. RowsOK /\ ProjectionsOK /\ stream \in Streams /\ log \in Seq(LogEntries)
  BY DEF ProjectionInv, RowsOK
<1>2. PICK latest : latest = LatestSourceEvent OBVIOUS
<1>3. latest \in 0 .. Len(stream)
  <2>1. latest \in Nat BY <1>1, <1>2, LatestSourceEventIs, LatestIs
  <2>2. latest + 1 \in DOMAIN stream BY <1>2 DEF Start, Published
  <2> QED BY <1>1, <2>1, <2>2, StreamIs
<1>4. PICK texts, strippers : texts = [k \in TextKinds |-> <<>>] /\ strippers = [k \in TextKinds |-> NewStripper]
  OBVIOUS
<1>5. PICK idle : idle = IdleProjection OBVIOUS
<1>6. idle = Holding("idle", 0, texts, strippers, NoTools, NoJob) /\ ProjectionOK(idle)
  BY <1>1, <1>4, <1>5, IdleHolds, IdleOK
<1>7. idle.texts = texts /\ idle.strippers = strippers /\ idle.tools = NoTools /\ idle.job = NoJob
  BY <1>6 DEF Holding
<1>8. texts \in [TextKinds -> Texts] /\ strippers \in [TextKinds -> StripperStates]
      /\ ToolsOK(NoTools) /\ NoJob \in Jobs
  BY <1>6, <1>7 DEF ProjectionOK
<1>9. PICK q : q = Holding("load", latest, texts, strippers, NoTools, NoJob) OBVIOUS
<1>10. ProjectionOK(q) BY <1>3, <1>5, <1>7, <1>8, <1>9, ProjectionIs
<1>11. proj' = [proj EXCEPT ![a] = q] BY <1>1, <1>2, <1>4, <1>9, StartIs, Zenon
<1>12. q.pc # "action" BY <1>9 DEF Holding
<1>13. UNCHANGED <<stream, rowVars>> /\ dropped' \in BOOLEAN /\ shared' \in BOOLEAN
       /\ crashes' \in 0 .. MaxCrashes
  BY <1>1 DEF Start, RowsOK
<1> QED BY <1>10, <1>11, <1>12, <1>13, ProjectionStep

\* A projection that ends without a row.
LEMMA EndKeepsRows ==
    ASSUME ProjectionInv, NEW a \in Apis, UNCHANGED <<stream, rowVars>>,
           dropped' \in BOOLEAN, shared' \in BOOLEAN, crashes' \in 0 .. MaxCrashes,
           proj' = [proj EXCEPT ![a] = IdleProjection]
    PROVE  ProjectionInv'
<1>1. PICK q : q = IdleProjection OBVIOUS
<1>2. stream \in Streams BY DEF ProjectionInv, RowsOK
<1>3. ProjectionOK(q) BY <1>1, <1>2, IdleOK
<1>4. q.pc # "action" BY <1>1 DEF IdleProjection
<1> QED BY <1>1, <1>3, <1>4, ProjectionStep

\* Load.
LEMMA LoadKeepsRows ==
    ASSUME ProjectionInv, NEW a \in Apis, Load(a)
    PROVE  ProjectionInv'
<1>1. RowsOK /\ ProjectionsOK BY DEF ProjectionInv
<1>2. UNCHANGED <<stream, rowVars>> /\ dropped' \in BOOLEAN /\ shared' \in BOOLEAN
      /\ crashes' \in 0 .. MaxCrashes
  BY <1>1 DEF Load, RowsOK
<1>3. CASE status # "running"
  <2>1. proj' = [proj EXCEPT ![a] = IdleProjection] BY <1>1, <1>3, LoadIs
  <2> QED BY <1>2, <2>1, EndKeepsRows
<1>4. CASE status = "running"
  <2>1. PICK texts : texts = [k \in TextKinds |-> PartText(k)] OBVIOUS
  <2>2. texts \in [TextKinds -> Texts]
    <3>1. <<>> \in Texts BY DEF Texts
    <3>2. \A o \in DOMAIN parts : parts[o].text \in Texts BY <1>1 DEF RowsOK, PartsOK, PartRows
    <3>3. \A k \in TextKinds : PartText(k) \in Texts BY <3>1, <3>2 DEF PartText
    <3> QED BY <2>1, <3>3
  <2>3. ToolsOK(LoadTools) BY <1>1, LoadToolsIs DEF RowsOK
  <2>4. PICK p : p = proj[a] OBVIOUS
  <2>5. p.pos \in 0 .. Len(stream) /\ p.strippers \in [TextKinds -> StripperStates] /\ p.job \in Jobs
    BY <2>4, ProjectionTyped
  <2>6. PICK q : q = Holding("read", p.pos, texts, p.strippers, LoadTools, p.job) OBVIOUS
  <2>7. ProjectionOK(q) BY <2>2, <2>3, <2>5, <2>6, ProjectionIs
  <2>8. proj' = [proj EXCEPT ![a] = q] BY <1>1, <1>4, <2>1, <2>4, <2>6, LoadIs, Zenon
  <2>9. q.pc # "action" BY <2>6 DEF Holding
  <2> QED BY <1>2, <2>7, <2>8, <2>9, ProjectionStep
<1> QED BY <1>3, <1>4

\* SkipRecorded.
LEMMA SkipRecordedKeepsRows ==
    ASSUME ProjectionInv, NEW a \in Apis, SkipRecorded(a)
    PROVE  ProjectionInv'
<1>1. RowsOK /\ ProjectionsOK BY DEF ProjectionInv
<1>2. UNCHANGED <<stream, rowVars>> /\ dropped' \in BOOLEAN /\ shared' \in BOOLEAN
      /\ crashes' \in 0 .. MaxCrashes
  BY <1>1 DEF SkipRecorded, RowsOK
<1>3. CASE Event(Current(a)).type = "action"
  <2>1. proj' = [proj EXCEPT ![a] = IdleProjection] BY <1>1, <1>3, SkipRecordedIs
  <2> QED BY <1>2, <2>1, EndKeepsRows
<1>4. CASE Event(Current(a)).type # "action"
  <2>1. PICK p : p = proj[a] OBVIOUS
  <2>2. PICK i : i = Current(a) OBVIOUS
  <2>3. i \in 0 .. Len(stream) BY <1>1, <2>2, ReadingIs DEF SkipRecorded
  <2>4. /\ p.texts \in [TextKinds -> Texts] /\ p.strippers \in [TextKinds -> StripperStates]
        /\ ToolsOK(p.tools) /\ p.job \in Jobs
    BY <2>1, ProjectionTyped
  <2>5. PICK q : q = Holding("read", i, p.texts, p.strippers, p.tools, p.job) OBVIOUS
  <2>6. ProjectionOK(q) BY <2>3, <2>4, <2>5, ProjectionIs
  <2>7. proj' = [proj EXCEPT ![a] = q] BY <1>1, <1>4, <2>1, <2>2, <2>5, SkipRecordedIs, Zenon
  <2>8. q.pc # "action" BY <2>5 DEF Holding
  <2> QED BY <1>2, <2>6, <2>7, <2>8, ProjectionStep
<1> QED BY <1>3, <1>4

\* What ReadText makes is texts and states of a stripper.
LEMMA ReadTextTyped ==
    ASSUME ProjectionInv, NEW a \in Apis, Reading(a, TextKinds),
           NEW kind, NEW result, NEW text, NEW texts, NEW strippers,
           TextRead(a, kind, result, text, texts, strippers)
    PROVE  /\ kind \in TextKinds /\ result.out \in Texts /\ result.st \in StripperStates /\ text \in Texts
           /\ texts \in [TextKinds -> Texts] /\ strippers \in [TextKinds -> StripperStates]
<1>1. RowsOK /\ ProjectionsOK BY DEF ProjectionInv
<1>2. PICK event : event = Event(Current(a)) OBVIOUS
<1>3. kind \in TextKinds /\ event \in Events BY <1>1, <1>2, ReadingIs, Zenon DEF TextRead
<1>4. PICK old, states : old = proj[a].texts /\ states = proj[a].strippers OBVIOUS
<1>5. old \in [TextKinds -> Texts] /\ states \in [TextKinds -> StripperStates]
  BY <1>4, ProjectionTyped
<1>6. event.text \in Texts BY <1>3, EventTextIs
<1>7. PICK st \in StripperStates : st = states[kind] BY <1>3, <1>5
<1>8. result \in Drained
  <2>1. result = Write(st, event.text) BY <1>2, <1>4, <1>7, Zenon DEF TextRead
  <2> QED BY <1>6, <2>1, WriteTyped, Zenon
<1>9. result.out \in Texts /\ result.st \in StripperStates BY <1>8 DEF Drained
<1>10. old[kind] \in Texts BY <1>3, <1>5
<1>11. text \in Texts
  <2>1. text = old[kind] \o result.out BY <1>4, Zenon DEF TextRead
  <2> QED BY <1>9, <1>10, <2>1, Joined
<1>12. [old EXCEPT ![kind] = text] \in [TextKinds -> Texts] BY <1>5, <1>11
<1>13. [states EXCEPT ![kind] = result.st] \in [TextKinds -> StripperStates] BY <1>5, <1>9
<1> QED BY <1>3, <1>4, <1>9, <1>11, <1>12, <1>13, Zenon DEF TextRead

\* ReadText.
LEMMA ReadTextKeepsRows ==
    ASSUME ProjectionInv, NEW a \in Apis, ReadText(a)
    PROVE  ProjectionInv'
<1>1. RowsOK /\ ProjectionsOK /\ Reading(a, TextKinds) BY DEF ProjectionInv, ReadText
<1>2. UNCHANGED <<stream, rowVars>> /\ dropped' \in BOOLEAN /\ shared' \in BOOLEAN
      /\ crashes' \in 0 .. MaxCrashes
  BY <1>1 DEF ReadText, RowsOK
<1>3. PICK kind, result, text, texts, strippers :
         /\ TextRead(a, kind, result, text, texts, strippers)
         /\ proj' = [proj EXCEPT ![a] =
              IF result.out = <<>>
              THEN Holding("read", Current(a), texts, strippers, proj[a].tools, proj[a].job)
              ELSE Holding("write", proj[a].pos, texts, strippers, proj[a].tools,
                           [step |-> "text", src |-> Src(Current(a), ""), key |-> <<kind, "">>,
                            order |-> getSinglePartOrder[kind], text |-> text, delta |-> result.out])]
  BY <1>1, ReadTextIs
<1>4. kind \in TextKinds /\ result.out \in Texts /\ text \in Texts
      /\ texts \in [TextKinds -> Texts] /\ strippers \in [TextKinds -> StripperStates]
  BY <1>1, <1>3, ReadTextTyped
<1>5. PICK p : p = proj[a] OBVIOUS
<1>6. PICK i : i = Current(a) OBVIOUS
<1>7. /\ p.pos \in Nat /\ i = p.pos + 1 /\ Published(i) /\ i \in 0 .. Len(stream)
      /\ kind = Event(i).type /\ i \in Nat
  <2>1. /\ proj[a].pos \in Nat /\ Current(a) = proj[a].pos + 1
        /\ Published(Current(a)) /\ Current(a) \in 0 .. Len(stream)
    BY <1>1, ReadingIs
  <2>2. kind = Event(Current(a)).type BY <1>3, Zenon DEF TextRead
  <2> QED BY <1>5, <1>6, <2>1, <2>2
<1>8. p.pos \in 0 .. Len(stream) /\ ToolsOK(p.tools) /\ p.job \in Jobs BY <1>5, ProjectionTyped
<1>9. CASE result.out = <<>>
  <2>1. PICK q : q = Holding("read", i, texts, strippers, p.tools, p.job) OBVIOUS
  <2>2. ProjectionOK(q) BY <1>4, <1>7, <1>8, <2>1, ProjectionIs
  <2>3. proj' = [proj EXCEPT ![a] = q] BY <1>3, <1>5, <1>6, <1>9, <2>1, Zenon
  <2>4. q.pc # "action" BY <2>1 DEF Holding
  <2> QED BY <1>2, <2>2, <2>3, <2>4, ProjectionStep
<1>10. CASE result.out # <<>>
  <2>1. PICK job : job = [step |-> "text", src |-> Src(i, ""), key |-> <<kind, "">>,
                          order |-> getSinglePartOrder[kind], text |-> text, delta |-> result.out]
    OBVIOUS
  <2>2. /\ job.step = "text" /\ job.src = Src(i, "") /\ job.key = <<kind, "">>
        /\ job.order = getSinglePartOrder[kind] /\ job.text = text /\ job.delta = result.out
    BY <2>1
  <2>3. job \in Jobs
    <3>1. Src(i, "") \in Sources BY <1>7 DEF Src, Sources, SourceSuffixes
    <3>2. getSinglePartOrder[kind] \in Nat BY <1>4 DEF getSinglePartOrder, TextKinds
    <3>3. <<kind, "">> \in TextKeys BY <1>4 DEF TextKeys
    <3> QED BY <1>4, <2>1, <3>1, <3>2, <3>3 DEF Jobs, Steps
  <2>4. PICK q : q = Holding("write", p.pos, texts, strippers, p.tools, job) OBVIOUS
  <2>5. q.pc = "write" /\ q.pos = p.pos /\ q.job = job BY <2>4 DEF Holding
  <2>6. JobOK(q)
    <3>1. kind \notin ToolEvents /\ kind # "action" BY <1>4 DEF TextKinds, ToolEvents, ToolKinds
    <3> QED BY <1>4, <1>7, <2>2, <2>5, <3>1 DEF JobOK
  <2>7. ProjectionOK(q) BY <1>4, <1>7, <1>8, <2>3, <2>4, <2>6, ProjectionIs
  <2>8. proj' = [proj EXCEPT ![a] = q] BY <1>3, <1>5, <1>6, <1>10, <2>1, <2>4, Zenon
  <2>9. q.pc # "action" BY <2>5
  <2> QED BY <1>2, <2>7, <2>8, <2>9, ProjectionStep
<1> QED BY <1>9, <1>10

-----------------------------------------------------------------------------
(* Texts of tool parts.                                                    *)

\* The delta of a snapshot that goes on is what it adds.
LEMMA DeltaOfIs ==
    ASSUME NEW current \in Texts, NEW t \in Texts
    PROVE  IsPrefix(current, current \o t) /\ DeltaOf(current, current \o t) = t
<1>1. PICK next : next = current \o t OBVIOUS
<1>2. next \in Texts /\ Len(next) = Len(current) + Len(t) /\ Len(current) \in Nat /\ Len(t) \in Nat
      /\ \A i \in 1 .. Len(current) : next[i] = current[i]
  BY <1>1, Joined
<1>3. PICK n : n = Len(current) OBVIOUS
<1>4. SubSeq(current, 1, n) = SubSeq(next, 1, n)
  BY <1>2, <1>3 DEF Texts
<1>5. IsPrefix(current, next) BY <1>2, <1>3, <1>4 DEF IsPrefix
<1>6. SubSeq(next, n + 1, Len(next)) = t
  <2>1. n \in 0 .. Len(current) BY <1>2, <1>3
  <2>2. From(next, n + 1) = From(current, n + 1) \o t BY <1>1, <2>1, FromJoined
  <2>3. From(current, n + 1) = <<>> BY <1>2, <1>3, SubSeqEmpty DEF From
  <2>4. <<>> \o t = t BY Joined
  <2> QED BY <2>2, <2>3, <2>4 DEF From
<1> QED BY <1>1, <1>3, <1>5, <1>6 DEF DeltaOf

\* The delta is a text, and with nothing before it is all of it.
LEMMA DeltaOfTyped ==
    ASSUME NEW current \in Texts, NEW next \in Texts
    PROVE  DeltaOf(current, next) \in Texts /\ (current = <<>> => DeltaOf(current, next) = next)
<1>1. SubSeq(next, Len(current) + 1, Len(next)) \in Texts BY DEF Texts
<1>2. DeltaOf(current, next) \in Texts BY <1>1 DEF DeltaOf
<1>3. ASSUME current = <<>> PROVE DeltaOf(current, next) = next
  <2>1. <<>> \o next = next /\ <<>> \in Texts BY Joined DEF Texts
  <2>2. DeltaOf(current, current \o next) = next BY DeltaOfIs
  <2> QED BY <1>3, <2>1, <2>2
<1> QED BY <1>2, <1>3

\* A text goes on from its beginning.
LEMMA PrefixGoesOn ==
    ASSUME NEW current \in Texts, NEW next \in Texts, IsPrefix(current, next)
    PROVE  \E t \in Texts : next = current \o t
<1>1. current \in Seq(Characters) /\ next \in Seq(Characters) BY DEF Texts
<1>2. PICK n \in Nat : n = Len(current) BY <1>1
<1>3. n <= Len(next) /\ SubSeq(current, 1, n) = SubSeq(next, 1, n) BY <1>2 DEF IsPrefix
<1>4. SubSeq(current, 1, n) = current BY <1>1, <1>2
<1>5. n \in 0 .. Len(next) BY <1>1, <1>2, <1>3
<1>6. SubSeq(next, 1, n) \o From(next, n + 1) = next BY <1>5, Beginnings
<1>7. From(next, n + 1) \in Texts BY <1>1, <1>2 DEF From, Texts
<1> QED BY <1>3, <1>4, <1>6, <1>7

\* A tool event's snapshot is a text, and all but a result go on from the text there is.
LEMMA NextToolTextIs ==
    ASSUME NEW current \in Texts, NEW event \in Events
    PROVE  /\ NextToolText(current, event) \in Texts
           /\ \/ NextToolText(current, event) = current \o DeltaOf(current, NextToolText(current, event))
              \/ /\ event.type = "result" /\ current # <<>>
                 /\ NextToolText(current, event) = DeltaOf(current, NextToolText(current, event))
<1>1. event.text \in Texts /\ <<>> \in Texts BY EventTextIs DEF Texts
<1>2. PICK next : next = NextToolText(current, event) OBVIOUS
<1>3. current \o event.text \in Texts BY <1>1, Joined
<1>4. next = event.text \/ next = current \/ next = current \o event.text BY <1>2 DEF NextToolText
<1>5. next \in Texts BY <1>1, <1>3, <1>4
<1>6. CASE current = <<>>
  <2>1. DeltaOf(current, next) = next BY <1>5, <1>6, DeltaOfTyped
  <2>2. <<>> \o next = next BY <1>1, <1>5, Joined
  <2> QED BY <1>2, <1>5, <1>6, <2>1, <2>2
<1>7. CASE event.type # "result" /\ current # <<>>
  <2>1. next = current \/ next = current \o event.text BY <1>2, <1>7 DEF NextToolText
  <2>2. current \o <<>> = current BY <1>1, Joined
  <2>3. PICK t \in Texts : next = current \o t BY <1>1, <2>1, <2>2
  <2>4. DeltaOf(current, next) = t BY <2>3, DeltaOfIs
  <2> QED BY <1>2, <1>5, <2>3, <2>4
<1>8. CASE event.type = "result" /\ current # <<>>
  <2>1. CASE IsPrefix(current, next)
    <3>1. PICK t \in Texts : next = current \o t BY <1>5, <2>1, PrefixGoesOn
    <3>2. DeltaOf(current, next) = t BY <3>1, DeltaOfIs
    <3> QED BY <1>2, <1>5, <3>1, <3>2
  <2>2. CASE ~IsPrefix(current, next)
    <3>1. DeltaOf(current, next) = next BY <2>2 DEF DeltaOf
    <3> QED BY <1>2, <1>5, <1>8, <3>1
  <2> QED BY <2>1, <2>2
<1> QED BY <1>6, <1>7, <1>8

-----------------------------------------------------------------------------
(* The steps that read the outcome or a tool event.                        *)

\* The key of a tool event.
LEMMA ToolKeyIs ==
    ASSUME NEW event \in Events
    PROVE  ToolKey(event) \in ToolKeys
<1>1. event.call \in STRING BY DEF Events
<1> QED BY <1>1 DEF ToolKey, ToolKeys, ToolKinds

\* ReadTool.
LEMMA ReadToolKeepsRows ==
    ASSUME ProjectionInv, NEW a \in Apis, ReadTool(a)
    PROVE  ProjectionInv'
<1>1. RowsOK /\ ProjectionsOK /\ Reading(a, ToolEvents) BY DEF ProjectionInv, ReadTool
<1>2. UNCHANGED <<stream, rowVars>> /\ dropped' \in BOOLEAN /\ shared' \in BOOLEAN
      /\ crashes' \in 0 .. MaxCrashes
  BY <1>1 DEF ReadTool, RowsOK
<1>3. PICK p : p = proj[a] OBVIOUS
<1>4. PICK i : i = Current(a) OBVIOUS
<1>5. PICK event, key, tools, entry, text, job :
         /\ ToolRead(a, event, key, tools, entry, text, job)
         /\ proj' = [proj EXCEPT ![a] =
              Holding("write", proj[a].pos, proj[a].texts, proj[a].strippers, tools, job)]
  BY <1>1, ReadToolIs
<1>6. /\ p.pos \in Nat /\ i = p.pos + 1 /\ Published(i) /\ i \in 0 .. Len(stream)
      /\ i \in Nat /\ event \in Events /\ event.type \in ToolEvents /\ Event(i) = event
  <2>1. /\ proj[a].pos \in Nat /\ Current(a) = proj[a].pos + 1
        /\ Published(Current(a)) /\ Current(a) \in 0 .. Len(stream)
        /\ Event(Current(a)) \in Events /\ Event(Current(a)).type \in ToolEvents
    BY <1>1, ReadingIs
  <2>2. event = Event(Current(a)) BY <1>5 DEF ToolRead
  <2> QED BY <1>3, <1>4, <2>1, <2>2
<1>7. key = ToolKey(event) BY <1>5 DEF ToolRead
<1>8. key \in ToolKeys BY <1>6, <1>7, ToolKeyIs
<1>9. tools = GetOrCreateEntry(p.tools, key) BY <1>3, <1>5 DEF ToolRead
<1>10. /\ p.pos \in 0 .. Len(stream) /\ p.texts \in [TextKinds -> Texts]
       /\ p.strippers \in [TextKinds -> StripperStates] /\ ToolsOK(p.tools)
  BY <1>3, ProjectionTyped
<1>11. ToolsOK(tools) /\ key \in DOMAIN tools.entries
  BY <1>8, <1>9, <1>10, GetOrCreateEntryIs DEF ToolsHave
<1>12. entry = tools.entries[key] BY <1>5 DEF ToolRead
<1>13. entry.order \in Nat /\ entry.text \in Texts BY <1>11, <1>12 DEF ToolsOK
<1>14. text = NextToolText(entry.text, event) BY <1>5 DEF ToolRead
<1>15. text \in Texts BY <1>6, <1>13, <1>14, NextToolTextIs
<1>16. PICK delta : delta = DeltaOf(entry.text, text) OBVIOUS
<1>17. delta \in Texts BY <1>13, <1>15, <1>16, DeltaOfTyped
<1>18. PICK src : src = Src(i, IF event.type = "action" THEN "tool" ELSE "") OBVIOUS
<1>19. src \in Sources BY <1>6, <1>18 DEF Src, Sources, SourceSuffixes
<1>20. job = [step |-> event.type, key |-> key, order |-> entry.order, text |-> text,
              src |-> src, delta |-> delta]
  BY <1>4, <1>5, <1>16, <1>18 DEF ToolRead
<1>21. job \in Jobs BY <1>6, <1>8, <1>13, <1>15, <1>17, <1>19, <1>20 DEF Jobs, Steps
<1>22. PICK q : q = Holding("write", p.pos, p.texts, p.strippers, tools, job) OBVIOUS
<1>23. q.pos = p.pos /\ q.tools = tools /\ q.job = job /\ q.pc = "write" BY <1>22 DEF Holding
<1>24. JobOK(q)
  <2>1. /\ job.step = event.type /\ job.key = key /\ job.order = entry.order /\ job.src = src
    BY <1>20
  <2>2. event.type \notin TextKinds BY <1>6 DEF ToolEvents, ToolKinds, TextKinds
  <2> QED BY <1>6, <1>7, <1>11, <1>12, <1>18, <1>23, <2>1, <2>2 DEF JobOK
<1>25. ProjectionOK(q) BY <1>6, <1>10, <1>11, <1>21, <1>22, <1>24, ProjectionIs
<1>26. proj' = [proj EXCEPT ![a] = q] BY <1>3, <1>5, <1>22, Zenon
<1> QED BY <1>2, <1>23, <1>25, <1>26, ProjectionStep

\* What ReadCompleted makes is texts and states of a stripper.
LEMMA ReadCompletedTyped ==
    ASSUME ProjectionInv, NEW a \in Apis, NEW k \in TextKinds
    PROVE  /\ Flush(proj[a].strippers[k]).out \in Texts
           /\ proj[a].texts[k] \o Flush(proj[a].strippers[k]).out \in Texts
           /\ [buffer |-> Flush(proj[a].strippers[k]).out, inside |-> FALSE] \in StripperStates
<1>1. PICK st, text : st = proj[a].strippers[k] /\ text = proj[a].texts[k] OBVIOUS
<1>2. st \in StripperStates /\ text \in Texts BY <1>1, ProjectionTyped
<1>3. <<>> \in Texts BY DEF Texts
<1>4. Flush(st) \in Drained BY <1>2, <1>3, WriteTyped
<1>5. PICK out \in Texts : out = Flush(st).out BY <1>4 DEF Drained
<1>6. text \o out \in Texts BY <1>2, <1>5, Joined
<1>7. [buffer |-> out, inside |-> FALSE] \in StripperStates BY <1>5 DEF StripperStates
<1> QED BY <1>1, <1>5, <1>6, <1>7

\* ReadCompleted.
LEMMA ReadCompletedKeepsRows ==
    ASSUME ProjectionInv, NEW a \in Apis, ReadCompleted(a)
    PROVE  ProjectionInv'
<1>1. RowsOK /\ ProjectionsOK /\ Reading(a, {"completed"}) BY DEF ProjectionInv, ReadCompleted
<1>2. UNCHANGED <<stream, rowVars>> /\ dropped' \in BOOLEAN /\ shared' \in BOOLEAN
      /\ crashes' \in 0 .. MaxCrashes
  BY <1>1 DEF ReadCompleted, RowsOK
<1>3. CASE HasSourceEvent(Src(Current(a), "message"))
  <2>1. proj' = [proj EXCEPT ![a] = IdleProjection] BY <1>1, <1>3, ReadCompletedIs
  <2> QED BY <1>2, <2>1, EndKeepsRows
<1>4. CASE ~HasSourceEvent(Src(Current(a), "message"))
  <2>1. PICK p : p = proj[a] OBVIOUS
  <2>2. PICK texts, strippers :
           /\ texts = [k \in TextKinds |-> proj[a].texts[k] \o Flush(proj[a].strippers[k]).out]
           /\ strippers = [k \in TextKinds |-> [buffer |-> Flush(proj[a].strippers[k]).out, inside |-> FALSE]]
    OBVIOUS
  <2>3. texts \in [TextKinds -> Texts] /\ strippers \in [TextKinds -> StripperStates]
    BY <2>2, ReadCompletedTyped
  <2>4. Published(p.pos + 1) /\ Event(p.pos + 1).type = "completed"
    <3>1. /\ Current(a) = proj[a].pos + 1 /\ Published(Current(a)) /\ Event(Current(a)).type = "completed"
      BY <1>1, ReadingIs
    <3> QED BY <2>1, <3>1
  <2>5. p.pos \in 0 .. Len(stream) /\ ToolsOK(p.tools) /\ p.job \in Jobs BY <2>1, ProjectionTyped
  <2>6. PICK q : q = Holding("complete", p.pos, texts, strippers, p.tools, p.job) OBVIOUS
  <2>7. ProjectionOK(q) BY <2>3, <2>4, <2>5, <2>6, ProjectionIs
  <2>8. proj' = [proj EXCEPT ![a] = q] BY <1>1, <1>4, <2>1, <2>2, <2>6, ReadCompletedIs, Zenon
  <2>9. q.pc # "action" BY <2>6 DEF Holding
  <2> QED BY <1>2, <2>7, <2>8, <2>9, ProjectionStep
<1> QED BY <1>3, <1>4

\* Crash.
LEMMA CrashKeepsRows ==
    ASSUME ProjectionInv, NEW a \in Apis, Crash(a)
    PROVE  ProjectionInv'
<1>1. UNCHANGED <<stream, rowVars>> /\ dropped' \in BOOLEAN /\ shared' \in BOOLEAN
      /\ proj' = [proj EXCEPT ![a] = IdleProjection]
  BY DEF Crash, EndProjection, ProjectionInv, RowsOK
<1>2. crashes' \in 0 .. MaxCrashes BY StreamsAssumption DEF Crash, ProjectionInv, RowsOK
<1> QED BY <1>1, <1>2, EndKeepsRows

-----------------------------------------------------------------------------
(* The rows and the projections through the steps that write rows.         *)

\* A part is put in its place.
LEMMA PartPut ==
    ASSUME PartsOK, NEW order \in Nat, NEW key \in TextKeys \cup ToolKeys, NEW text \in Texts,
           OrderOf(order, key), Upsert(order, key, text)
    PROVE  /\ PartsOK' /\ DOMAIN parts' = DOMAIN parts \cup {order}
           /\ parts'[order] = [key |-> key, text |-> text]
           /\ \A o \in DOMAIN parts : o # order => parts'[o] = parts[o]
<1>1. DOMAIN parts' = DOMAIN parts \cup {order} BY DEF Upsert
<1>2. parts'[order] = [key |-> key, text |-> text] BY DEF Upsert
<1>3. \A o \in DOMAIN parts : o # order => parts'[o] = parts[o] BY DEF Upsert
<1>4. IsFiniteSet(DOMAIN parts') /\ DOMAIN parts' \subseteq Nat BY <1>1, FS_AddElement DEF PartsOK
<1>5. \A o \in DOMAIN parts' : parts'[o] \in PartRows /\ OrderOf(o, parts'[o].key)
  <2>1. [key |-> key, text |-> text] \in PartRows BY DEF PartRows
  <2>2. \A o \in DOMAIN parts : parts[o] \in PartRows /\ OrderOf(o, parts[o].key) BY DEF PartsOK
  <2> QED BY <1>1, <1>2, <1>3, <2>1, <2>2
<1>6. parts' \in [DOMAIN parts' -> PartRows]
  <2>1. parts' = [o \in DOMAIN parts' |-> parts'[o]] BY <1>1 DEF Upsert
  <2> QED BY <1>5, <2>1
<1>7. PartsOK' BY <1>4, <1>5, <1>6 DEF PartsOK, OrderOf
<1> QED BY <1>1, <1>2, <1>3, <1>7

\* A source has its position and its suffix.
LEMMA SrcIs ==
    ASSUME NEW src, NEW i, NEW suffix, src = Src(i, suffix)
    PROVE  src[1] = i /\ src[2] = suffix
BY DEF Src

\* A source more is recorded.
LEMMA RecordedAppended ==
    ASSUME log \in Seq(LogEntries), NEW e \in LogEntries, log' = Append(log, e)
    PROVE  /\ \A src : HasSourceEvent(src)' <=> HasSourceEvent(src) \/ src = e.src
           /\ \A i : Recorded(i)' <=> Recorded(i) \/ e.src = Src(i, "")
           /\ log' \in Seq(LogEntries)
<1>1. PICK l : l = log' OBVIOUS
<1>2. /\ l \in Seq(LogEntries) /\ DOMAIN l = DOMAIN log \cup {Len(log) + 1}
      /\ l[Len(log) + 1] = e /\ \A n \in DOMAIN log : l[n] = log[n]
  BY <1>1, Appended
<1>3. ASSUME NEW src PROVE HasSourceEvent(src)' <=> HasSourceEvent(src) \/ src = e.src
  <2>1. HasSourceEvent(src)' <=> \E n \in DOMAIN l : l[n].src = src BY <1>1 DEF HasSourceEvent
  <2>2. (\E n \in DOMAIN l : l[n].src = src) <=> (\E n \in DOMAIN log : log[n].src = src) \/ e.src = src
    BY <1>2
  <2> QED BY <2>1, <2>2 DEF HasSourceEvent
<1>4. \A i : Recorded(i)' <=> Recorded(i) \/ e.src = Src(i, "") BY <1>3 DEF Recorded
<1> QED BY <1>1, <1>2, <1>3, <1>4

\* What an entry more leaves of the sources.
LEMMA SourcesAppended ==
    ASSUME SourcesOK, log \in Seq(LogEntries), NEW e \in LogEntries, log' = Append(log, e),
           stream' = stream,
           e.src # NoSrc => e.src[1] \in DOMAIN stream,
           e.src[2] # "" => Event(e.src[1]).type = IF e.src[2] = "tool" THEN "action" ELSE "completed"
    PROVE  SourcesOK'
<1>1. PICK l : l = log' OBVIOUS
<1>2. /\ DOMAIN l = DOMAIN log \cup {Len(log) + 1}
      /\ l[Len(log) + 1] = e /\ \A n \in DOMAIN log : l[n] = log[n]
  BY <1>1, Appended
<1>3. \A n \in DOMAIN l :
         /\ l[n].src # NoSrc => l[n].src[1] \in DOMAIN stream
         /\ l[n].src[2] # "" =>
               Event(l[n].src[1]).type = IF l[n].src[2] = "tool" THEN "action" ELSE "completed"
  BY <1>2 DEF SourcesOK
<1> QED BY <1>1, <1>3 DEF SourcesOK, Event

\* The text of an entry in memory is replaced.
LEMMA ToolTextSet ==
    ASSUME NEW tools, ToolsOK(tools), NEW key \in DOMAIN tools.entries, NEW text \in Texts,
           NEW r, r = TextSet(tools, key, text)
    PROVE  /\ ToolsOK(r) /\ r.used = tools.used /\ DOMAIN r.entries = DOMAIN tools.entries
           /\ \A k \in DOMAIN tools.entries :
                 /\ r.entries[k].order = tools.entries[k].order
                 /\ r.entries[k].text = IF k = key THEN text ELSE tools.entries[k].text
<1>1. PICK old, used, next : old = tools.entries /\ used = tools.used /\ next = tools.next OBVIOUS
<1>2. tools = [entries |-> old, used |-> used, next |-> next] BY <1>1 DEF ToolsOK
<1>3. PICK entries : entries = [old EXCEPT ![key].text = text] OBVIOUS
<1>4. r = [entries |-> entries, used |-> used, next |-> next] BY <1>1, <1>2, <1>3 DEF TextSet
<1>5. r.entries = entries /\ r.used = used /\ r.next = next BY <1>4
<1>11. r = [entries |-> r.entries, used |-> r.used, next |-> r.next] BY <1>4, <1>5
<1>6. old \in [DOMAIN old -> [order : Nat, text : Texts]] BY <1>1 DEF ToolsOK
<1>7. DOMAIN entries = DOMAIN old BY <1>3
<1>8. \A k \in DOMAIN old : /\ entries[k].order = old[k].order
                            /\ entries[k].text = IF k = key THEN text ELSE old[k].text
                            /\ entries[k] \in [order : Nat, text : Texts]
  BY <1>1, <1>3, <1>6
<1>9. entries \in [DOMAIN entries -> [order : Nat, text : Texts]] BY <1>3, <1>7, <1>8
<1>10. ToolsOK(r)
  <2>1. /\ IsFiniteSet(used) /\ used \subseteq Nat /\ next \in Nat /\ next >= ToolPartOrderStart
        /\ DOMAIN old \subseteq ToolKeys
    BY <1>1 DEF ToolsOK
  <2>2. \A k \in DOMAIN old : old[k].order \in used /\ old[k].order >= ToolPartOrderStart
    BY <1>1 DEF ToolsOK
  <2>3. \A k, other \in DOMAIN old : old[k].order = old[other].order => k = other
    BY <1>1 DEF ToolsOK
  <2> QED BY <1>5, <1>7, <1>8, <1>9, <1>11, <2>1, <2>2, <2>3 DEF ToolsOK
<1> QED BY <1>1, <1>5, <1>7, <1>8, <1>10

-----------------------------------------------------------------------------
(* The transactions keep the rows.                                         *)

\* As many client actions are recorded as before.
LEMMA ActionsCountedStay ==
    ASSUME ActionsCounted, UNCHANGED <<stream, status, answered>>,
           \A i \in Actions : Recorded(i)' <=> Recorded(i)
    PROVE  ActionsCounted' /\ RecordedActions' = RecordedActions
<1>1. Actions' = Actions BY DEF Actions, Event
<1>2. RecordedActions' = RecordedActions BY <1>1 DEF RecordedActions
<1> QED BY <1>2 DEF ActionsCounted

\* What is written is for the event it was made of.
LEMMA JobIs ==
    ASSUME ProjectionInv, NEW a \in Apis, proj[a].pc = "write", NEW job, job = proj[a].job
    PROVE  /\ Current(a) = proj[a].pos + 1 /\ Current(a) \in DOMAIN stream /\ Current(a) \in Nat
           /\ Current(a) \in 0 .. Len(stream) /\ Published(Current(a))
           /\ Event(Current(a)) \in Events /\ Event(Current(a)).type \in TextKinds \cup ToolEvents
           /\ job \in Jobs /\ job.key \in TextKeys \cup ToolKeys /\ OrderOf(job.order, job.key)
           /\ job.src = Src(Current(a), IF Event(Current(a)).type = "action" THEN "tool" ELSE "")
           /\ Event(Current(a)).type \in TextKinds =>
                 /\ job.step = "text" /\ job.key = <<Event(Current(a)).type, "">>
                 /\ job.order = getSinglePartOrder[Event(Current(a)).type]
           /\ Event(Current(a)).type \in ToolEvents =>
                 /\ job.step = Event(Current(a)).type /\ job.step # "text"
                 /\ job.key = ToolKey(Event(Current(a))) /\ job.key \in ToolKeys
                 /\ job.order >= ToolPartOrderStart
                 /\ job.key \in DOMAIN proj[a].tools.entries
                 /\ job.order = proj[a].tools.entries[job.key].order
<1>1. PICK p : p = proj[a] OBVIOUS
<1>2. PICK i : i = Current(a) OBVIOUS
<1>3. i = p.pos + 1 BY <1>1, <1>2 DEF Current
<1>4. p.pos \in 0 .. Len(stream) /\ ToolsOK(p.tools) /\ ProjectionOK(p) BY <1>1, ProjectionTyped
<1>5. p.pc = "write" /\ job = p.job BY <1>1
<1>6. JobOK(p) /\ Published(i) /\ job \in Jobs BY <1>3, <1>4, <1>5 DEF ProjectionOK
<1>7. stream \in Streams BY DEF ProjectionInv, RowsOK
<1>8. i \in DOMAIN stream BY <1>6 DEF Published
<1>9. i \in Nat /\ i \in 0 .. Len(stream) /\ Event(i) \in Events BY <1>7, <1>8, StreamIs
<1>10. PICK event : event = Event(i) OBVIOUS
<1>11. /\ event.type \in TextKinds \cup ToolEvents
       /\ job.src = Src(i, IF event.type = "action" THEN "tool" ELSE "")
       /\ event.type \in TextKinds =>
             /\ job.step = "text" /\ job.key = <<event.type, "">>
             /\ job.order = getSinglePartOrder[event.type]
       /\ event.type \in ToolEvents =>
             /\ job.step = event.type /\ job.key = ToolKey(event)
             /\ job.key \in DOMAIN p.tools.entries
             /\ job.order = p.tools.entries[job.key].order
  BY <1>3, <1>5, <1>6, <1>10 DEF JobOK
<1>12. CASE event.type \in TextKinds
  <2>1. event.type \notin ToolEvents BY <1>12 DEF TextKinds, ToolEvents, ToolKinds
  <2>2. job.key \in TextKeys /\ job.key[1] = event.type
    <3>1. PICK kind \in TextKinds : kind = event.type BY <1>12
    <3>2. <<kind, "">> \in TextKeys /\ <<kind, "">>[1] = kind BY DEF TextKeys
    <3>3. job.key = <<kind, "">> BY <1>11, <1>12, <3>1
    <3> QED BY <3>1, <3>2, <3>3
  <2>3. OrderOf(job.order, job.key) BY <1>11, <1>12, <2>2 DEF OrderOf
  <2> QED BY <1>1, <1>2, <1>3, <1>6, <1>8, <1>9, <1>10, <1>11, <2>1, <2>2, <2>3
<1>13. CASE event.type \in ToolEvents
  <2>1. event.type \notin TextKinds /\ event.type # "text"
    BY <1>13 DEF TextKinds, ToolEvents, ToolKinds
  <2>2. job.key \in ToolKeys BY <1>9, <1>10, <1>11, <1>13, ToolKeyIs
  <2>3. job.order >= ToolPartOrderStart BY <1>4, <1>11, <1>13 DEF ToolsOK
  <2>4. job.key[1] \notin TextKinds BY <2>2 DEF ToolKeys, ToolKinds, TextKinds
  <2>5. OrderOf(job.order, job.key) BY <2>3, <2>4 DEF OrderOf
  <2> QED BY <1>1, <1>2, <1>3, <1>6, <1>8, <1>9, <1>10, <1>11, <1>13, <2>1, <2>2, <2>3, <2>5
<1> QED BY <1>11, <1>12, <1>13

\* What is committed, if anything is.
Committed(a, job) ==
    /\ Upsert(job.order, job.key, job.text)
    /\ content' = IF job.key[1] = "text" THEN job.text ELSE content
    /\ log' = Append(log, Entry(job.src, job.order, job.delta))

\* An entry of a job.
LEMMA JobEntryIs ==
    ASSUME NEW job \in Jobs, NEW e, e = Entry(job.src, job.order, job.delta)
    PROVE  e \in LogEntries /\ e.src = job.src /\ e.order = job.order /\ e.delta = job.delta
<1>1. job.src \in Sources /\ job.order \in Nat /\ job.delta \in Texts BY DEF Jobs
<1>2. e = [src |-> job.src, order |-> job.order, delta |-> job.delta] BY DEF Entry
<1> QED BY <1>1, <1>2 DEF LogEntries

\* The memory of a projection that has written.
LEMMA WritePartTyped ==
    ASSUME ProjectionInv, NEW a \in Apis, proj[a].pc = "write", NEW job, NEW tools,
           PartWritten(a, job, tools)
    PROVE  ToolsOK(tools)
<1>1. PICK old : old = proj[a].tools OBVIOUS
<1>2. ToolsOK(old) BY <1>1, ProjectionTyped
<1>3. CASE job.step = "text" \/ HasSourceEvent(job.src)
  <2>1. tools = old BY <1>1, <1>3 DEF PartWritten
  <2> QED BY <1>2, <2>1
<1>5. job = proj[a].job BY DEF PartWritten
<1>4. CASE ~(job.step = "text" \/ HasSourceEvent(job.src))
  <2>1. job.key \in DOMAIN old.entries /\ job \in Jobs
    <3>1. /\ Event(Current(a)).type \in TextKinds \cup ToolEvents /\ job \in Jobs
          /\ Event(Current(a)).type \in TextKinds => job.step = "text"
          /\ Event(Current(a)).type \in ToolEvents => job.key \in DOMAIN proj[a].tools.entries
      BY <1>5, JobIs
    <3> QED BY <1>1, <1>4, <3>1
  <2>2. PICK key, text : key = job.key /\ text = job.text OBVIOUS
  <2>3. key \in DOMAIN old.entries /\ text \in Texts BY <2>1, <2>2 DEF Jobs
  <2>4. tools = TextSet(old, key, text) BY <1>1, <1>4, <2>2 DEF PartWritten
  <2> QED BY <1>2, <2>3, <2>4, ToolTextSet
<1> QED BY <1>3, <1>4

\* WritePart, of what is committed.
LEMMA CommitKeepsRows ==
    ASSUME ProjectionInv, NEW a \in Apis, proj[a].pc = "write", NEW job, job = proj[a].job,
           Committed(a, job), status = "running",
           UNCHANGED <<stream, status, answered, crashes, dropped, shared>>
    PROVE  /\ RowsOK' /\ SourcesOK' /\ ActionsCounted' /\ DOMAIN parts \subseteq DOMAIN parts'
           /\ \A n \in DOMAIN log' : log'[n].src[2] = "tool" => ToolPartThere'
           /\ job.step = "action" => ToolPartThere'
<1>1. PICK i : i = Current(a) OBVIOUS
<1>2. PICK event : event = Event(i) OBVIOUS
<1>3. /\ i \in DOMAIN stream /\ i \in Nat /\ event.type \in TextKinds \cup ToolEvents
      /\ job \in Jobs /\ job.key \in TextKeys \cup ToolKeys /\ OrderOf(job.order, job.key)
      /\ job.src = Src(i, IF event.type = "action" THEN "tool" ELSE "")
      /\ event.type \in TextKinds => job.step = "text"
      /\ event.type \in ToolEvents => job.step = event.type /\ job.order >= ToolPartOrderStart
  BY <1>1, <1>2, JobIs
<1>4. PICK e : e = Entry(job.src, job.order, job.delta) OBVIOUS
<1>5. e \in LogEntries /\ e.src = job.src BY <1>3, <1>4, JobEntryIs
<1>6. log' = Append(log, e) /\ log \in Seq(LogEntries)
  BY <1>4 DEF Committed, ProjectionInv, RowsOK
<1>7. PartsOK' /\ DOMAIN parts' = DOMAIN parts \cup {job.order}
  <2>1. PICK order, key, text : order = job.order /\ key = job.key /\ text = job.text OBVIOUS
  <2>2. order \in Nat /\ text \in Texts BY <1>3, <2>1 DEF Jobs
  <2>3. PartsOK BY DEF ProjectionInv, RowsOK
  <2>4. Upsert(order, key, text) BY <2>1 DEF Committed
  <2> QED BY <1>3, <2>1, <2>2, <2>3, <2>4, PartPut
<1>8. log' \in Seq(LogEntries) /\ \A j : Recorded(j)' <=> Recorded(j) \/ e.src = Src(j, "")
  BY <1>5, <1>6, RecordedAppended
<1>9. RowsOK' BY <1>7, <1>8 DEF ProjectionInv, RowsOK
<1>10. e.src[1] = i /\ e.src[2] = IF event.type = "action" THEN "tool" ELSE ""

  <2>1. PICK suffix : suffix = IF event.type = "action" THEN "tool" ELSE "" OBVIOUS
  <2>2. e.src = Src(i, suffix) BY <1>3, <1>5, <2>1
  <2> QED BY <2>1, <2>2, SrcIs
<1>11. SourcesOK'
  <2>1. e.src # NoSrc => e.src[1] \in DOMAIN stream BY <1>3, <1>10
  <2>2. e.src[2] # "" => e.src[2] = "tool" /\ event.type = "action" BY <1>10
  <2>3. e.src[2] # "" => Event(e.src[1]).type = IF e.src[2] = "tool" THEN "action" ELSE "completed"
    BY <1>2, <1>10, <2>2
  <2> QED BY <1>5, <1>6, <2>1, <2>3, SourcesAppended DEF ProjectionInv
<1>12. ASSUME NEW j \in Actions PROVE Recorded(j)' <=> Recorded(j)
  <2>1. SUFFICES ASSUME e.src = Src(j, "") PROVE FALSE BY <1>8
  <2>2. i = j /\ event.type # "action" 
    <3>1. e.src[1] = j /\ e.src[2] = "" BY <2>1, SrcIs
    <3> QED BY <1>10, <3>1
  <2> QED BY <1>2, <2>2 DEF Actions
<1>13. ActionsCounted' BY <1>12, ActionsCountedStay DEF ProjectionInv
<1>14. ToolPartThere => ToolPartThere' BY <1>7 DEF ToolPartThere
<1>15. event.type = "action" => ToolPartThere'
  <2>1. event.type = "action" => event.type \in ToolEvents BY DEF ToolEvents
  <2> QED BY <1>3, <1>7, <2>1 DEF ToolPartThere
<1>16. ASSUME NEW n \in DOMAIN log', log'[n].src[2] = "tool" PROVE ToolPartThere'
  <2>1. PICK l : l = log' OBVIOUS
  <2>2. /\ DOMAIN l = DOMAIN log \cup {Len(log) + 1} /\ l[Len(log) + 1] = e
        /\ \A k \in DOMAIN log : l[k] = log[k]
    BY <1>5, <1>6, <2>1, Appended
  <2>3. CASE n \in DOMAIN log
    <3>1. log[n].src[2] = "tool" BY <1>16, <2>1, <2>2, <2>3
    <3>2. ToolPartThere BY <2>3, <3>1 DEF ProjectionInv, ActionsHaveParts
    <3> QED BY <1>14, <3>2
  <2>4. CASE n = Len(log) + 1
    <3>1. e.src[2] = "tool" BY <1>16, <2>1, <2>2, <2>4
    <3> QED BY <1>10, <1>15, <3>1
  <2> QED BY <1>16, <2>1, <2>2, <2>3, <2>4
<1>17. job.step = "action" => event.type = "action" BY <1>3
<1> QED BY <1>7, <1>9, <1>11, <1>13, <1>15, <1>16, <1>17

\* WritePart.
LEMMA WritePartKeepsRows ==
    ASSUME ProjectionInv, NEW a \in Apis, WritePart(a)
    PROVE  ProjectionInv'
<1>1. RowsOK /\ ProjectionsOK /\ proj[a].pc = "write" BY DEF ProjectionInv, WritePart
<1>2. UNCHANGED <<stream, status, answered, crashes, dropped, shared>> BY DEF WritePart
<1>3. PICK job, tools :
         /\ PartWritten(a, job, tools)
         /\ proj' = [proj EXCEPT ![a] =
               IF job.step = "action"
               THEN Holding("action", proj[a].pos, proj[a].texts, proj[a].strippers, tools, job)
               ELSE Holding("read", Current(a), proj[a].texts, proj[a].strippers, tools, job)]
  BY <1>1, WritePartIs
<1>16. job = proj[a].job BY <1>3 DEF PartWritten
<1>4. PICK p : p = proj[a] OBVIOUS
<1>5. PICK i : i = Current(a) OBVIOUS
<1>6. /\ i = p.pos + 1 /\ i \in 0 .. Len(stream) /\ Published(i) /\ job \in Jobs
      /\ job.step = "action" => Event(i).type = "action" /\ job.src[2] = "tool"
  <2>1. PICK event : event = Event(i) OBVIOUS
  <2>2. /\ i = p.pos + 1 /\ i \in 0 .. Len(stream) /\ Published(i) /\ job \in Jobs
        /\ event.type \in TextKinds \cup ToolEvents
        /\ job.src = Src(i, IF event.type = "action" THEN "tool" ELSE "")
        /\ event.type \in TextKinds => job.step = "text"
        /\ event.type \in ToolEvents => job.step = event.type
    BY <1>1, <1>4, <1>5, <1>16, <2>1, JobIs
  <2>3. ASSUME job.step = "action" PROVE event.type = "action" /\ job.src[2] = "tool"
    <3>1. event.type = "action" BY <2>2, <2>3
    <3>2. job.src = Src(i, "tool") BY <2>2, <3>1
    <3> QED BY <3>1, <3>2, SrcIs
  <2> QED BY <2>1, <2>2, <2>3
<1>7. ToolsOK(tools) BY <1>1, <1>3, WritePartTyped
<1>8. /\ p.pos \in 0 .. Len(stream) /\ p.texts \in [TextKinds -> Texts]
      /\ p.strippers \in [TextKinds -> StripperStates]
  BY <1>4, ProjectionTyped
<1>9. PICK q : q = IF job.step = "action" THEN Holding("action", p.pos, p.texts, p.strippers, tools, job)
                   ELSE Holding("read", i, p.texts, p.strippers, tools, job)
  OBVIOUS
<1>10. ProjectionOK(q)
  <2>1. CASE job.step = "action"
    <3>1. ProjectionOK(Holding("action", p.pos, p.texts, p.strippers, tools, job))
      BY <1>6, <1>7, <1>8, <2>1, ProjectionIs
    <3> QED BY <1>9, <2>1, <3>1
  <2>2. CASE job.step # "action"
    <3>1. ProjectionOK(Holding("read", i, p.texts, p.strippers, tools, job))
      BY <1>6, <1>7, <1>8, ProjectionIs
    <3> QED BY <1>9, <2>2, <3>1
  <2> QED BY <2>1, <2>2
<1>11. q.pc = IF job.step = "action" THEN "action" ELSE "read" BY <1>9 DEF Holding
<1>12. proj' = [proj EXCEPT ![a] = q] BY <1>3, <1>4, <1>5, <1>9, Zenon
<1>13. ProjectionsOK' /\ proj'[a] = q /\ \A b \in Apis : b # a => proj'[b] = proj[b]
  BY <1>1, <1>2, <1>10, <1>12, ProjectionMoves
<1>14. CASE status = "running" /\ ~HasSourceEvent(job.src)
  <2>1. Committed(a, job) BY <1>14, <1>16 DEF WritePart, Committed
  <2>2. /\ RowsOK' /\ SourcesOK' /\ ActionsCounted' /\ DOMAIN parts \subseteq DOMAIN parts'
        /\ \A n \in DOMAIN log' : log'[n].src[2] = "tool" => ToolPartThere'
        /\ job.step = "action" => ToolPartThere'
    BY <1>1, <1>2, <1>14, <1>16, <2>1, CommitKeepsRows
  <2>3. ActionsHaveParts'
    <3>1. status' # "requires_action" BY <1>2, <1>14
    <3>2. ASSUME NEW b \in Apis, proj'[b].pc = "action" PROVE ToolPartThere'
      <4>1. CASE b = a BY <1>11, <1>13, <2>2, <3>2, <4>1
      <4>2. CASE b # a
        <5>1. proj[b].pc = "action" BY <1>13, <3>2, <4>2
        <5>2. ToolPartThere BY <1>14, <5>1 DEF ProjectionInv, ActionsHaveParts
        <5> QED BY <2>2, <5>2 DEF ToolPartThere
      <4> QED BY <4>1, <4>2
    <3> QED BY <2>2, <3>1, <3>2 DEF ActionsHaveParts
  <2> QED BY <1>13, <2>2, <2>3 DEF ProjectionInv
<1>15. CASE ~(status = "running" /\ ~HasSourceEvent(job.src))
  <2>1. UNCHANGED <<parts, content, log>> BY <1>15, <1>16 DEF WritePart
  <2>2. RowsOK' BY <1>1, <1>2, <2>1 DEF RowsOK, PartsOK
  <2>3. SourcesOK' BY <1>2, <2>1 DEF ProjectionInv, SourcesOK, Event
  <2>4. ActionsCounted'
    <3>1. \A j : Recorded(j)' <=> Recorded(j) BY <2>1 DEF Recorded, HasSourceEvent
    <3> QED BY <1>2, <3>1, ActionsCountedStay DEF ProjectionInv
  <2>5. ActionsHaveParts
    BY DEF ProjectionInv
  <2>6. job.step = "action" => ToolPartThere \/ status = "completed"
    <3>1. SUFFICES ASSUME job.step = "action", status # "completed" PROVE ToolPartThere OBVIOUS
    <3>2. CASE HasSourceEvent(job.src)
      <4>1. PICK n \in DOMAIN log : log[n].src = job.src BY <3>2 DEF HasSourceEvent
      <4> QED BY <1>6, <2>5, <3>1, <4>1 DEF ActionsHaveParts
    <3>3. CASE status = "requires_action" BY <2>5, <3>3 DEF ActionsHaveParts
    <3> QED BY <1>1, <1>15, <3>1, <3>2, <3>3 DEF RowsOK
  <2>7. ActionsHaveParts'
    <3>1. ToolPartThere' <=> ToolPartThere BY <2>1 DEF ToolPartThere
    <3>2. ASSUME NEW b \in Apis, proj'[b].pc = "action" PROVE ToolPartThere \/ status = "completed"
      <4>1. CASE b = a BY <1>11, <1>13, <2>6, <3>2, <4>1
      <4>2. CASE b # a BY <1>13, <2>5, <3>2, <4>2 DEF ActionsHaveParts
      <4> QED BY <4>1, <4>2
    <3> QED BY <1>2, <2>1, <2>5, <3>1, <3>2 DEF ActionsHaveParts
  <2> QED BY <1>13, <2>2, <2>3, <2>4, <2>7 DEF ProjectionInv
<1> QED BY <1>14, <1>15

-----------------------------------------------------------------------------
(* The end of a projection, and the user's answer.                         *)

\* An entry with no part.
LEMMA OutcomeEntryIs ==
    ASSUME NEW i \in Nat, NEW suffix \in SourceSuffixes, NEW e, e = Entry(Src(i, suffix), NoPart, <<>>)
    PROVE  e \in LogEntries /\ e.src = Src(i, suffix) /\ e.order = NoPart /\ e.delta = <<>>
<1>1. <<>> \in Texts BY DEF Texts
<1>2. PICK src : src = Src(i, suffix) OBVIOUS
<1>3. src \in Sources BY <1>2 DEF Src, Sources
<1>4. e = [src |-> src, order |-> NoPart, delta |-> <<>>] BY <1>2 DEF Entry
<1> QED BY <1>1, <1>2, <1>3, <1>4 DEF LogEntries

\* A projection that has ended leaves the others as they are.
LEMMA EndedProjections ==
    ASSUME ProjectionInv, NEW a \in Apis, EndProjection(a), UNCHANGED <<stream, answered>>
    PROVE  /\ ProjectionsOK' /\ proj'[a] = IdleProjection
           /\ \A b \in Apis : b # a => proj'[b] = proj[b]
           /\ \A b \in Apis : proj'[b].pc = "action" => proj[b].pc = "action"
<1>1. PICK q : q = IdleProjection OBVIOUS
<1>2. RowsOK /\ ProjectionsOK /\ stream \in Streams BY DEF ProjectionInv, RowsOK
<1>3. ProjectionOK(q) BY <1>1, <1>2, IdleOK
<1>4. q.pc # "action" BY <1>1 DEF IdleProjection
<1>5. proj' = [proj EXCEPT ![a] = q] BY <1>1 DEF EndProjection
<1>6. ProjectionsOK' /\ proj'[a] = q /\ \A b \in Apis : b # a => proj'[b] = proj[b]
  BY <1>2, <1>3, <1>5, ProjectionMoves
<1> QED BY <1>1, <1>4, <1>6

\* RequireClientAction.
LEMMA RequireClientActionKeepsRows ==
    ASSUME ProjectionInv, NEW a \in Apis, RequireClientAction(a)
    PROVE  ProjectionInv'
<1>1. RowsOK /\ ProjectionsOK /\ proj[a].pc = "action" BY DEF ProjectionInv, RequireClientAction
<1>2. EndProjection(a) /\ UNCHANGED <<stream, parts, content, answered, crashes, dropped, shared>>
  BY DEF RequireClientAction
<1>3. PICK i : i = Current(a) OBVIOUS
<1>4. CASE status = "running" /\ ~HasSourceEvent(Src(i, ""))
  <2>1. PICK p : p = proj[a] OBVIOUS
  <2>2. i \in Actions
    <3>1. i = p.pos + 1 BY <1>3, <2>1 DEF Current
    <3>2. Published(i) /\ Event(i).type = "action"
      BY <1>1, <2>1, <3>1, ProjectionTyped DEF ProjectionOK
    <3> QED BY <3>2 DEF Published, Actions
  <2>3. Actions \subseteq DOMAIN stream /\ IsFiniteSet(Actions) /\ DOMAIN stream = 1 .. Len(stream)
    BY <1>1, StreamIs DEF RowsOK
  <2>4. i \in Nat /\ i \in DOMAIN stream BY <2>2, <2>3
  <2>5. PICK e : e = Entry(Src(i, ""), NoPart, <<>>) OBVIOUS
  <2>6. e \in LogEntries /\ e.src = Src(i, "") BY <2>4, <2>5, OutcomeEntryIs DEF SourceSuffixes
  <2>7. status' = "requires_action" /\ log' = Append(log, e)
    BY <1>3, <1>4, <2>5 DEF RequireClientAction
  <2>8. log \in Seq(LogEntries) BY <1>1 DEF RowsOK
  <2>9. log' \in Seq(LogEntries) /\ \A j : Recorded(j)' <=> Recorded(j) \/ e.src = Src(j, "")
    BY <2>6, <2>7, <2>8, RecordedAppended
  <2>10. ProjectionsOK' BY <1>2, EndedProjections
  <2>11. RowsOK' BY <1>1, <1>2, <2>7, <2>9 DEF RowsOK, PartsOK
  <2>12. e.src[1] = i /\ e.src[2] = "" BY <2>6, SrcIs
  <2>13. SourcesOK' BY <1>2, <2>4, <2>6, <2>7, <2>8, <2>12, SourcesAppended DEF ProjectionInv
  <2>14. RecordedActions' = RecordedActions \cup {i} /\ i \notin RecordedActions
    <3>1. Actions' = Actions BY <1>2 DEF Actions, Event
    <3>2. \A j : Recorded(j)' <=> Recorded(j) \/ j = i
      <4>1. \A j : Src(i, "") = Src(j, "") <=> i = j BY DEF Src
      <4> QED BY <2>6, <2>9, <4>1
    <3>3. ~Recorded(i) BY <1>4 DEF Recorded
    <3> QED BY <2>2, <3>1, <3>2, <3>3 DEF RecordedActions
  <2>15. ActionsCounted'
    <3>1. IsFiniteSet(RecordedActions) BY <2>3, FS_Subset DEF RecordedActions
    <3>4. answered \in Nat /\ ActionsCounted BY <1>1 DEF ProjectionInv, RowsOK
    <3>2. Cardinality(RecordedActions) = answered 
      <4>1. Cardinality(RecordedActions) \in Nat BY <3>1, FS_CardinalityType
      <4>2. status # "requires_action" BY <1>4
      <4>3. answered + 0 = Cardinality(RecordedActions) BY <3>4, <4>2 DEF ActionsCounted
      <4> QED BY <3>4, <4>1, <4>3
    <3>3. Cardinality(RecordedActions') = Cardinality(RecordedActions) + 1
      BY <2>14, <3>1, FS_AddElement
    <3> QED BY <1>2, <2>7, <3>2, <3>3 DEF ActionsCounted
  <2>16. ActionsHaveParts'
    <3>1. ToolPartThere BY <1>1, <1>4 DEF ProjectionInv, ActionsHaveParts
    <3>2. ToolPartThere' BY <1>2, <3>1 DEF ToolPartThere
    <3> QED BY <3>2 DEF ActionsHaveParts
  <2> QED BY <2>10, <2>11, <2>13, <2>15, <2>16 DEF ProjectionInv
<1>5. CASE ~(status = "running" /\ ~HasSourceEvent(Src(i, "")))
  <2>1. UNCHANGED <<status, log>> BY <1>3, <1>5 DEF RequireClientAction
  <2>2. UNCHANGED <<stream, rowVars>> BY <1>2, <2>1 DEF rowVars
  <2>3. dropped' \in BOOLEAN /\ shared' \in BOOLEAN /\ crashes' \in 0 .. MaxCrashes
    BY <1>1, <1>2 DEF RowsOK
  <2>4. proj' = [proj EXCEPT ![a] = IdleProjection] BY <1>2 DEF EndProjection
  <2> QED BY <2>2, <2>3, <2>4, EndKeepsRows
<1> QED BY <1>4, <1>5

\* A number is above the orders of all parts.
LEMMA NextOrderIs ==
    ASSUME PartsOK, NEW next,
           next = CHOOSE n \in {0} \cup {o + 1 : o \in DOMAIN parts} : \A o \in DOMAIN parts : n > o
    PROVE  next \in Nat /\ \A o \in DOMAIN parts : next > o
<1> DEFINE after == [o \in DOMAIN parts |-> o + 1]
           orders == {after[o] : o \in DOMAIN parts}
           places == {0} \cup {o + 1 : o \in DOMAIN parts}
           Above(n) == \A o \in DOMAIN parts : n > o
<1>1. IsFiniteSet(DOMAIN parts) /\ DOMAIN parts \subseteq Nat BY DEF PartsOK
<1>2. IsFiniteSet(places)
  <2>1. orders = {o + 1 : o \in DOMAIN parts} OBVIOUS
  <2>2. after \in Surjection(DOMAIN parts, orders) BY Fun_SurjectionProperties DEF Surjection
  <2>3. IsFiniteSet(orders) BY <1>1, <2>2, FS_Surjection
  <2> QED BY <2>1, <2>3, FS_AddElement
<1>3. places # {} /\ places \in SUBSET Nat BY <1>1
<1>4. PICK n \in places : \A m \in places : m <= n
  <2> HIDE DEF places
  <2> QED BY <1>2, <1>3, GreatestNumber
<1>5. Above(n)
  <2>1. SUFFICES ASSUME NEW o \in DOMAIN parts PROVE n > o OBVIOUS
  <2>2. o + 1 \in places /\ o \in Nat /\ n \in Nat BY <1>1, <1>3
  <2>3. o + 1 <= n BY <1>4, <2>2
  <2> QED BY <2>2, <2>3
<1>6. next \in places /\ Above(next)
  <2>1. next = CHOOSE m \in places : Above(m) OBVIOUS
  <2> HIDE DEF places, Above
  <2> QED BY <1>4, <1>5, <2>1
<1> QED BY <1>3, <1>6

\* The part and the log entry of an answer.
Answered(call, order) ==
    /\ call = Event(LatestSourceEvent).call
    /\ Upsert(order, <<"result", call>>, <<"r">>)
    /\ log' = Append(log, Entry(NoSrc, order, <<"r">>))

\* Resume: the answer is to an event of the stream, and its order is free.
LEMMA ResumeIs ==
    ASSUME ProjectionInv, Resume
    PROVE  /\ LatestSourceEvent \in DOMAIN stream
           /\ \E call \in STRING, order \in Nat :
                 order >= ToolPartOrderStart /\ order \notin DOMAIN parts /\ Answered(call, order)
<1>1. RowsOK /\ status = "requires_action" /\ PartsOK /\ log \in Seq(LogEntries) /\ stream \in Streams
  BY DEF ProjectionInv, Resume, RowsOK
<1>2. PICK latest : latest = LatestSourceEvent OBVIOUS
<1>3. Actions \subseteq DOMAIN stream /\ IsFiniteSet(Actions) /\ DOMAIN stream = 1 .. Len(stream)
      /\ \A i \in DOMAIN stream : Event(i) \in Events
  BY <1>1, StreamIs
<1>4. latest \in DOMAIN stream
  <2>1. RecordedActions # {}
    <3>1. SUFFICES ASSUME RecordedActions = {} PROVE FALSE OBVIOUS
    <3>2. Cardinality(RecordedActions) = 0 BY <3>1, FS_EmptySet
    <3>3. answered + 1 = Cardinality(RecordedActions) /\ answered \in Nat
      BY <1>1 DEF ProjectionInv, ActionsCounted, RowsOK
    <3> QED BY <3>2, <3>3
  <2>2. PICK i \in Actions : Recorded(i) BY <2>1 DEF RecordedActions
  <2>3. PICK n \in DOMAIN log : log[n].src = Src(i, "") BY <2>2 DEF Recorded, HasSourceEvent
  <2>4. i # 0 BY <1>3, <2>2
  <2>5. log[n].src # NoSrc
    <3>1. log[n].src[1] = i BY <2>3, SrcIs
    <3>2. NoSrc[1] = 0 BY SrcIs DEF NoSrc
    <3> QED BY <2>4, <3>1, <3>2
  <2>6. PICK m \in DOMAIN log : log[m].src # NoSrc /\ latest = log[m].src[1]
    BY <1>1, <1>2, <2>5, LatestIs, LatestSourceEventIs
  <2> QED BY <2>6 DEF ProjectionInv, SourcesOK
<1>5. PICK call : call = Event(latest).call OBVIOUS
<1>6. call \in STRING BY <1>3, <1>4, <1>5 DEF Events
<1>7. PICK callOrders : callOrders = {o \in DOMAIN parts : parts[o].key = <<"call", call>>} OBVIOUS
<1>8. PICK fallback : fallback = CHOOSE n \in {0} \cup {o + 1 : o \in DOMAIN parts} :
                                    \A o \in DOMAIN parts : n > o
  OBVIOUS
<1>9. PICK preferred : preferred = IF callOrders = {} THEN fallback ELSE (CHOOSE o \in callOrders : TRUE) + 1
  OBVIOUS
<1>10. preferred \in Nat /\ preferred >= ToolPartOrderStart
  <2>1. DOMAIN parts \subseteq Nat BY <1>1 DEF PartsOK
  <2>2. CASE callOrders = {}
    <3>1. PICK o \in DOMAIN parts : o >= ToolPartOrderStart
      BY <1>1 DEF ProjectionInv, ActionsHaveParts, ToolPartThere
    <3>2. fallback \in Nat /\ fallback > o BY <1>1, <1>8, NextOrderIs
    <3> QED BY <1>9, <2>1, <2>2, <3>1, <3>2 DEF ToolPartOrderStart
  <2>3. CASE callOrders # {}
    <3>1. PICK o : o = CHOOSE c \in callOrders : TRUE OBVIOUS
    <3>2. o \in callOrders BY <2>3, <3>1
    <3>3. o \in DOMAIN parts /\ parts[o].key = <<"call", call>> BY <1>7, <3>2
    <3>4. parts[o].key[1] \notin TextKinds BY <3>3 DEF TextKinds
    <3>5. o >= ToolPartOrderStart BY <1>1, <3>3, <3>4 DEF PartsOK, OrderOf
    <3> QED BY <1>9, <2>1, <2>3, <3>1, <3>3, <3>5 DEF ToolPartOrderStart
  <2> QED BY <2>2, <2>3
<1>11. PICK order : order = ReserveOrder(DOMAIN parts, preferred) OBVIOUS
<1>12. order \in Nat /\ order >= ToolPartOrderStart /\ order \notin DOMAIN parts
  <2>1. order \in Nat /\ order >= preferred /\ order \notin DOMAIN parts
    BY <1>1, <1>10, <1>11, ReserveOrderIs DEF PartsOK
  <2> QED BY <1>10, <2>1 DEF ToolPartOrderStart
<1>13. Answered(call, order)
  BY <1>2, <1>5, <1>7, <1>8, <1>9, <1>11 DEF Resume, Answered
<1> QED BY <1>2, <1>4, <1>6, <1>12, <1>13

\* The entry of an answer.
LEMMA AnswerIs ==
    ASSUME NEW order \in Nat, NEW e, e = Entry(NoSrc, order, <<"r">>)
    PROVE  /\ e \in LogEntries /\ e.src = NoSrc /\ e.order = order /\ e.delta = <<"r">>
           /\ <<"r">> \in Texts /\ NoSrc[1] = 0 /\ NoSrc[2] = ""
<1>1. <<"r">> \in Texts BY DEF Texts, Characters
<1>2. NoSrc \in Sources /\ NoSrc[1] = 0 /\ NoSrc[2] = ""
  BY DEF NoSrc, Src, Sources, SourceSuffixes
<1>3. PICK src, delta : src = NoSrc /\ delta = <<"r">> OBVIOUS
<1>4. e = [src |-> src, order |-> order, delta |-> delta] BY <1>3 DEF Entry
<1>7. src \in Sources /\ delta \in Texts BY <1>1, <1>2, <1>3
<1>5. e \in LogEntries
  <2>1. [src |-> src, order |-> order, delta |-> delta] \in LogEntries BY <1>7 DEF LogEntries
  <2> QED BY <1>4, <2>1
<1>6. e.src = src /\ e.order = order /\ e.delta = delta BY <1>4
<1> QED BY <1>1, <1>2, <1>3, <1>5, <1>6

\* Projections that stay as they are stay right.
LEMMA ProjectionsStay ==
    ASSUME RowsOK, ProjectionsOK, UNCHANGED <<stream, proj>>, answered' \in Nat, answered <= answered'
    PROVE  ProjectionsOK'
<1>1. stream \in Streams /\ answered \in Nat BY DEF RowsOK
<1>2. ASSUME NEW b \in Apis PROVE ProjectionOK(proj[b])'
  <2>1. PICK p : p = proj[b] OBVIOUS
  <2>2. ProjectionOK(p) BY <2>1 DEF ProjectionsOK
  <2>3. ProjectionOK(p)' BY <1>1, <2>2, ProjectionStays
  <2> QED BY <2>1, <2>3
<1> QED BY <1>2 DEF ProjectionsOK

\* Resume.
LEMMA ResumeKeepsRows ==
    ASSUME ProjectionInv, Resume
    PROVE  ProjectionInv'
<1>1. RowsOK /\ ProjectionsOK /\ status = "requires_action" BY DEF ProjectionInv, Resume
<1>2. /\ status' = "running" /\ answered' = answered + 1
      /\ UNCHANGED <<stream, content, proj, crashes, dropped, shared>>
  BY DEF Resume
<1>3. PICK call \in STRING, order \in Nat :
         order >= ToolPartOrderStart /\ order \notin DOMAIN parts /\ Answered(call, order)
  BY ResumeIs
<1>4. PICK e : e = Entry(NoSrc, order, <<"r">>) OBVIOUS
<1>5. e \in LogEntries /\ e.src = NoSrc /\ <<"r">> \in Texts /\ NoSrc[1] = 0 /\ NoSrc[2] = ""
  BY <1>4, AnswerIs
<1>6. log' = Append(log, e) /\ log \in Seq(LogEntries) BY <1>1, <1>3, <1>4 DEF Answered, RowsOK
<1>7. PICK key : key = <<"result", call>> OBVIOUS
<1>8. key \in ToolKeys /\ key[1] \notin TextKinds BY <1>7 DEF ToolKeys, ToolKinds, TextKinds
<1>9. PartsOK' /\ DOMAIN parts' = DOMAIN parts \cup {order}
  <2>1. OrderOf(order, key) BY <1>3, <1>8 DEF OrderOf
  <2>2. Upsert(order, key, <<"r">>) BY <1>3, <1>7 DEF Answered
  <2>3. PartsOK BY <1>1 DEF RowsOK
  <2>4. PICK text : text = <<"r">> OBVIOUS
  <2> QED BY <1>3, <1>5, <1>8, <2>1, <2>2, <2>3, <2>4, PartPut
<1>10. log' \in Seq(LogEntries) /\ \A j : Recorded(j)' <=> Recorded(j) \/ e.src = Src(j, "")
  BY <1>5, <1>6, RecordedAppended
<1>11. RowsOK'
  <2>1. /\ stream' \in Streams /\ status' \in {"running", "requires_action", "completed"}
        /\ answered' \in Nat /\ crashes' \in 0 .. MaxCrashes /\ dropped' \in BOOLEAN /\ shared' \in BOOLEAN
    BY <1>1, <1>2 DEF RowsOK
  <2> QED BY <1>9, <1>10, <2>1 DEF RowsOK
<1>12. SourcesOK' BY <1>2, <1>5, <1>6, SourcesAppended DEF ProjectionInv
<1>13. Actions \subseteq DOMAIN stream /\ DOMAIN stream = 1 .. Len(stream)
  BY <1>1, StreamIs DEF RowsOK
<1>14. RecordedActions' = RecordedActions
  <2>1. Actions' = Actions BY <1>2 DEF Actions, Event
  <2>2. \A j \in Actions : Recorded(j)' <=> Recorded(j)
    <3>1. SUFFICES ASSUME NEW j \in Actions PROVE NoSrc # Src(j, "") BY <1>5, <1>10
    <3>2. j # 0 BY <1>13
    <3> QED BY <3>2 DEF NoSrc, Src
  <2> QED BY <2>1, <2>2 DEF RecordedActions
<1>15. ActionsCounted' BY <1>1, <1>2, <1>14 DEF ProjectionInv, ActionsCounted, RowsOK
<1>16. ActionsHaveParts'
  <2>1. ToolPartThere' BY <1>3, <1>9 DEF ToolPartThere
  <2> QED BY <2>1 DEF ActionsHaveParts
<1>17. ProjectionsOK'
  <2>1. answered' \in Nat /\ answered <= answered' BY <1>1, <1>2 DEF RowsOK
  <2> QED BY <1>1, <1>2, <2>1, ProjectionsStay
<1> QED BY <1>11, <1>12, <1>15, <1>16, <1>17 DEF ProjectionInv

-----------------------------------------------------------------------------
(* Completion.                                                             *)

\* A log that has grown by entries of the outcome.
Grown(l, m, i) ==
    /\ m \in Seq(LogEntries) /\ DOMAIN l \subseteq DOMAIN m
    /\ \A n \in DOMAIN l : m[n] = l[n]
    /\ \A n \in DOMAIN m : n \notin DOMAIN l =>
          m[n].src[1] = i /\ m[n].src[2] \in {"reasoning", "text", "message"}

\* It grows by one more.
LEMMA GrowsOn ==
    ASSUME NEW l \in Seq(LogEntries), NEW i, NEW m, Grown(l, m, i),
           NEW e \in LogEntries, e.src[1] = i, e.src[2] \in {"reasoning", "text", "message"}
    PROVE  Grown(l, Append(m, e), i)
<1>1. m \in Seq(LogEntries) BY DEF Grown
<1>2. PICK r : r = Append(m, e) OBVIOUS
<1>3. /\ r \in Seq(LogEntries) /\ DOMAIN r = DOMAIN m \cup {Len(m) + 1} /\ r[Len(m) + 1] = e
      /\ \A n \in DOMAIN m : r[n] = m[n]
  BY <1>1, <1>2, Appended
<1>4. DOMAIN l \subseteq DOMAIN r BY <1>3 DEF Grown
<1>5. \A n \in DOMAIN l : r[n] = l[n] BY <1>3 DEF Grown
<1>6. \A n \in DOMAIN r : n \notin DOMAIN l => r[n].src[1] = i /\ r[n].src[2] \in {"reasoning", "text", "message"}
  BY <1>3 DEF Grown
<1> QED BY <1>2, <1>3, <1>4, <1>5, <1>6 DEF Grown

\* What a stripper held back is put behind the text it has let through.
PendingEntry(a, k) == Entry(Src(Current(a), k), getSinglePartOrder[k], proj[a].strippers[k].buffer)

WithPending(l, a, k) == IF proj[a].strippers[k].buffer = <<>> THEN l ELSE Append(l, PendingEntry(a, k))

\* The entry of what was held back.
LEMMA PendingEntryIs ==
    ASSUME ProjectionInv, NEW a \in Apis, NEW k \in TextKinds, NEW e, e = PendingEntry(a, k)
    PROVE  /\ e \in LogEntries /\ e.src = Src(Current(a), k) /\ e.order = getSinglePartOrder[k]
           /\ e.delta = proj[a].strippers[k].buffer
           /\ e.src[1] = Current(a) /\ e.src[2] = k
<1>1. proj[a].pos \in 0 .. Len(stream) /\ proj[a].strippers \in [TextKinds -> StripperStates]
  BY ProjectionTyped
<1>2. Len(stream) \in Nat BY StreamIs DEF ProjectionInv, RowsOK
<1>3. PICK i : i = Current(a) OBVIOUS
<1>4. i \in Nat BY <1>1, <1>2, <1>3 DEF Current
<1>5. PICK src : src = Src(i, k) OBVIOUS
<1>6. src[1] = i /\ src[2] = k BY <1>5, SrcIs
<1>7. src \in Sources BY <1>4, <1>5 DEF Src, Sources, SourceSuffixes, TextKinds
<1>8. PICK order, delta : order = getSinglePartOrder[k] /\ delta = proj[a].strippers[k].buffer OBVIOUS
<1>9. order \in Nat BY <1>8 DEF getSinglePartOrder, TextKinds
<1>10. delta \in Texts BY <1>1, <1>8 DEF StripperStates
<1>11. e = [src |-> src, order |-> order, delta |-> delta]
  BY <1>3, <1>5, <1>8 DEF PendingEntry, Entry
<1>12. e \in LogEntries BY <1>7, <1>9, <1>10, <1>11 DEF LogEntries
<1>13. e.src = src /\ e.order = order /\ e.delta = delta BY <1>11
<1> QED BY <1>3, <1>5, <1>6, <1>8, <1>12, <1>13

\* A log with what was held back.
LEMMA WithPendingIs ==
    ASSUME ProjectionInv, NEW a \in Apis, NEW k \in TextKinds, NEW l \in Seq(LogEntries), NEW base \in Seq(LogEntries),
           Grown(base, l, Current(a))
    PROVE  /\ WithPending(l, a, k) \in Seq(LogEntries) /\ Grown(base, WithPending(l, a, k), Current(a))
           /\ l \o (IF proj[a].strippers[k].buffer = <<>> THEN <<>> ELSE <<PendingEntry(a, k)>>)
              = WithPending(l, a, k)
<1>1. PICK e : e = PendingEntry(a, k) OBVIOUS
<1>2. e \in LogEntries /\ e.src[1] = Current(a) /\ e.src[2] \in {"reasoning", "text", "message"}
  BY <1>1, PendingEntryIs DEF TextKinds
<1>3. l \o <<>> = l /\ l \o <<e>> = Append(l, e) BY <1>2, PerhapsAppended
<1>4. Append(l, e) \in Seq(LogEntries) BY <1>2, Appended
<1>5. PICK i : i = Current(a) OBVIOUS
<1>6. Grown(base, Append(l, e), i) BY <1>2, <1>5, GrowsOn
<1> QED BY <1>1, <1>3, <1>4, <1>5, <1>6 DEF WithPending

\* What a run that is completed leaves.
Completing(a) ==
    /\ content' = proj[a].texts["text"]
    /\ \E e : /\ e = Entry(Src(Current(a), "message"), NoPart, <<>>)
              /\ log' = Append(WithPending(WithPending(log, a, "reasoning"), a, "text"), e)
    /\ DOMAIN parts' = DOMAIN parts \cup {getSinglePartOrder[k] :
                                             k \in {k \in TextKinds : proj[a].strippers[k].buffer # <<>>}}
    /\ \A k \in TextKinds : proj[a].strippers[k].buffer # <<>> =>
          parts'[getSinglePartOrder[k]] = [key |-> <<k, "">>, text |-> proj[a].texts[k]]
    /\ \A o \in DOMAIN parts :
          (\A k \in TextKinds : proj[a].strippers[k].buffer # <<>> => getSinglePartOrder[k] # o) =>
              parts'[o] = parts[o]
    /\ parts' = [o \in DOMAIN parts' |-> parts'[o]]

\* CompleteRun, of a run that runs.
LEMMA CompleteRunIs ==
    ASSUME ProjectionInv, NEW a \in Apis, CompleteRun(a), status = "running"
    PROVE  /\ Completing(a) /\ log' \in Seq(LogEntries) /\ Grown(log, log', Current(a))
           /\ status' = "completed"
<1>1. PICK p : p = proj[a] OBVIOUS
<1>2. PICK i : i = Current(a) OBVIOUS
<1> DEFINE flushed == {k \in TextKinds : p.strippers[k].buffer # <<>>}
           Pending(k) == IF k \in flushed
                         THEN <<Entry(Src(i, k), getSinglePartOrder[k], p.strippers[k].buffer)>>
                         ELSE <<>>
           For(k, o) == getSinglePartOrder[k] = o
<1>3. /\ status' = "completed" /\ content' = p.texts["text"]
      /\ parts' = [o \in DOMAIN parts \cup {getSinglePartOrder[k] : k \in flushed} |->
             IF \E k \in flushed : For(k, o)
             THEN LET k == CHOOSE k \in flushed : For(k, o) IN [key |-> <<k, "">>, text |-> p.texts[k]]
             ELSE parts[o]]
      /\ log' = log \o Pending("reasoning") \o Pending("text") \o <<Entry(Src(i, "message"), NoPart, <<>>)>>
  BY <1>1, <1>2, ZenonT(40) DEF CompleteRun
<1>4. i \in Nat
  <2>1. p.pos \in 0 .. Len(stream) BY <1>1, ProjectionTyped
  <2>2. Len(stream) \in Nat BY StreamIs DEF ProjectionInv, RowsOK
  <2> QED BY <1>1, <1>2, <2>1, <2>2 DEF Current
<1>5. log \in Seq(LogEntries) /\ "reasoning" \in TextKinds /\ "text" \in TextKinds
  BY DEF ProjectionInv, RowsOK, TextKinds
<1>6. \A k \in TextKinds : Pending(k) = IF proj[a].strippers[k].buffer = <<>> THEN <<>> ELSE <<PendingEntry(a, k)>>
  BY <1>1, <1>2 DEF PendingEntry
<1>7. Grown(log, log, i) BY <1>5 DEF Grown
<1>8. PICK l1 : l1 = WithPending(log, a, "reasoning") OBVIOUS
<1>9. l1 \in Seq(LogEntries) /\ Grown(log, l1, i) /\ log \o Pending("reasoning") = l1
  <2> HIDE DEF Pending
  <2> QED BY <1>2, <1>5, <1>6, <1>7, <1>8, WithPendingIs
<1>10. PICK l2 : l2 = WithPending(l1, a, "text") OBVIOUS
<1>11. l2 \in Seq(LogEntries) /\ Grown(log, l2, i) /\ l1 \o Pending("text") = l2
  <2> HIDE DEF Pending
  <2> QED BY <1>2, <1>5, <1>6, <1>9, <1>10, WithPendingIs
<1>12. PICK e : e = Entry(Src(i, "message"), NoPart, <<>>) OBVIOUS
<1>13. e \in LogEntries /\ e.src = Src(i, "message")
  BY <1>4, <1>12, OutcomeEntryIs DEF SourceSuffixes
<1>14. e.src[1] = i /\ e.src[2] = "message" BY <1>13, SrcIs
<1>15. Grown(log, Append(l2, e), i) BY <1>5, <1>11, <1>13, <1>14, GrowsOn
<1>16. log' = Append(l2, e)
  <2>1. log' = l2 \o <<e>>
    <3> HIDE DEF Pending
    <3> QED BY <1>3, <1>9, <1>11, <1>12
  <2>2. l2 \o <<e>> = Append(l2, e) BY <1>11, <1>13, PerhapsAppended
  <2> QED BY <2>1, <2>2
<1>17. log' \in Seq(LogEntries) /\ Grown(log, log', i)
  <2>1. PICK m : m = Append(l2, e) OBVIOUS
  <2>2. m \in Seq(LogEntries) /\ Grown(log, m, i) BY <1>15, <2>1 DEF Grown
  <2>3. log' = m BY <1>16, <2>1
  <2> QED BY <2>2, <2>3
<1>18. \E x : /\ x = Entry(Src(Current(a), "message"), NoPart, <<>>)
              /\ log' = Append(WithPending(WithPending(log, a, "reasoning"), a, "text"), x)
  BY <1>2, <1>8, <1>10, <1>12, <1>16
<1>19. DOMAIN parts' = DOMAIN parts \cup {getSinglePartOrder[k] : k \in flushed} BY <1>3
<1>20. ASSUME NEW k \in flushed
       PROVE  parts'[getSinglePartOrder[k]] = [key |-> <<k, "">>, text |-> p.texts[k]]
  <2>1. PICK o : o = getSinglePartOrder[k] OBVIOUS
  <2>2. For(k, o) /\ o \in DOMAIN parts' BY <1>19, <2>1
  <2>3. PICK c : c = CHOOSE x \in flushed : For(x, o) OBVIOUS
  <2>4. c \in flushed /\ For(c, o)
    <3> HIDE DEF flushed, For
    <3> QED BY <2>2, <2>3
  <2>5. c = k BY <2>1, <2>4 DEF getSinglePartOrder, TextKinds
  <2>6. parts'[o] = [key |-> <<c, "">>, text |-> p.texts[c]]
    <3> HIDE DEF flushed, For
    <3> QED BY <1>3, <1>19, <2>2, <2>3
  <2> QED BY <2>1, <2>5, <2>6
<1>21. ASSUME NEW o \in DOMAIN parts, \A k \in flushed : ~For(k, o) PROVE parts'[o] = parts[o]
  <2> HIDE DEF flushed, For
  <2> QED BY <1>3, <1>21
<1>22. parts' = [o \in DOMAIN parts' |-> parts'[o]]
  <2>1. PICK D : D = DOMAIN parts \cup {getSinglePartOrder[k] : k \in flushed} OBVIOUS
  <2>2. PICK c : c = [o \in D |-> IF \E k \in flushed : For(k, o)
                                  THEN LET k == CHOOSE k \in flushed : For(k, o)
                                       IN  [key |-> <<k, "">>, text |-> p.texts[k]]
                                  ELSE parts[o]]
    OBVIOUS
  <2>3. c = [o \in DOMAIN c |-> c[o]]
    <3> HIDE DEF flushed, For
    <3> QED BY <2>2
  <2>4. parts' = c BY <1>3, <2>1, <2>2
  <2> QED BY <2>3, <2>4
<1>23. Completing(a)
  <2>1. DOMAIN parts' = DOMAIN parts \cup {getSinglePartOrder[k] :
                                             k \in {k \in TextKinds : proj[a].strippers[k].buffer # <<>>}}
    BY <1>1, <1>19
  <2>2. \A k \in TextKinds : proj[a].strippers[k].buffer # <<>> =>
          parts'[getSinglePartOrder[k]] = [key |-> <<k, "">>, text |-> proj[a].texts[k]]
    BY <1>1, <1>20
  <2>3. \A o \in DOMAIN parts :
          (\A k \in TextKinds : proj[a].strippers[k].buffer # <<>> => getSinglePartOrder[k] # o) =>
              parts'[o] = parts[o]
    BY <1>1, <1>21
  <2>4. content' = proj[a].texts["text"] BY <1>1, <1>3
  <2> QED BY <1>18, <1>22, <2>1, <2>2, <2>3, <2>4 DEF Completing
<1> QED BY <1>2, <1>3, <1>17, <1>23

\* The parts of a run that is completed.
LEMMA CompletedParts ==
    ASSUME ProjectionInv, NEW a \in Apis, Completing(a)
    PROVE  PartsOK' /\ DOMAIN parts \subseteq DOMAIN parts'
<1>1. PICK p : p = proj[a] OBVIOUS
<1>2. p.texts \in [TextKinds -> Texts] BY <1>1, ProjectionTyped
<1>3. PartsOK BY DEF ProjectionInv, RowsOK
<1> DEFINE flushed == {k \in TextKinds : p.strippers[k].buffer # <<>>}
           orders == {getSinglePartOrder[k] : k \in flushed}
<1>4. DOMAIN parts' = DOMAIN parts \cup orders
  <2>1. orders = {getSinglePartOrder[k] : k \in {k \in TextKinds : proj[a].strippers[k].buffer # <<>>}}
    BY <1>1
  <2> QED BY <2>1 DEF Completing
<1>5. \A k \in TextKinds : getSinglePartOrder[k] \in {0, 1} BY DEF getSinglePartOrder, TextKinds
<1>6. orders \subseteq {0, 1} BY <1>5
<1>7. IsFiniteSet({0, 1})
  <2>1. IsFiniteSet({0}) BY FS_Singleton
  <2>2. IsFiniteSet({0} \cup {1}) BY <2>1, FS_AddElement
  <2>3. {0, 1} = {0} \cup {1} OBVIOUS
  <2> QED BY <2>2, <2>3
<1>8. IsFiniteSet(orders)
  <2> HIDE DEF orders
  <2> QED BY <1>6, <1>7, FS_Subset
<1>9. IsFiniteSet(DOMAIN parts') /\ DOMAIN parts' \subseteq Nat
  <2> HIDE DEF orders
  <2>1. PICK old : old = DOMAIN parts OBVIOUS
  <2>2. IsFiniteSet(old) /\ old \subseteq Nat BY <1>3, <2>1 DEF PartsOK
  <2>3. IsFiniteSet(old \cup orders) BY <1>8, <2>2, FS_Union
  <2>4. DOMAIN parts' = old \cup orders BY <1>4, <2>1
  <2>5. \A o \in old \cup orders : o \in Nat BY <1>6, <2>2
  <2> QED BY <2>3, <2>4, <2>5
<1>10. ASSUME NEW o \in DOMAIN parts' PROVE parts'[o] \in PartRows /\ OrderOf(o, parts'[o].key)
  <2>1. CASE \E k \in flushed : getSinglePartOrder[k] = o
    <3>1. PICK k \in TextKinds : p.strippers[k].buffer # <<>> /\ getSinglePartOrder[k] = o BY <2>1
    <3>2. PICK key, text : key = <<k, "">> /\ text = p.texts[k] OBVIOUS
    <3>3. parts'[o] = [key |-> key, text |-> text] BY <1>1, <3>1, <3>2 DEF Completing
    <3>4. key \in TextKeys /\ key[1] = k BY <3>2 DEF TextKeys
    <3>5. text \in Texts BY <1>2, <3>2
    <3>6. OrderOf(o, key) BY <3>1, <3>4 DEF OrderOf
    <3> QED BY <3>3, <3>4, <3>5, <3>6 DEF PartRows
  <2>2. CASE ~\E k \in flushed : getSinglePartOrder[k] = o
    <3>1. o \in DOMAIN parts BY <1>4, <1>10, <2>2
    <3>2. parts'[o] = parts[o] BY <1>1, <2>2, <3>1 DEF Completing
    <3> QED BY <1>3, <3>1, <3>2 DEF PartsOK
  <2> QED BY <2>1, <2>2
<1>11. parts' \in [DOMAIN parts' -> PartRows]
  <2>1. parts' = [o \in DOMAIN parts' |-> parts'[o]] BY DEF Completing
  <2> QED BY <1>10, <2>1
<1>12. PartsOK' BY <1>9, <1>10, <1>11 DEF PartsOK, OrderOf
<1> QED BY <1>4, <1>12

\* CompleteRun.
LEMMA CompleteRunKeepsRows ==
    ASSUME ProjectionInv, NEW a \in Apis, CompleteRun(a)
    PROVE  ProjectionInv'
<1>1. RowsOK /\ ProjectionsOK /\ proj[a].pc = "complete" BY DEF ProjectionInv, CompleteRun
<1>2. EndProjection(a) /\ UNCHANGED <<stream, answered, crashes, dropped, shared>>
  BY DEF CompleteRun
<1>3. CASE status # "running"
  <2>1. UNCHANGED <<status, parts, content, log>> BY <1>3 DEF CompleteRun
  <2>2. UNCHANGED <<stream, rowVars>> BY <1>2, <2>1 DEF rowVars
  <2>3. dropped' \in BOOLEAN /\ shared' \in BOOLEAN /\ crashes' \in 0 .. MaxCrashes
    BY <1>1, <1>2 DEF RowsOK
  <2>4. proj' = [proj EXCEPT ![a] = IdleProjection] BY <1>2 DEF EndProjection
  <2> QED BY <2>2, <2>3, <2>4, EndKeepsRows
<1>4. CASE status = "running"
  <2>1. PICK i : i = Current(a) OBVIOUS
  <2>2. Completing(a) /\ log' \in Seq(LogEntries) /\ Grown(log, log', i) /\ status' = "completed"
    BY <1>4, <2>1, CompleteRunIs
  <2>3. i \in DOMAIN stream /\ Event(i).type = "completed"
    <3>1. PICK p : p = proj[a] OBVIOUS
    <3>2. i = p.pos + 1 BY <2>1, <3>1 DEF Current
    <3>3. Published(i) /\ Event(i).type = "completed"
      BY <1>1, <3>1, <3>2, ProjectionTyped DEF ProjectionOK
    <3> QED BY <3>3 DEF Published
  <2>4. PartsOK' /\ DOMAIN parts \subseteq DOMAIN parts' BY <2>2, CompletedParts
  <2>5. RowsOK'
    <3>1. /\ stream' \in Streams /\ status' \in {"running", "requires_action", "completed"}
          /\ answered' \in Nat /\ crashes' \in 0 .. MaxCrashes /\ dropped' \in BOOLEAN /\ shared' \in BOOLEAN
      BY <1>1, <1>2, <2>2 DEF RowsOK
    <3> QED BY <2>2, <2>4, <3>1 DEF RowsOK
  <2>6. PICK m : m = log' OBVIOUS
  <2>7. /\ DOMAIN log \subseteq DOMAIN m /\ \A n \in DOMAIN log : m[n] = log[n]
        /\ \A n \in DOMAIN m : n \notin DOMAIN log =>
              m[n].src[1] = i /\ m[n].src[2] \in {"reasoning", "text", "message"}
    BY <2>2, <2>6 DEF Grown
  <2>8. SourcesOK'
    <3>1. SUFFICES ASSUME NEW n \in DOMAIN m
                   PROVE  /\ m[n].src # NoSrc => m[n].src[1] \in DOMAIN stream
                          /\ m[n].src[2] # "" =>
                                Event(m[n].src[1]).type = IF m[n].src[2] = "tool" THEN "action" ELSE "completed"
      BY <1>2, <2>6 DEF SourcesOK, Event
    <3>2. CASE n \in DOMAIN log BY <2>7, <3>2 DEF ProjectionInv, SourcesOK
    <3>3. CASE n \notin DOMAIN log
      <4>1. m[n].src[1] = i /\ m[n].src[2] # "tool" BY <2>7, <3>3
      <4> QED BY <2>3, <4>1
    <3> QED BY <3>2, <3>3
  <2>9. \A j : Recorded(j)' <=> Recorded(j)
    <3>1. SUFFICES ASSUME NEW j PROVE (\E n \in DOMAIN m : m[n].src = Src(j, "")) <=> \E n \in DOMAIN log : log[n].src = Src(j, "")
      BY <2>6 DEF Recorded, HasSourceEvent
    <3>2. PICK src : src = Src(j, "") OBVIOUS
    <3>3. src[2] = "" BY <3>2, SrcIs
    <3>4. \A n \in DOMAIN m : n \notin DOMAIN log => m[n].src # src BY <2>7, <3>3
    <3> QED BY <2>7, <3>2, <3>4
  <2>10. ActionsCounted'
    <3>1. RecordedActions' = RecordedActions
      <4>1. Actions' = Actions BY <1>2 DEF Actions, Event
      <4> QED BY <2>9, <4>1 DEF RecordedActions
    <3> QED BY <1>2, <1>4, <2>2, <3>1 DEF ProjectionInv, ActionsCounted
  <2>11. ActionsHaveParts'
    <3>1. ToolPartThere => ToolPartThere' BY <2>4 DEF ToolPartThere
    <3>2. ASSUME NEW n \in DOMAIN m, m[n].src[2] = "tool" PROVE ToolPartThere
      <4>1. n \in DOMAIN log BY <2>7, <3>2
      <4> QED BY <2>7, <3>2, <4>1 DEF ProjectionInv, ActionsHaveParts
    <3> QED BY <2>2, <2>6, <3>1, <3>2 DEF ActionsHaveParts
  <2>12. ProjectionsOK' BY <1>2, EndedProjections
  <2> QED BY <2>5, <2>8, <2>10, <2>11, <2>12 DEF ProjectionInv
<1> QED BY <1>3, <1>4

-----------------------------------------------------------------------------
(* What the rows and the projections are, always.                          *)

\* Nothing is recorded at first.
LEMMA RowsBegin ==
    ASSUME Init
    PROVE  ProjectionInv
<1>1. stream \in Streams /\ MaxCrashes \in Nat BY StreamsAssumption DEF Init
<1>2. log = <<>> /\ DOMAIN log = {} /\ log \in Seq(LogEntries) BY DEF Init
<1>3. PartsOK
  <2>1. DOMAIN parts = {} /\ parts \in [{} -> PartRows] BY DEF Init
  <2>2. IsFiniteSet({}) BY FS_EmptySet
  <2> QED BY <2>1, <2>2 DEF PartsOK
<1>4. RowsOK
  <2>1. status = "running" /\ answered = 0 /\ crashes = 0 /\ dropped = FALSE /\ shared = FALSE
    BY DEF Init
  <2>2. crashes \in 0 .. MaxCrashes BY <1>1, <2>1
  <2> QED BY <1>1, <1>2, <1>3, <2>1, <2>2 DEF RowsOK
<1>5. ProjectionsOK
  <2>1. PICK idle : idle = IdleProjection OBVIOUS
  <2>2. proj = [a \in Apis |-> idle] BY <2>1 DEF Init
  <2>3. ProjectionOK(idle) BY <1>1, <2>1, IdleOK
  <2> QED BY <2>2, <2>3 DEF ProjectionsOK
<1>6. SourcesOK BY <1>2 DEF SourcesOK
<1>7. ActionsCounted
  <2>1. RecordedActions = {} BY <1>2 DEF RecordedActions, Recorded, HasSourceEvent
  <2>2. Cardinality(RecordedActions) = 0 BY <2>1, FS_EmptySet
  <2> QED BY <2>2 DEF Init, ActionsCounted
<1>8. ActionsHaveParts
  <2>1. status # "requires_action" /\ \A a \in Apis : proj[a].pc # "action"
    BY DEF Init, IdleProjection
  <2> QED BY <1>2, <2>1 DEF ActionsHaveParts
<1> QED BY <1>4, <1>5, <1>6, <1>7, <1>8 DEF ProjectionInv

\* Every step keeps what the rows and the projections are.
LEMMA StepKeepsRows ==
    ASSUME ProjectionInv, [Next]_vars
    PROVE  ProjectionInv'
<1>1. CASE UNCHANGED vars
  <2>1. UNCHANGED <<stream, rowVars, proj, crashes, dropped, shared>> BY <1>1 DEF vars
  <2>2. ProjectionsOK'
    <3>1. stream' = stream /\ answered' = answered BY <2>1 DEF rowVars
    <3> QED BY <2>1, <3>1, ProjectionsStay DEF ProjectionInv, RowsOK
  <2>3. dropped' \in BOOLEAN /\ shared' \in BOOLEAN /\ crashes' \in 0 .. MaxCrashes
    BY <2>1 DEF ProjectionInv, RowsOK
  <2> QED BY <2>1, <2>2, <2>3, RowsStay
<1>2. CASE \E a \in Apis : Start(a) BY <1>2, StartKeepsRows
<1>3. CASE \E a \in Apis : Load(a) BY <1>3, LoadKeepsRows
<1>4. CASE \E a \in Apis : SkipRecorded(a) BY <1>4, SkipRecordedKeepsRows
<1>5. CASE \E a \in Apis : ReadText(a) BY <1>5, ReadTextKeepsRows
<1>6. CASE \E a \in Apis : ReadTool(a) BY <1>6, ReadToolKeepsRows
<1>7. CASE \E a \in Apis : ReadCompleted(a) BY <1>7, ReadCompletedKeepsRows
<1>8. CASE \E a \in Apis : WritePart(a) BY <1>8, WritePartKeepsRows
<1>9. CASE \E a \in Apis : RequireClientAction(a) BY <1>9, RequireClientActionKeepsRows
<1>10. CASE \E a \in Apis : CompleteRun(a) BY <1>10, CompleteRunKeepsRows
<1>11. CASE \E a \in Apis : Crash(a) BY <1>11, CrashKeepsRows
<1>12. CASE Resume BY <1>12, ResumeKeepsRows
<1> QED BY <1>1, <1>2, <1>3, <1>4, <1>5, <1>6, <1>7, <1>8, <1>9, <1>10, <1>11, <1>12 DEF Next

\* The types.
LEMMA RowsTyped ==
    ASSUME ProjectionInv
    PROVE  ProjectionTypeOK
<1>1. RowsOK /\ ProjectionsOK /\ stream \in Streams BY DEF ProjectionInv, RowsOK
<1>2. \A i \in DOMAIN stream : Event(i).type \in EventTypes BY <1>1, StreamIs DEF Events
<1>3. ASSUME NEW o \in DOMAIN parts PROVE o \in Nat /\ parts[o].key[1] \in TextKinds \cup ToolKinds
  <2>1. o \in Nat /\ parts[o].key \in TextKeys \cup ToolKeys BY <1>1 DEF RowsOK, PartsOK, PartRows
  <2> QED BY <2>1 DEF TextKeys, ToolKeys
<1>4. \A a \in Apis : /\ proj[a].pc \in {"idle", "load", "read", "write", "action", "complete"}
                      /\ proj[a].pos \in 0 .. Len(stream)
  BY <1>1 DEF ProjectionsOK, ProjectionOK
<1>5. answered \in 0 .. Cardinality(Actions)
  <2>1. IsFiniteSet(Actions) /\ Cardinality(Actions) \in Nat BY <1>1, StreamIs
  <2>2. RecordedActions \subseteq Actions BY DEF RecordedActions
  <2>3. IsFiniteSet(RecordedActions) /\ Cardinality(RecordedActions) <= Cardinality(Actions)
    BY <2>1, <2>2, FS_Subset
  <2>4. Cardinality(RecordedActions) \in Nat BY <2>3, FS_CardinalityType
  <2>5. answered \in Nat /\ answered <= Cardinality(RecordedActions)
    <3>1. answered \in Nat /\ ActionsCounted BY <1>1 DEF ProjectionInv, RowsOK
    <3>2. CASE status = "requires_action"
      <4>1. answered + 1 = Cardinality(RecordedActions) BY <3>1, <3>2 DEF ActionsCounted
      <4> QED BY <2>4, <3>1, <4>1
    <3>3. CASE status # "requires_action"
      <4>1. answered + 0 = Cardinality(RecordedActions) BY <3>1, <3>3 DEF ActionsCounted
      <4> QED BY <2>4, <3>1, <4>1
    <3> QED BY <3>2, <3>3
  <2> QED BY <2>1, <2>3, <2>4, <2>5
<1> QED BY <1>1, <1>2, <1>3, <1>4, <1>5 DEF ProjectionTypeOK, RowsOK

-----------------------------------------------------------------------------
(* One process at a time: the steps that write no rows.                    *)

\* The projection that moves is the only one, and of a run that runs.
LEMMA OnlyOne ==
    ASSUME AloneInv, NEW a \in Apis, proj[a].pc # "idle"
    PROVE  status = "running" /\ \A b \in Apis : b # a => proj[b].pc = "idle"
BY DEF AloneInv, Alone

\* Nothing is remembered without a projection.
LEMMA IdleRemembers ==
    ASSUME NEW p, p.pc \in {"idle", "load", "action"}
    PROVE  MemoryTrue(p) /\ MemoryTrue(p)'
BY DEF MemoryTrue

\* Whether a result is repeated, the stream tells.
LEMMA RepeatedStays ==
    ASSUME stream' = stream, NEW key, Repeated(key)
    PROVE  Repeated(key)'
BY DEF Repeated, Event

\* What is remembered holds as long as no row is written.
LEMMA MemoryStays ==
    ASSUME UNCHANGED <<stream, parts, log>>, NEW p, MemoryTrue(p)
    PROVE  MemoryTrue(p)'
<1>1. \A o : Snapshot(o)' = Snapshot(o) BY DEF Snapshot
<1>2. \A key : Repeated(key) => Repeated(key)' BY RepeatedStays
<1>3. \A text, current, delta, key :
         GoesOn(text, current, delta, key) => GoesOn(text, current, delta, key)'
  BY <1>2 DEF GoesOn
<1>4. \A tools : ToolsTrue(tools) => ToolsTrue(tools)' BY <1>1 DEF ToolsTrue
<1>5. p.pc = "write" => GoesOn(p.job.text, Snapshot(p.job.order), p.job.delta, p.job.key)'
  <2>1. PICK order : order = p.job.order OBVIOUS
  <2>2. PICK current : current = Snapshot(order) OBVIOUS
  <2>3. p.pc = "write" => GoesOn(p.job.text, current, p.job.delta, p.job.key)'
    BY <1>3, <2>1, <2>2 DEF MemoryTrue
  <2>4. current = Snapshot(order)' BY <1>1, <2>2
  <2> QED BY <2>1, <2>3, <2>4 DEF GoesOn
<1> QED BY <1>1, <1>4, <1>5 DEF MemoryTrue, HasSourceEvent

\* Nothing is added to a part.
LEMMA SnapshotKept ==
    ASSUME NEW o \in Nat, SnapshotTrue(o), DeltasOf(o)' = DeltasOf(o), UNCHANGED <<stream, parts>>
    PROVE  SnapshotTrue(o)'
<1>1. Snapshot(o)' = Snapshot(o) BY DEF Snapshot
<1>2. CASE Superseded(o)
  <2>1. PICK before \in Texts : DeltasOf(o) = before \o Snapshot(o) BY <1>2 DEF Superseded
  <2>2. DeltasOf(o)' = before \o Snapshot(o)' BY <1>1, <2>1
  <2>3. (o \in DOMAIN parts /\ Repeated(parts[o].key))' BY <1>2 DEF Superseded, Repeated, Event
  <2> QED BY <2>2, <2>3 DEF SnapshotTrue, Superseded
<1> QED BY <1>1, <1>2 DEF SnapshotTrue

\* A projection moves, and no row.
LEMMA AloneStays ==
    ASSUME ProjectionInv, AloneInv, NEW a \in Apis, UNCHANGED <<stream, rowVars>>,
           NEW q, proj' = [proj EXCEPT ![a] = q], MemoryTrue(q),
           q.pc # "idle" => status = "running" /\ \A b \in Apis : b # a => proj[b].pc = "idle"
    PROVE  AloneInv'
<1>1. UNCHANGED <<stream, status, parts, log, answered>> BY DEF rowVars
<1>2. proj'[a] = q /\ \A b \in Apis : b # a => proj'[b] = proj[b]
  BY DEF ProjectionInv, ProjectionsOK
<1>3. Alone'
  <2>1. \A b \in Apis : proj'[b].pc # "idle" => status = "running" BY <1>2 DEF AloneInv, Alone
  <2>2. ASSUME NEW b \in Apis, NEW c \in Apis, proj'[b].pc # "idle", proj'[c].pc # "idle" PROVE b = c
    <3>1. CASE b = a BY <1>2, <2>2, <3>1
    <3>2. CASE c = a BY <1>2, <2>2, <3>2
    <3>3. CASE b # a /\ c # a BY <1>2, <2>2, <3>3 DEF AloneInv, Alone
    <3> QED BY <3>1, <3>2, <3>3
  <2> QED BY <1>1, <2>1, <2>2 DEF Alone
<1>4. SnapshotsTrue'
  <2>1. ASSUME NEW o \in Nat PROVE SnapshotTrue(o)'
    <3>1. SnapshotTrue(o) BY DEF AloneInv, SnapshotsTrue
    <3>2. DeltasOf(o)' = DeltasOf(o) BY <1>1 DEF DeltasOf
    <3> QED BY <1>1, <3>1, <3>2, SnapshotKept
  <2> QED BY <2>1 DEF SnapshotsTrue
<1>5. ASSUME NEW b \in Apis PROVE MemoryTrue(proj[b])'
  <2>1. PICK p : p = proj'[b] OBVIOUS
  <2>2. MemoryTrue(p) BY <1>2, <2>1 DEF AloneInv
  <2>3. MemoryTrue(p)' BY <1>1, <2>2, MemoryStays
  <2> QED BY <2>1, <2>3
<1>6. ResultsRecorded' BY <1>1 DEF AloneInv, ResultsRecorded, Recorded, HasSourceEvent, Event
<1>7. WaitsForAction'
  BY <1>1 DEF AloneInv, WaitsForAction, LatestSourceEvent, RecordedActions, Recorded,
     HasSourceEvent, Actions, Event
<1> QED BY <1>3, <1>4, <1>5, <1>6, <1>7 DEF AloneInv

\* A projection ends without a row.
LEMMA EndStaysAlone ==
    ASSUME ProjectionInv, AloneInv, NEW a \in Apis, UNCHANGED <<stream, rowVars>>,
           proj' = [proj EXCEPT ![a] = IdleProjection]
    PROVE  AloneInv'
<1>1. PICK q : q = IdleProjection OBVIOUS
<1>2. q.pc = "idle" BY <1>1 DEF IdleProjection
<1>3. MemoryTrue(q) BY <1>2, IdleRemembers
<1> QED BY <1>1, <1>2, <1>3, AloneStays

\* Start.
LEMMA StartStaysAlone ==
    ASSUME ProjectionInv, AloneInv, NEW a \in Apis, Start(a), ~shared'
    PROVE  AloneInv'
<1>1. PICK q : q = Holding("load", LatestSourceEvent, [k \in TextKinds |-> <<>>],
                           [k \in TextKinds |-> NewStripper], NoTools, NoJob)
  OBVIOUS
<1>2. proj' = [proj EXCEPT ![a] = q] BY <1>1, StartIs DEF ProjectionInv
<1>3. q.pc = "load" BY <1>1 DEF Holding
<1>4. MemoryTrue(q) BY <1>3, IdleRemembers
<1>5. status = "running" /\ \A b \in Apis : b # a => proj[b].pc = "idle" BY DEF Start
<1>6. UNCHANGED <<stream, rowVars>> BY DEF Start
<1> QED BY <1>2, <1>4, <1>5, <1>6, AloneStays

\* Load: what is read back is what the parts are.
LEMMA LoadStaysAlone ==
    ASSUME ProjectionInv, AloneInv, NEW a \in Apis, Load(a)
    PROVE  AloneInv'
<1>1. RowsOK /\ ProjectionsOK /\ PartsOK /\ UNCHANGED <<stream, rowVars>> /\ proj[a].pc # "idle"
  BY DEF ProjectionInv, RowsOK, Load
<1>2. status = "running" /\ \A b \in Apis : b # a => proj[b].pc = "idle" BY <1>1, OnlyOne
<1>3. PICK texts : texts = [k \in TextKinds |-> PartText(k)] OBVIOUS
<1>4. PICK tools : tools = LoadTools OBVIOUS
<1>5. PICK q : q = Holding("read", proj[a].pos, texts, proj[a].strippers, tools, proj[a].job) OBVIOUS
<1>6. proj' = [proj EXCEPT ![a] = q] BY <1>1, <1>2, <1>3, <1>4, <1>5, LoadIs, Zenon
<1>7. q.pc = "read" /\ q.texts = texts /\ q.tools = tools BY <1>5 DEF Holding
<1>8. ToolsTrue(tools)
  <2>1. /\ tools.used = DOMAIN parts
        /\ \A key \in DOMAIN tools.entries :
              /\ tools.entries[key].order \in DOMAIN parts
              /\ parts[tools.entries[key].order].key = key
              /\ tools.entries[key].text = parts[tools.entries[key].order].text
    BY <1>1, <1>4, LoadToolsIs
  <2> QED BY <2>1 DEF ToolsTrue, Snapshot
<1>9. \A k \in TextKinds : texts[k] = Snapshot(getSinglePartOrder[k])
  BY <1>3 DEF PartText, Snapshot
<1>10. MemoryTrue(q) BY <1>7, <1>8, <1>9 DEF MemoryTrue
<1> QED BY <1>1, <1>2, <1>6, <1>10, AloneStays

\* What a projection that reads remembers.
LEMMA ReadingRemembers ==
    ASSUME AloneInv, NEW a \in Apis, NEW p, p = proj[a], p.pc = "read"
    PROVE  ToolsTrue(p.tools) /\ \A k \in TextKinds : p.texts[k] = Snapshot(getSinglePartOrder[k])
<1>1. MemoryTrue(p) BY DEF AloneInv
<1> QED BY <1>1 DEF MemoryTrue

\* SkipRecorded.
LEMMA SkipRecordedStaysAlone ==
    ASSUME ProjectionInv, AloneInv, NEW a \in Apis, SkipRecorded(a)
    PROVE  AloneInv'
<1>1. RowsOK /\ ProjectionsOK /\ UNCHANGED <<stream, rowVars>> /\ proj[a].pc = "read"
  BY DEF ProjectionInv, SkipRecorded, Reading
<1>2. status = "running" /\ \A b \in Apis : b # a => proj[b].pc = "idle" BY <1>1, OnlyOne
<1>3. CASE Event(Current(a)).type = "action"
  <2>1. proj' = [proj EXCEPT ![a] = IdleProjection] BY <1>1, <1>3, SkipRecordedIs
  <2> QED BY <1>1, <2>1, EndStaysAlone
<1>4. CASE Event(Current(a)).type # "action"
  <2>1. PICK p : p = proj[a] OBVIOUS
  <2>2. PICK q : q = Holding("read", Current(a), p.texts, p.strippers, p.tools, p.job) OBVIOUS
  <2>3. proj' = [proj EXCEPT ![a] = q] BY <1>1, <1>4, <2>1, <2>2, SkipRecordedIs, Zenon
  <2>4. q.pc = "read" /\ q.texts = p.texts /\ q.tools = p.tools BY <2>2 DEF Holding
  <2>5. ToolsTrue(p.tools) /\ \A k \in TextKinds : p.texts[k] = Snapshot(getSinglePartOrder[k])
    BY <1>1, <2>1, ReadingRemembers
  <2>6. MemoryTrue(q) BY <2>4, <2>5 DEF MemoryTrue
  <2> QED BY <1>1, <1>2, <2>3, <2>6, AloneStays
<1> QED BY <1>3, <1>4

\* ReadText: what is let through goes behind the text there is.
LEMMA ReadTextStaysAlone ==
    ASSUME ProjectionInv, AloneInv, NEW a \in Apis, ReadText(a)
    PROVE  AloneInv'
<1>1. RowsOK /\ ProjectionsOK /\ UNCHANGED <<stream, rowVars>> /\ Reading(a, TextKinds)
  BY DEF ProjectionInv, ReadText
<1>2. proj[a].pc = "read" BY <1>1 DEF Reading
<1>3. status = "running" /\ \A b \in Apis : b # a => proj[b].pc = "idle" BY <1>2, OnlyOne
<1>4. PICK kind, result, text, texts, strippers :
         /\ TextRead(a, kind, result, text, texts, strippers)
         /\ proj' = [proj EXCEPT ![a] =
              IF result.out = <<>>
              THEN Holding("read", Current(a), texts, strippers, proj[a].tools, proj[a].job)
              ELSE Holding("write", proj[a].pos, texts, strippers, proj[a].tools,
                           [step |-> "text", src |-> Src(Current(a), ""), key |-> <<kind, "">>,
                            order |-> getSinglePartOrder[kind], text |-> text, delta |-> result.out])]
  BY <1>1, ReadTextIs
<1>5. kind \in TextKinds /\ result.out \in Texts BY <1>1, <1>4, ReadTextTyped
<1>6. PICK p : p = proj[a] OBVIOUS
<1>7. p.texts \in [TextKinds -> Texts] BY <1>6, ProjectionTyped
<1>8. ToolsTrue(p.tools) /\ \A k \in TextKinds : p.texts[k] = Snapshot(getSinglePartOrder[k])
  BY <1>2, <1>6, ReadingRemembers
<1>9. text = p.texts[kind] \o result.out /\ texts = [p.texts EXCEPT ![kind] = text]
  BY <1>4, <1>6, Zenon DEF TextRead
<1>10. texts[kind] = text /\ \A k \in TextKinds : k # kind => texts[k] = p.texts[k]
  BY <1>5, <1>7, <1>9
<1>11. CASE result.out = <<>>
  <2>1. PICK q : q = Holding("read", Current(a), texts, strippers, p.tools, p.job) OBVIOUS
  <2>2. proj' = [proj EXCEPT ![a] = q] BY <1>4, <1>6, <1>11, <2>1, Zenon
  <2>3. q.pc = "read" /\ q.texts = texts /\ q.tools = p.tools BY <2>1 DEF Holding
  <2>4. text = p.texts[kind]
    <3>1. p.texts[kind] \in Texts BY <1>5, <1>7
    <3> QED BY <1>5, <1>9, <1>11, <3>1, Joined
  <2>5. \A k \in TextKinds : texts[k] = Snapshot(getSinglePartOrder[k]) BY <1>8, <1>10, <2>4
  <2>6. MemoryTrue(q) BY <1>8, <2>3, <2>5 DEF MemoryTrue
  <2> QED BY <1>1, <1>3, <2>2, <2>6, AloneStays
<1>12. CASE result.out # <<>>
  <2>1. PICK job : job = [step |-> "text", src |-> Src(Current(a), ""), key |-> <<kind, "">>,
                          order |-> getSinglePartOrder[kind], text |-> text, delta |-> result.out]
    OBVIOUS
  <2>2. /\ job.src = Src(Current(a), "") /\ job.key = <<kind, "">>
        /\ job.order = getSinglePartOrder[kind] /\ job.text = text /\ job.delta = result.out
    BY <2>1
  <2>3. job.key[1] = kind
    <3>1. PICK key : key = <<kind, "">> OBVIOUS
    <3>2. key[1] = kind BY <3>1
    <3> QED BY <2>2, <3>1, <3>2
  <2>4. PICK q : q = Holding("write", p.pos, texts, strippers, p.tools, job) OBVIOUS
  <2>5. proj' = [proj EXCEPT ![a] = q] BY <1>4, <1>6, <1>12, <2>1, <2>4, Zenon
  <2>6. q.pc = "write" /\ q.texts = texts /\ q.tools = p.tools /\ q.job = job BY <2>4 DEF Holding
  <2>7. ~HasSourceEvent(job.src) BY <2>2 DEF ReadText
  <2>8. GoesOn(job.text, Snapshot(job.order), job.delta, job.key)
    BY <1>5, <1>8, <1>9, <2>2 DEF GoesOn
  <2>9. \A k \in TextKinds :
           /\ k # kind => texts[k] = Snapshot(getSinglePartOrder[k])
           /\ k = kind => texts[k] = job.text
    BY <1>8, <1>10, <2>2
  <2>10. MemoryTrue(q) BY <1>8, <2>3, <2>6, <2>7, <2>8, <2>9 DEF MemoryTrue
  <2> QED BY <1>1, <1>3, <2>5, <2>10, AloneStays
<1> QED BY <1>11, <1>12

\* A result that has a part already when it is read is repeated.
LEMMA ResultIsNew ==
    ASSUME ProjectionInv, AloneInv, NEW i \in DOMAIN stream, ~Recorded(i), Event(i).type = "result",
           NEW o \in DOMAIN parts, parts[o].key = <<"result", Event(i).call>>
    PROVE  Repeated(parts[o].key)
<1>1. PICK call : call = Event(i).call OBVIOUS
<1>2. PICK key : key = <<"result", call>> OBVIOUS
<1>3. parts[o].key = key /\ key[1] = "result" /\ key[2] = call BY <1>1, <1>2
<1>4. PICK j \in DOMAIN stream : /\ Event(j).type \in {"result", "action"} /\ Recorded(j)
                                 /\ Event(j).call = call
  BY <1>3 DEF AloneInv, ResultsRecorded
<1>5. i # j BY <1>4
<1>6. {Event(i).type, Event(j).type} \subseteq {"result", "action"} BY <1>4
<1> QED BY <1>1, <1>3, <1>4, <1>5, <1>6 DEF Repeated

\* The entry of a tool event, known or new, has the text of its part.
LEMMA EntryRemembers ==
    ASSUME ProjectionInv, NEW old, ToolsOK(old), ToolsTrue(old), NEW key \in ToolKeys,
           NEW tools, tools = GetOrCreateEntry(old, key)
    PROVE  ToolsTrue(tools)
<1>1. ToolsOK(tools) /\ ToolsHave(tools, old, key) BY GetOrCreateEntryIs
<1>2. ASSUME NEW k \in DOMAIN tools.entries
      PROVE  /\ tools.entries[k].text = Snapshot(tools.entries[k].order)
             /\ tools.entries[k].order \in DOMAIN parts => parts[tools.entries[k].order].key = k
  <2>1. CASE k \in DOMAIN old.entries BY <1>1, <2>1 DEF ToolsHave, ToolsTrue
  <2>2. CASE k \notin DOMAIN old.entries
    <3>1. k = key /\ tools.entries[k].text = <<>> /\ tools.entries[k].order \notin old.used
      BY <1>1, <2>2 DEF ToolsHave
    <3>2. tools.entries[k].order >= ToolPartOrderStart BY <1>1 DEF ToolsOK
    <3>3. tools.entries[k].order \notin DOMAIN parts BY <3>1, <3>2 DEF ToolsTrue
    <3> QED BY <3>1, <3>3 DEF Snapshot
  <2> QED BY <2>1, <2>2
<1>3. \A o \in DOMAIN parts : o >= ToolPartOrderStart => o \in tools.used
  BY <1>1 DEF ToolsHave, ToolsTrue
<1> QED BY <1>2, <1>3 DEF ToolsTrue

\* ReadTool: a snapshot goes on from the part's text.
LEMMA ReadToolStaysAlone ==
    ASSUME ProjectionInv, AloneInv, NEW a \in Apis, ReadTool(a)
    PROVE  AloneInv'
<1>1. RowsOK /\ ProjectionsOK /\ UNCHANGED <<stream, rowVars>> /\ Reading(a, ToolEvents)
  BY DEF ProjectionInv, ReadTool
<1>2. proj[a].pc = "read" BY <1>1 DEF Reading
<1>3. status = "running" /\ \A b \in Apis : b # a => proj[b].pc = "idle" BY <1>2, OnlyOne
<1>4. PICK p : p = proj[a] OBVIOUS
<1>5. PICK i : i = Current(a) OBVIOUS
<1>6. PICK event, key, tools, entry, text, job :
         /\ ToolRead(a, event, key, tools, entry, text, job)
         /\ proj' = [proj EXCEPT ![a] =
              Holding("write", proj[a].pos, proj[a].texts, proj[a].strippers, tools, job)]
  BY <1>1, ReadToolIs
<1>7. i \in DOMAIN stream /\ event \in Events /\ event.type \in ToolEvents /\ Event(i) = event
  <2>1. /\ Current(a) \in DOMAIN stream /\ Event(Current(a)) \in Events
        /\ Event(Current(a)).type \in ToolEvents
    BY <1>1, ReadingIs
  <2>2. event = Event(Current(a)) BY <1>6 DEF ToolRead
  <2> QED BY <1>5, <2>1, <2>2
<1>8. key = ToolKey(event) BY <1>6 DEF ToolRead
<1>9. key \in ToolKeys BY <1>7, <1>8, ToolKeyIs
<1>10. tools = GetOrCreateEntry(p.tools, key) BY <1>4, <1>6 DEF ToolRead
<1>11. ToolsOK(p.tools) BY <1>4, ProjectionTyped
<1>12. ToolsTrue(p.tools) /\ \A k \in TextKinds : p.texts[k] = Snapshot(getSinglePartOrder[k])
  BY <1>2, <1>4, ReadingRemembers
<1>13. ToolsTrue(tools) BY <1>9, <1>10, <1>11, <1>12, EntryRemembers
<1>14. ToolsOK(tools) /\ key \in DOMAIN tools.entries
  BY <1>9, <1>10, <1>11, GetOrCreateEntryIs DEF ToolsHave
<1>15. entry = tools.entries[key] BY <1>6 DEF ToolRead
<1>16. entry.order \in Nat /\ entry.text \in Texts BY <1>14, <1>15 DEF ToolsOK
<1>17. entry.text = Snapshot(entry.order) BY <1>13, <1>14, <1>15 DEF ToolsTrue
<1>18. ~HasSourceEvent(Src(i, "")) BY <1>5 DEF ReadTool
<1>19. event.type = "result" /\ entry.text # <<>> => Repeated(key)
  <2>1. SUFFICES ASSUME event.type = "result", entry.text # <<>> PROVE Repeated(key) OBVIOUS
  <2>2. entry.order \in DOMAIN parts BY <1>17, <2>1 DEF Snapshot
  <2>3. parts[entry.order].key = key BY <1>13, <1>14, <1>15, <2>2 DEF ToolsTrue
  <2>4. key = <<"result", Event(i).call>> BY <1>7, <1>8, <2>1 DEF ToolKey
  <2>5. ~Recorded(i) BY <1>18 DEF Recorded
  <2>6. PICK o : o = entry.order OBVIOUS
  <2>7. Repeated(parts[o].key) BY <1>7, <2>1, <2>2, <2>3, <2>4, <2>5, <2>6, ResultIsNew
  <2> QED BY <2>3, <2>6, <2>7
<1>20. text = NextToolText(entry.text, event) BY <1>6 DEF ToolRead
<1>21. GoesOn(text, entry.text, DeltaOf(entry.text, text), key)
  <2>1. PICK current : current = entry.text OBVIOUS
  <2>2. text = current \o DeltaOf(current, text)
           \/ (event.type = "result" /\ current # <<>> /\ text = DeltaOf(current, text))
    BY <1>7, <1>16, <1>20, <2>1, NextToolTextIs
  <2> QED BY <1>19, <2>1, <2>2 DEF GoesOn
<1>22. PICK src, delta : src = Src(i, IF event.type = "action" THEN "tool" ELSE "")
                         /\ delta = DeltaOf(entry.text, text)
  OBVIOUS
<1>23. job = [step |-> event.type, key |-> key, order |-> entry.order, text |-> text,
              src |-> src, delta |-> delta]
  BY <1>5, <1>6, <1>22 DEF ToolRead
<1>24. /\ job.step = event.type /\ job.key = key /\ job.order = entry.order /\ job.text = text
       /\ job.src = src /\ job.delta = delta
  BY <1>23
<1>25. PICK q : q = Holding("write", p.pos, p.texts, p.strippers, tools, job) OBVIOUS
<1>26. q.pc = "write" /\ q.texts = p.texts /\ q.tools = tools /\ q.job = job BY <1>25 DEF Holding
<1>27. GoesOn(job.text, Snapshot(job.order), job.delta, job.key) BY <1>17, <1>21, <1>22, <1>24
<1>28. key[1] \notin TextKinds BY <1>9 DEF ToolKeys, ToolKinds, TextKinds
<1>29. job.step # "action" => ~HasSourceEvent(job.src) BY <1>18, <1>22, <1>24
<1>30. MemoryTrue(q) BY <1>12, <1>13, <1>24, <1>26, <1>27, <1>28, <1>29 DEF MemoryTrue
<1>31. proj' = [proj EXCEPT ![a] = q] BY <1>4, <1>6, <1>25, Zenon
<1> QED BY <1>1, <1>3, <1>30, <1>31, AloneStays

\* ReadCompleted: what was held back goes behind the texts.
LEMMA ReadCompletedStaysAlone ==
    ASSUME ProjectionInv, AloneInv, NEW a \in Apis, ReadCompleted(a)
    PROVE  AloneInv'
<1>1. RowsOK /\ ProjectionsOK /\ UNCHANGED <<stream, rowVars>> /\ Reading(a, {"completed"})
  BY DEF ProjectionInv, ReadCompleted
<1>2. proj[a].pc = "read" BY <1>1 DEF Reading
<1>3. status = "running" /\ \A b \in Apis : b # a => proj[b].pc = "idle" BY <1>2, OnlyOne
<1>4. CASE HasSourceEvent(Src(Current(a), "message"))
  <2>1. proj' = [proj EXCEPT ![a] = IdleProjection] BY <1>1, <1>4, ReadCompletedIs
  <2> QED BY <1>1, <2>1, EndStaysAlone
<1>5. CASE ~HasSourceEvent(Src(Current(a), "message"))
  <2>1. PICK p : p = proj[a] OBVIOUS
  <2>2. PICK texts, strippers :
           /\ texts = [k \in TextKinds |-> proj[a].texts[k] \o Flush(proj[a].strippers[k]).out]
           /\ strippers = [k \in TextKinds |-> [buffer |-> Flush(proj[a].strippers[k]).out, inside |-> FALSE]]
    OBVIOUS
  <2>3. PICK q : q = Holding("complete", p.pos, texts, strippers, p.tools, p.job) OBVIOUS
  <2>4. proj' = [proj EXCEPT ![a] = q] BY <1>1, <1>5, <2>1, <2>2, <2>3, ReadCompletedIs, Zenon
  <2>5. q.pc = "complete" /\ q.texts = texts /\ q.strippers = strippers BY <2>3 DEF Holding
  <2>6. \A k \in TextKinds : p.texts[k] = Snapshot(getSinglePartOrder[k])
    BY <1>2, <2>1, ReadingRemembers
  <2>7. ASSUME NEW k \in TextKinds
        PROVE  texts[k] = Snapshot(getSinglePartOrder[k]) \o strippers[k].buffer
    <3>1. PICK out : out = Flush(proj[a].strippers[k]).out OBVIOUS
    <3>2. strippers[k] = [buffer |-> out, inside |-> FALSE] BY <2>2, <3>1
    <3>3. texts[k] = p.texts[k] \o out BY <2>1, <2>2, <3>1
    <3>4. strippers[k].buffer = out BY <3>2
    <3>5. p.texts[k] = Snapshot(getSinglePartOrder[k]) BY <2>6
    <3> QED BY <3>3, <3>4, <3>5, Zenon
  <2>8. MemoryTrue(q) BY <2>5, <2>7 DEF MemoryTrue
  <2> QED BY <1>1, <1>3, <2>4, <2>8, AloneStays
<1> QED BY <1>4, <1>5

-----------------------------------------------------------------------------
(* One process at a time: the steps that write rows.                       *)

\* The snapshots and the log of a part that an entry goes to.
LEMMA SnapshotsGrow ==
    ASSUME ProjectionInv, SnapshotsTrue, NEW e \in LogEntries, log' = Append(log, e), stream' = stream,
           e.order \in Nat, e.order \in DOMAIN parts', Snapshot(e.order)' \in Texts,
           GoesOn(Snapshot(e.order)', Snapshot(e.order), e.delta, parts'[e.order].key),
           \A o \in DOMAIN parts : o \in DOMAIN parts' /\ parts'[o].key = parts[o].key,
           \A o \in Nat : o # e.order => Snapshot(o)' = Snapshot(o)
    PROVE  SnapshotsTrue'
<1>1. PICK l, m : l = log /\ m = log' OBVIOUS
<1>2. l \in Seq(LogEntries) /\ m = Append(l, e) BY <1>1 DEF ProjectionInv, RowsOK
<1>3. ASSUME NEW o \in Nat PROVE SnapshotTrue(o)'
  <2>1. DeltasOf(o) = DeltasIn(l, o) /\ DeltasOf(o)' = DeltasIn(m, o)
    BY <1>1 DEF DeltasOf, DeltasIn
  <2>2. DeltasIn(m, o) = IF e.order = o THEN DeltasIn(l, o) \o e.delta ELSE DeltasIn(l, o)
    BY <1>2, DeltasAppended
  <2>3. SnapshotTrue(o) BY DEF SnapshotsTrue
  <2>4. DeltasOf(o) \in Texts BY <1>2, <2>1, DeltasAppended
  <2>5. e.delta \in Texts BY DEF LogEntries
  <2>6. \A key : Repeated(key) => Repeated(key)' BY RepeatedStays
  <2>7. CASE o # e.order
    <3>1. DeltasOf(o)' = DeltasOf(o) /\ Snapshot(o)' = Snapshot(o) BY <2>1, <2>2, <2>7
    <3>2. CASE Superseded(o)
      <4>1. PICK before \in Texts : DeltasOf(o) = before \o Snapshot(o) BY <3>2 DEF Superseded
      <4>2. DeltasOf(o)' = before \o Snapshot(o)' BY <3>1, <4>1
      <4>3. PICK key : key = parts[o].key OBVIOUS
      <4>4. o \in DOMAIN parts' /\ parts'[o].key = key /\ Repeated(key)'
        BY <2>6, <3>2, <4>3 DEF Superseded
      <4>5. Repeated(parts[o].key)' BY <4>4 DEF Repeated
      <4> QED BY <4>2, <4>4, <4>5 DEF SnapshotTrue, Superseded
    <3> QED BY <2>3, <3>1, <3>2 DEF SnapshotTrue
  <2>8. CASE o = e.order
    <3>1. DeltasOf(o)' = DeltasOf(o) \o e.delta BY <2>1, <2>2, <2>8
    <3>2. PICK old, new, key : old = Snapshot(o) /\ new = Snapshot(o)' /\ key = parts'[o].key OBVIOUS
    <3>3. o \in DOMAIN parts' /\ GoesOn(new, old, e.delta, key) BY <2>8, <3>2
    <3>4. CASE new = old \o e.delta
      <4>1. CASE DeltasOf(o) = old BY <3>1, <3>2, <3>4, <4>1 DEF SnapshotTrue
      <4>2. CASE Superseded(o)
        <5>1. PICK before \in Texts : DeltasOf(o) = before \o old BY <3>2, <4>2 DEF Superseded
        <5>2. old \in Texts
          <6>1. o \in DOMAIN parts /\ PartsOK BY <4>2 DEF Superseded, ProjectionInv, RowsOK
          <6> QED BY <3>2, <6>1 DEF Snapshot, PartsOK, PartRows
        <5>3. (before \o old) \o e.delta = before \o (old \o e.delta)
          BY <2>5, <5>2, JoinedAnyhow
        <5>4. DeltasOf(o)' = before \o Snapshot(o)' BY <3>1, <3>2, <3>4, <5>1, <5>3
        <5>5. PICK at : at = parts[o].key OBVIOUS
        <5>6. parts'[o].key = at /\ Repeated(at)' BY <2>6, <4>2, <5>5 DEF Superseded
        <5>7. Repeated(parts[o].key)' BY <5>6 DEF Repeated
        <5> QED BY <3>3, <5>4, <5>7 DEF SnapshotTrue, Superseded
      <4> QED BY <2>3, <3>2, <4>1, <4>2 DEF SnapshotTrue
    <3>5. CASE new = e.delta /\ Repeated(key)
      <4>1. DeltasOf(o)' = DeltasOf(o) \o Snapshot(o)' BY <3>1, <3>2, <3>5
      <4>2. Repeated(key)' BY <2>6, <3>5
      <4>3. PICK before \in Texts : before = DeltasOf(o) BY <2>4
      <4>4. DeltasOf(o)' = before \o Snapshot(o)' BY <4>1, <4>3
      <4> QED BY <3>2, <3>3, <4>2, <4>4 DEF SnapshotTrue, Superseded
    <3> QED BY <3>3, <3>4, <3>5 DEF GoesOn
  <2> QED BY <2>7, <2>8
<1> QED BY <1>3 DEF SnapshotsTrue

\* An entry that goes to no part.
LEMMA SnapshotsStay ==
    ASSUME ProjectionInv, SnapshotsTrue, NEW e \in LogEntries, log' = Append(log, e),
           e.order = NoPart, parts' = parts, stream' = stream
    PROVE  SnapshotsTrue'
<1>1. PICK l, m : l = log /\ m = log' OBVIOUS
<1>2. l \in Seq(LogEntries) /\ m = Append(l, e) BY <1>1 DEF ProjectionInv, RowsOK
<1>3. ASSUME NEW o \in Nat PROVE SnapshotTrue(o)'
  <2>1. DeltasOf(o) = DeltasIn(l, o) /\ DeltasOf(o)' = DeltasIn(m, o)
    BY <1>1 DEF DeltasOf, DeltasIn
  <2>2. DeltasIn(m, o) = IF e.order = o THEN DeltasIn(l, o) \o e.delta ELSE DeltasIn(l, o)
    BY <1>2, DeltasAppended
  <2>3. e.order # o BY DEF NoPart
  <2>4. SnapshotTrue(o) BY DEF SnapshotsTrue
  <2>5. DeltasOf(o)' = DeltasOf(o) BY <2>1, <2>2, <2>3
  <2> QED BY <2>4, <2>5, SnapshotKept
<1> QED BY <1>3 DEF SnapshotsTrue

\* The orders of text and reasoning are below those of tools.
LEMMA SingleOrders ==
    /\ \A k \in TextKinds : getSinglePartOrder[k] \in Nat /\ ~(getSinglePartOrder[k] >= ToolPartOrderStart)
    /\ \A k, l \in TextKinds : getSinglePartOrder[k] = getSinglePartOrder[l] => k = l
<1>1. getSinglePartOrder["reasoning"] = 0 /\ getSinglePartOrder["text"] = 1
  BY DEF getSinglePartOrder
<1>2. \A k \in TextKinds : k = "reasoning" \/ k = "text" BY DEF TextKinds
<1> QED BY <1>1, <1>2 DEF ToolPartOrderStart

\* A pair has its halves.
LEMMA PairIs ==
    ASSUME NEW S, NEW T, NEW pair \in S \X T
    PROVE  pair = <<pair[1], pair[2]>> /\ pair[1] \in S /\ pair[2] \in T
OBVIOUS

\* A part at one of these orders is the text or the reasoning.
LEMMA SingleParts ==
    ASSUME PartsOK, NEW kind \in TextKinds, NEW o \in DOMAIN parts, o = getSinglePartOrder[kind],
           NEW single, single = <<kind, "">>
    PROVE  parts[o].key = single
<1>1. PICK key : key = parts[o].key OBVIOUS
<1>2. key \in TextKeys \cup ToolKeys /\ OrderOf(o, key) BY <1>1 DEF PartsOK, PartRows
<1>3. key[1] \in TextKinds /\ o = getSinglePartOrder[key[1]] BY <1>2, SingleOrders DEF OrderOf
<1>4. key[1] = kind BY <1>3, SingleOrders
<1>5. key \in TextKeys
  <2>1. \A k \in ToolKeys : k[1] \notin TextKinds BY DEF ToolKeys, ToolKinds, TextKinds
  <2> QED BY <1>2, <1>3, <2>1
<1>6. key = <<key[1], key[2]>> /\ key[2] = ""
  <2>1. PICK second : second = {""} OBVIOUS
  <2>2. key \in TextKinds \X second BY <1>5, <2>1 DEF TextKeys
  <2>3. key = <<key[1], key[2]>> /\ key[2] \in second BY <2>2, PairIs
  <2> QED BY <2>1, <2>3
<1>7. key = <<kind, "">> BY <1>4, <1>6, Zenon
<1> QED BY <1>1, <1>7

\* The part that a job goes to, if there is one, has its key.
LEMMA JobKeepsIdentity ==
    ASSUME ProjectionInv, AloneInv, NEW a \in Apis, proj[a].pc = "write", NEW job, job = proj[a].job,
           job.order \in DOMAIN parts
    PROVE  parts[job.order].key = job.key
<1>1. PICK event : event = Event(Current(a)) OBVIOUS
<1>2. /\ event.type \in TextKinds \cup ToolEvents
      /\ event.type \in TextKinds =>
            job.key = <<event.type, "">> /\ job.order = getSinglePartOrder[event.type]
      /\ event.type \in ToolEvents =>
            job.key \in DOMAIN proj[a].tools.entries /\ job.order = proj[a].tools.entries[job.key].order
  BY <1>1, JobIs
<1>3. CASE event.type \in TextKinds
  <2>1. PICK kind \in TextKinds : kind = event.type BY <1>3
  <2>2. PICK o, single : o = job.order /\ single = <<kind, "">> OBVIOUS
  <2>3. o = getSinglePartOrder[kind] /\ job.key = single BY <1>2, <1>3, <2>1, <2>2
  <2>4. PartsOK BY DEF ProjectionInv, RowsOK
  <2>5. parts[o].key = single BY <2>2, <2>3, <2>4, SingleParts
  <2> QED BY <2>2, <2>3, <2>5
<1>4. CASE event.type \in ToolEvents
  <2>1. MemoryTrue(proj[a]) BY DEF AloneInv
  <2>2. ToolsTrue(proj[a].tools) BY <2>1 DEF MemoryTrue
  <2> QED BY <1>2, <1>4, <2>2 DEF ToolsTrue
<1> QED BY <1>2, <1>3, <1>4

\* What is recorded of results stays.
LEMMA ResultsStay ==
    ASSUME ProjectionInv, ResultsRecorded, NEW e \in LogEntries, log' = Append(log, e), stream' = stream,
           \A o \in DOMAIN parts' :
              \/ o \in DOMAIN parts /\ parts'[o].key = parts[o].key
              \/ parts'[o].key[1] = "result" =>
                    \E j \in DOMAIN stream : /\ Event(j).type \in {"result", "action"}
                                             /\ Recorded(j) \/ e.src = Src(j, "")
                                             /\ Event(j).call = parts'[o].key[2]
    PROVE  ResultsRecorded'
<1>1. log \in Seq(LogEntries) BY DEF ProjectionInv, RowsOK
<1>2. \A j : Recorded(j)' <=> Recorded(j) \/ e.src = Src(j, "") BY <1>1, RecordedAppended
<1>3. ASSUME NEW o \in DOMAIN parts', parts'[o].key[1] = "result"
      PROVE  \E j \in DOMAIN stream : /\ Event(j).type \in {"result", "action"} /\ Recorded(j)'
                                      /\ Event(j).call = parts'[o].key[2]
  <2>1. CASE o \in DOMAIN parts /\ parts'[o].key = parts[o].key
    <3>1. \E j \in DOMAIN stream : /\ Event(j).type \in {"result", "action"} /\ Recorded(j)
                                   /\ Event(j).call = parts[o].key[2]
      BY <1>3, <2>1 DEF ResultsRecorded
    <3> QED BY <1>2, <2>1, <3>1
  <2>2. CASE ~(o \in DOMAIN parts /\ parts'[o].key = parts[o].key)
    <3>1. \E j \in DOMAIN stream : /\ Event(j).type \in {"result", "action"}
                                   /\ Recorded(j) \/ e.src = Src(j, "")
                                   /\ Event(j).call = parts'[o].key[2]
      BY <1>3, <2>2
    <3> QED BY <1>2, <3>1
  <2> QED BY <2>1, <2>2
<1> QED BY <1>3 DEF ResultsRecorded, Event

\* The snapshots when a part is written.
LEMMA WrittenSnapshots ==
    ASSUME ProjectionInv, NEW a \in Apis, proj[a].pc = "write", NEW job, job = proj[a].job,
           Committed(a, job)
    PROVE  /\ Snapshot(job.order)' = job.text /\ job.order \in DOMAIN parts'
           /\ parts'[job.order].key = job.key
           /\ \A o \in DOMAIN parts' : o # job.order => o \in DOMAIN parts /\ parts'[o] = parts[o]
           /\ \A o \in Nat : o # job.order => Snapshot(o)' = Snapshot(o)
<1>1. /\ job \in Jobs /\ job.key \in TextKeys \cup ToolKeys /\ OrderOf(job.order, job.key)
  BY JobIs
<1>2. job.order \in Nat /\ job.text \in Texts BY <1>1 DEF Jobs
<1>3. PICK order, key, text : order = job.order /\ key = job.key /\ text = job.text OBVIOUS
<1>4. Upsert(order, key, text) BY <1>3 DEF Committed
<1>5. PartsOK BY DEF ProjectionInv, RowsOK
<1>6. /\ DOMAIN parts' = DOMAIN parts \cup {order} /\ parts'[order] = [key |-> key, text |-> text]
      /\ \A o \in DOMAIN parts : o # order => parts'[o] = parts[o]
  BY <1>1, <1>2, <1>3, <1>4, <1>5, PartPut
<1>7. parts'[order].key = key /\ parts'[order].text = text BY <1>6
<1>8. Snapshot(order)' = text BY <1>6, <1>7 DEF Snapshot
<1>9. ASSUME NEW o \in Nat, o # order PROVE Snapshot(o)' = Snapshot(o) BY <1>6, <1>9 DEF Snapshot
<1> QED BY <1>3, <1>6, <1>7, <1>8, <1>9

\* What a projection remembers once its part is written.
LEMMA WrittenRemembers ==
    ASSUME ProjectionInv, AloneInv, NEW a \in Apis, proj[a].pc = "write", NEW job, NEW tools,
           PartWritten(a, job, tools), Committed(a, job), ~HasSourceEvent(job.src),
           NEW q, q.pc = "read", q.texts = proj[a].texts, q.tools = tools
    PROVE  MemoryTrue(q)'
<1>1. PICK p : p = proj[a] OBVIOUS
<1>2. p.pc = "write" /\ p.job = job BY <1>1 DEF PartWritten
<1>3. MemoryTrue(p) BY <1>1 DEF AloneInv
<1>4. /\ ToolsTrue(p.tools)
      /\ \A k \in TextKinds :
            /\ job.key[1] # k => p.texts[k] = Snapshot(getSinglePartOrder[k])
            /\ job.key[1] = k => p.texts[k] = job.text
  BY <1>2, <1>3 DEF MemoryTrue
<1>5. PICK event : event = Event(Current(a)) OBVIOUS
<1>6. /\ event.type \in TextKinds \cup ToolEvents /\ job \in Jobs
      /\ event.type \in TextKinds =>
            job.step = "text" /\ job.key = <<event.type, "">> /\ job.order = getSinglePartOrder[event.type]
      /\ event.type \in ToolEvents =>
            /\ job.step # "text" /\ job.key \in ToolKeys /\ job.order >= ToolPartOrderStart
            /\ job.key \in DOMAIN p.tools.entries /\ job.order = p.tools.entries[job.key].order
  BY <1>1, <1>2, <1>5, JobIs
<1>7. job.order \in Nat /\ job.text \in Texts BY <1>6 DEF Jobs
<1>8. /\ Snapshot(job.order)' = job.text /\ job.order \in DOMAIN parts'
      /\ parts'[job.order].key = job.key
      /\ \A o \in DOMAIN parts' : o # job.order => o \in DOMAIN parts /\ parts'[o] = parts[o]
      /\ \A o \in Nat : o # job.order => Snapshot(o)' = Snapshot(o)
  BY <1>1, <1>2, WrittenSnapshots
<1>9. ToolsOK(p.tools) BY <1>1, ProjectionTyped
<1>10. \A key \in DOMAIN p.tools.entries :
          p.tools.entries[key].order \in Nat /\ p.tools.entries[key].order >= ToolPartOrderStart
  BY <1>9 DEF ToolsOK
<1>11. CASE event.type \in TextKinds
  <2>1. PICK kind \in TextKinds : kind = event.type BY <1>11
  <2>2. job.key[1] = kind
    <3>1. PICK key : key = <<kind, "">> OBVIOUS
    <3>2. key[1] = kind BY <3>1
    <3> QED BY <1>6, <2>1, <3>1, <3>2
  <2>3. job.order = getSinglePartOrder[kind] /\ job.step = "text" BY <1>6, <2>1
  <2>4. tools = p.tools BY <1>1, <2>3 DEF PartWritten
  <2>5. ~(job.order >= ToolPartOrderStart) BY <2>3, SingleOrders
  <2>6. ASSUME NEW k \in TextKinds PROVE q.texts[k] = Snapshot(getSinglePartOrder[k])'
    <3>1. CASE k = kind BY <1>1, <1>4, <1>8, <2>2, <2>3, <3>1
    <3>2. CASE k # kind
      <4>1. getSinglePartOrder[k] \in Nat /\ getSinglePartOrder[k] # job.order
        BY <2>3, <3>2, SingleOrders
      <4>2. PICK o : o = getSinglePartOrder[k] OBVIOUS
      <4>3. Snapshot(o)' = Snapshot(o) BY <1>8, <4>1, <4>2
      <4> QED BY <1>1, <1>4, <2>2, <3>2, <4>2, <4>3
    <3> QED BY <3>1, <3>2
  <2>7. ASSUME NEW key \in DOMAIN tools.entries
        PROVE  /\ tools.entries[key].text = Snapshot(tools.entries[key].order)'
               /\ tools.entries[key].order \in DOMAIN parts' =>
                     parts'[tools.entries[key].order].key = key
    <3>1. PICK o : o = tools.entries[key].order OBVIOUS
    <3>2. o \in Nat /\ o # job.order BY <1>10, <2>4, <2>5, <3>1
    <3>3. Snapshot(o)' = Snapshot(o) BY <1>8, <3>2
    <3>4. o \in DOMAIN parts' => o \in DOMAIN parts /\ parts'[o] = parts[o] BY <1>8, <3>2
    <3> QED BY <1>4, <2>4, <3>1, <3>3, <3>4 DEF ToolsTrue
  <2>8. \A o \in DOMAIN parts' : o >= ToolPartOrderStart => o \in tools.used
    BY <1>4, <1>8, <2>4, <2>5 DEF ToolsTrue
  <2>9. ToolsTrue(tools)' BY <2>7, <2>8 DEF ToolsTrue
  <2> QED BY <2>6, <2>9 DEF MemoryTrue
<1>12. CASE event.type \in ToolEvents
  <2>1. /\ job.step # "text" /\ job.key \in ToolKeys /\ job.order >= ToolPartOrderStart
        /\ job.key \in DOMAIN p.tools.entries /\ job.order = p.tools.entries[job.key].order
    BY <1>6, <1>12
  <2>2. tools = TextSet(p.tools, job.key, job.text) BY <1>1, <2>1 DEF PartWritten
  <2>3. PICK key, text : key = job.key /\ text = job.text OBVIOUS
  <2>4. /\ tools.used = p.tools.used /\ DOMAIN tools.entries = DOMAIN p.tools.entries
        /\ \A k \in DOMAIN p.tools.entries :
              /\ tools.entries[k].order = p.tools.entries[k].order
              /\ tools.entries[k].text = IF k = key THEN text ELSE p.tools.entries[k].text
    BY <1>7, <1>9, <2>1, <2>2, <2>3, ToolTextSet
  <2>5. ASSUME NEW k \in TextKinds PROVE q.texts[k] = Snapshot(getSinglePartOrder[k])'
    <3>1. PICK o : o = getSinglePartOrder[k] OBVIOUS
    <3>2. o \in Nat /\ o # job.order BY <2>1, <3>1, SingleOrders
    <3>3. Snapshot(o)' = Snapshot(o) BY <1>8, <3>2
    <3>4. job.key[1] # k BY <2>1 DEF ToolKeys, ToolKinds, TextKinds
    <3> QED BY <1>1, <1>4, <3>1, <3>3, <3>4
  <2>6. ASSUME NEW k \in DOMAIN tools.entries
        PROVE  /\ tools.entries[k].text = Snapshot(tools.entries[k].order)'
               /\ tools.entries[k].order \in DOMAIN parts' =>
                     parts'[tools.entries[k].order].key = k
    <3>1. CASE k = key BY <1>8, <2>1, <2>3, <2>4, <3>1
    <3>2. CASE k # key
      <4>1. PICK o : o = tools.entries[k].order OBVIOUS
      <4>2. o = p.tools.entries[k].order /\ k \in DOMAIN p.tools.entries BY <2>4, <4>1
      <4>3. o # job.order BY <1>9, <2>1, <2>3, <3>2, <4>2 DEF ToolsOK
      <4>4. o \in Nat BY <1>10, <4>2
      <4>5. Snapshot(o)' = Snapshot(o) BY <1>8, <4>3, <4>4
      <4>6. o \in DOMAIN parts' => o \in DOMAIN parts /\ parts'[o] = parts[o] BY <1>8, <4>3
      <4>7. tools.entries[k].text = p.tools.entries[k].text BY <2>4, <3>2, <4>2
      <4> QED BY <1>4, <4>1, <4>2, <4>5, <4>6, <4>7 DEF ToolsTrue
    <3> QED BY <3>1, <3>2
  <2>7. ASSUME NEW o \in DOMAIN parts', o >= ToolPartOrderStart PROVE o \in tools.used
    <3>1. CASE o = job.order BY <1>9, <2>1, <2>4, <3>1 DEF ToolsOK
    <3>2. CASE o # job.order BY <1>4, <1>8, <2>4, <2>7, <3>2 DEF ToolsTrue
    <3> QED BY <3>1, <3>2
  <2>8. ToolsTrue(tools)' BY <2>6, <2>7 DEF ToolsTrue
  <2> QED BY <2>5, <2>8 DEF MemoryTrue
<1> QED BY <1>6, <1>11, <1>12

\* A projection moves, and rows with it.
LEMMA AloneGoesOn ==
    ASSUME ProjectionInv, AloneInv, NEW a \in Apis, proj[a].pc # "idle",
           NEW q, proj' = [proj EXCEPT ![a] = q], MemoryTrue(q)', q.pc # "idle" => status' = "running",
           SnapshotsTrue', ResultsRecorded', WaitsForAction'
    PROVE  AloneInv'
<1>1. status = "running" /\ \A b \in Apis : b # a => proj[b].pc = "idle" BY OnlyOne
<1>2. proj'[a] = q /\ \A b \in Apis : b # a => proj'[b] = proj[b]
  BY DEF ProjectionInv, ProjectionsOK
<1>3. Alone' BY <1>1, <1>2 DEF Alone
<1>4. ASSUME NEW b \in Apis PROVE MemoryTrue(proj[b])'
  <2>1. CASE b = a BY <1>2, <2>1
  <2>2. CASE b # a
    <3>1. PICK p : p = proj'[b] OBVIOUS
    <3>2. p.pc = "idle" BY <1>1, <1>2, <2>2, <3>1
    <3>3. MemoryTrue(p)' BY <3>2, IdleRemembers
    <3> QED BY <3>1, <3>3
  <2> QED BY <2>1, <2>2
<1> QED BY <1>3, <1>4 DEF AloneInv

\* The log and the results when a part is written.
LEMMA WrittenRecords ==
    ASSUME ProjectionInv, AloneInv, NEW a \in Apis, proj[a].pc = "write", NEW job, job = proj[a].job,
           Committed(a, job), stream' = stream
    PROVE  SnapshotsTrue' /\ ResultsRecorded'
<1>1. PICK event, i : event = Event(Current(a)) /\ i = Current(a) OBVIOUS
<1>2. /\ i \in DOMAIN stream /\ event \in Events /\ event.type \in TextKinds \cup ToolEvents
      /\ job \in Jobs /\ job.src = Src(i, IF event.type = "action" THEN "tool" ELSE "")
      /\ event.type \in TextKinds => job.key = <<event.type, "">>
      /\ event.type \in ToolEvents => job.key = ToolKey(event)
  BY <1>1, JobIs
<1>3. job.order \in Nat BY <1>2 DEF Jobs
<1>4. PICK e : e = Entry(job.src, job.order, job.delta) OBVIOUS
<1>5. e \in LogEntries /\ e.src = job.src /\ e.order = job.order /\ e.delta = job.delta
  BY <1>2, <1>4, JobEntryIs
<1>6. log' = Append(log, e) BY <1>4 DEF Committed
<1>7. /\ Snapshot(job.order)' = job.text /\ parts'[job.order].key = job.key
      /\ job.order \in DOMAIN parts'
      /\ \A o \in DOMAIN parts' : o # job.order => o \in DOMAIN parts /\ parts'[o] = parts[o]
      /\ \A o \in Nat : o # job.order => Snapshot(o)' = Snapshot(o)
  BY WrittenSnapshots
<1>8. SnapshotsTrue /\ ResultsRecorded BY DEF AloneInv
<1>9. GoesOn(job.text, Snapshot(job.order), job.delta, job.key)
  <2>1. PICK p : p = proj[a] OBVIOUS
  <2>2. MemoryTrue(p) BY <2>1 DEF AloneInv
  <2> QED BY <2>1, <2>2 DEF MemoryTrue
<1>10. SnapshotsTrue'
  <2>1. PICK o : o = e.order OBVIOUS
  <2>2. GoesOn(Snapshot(o)', Snapshot(o), e.delta, parts'[o].key) BY <1>5, <1>7, <1>9, <2>1
  <2>3. /\ GoesOn(Snapshot(e.order)', Snapshot(e.order), e.delta, parts'[e.order].key)
        /\ e.order \in DOMAIN parts' /\ Snapshot(e.order)' \in Texts
    <3>1. job.text \in Texts BY <1>2 DEF Jobs
    <3> QED BY <1>5, <1>7, <2>1, <2>2, <3>1
  <2>4. \A n \in Nat : n # e.order => Snapshot(n)' = Snapshot(n) BY <1>5, <1>7
  <2>5. ASSUME NEW n \in DOMAIN parts PROVE n \in DOMAIN parts' /\ parts'[n].key = parts[n].key
    <3>1. n \in DOMAIN parts' BY DEF Committed, Upsert
    <3>2. CASE n = job.order
      <4>1. parts[n].key = job.key BY <3>2, JobKeepsIdentity
      <4> QED BY <1>7, <3>1, <3>2, <4>1
    <3>3. CASE n # job.order BY <1>7, <3>1, <3>3
    <3> QED BY <3>1, <3>2, <3>3
  <2> QED BY <1>3, <1>5, <1>6, <1>8, <2>3, <2>4, <2>5, SnapshotsGrow
<1>11. ASSUME NEW o \in DOMAIN parts'
       PROVE  \/ o \in DOMAIN parts /\ parts'[o].key = parts[o].key
              \/ parts'[o].key[1] = "result" =>
                    \E j \in DOMAIN stream : /\ Event(j).type \in {"result", "action"}
                                             /\ Recorded(j) \/ e.src = Src(j, "")
                                             /\ Event(j).call = parts'[o].key[2]
  <2>1. CASE o # job.order BY <1>7, <2>1
  <2>2. CASE o = job.order /\ o \in DOMAIN parts
    <3>1. parts[o].key = job.key BY <2>2, JobKeepsIdentity
    <3> QED BY <1>7, <2>2, <3>1
  <2>3. CASE o = job.order /\ parts'[o].key[1] = "result"
    <3>1. parts'[o].key = job.key BY <1>7, <2>3
    <3>2. PICK key : key = job.key OBVIOUS
    <3>3. event.type \notin TextKinds
      <4>1. SUFFICES ASSUME event.type \in TextKinds PROVE FALSE OBVIOUS
      <4>2. PICK kind \in TextKinds : kind = event.type BY <4>1
      <4>3. key = <<kind, "">> BY <1>2, <3>2, <4>2
      <4>4. key[1] = kind BY <4>3
      <4> QED BY <2>3, <3>1, <3>2, <4>4 DEF TextKinds
    <3>4. key = ToolKey(event) BY <1>2, <3>2, <3>3
    <3>5. event.type = "result" /\ key[2] = event.call
      <4>1. PICK call : call = event.call OBVIOUS
      <4>2. key = IF event.type = "result" THEN <<"result", call>> ELSE <<"call", call>>
        BY <3>4, <4>1 DEF ToolKey
      <4>3. CASE event.type = "result"
        <5>1. key = <<"result", call>> BY <4>2, <4>3
        <5>2. key[2] = call BY <5>1
        <5> QED BY <4>1, <4>3, <5>2
      <4>4. CASE event.type # "result"
        <5>1. key = <<"call", call>> BY <4>2, <4>4
        <5>2. key[1] = "call" BY <5>1
        <5> QED BY <2>3, <3>1, <3>2, <5>2
      <4> QED BY <4>3, <4>4
    <3>6. e.src = Src(i, "") BY <1>2, <1>5, <3>5
    <3>7. Event(i).type \in {"result", "action"} /\ Event(i).call = parts'[o].key[2]
      BY <1>1, <3>1, <3>2, <3>5
    <3> QED BY <1>2, <3>6, <3>7
  <2> QED BY <2>1, <2>2, <2>3
<1>12. ResultsRecorded' BY <1>5, <1>6, <1>8, <1>11, ResultsStay
<1> QED BY <1>10, <1>12

\* WritePart.
LEMMA WritePartStaysAlone ==
    ASSUME ProjectionInv, AloneInv, NEW a \in Apis, WritePart(a)
    PROVE  AloneInv'
<1>1. RowsOK /\ ProjectionsOK /\ proj[a].pc = "write" BY DEF ProjectionInv, WritePart
<1>2. UNCHANGED <<stream, status, answered>> BY DEF WritePart
<1>3. PICK job, tools :
         /\ PartWritten(a, job, tools)
         /\ proj' = [proj EXCEPT ![a] =
               IF job.step = "action"
               THEN Holding("action", proj[a].pos, proj[a].texts, proj[a].strippers, tools, job)
               ELSE Holding("read", Current(a), proj[a].texts, proj[a].strippers, tools, job)]
  BY <1>1, WritePartIs
<1>4. job = proj[a].job BY <1>3 DEF PartWritten
<1>5. PICK p : p = proj[a] OBVIOUS
<1>6. PICK q : q = IF job.step = "action" THEN Holding("action", p.pos, p.texts, p.strippers, tools, job)
                   ELSE Holding("read", Current(a), p.texts, p.strippers, tools, job)
  OBVIOUS
<1>7. proj' = [proj EXCEPT ![a] = q] BY <1>3, <1>5, <1>6, Zenon
<1>8. status = "running" /\ \A b \in Apis : b # a => proj[b].pc = "idle" BY <1>1, OnlyOne
<1>9. job.step # "action" => ~HasSourceEvent(job.src)
  <2>1. MemoryTrue(p) BY <1>5 DEF AloneInv
  <2> QED BY <1>1, <1>4, <1>5, <2>1 DEF MemoryTrue
<1>10. /\ job.step = "action" => q.pc = "action"
       /\ job.step # "action" => q.pc = "read" /\ q.texts = p.texts /\ q.tools = tools
  BY <1>6 DEF Holding
<1>11. CASE ~HasSourceEvent(job.src)
  <2>1. Committed(a, job) BY <1>4, <1>8, <1>11 DEF WritePart, Committed
  <2>2. SnapshotsTrue' /\ ResultsRecorded' BY <1>1, <1>2, <1>4, <2>1, WrittenRecords
  <2>3. WaitsForAction' BY <1>2, <1>8 DEF WaitsForAction
  <2>4. MemoryTrue(q)'
    <3>1. CASE job.step = "action" BY <1>10, <3>1, IdleRemembers
    <3>2. CASE job.step # "action"
      BY <1>1, <1>3, <1>5, <1>10, <1>11, <2>1, <3>2, WrittenRemembers
    <3> QED BY <3>1, <3>2
  <2> QED BY <1>1, <1>2, <1>7, <1>8, <2>2, <2>3, <2>4, AloneGoesOn
<1>12. CASE HasSourceEvent(job.src)
  <2>1. UNCHANGED <<stream, rowVars>> BY <1>2, <1>4, <1>12 DEF WritePart, rowVars
  <2>2. q.pc = "action" BY <1>9, <1>10, <1>12
  <2>3. MemoryTrue(q) BY <2>2, IdleRemembers
  <2> QED BY <1>7, <1>8, <2>1, <2>3, AloneStays
<1> QED BY <1>11, <1>12

\* RequireClientAction: the action is the latest that is recorded.
LEMMA RequireClientActionStaysAlone ==
    ASSUME ProjectionInv, AloneInv, NEW a \in Apis, RequireClientAction(a)
    PROVE  AloneInv'
<1>1. RowsOK /\ ProjectionsOK /\ proj[a].pc = "action" /\ log \in Seq(LogEntries)
  BY DEF ProjectionInv, RowsOK, RequireClientAction
<1>2. status = "running" BY <1>1, OnlyOne
<1>3. UNCHANGED <<stream, parts, content, answered>> BY DEF RequireClientAction
<1>4. PICK q : q = IdleProjection OBVIOUS
<1>5. q.pc = "idle" BY <1>4 DEF IdleProjection
<1>6. proj' = [proj EXCEPT ![a] = q] BY <1>4 DEF RequireClientAction, EndProjection
<1>7. PICK i : i = Current(a) OBVIOUS
<1>8. i \in Actions /\ i \in Nat
  <2>1. PICK p : p = proj[a] OBVIOUS
  <2>2. ProjectionOK(p) BY <1>1, <2>1 DEF ProjectionsOK
  <2>3. Published(p.pos + 1) /\ Event(p.pos + 1).type = "action"
    BY <1>1, <2>1, <2>2 DEF ProjectionOK
  <2>4. i = p.pos + 1 BY <1>7, <2>1 DEF Current
  <2>5. stream \in Streams BY <1>1 DEF RowsOK
  <2> QED BY <2>3, <2>4, <2>5, StreamIs DEF Published, Actions
<1>9. CASE HasSourceEvent(Src(i, ""))
  <2>1. UNCHANGED <<stream, rowVars>> BY <1>3, <1>7, <1>9 DEF RequireClientAction, rowVars
  <2> QED BY <1>4, <1>6, <2>1, EndStaysAlone
<1>10. CASE ~HasSourceEvent(Src(i, ""))
  <2>1. PICK e : e = Entry(Src(i, ""), NoPart, <<>>) OBVIOUS
  <2>2. log' = Append(log, e) BY <1>2, <1>7, <1>10, <2>1 DEF RequireClientAction
  <2>3. PICK suffix : suffix = "" OBVIOUS
  <2>4. e \in LogEntries /\ e.src = Src(i, "") /\ e.order = NoPart
    <3>1. suffix \in SourceSuffixes BY <2>3 DEF SourceSuffixes
    <3> QED BY <1>8, <2>1, <2>3, <3>1, OutcomeEntryIs
  <2>5. SnapshotsTrue' BY <1>3, <2>2, <2>4, SnapshotsStay DEF AloneInv
  <2>6. ResultsRecorded'
    <3>1. \A o \in DOMAIN parts' : o \in DOMAIN parts /\ parts'[o].key = parts[o].key BY <1>3
    <3> QED BY <1>3, <2>2, <2>4, <3>1, ResultsStay DEF AloneInv
  <2>7. LatestSourceEvent' = i
    <3>1. PICK l : l = log OBVIOUS
    <3>2. e.src[1] = i BY <2>4, SrcIs
    <3>3. e.src # NoSrc
      <4>1. i # 0 BY <1>1, <1>8, StreamIs DEF RowsOK
      <4>2. PICK none : none = NoSrc OBVIOUS
      <4>3. none[1] = 0 BY <4>2, SrcIs DEF NoSrc
      <4> QED BY <3>2, <4>1, <4>2, <4>3
    <3>4. LatestOf(Append(l, e)) = i BY <1>1, <2>4, <3>1, <3>2, <3>3, LatestIs
    <3>5. PICK m : m = log' OBVIOUS
    <3>6. LatestSourceEvent' = LatestOf(m) BY <3>5 DEF LatestSourceEvent, LatestOf
    <3> QED BY <2>2, <3>1, <3>4, <3>5, <3>6
  <2>8. i \in RecordedActions'
    <3>1. Recorded(i)' BY <1>1, <2>2, <2>4, RecordedAppended
    <3>2. i \in Actions' BY <1>3, <1>8 DEF Actions, Event
    <3> QED BY <3>1, <3>2 DEF RecordedActions
  <2>9. WaitsForAction' BY <2>7, <2>8 DEF WaitsForAction
  <2>10. MemoryTrue(q)' BY <1>5, IdleRemembers
  <2> QED BY <1>1, <1>5, <1>6, <2>5, <2>6, <2>9, <2>10, AloneGoesOn
<1> QED BY <1>9, <1>10

\* The answer to a client action: its part is new, and the action is recorded.
LEMMA ResumeStaysAlone ==
    ASSUME ProjectionInv, AloneInv, Resume
    PROVE  AloneInv'
<1>1. /\ status = "requires_action" /\ status' = "running" /\ UNCHANGED <<stream, proj>>
      /\ PartsOK /\ SnapshotsTrue /\ ResultsRecorded
  BY DEF Resume, ProjectionInv, RowsOK, AloneInv
<1>2. PICK call \in STRING, order \in Nat :
         order >= ToolPartOrderStart /\ order \notin DOMAIN parts /\ Answered(call, order)
  BY ResumeIs
<1>3. PICK key : key = <<"result", call>> OBVIOUS
<1>4. key[1] = "result" /\ key[2] = call BY <1>3
<1>5. PICK e : e = Entry(NoSrc, order, <<"r">>) OBVIOUS
<1>6. e \in LogEntries /\ e.order = order /\ e.delta = <<"r">> BY <1>5, AnswerIs
<1>7. log' = Append(log, e) BY <1>2, <1>5 DEF Answered
<1>8. PICK text : text = <<"r">> OBVIOUS
<1>9. /\ parts' = [o \in DOMAIN parts \cup {order} |->
                     IF o = order THEN [key |-> key, text |-> text] ELSE parts[o]]
  BY <1>2, <1>3, <1>8 DEF Answered, Upsert
<1>10. /\ DOMAIN parts' = DOMAIN parts \cup {order} /\ parts'[order] = [key |-> key, text |-> text]
       /\ \A o \in DOMAIN parts : parts'[o] = parts[o]
  BY <1>2, <1>9
<1>11. parts'[order].key = key /\ parts'[order].text = text BY <1>10
<1>12. SnapshotsTrue'
  <2>1. Snapshot(order)' = text /\ Snapshot(order) = <<>> BY <1>2, <1>10, <1>11 DEF Snapshot
  <2>2. text \in Texts BY <1>8, <1>5, AnswerIs
  <2>3. <<>> \o text = text BY <2>2, Joined
  <2>4. Snapshot(order)' = Snapshot(order) \o e.delta BY <1>6, <1>8, <2>1, <2>3
  <2>5. \A o \in Nat : o # order => Snapshot(o)' = Snapshot(o) BY <1>10 DEF Snapshot
  <2>6. /\ GoesOn(Snapshot(e.order)', Snapshot(e.order), e.delta, parts'[e.order].key)
        /\ e.order \in DOMAIN parts' /\ Snapshot(e.order)' \in Texts
    <3>1. PICK o : o = e.order OBVIOUS
    <3>2. GoesOn(Snapshot(o)', Snapshot(o), e.delta, parts'[o].key) BY <1>6, <2>4, <3>1 DEF GoesOn
    <3> QED BY <1>6, <1>10, <2>1, <2>2, <3>1, <3>2
  <2>7. \A o \in DOMAIN parts : o \in DOMAIN parts' /\ parts'[o].key = parts[o].key BY <1>10
  <2> QED BY <1>1, <1>6, <1>7, <2>5, <2>6, <2>7, SnapshotsGrow
<1>13. ResultsRecorded'
  <2>1. LatestSourceEvent \in RecordedActions BY <1>1 DEF AloneInv, WaitsForAction
  <2>2. PICK j : j = LatestSourceEvent OBVIOUS
  <2>3. j \in DOMAIN stream /\ Event(j).type = "action" /\ Recorded(j) /\ Event(j).call = call
    <3>1. Event(j).call = call BY <1>2, <2>2 DEF Answered
    <3> QED BY <2>1, <2>2, <3>1 DEF RecordedActions, Actions
  <2>4. \A o \in DOMAIN parts' :
           \/ o \in DOMAIN parts /\ parts'[o].key = parts[o].key
           \/ parts'[o].key[1] = "result" =>
                 \E n \in DOMAIN stream : /\ Event(n).type \in {"result", "action"}
                                          /\ Recorded(n) \/ e.src = Src(n, "")
                                          /\ Event(n).call = parts'[o].key[2]
    BY <1>4, <1>10, <1>11, <2>3
  <2> QED BY <1>1, <1>6, <1>7, <2>4, ResultsStay
<1>14. \A a \in Apis : proj[a].pc = "idle" BY <1>1 DEF AloneInv, Alone
<1>15. Alone' BY <1>1, <1>14 DEF Alone
<1>16. ASSUME NEW a \in Apis PROVE MemoryTrue(proj[a])'
  <2>1. PICK p : p = proj'[a] OBVIOUS
  <2>2. p.pc = "idle" BY <1>1, <1>14, <2>1
  <2>3. MemoryTrue(p)' BY <2>2, IdleRemembers
  <2> QED BY <2>1, <2>3
<1>17. WaitsForAction' BY <1>1 DEF WaitsForAction
<1> QED BY <1>12, <1>13, <1>15, <1>16, <1>17 DEF AloneInv

\* What a projection has held back.
Held(a, k) == proj[a].strippers[k].buffer

\* What was held back is added to its part and to no other.
LEMMA PendingDeltas ==
    ASSUME ProjectionInv, NEW a \in Apis, NEW k \in TextKinds, NEW l \in Seq(LogEntries), NEW o
    PROVE  /\ WithPending(l, a, k) \in Seq(LogEntries)
           /\ o = getSinglePartOrder[k] => DeltasIn(WithPending(l, a, k), o) = DeltasIn(l, o) \o Held(a, k)
           /\ o # getSinglePartOrder[k] => DeltasIn(WithPending(l, a, k), o) = DeltasIn(l, o)
<1>6. PICK buffer : buffer = proj[a].strippers[k].buffer /\ buffer = Held(a, k) BY DEF Held
<1>1. PICK e : e = PendingEntry(a, k) OBVIOUS
<1>2. e \in LogEntries /\ e.order = getSinglePartOrder[k] /\ e.delta = buffer
  <2>1. e \in LogEntries /\ e.order = getSinglePartOrder[k] /\ e.delta = proj[a].strippers[k].buffer
    BY <1>1, PendingEntryIs
  <2> QED BY <1>6, <2>1
<1>3. DeltasIn(l, o) \in Texts BY DeltasAppended
<1>4. CASE buffer = <<>>
  <2>1. WithPending(l, a, k) = l BY <1>4, <1>6 DEF WithPending
  <2>2. DeltasIn(l, o) \o buffer = DeltasIn(l, o) BY <1>3, <1>4, Joined
  <2> QED BY <1>6, <2>1, <2>2
<1>5. CASE buffer # <<>>
  <2>1. WithPending(l, a, k) = Append(l, e) BY <1>1, <1>5, <1>6 DEF WithPending
  <2>2. Append(l, e) \in Seq(LogEntries) BY <1>2, Appended
  <2>3. DeltasIn(Append(l, e), o) =
           IF e.order = o THEN DeltasIn(l, o) \o e.delta ELSE DeltasIn(l, o)
    BY <1>2, DeltasAppended
  <2> QED BY <1>2, <1>6, <2>1, <2>2, <2>3
<1> QED BY <1>4, <1>5, <1>6

\* The deltas of a run that is completed.
\* The deltas of a run that is completed.
LEMMA CompletedDeltas ==
    ASSUME ProjectionInv, NEW a \in Apis, Completing(a), NEW o
    PROVE  /\ \A k \in TextKinds :
                 o = getSinglePartOrder[k] => DeltasOf(o)' = DeltasOf(o) \o Held(a, k)
           /\ (\A k \in TextKinds : o # getSinglePartOrder[k]) => DeltasOf(o)' = DeltasOf(o)
<1>1. PICK l, m : l = log /\ m = log' OBVIOUS
<1>2. l \in Seq(LogEntries) BY <1>1 DEF ProjectionInv, RowsOK
<1>3. PICK reasoning, text :
         reasoning = Held(a, "reasoning") /\ text = Held(a, "text")
  OBVIOUS
<1>4. "reasoning" \in TextKinds /\ "text" \in TextKinds BY DEF TextKinds
<1>5. getSinglePartOrder["reasoning"] = 0 /\ getSinglePartOrder["text"] = 1
  BY DEF getSinglePartOrder
<1>6. PICK l1 : l1 = WithPending(l, a, "reasoning") OBVIOUS
<1>7. l1 \in Seq(LogEntries) /\ DeltasIn(l1, o) = IF o = 0 THEN DeltasIn(l, o) \o reasoning ELSE DeltasIn(l, o)
  <2>1. PICK kind : kind = "reasoning" OBVIOUS
  <2>2. kind \in TextKinds /\ getSinglePartOrder[kind] = 0 BY <1>4, <1>5, <2>1
  <2>3. reasoning = Held(a, kind) BY <1>3, <2>1
  <2>4. /\ WithPending(l, a, kind) \in Seq(LogEntries)
        /\ o = getSinglePartOrder[kind] =>
              DeltasIn(WithPending(l, a, kind), o) = DeltasIn(l, o) \o Held(a, kind)
        /\ o # getSinglePartOrder[kind] => DeltasIn(WithPending(l, a, kind), o) = DeltasIn(l, o)
    BY <1>2, <2>2, PendingDeltas
  <2>5. l1 = WithPending(l, a, kind) BY <1>6, <2>1
  <2> QED BY <2>1, <2>2, <2>3, <2>4, <2>5
<1>8. PICK l2 : l2 = WithPending(l1, a, "text") OBVIOUS
<1>9. l2 \in Seq(LogEntries) /\ DeltasIn(l2, o) = IF o = 1 THEN DeltasIn(l1, o) \o text ELSE DeltasIn(l1, o)
  <2>1. PICK kind : kind = "text" OBVIOUS
  <2>2. kind \in TextKinds /\ getSinglePartOrder[kind] = 1 BY <1>4, <1>5, <2>1
  <2>3. text = Held(a, kind) BY <1>3, <2>1
  <2>4. /\ WithPending(l1, a, kind) \in Seq(LogEntries)
        /\ o = getSinglePartOrder[kind] =>
              DeltasIn(WithPending(l1, a, kind), o) = DeltasIn(l1, o) \o Held(a, kind)
        /\ o # getSinglePartOrder[kind] => DeltasIn(WithPending(l1, a, kind), o) = DeltasIn(l1, o)
    BY <1>7, <2>2, PendingDeltas
  <2>5. l2 = WithPending(l1, a, kind) BY <1>8, <2>1
  <2> QED BY <2>1, <2>2, <2>3, <2>4, <2>5
<1>10. PICK e : e = Entry(Src(Current(a), "message"), NoPart, <<>>)
                /\ log' = Append(WithPending(WithPending(log, a, "reasoning"), a, "text"), e)
  BY DEF Completing
<1>11. m = Append(l2, e) BY <1>1, <1>6, <1>8, <1>10
<1>12. e \in LogEntries /\ e.order = NoPart /\ e.delta = <<>>
  <2>1. PICK suffix, i : suffix = "message" /\ i = Current(a) OBVIOUS
  <2>2. suffix \in SourceSuffixes BY <2>1 DEF SourceSuffixes
  <2>3. i \in Nat
    <3>1. proj[a].pos \in 0 .. Len(stream) /\ stream \in Streams
      BY ProjectionTyped DEF ProjectionInv, RowsOK
    <3> QED BY <2>1, <3>1, StreamIs DEF Current
  <2> QED BY <1>10, <2>1, <2>2, <2>3, OutcomeEntryIs
<1>13. DeltasIn(m, o) = DeltasIn(l2, o)
  <2>1. DeltasIn(m, o) = IF e.order = o THEN DeltasIn(l2, o) \o e.delta ELSE DeltasIn(l2, o)
    BY <1>9, <1>11, <1>12, DeltasAppended
  <2>2. DeltasIn(l2, o) \in Texts BY <1>9, DeltasAppended
  <2>3. DeltasIn(l2, o) \o <<>> = DeltasIn(l2, o) BY <2>2, Joined
  <2> QED BY <1>12, <2>1, <2>3
<1>14. DeltasOf(o) = DeltasIn(l, o) /\ DeltasOf(o)' = DeltasIn(m, o)
  BY <1>1 DEF DeltasOf, DeltasIn
<1>15. ASSUME NEW k \in TextKinds, o = getSinglePartOrder[k]
       PROVE  DeltasOf(o)' = DeltasOf(o) \o Held(a, k)
  <2>1. CASE k = "reasoning"
    <3>1. o = 0 BY <1>5, <1>15, <2>1
    <3>2. Held(a, k) = reasoning BY <1>3, <2>1
    <3>3. DeltasOf(o)' = DeltasOf(o) \o reasoning BY <1>7, <1>9, <1>13, <1>14, <3>1
    <3> QED BY <3>2, <3>3
  <2>2. CASE k = "text"
    <3>1. o = 1 BY <1>5, <1>15, <2>2
    <3>2. Held(a, k) = text BY <1>3, <2>2
    <3>3. DeltasOf(o)' = DeltasOf(o) \o text BY <1>7, <1>9, <1>13, <1>14, <3>1
    <3> QED BY <3>2, <3>3
  <2> QED BY <2>1, <2>2 DEF TextKinds
<1>16. ASSUME \A k \in TextKinds : o # getSinglePartOrder[k] PROVE DeltasOf(o)' = DeltasOf(o)
  BY <1>4, <1>5, <1>7, <1>9, <1>13, <1>14, <1>16
<1> QED BY <1>15, <1>16

\* The text and the reasoning are what the log adds up to.
LEMMA SingleSnapshots ==
    ASSUME ProjectionInv, SnapshotsTrue, NEW k \in TextKinds, NEW o, o = getSinglePartOrder[k]
    PROVE  DeltasOf(o) = Snapshot(o) /\ o \in Nat
<1>1. o \in Nat BY SingleOrders
<1>2. SnapshotTrue(o) BY <1>1 DEF SnapshotsTrue
<1>3. ~Superseded(o)
  <2>1. SUFFICES ASSUME o \in DOMAIN parts, Repeated(parts[o].key) PROVE FALSE BY DEF Superseded
  <2>2. PICK key : key = <<k, "">> OBVIOUS
  <2>3. parts[o].key = key BY <2>1, <2>2, SingleParts DEF ProjectionInv, RowsOK
  <2>4. key[1] = k BY <2>2
  <2> QED BY <2>1, <2>3, <2>4 DEF Repeated, TextKinds
<1> QED BY <1>1, <1>2, <1>3 DEF SnapshotTrue

\* The snapshots of a run that is completed.
LEMMA CompletedSnapshots ==
    ASSUME ProjectionInv, AloneInv, NEW a \in Apis, proj[a].pc = "complete", Completing(a)
    PROVE  /\ \A k \in TextKinds : Snapshot(getSinglePartOrder[k])' =
                  Snapshot(getSinglePartOrder[k]) \o Held(a, k)
           /\ \A o \in Nat : (\A k \in TextKinds : o # getSinglePartOrder[k]) => Snapshot(o)' = Snapshot(o)
<1>1. PICK p : p = proj[a] OBVIOUS
<1>2. MemoryTrue(p) BY <1>1 DEF AloneInv
<1>3. \A k \in TextKinds : p.texts[k] = Snapshot(getSinglePartOrder[k]) \o p.strippers[k].buffer
  BY <1>1, <1>2 DEF MemoryTrue
<1>4. DOMAIN parts' = DOMAIN parts \cup {getSinglePartOrder[k] :
                                            k \in {k \in TextKinds : p.strippers[k].buffer # <<>>}}
  BY <1>1 DEF Completing
<1>5. ASSUME NEW k \in TextKinds
      PROVE  Snapshot(getSinglePartOrder[k])' = Snapshot(getSinglePartOrder[k]) \o Held(a, k)
  <2>6. Held(a, k) = p.strippers[k].buffer BY <1>1 DEF Held
  <2>1. PICK o, buffer : o = getSinglePartOrder[k] /\ buffer = p.strippers[k].buffer OBVIOUS
  <2>2. \A l \in TextKinds : getSinglePartOrder[l] = o => l = k BY <2>1, SingleOrders
  <2>3. o \in Nat BY <2>1, SingleOrders
  <2>4. CASE buffer = <<>>
    <3>1. o \in DOMAIN parts' <=> o \in DOMAIN parts BY <1>4, <2>1, <2>2, <2>4
    <3>2. o \in DOMAIN parts => parts'[o] = parts[o] BY <1>1, <2>1, <2>2, <2>4 DEF Completing
    <3>3. Snapshot(o)' = Snapshot(o) BY <3>1, <3>2 DEF Snapshot
    <3>4. Snapshot(o) \in Texts
      <4>1. DeltasIn(log, o) = Snapshot(o) BY <2>1, SingleSnapshots, DeltasOfIs DEF AloneInv
      <4>2. log \in Seq(LogEntries) BY DEF ProjectionInv, RowsOK
      <4> QED BY <4>1, <4>2, DeltasAppended
    <3>5. Snapshot(o) \o buffer = Snapshot(o) BY <2>4, <3>4, Joined
    <3> QED BY <2>1, <2>6, <3>3, <3>5
  <2>5. CASE buffer # <<>>
    <3>1. o \in DOMAIN parts' BY <1>4, <2>1, <2>5
    <3>2. PICK key, text : key = <<k, "">> /\ text = p.texts[k] OBVIOUS
    <3>3. parts'[o] = [key |-> key, text |-> text] BY <1>1, <2>1, <2>5, <3>2 DEF Completing
    <3>4. parts'[o].text = text BY <3>3
    <3>5. Snapshot(o)' = text BY <3>1, <3>4 DEF Snapshot
    <3> QED BY <1>3, <2>1, <2>6, <3>2, <3>5
  <2> QED BY <2>4, <2>5
<1>6. ASSUME NEW o \in Nat, \A k \in TextKinds : o # getSinglePartOrder[k]
      PROVE  Snapshot(o)' = Snapshot(o)
  <2>1. o \in DOMAIN parts' <=> o \in DOMAIN parts BY <1>4, <1>6
  <2>2. o \in DOMAIN parts => parts'[o] = parts[o] BY <1>6 DEF Completing
  <2> QED BY <2>1, <2>2 DEF Snapshot
<1> QED BY <1>5, <1>6

\* CompleteRun.
LEMMA CompleteRunStaysAlone ==
    ASSUME ProjectionInv, AloneInv, NEW a \in Apis, CompleteRun(a)
    PROVE  AloneInv'
<1>1. proj[a].pc = "complete" /\ stream' = stream BY DEF CompleteRun
<1>2. status = "running" BY <1>1, OnlyOne
<1>3. Completing(a) /\ Grown(log, log', Current(a)) /\ status' = "completed"
  BY <1>2, CompleteRunIs
<1>4. PICK q : q = IdleProjection OBVIOUS
<1>5. q.pc = "idle" BY <1>4 DEF IdleProjection
<1>6. proj' = [proj EXCEPT ![a] = q] BY <1>4 DEF CompleteRun, EndProjection
<1>7. SnapshotsTrue /\ ResultsRecorded BY DEF AloneInv
<1>8. SnapshotsTrue'
  <2>1. ASSUME NEW o \in Nat PROVE SnapshotTrue(o)'
    <3>1. CASE \E k \in TextKinds : o = getSinglePartOrder[k]
      <4>1. PICK k \in TextKinds : o = getSinglePartOrder[k] BY <3>1
      <4>2. DeltasOf(o)' = DeltasOf(o) \o Held(a, k) BY <1>3, <4>1, CompletedDeltas
      <4>3. Snapshot(o)' = Snapshot(o) \o Held(a, k) BY <1>1, <1>3, <4>1, CompletedSnapshots
      <4>4. DeltasOf(o) = Snapshot(o) BY <1>7, <4>1, SingleSnapshots
      <4> QED BY <4>2, <4>3, <4>4 DEF SnapshotTrue
    <3>2. CASE \A k \in TextKinds : o # getSinglePartOrder[k]
      <4>1. DeltasOf(o)' = DeltasOf(o) BY <1>3, <3>2, CompletedDeltas
      <4>2. Snapshot(o)' = Snapshot(o) BY <1>1, <1>3, <3>2, CompletedSnapshots
      <4>3. SnapshotTrue(o) BY <1>7 DEF SnapshotsTrue
      <4>4. CASE Superseded(o)
        <5>1. PICK before \in Texts : DeltasOf(o) = before \o Snapshot(o) BY <4>4 DEF Superseded
        <5>2. DeltasOf(o)' = before \o Snapshot(o)' BY <4>1, <4>2, <5>1
        <5>3. o \in DOMAIN parts' /\ parts'[o] = parts[o]
          BY <1>3, <3>2, <4>4 DEF Completing, Superseded
        <5>4. PICK key : key = parts[o].key OBVIOUS
        <5>5. parts'[o].key = key /\ Repeated(key)'
          BY <1>1, <4>4, <5>3, <5>4, RepeatedStays DEF Superseded
        <5>6. Repeated(parts[o].key)' BY <5>5 DEF Repeated
        <5> QED BY <5>2, <5>3, <5>6 DEF SnapshotTrue, Superseded
      <4> QED BY <4>1, <4>2, <4>3, <4>4 DEF SnapshotTrue
    <3> QED BY <3>1, <3>2
  <2> QED BY <2>1 DEF SnapshotsTrue
<1>9. ResultsRecorded'
  <2>1. \A j \in DOMAIN stream : Recorded(j) => Recorded(j)'
    BY <1>3 DEF Grown, Recorded, HasSourceEvent
  <2>2. ASSUME NEW o \in DOMAIN parts', parts'[o].key[1] = "result"
        PROVE  o \in DOMAIN parts /\ parts'[o] = parts[o]
    <3>1. CASE \E k \in TextKinds : Held(a, k) # <<>> /\ getSinglePartOrder[k] = o
      <4>1. PICK k \in TextKinds : Held(a, k) # <<>> /\ getSinglePartOrder[k] = o BY <3>1
      <4>2. PICK key : key = <<k, "">> OBVIOUS
      <4>3. key[1] = k BY <4>2
      <4>4. PICK text : text = proj[a].texts[k] OBVIOUS
      <4>5. parts'[o] = [key |-> key, text |-> text]
        BY <1>3, <4>1, <4>2, <4>4 DEF Completing, Held
      <4>6. parts'[o].key = key BY <4>5
      <4> QED BY <2>2, <4>3, <4>6 DEF TextKinds
    <3>2. CASE ~\E k \in TextKinds : Held(a, k) # <<>> /\ getSinglePartOrder[k] = o
      BY <1>3, <2>2, <3>2 DEF Completing, Held
    <3> QED BY <3>1, <3>2
  <2>3. ASSUME NEW o \in DOMAIN parts', parts'[o].key[1] = "result"
        PROVE  \E j \in DOMAIN stream : /\ Event(j).type \in {"result", "action"} /\ Recorded(j)'
                                        /\ Event(j).call = parts'[o].key[2]
    <3>1. o \in DOMAIN parts /\ parts'[o] = parts[o] BY <2>2, <2>3
    <3>2. \E j \in DOMAIN stream : /\ Event(j).type \in {"result", "action"} /\ Recorded(j)
                                   /\ Event(j).call = parts[o].key[2]
      BY <1>7, <2>3, <3>1 DEF ResultsRecorded
    <3> QED BY <2>1, <3>1, <3>2
  <2> QED BY <1>1, <2>3 DEF ResultsRecorded, Event
<1>10. WaitsForAction' BY <1>3 DEF WaitsForAction
<1>11. MemoryTrue(q)' BY <1>5, IdleRemembers
<1> QED BY <1>1, <1>5, <1>6, <1>8, <1>9, <1>10, <1>11, AloneGoesOn

-----------------------------------------------------------------------------
(* The snapshots are what the log adds up to, and parts keep what they are. *)

\* Nothing is projected at first.
LEMMA AloneBegins ==
    ASSUME Init
    PROVE  AloneInv
<1>1. /\ parts = [o \in {} |-> 0] /\ log = <<>> /\ status = "running"
      /\ \A a \in Apis : proj[a].pc = "idle"
  BY DEF Init, IdleProjection
<1>2. SnapshotsTrue
  <2>1. ASSUME NEW o \in Nat PROVE DeltasOf(o) = Snapshot(o)
    <3>1. DeltasOf(o) = DeltasIn(<<>>, o) BY <1>1, DeltasOfIs
    <3>2. DeltasOf(o) = <<>> BY <3>1, DeltasBegin
    <3>3. Snapshot(o) = <<>> BY <1>1 DEF Snapshot
    <3> QED BY <3>2, <3>3
  <2> QED BY <2>1 DEF SnapshotsTrue, SnapshotTrue
<1>3. ASSUME NEW a \in Apis PROVE MemoryTrue(proj[a])
  <2>1. PICK p : p = proj[a] OBVIOUS
  <2>2. p.pc = "idle" BY <1>1, <2>1
  <2>3. MemoryTrue(p) BY <2>2, IdleRemembers
  <2> QED BY <2>1, <2>3
<1> QED BY <1>1, <1>2, <1>3 DEF AloneInv, Alone, ResultsRecorded, WaitsForAction

\* Every step of one process at a time keeps the snapshots.
LEMMA StepStaysAlone ==
    ASSUME ProjectionInv, ~shared => AloneInv, [Next]_vars, ~shared'
    PROVE  AloneInv'
<1>1. CASE \E a \in Apis : Start(a)
  <2>1. ~shared BY <1>1, Zenon DEF Start
  <2> QED BY <1>1, <2>1, StartStaysAlone
<1>2. ASSUME NEW a \in Apis,
             \/ Load(a) \/ SkipRecorded(a) \/ ReadText(a) \/ ReadTool(a) \/ ReadCompleted(a)
             \/ WritePart(a) \/ RequireClientAction(a) \/ CompleteRun(a) \/ Crash(a)
      PROVE  AloneInv'
  <2>1. AloneInv
    BY <1>2, Zenon DEF Load, SkipRecorded, ReadText, ReadTool, ReadCompleted, WritePart,
       RequireClientAction, CompleteRun, Crash
  <2>2. CASE Load(a) BY <2>1, <2>2, LoadStaysAlone
  <2>3. CASE SkipRecorded(a) BY <2>1, <2>3, SkipRecordedStaysAlone
  <2>4. CASE ReadText(a) BY <2>1, <2>4, ReadTextStaysAlone
  <2>5. CASE ReadTool(a) BY <2>1, <2>5, ReadToolStaysAlone
  <2>6. CASE ReadCompleted(a) BY <2>1, <2>6, ReadCompletedStaysAlone
  <2>7. CASE WritePart(a) BY <2>1, <2>7, WritePartStaysAlone
  <2>8. CASE RequireClientAction(a) BY <2>1, <2>8, RequireClientActionStaysAlone
  <2>9. CASE CompleteRun(a) BY <2>1, <2>9, CompleteRunStaysAlone
  <2>10. CASE Crash(a)
    <3>1. UNCHANGED <<stream, rowVars>> /\ proj' = [proj EXCEPT ![a] = IdleProjection]
      BY <2>10 DEF Crash, EndProjection
    <3> QED BY <2>1, <3>1, EndStaysAlone
  <2> QED BY <1>2, <2>2, <2>3, <2>4, <2>5, <2>6, <2>7, <2>8, <2>9, <2>10
<1>3. CASE Resume
  <2>1. AloneInv BY <1>3 DEF Resume
  <2> QED BY <1>3, <2>1, ResumeStaysAlone
<1>4. CASE UNCHANGED vars
  <2>1. AloneInv BY <1>4 DEF vars
  <2>2. UNCHANGED <<stream, status, parts, content, log, answered, proj>>
    BY <1>4 DEF vars, rowVars
  <2>3. Alone' BY <2>1, <2>2 DEF AloneInv, Alone
  <2>4. ASSUME NEW o \in Nat PROVE SnapshotTrue(o)'
    <3>1. SnapshotTrue(o) BY <2>1 DEF AloneInv, SnapshotsTrue
    <3>2. DeltasOf(o)' = DeltasOf(o) BY <2>2 DEF DeltasOf
    <3> QED BY <2>2, <3>1, <3>2, SnapshotKept
  <2>5. ASSUME NEW a \in Apis PROVE MemoryTrue(proj[a])'
    <3>1. PICK p : p = proj[a] OBVIOUS
    <3>2. MemoryTrue(p) BY <2>1, <3>1 DEF AloneInv
    <3>3. MemoryTrue(p)' BY <2>2, <3>2, MemoryStays
    <3> QED BY <2>2, <3>1, <3>3
  <2>6. ResultsRecorded'
    BY <2>1, <2>2 DEF AloneInv, ResultsRecorded, Recorded, HasSourceEvent, Event
  <2>7. WaitsForAction'
    BY <2>1, <2>2 DEF AloneInv, WaitsForAction, LatestSourceEvent, RecordedActions, Recorded,
       HasSourceEvent, Actions, Event
  <2> QED BY <2>3, <2>4, <2>5, <2>6, <2>7 DEF AloneInv, SnapshotsTrue
<1> QED BY <1>1, <1>2, <1>3, <1>4 DEF Next

\* Every step of one process at a time leaves the parts there are with their key.
LEMMA StepKeepsIdentity ==
    ASSUME ProjectionInv, AloneInv, Next, NEW o \in DOMAIN parts
    PROVE  parts'[o].key = parts[o].key
<1>1. PartsOK /\ o \in Nat BY DEF ProjectionInv, RowsOK, PartsOK
<1>2. ASSUME NEW a \in Apis, WritePart(a) PROVE parts'[o].key = parts[o].key
  <2>1. proj[a].pc = "write" BY <1>2 DEF WritePart
  <2>2. PICK job : job = proj[a].job OBVIOUS
  <2>3. CASE parts' = parts BY <2>3
  <2>4. CASE parts' # parts
    <3>1. Committed(a, job) BY <1>2, <2>2, <2>4 DEF WritePart, Committed
    <3>2. /\ parts'[job.order].key = job.key
          /\ \A n \in DOMAIN parts' : n # job.order => n \in DOMAIN parts /\ parts'[n] = parts[n]
      BY <2>1, <2>2, <3>1, WrittenSnapshots
    <3>3. o \in DOMAIN parts' BY <3>1 DEF Committed, Upsert
    <3>4. CASE o = job.order
      <4>1. parts[job.order].key = job.key BY <2>1, <2>2, <3>4, JobKeepsIdentity
      <4> QED BY <3>2, <3>4, <4>1
    <3>5. CASE o # job.order BY <3>2, <3>3, <3>5
    <3> QED BY <3>4, <3>5
  <2> QED BY <2>3, <2>4
<1>3. ASSUME NEW a \in Apis, CompleteRun(a) PROVE parts'[o].key = parts[o].key
  <2>1. CASE status # "running" BY <1>3, <2>1 DEF CompleteRun
  <2>2. CASE status = "running"
    <3>1. Completing(a) BY <1>3, <2>2, CompleteRunIs
    <3>2. CASE \E k \in TextKinds : Held(a, k) # <<>> /\ getSinglePartOrder[k] = o
      <4>1. PICK k \in TextKinds : Held(a, k) # <<>> /\ getSinglePartOrder[k] = o BY <3>2
      <4>2. PICK key : key = <<k, "">> OBVIOUS
      <4>3. parts[o].key = key BY <1>1, <4>1, <4>2, SingleParts
      <4>4. PICK text : text = proj[a].texts[k] OBVIOUS
      <4>5. parts'[o] = [key |-> key, text |-> text]
        BY <3>1, <4>1, <4>2, <4>4 DEF Completing, Held
      <4> QED BY <4>3, <4>5
    <3>3. CASE ~\E k \in TextKinds : Held(a, k) # <<>> /\ getSinglePartOrder[k] = o
      BY <3>1, <3>3 DEF Completing, Held
    <3> QED BY <3>2, <3>3
  <2> QED BY <2>1, <2>2
<1>4. ASSUME Resume PROVE parts'[o].key = parts[o].key
  <2>1. PICK call \in STRING, order \in Nat : order \notin DOMAIN parts /\ Answered(call, order)
    BY <1>4, ResumeIs, Zenon
  <2> QED BY <2>1 DEF Answered, Upsert
<1>5. ASSUME NEW a \in Apis,
             \/ Start(a) \/ Load(a) \/ SkipRecorded(a) \/ ReadText(a) \/ ReadTool(a)
             \/ ReadCompleted(a) \/ RequireClientAction(a) \/ Crash(a)
      PROVE  parts' = parts
  BY <1>5, Zenon DEF Start, Load, SkipRecorded, ReadText, ReadTool, ReadCompleted,
     RequireClientAction, Crash, rowVars
<1> QED BY <1>2, <1>3, <1>4, <1>5 DEF Next

\* The rows and the projections are always what they have to be.
LEMMA RowsAlways == Spec => [](ProjectionInv /\ (~shared => AloneInv))
<1>1. Init => ProjectionInv /\ (~shared => AloneInv) BY RowsBegin, AloneBegins
<1>2. ProjectionInv /\ (~shared => AloneInv) /\ [Next]_vars
         => (ProjectionInv /\ (~shared => AloneInv))'
  BY StepKeepsRows, StepStaysAlone
<1> QED BY <1>1, <1>2, PTL DEF Spec

\* A text is the end of what it is put behind.
LEMMA Ended ==
    ASSUME NEW before \in Texts, NEW text \in Texts
    PROVE  IsSuffix(text, before \o text)
<1>1. PICK whole : whole = before \o text OBVIOUS
<1>2. before \in Seq(Characters) /\ text \in Seq(Characters) /\ whole \in Seq(Characters)
  BY <1>1 DEF Texts
<1>3. PICK m \in Nat, n \in Nat : m = Len(before) /\ n = Len(text) BY <1>2
<1>4. Len(whole) = m + n /\ \A i \in 1 .. n : whole[m + i] = text[i] BY <1>1, <1>2, <1>3
<1>5. PICK s, t : s = Reverse(text) /\ t = Reverse(whole) OBVIOUS
<1>6. s = [i \in 1 .. n |-> text[n - i + 1]] /\ t = [i \in 1 .. m + n |-> whole[m + n - i + 1]]
  BY <1>3, <1>4, <1>5 DEF Reverse
<1>7. ASSUME NEW i \in 1 .. n PROVE s[i] = t[i]
  <2>1. n - i + 1 \in 1 .. n /\ m + n - i + 1 = m + (n - i + 1) BY <1>3
  <2>2. whole[m + n - i + 1] = text[n - i + 1] BY <1>4, <2>1
  <2> QED BY <1>3, <1>6, <2>2
<1>8. s \in Seq(Characters) /\ t \in Seq(Characters) /\ Len(s) = n /\ Len(t) = m + n
  BY <1>2, <1>3, <1>4, <1>6
<1>9. SubSeq(s, 1, n) = SubSeq(t, 1, n) BY <1>3, <1>7, <1>8
<1>10. IsPrefix(s, t) BY <1>3, <1>8, <1>9 DEF IsPrefix
<1> QED BY <1>1, <1>5, <1>10 DEF IsSuffix

\* What is streamed and what is read back are the same (projectRun's
\* transactions): the snapshot of every part is what its deltas add up to, or
\* what they end with where the result of a call is repeated, unless two
\* processes have projected the run at once.
THEOREM AlwaysPartsMatchLog == Spec => []PartsMatchLog
<1>1. ASSUME ProjectionInv, ~shared => AloneInv PROVE PartsMatchLog
  <2>1. ProjectionTypeOK BY <1>1, RowsTyped
  <2>2. ASSUME ~shared, NEW o \in DOMAIN parts
        PROVE  IF Repeated(parts[o].key) THEN IsSuffix(parts[o].text, DeltasOf(o))
               ELSE parts[o].text = DeltasOf(o)
    <3>1. o \in Nat /\ parts[o].text \in Texts BY <1>1 DEF ProjectionInv, RowsOK, PartsOK, PartRows
    <3>2. SnapshotTrue(o) BY <1>1, <2>2, <3>1 DEF AloneInv, SnapshotsTrue
    <3>3. Snapshot(o) = parts[o].text BY DEF Snapshot
    <3>4. PICK none : none = <<>> OBVIOUS
    <3>5. none \in Texts /\ none \o parts[o].text = parts[o].text
      BY <3>1, <3>4, Joined DEF Texts
    <3>6. DeltasOf(o) = parts[o].text => IsSuffix(parts[o].text, DeltasOf(o))
      BY <3>1, <3>5, Ended
    <3>7. Superseded(o) => IsSuffix(parts[o].text, DeltasOf(o)) BY <3>1, <3>3, Ended DEF Superseded
    <3> QED BY <3>2, <3>3, <3>6, <3>7 DEF SnapshotTrue, Superseded
  <2> QED BY <2>1, <2>2 DEF PartsMatchLog
<1> QED BY <1>1, RowsAlways, PTL

\* A part never turns into another one (getToolPartState,
\* reserveToolPartOrder, createClientActionToolResultPart): the order taken
\* for a new part is free, unless two processes project the run at once.
THEOREM AlwaysPartsKeepIdentity == Spec => PartsKeepIdentity
<1>1. ASSUME ProjectionInv, ~shared => AloneInv, [Next]_vars
      PROVE  [~shared => \A o \in DOMAIN parts : parts'[o].key = parts[o].key]_vars
  <2>1. CASE UNCHANGED vars BY <2>1
  <2>2. CASE Next
    <3>1. ASSUME ~shared, NEW o \in DOMAIN parts PROVE parts'[o].key = parts[o].key
      BY <1>1, <2>2, <3>1, StepKeepsIdentity
    <3> QED BY <3>1
  <2> QED BY <1>1, <2>1, <2>2
<1> QED BY <1>1, RowsAlways, PTL DEF Spec, PartsKeepIdentity

-----------------------------------------------------------------------------
(* What one stripper makes of the whole stream: Strip of the whole text,   *)
(* however it was cut.                                                     *)

\* f is the text of the stream up to each event.
TextUpTo(f) ==
    /\ f[0] = <<>> /\ f[Len(stream)] = WholeText
    /\ \A i \in 0 .. Len(stream) : f[i] \in Texts
    /\ \A i \in 1 .. Len(stream) :
          f[i] = IF Event(i).type = "text" THEN f[i - 1] \o Event(i).text ELSE f[i - 1]

\* There is such a function.
LEMMA TextUpToExists ==
    ASSUME stream \in Seq(Events)
    PROVE  \E f : TextUpTo(f)
<1>1. PICK len \in Nat : len = Len(stream) /\ DOMAIN stream = 1 .. len OBVIOUS
<1>2. PICK f : Adds(f, len, TextPlaces, TextChunks) /\ WholeText = f[len] BY <1>1, WholeTextIs
<1>3. \A k \in TextPlaces : TextChunks[k] \in Texts
  <2>1. \A k \in 1 .. len : Event(k) \in Events BY <1>1 DEF Event
  <2>2. \A k \in 1 .. len : Event(k).text \in Texts BY <2>1, EventTextIs
  <2> QED BY <1>1, <2>2 DEF TextPlaces, TextChunks
<1>4. \A k \in 0 .. len : f[k] \in Texts BY <1>2, <1>3, SumTyped
<1>5. f[0] = <<>>
  <2>1. 0 \in 0 .. len OBVIOUS
  <2> QED BY <1>2, <2>1 DEF Adds
<1>6. ASSUME NEW i \in 1 .. len
      PROVE  f[i] = IF Event(i).type = "text" THEN f[i - 1] \o Event(i).text ELSE f[i - 1]
  <2>1. i \in 0 .. len /\ i # 0 /\ i \in DOMAIN stream BY <1>1
  <2>2. f[i] = IF i \in TextPlaces THEN f[i - 1] \o TextChunks[i] ELSE f[i - 1]
    BY <1>2, <2>1 DEF Adds
  <2>3. (i \in TextPlaces <=> Event(i).type = "text") /\ TextChunks[i] = Event(i).text
    BY <2>1 DEF TextPlaces, TextChunks
  <2> QED BY <2>2, <2>3
<1> QED BY <1>1, <1>2, <1>4, <1>5, <1>6 DEF TextUpTo

\* The text up to an event is a beginning of the whole.
LEMMA TextBegins ==
    ASSUME stream \in Seq(Events), NEW f, TextUpTo(f), NEW i \in 0 .. Len(stream)
    PROVE  \E t \in Texts : WholeText = f[i] \o t
<1>1. PICK len \in Nat : len = Len(stream) OBVIOUS
<1> DEFINE N == {n \in Nat : n <= len => \E t \in Texts : WholeText = f[len - n] \o t}
<1>2. 0 \in N
  <2>1. <<>> \in Texts BY DEF Texts
  <2>2. len \in 0 .. len /\ len - 0 = len BY <1>1
  <2>3. f[len] \in Texts /\ f[len] = WholeText BY <1>1, <2>2 DEF TextUpTo
  <2>4. WholeText = f[len] \o <<>> BY <2>3, Joined
  <2> QED BY <2>1, <2>2, <2>4
<1>3. ASSUME NEW n \in Nat, n \in N PROVE n + 1 \in N
  <2>1. SUFFICES ASSUME n + 1 <= len PROVE \E t \in Texts : WholeText = f[len - (n + 1)] \o t OBVIOUS
  <2>2. PICK t \in Texts : WholeText = f[len - n] \o t BY <1>3, <2>1
  <2>3. PICK m \in 1 .. len : m = len - n BY <1>1, <2>1
  <2>4. m \in 1 .. Len(stream) /\ m - 1 \in 0 .. len /\ m - 1 = len - (n + 1) /\ m \in 0 .. len
    BY <1>1, <2>1, <2>3
  <2>5. f[m] = IF Event(m).type = "text" THEN f[m - 1] \o Event(m).text ELSE f[m - 1]
    BY <1>1, <2>3 DEF TextUpTo
  <2>6. CASE Event(m).type # "text" BY <2>2, <2>3, <2>4, <2>5, <2>6
  <2>7. CASE Event(m).type = "text"
    <3>1. PICK u : u = Event(m).text OBVIOUS
    <3>2. u \in Texts
      <4>1. Event(m) \in Events BY <2>4 DEF Event
      <4> QED BY <3>1, <4>1, EventTextIs
    <3>3. PICK s \in Texts : s = f[m - 1] BY <1>1, <2>4 DEF TextUpTo
    <3>4. WholeText = (s \o u) \o t BY <2>2, <2>3, <2>5, <2>7, <3>1, <3>3
    <3>5. (s \o u) \o t = s \o (u \o t) BY <3>2, <3>3, JoinedAnyhow, Zenon
    <3>6. u \o t \in Texts BY <3>2, Joined
    <3> QED BY <2>4, <3>3, <3>4, <3>5, <3>6
  <2> QED BY <2>6, <2>7
<1>4. Nat \subseteq N
  <2> HIDE DEF N
  <2> QED BY <1>2, <1>3, Induction
<1>5. PICK n \in Nat : n = len - i /\ n <= len /\ len - n = i
  <2>1. len - i \in Nat /\ len - i <= len /\ len - (len - i) = i BY <1>1
  <2> HIDE DEF N
  <2> QED BY <2>1, Zenon
<1>6. n \in N BY <1>4
<1> QED BY <1>5, <1>6

\* A text that is written: what comes out, and what will be left of the rest.
LEMMA WriteKeeps ==
    ASSUME NEW st \in StripperStates, NEW u \in Texts, NEW t \in Texts, Fits(st, u \o t),
           NEW r, r = Write(st, u)
    PROVE  /\ r \in Drained /\ Fits(r.st, t)
           /\ r.out \o Rest(r.st, t) = Rest(st, u \o t)
<1>1. PICK b : b = st.buffer OBVIOUS
<1>2. b \in Texts /\ st.inside \in BOOLEAN BY <1>1 DEF StripperStates
<1>3. PICK more : more = [st EXCEPT !.buffer = @ \o u] OBVIOUS
<1>4. more \in StripperStates /\ more = [buffer |-> b \o u, inside |-> st.inside]
  BY <1>1, <1>3, WriteTyped
<1>5. more.buffer = b \o u /\ more.inside = st.inside BY <1>4
<1>6. (b \o u) \o t = b \o (u \o t) BY <1>2, JoinedAnyhow, Zenon
<1>7. Fits(more, t)
  <2>1. TagsFit(more.buffer \o t) BY <1>1, <1>5, <1>6 DEF Fits
  <2>2. ASSUME more.inside PROVE \E e : TagAt(more.buffer, 1, e, "T")
    <3>1. PICK e : TagAt(b, 1, e, "T") BY <1>1, <1>5, <2>2 DEF Fits
    <3>2. TagAt(b \o u, 1, e, "T") BY <1>2, <3>1, TagStays
    <3> QED BY <1>5, <3>2
  <2> QED BY <2>1, <2>2 DEF Fits
<1>8. PICK final \in BOOLEAN : final = FALSE OBVIOUS
<1>9. Kept(Drain(more, final), [st |-> more, out |-> <<>>], t) BY <1>4, <1>7, <1>8, DrainKeeps
<1>10. r = Drain(more, final) BY <1>3, <1>8 DEF Write
<1>11. PICK d : d = [st |-> more, out |-> <<>>] OBVIOUS
<1>12. d.st = more /\ d.out = <<>> BY <1>11
<1>13. r \in Drained /\ Fits(r.st, t) /\ r.out \o Rest(r.st, t) = <<>> \o Rest(more, t)
  BY <1>9, <1>10, <1>11, <1>12 DEF Kept
<1>14. <<>> \o Rest(more, t) = Rest(more, t)
  <2>1. Rest(more, t) \in Texts BY <1>4, RestTyped
  <2> QED BY <2>1, Joined
<1>15. Rest(more, t) = Rest(st, u \o t) BY <1>1, <1>5, <1>6 DEF Rest
<1> QED BY <1>13, <1>14, <1>15

\* What a stripper that has read s has let through, and what it will.
Splits(d, s, t) == Fits(d.st, t) /\ Strip(s \o t) = d.out \o Rest(d.st, t)

\* An event that is no text changes nothing; a text goes on with it.
LEMMA StripEventSplits ==
    ASSUME NEW d \in Drained, NEW event \in Events, NEW s \in Texts, NEW t \in Texts,
           event.type # "text" => Splits(d, s, t),
           event.type = "text" => Splits(d, s, event.text \o t),
           NEW next, next = IF event.type = "text" THEN s \o event.text ELSE s
    PROVE  Splits(StripEvent(d, event), next, t)
<1>1. CASE event.type # "text" BY <1>1 DEF StripEvent
<1>2. CASE event.type = "text"
  <2>1. PICK u \in Texts : u = event.text BY EventTextIs
  <2>2. d.st \in StripperStates /\ d.out \in Texts BY DEF Drained
  <2>3. Fits(d.st, u \o t) /\ Strip(s \o (u \o t)) = d.out \o Rest(d.st, u \o t)
    BY <1>2, <2>1 DEF Splits
  <2>4. PICK r : r = Write(d.st, u) OBVIOUS
  <2>5. r \in Drained /\ Fits(r.st, t) /\ r.out \o Rest(r.st, t) = Rest(d.st, u \o t)
    <3>1. PICK st \in StripperStates : st = d.st BY <2>2
    <3>2. Fits(st, u \o t) /\ r = Write(st, u) BY <2>3, <2>4, <3>1
    <3>3. r \in Drained /\ Fits(r.st, t) /\ r.out \o Rest(r.st, t) = Rest(st, u \o t)
      BY <3>2, WriteKeeps, ZenonT(60)
    <3> QED BY <3>1, <3>3
  <2>6. PICK x : x = StripEvent(d, event) OBVIOUS
  <2>7. x.st = r.st /\ x.out = d.out \o r.out BY <1>2, <2>1, <2>4, <2>6 DEF StripEvent
  <2>8. PICK rest : rest = Rest(r.st, t) OBVIOUS
  <2>9. rest \in Texts /\ r.out \in Texts
    <3>1. r.st \in StripperStates /\ r.out \in Texts BY <2>5 DEF Drained
    <3> QED BY <2>8, <3>1, RestTyped
  <2>10. d.out \o (r.out \o rest) = (d.out \o r.out) \o rest BY <2>2, <2>9, JoinedAnyhow, Zenon
  <2>11. (s \o u) \o t = s \o (u \o t) BY <2>1, JoinedAnyhow, Zenon
  <2>12. next = s \o u BY <1>2, <2>1
  <2>13. Strip(next \o t) = x.out \o rest BY <2>3, <2>5, <2>7, <2>8, <2>10, <2>11, <2>12
  <2>14. Splits(x, next, t) BY <2>5, <2>7, <2>8, <2>13 DEF Splits
  <2> QED BY <2>6, <2>14
<1> QED BY <1>1, <1>2

\* What has come out of the stream and what will come is Strip of the text.
LEMMA StrippedSplits ==
    ASSUME stream \in Seq(Events), NEW f, TextUpTo(f), NEW i \in 0 .. Len(stream), NEW t \in Texts,
           TagsFit(f[i] \o t)
    PROVE  Splits(Stripped(i), f[i], t)
<1>1. PICK len \in Nat : len = Len(stream) OBVIOUS
<1> DEFINE N == {n \in Nat : n <= len => \A u \in Texts : TagsFit(f[n] \o u) => Splits(Stripped(n), f[n], u)}
<1>2. 0 \in N
  <2>1. SUFFICES ASSUME NEW u \in Texts, TagsFit(f[0] \o u) PROVE Splits(Stripped(0), f[0], u) OBVIOUS
  <2>2. PICK d : d = Stripped(0) OBVIOUS
  <2>3. d.st.buffer = <<>> /\ d.st.inside = FALSE /\ d.out = <<>> /\ f[0] = <<>>
    BY <2>2, StrippedIs DEF Begun, NewStripper, TextUpTo
  <2>4. <<>> \o u = u BY Joined
  <2>5. Fits(d.st, u) BY <2>1, <2>3 DEF Fits
  <2>6. Rest(d.st, u) = Strip(u) BY <2>3, <2>4 DEF Rest
  <2>7. Strip(u) \in Texts BY StripTyped
  <2>8. <<>> \o Strip(u) = Strip(u) BY <2>7, Joined
  <2>9. Splits(d, f[0], u) BY <2>3, <2>4, <2>5, <2>6, <2>8 DEF Splits
  <2> QED BY <2>2, <2>9
<1>3. ASSUME NEW n \in Nat, n \in N PROVE n + 1 \in N
  <2>1. SUFFICES ASSUME n + 1 <= len, NEW u \in Texts, TagsFit(f[n + 1] \o u)
                 PROVE  Splits(Stripped(n + 1), f[n + 1], u)
    OBVIOUS
  <2>2. n + 1 \in 1 .. Len(stream) /\ n \in 0 .. Len(stream) /\ (n + 1) - 1 = n BY <1>1, <2>1
  <2>3. PICK event \in Events : event = Event(n + 1) BY <2>2 DEF Event
  <2>4. PICK d \in Drained : d = Stripped(n) BY <2>2, StrippedIs
  <2>5. Stripped(n + 1) = StripEvent(d, event) BY <2>2, <2>3, <2>4, StrippedIs
  <2>6. PICK s \in Texts : s = f[n] BY <2>2 DEF TextUpTo
  <2>7. f[n + 1] = IF event.type = "text" THEN s \o event.text ELSE s
    BY <2>2, <2>3, <2>6 DEF TextUpTo
  <2>8. \A v \in Texts : TagsFit(s \o v) => Splits(d, s, v) BY <1>1, <1>3, <2>1, <2>4, <2>6
  <2>9. event.type # "text" => Splits(d, s, u) BY <2>1, <2>7, <2>8
  <2>10. ASSUME event.type = "text" PROVE Splits(d, s, event.text \o u)
    <3>1. PICK w \in Texts : w = event.text BY EventTextIs
    <3>2. (s \o w) \o u = s \o (w \o u) BY <2>6, <3>1, JoinedAnyhow, Zenon
    <3>3. w \o u \in Texts BY <3>1, Joined
    <3>4. TagsFit(s \o (w \o u)) BY <2>1, <2>7, <2>10, <3>1, <3>2
    <3> QED BY <2>8, <3>1, <3>3, <3>4
  <2>11. PICK next : next = f[n + 1] OBVIOUS
  <2>12. Splits(StripEvent(d, event), next, u) BY <2>7, <2>9, <2>10, <2>11, StripEventSplits
  <2> QED BY <2>5, <2>11, <2>12
<1>4. Nat \subseteq N
  <2> HIDE DEF N
  <2> QED BY <1>2, <1>3, Induction
<1>5. i \in N /\ i <= len BY <1>1, <1>4
<1> QED BY <1>5

\* Flushing lets all of the rest through.
LEMMA FlushIs ==
    ASSUME NEW st \in StripperStates, Fits(st, <<>>)
    PROVE  Flush(st).out = Rest(st, <<>>)
<1>1. PICK t \in Texts : t = <<>>
  <2>1. <<>> \in Texts BY DEF Texts
  <2> QED BY <2>1
<1>2. PICK final \in BOOLEAN : final = TRUE OBVIOUS
<1>3. PICK d : d = [st |-> st, out |-> <<>>] OBVIOUS
<1>4. d.st = st /\ d.out = <<>> BY <1>3
<1>5. PICK r : r = Drain(st, final) OBVIOUS
<1>6. Kept(r, d, t) BY <1>1, <1>2, <1>3, <1>5, DrainKeeps
<1>7. r = Flush(st) BY <1>2, <1>5 DEF Flush
<1>8. r.st.buffer = <<>> BY <1>7, FlushEmpties
<1>9. r \in Drained /\ Fits(r.st, t) /\ r.out \o Rest(r.st, t) = <<>> \o Rest(st, t)
  BY <1>4, <1>6 DEF Kept
<1>10. r.out \in Texts /\ r.st \in StripperStates BY <1>9 DEF Drained
<1>11. ~r.st.inside
  <2>1. SUFFICES ASSUME r.st.inside PROVE FALSE OBVIOUS
  <2>2. PICK e : TagAt(r.st.buffer, 1, e, "T") BY <1>9, <2>1 DEF Fits
  <2>3. 1 \in 1 .. Len(t) BY <1>1, <1>8, <2>2 DEF TagAt
  <2>4. Len(t) = 0 BY <1>1
  <2> QED BY <2>3, <2>4
<1>12. Rest(r.st, t) = <<>>
  <2>1. t \o t = t BY <1>1, Joined
  <2>2. Rest(r.st, t) = Strip(t) BY <1>1, <1>8, <1>11, <2>1 DEF Rest
  <2>3. Strip(<<>>) = <<>> BY <1>1, StripTyped
  <2> QED BY <1>1, <2>2, <2>3
<1>13. r.out \o <<>> = r.out BY <1>10, Joined
<1>14. <<>> \o Rest(st, t) = Rest(st, t)
  <2>1. Rest(st, t) \in Texts BY RestTyped
  <2> QED BY <2>1, Joined
<1> QED BY <1>1, <1>7, <1>9, <1>12, <1>13, <1>14

\* What has come out at the end, with what is flushed, is Strip of the whole text.
LEMMA StrippedWhole ==
    ASSUME stream \in Seq(Events), TagsFit(WholeText), NEW d, d = Stripped(Len(stream))
    PROVE  Strip(WholeText) = d.out \o Flush(d.st).out
<1>1. PICK f : TextUpTo(f) BY TextUpToExists
<1>2. PICK len \in Nat : len = Len(stream) OBVIOUS
<1>3. len \in 0 .. Len(stream) BY <1>2
<1>4. PICK s \in Texts : s = f[len] BY <1>1, <1>3 DEF TextUpTo
<1>5. s = WholeText BY <1>1, <1>2, <1>4 DEF TextUpTo
<1>6. PICK t \in Texts : t = <<>>
  <2>1. <<>> \in Texts BY DEF Texts
  <2> QED BY <2>1
<1>7. s \o t = s BY <1>6, Joined
<1>8. TagsFit(f[len] \o t) BY <1>4, <1>5, <1>7
<1>9. Splits(d, s, t)
  <2>1. Splits(Stripped(len), f[len], t) BY <1>1, <1>3, <1>8, StrippedSplits
  <2> QED BY <1>2, <1>4, <2>1
<1>10. d.st \in StripperStates
  <2>1. d \in Drained BY <1>2, <1>3, StrippedIs
  <2> QED BY <2>1 DEF Drained
<1>11. Flush(d.st).out = Rest(d.st, t)
  <2>1. Fits(d.st, t) BY <1>9 DEF Splits
  <2> QED BY <1>6, <1>10, <2>1, FlushIs
<1> QED BY <1>5, <1>7, <1>9, <1>11 DEF Splits

\* What has come out anywhere is a beginning of it.
LEMMA StrippedBegins ==
    ASSUME stream \in Seq(Events), TagsFit(WholeText), NEW j \in 0 .. Len(stream)
    PROVE  IsPrefix(Stripped(j).out, Strip(WholeText))
<1>1. PICK f : TextUpTo(f) BY TextUpToExists
<1>2. PICK t \in Texts : WholeText = f[j] \o t BY <1>1, TextBegins
<1>3. Splits(Stripped(j), f[j], t) BY <1>1, <1>2, StrippedSplits
<1>4. PICK d \in Drained : d = Stripped(j) BY StrippedIs
<1>5. d.st \in StripperStates /\ d.out \in Texts BY DEF Drained
<1>6. PICK rest \in Texts : rest = Rest(d.st, t) BY <1>5, RestTyped
<1>7. Strip(WholeText) = d.out \o rest BY <1>2, <1>3, <1>4, <1>6 DEF Splits
<1>8. IsPrefix(d.out, d.out \o rest) BY <1>5, <1>6, DeltaOfIs
<1> QED BY <1>4, <1>7, <1>8

-----------------------------------------------------------------------------
(* As long as no projection goes on behind text that was held back: what   *)
(* stays while the rows grow.                                              *)

\* What one stripper makes of an event more.
LEMMA StrippedNext ==
    ASSUME stream \in Seq(Events), NEW i \in DOMAIN stream
    PROVE  /\ Stripped(i - 1) \in Drained /\ Stripped(i) \in Drained
           /\ Event(i).type # "text" => Stripped(i) = Stripped(i - 1)
           /\ Event(i).type = "text" => \E r \in Drained :
                 /\ r = Write(Stripped(i - 1).st, Event(i).text)
                 /\ Stripped(i).st = r.st /\ Stripped(i).out = Stripped(i - 1).out \o r.out
<1>a. PICK d : d = Stripped(i - 1) OBVIOUS
<1>b. PICK e : e = Stripped(i) OBVIOUS
<1>1. i \in 1 .. Len(stream) /\ i \in 0 .. Len(stream) /\ i - 1 \in 0 .. Len(stream) OBVIOUS
<1>2. d \in Drained /\ e \in Drained /\ e = StripEvent(d, Event(i))
  BY <1>1, <1>a, <1>b, StrippedIs
<1>3. Event(i).type # "text" => e = d BY <1>2 DEF StripEvent
<1>4. ASSUME Event(i).type = "text"
      PROVE  \E r \in Drained : /\ r = Write(d.st, Event(i).text)
                                /\ e.st = r.st /\ e.out = d.out \o r.out
  <2>1. PICK text : text = Event(i).text OBVIOUS
  <2>2. PICK r : r = Write(d.st, text) OBVIOUS
  <2>3. e = [st |-> r.st, out |-> d.out \o r.out] BY <1>2, <1>4, <2>1, <2>2 DEF StripEvent
  <2>4. e.st = r.st /\ e.out = d.out \o r.out BY <2>3
  <2>5. r \in Drained
    <3>1. Event(i) \in Events BY <1>1 DEF Event
    <3>2. text \in Texts BY <2>1, <3>1, EventTextIs
    <3>3. d.st \in StripperStates BY <1>2 DEF Drained
    <3> QED BY <2>2, <3>2, <3>3, WriteTyped
  <2> QED BY <2>1, <2>2, <2>4, <2>5
<1> QED BY <1>a, <1>b, <1>2, <1>3, <1>4

\* A text that nothing comes out of is not due, and one that something comes out of is.
LEMMA DueWhenOut ==
    ASSUME stream \in Seq(Events), NEW i \in DOMAIN stream, Event(i).type = "text", NEW out \in Texts,
           Stripped(i).out = Stripped(i - 1).out \o out
    PROVE  Due(i) <=> out # <<>>
<1>1. PICK d : d = Stripped(i - 1) OBVIOUS
<1>2. PICK e : e = Stripped(i) OBVIOUS
<1>3. d \in Drained BY <1>1, <1>2, StrippedNext
<1>4. d.out \in Texts BY <1>3 DEF Drained
<1>5. e.out = d.out \o out BY <1>1, <1>2
<1>6. e.out = d.out <=> out = <<>>
  <2>1. CASE out = <<>>
    <3>1. d.out \o <<>> = d.out BY <1>4, Joined
    <3> QED BY <1>5, <2>1, <3>1
  <2>2. CASE out # <<>>
    <3>1. Len(out) # 0 /\ Len(out) \in Nat BY <2>2 DEF Texts
    <3>2. Len(e.out) = Len(d.out) + Len(out) /\ Len(d.out) \in Nat BY <1>4, <1>5, Joined
    <3> QED BY <2>2, <3>1, <3>2
  <2> QED BY <2>1, <2>2
<1>7. ~(Event(i).type \in ToolEvents) BY DEF ToolEvents, ToolKinds
<1>8. Due(i) <=> e.out # d.out BY <1>1, <1>2, <1>7 DEF Due
<1> QED BY <1>6, <1>8

\* Nothing comes out between two places without a text that is due.
LEMMA OutStays ==
    ASSUME stream \in Seq(Events), NEW j \in 0 .. Len(stream), NEW m \in 0 .. Len(stream), j <= m,
           \A k \in DOMAIN stream : j < k /\ k <= m /\ Event(k).type = "text" => ~Due(k)
    PROVE  Stripped(m).out = Stripped(j).out
<1>1. PICK len \in Nat : len = Len(stream) /\ DOMAIN stream = 1 .. len OBVIOUS
<1> DEFINE N == {n \in Nat : j + n <= m => Stripped(j + n).out = Stripped(j).out}
<1>2. 0 \in N
  <2>1. j + 0 = j BY <1>1
  <2> QED BY <2>1
<1>3. ASSUME NEW n \in Nat, n \in N PROVE n + 1 \in N
  <2>1. SUFFICES ASSUME j + (n + 1) <= m PROVE Stripped(j + (n + 1)).out = Stripped(j).out OBVIOUS
  <2>2. PICK k : k = j + (n + 1) OBVIOUS
  <2>3. k \in DOMAIN stream /\ j < k /\ k <= m /\ k - 1 = j + n /\ j + n <= m BY <1>1, <2>1, <2>2
  <2>4. Stripped(k - 1).out = Stripped(j).out BY <1>3, <2>3
  <2>5. PICK d : d = Stripped(k - 1) OBVIOUS
  <2>6. PICK e : e = Stripped(k) OBVIOUS
  <2>7. Event(k).type # "text" => e = d
    <3>1. Event(k).type # "text" => Stripped(k) = Stripped(k - 1) BY <2>3, StrippedNext
    <3> QED BY <2>5, <2>6, <3>1
  <2>8. Event(k).type = "text" => e.out = d.out
    <3>1. Event(k).type = "text" => ~Due(k) BY <2>3
    <3> QED BY <2>5, <2>6, <3>1 DEF Due
  <2> QED BY <2>2, <2>4, <2>5, <2>6, <2>7, <2>8
<1>4. Nat \subseteq N
  <2> HIDE DEF N
  <2> QED BY <1>2, <1>3, Induction
<1>5. m - j \in Nat /\ j + (m - j) = m BY <1>1
<1>6. m - j \in N BY <1>4, <1>5
<1> QED BY <1>1, <1>5, <1>6

\* What the stream says stays.
LEMMA StreamStays ==
    ASSUME stream' = stream
    PROVE  /\ \A i : Stripped(i)' = Stripped(i)
           /\ \A i : Event(i)' = Event(i)
           /\ \A i : Due(i)' <=> Due(i)
           /\ \A p : StripperTrue(p)' <=> StripperTrue(p)
           /\ Actions' = Actions
<1>1. \A i : Stripped(i)' = Stripped(i) BY DEF Stripped, Event
<1>2. \A i : Event(i)' = Event(i) BY DEF Event
<1>3. \A i : Due(i)' <=> Due(i) BY <1>1, <1>2 DEF Due
<1>4. \A p : StripperTrue(p)' <=> StripperTrue(p) BY <1>1, <1>2 DEF StripperTrue
<1>5. Actions' = Actions BY DEF Actions, Event
<1> QED BY <1>1, <1>2, <1>3, <1>4, <1>5

\* What has been done stays done.
LEMMA DoneStays ==
    ASSUME stream' = stream, \A i : Recorded(i) => Recorded(i)', NEW pos, DoneTo(pos)
    PROVE  DoneTo(pos)'
BY StreamStays DEF DoneTo

\* What a projection has to be as long as nothing held back was passed over.
IntactProjection(p) ==
    /\ p.pc # "idle" => DoneTo(p.pos) /\ StripperTrue(p)
    /\ p.pc = "action" => status = "completed" \/ HasSourceEvent(Src(p.pos + 1, "tool"))

\* A projection moves, and rows with it.
LEMMA IntactGoesOn ==
    ASSUME ProjectionInv, IntactInv, NEW a \in Apis, stream' = stream,
           NEW q, proj' = [proj EXCEPT ![a] = q], IntactProjection(q)',
           \A src : HasSourceEvent(src) => HasSourceEvent(src)',
           status = "completed" => status' = "completed",
           InOrder', ActionToolRecorded', WaitsUnanswered', TextRecorded',
           status' = "completed" => DoneTo(Len(stream))'
    PROVE  IntactInv'
<1>1. \A i : Recorded(i) => Recorded(i)' BY DEF Recorded
<1>2. proj'[a] = q /\ \A b \in Apis : b # a => proj'[b] = proj[b]
  BY DEF ProjectionInv, ProjectionsOK
<1>3. ASSUME NEW b \in Apis PROVE IntactProjection(proj[b])'
  <2>1. CASE b = a BY <1>2, <2>1
  <2>2. CASE b # a
    <3>1. PICK p : p = proj[b] OBVIOUS
    <3>2. IntactProjection(p) BY <3>1 DEF IntactInv, IntactProjection
    <3>3. p.pc # "idle" => DoneTo(p.pos)' /\ StripperTrue(p)'
      BY <1>1, <3>2, DoneStays, StreamStays DEF IntactProjection
    <3>4. p.pc = "action" => status' = "completed" \/ HasSourceEvent(Src(p.pos + 1, "tool"))'
      BY <3>2 DEF IntactProjection, Src
    <3>5. IntactProjection(p)' BY <3>3, <3>4 DEF IntactProjection
    <3> QED BY <1>2, <2>2, <3>1, <3>5
  <2> QED BY <2>1, <2>2
<1> QED BY <1>3 DEF IntactInv, IntactProjection

\* No row changes.
LEMMA IntactRowsStay ==
    ASSUME IntactInv, UNCHANGED <<stream, rowVars>>
    PROVE  /\ InOrder' /\ ActionToolRecorded' /\ WaitsUnanswered' /\ TextRecorded'
           /\ status' = "completed" => DoneTo(Len(stream))'
           /\ \A src : HasSourceEvent(src)' <=> HasSourceEvent(src)
           /\ \A p : IntactProjection(p) => IntactProjection(p)'
<1>1. UNCHANGED <<stream, status, parts, content, log, answered>> BY DEF rowVars
<1>2. \A src : HasSourceEvent(src)' <=> HasSourceEvent(src) BY <1>1 DEF HasSourceEvent
<1>3. \A i : Recorded(i)' <=> Recorded(i) BY <1>2 DEF Recorded
<1>4. RecordedActions' = RecordedActions BY <1>1, <1>3, StreamStays DEF RecordedActions
<1>5. \A pos : DoneTo(pos) => DoneTo(pos)' BY <1>1, <1>3, DoneStays
<1>6. \A p : IntactProjection(p) => IntactProjection(p)'
  BY <1>1, <1>2, <1>5, StreamStays DEF IntactProjection, Src
<1>7. InOrder' BY <1>1, <1>3, StreamStays DEF IntactInv, InOrder
<1>8. ActionToolRecorded' BY <1>2, <1>4 DEF IntactInv, ActionToolRecorded
<1>9. WaitsUnanswered' BY <1>1, <1>4, StreamStays DEF IntactInv, WaitsUnanswered
<1>10. TextRecorded'
  <2>1. \A o : DeltasOf(o)' = DeltasOf(o) BY <1>1 DEF DeltasOf
  <2>2. PICK o : o = getSinglePartOrder["text"] OBVIOUS
  <2>3. PICK len : len = Len(stream) OBVIOUS
  <2>4. CASE status = "completed"
    <3>1. DeltasOf(o) = Stripped(len).out \o Flush(Stripped(len).st).out
      BY <2>2, <2>3, <2>4 DEF IntactInv, TextRecorded
    <3>2. Stripped(len)' = Stripped(len) BY <1>1, StreamStays
    <3>3. DeltasOf(o)' = Stripped(len)'.out \o Flush(Stripped(len)'.st).out BY <2>1, <3>1, <3>2
    <3> QED BY <1>1, <2>2, <2>3, <2>4, <3>3 DEF TextRecorded
  <2>5. CASE status # "completed"
    <3>1. PICK j \in 0 .. len : /\ DeltasOf(o) = Stripped(j).out
                               /\ \A i \in DOMAIN stream :
                                     Event(i).type = "text" /\ Due(i) => (Recorded(i) <=> i <= j)
      BY <2>2, <2>3, <2>5 DEF IntactInv, TextRecorded
    <3>2. DeltasOf(o)' = Stripped(j)'.out
      <4>1. Stripped(j)' = Stripped(j) BY <1>1, StreamStays
      <4> QED BY <2>1, <3>1, <4>1
    <3>3. \A i \in DOMAIN stream' :
             Event(i)'.type = "text" /\ Due(i)' => (Recorded(i)' <=> i <= j)
      BY <1>1, <1>3, <3>1, StreamStays
    <3> QED BY <1>1, <2>2, <2>3, <2>5, <3>2, <3>3 DEF TextRecorded
  <2> QED BY <2>4, <2>5
<1>11. status' = "completed" => DoneTo(Len(stream))' BY <1>1, <1>5 DEF IntactInv
<1> QED BY <1>2, <1>6, <1>7, <1>8, <1>9, <1>10, <1>11

\* A projection moves, and no row.
LEMMA IntactStays ==
    ASSUME ProjectionInv, IntactInv, NEW a \in Apis, UNCHANGED <<stream, rowVars>>,
           NEW q, proj' = [proj EXCEPT ![a] = q], IntactProjection(q)
    PROVE  IntactInv'
<1>1. /\ InOrder' /\ ActionToolRecorded' /\ WaitsUnanswered' /\ TextRecorded'
      /\ status' = "completed" => DoneTo(Len(stream))'
      /\ \A src : HasSourceEvent(src)' <=> HasSourceEvent(src)
      /\ IntactProjection(q)'
  BY IntactRowsStay
<1>2. UNCHANGED <<stream, status>> BY DEF rowVars
<1> QED BY <1>1, <1>2, IntactGoesOn

\* What comes before an event on record is on record, if it has to be.
LEMMA RecordedInOrder ==
    ASSUME IntactInv, NEW i \in DOMAIN stream, Due(i), NEW j, Recorded(j), i < j
    PROVE  Recorded(i)
<1>1. PICK src : src = Src(j, "") OBVIOUS
<1>2. PICK n \in DOMAIN log : log[n].src = src BY <1>1 DEF Recorded, HasSourceEvent
<1>3. src[1] = j BY <1>1, SrcIs
<1> QED BY <1>2, <1>3 DEF IntactInv, InOrder

\* A client action has to be on record.
LEMMA ActionsAreDue ==
    ASSUME NEW i \in Actions
    PROVE  Due(i)
BY DEF Actions, Due, ToolEvents

\* Client actions are counted up to one more than before it.
LEMMA ActionsBefore ==
    ASSUME stream \in Streams, NEW i \in Nat
    PROVE  /\ Cardinality({j \in Actions : j < i}) \in Nat /\ Cardinality({j \in Actions : j <= i}) \in Nat
           /\ i \in Actions => Cardinality({j \in Actions : j < i}) < Cardinality({j \in Actions : j <= i})
           /\ {j \in Actions : j < i + 1} = {j \in Actions : j <= i}
<1>1. Actions \subseteq Nat /\ IsFiniteSet(Actions) BY StreamIs
<1>2. PICK before : before = {j \in Actions : j < i} OBVIOUS
<1>3. PICK upto : upto = {j \in Actions : j <= i} OBVIOUS
<1>4. before \subseteq Actions /\ upto \subseteq Actions /\ i \notin before BY <1>1, <1>2, <1>3
<1>5. IsFiniteSet(before) /\ IsFiniteSet(upto) BY <1>1, <1>4, FS_Subset
<1>6. Cardinality(before) \in Nat /\ Cardinality(upto) \in Nat BY <1>5, FS_CardinalityType
<1>7. ASSUME i \in Actions PROVE Cardinality(before) < Cardinality(upto)
  <2>1. upto = before \cup {i}
    <3>1. \A j \in Actions : j <= i <=> j < i \/ j = i BY <1>1
    <3> QED BY <1>2, <1>3, <1>7, <3>1, Zenon
  <2>2. Cardinality(before \cup {i}) = Cardinality(before) + 1 BY <1>4, <1>5, FS_AddElement
  <2> QED BY <1>6, <2>1, <2>2
<1>8. {j \in Actions : j < i + 1} = upto
  <2>1. \A j \in Actions : j < i + 1 <=> j <= i BY <1>1
  <2> QED BY <1>3, <2>1, Zenon
<1> QED BY <1>2, <1>3, <1>6, <1>7, <1>8

\* If a client action is not on record, only those before it are.
LEMMA RecordedBefore ==
    ASSUME ProjectionInv, IntactInv, NEW i \in Actions, ~Recorded(i)
    PROVE  Cardinality(RecordedActions) <= Cardinality({j \in Actions : j < i})
<1>1. stream \in Streams BY DEF ProjectionInv, RowsOK
<1>2. Actions \subseteq DOMAIN stream /\ DOMAIN stream = 1 .. Len(stream) /\ IsFiniteSet(Actions)
      /\ Len(stream) \in Nat
  BY <1>1, StreamIs
<1>3. PICK before : before = {j \in Actions : j < i} OBVIOUS
<1>4. RecordedActions \subseteq before
  <2>1. SUFFICES ASSUME NEW j \in RecordedActions PROVE j < i BY <1>3 DEF RecordedActions
  <2>2. j \in Actions /\ Recorded(j) BY DEF RecordedActions
  <2>3. j # i BY <2>2
  <2>4. ~(i < j)
    <3>1. Due(i) BY ActionsAreDue
    <3> QED BY <1>2, <2>2, <3>1, RecordedInOrder
  <2> QED BY <1>2, <2>2, <2>3, <2>4
<1>5. IsFiniteSet(before)
  <2>1. before \subseteq Actions BY <1>3
  <2> QED BY <1>2, <2>1, FS_Subset
<1> QED BY <1>3, <1>4, <1>5, FS_Subset

\* All that has to be on record up to the cursor is, once the agent may go on behind it.
LEMMA LatestDone ==
    ASSUME ProjectionInv, IntactInv, status = "running", NEW i, i = LatestSourceEvent, Published(i + 1)
    PROVE  DoneTo(i)
<1>1. stream \in Streams /\ log \in Seq(LogEntries) BY DEF ProjectionInv, RowsOK
<1>2. DOMAIN stream = 1 .. Len(stream) /\ Len(stream) \in Nat /\ Actions \subseteq DOMAIN stream
  BY <1>1, StreamIs
<1>3. SUFFICES ASSUME NEW k \in 1 .. i, Due(k) PROVE Recorded(k) BY DEF DoneTo
<1>4. i = LatestOf(log) BY LatestSourceEventIs
<1>5. i \in Nat /\ i # 0
  <2>1. i \in Nat BY <1>1, <1>4, LatestIs
  <2> QED BY <1>3, <2>1
<1>6. PICK n \in DOMAIN log : log[n].src # NoSrc /\ i = log[n].src[1]
  BY <1>1, <1>4, <1>5, LatestIs
<1>7. i \in DOMAIN stream BY <1>6 DEF ProjectionInv, SourcesOK
<1>8. k \in DOMAIN stream BY <1>2, <1>3, <1>7
<1>9. CASE k < i BY <1>3, <1>6, <1>8, <1>9 DEF IntactInv, InOrder
<1>10. CASE k = i
  <2>1. PICK suffix : suffix = log[n].src[2] OBVIOUS
  <2>2. log[n].src = Src(i, suffix)
    <3>1. log[n] \in LogEntries BY <1>1
    <3>2. log[n].src \in Nat \X SourceSuffixes BY <3>1 DEF LogEntries, Sources
    <3> QED BY <1>6, <2>1, <3>2, PairIs DEF Src
  <2>3. suffix # "" => Event(i).type = IF suffix = "tool" THEN "action" ELSE "completed"
    BY <1>6, <2>1 DEF ProjectionInv, SourcesOK
  <2>4. CASE suffix = "" BY <1>10, <2>2, <2>4 DEF Recorded, HasSourceEvent
  <2>5. CASE suffix # "" /\ suffix # "tool"
    <3>1. Event(i).type = "completed" BY <2>3, <2>5
    <3>2. ~Due(i) BY <3>1 DEF Due, ToolEvents, ToolKinds
    <3> QED BY <1>3, <1>10, <3>2
  <2>6. CASE suffix = "tool"
    <3>1. i \in Actions BY <1>7, <2>3, <2>6 DEF Actions
    <3>2. SUFFICES ASSUME ~Recorded(i) PROVE FALSE BY <1>10
    <3>3. Cardinality(RecordedActions) <= Cardinality({j \in Actions : j < i})
      BY <3>1, <3>2, RecordedBefore
    <3>4. Cardinality({j \in Actions : j <= i}) <= answered
      <4>1. Cardinality({j \in Actions : j < i + 1}) <= answered BY DEF Published
      <4> QED BY <1>1, <1>5, <4>1, ActionsBefore
    <3>5. answered = Cardinality(RecordedActions)
      <4>1. answered + 0 = Cardinality(RecordedActions) BY DEF ProjectionInv, ActionsCounted
      <4>2. answered \in Nat BY DEF ProjectionInv, RowsOK
      <4> QED BY <4>1, <4>2
    <3>6. /\ Cardinality({j \in Actions : j < i}) \in Nat /\ Cardinality({j \in Actions : j <= i}) \in Nat
          /\ Cardinality({j \in Actions : j < i}) < Cardinality({j \in Actions : j <= i})
      BY <1>1, <1>5, <3>1, ActionsBefore
    <3>7. answered \in Nat BY DEF ProjectionInv, RowsOK
    <3> QED BY <3>3, <3>4, <3>5, <3>6, <3>7
  <2> QED BY <2>4, <2>5, <2>6
<1> QED BY <1>2, <1>3, <1>5, <1>9, <1>10

\* While a client action is waited for, all that has to be on record of what is published is.
LEMMA WaitingIsDone ==
    ASSUME ProjectionInv, IntactInv, status = "requires_action", NEW i, Published(i), Due(i)
    PROVE  Recorded(i)
<1>1. stream \in Streams /\ answered \in Nat BY DEF ProjectionInv, RowsOK
<1>2. DOMAIN stream = 1 .. Len(stream) /\ Len(stream) \in Nat /\ Actions \subseteq DOMAIN stream
      /\ IsFiniteSet(Actions)
  BY <1>1, StreamIs
<1>3. i \in DOMAIN stream /\ Cardinality({j \in Actions : j < i}) <= answered BY DEF Published
<1>4. PICK j \in RecordedActions : answered < Cardinality({k \in Actions : k <= j})
  BY DEF IntactInv, WaitsUnanswered
<1>5. j \in Actions /\ Recorded(j) /\ j \in Nat /\ i \in Nat BY <1>2, <1>3 DEF RecordedActions
<1>6. ~(j < i)
  <2>1. SUFFICES ASSUME j < i PROVE FALSE OBVIOUS
  <2>2. PICK upto : upto = {k \in Actions : k <= j} OBVIOUS
  <2>3. PICK before : before = {k \in Actions : k < i} OBVIOUS
  <2>4. upto \subseteq before BY <1>2, <1>5, <2>1, <2>2, <2>3
  <2>5. IsFiniteSet(before)
    <3>1. before \subseteq Actions BY <2>3
    <3> QED BY <1>2, <3>1, FS_Subset
  <2>6. Cardinality(upto) <= Cardinality(before) /\ IsFiniteSet(upto) BY <2>4, <2>5, FS_Subset
  <2>7. Cardinality(upto) \in Nat /\ Cardinality(before) \in Nat BY <2>5, <2>6, FS_CardinalityType
  <2> QED BY <1>1, <1>3, <1>4, <2>2, <2>3, <2>6, <2>7
<1>7. CASE j = i BY <1>5, <1>7
<1>8. CASE i < j BY <1>3, <1>5, <1>8, RecordedInOrder
<1> QED BY <1>5, <1>6, <1>7, <1>8

-----------------------------------------------------------------------------
(* As long as no projection goes on behind text that was held back: the    *)
(* steps that write no row.                                                *)

\* An event more is done.
LEMMA DoneNext ==
    ASSUME NEW pos \in Nat, DoneTo(pos), Due(pos + 1) => Recorded(pos + 1)
    PROVE  DoneTo(pos + 1)
<1>1. \A i \in 1 .. pos + 1 : i \in 1 .. pos \/ i = pos + 1 OBVIOUS
<1> QED BY <1>1 DEF DoneTo

\* A projection at rest where its stripper is.
LEMMA IntactAt ==
    ASSUME NEW p, p.pc \in {"load", "read"}, DoneTo(p.pos), p.strippers["text"] = Stripped(p.pos).st
    PROVE  IntactProjection(p)
BY DEF IntactProjection, StripperTrue

\* No projection.
LEMMA IdleIntact ==
    ASSUME NEW p, p.pc = "idle"
    PROVE  IntactProjection(p) /\ IntactProjection(p)'
BY DEF IntactProjection

\* What a projection in progress is.
LEMMA IntactIs ==
    ASSUME IntactInv, NEW a \in Apis, proj[a].pc # "idle", NEW p, p = proj[a]
    PROVE  DoneTo(p.pos) /\ StripperTrue(p) /\ IntactProjection(p)
BY DEF IntactInv, IntactProjection

\* A projection ends without a row.
LEMMA EndStaysIntact ==
    ASSUME ProjectionInv, IntactInv, NEW a \in Apis, UNCHANGED <<stream, rowVars>>,
           proj' = [proj EXCEPT ![a] = IdleProjection]
    PROVE  IntactInv'
<1>1. PICK q : q = IdleProjection OBVIOUS
<1>2. q.pc = "idle" BY <1>1 DEF IdleProjection
<1>3. IntactProjection(q) BY <1>2, IdleIntact
<1> QED BY <1>1, <1>3, IntactStays

\* Start, behind nothing that was held back.
LEMMA StartStaysIntact ==
    ASSUME ProjectionInv, IntactInv, NEW a \in Apis, Start(a), ~dropped'
    PROVE  IntactInv'
<1>1. PICK i : i = LatestSourceEvent OBVIOUS
<1>2. PICK strippers : strippers = [k \in TextKinds |-> NewStripper] OBVIOUS
<1>3. PICK q : q = Holding("load", i, [k \in TextKinds |-> <<>>], strippers, NoTools, NoJob) OBVIOUS
<1>4. proj' = [proj EXCEPT ![a] = q]
  <2>1. RowsOK /\ ProjectionsOK BY DEF ProjectionInv
  <2> QED BY <2>1, <1>1, <1>2, <1>3, StartIs
<1>5. q.pc = "load" /\ q.pos = i /\ q.strippers = strippers BY <1>3 DEF Holding
<1>6. UNCHANGED <<stream, rowVars>> /\ status = "running" /\ Published(i + 1) BY <1>1 DEF Start
<1>7. DoneTo(i) BY <1>1, <1>6, LatestDone
<1>8. strippers["text"] = Stripped(i).st
  <2>1. ~HeldBack(i) BY <1>1 DEF Start
  <2> QED BY <1>2, <2>1 DEF HeldBack, TextKinds
<1>9. IntactProjection(q) BY <1>5, <1>7, <1>8, IntactAt
<1> QED BY <1>4, <1>6, <1>9, IntactStays

\* Load.
LEMMA LoadStaysIntact ==
    ASSUME ProjectionInv, IntactInv, NEW a \in Apis, Load(a)
    PROVE  IntactInv'
<1>1. RowsOK /\ ProjectionsOK /\ UNCHANGED <<stream, rowVars>> /\ proj[a].pc = "load"
  BY DEF ProjectionInv, Load
<1>2. CASE status # "running"
  <2>1. proj' = [proj EXCEPT ![a] = IdleProjection] BY <1>1, <1>2, LoadIs
  <2> QED BY <1>1, <2>1, EndStaysIntact
<1>3. CASE status = "running"
  <2>1. PICK p : p = proj[a] OBVIOUS
  <2>2. PICK texts : texts = [k \in TextKinds |-> PartText(k)] OBVIOUS
  <2>3. PICK q : q = Holding("read", p.pos, texts, p.strippers, LoadTools, p.job) OBVIOUS
  <2>4. proj' = [proj EXCEPT ![a] = q] BY <1>1, <1>3, <2>1, <2>2, <2>3, LoadIs, Zenon
  <2>5. q.pc = "read" /\ q.pos = p.pos /\ q.strippers = p.strippers BY <2>3 DEF Holding
  <2>6. DoneTo(p.pos) /\ StripperTrue(p) BY <1>1, <2>1, IntactIs
  <2>7. p.strippers["text"] = Stripped(p.pos).st BY <1>1, <2>1, <2>6 DEF StripperTrue
  <2>8. IntactProjection(q) BY <2>5, <2>6, <2>7, IntactAt
  <2> QED BY <1>1, <2>4, <2>8, IntactStays
<1> QED BY <1>2, <1>3

\* What a projection that reads is about to read.
LEMMA ReadingIntact ==
    ASSUME ProjectionInv, IntactInv, NEW a \in Apis, proj[a].pc = "read", NEW p, p = proj[a],
           NEW types, Reading(a, types)
    PROVE  /\ DoneTo(p.pos) /\ p.strippers["text"] = Stripped(p.pos).st
           /\ p.pos \in Nat /\ Current(a) = p.pos + 1 /\ p.pos + 1 \in DOMAIN stream
           /\ (p.pos + 1) - 1 = p.pos /\ stream \in Seq(Events)
           /\ p.strippers \in [TextKinds -> StripperStates]
<1>1. RowsOK /\ ProjectionsOK /\ stream \in Streams BY DEF ProjectionInv, RowsOK
<1>2. p.pos \in Nat /\ Current(a) = p.pos + 1 /\ p.pos + 1 \in DOMAIN stream
  BY <1>1, ReadingIs
<1>3. DoneTo(p.pos) /\ StripperTrue(p) BY IntactIs
<1>4. p.strippers["text"] = Stripped(p.pos).st BY <1>3 DEF StripperTrue
<1>5. (p.pos + 1) - 1 = p.pos BY <1>2
<1>6. stream \in Seq(Events) BY <1>1, StreamIs
<1>7. p.strippers \in [TextKinds -> StripperStates] BY ProjectionTyped
<1> QED BY <1>2, <1>3, <1>4, <1>5, <1>6, <1>7

\* SkipRecorded: a stripper that holds back what the event would have changed drops it.
LEMMA SkipRecordedStaysIntact ==
    ASSUME ProjectionInv, IntactInv, NEW a \in Apis, SkipRecorded(a), ~dropped'
    PROVE  IntactInv'
<1>1. /\ RowsOK /\ ProjectionsOK /\ UNCHANGED <<stream, rowVars>>
      /\ Reading(a, TextKinds \cup ToolEvents)
  BY DEF ProjectionInv, SkipRecorded
<1>2. proj[a].pc = "read" BY <1>1 DEF Reading
<1>3. PICK p : p = proj[a] OBVIOUS
<1>4. /\ DoneTo(p.pos) /\ p.strippers["text"] = Stripped(p.pos).st
      /\ p.pos \in Nat /\ Current(a) = p.pos + 1 /\ p.pos + 1 \in DOMAIN stream
      /\ (p.pos + 1) - 1 = p.pos /\ stream \in Seq(Events)
  BY <1>1, <1>2, <1>3, ReadingIntact
<1>5. PICK i : i = Current(a) OBVIOUS
<1>6. i = p.pos + 1 BY <1>4, <1>5
<1>7. CASE Event(i).type = "action"
  <2>1. proj' = [proj EXCEPT ![a] = IdleProjection] BY <1>1, <1>5, <1>7, SkipRecordedIs
  <2> QED BY <1>1, <2>1, EndStaysIntact
<1>8. CASE Event(i).type # "action"
  <2>1. PICK q : q = Holding("read", i, p.texts, p.strippers, p.tools, p.job) OBVIOUS
  <2>2. proj' = [proj EXCEPT ![a] = q] BY <1>1, <1>3, <1>5, <1>8, <2>1, SkipRecordedIs, Zenon
  <2>3. q.pc = "read" /\ q.pos = i /\ q.strippers = p.strippers BY <2>1 DEF Holding
  <2>4. Recorded(i) BY <1>5 DEF SkipRecorded, Recorded
  <2>5. DoneTo(i) BY <1>4, <1>6, <2>4, DoneNext
  <2>6. Stripped(i).st = p.strippers["text"]
    <3>1. CASE Event(i).type # "text"
      <4>1. Stripped(i) = Stripped(p.pos) BY <1>4, <1>6, <3>1, StrippedNext
      <4> QED BY <1>4, <4>1
    <3>2. CASE Event(i).type = "text"
      <4>1. Stripped(i).st = Write(Stripped(p.pos).st, Event(i).text).st
        BY <1>4, <1>6, <3>2, StrippedNext
      <4>2. Write(p.strippers["text"], Event(i).text).st = p.strippers["text"]
        BY <1>3, <1>5, <3>2 DEF SkipRecorded
      <4> QED BY <1>4, <4>1, <4>2
    <3> QED BY <3>1, <3>2
  <2>7. IntactProjection(q) BY <2>3, <2>5, <2>6, IntactAt
  <2> QED BY <1>1, <2>2, <2>7, IntactStays
<1> QED BY <1>7, <1>8

\* Reasoning does not have to be recorded.
LEMMA ReasoningNotDue ==
    ASSUME NEW i, Event(i).type \in EventTypes \ (ToolEvents \cup {"text"})
    PROVE  ~Due(i)
BY DEF Due

\* A projection that is about to write an event that is no text.
LEMMA IntactWriting ==
    ASSUME NEW p, p.pc = "write", DoneTo(p.pos), p.strippers["text"] = Stripped(p.pos).st,
           Event(p.pos + 1).type # "text"
    PROVE  IntactProjection(p)
BY DEF IntactProjection, StripperTrue

\* ReadText: the stripper is where every stripper is, and what it lets through is due.
LEMMA ReadTextStaysIntact ==
    ASSUME ProjectionInv, IntactInv, NEW a \in Apis, ReadText(a)
    PROVE  IntactInv'
<1>1. RowsOK /\ ProjectionsOK /\ UNCHANGED <<stream, rowVars>> /\ Reading(a, TextKinds)
  BY DEF ProjectionInv, ReadText
<1>2. proj[a].pc = "read" BY <1>1 DEF Reading
<1>3. PICK p : p = proj[a] OBVIOUS
<1>4. PICK kind, result, text, texts, strippers :
         /\ TextRead(a, kind, result, text, texts, strippers)
         /\ proj' = [proj EXCEPT ![a] =
              IF result.out = <<>>
              THEN Holding("read", Current(a), texts, strippers, proj[a].tools, proj[a].job)
              ELSE Holding("write", proj[a].pos, texts, strippers, proj[a].tools,
                           [step |-> "text", src |-> Src(Current(a), ""), key |-> <<kind, "">>,
                            order |-> getSinglePartOrder[kind], text |-> text, delta |-> result.out])]
  BY <1>1, ReadTextIs
<1>5. kind \in TextKinds /\ result.out \in Texts BY <1>1, <1>4, ReadTextTyped
<1>6. /\ DoneTo(p.pos) /\ p.strippers["text"] = Stripped(p.pos).st
      /\ p.pos \in Nat /\ Current(a) = p.pos + 1 /\ p.pos + 1 \in DOMAIN stream
      /\ (p.pos + 1) - 1 = p.pos /\ stream \in Seq(Events)
      /\ p.strippers \in [TextKinds -> StripperStates]
  BY <1>1, <1>2, <1>3, ReadingIntact
<1>7. PICK i : i = Current(a) OBVIOUS
<1>8. i = p.pos + 1 /\ i \in DOMAIN stream /\ i - 1 = p.pos /\ kind = Event(i).type
  BY <1>4, <1>6, <1>7, ZenonT(40) DEF TextRead
<1>9. strippers = [p.strippers EXCEPT ![kind] = result.st] BY <1>3, <1>4, Zenon DEF TextRead
<1>10. strippers["text"] = IF kind = "text" THEN result.st ELSE p.strippers["text"]
  <2>1. "text" \in TextKinds BY DEF TextKinds
  <2> QED BY <1>5, <1>6, <1>9, <2>1
<1>11. kind = "text" => Stripped(i).st = result.st /\ Stripped(i).out = Stripped(p.pos).out \o result.out
  <2>1. SUFFICES ASSUME kind = "text"
                 PROVE  Stripped(i).st = result.st /\ Stripped(i).out = Stripped(p.pos).out \o result.out
    OBVIOUS
  <2>2. PICK r \in Drained : /\ r = Write(Stripped(p.pos).st, Event(i).text)
                             /\ Stripped(i).st = r.st /\ Stripped(i).out = Stripped(p.pos).out \o r.out
    BY <1>6, <1>8, <2>1, StrippedNext
  <2>3. result = Write(p.strippers["text"], Event(i).text) BY <1>3, <1>4, <1>7, <2>1 DEF TextRead
  <2>4. result = r BY <1>6, <2>2, <2>3
  <2> QED BY <2>2, <2>4
<1>12. kind # "text" => Stripped(i) = Stripped(p.pos)
  BY <1>6, <1>8, StrippedNext
<1>13. strippers["text"] = Stripped(i).st BY <1>6, <1>10, <1>11, <1>12
<1>14. CASE result.out = <<>>
  <2>1. PICK q : q = Holding("read", i, texts, strippers, p.tools, p.job) OBVIOUS
  <2>2. proj' = [proj EXCEPT ![a] = q] BY <1>3, <1>4, <1>7, <1>14, <2>1, Zenon
  <2>3. q.pc = "read" /\ q.pos = i /\ q.strippers = strippers BY <2>1 DEF Holding
  <2>4. ~Due(i)
    <3>1. CASE kind = "text"
      <4>1. PICK out : out = result.out OBVIOUS
      <4>2. Stripped(i).out = Stripped(i - 1).out \o out BY <1>8, <1>11, <3>1, <4>1
      <4>3. Due(i) <=> out # <<>> BY <1>5, <1>6, <1>8, <3>1, <4>1, <4>2, DueWhenOut
      <4> QED BY <1>14, <4>1, <4>3
    <3>2. CASE kind # "text"
      BY <1>5, <1>8, <3>2, ReasoningNotDue DEF TextKinds, EventTypes, ToolEvents, ToolKinds
    <3> QED BY <3>1, <3>2
  <2>5. DoneTo(i) BY <1>6, <1>8, <2>4, DoneNext
  <2>6. IntactProjection(q) BY <1>13, <2>3, <2>5, IntactAt
  <2> QED BY <1>1, <2>2, <2>6, IntactStays
<1>15. CASE result.out # <<>>
  <2>1. PICK job : job = [step |-> "text", src |-> Src(Current(a), ""), key |-> <<kind, "">>,
                          order |-> getSinglePartOrder[kind], text |-> text, delta |-> result.out]
    OBVIOUS
  <2>2. job.delta = result.out BY <2>1
  <2>3. PICK q : q = Holding("write", p.pos, texts, strippers, p.tools, job) OBVIOUS
  <2>4. proj' = [proj EXCEPT ![a] = q] BY <1>3, <1>4, <1>15, <2>1, <2>3, Zenon
  <2>5. q.pc = "write" /\ q.pos = p.pos /\ q.strippers = strippers /\ q.job = job
    BY <2>3 DEF Holding
  <2>6. IntactProjection(q)
    <3>1. CASE kind = "text"
      BY <1>6, <1>8, <1>10, <1>11, <1>15, <2>2, <2>5, <3>1 DEF IntactProjection, StripperTrue
    <3>2. CASE kind # "text"
      <4>1. q.strippers["text"] = Stripped(q.pos).st BY <1>6, <1>10, <2>5, <3>2
      <4> QED BY <1>6, <1>8, <2>5, <3>2, <4>1, IntactWriting
    <3> QED BY <3>1, <3>2
  <2> QED BY <1>1, <2>4, <2>6, IntactStays
<1> QED BY <1>14, <1>15

\* ReadTool.
LEMMA ReadToolStaysIntact ==
    ASSUME ProjectionInv, IntactInv, NEW a \in Apis, ReadTool(a)
    PROVE  IntactInv'
<1>1. RowsOK /\ ProjectionsOK /\ UNCHANGED <<stream, rowVars>> /\ Reading(a, ToolEvents)
  BY DEF ProjectionInv, ReadTool
<1>2. proj[a].pc = "read" BY <1>1 DEF Reading
<1>3. PICK p : p = proj[a] OBVIOUS
<1>4. PICK event, key, tools, entry, text, job :
         /\ ToolRead(a, event, key, tools, entry, text, job)
         /\ proj' = [proj EXCEPT ![a] =
              Holding("write", proj[a].pos, proj[a].texts, proj[a].strippers, tools, job)]
  BY <1>1, ReadToolIs
<1>5. /\ DoneTo(p.pos) /\ p.strippers["text"] = Stripped(p.pos).st /\ Current(a) = p.pos + 1
  BY <1>1, <1>2, <1>3, ReadingIntact
<1>6. PICK q : q = Holding("write", p.pos, p.texts, p.strippers, tools, job) OBVIOUS
<1>7. q.pc = "write" /\ q.pos = p.pos /\ q.strippers = p.strippers BY <1>6 DEF Holding
<1>8. proj' = [proj EXCEPT ![a] = q] BY <1>3, <1>4, <1>6, Zenon
<1>9. Event(p.pos + 1).type # "text"
  <2>1. Event(Current(a)).type \in ToolEvents BY <1>1 DEF Reading
  <2> QED BY <1>5, <2>1 DEF ToolEvents, ToolKinds
<1>10. IntactProjection(q) BY <1>5, <1>7, <1>9, IntactWriting
<1> QED BY <1>1, <1>8, <1>10, IntactStays

\* ReadCompleted: what the stripper lets go of is what is left.
LEMMA ReadCompletedStaysIntact ==
    ASSUME ProjectionInv, IntactInv, NEW a \in Apis, ReadCompleted(a)
    PROVE  IntactInv'
<1>1. RowsOK /\ ProjectionsOK /\ UNCHANGED <<stream, rowVars>> /\ Reading(a, {"completed"})
  BY DEF ProjectionInv, ReadCompleted
<1>2. proj[a].pc = "read" BY <1>1 DEF Reading
<1>3. CASE HasSourceEvent(Src(Current(a), "message"))
  <2>1. proj' = [proj EXCEPT ![a] = IdleProjection] BY <1>1, <1>3, ReadCompletedIs
  <2> QED BY <1>1, <2>1, EndStaysIntact
<1>4. CASE ~HasSourceEvent(Src(Current(a), "message"))
  <2>1. PICK p : p = proj[a] OBVIOUS
  <2>2. PICK texts, strippers :
           /\ texts = [k \in TextKinds |-> proj[a].texts[k] \o Flush(proj[a].strippers[k]).out]
           /\ strippers = [k \in TextKinds |-> [buffer |-> Flush(proj[a].strippers[k]).out, inside |-> FALSE]]
    OBVIOUS
  <2>3. PICK q : q = Holding("complete", p.pos, texts, strippers, p.tools, p.job) OBVIOUS
  <2>4. proj' = [proj EXCEPT ![a] = q] BY <1>1, <1>4, <2>1, <2>2, <2>3, ReadCompletedIs, Zenon
  <2>5. q.pc = "complete" /\ q.pos = p.pos /\ q.strippers = strippers BY <2>3 DEF Holding
  <2>6. DoneTo(p.pos) /\ p.strippers["text"] = Stripped(p.pos).st
    BY <1>1, <1>2, <2>1, ReadingIntact
  <2>7. PICK out : out = Flush(p.strippers["text"]).out OBVIOUS
  <2>8. strippers["text"] = [buffer |-> out, inside |-> FALSE]
    <3>1. "text" \in TextKinds BY DEF TextKinds
    <3> QED BY <2>1, <2>2, <2>7, <3>1
  <2>9. strippers["text"].buffer = out BY <2>8
  <2>10. strippers["text"].buffer = Flush(Stripped(p.pos).st).out BY <2>6, <2>7, <2>9
  <2>11. IntactProjection(q) BY <2>5, <2>6, <2>10 DEF IntactProjection, StripperTrue
  <2> QED BY <1>1, <2>4, <2>11, IntactStays
<1> QED BY <1>3, <1>4

-----------------------------------------------------------------------------
(* As long as no projection goes on behind text that was held back: the    *)
(* steps that write rows.                                                  *)

\* Nothing was missing before an entry that is recorded.
LEMMA InOrderGrows ==
    ASSUME ProjectionInv, IntactInv, stream' = stream, NEW e \in LogEntries, log' = Append(log, e),
           \A k \in DOMAIN stream : k < e.src[1] /\ Due(k) => Recorded(k)
    PROVE  InOrder'
<1>1. log \in Seq(LogEntries) BY DEF ProjectionInv, RowsOK
<1>2. \A i : Recorded(i) => Recorded(i)' BY <1>1, RecordedAppended
<1>3. PICK m : m = log' OBVIOUS
<1>4. /\ DOMAIN m = DOMAIN log \cup {Len(log) + 1} /\ m[Len(log) + 1] = e
      /\ \A n \in DOMAIN log : m[n] = log[n]
  BY <1>1, <1>3, Appended
<1>5. ASSUME NEW n \in DOMAIN m, NEW k \in DOMAIN stream, k < m[n].src[1], Due(k) PROVE Recorded(k)
  <2>1. CASE n \in DOMAIN log
    <3>1. k < log[n].src[1] BY <1>4, <1>5, <2>1
    <3> QED BY <1>5, <2>1, <3>1 DEF IntactInv, InOrder
  <2>2. CASE n \notin DOMAIN log
    <3>1. m[n] = e BY <1>4, <1>5, <2>2
    <3> QED BY <1>5, <3>1
  <2> QED BY <2>1, <2>2
<1> QED BY <1>2, <1>3, <1>5, StreamStays DEF InOrder

\* An entry that is none of the text leaves the text on record.
LEMMA TextStaysRecorded ==
    ASSUME ProjectionInv, IntactInv, stream' = stream, NEW e \in LogEntries, log' = Append(log, e),
           status # "completed", status' # "completed", e.order # getSinglePartOrder["text"],
           \A i \in DOMAIN stream : Event(i).type = "text" => e.src # Src(i, "")
    PROVE  TextRecorded'
<1>1. log \in Seq(LogEntries) BY DEF ProjectionInv, RowsOK
<1>2. PICK o : o = getSinglePartOrder["text"] OBVIOUS
<1>3. PICK len : len = Len(stream) OBVIOUS
<1>4. PICK j \in 0 .. len : /\ DeltasOf(o) = Stripped(j).out
                           /\ \A i \in DOMAIN stream :
                                 Event(i).type = "text" /\ Due(i) => (Recorded(i) <=> i <= j)
  BY <1>2, <1>3 DEF IntactInv, TextRecorded
<1>5. DeltasOf(o)' = DeltasOf(o)
  <2>1. PICK l, m : l = log /\ m = log' OBVIOUS
  <2>2. DeltasOf(o) = DeltasIn(l, o) /\ DeltasOf(o)' = DeltasIn(m, o)
    BY <2>1 DEF DeltasOf, DeltasIn
  <2>3. DeltasIn(Append(l, e), o) =
           IF e.order = o THEN DeltasIn(l, o) \o e.delta ELSE DeltasIn(l, o)
    BY <1>1, <2>1, DeltasAppended
  <2> QED BY <1>2, <2>1, <2>2, <2>3
<1>6. Stripped(j)' = Stripped(j) BY StreamStays
<1>7. DeltasOf(o)' = Stripped(j)'.out BY <1>4, <1>5, <1>6
<1>8. \A i \in DOMAIN stream : Event(i).type = "text" => (Recorded(i)' <=> Recorded(i))
  BY <1>1, RecordedAppended
<1>9. \A i \in DOMAIN stream' : Event(i)'.type = "text" /\ Due(i)' => (Recorded(i)' <=> i <= j)
  BY <1>4, <1>8, StreamStays
<1> QED BY <1>2, <1>3, <1>7, <1>9 DEF TextRecorded

\* An entry of what comes out of the stream with an event.
TextEntry(e, i) ==
    /\ Event(i).type = "text" /\ e.src = Src(i, "") /\ e.order = getSinglePartOrder["text"]
    /\ e.delta # <<>> /\ Stripped(i).out = Stripped(i - 1).out \o e.delta

\* A text that is recorded goes behind the text on record.
LEMMA TextGetsRecorded ==
    ASSUME ProjectionInv, IntactInv, stream' = stream, NEW e \in LogEntries, log' = Append(log, e),
           status # "completed", status' # "completed",
           NEW i \in DOMAIN stream, TextEntry(e, i), ~Recorded(i), DoneTo(i - 1)
    PROVE  TextRecorded'
<1>1. log \in Seq(LogEntries) /\ stream \in Streams BY DEF ProjectionInv, RowsOK
<1>2. PICK o : o = getSinglePartOrder["text"] OBVIOUS
<1>3. PICK len : len = Len(stream) OBVIOUS
<1>4. stream \in Seq(Events) /\ len \in Nat /\ DOMAIN stream = 1 .. len BY <1>1, <1>3, StreamIs
<1>5. PICK j \in 0 .. len : /\ DeltasOf(o) = Stripped(j).out
                           /\ \A k \in DOMAIN stream :
                                 Event(k).type = "text" /\ Due(k) => (Recorded(k) <=> k <= j)
  BY <1>2, <1>3 DEF IntactInv, TextRecorded
<1>6. PICK delta : delta = e.delta OBVIOUS
<1>7. Due(i)
  <2>1. delta \in Texts BY <1>6 DEF LogEntries
  <2>2. Stripped(i).out = Stripped(i - 1).out \o delta /\ Event(i).type = "text" /\ delta # <<>>
    BY <1>6 DEF TextEntry
  <2>3. Due(i) <=> delta # <<>> BY <1>4, <2>1, <2>2, DueWhenOut
  <2> QED BY <2>2, <2>3
<1>8. i \in Nat /\ j \in Nat /\ i <= len /\ j < i
  <2>1. Event(i).type = "text" BY DEF TextEntry
  <2>2. ~(i <= j) BY <1>5, <1>7, <2>1
  <2> QED BY <1>4, <2>2
<1>9. PICK m : m = i - 1 OBVIOUS
<1>10. m \in 0 .. len /\ j <= m BY <1>4, <1>8, <1>9
<1>11. ASSUME NEW k \in DOMAIN stream, j < k, k <= m, Event(k).type = "text" PROVE ~Due(k)
  <2>1. SUFFICES ASSUME Due(k) PROVE FALSE OBVIOUS
  <2>2. k \in 1 .. m BY <1>4, <1>10, <1>11
  <2>3. Recorded(k) BY <1>9, <2>1, <2>2 DEF DoneTo
  <2>4. k <= j BY <1>5, <1>11, <2>1, <2>3
  <2> QED BY <1>4, <1>8, <1>11, <2>4
<1>12. Stripped(m).out = Stripped(j).out BY <1>3, <1>4, <1>5, <1>10, <1>11, OutStays
<1>13. DeltasOf(o)' = Stripped(i).out
  <2>1. PICK l, n : l = log /\ n = log' OBVIOUS
  <2>2. DeltasOf(o) = DeltasIn(l, o) /\ DeltasOf(o)' = DeltasIn(n, o)
    BY <2>1 DEF DeltasOf, DeltasIn
  <2>3. DeltasIn(Append(l, e), o) =
           IF e.order = o THEN DeltasIn(l, o) \o e.delta ELSE DeltasIn(l, o)
    BY <1>1, <2>1, DeltasAppended
  <2>4. DeltasOf(o)' = DeltasOf(o) \o delta BY <1>2, <1>6, <2>1, <2>2, <2>3 DEF TextEntry
  <2>5. Stripped(i).out = Stripped(m).out \o delta BY <1>6, <1>9 DEF TextEntry
  <2> QED BY <1>5, <1>12, <2>4, <2>5
<1>14. Stripped(i)' = Stripped(i) BY StreamStays
<1>15. DeltasOf(o)' = Stripped(i)'.out BY <1>13, <1>14
<1>16. \A k : Recorded(k)' <=> Recorded(k) \/ k = i
  <2>1. \A k : Recorded(k)' <=> Recorded(k) \/ e.src = Src(k, "") BY <1>1, RecordedAppended
  <2>2. ASSUME NEW k PROVE e.src = Src(k, "") <=> k = i
    <3>1. PICK src, other : src = Src(i, "") /\ other = Src(k, "") OBVIOUS
    <3>2. src[1] = i /\ other[1] = k BY <3>1, SrcIs
    <3>3. e.src = src BY <3>1 DEF TextEntry
    <3> QED BY <3>1, <3>2, <3>3
  <2> QED BY <2>1, <2>2
<1>17. ASSUME NEW k \in DOMAIN stream, Event(k).type = "text", Due(k) PROVE Recorded(k)' <=> k <= i
  <2>1. Recorded(k) <=> k <= j BY <1>5, <1>17
  <2>2. k \in Nat BY <1>4
  <2>3. k <= m /\ ~(k <= j) => FALSE BY <1>11, <1>17, <1>8, <2>2
  <2>4. k <= i <=> k <= m \/ k = i BY <1>8, <1>9, <2>2
  <2>5. k <= j => k <= m BY <1>8, <1>10, <2>2
  <2> QED BY <1>16, <2>1, <2>3, <2>4, <2>5
<1>18. \A k \in DOMAIN stream' : Event(k)'.type = "text" /\ Due(k)' => (Recorded(k)' <=> k <= i)
  BY <1>17, StreamStays
<1>19. i \in 0 .. Len(stream') BY <1>3, <1>4, <1>8
<1> QED BY <1>2, <1>15, <1>18, <1>19 DEF TextRecorded

\* An entry that records no client action.
LEMMA ActionsStayRecorded ==
    ASSUME ProjectionInv, IntactInv, stream' = stream, NEW e \in LogEntries, log' = Append(log, e),
           \A i \in Actions : e.src # Src(i, "")
    PROVE  RecordedActions' = RecordedActions /\ ActionToolRecorded'
<1>1. log \in Seq(LogEntries) BY DEF ProjectionInv, RowsOK
<1>2. \A i \in Actions : Recorded(i)' <=> Recorded(i) BY <1>1, RecordedAppended
<1>3. RecordedActions' = RecordedActions BY <1>2, StreamStays DEF RecordedActions
<1>4. \A src : HasSourceEvent(src) => HasSourceEvent(src)' BY <1>1, RecordedAppended
<1>5. \A i \in RecordedActions : HasSourceEvent(Src(i, "tool"))'
  <2>1. \A i \in RecordedActions : HasSourceEvent(Src(i, "tool"))
    BY DEF IntactInv, ActionToolRecorded
  <2>2. ASSUME NEW i \in RecordedActions PROVE HasSourceEvent(Src(i, "tool"))'
    <3>1. PICK src : src = Src(i, "tool") OBVIOUS
    <3>2. HasSourceEvent(src)' BY <1>4, <2>1, <3>1
    <3> QED BY <3>1, <3>2 DEF Src
  <2> QED BY <2>2
<1> QED BY <1>3, <1>5 DEF ActionToolRecorded

\* A step that has written what was read at an event, or found it done.
Wrote(p, q, i) ==
    /\ q.strippers = p.strippers
    /\ q.pc \in {"read", "action"}
    /\ q.pc = "read" => q.pos = i /\ Event(i).type # "action"
    /\ q.pc = "action" => q.pos = p.pos /\ Event(i).type = "action"

\* The stripper of a projection that has written.
LEMMA WroteStripper ==
    ASSUME ProjectionInv, NEW p, NEW q, NEW i \in DOMAIN stream, i = p.pos + 1, p.pos \in Nat,
           p.pc = "write", StripperTrue(p), Wrote(p, q, i)
    PROVE  StripperTrue(q)
<1>1. stream \in Seq(Events) BY StreamIs DEF ProjectionInv, RowsOK
<1>2. i - 1 = p.pos OBVIOUS
<1>3. CASE Event(i).type = "text"
  <2>1. q.pc = "read" /\ q.pos = i /\ q.strippers = p.strippers BY <1>3 DEF Wrote
  <2>2. Stripped(i).st = p.strippers["text"] BY <1>3 DEF StripperTrue
  <2> QED BY <2>1, <2>2 DEF StripperTrue
<1>4. CASE Event(i).type # "text"
  <2>1. p.strippers["text"] = Stripped(p.pos).st BY <1>4 DEF StripperTrue
  <2>2. Stripped(i) = Stripped(p.pos) BY <1>1, <1>2, <1>4, StrippedNext
  <2>3. q.strippers["text"] = Stripped(q.pos).st BY <2>1, <2>2 DEF Wrote
  <2>4. q.pc \in {"read", "action"} BY DEF Wrote
  <2> QED BY <2>3, <2>4 DEF StripperTrue
<1> QED BY <1>3, <1>4

\* What is done when an event is written.
LEMMA WroteDone ==
    ASSUME NEW p, NEW q, NEW i, i = p.pos + 1, p.pos \in Nat, Wrote(p, q, i), DoneTo(p.pos),
           Event(i).type # "action" /\ Due(i) => Recorded(i)
    PROVE  DoneTo(q.pos)
<1>1. CASE q.pc = "action" BY <1>1 DEF Wrote
<1>2. CASE q.pc = "read"
  <2>1. q.pos = i /\ Event(i).type # "action" BY <1>2 DEF Wrote
  <2> QED BY <2>1, DoneNext
<1> QED BY <1>1, <1>2 DEF Wrote

\* What a projection that has written is.
LEMMA WritePartHolds ==
    ASSUME ProjectionInv, IntactInv, NEW a \in Apis, WritePart(a), NEW p, p = proj[a],
           NEW i, i = Current(a)
    PROVE  /\ p.pc = "write" /\ p.pos \in Nat /\ i = p.pos + 1 /\ i \in DOMAIN stream /\ Published(i)
           /\ DoneTo(p.pos) /\ StripperTrue(p)
           /\ \E q : proj' = [proj EXCEPT ![a] = q] /\ Wrote(p, q, i)
<1>1. RowsOK /\ ProjectionsOK /\ proj[a].pc = "write" BY DEF ProjectionInv, WritePart
<1>2. PICK job, tools :
         /\ PartWritten(a, job, tools)
         /\ proj' = [proj EXCEPT ![a] =
               IF job.step = "action"
               THEN Holding("action", proj[a].pos, proj[a].texts, proj[a].strippers, tools, job)
               ELSE Holding("read", Current(a), proj[a].texts, proj[a].strippers, tools, job)]
  BY <1>1, WritePartIs
<1>3. job = p.job BY <1>2 DEF PartWritten
<1>4. /\ i = p.pos + 1 /\ i \in DOMAIN stream /\ Published(i)
      /\ Event(i).type \in TextKinds \cup ToolEvents
      /\ Event(i).type \in TextKinds => job.step = "text"
      /\ Event(i).type \in ToolEvents => job.step = Event(i).type
  BY <1>1, <1>3, JobIs
<1>5. p.pos \in Nat
  <2>1. p.pos \in 0 .. Len(stream) BY ProjectionTyped
  <2>2. Len(stream) \in Nat BY <1>1, StreamIs DEF RowsOK
  <2> QED BY <2>1, <2>2
<1>6. DoneTo(p.pos) /\ StripperTrue(p) BY <1>1, IntactIs
<1>7. PICK q : q = IF job.step = "action" THEN Holding("action", p.pos, p.texts, p.strippers, tools, job)
                   ELSE Holding("read", i, p.texts, p.strippers, tools, job)
  OBVIOUS
<1>8. proj' = [proj EXCEPT ![a] = q] BY <1>2, <1>7, Zenon
<1>9. Wrote(p, q, i)
  <2>1. CASE job.step = "action"
    <3>1. q.pc = "action" /\ q.pos = p.pos /\ q.strippers = p.strippers BY <1>7, <2>1 DEF Holding
    <3>2. Event(i).type = "action" BY <1>4, <2>1
    <3> QED BY <3>1, <3>2 DEF Wrote
  <2>2. CASE job.step # "action"
    <3>1. q.pc = "read" /\ q.pos = i /\ q.strippers = p.strippers BY <1>7, <2>2 DEF Holding
    <3>2. Event(i).type # "action" BY <1>4, <2>2 DEF ToolEvents
    <3> QED BY <3>1, <3>2 DEF Wrote
  <2> QED BY <2>1, <2>2
<1> QED BY <1>1, <1>4, <1>5, <1>6, <1>8, <1>9

\* WritePart that writes nothing: the event is done already.
LEMMA WriteNothingStaysIntact ==
    ASSUME ProjectionInv, IntactInv, NEW a \in Apis, WritePart(a),
           status # "running" \/ HasSourceEvent(proj[a].job.src)
    PROVE  IntactInv'
<1>1. PICK p, i : p = proj[a] /\ i = Current(a) OBVIOUS
<1>2. /\ p.pc = "write" /\ p.pos \in Nat /\ i = p.pos + 1 /\ i \in DOMAIN stream /\ Published(i)
      /\ DoneTo(p.pos) /\ StripperTrue(p)
  BY <1>1, WritePartHolds
<1>3. PICK q : proj' = [proj EXCEPT ![a] = q] /\ Wrote(p, q, i) BY <1>1, WritePartHolds
<1>4. UNCHANGED <<stream, rowVars>> BY DEF WritePart, rowVars
<1>5. StripperTrue(q) BY <1>2, <1>3, WroteStripper
<1>6. PICK job : job = p.job OBVIOUS
<1>7. job.src = Src(i, IF Event(i).type = "action" THEN "tool" ELSE "") BY <1>1, <1>2, <1>6, JobIs
<1>8. status = "completed" \/ (Due(i) => Recorded(i)) \/ HasSourceEvent(job.src)
  <2>1. status \in {"running", "requires_action", "completed"} BY DEF ProjectionInv, RowsOK
  <2>2. CASE status = "requires_action" BY <1>2, <2>2, WaitingIsDone
  <2> QED BY <1>1, <1>6, <2>1, <2>2
<1>9. Event(i).type # "action" /\ Due(i) => Recorded(i)
  <2>1. SUFFICES ASSUME Event(i).type # "action", Due(i) PROVE Recorded(i) OBVIOUS
  <2>2. CASE status = "completed"
    <3>1. DoneTo(Len(stream)) BY <2>2 DEF IntactInv
    <3>2. i \in 1 .. Len(stream)
      <4>1. stream \in Streams BY DEF ProjectionInv, RowsOK
      <4> QED BY <1>2, <4>1, StreamIs
    <3> QED BY <2>1, <3>1, <3>2 DEF DoneTo
  <2>3. CASE HasSourceEvent(job.src) BY <1>7, <2>1, <2>3 DEF Recorded
  <2> QED BY <1>8, <2>1, <2>2, <2>3
<1>10. DoneTo(q.pos) BY <1>2, <1>3, <1>9, WroteDone
<1>11. q.pc = "action" => status = "completed" \/ HasSourceEvent(Src(q.pos + 1, "tool"))
  <2>1. SUFFICES ASSUME q.pc = "action", status # "completed"
                 PROVE  HasSourceEvent(Src(q.pos + 1, "tool"))
    OBVIOUS
  <2>2. Event(i).type = "action" /\ q.pos = p.pos BY <1>3, <2>1 DEF Wrote
  <2>3. PICK src : src = Src(i, "tool") OBVIOUS
  <2>4. job.src = src BY <1>7, <2>2, <2>3
  <2>5. CASE HasSourceEvent(job.src) BY <1>2, <2>2, <2>3, <2>4, <2>5
  <2>6. CASE Due(i) => Recorded(i)
    <3>1. i \in Actions BY <1>2, <2>2 DEF Actions
    <3>2. i \in RecordedActions BY <2>6, <3>1, ActionsAreDue DEF RecordedActions
    <3>3. HasSourceEvent(Src(i, "tool")) BY <3>2 DEF IntactInv, ActionToolRecorded
    <3> QED BY <1>2, <2>2, <3>3
  <2> QED BY <1>8, <2>1, <2>5, <2>6
<1>12. IntactProjection(q) BY <1>5, <1>10, <1>11 DEF IntactProjection
<1> QED BY <1>3, <1>4, <1>12, IntactStays

\* The source of an event's entry is that event, and ends in "tool" for client actions.
LEMMA SourceOfEvent ==
    ASSUME NEW i, NEW src, src = Src(i, IF Event(i).type = "action" THEN "tool" ELSE "")
    PROVE  /\ src[1] = i
           /\ \A k : Event(i).type # "action" => (src = Src(k, "") <=> k = i)
           /\ \A k : Event(i).type = "action" => src # Src(k, "")
<1>1. PICK suffix : suffix = IF Event(i).type = "action" THEN "tool" ELSE "" OBVIOUS
<1>2. src[1] = i /\ src[2] = suffix
  <2>1. src = Src(i, suffix) BY <1>1
  <2> QED BY <2>1, SrcIs
<1>3. ASSUME NEW k, src = Src(k, "") PROVE k = i /\ suffix = ""
  <2>1. PICK none : none = "" OBVIOUS
  <2>2. PICK other : other = Src(k, none) OBVIOUS
  <2>3. other[1] = k /\ other[2] = none BY <2>2, SrcIs
  <2>4. other = src BY <1>3, <2>1, <2>2
  <2> QED BY <1>2, <2>1, <2>3, <2>4
<1>4. Event(i).type # "action" => src = Src(i, "") BY <1>1
<1> QED BY <1>1, <1>2, <1>3, <1>4

\* WritePart that writes: the event is the next that had to be recorded.
LEMMA WriteStaysIntact ==
    ASSUME ProjectionInv, IntactInv, NEW a \in Apis, WritePart(a),
           status = "running", ~HasSourceEvent(proj[a].job.src)
    PROVE  IntactInv'
<1>1. PICK p, i : p = proj[a] /\ i = Current(a) OBVIOUS
<1>2. /\ p.pc = "write" /\ p.pos \in Nat /\ i = p.pos + 1 /\ i \in DOMAIN stream /\ Published(i)
      /\ DoneTo(p.pos) /\ StripperTrue(p)
  BY <1>1, WritePartHolds
<1>3. PICK q : proj' = [proj EXCEPT ![a] = q] /\ Wrote(p, q, i) BY <1>1, WritePartHolds
<1>4. stream' = stream /\ status' = "running" BY DEF WritePart
<1>5. log \in Seq(LogEntries) /\ stream \in Streams BY DEF ProjectionInv, RowsOK
<1>6. PICK job : job = p.job OBVIOUS
<1>7. PICK e : e = Entry(job.src, job.order, job.delta) OBVIOUS
<1>8. /\ job \in Jobs /\ Event(i).type \in TextKinds \cup ToolEvents
      /\ job.src = Src(i, IF Event(i).type = "action" THEN "tool" ELSE "")
      /\ Event(i).type \in TextKinds => job.order = getSinglePartOrder[Event(i).type]
      /\ Event(i).type \in ToolEvents => job.order >= ToolPartOrderStart
  BY <1>1, <1>2, <1>6, JobIs
<1>9. e \in LogEntries /\ e.src = job.src /\ e.order = job.order /\ e.delta = job.delta
  BY <1>7, <1>8, JobEntryIs
<1>10. log' = Append(log, e) BY <1>1, <1>6, <1>7 DEF WritePart
<1>11. /\ e.src[1] = i
       /\ \A k : Event(i).type # "action" => (e.src = Src(k, "") <=> k = i)
       /\ \A k : Event(i).type = "action" => e.src # Src(k, "")
  BY <1>8, <1>9, SourceOfEvent
<1>12. /\ \A src : HasSourceEvent(src)' <=> HasSourceEvent(src) \/ src = e.src
       /\ \A k : Recorded(k)' <=> Recorded(k) \/ e.src = Src(k, "")
  BY <1>5, <1>9, <1>10, RecordedAppended
<1>13. InOrder'
  <2>1. ASSUME NEW k \in DOMAIN stream, k < i, Due(k) PROVE Recorded(k)
    <3>1. k \in 1 .. p.pos
      <4>1. DOMAIN stream = 1 .. Len(stream) /\ Len(stream) \in Nat BY <1>5, StreamIs
      <4> QED BY <1>2, <2>1, <4>1
    <3> QED BY <1>2, <2>1, <3>1 DEF DoneTo
  <2>2. \A k \in DOMAIN stream : k < e.src[1] /\ Due(k) => Recorded(k) BY <1>11, <2>1
  <2> QED BY <1>4, <1>9, <1>10, <2>2, InOrderGrows
<1>14. ActionToolRecorded'
  <2>1. ASSUME NEW k \in Actions PROVE e.src # Src(k, "")
    <3>1. Event(k).type = "action" BY DEF Actions
    <3>2. CASE Event(i).type = "action" BY <1>11, <3>2
    <3>3. CASE Event(i).type # "action"
      <4>1. k # i BY <3>1, <3>3
      <4> QED BY <1>11, <3>3, <4>1
    <3> QED BY <3>2, <3>3
  <2> QED BY <1>4, <1>9, <1>10, <2>1, ActionsStayRecorded
<1>15. WaitsUnanswered' BY <1>4 DEF WaitsUnanswered
<1>16. TextRecorded'
  <2>1. CASE Event(i).type = "text"
    <3>1. i - 1 = p.pos BY <1>2
    <3>2. /\ job.delta # <<>> /\ Stripped(i).out = Stripped(p.pos).out \o job.delta
      BY <1>2, <1>6, <2>1 DEF StripperTrue
    <3>3. e.src = Src(i, "") BY <1>11, <2>1
    <3>4. e.order = getSinglePartOrder["text"] BY <1>8, <1>9, <2>1 DEF TextKinds
    <3>5. TextEntry(e, i) BY <1>9, <2>1, <3>1, <3>2, <3>3, <3>4 DEF TextEntry
    <3>6. ~Recorded(i) BY <1>1, <1>6, <1>9, <3>3 DEF Recorded
    <3>7. DoneTo(i - 1) BY <1>2, <3>1
    <3> QED BY <1>2, <1>4, <1>9, <1>10, <3>5, <3>6, <3>7, TextGetsRecorded
  <2>2. CASE Event(i).type # "text"
    <3>1. e.order # getSinglePartOrder["text"]
      <4>1. PICK o : o = getSinglePartOrder["text"] OBVIOUS
      <4>2. o \in Nat /\ ~(o >= ToolPartOrderStart) BY <4>1, SingleOrders DEF TextKinds
      <4>3. CASE Event(i).type \in TextKinds
        <5>1. PICK kind : kind = "text" OBVIOUS
        <5>2. kind \in TextKinds BY <5>1 DEF TextKinds
        <5> QED BY <1>8, <1>9, <2>2, <4>3, <5>1, <5>2, SingleOrders
      <4>4. CASE Event(i).type \in ToolEvents BY <1>8, <1>9, <4>1, <4>2, <4>4
      <4> QED BY <1>8, <4>3, <4>4
    <3>2. \A k \in DOMAIN stream : Event(k).type = "text" => e.src # Src(k, "") BY <1>11, <2>2
    <3> QED BY <1>4, <1>9, <1>10, <3>1, <3>2, TextStaysRecorded
  <2> QED BY <2>1, <2>2
<1>17. StripperTrue(q)'
  <2>1. StripperTrue(q) BY <1>2, <1>3, WroteStripper
  <2> QED BY <1>4, <2>1, StreamStays
<1>18. DoneTo(q.pos)'
  <2>1. \A k : Recorded(k) => Recorded(k)' BY <1>12
  <2>2. DoneTo(p.pos)' BY <1>2, <1>4, <2>1, DoneStays
  <2>3. CASE q.pc = "action" BY <1>3, <2>2, <2>3 DEF Wrote
  <2>4. CASE q.pc = "read"
    <3>1. q.pos = i /\ Event(i).type # "action" BY <1>3, <2>4 DEF Wrote
    <3>2. Recorded(i)' BY <1>11, <1>12, <3>1
    <3>3. \A k \in 1 .. i : k \in 1 .. p.pos \/ k = i BY <1>2
    <3>4. ASSUME NEW k \in 1 .. i, Due(k)' PROVE Recorded(k)'
      <4>1. CASE k \in 1 .. p.pos BY <2>2, <3>4, <4>1 DEF DoneTo
      <4>2. CASE k = i BY <3>2, <4>2
      <4> QED BY <3>3, <4>1, <4>2
    <3> QED BY <3>1, <3>4 DEF DoneTo
  <2> QED BY <1>3, <2>3, <2>4 DEF Wrote
<1>19. q.pc = "action" => HasSourceEvent(Src(q.pos + 1, "tool"))'
  <2>1. SUFFICES ASSUME q.pc = "action" PROVE HasSourceEvent(Src(q.pos + 1, "tool"))' OBVIOUS
  <2>2. Event(i).type = "action" /\ q.pos + 1 = i BY <1>2, <1>3, <2>1 DEF Wrote
  <2>3. PICK src : src = Src(i, "tool") OBVIOUS
  <2>4. e.src = src BY <1>8, <1>9, <2>2, <2>3
  <2>5. HasSourceEvent(src)' BY <1>12, <2>4
  <2> QED BY <2>2, <2>3, <2>5 DEF Src
<1>20. IntactProjection(q)' BY <1>17, <1>18, <1>19 DEF IntactProjection
<1>21. \A src : HasSourceEvent(src) => HasSourceEvent(src)' BY <1>12
<1> QED BY <1>3, <1>4, <1>13, <1>14, <1>15, <1>16, <1>20, <1>21, IntactGoesOn

\* What a projection that is about to wait for a client action is at.
LEMMA WaitingAt ==
    ASSUME ProjectionInv, IntactInv, NEW a \in Apis, proj[a].pc = "action", NEW i, i = Current(a)
    PROVE  /\ i \in Actions /\ i \in DOMAIN stream /\ i \in Nat /\ Published(i)
           /\ \A k \in DOMAIN stream : k < i /\ Due(k) => Recorded(k)
           /\ status # "completed" => HasSourceEvent(Src(i, "tool"))
<1>1. PICK p : p = proj[a] OBVIOUS
<1>2. ProjectionOK(p) /\ stream \in Streams BY <1>1 DEF ProjectionInv, ProjectionsOK, RowsOK
<1>3. i = p.pos + 1 BY <1>1 DEF Current
<1>4. Published(i) /\ Event(i).type = "action" /\ p.pos \in 0 .. Len(stream)
  BY <1>1, <1>2, <1>3 DEF ProjectionOK
<1>5. DOMAIN stream = 1 .. Len(stream) /\ Len(stream) \in Nat BY <1>2, StreamIs
<1>6. i \in DOMAIN stream BY <1>4 DEF Published
<1>7. i \in Actions /\ i \in Nat BY <1>4, <1>5, <1>6 DEF Actions
<1>8. DoneTo(p.pos) /\ IntactProjection(p) BY <1>1, IntactIs
<1>9. ASSUME NEW k \in DOMAIN stream, k < i, Due(k) PROVE Recorded(k)
  <2>1. k \in 1 .. p.pos BY <1>3, <1>4, <1>5, <1>9
  <2> QED BY <1>8, <1>9, <2>1 DEF DoneTo
<1>10. status # "completed" => HasSourceEvent(Src(i, "tool"))
  BY <1>1, <1>3, <1>8 DEF IntactProjection
<1> QED BY <1>4, <1>6, <1>7, <1>9, <1>10

\* RequireClientAction: what is waited for is not yet answered.
LEMMA RequireClientActionStaysIntact ==
    ASSUME ProjectionInv, IntactInv, NEW a \in Apis, RequireClientAction(a)
    PROVE  IntactInv'
<1>1. log \in Seq(LogEntries) /\ stream \in Streams /\ answered \in Nat
  BY DEF ProjectionInv, RowsOK
<1>2. UNCHANGED <<stream, parts, content, answered>> /\ proj[a].pc = "action"
  BY DEF RequireClientAction
<1>3. PICK q : q = IdleProjection OBVIOUS
<1>4. q.pc = "idle" BY <1>3 DEF IdleProjection
<1>5. proj' = [proj EXCEPT ![a] = q] BY <1>3 DEF RequireClientAction, EndProjection
<1>6. PICK i : i = Current(a) OBVIOUS
<1>7. /\ i \in Actions /\ i \in DOMAIN stream /\ i \in Nat /\ Published(i)
      /\ \A k \in DOMAIN stream : k < i /\ Due(k) => Recorded(k)
      /\ status # "completed" => HasSourceEvent(Src(i, "tool"))
  BY <1>2, <1>6, WaitingAt
<1>8. CASE ~(status = "running" /\ ~HasSourceEvent(Src(i, "")))
  <2>1. UNCHANGED <<stream, rowVars>> BY <1>2, <1>6, <1>8 DEF RequireClientAction, rowVars
  <2> QED BY <1>3, <1>5, <2>1, EndStaysIntact
<1>9. CASE status = "running" /\ ~HasSourceEvent(Src(i, ""))
  <2>1. PICK e : e = Entry(Src(i, ""), NoPart, <<>>) OBVIOUS
  <2>2. log' = Append(log, e) /\ status' = "requires_action"
    BY <1>6, <1>9, <2>1 DEF RequireClientAction
  <2>3. PICK suffix : suffix = "" OBVIOUS
  <2>4. e \in LogEntries /\ e.src = Src(i, suffix) /\ e.order = NoPart
    <3>1. suffix \in SourceSuffixes BY <2>3 DEF SourceSuffixes
    <3> QED BY <1>7, <2>1, <2>3, <3>1, OutcomeEntryIs
  <2>5. e.src[1] = i /\ \A k : e.src = Src(k, "") <=> k = i
    <3>1. PICK src : src = e.src OBVIOUS
    <3>2. src[1] = i BY <2>4, <3>1, SrcIs
    <3>3. ASSUME NEW k, src = Src(k, "") PROVE k = i
      <4>1. src[1] = k BY <3>3, SrcIs
      <4> QED BY <3>2, <4>1
    <3> QED BY <2>3, <2>4, <3>1, <3>2, <3>3
  <2>6. /\ \A src : HasSourceEvent(src)' <=> HasSourceEvent(src) \/ src = e.src
        /\ \A k : Recorded(k)' <=> Recorded(k) \/ k = i
    <3>1. /\ \A src : HasSourceEvent(src)' <=> HasSourceEvent(src) \/ src = e.src
          /\ \A k : Recorded(k)' <=> Recorded(k) \/ e.src = Src(k, "")
      BY <1>1, <2>2, <2>4, RecordedAppended
    <3> QED BY <2>5, <3>1
  <2>7. InOrder' BY <1>2, <1>7, <2>2, <2>4, <2>5, InOrderGrows
  <2>8. RecordedActions' = RecordedActions \cup {i}
    <3>1. Actions' = Actions BY <1>2, StreamStays
    <3> QED BY <1>7, <2>6, <3>1 DEF RecordedActions
  <2>9. ActionToolRecorded'
    <3>1. ASSUME NEW k \in RecordedActions \cup {i} PROVE HasSourceEvent(Src(k, "tool"))'
      <4>1. PICK src : src = Src(k, "tool") OBVIOUS
      <4>2. HasSourceEvent(src) BY <1>7, <1>9, <4>1 DEF IntactInv, ActionToolRecorded
      <4>3. HasSourceEvent(src)' BY <2>6, <4>2
      <4> QED BY <4>1, <4>3 DEF Src
    <3> QED BY <2>8, <3>1 DEF ActionToolRecorded
  <2>10. WaitsUnanswered'
    <3>1. ~Recorded(i) BY <1>9 DEF Recorded
    <3>2. Cardinality(RecordedActions) <= Cardinality({k \in Actions : k < i})
      BY <1>7, <3>1, RecordedBefore
    <3>3. /\ Cardinality({k \in Actions : k < i}) \in Nat /\ Cardinality({k \in Actions : k <= i}) \in Nat
          /\ Cardinality({k \in Actions : k < i}) < Cardinality({k \in Actions : k <= i})
      BY <1>1, <1>7, ActionsBefore
    <3>4. answered = Cardinality(RecordedActions)
      <4>1. answered + 0 = Cardinality(RecordedActions) BY <1>9 DEF ProjectionInv, ActionsCounted
      <4> QED BY <1>1, <4>1
    <3>5. answered < Cardinality({k \in Actions : k <= i}) BY <1>1, <3>2, <3>3, <3>4
    <3>6. answered' < Cardinality({k \in Actions' : k <= i}) BY <1>2, <3>5, StreamStays
    <3> QED BY <2>8, <3>6 DEF WaitsUnanswered
  <2>11. TextRecorded'
    <3>1. e.order # getSinglePartOrder["text"] BY <2>4 DEF NoPart, getSinglePartOrder
    <3>2. ASSUME NEW k \in DOMAIN stream, Event(k).type = "text" PROVE e.src # Src(k, "")
      <4>1. k # i BY <1>7, <3>2 DEF Actions
      <4> QED BY <2>5, <4>1
    <3> QED BY <1>2, <1>9, <2>2, <2>4, <3>1, <3>2, TextStaysRecorded
  <2>12. IntactProjection(q)' BY <1>4, IdleIntact
  <2>13. \A src : HasSourceEvent(src) => HasSourceEvent(src)' BY <2>6
  <2> QED BY <1>2, <1>5, <1>9, <2>2, <2>7, <2>9, <2>10, <2>11, <2>12, <2>13, IntactGoesOn
<1> QED BY <1>8, <1>9

\* The answer to a client action is none of the text.
LEMMA ResumeStaysIntact ==
    ASSUME ProjectionInv, IntactInv, Resume
    PROVE  IntactInv'
<1>1. /\ status = "requires_action" /\ status' = "running" /\ UNCHANGED <<stream, proj>>
      /\ log \in Seq(LogEntries) /\ stream \in Streams
  BY DEF Resume, ProjectionInv, RowsOK
<1>2. PICK call \in STRING, order \in Nat : order >= ToolPartOrderStart /\ Answered(call, order)
  BY ResumeIs
<1>3. PICK e : e = Entry(NoSrc, order, <<"r">>) OBVIOUS
<1>4. e \in LogEntries /\ e.order = order BY <1>3, AnswerIs
<1>5. log' = Append(log, e) BY <1>2, <1>3 DEF Answered
<1>6. e.src = NoSrc BY <1>3 DEF Entry
<1>7. e.src[1] = 0 /\ \A k : e.src = Src(k, "") => k = 0
  <2>1. PICK src : src = e.src OBVIOUS
  <2>2. src[1] = 0 BY <1>6, <2>1, SrcIs DEF NoSrc
  <2>3. ASSUME NEW k, src = Src(k, "") PROVE k = 0
    <3>1. src[1] = k BY <2>3, SrcIs
    <3> QED BY <2>2, <3>1
  <2> QED BY <2>1, <2>2, <2>3
<1>8. \A k \in DOMAIN stream : k # 0 /\ ~(k < 0)
  <2>1. DOMAIN stream = 1 .. Len(stream) /\ Len(stream) \in Nat BY <1>1, StreamIs
  <2> QED BY <2>1
<1>9. InOrder'
  <2>1. \A k \in DOMAIN stream : k < e.src[1] /\ Due(k) => Recorded(k) BY <1>7, <1>8
  <2> QED BY <1>1, <1>4, <1>5, <2>1, InOrderGrows
<1>10. ActionToolRecorded'
  <2>1. \A k \in Actions : e.src # Src(k, "") BY <1>7, <1>8 DEF Actions
  <2> QED BY <1>1, <1>4, <1>5, <2>1, ActionsStayRecorded
<1>11. WaitsUnanswered' BY <1>1 DEF WaitsUnanswered
<1>12. TextRecorded'
  <2>1. e.order # getSinglePartOrder["text"]
    BY <1>2, <1>4 DEF ToolPartOrderStart, getSinglePartOrder
  <2>2. \A k \in DOMAIN stream : Event(k).type = "text" => e.src # Src(k, "") BY <1>7, <1>8
  <2> QED BY <1>1, <1>4, <1>5, <2>1, <2>2, TextStaysRecorded
<1>13. /\ \A src : HasSourceEvent(src) => HasSourceEvent(src)'
       /\ \A k : Recorded(k) => Recorded(k)'
  BY <1>1, <1>4, <1>5, RecordedAppended
<1>14. ASSUME NEW a \in Apis
       PROVE  /\ proj'[a].pc # "idle" => DoneTo(proj[a].pos)' /\ StripperTrue(proj[a])'
              /\ proj'[a].pc = "action" => HasSourceEvent(Src(proj[a].pos + 1, "tool"))'
  <2>1. PICK p : p = proj[a] OBVIOUS
  <2>2. IntactProjection(p) BY <2>1 DEF IntactInv, IntactProjection
  <2>3. p.pc # "idle" => DoneTo(p.pos)' /\ StripperTrue(p)'
    BY <1>1, <1>13, <2>2, DoneStays, StreamStays DEF IntactProjection
  <2>4. p.pc = "action" => HasSourceEvent(Src(p.pos + 1, "tool"))'
    BY <1>1, <1>13, <2>2 DEF IntactProjection, Src
  <2> QED BY <1>1, <2>1, <2>3, <2>4
<1> QED BY <1>1, <1>9, <1>10, <1>11, <1>12, <1>14 DEF IntactInv

\* A projection that completes the run is at the end of the stream.
LEMMA CompletingAt ==
    ASSUME ProjectionInv, IntactInv, NEW a \in Apis, proj[a].pc = "complete", NEW i, i = Current(a)
    PROVE  /\ i = Len(stream) /\ i \in DOMAIN stream /\ i \in Nat /\ i \in 0 .. Len(stream)
           /\ DoneTo(i) /\ Held(a, "text") = Flush(Stripped(i).st).out
<1>1. PICK p : p = proj[a] OBVIOUS
<1>2. ProjectionOK(p) /\ stream \in Streams BY <1>1 DEF ProjectionInv, ProjectionsOK, RowsOK
<1>3. i = p.pos + 1 BY <1>1 DEF Current
<1>4. Published(i) /\ Event(i).type = "completed" /\ p.pos \in 0 .. Len(stream)
  BY <1>1, <1>2, <1>3 DEF ProjectionOK
<1>5. /\ DOMAIN stream = 1 .. Len(stream) /\ Len(stream) \in Nat
      /\ stream \in Seq(Events) /\ WellFormed(stream)
  BY <1>2, StreamIs
<1>6. i \in DOMAIN stream BY <1>4 DEF Published
<1>7. i = Len(stream)
  <2>1. SUFFICES ASSUME i # Len(stream) PROVE FALSE OBVIOUS
  <2>2. Len(stream) \in DOMAIN stream /\ i < Len(stream) BY <1>5, <1>6, <2>1
  <2> QED BY <1>4, <1>5, <1>6, <2>2 DEF WellFormed, Event
<1>8. DoneTo(p.pos) /\ StripperTrue(p) BY <1>1, IntactIs
<1>9. p.pos \in Nat /\ i - 1 = p.pos BY <1>3, <1>4, <1>5
<1>10. DoneTo(i)
  <2>1. ~Due(i) BY <1>4 DEF Due, ToolEvents, ToolKinds
  <2> QED BY <1>3, <1>8, <1>9, <2>1, DoneNext
<1>11. Stripped(i) = Stripped(p.pos)
  <2>1. Event(i).type # "text" BY <1>4
  <2> QED BY <1>5, <1>6, <1>9, <2>1, StrippedNext
<1>12. Held(a, "text") = Flush(Stripped(i).st).out
  BY <1>1, <1>8, <1>11 DEF Held, StripperTrue
<1> QED BY <1>5, <1>6, <1>7, <1>10, <1>12

\* The entries of a run that is completed are sources of no other event.
LEMMA GrownRecords ==
    ASSUME NEW i, Grown(log, log', i)
    PROVE  /\ \A src : HasSourceEvent(src) => HasSourceEvent(src)'
           /\ \A k : Recorded(k)' <=> Recorded(k)
<1>1. PICK m : m = log' OBVIOUS
<1>2. /\ DOMAIN log \subseteq DOMAIN m /\ \A n \in DOMAIN log : m[n] = log[n]
      /\ \A n \in DOMAIN m : n \notin DOMAIN log =>
            m[n].src[1] = i /\ m[n].src[2] \in {"reasoning", "text", "message"}
  BY <1>1 DEF Grown
<1>3. \A src : HasSourceEvent(src)' <=> \E n \in DOMAIN m : m[n].src = src
  BY <1>1 DEF HasSourceEvent
<1>4. \A src : HasSourceEvent(src) => HasSourceEvent(src)' BY <1>2, <1>3 DEF HasSourceEvent
<1>5. ASSUME NEW k, Recorded(k)' PROVE Recorded(k)
  <2>1. PICK src, none : src = Src(k, "") /\ none = "" OBVIOUS
  <2>2. HasSourceEvent(src)' BY <1>5, <2>1 DEF Recorded, Src
  <2>3. PICK n \in DOMAIN m : m[n].src = src BY <1>3, <2>2
  <2>4. src[2] = none BY <2>1, SrcIs
  <2>5. n \in DOMAIN log BY <1>2, <2>1, <2>3, <2>4
  <2> QED BY <1>2, <2>1, <2>3, <2>5 DEF Recorded, HasSourceEvent
<1>6. ASSUME NEW k, Recorded(k) PROVE Recorded(k)'
  <2>1. PICK src : src = Src(k, "") OBVIOUS
  <2>2. HasSourceEvent(src)' BY <1>4, <1>6, <2>1 DEF Recorded
  <2> QED BY <2>1, <2>2 DEF Recorded, Src
<1> QED BY <1>4, <1>5, <1>6

\* CompleteRun: what was held back is the rest of the text.
LEMMA CompleteRunStaysIntact ==
    ASSUME ProjectionInv, IntactInv, NEW a \in Apis, CompleteRun(a)
    PROVE  IntactInv'
<1>1. /\ proj[a].pc = "complete" /\ UNCHANGED <<stream, answered>>
      /\ stream \in Streams /\ stream \in Seq(Events)
  BY StreamIs DEF CompleteRun, ProjectionInv, RowsOK
<1>2. PICK q : q = IdleProjection OBVIOUS
<1>3. q.pc = "idle" BY <1>2 DEF IdleProjection
<1>4. proj' = [proj EXCEPT ![a] = q] BY <1>2 DEF CompleteRun, EndProjection
<1>5. CASE status # "running"
  <2>1. UNCHANGED <<stream, rowVars>> BY <1>1, <1>5 DEF CompleteRun, rowVars
  <2> QED BY <1>2, <1>4, <2>1, EndStaysIntact
<1>6. CASE status = "running"
  <2>1. Completing(a) /\ Grown(log, log', Current(a)) /\ status' = "completed"
    BY <1>1, <1>6, CompleteRunIs
  <2>2. PICK i : i = Current(a) OBVIOUS
  <2>3. /\ i = Len(stream) /\ i \in DOMAIN stream /\ i \in Nat /\ i \in 0 .. Len(stream)
        /\ DoneTo(i) /\ Held(a, "text") = Flush(Stripped(i).st).out
    BY <1>1, <2>2, CompletingAt
  <2>4. /\ \A src : HasSourceEvent(src) => HasSourceEvent(src)'
        /\ \A k : Recorded(k)' <=> Recorded(k)
    BY <2>1, GrownRecords
  <2>5. InOrder'
    <3>1. PICK m : m = log' OBVIOUS
    <3>2. /\ \A n \in DOMAIN log : m[n] = log[n]
          /\ \A n \in DOMAIN m : n \notin DOMAIN log => m[n].src[1] = i
      BY <2>1, <2>2, <3>1 DEF Grown
    <3>3. ASSUME NEW n \in DOMAIN m, NEW k \in DOMAIN stream, k < m[n].src[1], Due(k) PROVE Recorded(k)
      <4>1. CASE n \in DOMAIN log
        <5>1. k < log[n].src[1] BY <3>2, <3>3, <4>1
        <5> QED BY <3>3, <4>1, <5>1 DEF IntactInv, InOrder
      <4>2. CASE n \notin DOMAIN log
        <5>1. k \in 1 .. i BY <1>1, <2>3, StreamIs
        <5> QED BY <2>3, <3>3, <5>1 DEF DoneTo
      <4> QED BY <4>1, <4>2
    <3> QED BY <1>1, <2>4, <3>1, <3>3, StreamStays DEF InOrder
  <2>6. ActionToolRecorded'
    <3>1. RecordedActions' = RecordedActions BY <1>1, <2>4, StreamStays DEF RecordedActions
    <3>2. ASSUME NEW k \in RecordedActions PROVE HasSourceEvent(Src(k, "tool"))'
      <4>1. PICK src : src = Src(k, "tool") OBVIOUS
      <4>2. HasSourceEvent(src) BY <4>1 DEF IntactInv, ActionToolRecorded
      <4>3. HasSourceEvent(src)' BY <2>4, <4>2
      <4> QED BY <4>1, <4>3 DEF Src
    <3> QED BY <3>1, <3>2 DEF ActionToolRecorded
  <2>7. WaitsUnanswered' BY <2>1 DEF WaitsUnanswered
  <2>8. TextRecorded'
    <3>1. PICK o : o = getSinglePartOrder["text"] OBVIOUS
    <3>2. PICK j \in 0 .. Len(stream) :
             /\ DeltasOf(o) = Stripped(j).out
             /\ \A k \in DOMAIN stream : Event(k).type = "text" /\ Due(k) => (Recorded(k) <=> k <= j)
      BY <1>6, <3>1 DEF IntactInv, TextRecorded
    <3>3. DOMAIN stream = 1 .. i /\ j <= i /\ j \in Nat BY <1>1, <2>3, StreamIs
    <3>4. ASSUME NEW k \in DOMAIN stream, j < k, k <= i, Event(k).type = "text" PROVE ~Due(k)
      <4>1. SUFFICES ASSUME Due(k) PROVE FALSE OBVIOUS
      <4>2. Recorded(k) BY <2>3, <3>3, <4>1 DEF DoneTo
      <4>3. k <= j BY <3>2, <3>4, <4>1, <4>2
      <4> QED BY <2>3, <3>3, <3>4, <4>3
    <3>5. Stripped(i).out = Stripped(j).out BY <1>1, <2>3, <3>3, <3>4, OutStays
    <3>6. DeltasOf(o)' = DeltasOf(o) \o Held(a, "text")
      <4>1. PICK kind : kind = "text" OBVIOUS
      <4>2. kind \in TextKinds /\ o = getSinglePartOrder[kind] BY <3>1, <4>1 DEF TextKinds
      <4>3. DeltasOf(o)' = DeltasOf(o) \o Held(a, kind) BY <2>1, <4>2, CompletedDeltas
      <4> QED BY <4>1, <4>3
    <3>7. DeltasOf(o)' = Stripped(i).out \o Flush(Stripped(i).st).out BY <2>3, <3>2, <3>5, <3>6
    <3>8. Stripped(i)' = Stripped(i) BY <1>1, StreamStays
    <3>9. DeltasOf(o)' = Stripped(i)'.out \o Flush(Stripped(i)'.st).out BY <3>7, <3>8
    <3> QED BY <1>1, <2>1, <2>3, <3>1, <3>9 DEF TextRecorded
  <2>9. IntactProjection(q)' BY <1>3, IdleIntact
  <2>10. DoneTo(Len(stream))'
    <3>1. PICK pos : pos = Len(stream) OBVIOUS
    <3>2. DoneTo(pos)' BY <1>1, <2>3, <2>4, <3>1, DoneStays
    <3> QED BY <1>1, <3>1, <3>2 DEF DoneTo
  <2> QED BY <1>1, <1>4, <1>6, <2>1, <2>4, <2>5, <2>6, <2>7, <2>8, <2>9, <2>10, IntactGoesOn
<1> QED BY <1>5, <1>6

-----------------------------------------------------------------------------
(* A completed message has the agent's whole text.                         *)

\* Nothing has come out of the stream at first, and nothing is on record.
LEMMA IntactBegins ==
    ASSUME Init
    PROVE  IntactInv
<1>1. /\ log = <<>> /\ DOMAIN log = {} /\ status = "running" /\ stream \in Streams
      /\ \A a \in Apis : proj[a].pc = "idle"
  BY DEF Init, IdleProjection
<1>2. /\ stream \in Seq(Events) /\ DOMAIN stream = 1 .. Len(stream) /\ Len(stream) \in Nat
  BY <1>1, StreamIs
<1>3. \A src : ~HasSourceEvent(src) BY <1>1 DEF HasSourceEvent
<1>4. RecordedActions = {} BY <1>3 DEF RecordedActions, Recorded
<1>5. InOrder BY <1>1 DEF InOrder
<1>6. ActionToolRecorded BY <1>4 DEF ActionToolRecorded
<1>7. WaitsUnanswered BY <1>1 DEF WaitsUnanswered
<1>8. TextRecorded
  <2>1. PICK o : o = getSinglePartOrder["text"] OBVIOUS
  <2>2. DeltasOf(o) = <<>>
    <3>1. DeltasOf(o) = DeltasIn(<<>>, o) BY <1>1, DeltasOfIs
    <3> QED BY <3>1, DeltasBegin
  <2>3. PICK j : j = 0 OBVIOUS
  <2>4. Stripped(j).out = <<>>
    <3>1. Stripped(j) = Begun BY <1>2, <2>3, StrippedIs
    <3> QED BY <3>1 DEF Begun
  <2>5. ASSUME NEW i \in DOMAIN stream PROVE ~Recorded(i) /\ ~(i <= j)
    <3>1. ~Recorded(i) BY <1>3 DEF Recorded
    <3>2. ~(i <= j) BY <1>2, <2>3
    <3> QED BY <3>1, <3>2
  <2>6. j \in 0 .. Len(stream) BY <1>2, <2>3
  <2> QED BY <1>1, <2>1, <2>2, <2>4, <2>5, <2>6 DEF TextRecorded
<1> QED BY <1>1, <1>5, <1>6, <1>7, <1>8 DEF IntactInv

\* Every step that passes over nothing held back keeps the text.
LEMMA StepStaysIntact ==
    ASSUME ProjectionInv, ~dropped => IntactInv, [Next]_vars, ~dropped'
    PROVE  IntactInv'
<1>1. ~dropped
  BY ZenonT(40) DEF Next, vars, Start, Load, SkipRecorded, ReadText, ReadTool, ReadCompleted,
     WritePart, RequireClientAction, CompleteRun, Crash, Resume
<1>2. IntactInv BY <1>1
<1>3. ASSUME NEW a \in Apis,
             \/ Start(a) \/ Load(a) \/ SkipRecorded(a) \/ ReadText(a) \/ ReadTool(a) \/ ReadCompleted(a)
             \/ WritePart(a) \/ RequireClientAction(a) \/ CompleteRun(a) \/ Crash(a)
      PROVE  IntactInv'
  <2>1. CASE Start(a) BY <1>2, <2>1, StartStaysIntact
  <2>2. CASE Load(a) BY <1>2, <2>2, LoadStaysIntact
  <2>3. CASE SkipRecorded(a) BY <1>2, <2>3, SkipRecordedStaysIntact
  <2>4. CASE ReadText(a) BY <1>2, <2>4, ReadTextStaysIntact
  <2>5. CASE ReadTool(a) BY <1>2, <2>5, ReadToolStaysIntact
  <2>6. CASE ReadCompleted(a) BY <1>2, <2>6, ReadCompletedStaysIntact
  <2>7. CASE WritePart(a)
    <3>1. CASE status = "running" /\ ~HasSourceEvent(proj[a].job.src)
      BY <1>2, <2>7, <3>1, WriteStaysIntact
    <3>2. CASE status # "running" \/ HasSourceEvent(proj[a].job.src)
      BY <1>2, <2>7, <3>2, WriteNothingStaysIntact
    <3> QED BY <3>1, <3>2
  <2>8. CASE RequireClientAction(a) BY <1>2, <2>8, RequireClientActionStaysIntact
  <2>9. CASE CompleteRun(a) BY <1>2, <2>9, CompleteRunStaysIntact
  <2>10. CASE Crash(a)
    <3>1. UNCHANGED <<stream, rowVars>> /\ proj' = [proj EXCEPT ![a] = IdleProjection]
      BY <2>10 DEF Crash, EndProjection
    <3> QED BY <1>2, <3>1, EndStaysIntact
  <2> QED BY <1>3, <2>1, <2>2, <2>3, <2>4, <2>5, <2>6, <2>7, <2>8, <2>9, <2>10
<1>4. CASE Resume BY <1>2, <1>4, ResumeStaysIntact
<1>5. CASE UNCHANGED vars
  <2>1. UNCHANGED <<stream, rowVars>> /\ status' = status /\ proj' = proj
    BY <1>5 DEF vars, rowVars
  <2>2. /\ InOrder' /\ ActionToolRecorded' /\ WaitsUnanswered' /\ TextRecorded'
        /\ status' = "completed" => DoneTo(Len(stream))'
    BY <1>2, <2>1, IntactRowsStay
  <2>3. ASSUME NEW a \in Apis PROVE IntactProjection(proj[a])'
    <3>1. PICK p : p = proj[a] OBVIOUS
    <3>2. IntactProjection(p) BY <1>2, <3>1 DEF IntactInv, IntactProjection
    <3>3. IntactProjection(p)' BY <1>2, <2>1, <3>2, IntactRowsStay
    <3> QED BY <2>1, <3>1, <3>3
  <2> QED BY <2>2, <2>3 DEF IntactInv, IntactProjection
<1> QED BY <1>3, <1>4, <1>5 DEF Next

\* The content of a run completed by the only process is the text on record.
LEMMA StepKeepsContent ==
    ASSUME ProjectionInv, AloneInv, ContentTrue, [Next]_vars
    PROVE  ContentTrue'
<1>1. CASE UNCHANGED vars
  BY <1>1 DEF ContentTrue, vars, rowVars, DeltasOf
<1>2. ASSUME NEW a \in Apis, CompleteRun(a) PROVE ContentTrue'
  <2>1. proj[a].pc = "complete" BY <1>2 DEF CompleteRun
  <2>2. status = "running" BY <2>1, OnlyOne
  <2>3. Completing(a) BY <1>2, <2>2, CompleteRunIs
  <2>4. PICK kind : kind = "text" OBVIOUS
  <2>5. kind \in TextKinds BY <2>4 DEF TextKinds
  <2>6. PICK o : o = getSinglePartOrder[kind] OBVIOUS
  <2>7. PICK p : p = proj[a] OBVIOUS
  <2>8. MemoryTrue(p) /\ SnapshotsTrue BY <2>7 DEF AloneInv
  <2>9. p.texts[kind] = Snapshot(o) \o p.strippers[kind].buffer
    BY <2>1, <2>5, <2>6, <2>7, <2>8 DEF MemoryTrue
  <2>10. Held(a, kind) = p.strippers[kind].buffer BY <2>7 DEF Held
  <2>11. content' = p.texts[kind] BY <2>3, <2>4, <2>7 DEF Completing
  <2>12. DeltasOf(o) = Snapshot(o) BY <2>5, <2>6, <2>8, SingleSnapshots
  <2>13. DeltasOf(o)' = DeltasOf(o) \o Held(a, kind) BY <2>3, <2>5, <2>6, CompletedDeltas
  <2>14. content' = DeltasOf(o)' BY <2>9, <2>10, <2>11, <2>12, <2>13
  <2> QED BY <2>4, <2>6, <2>14 DEF ContentTrue
<1>3. ASSUME NEW a \in Apis,
             \/ Start(a) \/ Load(a) \/ SkipRecorded(a) \/ ReadText(a) \/ ReadTool(a) \/ ReadCompleted(a)
             \/ WritePart(a) \/ RequireClientAction(a) \/ Crash(a)
      PROVE  status' # "completed"
  <2>1. status = "running"
    <3>1. CASE Start(a) BY <3>1 DEF Start
    <3>2. CASE ~Start(a)
      <4>1. proj[a].pc # "idle"
        BY <1>3, <3>2, Zenon DEF Load, SkipRecorded, ReadText, ReadTool, ReadCompleted, Reading,
           WritePart,
           RequireClientAction, Crash
      <4> QED BY <4>1, OnlyOne
    <3> QED BY <3>1, <3>2
  <2> QED
    BY <1>3, <2>1, Zenon DEF Start, Load, SkipRecorded, ReadText, ReadTool, ReadCompleted, WritePart,
        RequireClientAction, Crash, rowVars
<1>4. CASE Resume BY <1>4 DEF Resume, ContentTrue
<1> QED BY <1>1, <1>2, <1>3, <1>4 DEF Next, ContentTrue

\* The invariant holds always.
LEMMA IInvAlways == Spec => []IInv
<1>1. Init => IInv
  <2>1. ASSUME Init PROVE IInv
    <3>1. ContentTrue BY <2>1 DEF Init, ContentTrue
    <3> QED BY <2>1, <3>1, RowsBegin, AloneBegins, IntactBegins DEF IInv
  <2> QED BY <2>1
<1>2. IInv /\ [Next]_vars => IInv'
  <2>1. ASSUME IInv, [Next]_vars PROVE IInv'
    <3>1. ProjectionInv /\ (~shared => AloneInv /\ ContentTrue) /\ (~dropped => IntactInv)
      BY <2>1 DEF IInv
    <3>2. ProjectionInv' BY <2>1, <3>1, StepKeepsRows
    <3>3. ASSUME ~shared' PROVE AloneInv' /\ ContentTrue'
      <4>1. AloneInv' BY <2>1, <3>1, <3>3, StepStaysAlone
      <4>2. ~shared
        BY <2>1, <3>3, ZenonT(40) DEF Next, vars, Start, Load, SkipRecorded, ReadText, ReadTool,
           ReadCompleted, WritePart, RequireClientAction, CompleteRun, Crash, Resume
      <4>3. ContentTrue' BY <2>1, <3>1, <4>2, StepKeepsContent
      <4> QED BY <4>1, <4>3
    <3>4. ASSUME ~dropped' PROVE IntactInv' BY <2>1, <3>1, <3>4, StepStaysIntact
    <3> QED BY <3>2, <3>3, <3>4 DEF IInv
  <2> QED BY <2>1
<1> QED BY <1>1, <1>2, PTL DEF Spec

\* A completed message holds the agent's whole text, and what was streamed on
\* the way is a beginning of it (projectRun with the stripper and the unique
\* index on source events): through every cut of the text, restart and client
\* action, and however many processes project the run, unless text that a
\* stripper held back was passed over.
THEOREM AlwaysNothingElseLost == Spec => []NothingElseLost
<1>1. ASSUME IInv PROVE NothingElseLost
  <2>1. PICK o : o = getSinglePartOrder["text"] OBVIOUS
  <2>2. PICK recorded : recorded = DeltasOf(o) OBVIOUS
  <2>3. PICK whole : whole = Strip(WholeText) OBVIOUS
  <2>4. SUFFICES ASSUME Intact
                 PROVE  /\ IsPrefix(recorded, whole)
                        /\ status = "completed" => recorded = whole
                        /\ status = "completed" /\ ~shared => content = whole
    BY <2>1, <2>2, <2>3 DEF NothingElseLost
  <2>5. TextRecorded /\ TagsFit(WholeText) BY <1>1, <2>4 DEF IInv, IntactInv, Intact
  <2>6. stream \in Seq(Events) /\ log \in Seq(LogEntries)
    BY <1>1, StreamIs DEF IInv, ProjectionInv, RowsOK
  <2>7. CASE status = "completed"
    <3>1. PICK d : d = Stripped(Len(stream)) OBVIOUS
    <3>2. recorded = d.out \o Flush(d.st).out BY <2>1, <2>2, <2>5, <2>7, <3>1 DEF TextRecorded
    <3>3. whole = d.out \o Flush(d.st).out BY <2>3, <2>5, <2>6, <3>1, StrippedWhole
    <3>4. recorded = whole BY <3>2, <3>3
    <3>5. recorded \in Texts
      <4>1. recorded = DeltasIn(log, o) BY <2>2, DeltasOfIs
      <4> QED BY <2>6, <4>1, DeltasAppended
    <3>6. IsPrefix(recorded, whole)
      <4>1. Len(recorded) \in Nat BY <3>5 DEF Texts
      <4> QED BY <3>4, <4>1 DEF IsPrefix
    <3>7. ~shared => content = whole
      BY <1>1, <2>1, <2>2, <2>7, <3>4 DEF IInv, ContentTrue
    <3> QED BY <3>4, <3>6, <3>7
  <2>8. CASE status # "completed"
    <3>1. PICK j \in 0 .. Len(stream) : recorded = Stripped(j).out
      BY <2>1, <2>2, <2>5, <2>8 DEF TextRecorded
    <3>2. IsPrefix(Stripped(j).out, Strip(WholeText)) BY <2>5, <2>6, StrippedBegins
    <3> QED BY <2>3, <2>8, <3>1, <3>2
  <2> QED BY <2>7, <2>8
<1> QED BY <1>1, IInvAlways, PTL
=============================================================================
