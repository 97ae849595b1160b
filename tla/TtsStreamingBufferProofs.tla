---------------------- MODULE TtsStreamingBufferProofs ----------------------
(***************************************************************************)
(* Safety of TtsStreamingBuffer for texts, watermarks and bounds of any    *)
(* size: the inductive invariant IInv, the order of text and flushes,      *)
(* that no text is forgotten, and the refinement of TextStream.            *)
(*                                                                         *)
(* Numbers is a recursive function.  What it computes is proved by         *)
(* induction over sets of naturals (NatSet), first of all that it exists.  *)
(***************************************************************************)
EXTENDS TtsStreamingBuffer, SequenceTheorems, WellFoundedInduction, TLAPS

\* Induction over the naturals, for a set of them.
LEMMA NatSet ==
  ASSUME NEW S, 0 \in S, \A n \in Nat : n \in S => n + 1 \in S
  PROVE  Nat \subseteq S
<1> DEFINE Less == {ss \in Nat \X Nat : ss[1] < ss[2]}
           T == Nat \ S
<1>1. IsWellFoundedOn(Less, Nat)
  BY NatLessThanWellFounded DEF OpToRel
<1> SUFFICES ASSUME T # {} PROVE FALSE
  OBVIOUS
<1>2. T \subseteq Nat
  OBVIOUS
<1>3. PICK x \in T : \A y \in T : <<y, x>> \notin Less
  <2> HIDE DEF T, Less
  <2> QED
    BY <1>1, <1>2, WFMin
<1>4. x \in Nat /\ x # 0 /\ x - 1 \in Nat /\ x - 1 + 1 = x
  OBVIOUS
<1>5. x - 1 \notin T
  <2>1. <<x - 1, x>> \in Less
    BY <1>4
  <2>2. QED
    BY <1>3, <2>1
<1> QED
  BY <1>4, <1>5

\* The recursive definition has a solution for every list: it is built up item by item.
LEMMA NumbersExist ==
  ASSUME NEW q \in Seq(Item)
  PROVE  NumbersUpTo(q) = [i \in 0..Len(q) |->
           IF i = 0 THEN <<>>
           ELSE IF IsText(q[i]) THEN Append(NumbersUpTo(q)[i - 1], q[i].n)
           ELSE NumbersUpTo(q)[i - 1]]
<1> DEFINE Step(f, i) == IF i = 0 THEN <<>>
                         ELSE IF IsText(q[i]) THEN Append(f[i - 1], q[i].n) ELSE f[i - 1]
           Is(f, n) == f = [i \in 0..n |-> Step(f, i)]
           S == {n \in Nat : \E f : Is(f, n)}
<1>1. 0 \in S
  <2> DEFINE f == [i \in 0..0 |-> <<>>]
  <2>1. Is(f, 0)
    OBVIOUS
  <2>2. QED
    BY <2>1
<1>2. ASSUME NEW n \in Nat, n \in S PROVE n + 1 \in S
  <2>1. PICK f : Is(f, n)
    BY <1>2
  <2> DEFINE g == [i \in 0..n + 1 |-> IF i = n + 1 THEN Step(f, n + 1) ELSE f[i]]
  <2>2. \A i \in 0..n : f[i] = Step(f, i)
    <3> HIDE DEF Step
    <3>1. f = [i \in 0..n |-> Step(f, i)]
      BY <2>1
    <3>2. QED
      BY <3>1
  <2>3. \A i \in 0..n : g[i] = f[i]
    <3> HIDE DEF Step
    <3>1. QED
      OBVIOUS
  <2>4. ASSUME NEW i \in 0..n + 1 PROVE g[i] = Step(g, i)
    <3>1. Step(g, i) = Step(f, i)
      <4>1. i # 0 => i - 1 \in 0..n
        OBVIOUS
      <4>2. i # 0 => g[i - 1] = f[i - 1]
        BY <2>3, <4>1
      <4> HIDE DEF g
      <4>3. QED
        BY <4>2
    <3>2. CASE i = n + 1
      <4> HIDE DEF Step
      <4>1. g[i] = Step(f, i)
        BY <3>2
      <4>2. QED
        BY <3>1, <4>1
    <3>3. CASE i # n + 1
      <4> HIDE DEF Step, g
      <4>1. i \in 0..n
        BY <3>3
      <4>2. QED
        BY <2>2, <2>3, <3>1, <4>1
    <3>4. QED
      BY <3>2, <3>3
  <2>5. g = [i \in 0..n + 1 |-> Step(g, i)]
    <3> DEFINE h == [i \in 0..n + 1 |-> Step(g, i)]
    <3>1. \A i \in 0..n + 1 : g[i] = h[i]
      <4> HIDE DEF Step, g
      <4>1. QED
        BY <2>4
    <3>2. g = [i \in 0..n + 1 |-> g[i]]
      <4> HIDE DEF Step
      <4>1. QED
        OBVIOUS
    <3>3. QED
      <4> HIDE DEF Step, g
      <4>1. QED
        BY <2>4, <3>2
  <2>6. \E x : Is(x, n + 1)
    <3> HIDE DEF Step, g
    <3>1. QED
      BY <2>5
  <2>7. QED
    <3> HIDE DEF Is
    <3>1. QED
      BY <2>6
<1>3. Nat \subseteq S
  <2> HIDE DEF S
  <2> QED
    BY <1>1, <1>2, NatSet
<1>4. \E f : Is(f, Len(q))
  <2> HIDE DEF Is
  <2>1. QED
    BY <1>3
<1>5. QED
  BY <1>4 DEF NumbersUpTo

\* What each item adds to the numbers.
LEMMA NumbersAt ==
  ASSUME NEW q \in Seq(Item)
  PROVE  /\ NumbersUpTo(q)[0] = <<>>
         /\ \A i \in 0..Len(q) - 1 :
              NumbersUpTo(q)[i + 1] = IF IsText(q[i + 1])
                                      THEN Append(NumbersUpTo(q)[i], q[i + 1].n)
                                      ELSE NumbersUpTo(q)[i]
<1> DEFINE Step(f, i) == IF i = 0 THEN <<>>
                         ELSE IF IsText(q[i]) THEN Append(f[i - 1], q[i].n) ELSE f[i - 1]
           u == NumbersUpTo(q)
<1>1. u = [i \in 0..Len(q) |-> Step(u, i)]
  BY NumbersExist
<1> HIDE DEF u
<1>2. Len(q) \in Nat
  OBVIOUS
<1>3. u[0] = Step(u, 0)
  BY <1>1, <1>2
<1>4. ASSUME NEW i \in 0..Len(q) - 1
      PROVE  u[i + 1] = IF IsText(q[i + 1]) THEN Append(u[i], q[i + 1].n) ELSE u[i]
  <2>1. i + 1 \in 0..Len(q) /\ (i + 1) - 1 = i /\ i + 1 # 0
    BY <1>2
  <2>2. u[i + 1] = Step(u, i + 1)
    <3> HIDE DEF Step
    <3>1. QED
      BY <1>1, <2>1
  <2>3. QED
    BY <2>1, <2>2
<1>5. QED
  BY <1>3, <1>4 DEF u

\* An empty list has no words.
LEMMA NumbersOfNothing == Numbers(<<>>) = <<>>
BY NumbersAt, EmptySeq DEF Numbers

\* To append to a concatenation is to append to its second part.
LEMMA AppendOfConcat ==
  ASSUME NEW s \in Seq(Nat), NEW t \in Seq(Nat), NEW n \in Nat
  PROVE  Append(s \o t, n) = s \o Append(t, n)
<1>1. Append(s \o t, n) = (s \o t) \o <<n>> /\ Append(t, n) = t \o <<n>>
  BY AppendIsConcat, ConcatProperties
<1>2. <<n>> \in Seq(Nat)
  OBVIOUS
<1>3. QED
  BY <1>1, <1>2, ConcatAssociative

\* Numbers are naturals.
LEMMA NumbersType ==
  ASSUME NEW q \in Seq(Item)
  PROVE  /\ Numbers(q) \in Seq(Nat)
         /\ \A i \in 0..Len(q) : NumbersUpTo(q)[i] \in Seq(Nat)
<1> DEFINE S == {n \in Nat : n <= Len(q) => NumbersUpTo(q)[n] \in Seq(Nat)}
<1>1. 0 \in S
  BY NumbersAt, EmptySeq
<1>2. ASSUME NEW n \in Nat, n \in S PROVE n + 1 \in S
  <2> SUFFICES ASSUME n + 1 <= Len(q) PROVE NumbersUpTo(q)[n + 1] \in Seq(Nat)
    OBVIOUS
  <2>1. n \in 0..Len(q) - 1 /\ n + 1 \in 1..Len(q)
    OBVIOUS
  <2>2. NumbersUpTo(q)[n] \in Seq(Nat)
    BY <1>2
  <2>3. q[n + 1].n \in Nat
    <3>1. q[n + 1] \in Item
      BY <2>1
    <3>2. QED
      BY <3>1 DEF Item
  <2>4. Append(NumbersUpTo(q)[n], q[n + 1].n) \in Seq(Nat)
    BY <2>2, <2>3, AppendProperties
  <2>5. NumbersUpTo(q)[n + 1] = IF IsText(q[n + 1]) THEN Append(NumbersUpTo(q)[n], q[n + 1].n)
                                ELSE NumbersUpTo(q)[n]
    BY <2>1, NumbersAt
  <2>6. QED
    BY <2>2, <2>4, <2>5
<1>3. Nat \subseteq S
  <2> HIDE DEF S
  <2> QED
    BY <1>1, <1>2, NatSet
<1>4. QED
  BY <1>3 DEF Numbers

\* What two lists begin with alike gives the same numbers.
LEMMA NumbersLocal ==
  ASSUME NEW q \in Seq(Item), NEW r \in Seq(Item), NEW k \in 0..Len(q), k <= Len(r),
         \A i \in 1..k : q[i] = r[i]
  PROVE  NumbersUpTo(q)[k] = NumbersUpTo(r)[k]
<1> DEFINE S == {n \in Nat : n <= k => NumbersUpTo(q)[n] = NumbersUpTo(r)[n]}
<1>1. 0 \in S
  BY NumbersAt
<1>2. ASSUME NEW n \in Nat, n \in S PROVE n + 1 \in S
  <2> SUFFICES ASSUME n + 1 <= k PROVE NumbersUpTo(q)[n + 1] = NumbersUpTo(r)[n + 1]
    OBVIOUS
  <2>1. n \in 0..Len(q) - 1 /\ n \in 0..Len(r) - 1 /\ n + 1 \in 1..k
    OBVIOUS
  <2>2. NumbersUpTo(q)[n] = NumbersUpTo(r)[n] /\ q[n + 1] = r[n + 1]
    BY <1>2, <2>1
  <2>3. QED
    BY <2>1, <2>2, NumbersAt
<1>3. Nat \subseteq S
  <2> HIDE DEF S
  <2> QED
    BY <1>1, <1>2, NatSet
<1>4. QED
  BY <1>3

\* The numbers of a concatenation are those of its parts, in order.
LEMMA NumbersConcat ==
  ASSUME NEW q \in Seq(Item), NEW r \in Seq(Item)
  PROVE  Numbers(q \o r) = Numbers(q) \o Numbers(r)
<1> DEFINE u == NumbersUpTo(q \o r)
           S == {n \in Nat : n <= Len(r) => u[Len(q) + n] = Numbers(q) \o NumbersUpTo(r)[n]}
<1>1. /\ q \o r \in Seq(Item) /\ Len(q \o r) = Len(q) + Len(r)
      /\ \A i \in 1..Len(q) : (q \o r)[i] = q[i]
      /\ \A i \in 1..Len(r) : (q \o r)[Len(q) + i] = r[i]
  BY ConcatProperties
<1>2. 0 \in S
  <2>1. u[Len(q)] = Numbers(q)
    <3>1. Len(q) \in 0..Len(q) /\ Len(q) <= Len(q \o r) /\ \A i \in 1..Len(q) : q[i] = (q \o r)[i]
      BY <1>1
    <3>2. NumbersUpTo(q)[Len(q)] = NumbersUpTo(q \o r)[Len(q)]
      BY <1>1, <3>1, NumbersLocal
    <3>3. QED
      BY <3>2 DEF Numbers
  <2>2. Numbers(q) \o <<>> = Numbers(q)
    BY NumbersType, ConcatEmptySeq
  <2>3. u[Len(q) + 0] = Numbers(q) \o NumbersUpTo(r)[0]
    <3>1. NumbersUpTo(r)[0] = <<>> /\ Len(q) + 0 = Len(q)
      BY NumbersAt
    <3>2. QED
      BY <2>1, <2>2, <3>1
  <2>4. QED
    BY <2>3
<1>3. ASSUME NEW n \in Nat, n \in S PROVE n + 1 \in S
  <2> SUFFICES ASSUME n + 1 <= Len(r)
               PROVE  u[Len(q) + (n + 1)] = Numbers(q) \o NumbersUpTo(r)[n + 1]
    OBVIOUS
  <2>1. /\ n \in 0..Len(r) - 1 /\ n + 1 \in 1..Len(r) /\ n \in 0..Len(r)
        /\ Len(q) + n \in 0..Len(q \o r) - 1 /\ (Len(q) + n) + 1 = Len(q) + (n + 1)
    BY <1>1
  <2>2. u[Len(q) + n] = Numbers(q) \o NumbersUpTo(r)[n]
    BY <1>3, <2>1
  <2>3. (q \o r)[Len(q) + (n + 1)] = r[n + 1]
    BY <1>1, <2>1
  <2>4. u[Len(q) + (n + 1)] = IF IsText(r[n + 1]) THEN Append(u[Len(q) + n], r[n + 1].n)
                             ELSE u[Len(q) + n]
    <3>1. u[(Len(q) + n) + 1] = IF IsText((q \o r)[(Len(q) + n) + 1])
                                THEN Append(u[Len(q) + n], (q \o r)[(Len(q) + n) + 1].n)
                                ELSE u[Len(q) + n]
      BY <1>1, <2>1, NumbersAt
    <3>2. QED
      BY <2>1, <2>3, <3>1
  <2>5. NumbersUpTo(r)[n + 1] = IF IsText(r[n + 1]) THEN Append(NumbersUpTo(r)[n], r[n + 1].n)
                                ELSE NumbersUpTo(r)[n]
    BY <2>1, NumbersAt
  <2>6. Numbers(q) \in Seq(Nat) /\ NumbersUpTo(r)[n] \in Seq(Nat)
    BY <2>1, NumbersType
  <2>7. r[n + 1].n \in Nat
    <3>1. r[n + 1] \in Item
      BY <2>1
    <3>2. QED
      BY <3>1 DEF Item
  <2>8. Append(Numbers(q) \o NumbersUpTo(r)[n], r[n + 1].n)
          = Numbers(q) \o Append(NumbersUpTo(r)[n], r[n + 1].n)
    BY <2>6, <2>7, AppendOfConcat
  <2>9. QED
    BY <2>2, <2>4, <2>5, <2>8
<1>4. Nat \subseteq S
  <2> HIDE DEF S
  <2> QED
    BY <1>2, <1>3, NatSet
<1>5. Len(r) \in S
  BY <1>4
<1>6. u[Len(q) + Len(r)] = Numbers(q) \o NumbersUpTo(r)[Len(r)]
  BY <1>5
<1>7. QED
  BY <1>1, <1>6 DEF Numbers

\* Text alone has all its numbers.
LEMMA NumbersOfText ==
  ASSUME NEW q \in Seq(Item), \A i \in 1..Len(q) : IsText(q[i])
  PROVE  Numbers(q) = [i \in 1..Len(q) |-> q[i].n]
<1> DEFINE S == {n \in Nat : n <= Len(q) => NumbersUpTo(q)[n] = [i \in 1..n |-> q[i].n]}
<1>1. 0 \in S
  <2>1. [i \in 1..0 |-> q[i].n] = <<>>
    OBVIOUS
  <2>2. QED
    BY <2>1, NumbersAt
<1>2. ASSUME NEW n \in Nat, n \in S PROVE n + 1 \in S
  <2> SUFFICES ASSUME n + 1 <= Len(q)
               PROVE  NumbersUpTo(q)[n + 1] = [i \in 1..n + 1 |-> q[i].n]
    OBVIOUS
  <2>1. n \in 0..Len(q) - 1 /\ n + 1 \in 1..Len(q)
    OBVIOUS
  <2>2. NumbersUpTo(q)[n] = [i \in 1..n |-> q[i].n]
    BY <1>2
  <2>3. NumbersUpTo(q)[n + 1] = Append(NumbersUpTo(q)[n], q[n + 1].n)
    BY <2>1, NumbersAt
  <2>4. Append([i \in 1..n |-> q[i].n], q[n + 1].n) = [i \in 1..n + 1 |-> q[i].n]
    OBVIOUS
  <2>5. QED
    BY <2>2, <2>3, <2>4
<1>3. Nat \subseteq S
  <2> HIDE DEF S
  <2> QED
    BY <1>1, <1>2, NatSet
<1>4. QED
  BY <1>3 DEF Numbers

\* A marker has none.
LEMMA NumbersOfMarker ==
  ASSUME NEW x \in Item, ~IsText(x)
  PROVE  Numbers(<<x>>) = <<>>
<1>1. <<x>> \in Seq(Item) /\ Len(<<x>>) = 1 /\ <<x>>[1] = x
  OBVIOUS
<1> DEFINE q == <<x>>
<1>2. 0 \in 0..Len(q) - 1 /\ q[0 + 1] = x /\ Len(q) = 0 + 1
  BY <1>1
<1> HIDE DEF q
<1>3. NumbersUpTo(q)[0 + 1] = NumbersUpTo(q)[0] /\ NumbersUpTo(q)[0] = <<>>
  <2>1. q \in Seq(Item)
    BY <1>1 DEF q
  <2>2. QED
    BY <1>2, <2>1, NumbersAt
<1>4. Numbers(q) = <<>>
  BY <1>2, <1>3 DEF Numbers
<1>5. QED
  BY <1>4 DEF q
----------------------------------------------------------------------------
(* Cutting lists *)

\* A set of naturals that is not empty has a least element.
LEMMA Least ==
  ASSUME NEW T \in SUBSET Nat, T # {}
  PROVE  \E x \in T : \A y \in T : x <= y
<1> DEFINE Less == {ss \in Nat \X Nat : ss[1] < ss[2]}
<1>1. IsWellFoundedOn(Less, Nat)
  BY NatLessThanWellFounded DEF OpToRel
<1>2. PICK x \in T : \A y \in T : <<y, x>> \notin Less
  <2> HIDE DEF Less
  <2> QED
    BY <1>1, WFMin
<1>3. ASSUME NEW y \in T PROVE x <= y
  <2>1. <<y, x>> \notin Less /\ x \in Nat /\ y \in Nat
    BY <1>2
  <2>2. QED
    BY <2>1
<1>4. QED
  BY <1>3

\* A set of naturals with a bound has a greatest element.
LEMMA Greatest ==
  ASSUME NEW n \in Nat, NEW T \in SUBSET (1..n), T # {}
  PROVE  \E x \in T : \A y \in T : y <= x
<1> DEFINE U == {n - x : x \in T}
<1>1. U \in SUBSET Nat /\ U # {}
  <2>1. \A x \in T : n - x \in Nat
    OBVIOUS
  <2>2. QED
    BY <2>1
<1>2. PICK u \in U : \A v \in U : u <= v
  <2> HIDE DEF U
  <2> QED
    BY <1>1, Least
<1>3. PICK x \in T : u = n - x
  OBVIOUS
<1>4. ASSUME NEW y \in T PROVE y <= x
  <2>1. n - y \in U
    OBVIOUS
  <2>2. n - x <= n - y
    BY <1>2, <1>3, <2>1
  <2>3. QED
    BY <2>2
<1>5. QED
  BY <1>4

\* What SubSeq cuts out of a list.
LEMMA SliceFacts ==
  ASSUME NEW q \in Seq(Item), NEW m \in 1..Len(q) + 1, NEW n \in 0..Len(q), m <= n + 1
  PROVE  /\ SubSeq(q, m, n) \in Seq(Item)
         /\ Len(SubSeq(q, m, n)) = (n - m) + 1
         /\ \A i \in 1..(n - m) + 1 : SubSeq(q, m, n)[i] = q[m + i - 1] /\ m + i - 1 \in m..n
<1>1. \A i \in m..n : q[i] \in Item
  OBVIOUS
<1>2. m \in Int /\ n \in Int
  OBVIOUS
<1>3. /\ SubSeq(q, m, n) \in Seq(Item)
      /\ Len(SubSeq(q, m, n)) = IF m <= n THEN n - m + 1 ELSE 0
      /\ \A i \in 1..n - m + 1 : SubSeq(q, m, n)[i] = q[m + i - 1]
  BY <1>1, <1>2, SubSeqProperties
<1>4. QED
  BY <1>2, <1>3

\* A list is cut into what is taken and what is left.
LEMMA NumbersOfCut ==
  ASSUME NEW q \in Seq(Item), NEW k \in 0..Len(q)
  PROVE  Numbers(q) = Numbers(SubSeq(q, 1, k)) \o Numbers(SubSeq(q, k + 1, Len(q)))
<1> DEFINE taken == SubSeq(q, 1, k)
           left == SubSeq(q, k + 1, Len(q))
<1>1. taken \o left = SubSeq(q, 1, Len(q))
  <2>1. 1 \in 1..Len(q) + 1 /\ k \in 1 - 1..Len(q) /\ Len(q) \in k..Len(q)
    OBVIOUS
  <2>2. QED
    BY <2>1, ConcatAdjacentSubSeq
<1>2. SubSeq(q, 1, Len(q)) = q
  BY SubSeqFull
<1>3. taken \in Seq(Item) /\ left \in Seq(Item)
  BY SliceFacts
<1> HIDE DEF taken, left
<1>4. Numbers(taken \o left) = Numbers(taken) \o Numbers(left)
  BY <1>3, NumbersConcat
<1>5. Numbers(q) = Numbers(taken) \o Numbers(left)
  BY <1>1, <1>2, <1>4
<1>6. QED
  BY <1>5 DEF taken, left

\* What a concatenation of lists consists of.
LEMMA ConcatFacts ==
  ASSUME NEW q \in Seq(Item), NEW r \in Seq(Item)
  PROVE  /\ q \o r \in Seq(Item) /\ Len(q \o r) = Len(q) + Len(r)
         /\ \A i \in 1..Len(q) : (q \o r)[i] = q[i]
         /\ \A i \in 1..Len(r) : (q \o r)[Len(q) + i] = r[i]
BY ConcatProperties

\* A concatenation can be taken apart again.
LEMMA CutOfConcat ==
  ASSUME NEW s \in Seq(Nat), NEW t \in Seq(Nat)
  PROVE  /\ SubSeq(s \o t, 1, Len(s)) = s
         /\ SubSeq(s \o t, Len(s) + 1, Len(s \o t)) = t
<1>1. Len(s \o t) = Len(s) + Len(t) /\ s \o t \in Seq(Nat)
  OBVIOUS
<1>2. QED
  BY <1>1
----------------------------------------------------------------------------
(* The buffer *)

\* The states of a buffer.
Buffers == [queue : Seq(Item), size : Nat, timer : {"off", "set", "fresh"},
            runs : Seq(Run), out : Seq(Item), adrift : BOOLEAN]

\* No flush of p was asked for after a word of q.
Precedes(p, q) ==
  \A i \in 1..Len(p), j \in 1..Len(q) : (~IsText(p[i]) /\ IsText(q[j])) => p[i].n < q[j].n

\* Within q, no flush comes before a word it was asked for after.
InOrder(q) ==
  \A i, j \in 1..Len(q) : (i < j /\ ~IsText(q[i]) /\ IsText(q[j])) => q[i].n < q[j].n

\* There is text between two flush markers.
Apart(q) == \A i \in 1..Len(q) - 1 : IsText(q[i]) \/ IsText(q[i + 1])

\* A run that sends text before a flush has taken all text before that flush.
MarksPrecede(rs, q) ==
  \A k \in 1..Len(rs), j \in 1..Len(q) :
    (rs[k].at = "text" /\ IsText(q[j])) => rs[k].mark < q[j].n

\* Nothing is numbered beyond what was heard.
Within(b, h) ==
  /\ \A i \in 1..Len(b.queue) : b.queue[i].n <= h
  /\ \A i \in 1..Len(b.out) : b.out[i].n <= h
  /\ \A i \in 1..Len(b.runs) : b.runs[i].mark <= h

\* A buffer after h words were heard.
BufferInv(b, h) ==
  /\ b \in Buffers /\ b.size = Len(Numbers(b.queue))
  /\ InOrder(b.queue) /\ InOrder(b.out) /\ Apart(b.queue)
  /\ Precedes(b.out, b.queue) /\ MarksPrecede(b.runs, b.queue)
  /\ Within(b, h)

\* Between b and c a beginning of the text that waits is spoken.
Speaks(b, c) ==
  \E n \in 0..Len(Numbers(b.queue)) :
    /\ Numbers(c.out) = Numbers(b.out) \o SubSeq(Numbers(b.queue), 1, n)
    /\ Numbers(c.queue) = SubSeq(Numbers(b.queue), n + 1, Len(Numbers(b.queue)))

\* A step that leaves queue and output alone speaks nothing.
LEMMA SpeaksNothing ==
  ASSUME NEW b \in Buffers, NEW c, c.queue = b.queue, c.out = b.out
  PROVE  Speaks(b, c)
<1> DEFINE w == Numbers(b.queue)
           o == Numbers(b.out)
<1>1. w \in Seq(Nat) /\ o \in Seq(Nat)
  BY NumbersType DEF Buffers
<1> SUFFICES \E n \in 0..Len(w) : o = o \o SubSeq(w, 1, n) /\ w = SubSeq(w, n + 1, Len(w))
  BY DEF Speaks
<1> HIDE DEF w, o
<1>2. SubSeq(w, 1, 0) = <<>> /\ o \o <<>> = o /\ SubSeq(w, 1, Len(w)) = w
  BY <1>1, SubSeqEmpty, ConcatEmptySeq, SubSeqFull
<1>3. 0 \in 0..Len(w) /\ 0 + 1 = 1
  BY <1>1
<1>4. QED
  BY <1>2, <1>3

\* The first k items are taken; of them those from m to n are sent, and with the items
\* that are not sent no words are lost.
LEMMA TakeSpeaks ==
  ASSUME NEW b \in Buffers, NEW c, NEW k \in 0..Len(b.queue), NEW sent \in Seq(Item),
         Numbers(sent) = Numbers(SubSeq(b.queue, 1, k)),
         c.queue = SubSeq(b.queue, k + 1, Len(b.queue)), c.out = b.out \o sent
  PROVE  /\ Speaks(b, c)
         /\ Len(Numbers(b.queue)) = Len(Numbers(sent)) + Len(Numbers(c.queue))
<1> DEFINE w == Numbers(b.queue)
           x == Numbers(sent)
           y == Numbers(c.queue)
<1>1. b.queue \in Seq(Item) /\ b.out \in Seq(Item)
  BY DEF Buffers
<1>2. c.queue \in Seq(Item)
  BY <1>1, SliceFacts
<1>3. w = x \o y
  BY <1>1, NumbersOfCut
<1>4. Numbers(c.out) = Numbers(b.out) \o x
  BY <1>1, NumbersConcat
<1>5. x \in Seq(Nat) /\ y \in Seq(Nat)
  BY <1>2, NumbersType
<1> HIDE DEF w, x, y
<1>6. SubSeq(w, 1, Len(x)) = x /\ SubSeq(w, Len(x) + 1, Len(w)) = y
  BY <1>3, <1>5, CutOfConcat
<1>7. Len(w) = Len(x) + Len(y)
  BY <1>3, <1>5
<1>8. Len(x) \in 0..Len(w)
  BY <1>5, <1>7
<1>9. QED
  BY <1>4, <1>6, <1>7, <1>8 DEF Speaks, w, x, y

\* The same: the order of words and flushes is kept.
LEMMA TakeKeeps ==
  ASSUME NEW h \in Nat, NEW b, BufferInv(b, h), NEW k \in 1..Len(b.queue),
         NEW m \in 1..k, NEW n \in 0..k, m <= n + 1,
         n = m \/ \A i \in m..n : IsText(b.queue[i]),
         Numbers(SubSeq(b.queue, m, n)) = Numbers(SubSeq(b.queue, 1, k)),
         NEW run \in Run, run.mark <= h,
         run.at = "text" => (~IsText(b.queue[k]) /\ run.mark = b.queue[k].n),
         NEW c, c = [b EXCEPT !.queue = SubSeq(b.queue, k + 1, Len(b.queue)),
                              !.out = b.out \o SubSeq(b.queue, m, n),
                              !.size = b.size - Len(Numbers(SubSeq(b.queue, m, n))),
                              !.runs = Append(b.runs, run)]
  PROVE  BufferInv(c, h) /\ Speaks(b, c)
<1> DEFINE q == b.queue
           o == b.out
           sent == SubSeq(q, m, n)
           left == SubSeq(q, k + 1, Len(q))
<1>1. /\ b \in Buffers /\ q \in Seq(Item) /\ o \in Seq(Item) /\ b.runs \in Seq(Run)
      /\ b.size = Len(Numbers(q)) /\ k \in Nat /\ m \in Nat /\ n \in Nat
  BY DEF BufferInv, Buffers
<1>2. /\ c.queue = left /\ c.out = o \o sent /\ c.runs = Append(b.runs, run)
      /\ c.size = b.size - Len(Numbers(sent)) /\ c.timer = b.timer /\ c.adrift = b.adrift
  BY <1>1 DEF Buffers
<1>3. /\ sent \in Seq(Item) /\ Len(sent) = (n - m) + 1
      /\ \A i \in 1..Len(sent) : sent[i] = q[m + i - 1] /\ m + i - 1 \in m..n
  <2>1. q \in Seq(Item) /\ m \in 1..Len(q) + 1 /\ n \in 0..Len(q) /\ m <= n + 1
    BY <1>1
  <2> HIDE DEF q
  <2>2. /\ SubSeq(q, m, n) \in Seq(Item) /\ Len(SubSeq(q, m, n)) = (n - m) + 1
        /\ \A i \in 1..(n - m) + 1 :
             SubSeq(q, m, n)[i] = q[m + i - 1] /\ m + i - 1 \in m..n
    BY <2>1, SliceFacts
  <2>3. QED
    BY <2>2
<1>4. /\ left \in Seq(Item) /\ Len(left) = Len(q) - k
      /\ \A j \in 1..Len(left) : left[j] = q[k + j] /\ k + j \in 1..Len(q)
  <2>1. /\ left \in Seq(Item) /\ Len(left) = (Len(q) - (k + 1)) + 1
        /\ \A i \in 1..(Len(q) - (k + 1)) + 1 : left[i] = q[(k + 1) + i - 1]
    <3>1. /\ q \in Seq(Item) /\ k + 1 \in 1..Len(q) + 1 /\ Len(q) \in 0..Len(q)
          /\ k + 1 <= Len(q) + 1
      BY <1>1
    <3> HIDE DEF q
    <3>2. QED
      BY <3>1, SliceFacts
  <2>2. Len(q) \in Nat /\ k \in 1..Len(q)
    BY <1>1
  <2> HIDE DEF q, left
  <2>3. Len(left) = Len(q) - k /\ (Len(q) - (k + 1)) + 1 = Len(q) - k
    BY <2>1, <2>2
  <2>4. ASSUME NEW j \in 1..Len(left) PROVE left[j] = q[k + j] /\ k + j \in 1..Len(q)
    <3>1. (k + 1) + j - 1 = k + j /\ k + j \in 1..Len(q) /\ j \in 1..(Len(q) - (k + 1)) + 1
      BY <2>2, <2>3
    <3>2. QED
      BY <2>1, <3>1
  <2>5. QED
    BY <2>1, <2>3, <2>4
<1>5. Speaks(b, c) /\ Len(Numbers(q)) = Len(Numbers(sent)) + Len(Numbers(left))
  <2>1. k \in 0..Len(b.queue)
    OBVIOUS
  <2>2. Numbers(sent) = Numbers(SubSeq(b.queue, 1, k))
    OBVIOUS
  <2>3. c.queue = SubSeq(b.queue, k + 1, Len(b.queue)) /\ c.out = b.out \o sent
    BY <1>2
  <2>4. sent \in Seq(Item) /\ b \in Buffers
    BY <1>1, <1>3
  <2> HIDE DEF sent
  <2>5. Speaks(b, c) /\ Len(Numbers(b.queue)) = Len(Numbers(sent)) + Len(Numbers(c.queue))
    BY <2>1, <2>2, <2>3, <2>4, TakeSpeaks
  <2>6. QED
    BY <1>2, <2>5
<1>6. Len(Numbers(sent)) \in Nat /\ Len(Numbers(left)) \in Nat
  BY <1>3, <1>4, NumbersType
<1>7. c.size = Len(Numbers(c.queue)) /\ c.size \in Nat
  BY <1>1, <1>2, <1>5, <1>6
<1>8. /\ o \o sent \in Seq(Item) /\ Len(o \o sent) = Len(o) + Len(sent)
      /\ \A i \in 1..Len(o) : (o \o sent)[i] = o[i]
      /\ \A i \in 1..Len(sent) : (o \o sent)[Len(o) + i] = sent[i]
  <2> HIDE DEF o, sent
  <2> QED
    BY <1>1, <1>3, ConcatFacts
<1>9. /\ Append(b.runs, run) \in Seq(Run) /\ Len(Append(b.runs, run)) = Len(b.runs) + 1
      /\ \A i \in 1..Len(b.runs) : Append(b.runs, run)[i] = b.runs[i]
      /\ Append(b.runs, run)[Len(b.runs) + 1] = run
  BY <1>1, AppendProperties
<1>10. c \in Buffers
  BY <1>1, <1>2, <1>4, <1>7, <1>8, <1>9 DEF Buffers
<1>11. /\ \A i, j \in 1..Len(q) : (i < j /\ ~IsText(q[i]) /\ IsText(q[j])) => q[i].n < q[j].n
       /\ \A i, j \in 1..Len(o) : (i < j /\ ~IsText(o[i]) /\ IsText(o[j])) => o[i].n < o[j].n
       /\ \A i \in 1..Len(o), j \in 1..Len(q) : (~IsText(o[i]) /\ IsText(q[j])) => o[i].n < q[j].n
       /\ \A i \in 1..Len(b.runs), j \in 1..Len(q) :
            (b.runs[i].at = "text" /\ IsText(q[j])) => b.runs[i].mark < q[j].n
  BY DEF BufferInv, InOrder, Precedes, MarksPrecede
<1>12. /\ \A i \in 1..Len(q) : q[i].n <= h
       /\ \A i \in 1..Len(o) : o[i].n <= h
       /\ \A i \in 1..Len(b.runs) : b.runs[i].mark <= h
  BY DEF BufferInv, Within
<1>13. n = m \/ \A i \in m..n : IsText(q[i])
  OBVIOUS
<1>14. run.at = "text" => (~IsText(q[k]) /\ run.mark = q[k].n)
  OBVIOUS
<1> HIDE DEF q, o, sent, left
<1>15. InOrder(c.queue)
  <2> SUFFICES ASSUME NEW i \in 1..Len(left), NEW j \in 1..Len(left), i < j,
                      ~IsText(left[i]), IsText(left[j])
               PROVE  left[i].n < left[j].n
    BY <1>2 DEF InOrder
  <2>1. k + i \in 1..Len(q) /\ k + j \in 1..Len(q) /\ k + i < k + j
    BY <1>1, <1>4
  <2>2. QED
    BY <1>4, <1>11, <2>1
<1>16. \A i \in 1..Len(sent) : sent[i] = q[m + i - 1] /\ m + i - 1 \in 1..Len(q) /\ m + i - 1 <= k
  <2>1. Len(q) \in Nat /\ k \in Nat /\ k <= Len(q) /\ m \in Nat /\ m >= 1 /\ n \in Nat /\ n <= k
    BY <1>1 DEF q
  <2>2. \A x \in m..n : x \in 1..Len(q) /\ x <= k
    BY <2>1
  <2>3. QED
    BY <1>3, <2>2
<1>17. \A i \in 1..Len(o \o sent) : i \notin 1..Len(o) =>
         /\ i - Len(o) \in 1..Len(sent) /\ (o \o sent)[i] = sent[i - Len(o)]
  <2> SUFFICES ASSUME NEW i \in 1..Len(o \o sent), i \notin 1..Len(o)
               PROVE  i - Len(o) \in 1..Len(sent) /\ (o \o sent)[i] = sent[i - Len(o)]
    OBVIOUS
  <2>0. Len(o) \in Nat /\ Len(sent) \in Nat /\ Len(o \o sent) = Len(o) + Len(sent)
    BY <1>1, <1>3, <1>8
  <2>1. i - Len(o) \in 1..Len(sent) /\ Len(o) + (i - Len(o)) = i
    BY <2>0
  <2>2. (o \o sent)[Len(o) + (i - Len(o))] = sent[i - Len(o)]
    BY <1>8, <2>1
  <2>3. QED
    BY <2>1, <2>2
<1>18. InOrder(c.out)
  <2> SUFFICES ASSUME NEW i \in 1..Len(o \o sent), NEW j \in 1..Len(o \o sent), i < j,
                      ~IsText((o \o sent)[i]), IsText((o \o sent)[j])
               PROVE  (o \o sent)[i].n < (o \o sent)[j].n
    BY <1>2 DEF InOrder
  <2>1. CASE j \in 1..Len(o)
    <3>1. i \in 1..Len(o)
      BY <1>1, <2>1
    <3>2. QED
      BY <1>8, <1>11, <2>1, <3>1
  <2>2. CASE j \notin 1..Len(o)
    <3>1. /\ j - Len(o) \in 1..Len(sent)
          /\ (o \o sent)[j] = q[m + (j - Len(o)) - 1] /\ m + (j - Len(o)) - 1 \in 1..Len(q)
      BY <1>16, <1>17, <2>2
    <3>2. CASE i \in 1..Len(o)
      BY <1>8, <1>11, <3>1, <3>2
    <3>3. CASE i \notin 1..Len(o)
      <4>1. i - Len(o) \in 1..Len(sent) /\ (o \o sent)[i] = sent[i - Len(o)]
        BY <1>17, <3>3
      <4>2. i - Len(o) < j - Len(o)
        BY <1>1, <3>1, <4>1
      <4>3. Len(sent) # 1
        BY <1>3, <3>1, <4>1, <4>2
      <4>4. \A x \in 1..Len(sent) : IsText(sent[x])
        <5>1. n # m
          BY <1>1, <1>3, <4>3
        <5>2. QED
          BY <1>3, <1>13, <5>1
      <4>5. QED
        BY <4>1, <4>4
    <3>4. QED
      BY <3>2, <3>3
  <2>3. QED
    BY <2>1, <2>2
<1>19. Precedes(c.out, c.queue)
  <2> SUFFICES ASSUME NEW i \in 1..Len(o \o sent), NEW j \in 1..Len(left),
                      ~IsText((o \o sent)[i]), IsText(left[j])
               PROVE  (o \o sent)[i].n < left[j].n
    BY <1>2 DEF Precedes
  <2>1. left[j] = q[k + j] /\ k + j \in 1..Len(q)
    BY <1>4
  <2>2. CASE i \in 1..Len(o)
    BY <1>8, <1>11, <2>1, <2>2
  <2>3. CASE i \notin 1..Len(o)
    <3>1. /\ (o \o sent)[i] = q[m + (i - Len(o)) - 1] /\ m + (i - Len(o)) - 1 \in 1..Len(q)
          /\ m + (i - Len(o)) - 1 <= k
      BY <1>16, <1>17, <2>3
    <3>2. m + (i - Len(o)) - 1 < k + j
      BY <1>1, <3>1
    <3>3. QED
      BY <1>11, <2>1, <3>1, <3>2
  <2>4. QED
    BY <2>2, <2>3
<1>20. /\ \A i \in 1..Len(c.runs) : c.runs[i] = run \/ \E x \in 1..Len(b.runs) : c.runs[i] = b.runs[x]
       /\ k \in 1..Len(q) /\ k \in Nat
  <2>1. /\ Len(b.runs) \in Nat /\ Len(c.runs) = Len(b.runs) + 1 /\ c.runs[Len(b.runs) + 1] = run
        /\ \A x \in 1..Len(b.runs) : c.runs[x] = b.runs[x]
    <3>1. Len(b.runs) \in Nat
      BY <1>1
    <3>2. c.runs = Append(b.runs, run)
      BY <1>2
    <3>3. QED
      BY <1>9, <3>1, <3>2
  <2>2. \A i \in 1..Len(b.runs) + 1 : i \in 1..Len(b.runs) \/ i = Len(b.runs) + 1
    BY <2>1
  <2>3. \A i \in 1..Len(c.runs) : c.runs[i] = run \/ \E x \in 1..Len(b.runs) : c.runs[i] = b.runs[x]
    BY <2>1, <2>2
  <2>4. k \in 1..Len(q) /\ k \in Nat
    BY <1>1 DEF q
  <2>5. QED
    BY <2>3, <2>4
<1>21. MarksPrecede(c.runs, c.queue)
  <2> SUFFICES ASSUME NEW i \in 1..Len(c.runs), NEW j \in 1..Len(left),
                      c.runs[i].at = "text", IsText(left[j])
               PROVE  c.runs[i].mark < left[j].n
    BY <1>2 DEF MarksPrecede
  <2>1. left[j] = q[k + j] /\ k + j \in 1..Len(q)
    BY <1>4
  <2>2. CASE c.runs[i] = run
    <3>1. ~IsText(q[k]) /\ run.mark = q[k].n
      BY <1>14, <2>2
    <3>2. k < k + j
      BY <1>20
    <3>3. QED
      BY <1>11, <1>20, <2>1, <2>2, <3>1, <3>2
  <2>3. CASE \E x \in 1..Len(b.runs) : c.runs[i] = b.runs[x]
    <3>1. PICK x \in 1..Len(b.runs) : c.runs[i] = b.runs[x]
      BY <2>3
    <3>2. QED
      BY <1>11, <2>1, <3>1
  <2>4. QED
    BY <1>20, <2>2, <2>3
<1>22. Within(c, h)
  <2>1. \A i \in 1..Len(left) : left[i].n <= h
    BY <1>4, <1>12
  <2>2. ASSUME NEW i \in 1..Len(o \o sent) PROVE (o \o sent)[i].n <= h
    <3>1. CASE i \in 1..Len(o)
      BY <1>8, <1>12, <3>1
    <3>2. CASE i \notin 1..Len(o)
      <4>1. (o \o sent)[i] = sent[i - Len(o)] /\ i - Len(o) \in 1..Len(sent)
        BY <1>17, <3>2
      <4>2. QED
        BY <1>12, <1>16, <4>1
    <3>3. QED
      BY <3>1, <3>2
  <2>3. \A i \in 1..Len(c.runs) : c.runs[i].mark <= h
    BY <1>12, <1>20
  <2>4. QED
    BY <1>2, <2>1, <2>2, <2>3 DEF Within
<1>23. Apart(c.queue)
  <2>1. \A i \in 1..Len(q) - 1 : IsText(q[i]) \/ IsText(q[i + 1])
    BY DEF BufferInv, Apart, q
  <2> SUFFICES ASSUME NEW i \in 1..Len(left) - 1
               PROVE  IsText(left[i]) \/ IsText(left[i + 1])
    BY <1>2 DEF Apart
  <2>2. Len(left) \in Nat /\ Len(q) \in Nat /\ k \in Nat /\ Len(left) = Len(q) - k
    BY <1>1, <1>4
  <2>3. i \in Nat /\ i >= 1 /\ i <= Len(left) - 1
    BY <2>2
  <2>4. i \in 1..Len(left) /\ i + 1 \in 1..Len(left)
    BY <2>2, <2>3
  <2>5. k + (i + 1) = (k + i) + 1
    BY <2>2, <2>3
  <2>6. k + i \in 1..Len(q) - 1
    BY <2>2, <2>3
  <2>7. left[i] = q[k + i] /\ left[i + 1] = q[(k + i) + 1]
    BY <1>4, <2>4, <2>5
  <2>8. QED
    BY <2>1, <2>6, <2>7
<1>24. QED
  BY <1>5, <1>7, <1>10, <1>15, <1>18, <1>19, <1>21, <1>22, <1>23 DEF BufferInv
----------------------------------------------------------------------------
\* A chunk is a beginning of the queue and holds no flush (ChunkEnd).
LEMMA ChunkEndIsText ==
  ASSUME NEW q \in Seq(Item), NEW late \in BOOLEAN
  PROVE  /\ ChunkEnd(q, late) \in 0..Len(q)
         /\ \A i \in 1..ChunkEnd(q, late) : IsText(q[i])
<1>0. Len(q) \in Nat
  OBVIOUS
<1>1. CASE Stops(q) # {}
  <2>1. Stops(q) \in SUBSET (1..Len(q))
    BY DEF Stops
  <2>2. \E i \in Stops(q) : \A j \in Stops(q) : j <= i
    BY <1>0, <1>1, <2>1, Greatest
  <2>3. ChunkEnd(q, late) \in Stops(q)
    BY <1>1, <2>2 DEF ChunkEnd
  <2>4. QED
    BY <1>0, <2>3 DEF Stops
<1>2. CASE Stops(q) = {} /\ late /\ TextLength(q) > 0
  <2>1. ChunkEnd(q, late) = TextLength(q) - 1
    BY <1>2 DEF ChunkEnd
  <2>2. TextLength(q) \in 0..Len(q) /\ \A i \in 1..TextLength(q) : IsText(q[i])
    <3> DEFINE T == {i \in 1..Len(q) : ~IsText(q[i])}
    <3>1. CASE T = {}
      BY <1>0, <3>1 DEF TextLength
    <3>2. CASE T # {}
      <4>1. T \in SUBSET Nat
        OBVIOUS
      <4>2. PICK x \in T : \A y \in T : x <= y
        <5> HIDE DEF T
        <5> QED
          BY <3>2, <4>1, Least
      <4>3. x \in 1..Len(q) /\ ~IsText(q[x]) /\ \A j \in 1..(x - 1) : IsText(q[j])
        <5>1. ASSUME NEW j \in 1..(x - 1) PROVE IsText(q[j])
          <6>1. j \in 1..Len(q) /\ ~(x <= j)
            BY <1>0
          <6>2. QED
            BY <4>2, <6>1
        <5>2. QED
          BY <5>1
      <4> DEFINE z == CHOOSE i \in 1..Len(q) : ~IsText(q[i]) /\ \A j \in 1..(i - 1) : IsText(q[j])
      <4>4. z \in 1..Len(q) /\ \A j \in 1..(z - 1) : IsText(q[j])
        BY <4>3
      <4>5. TextLength(q) = z - 1
        BY <4>3 DEF TextLength
      <4> HIDE DEF z
      <4>6. QED
        BY <1>0, <4>4, <4>5
    <3>3. QED
      BY <3>1, <3>2
  <2> DEFINE t == TextLength(q)
  <2>3. t \in 0..Len(q) /\ t > 0 /\ ChunkEnd(q, late) = t - 1 /\ \A i \in 1..t : IsText(q[i])
    BY <1>2, <2>1, <2>2
  <2> HIDE DEF t
  <2>4. t - 1 \in 0..Len(q) /\ \A i \in 1..t - 1 : i \in 1..t
    BY <1>0, <2>3
  <2>5. QED
    BY <2>3, <2>4
<1>3. CASE Stops(q) = {} /\ ~(late /\ TextLength(q) > 0)
  BY <1>0, <1>3 DEF ChunkEnd
<1>4. QED
  BY <1>1, <1>2, <1>3

\* To send a chunk is such a step.
LEMMA SendChunkKeeps ==
  ASSUME NEW h \in Nat, NEW b, BufferInv(b, h), NEW n \in 1..Len(b.queue),
         \A i \in 1..n : IsText(b.queue[i])
  PROVE  BufferInv(SendChunk(b, n), h) /\ Speaks(b, SendChunk(b, n))
<1> DEFINE run == [at |-> "chunk", late |-> FALSE, mark |-> 0]
           sent == SubSeq(b.queue, 1, n)
           c == SendChunk(b, n)
<1>1. b \in Buffers /\ b.queue \in Seq(Item)
  BY DEF BufferInv, Buffers
<1>2. run \in Run /\ run.mark <= h /\ run.at # "text"
  BY DEF Run
<1>3. /\ sent \in Seq(Item) /\ Len(sent) = n
      /\ \A i \in 1..n : sent[i] = b.queue[i]
  <2>1. Len(b.queue) \in Nat /\ n \in 0..Len(b.queue) /\ 1 \in 1..Len(b.queue) + 1 /\ 1 <= n + 1
    BY <1>1
  <2>2. /\ sent \in Seq(Item) /\ Len(sent) = (n - 1) + 1
        /\ \A i \in 1..(n - 1) + 1 : sent[i] = b.queue[1 + i - 1]
    BY <1>1, <2>1, SliceFacts
  <2> HIDE DEF sent
  <2>3. QED
    BY <2>1, <2>2
<1>4. Len(Numbers(sent)) = n
  <2>1. \A i \in 1..Len(sent) : IsText(sent[i])
    BY <1>3
  <2> HIDE DEF sent
  <2>2. Numbers(sent) = [i \in 1..Len(sent) |-> sent[i].n]
    BY <1>3, <2>1, NumbersOfText
  <2>3. QED
    BY <1>3, <2>2
<1>5. c = [b EXCEPT !.queue = SubSeq(b.queue, n + 1, Len(b.queue)),
                    !.out = b.out \o sent,
                    !.size = b.size - n,
                    !.runs = Append(b.runs, run)]
  <2> HIDE DEF sent
  <2> QED
    BY <1>1 DEF SendChunk, Await, Buffers, sent
<1> HIDE DEF run, c
<1>6. n \in 0..n /\ 1 \in 1..n /\ 1 <= n + 1 /\ \A i \in 1..n : IsText(b.queue[i])
  OBVIOUS
<1>7. BufferInv(c, h) /\ Speaks(b, c)
  BY <1>2, <1>4, <1>5, <1>6, TakeKeeps
<1>8. QED
  BY <1>7 DEF c

\* The timer and the closed stream do not matter to the order.
LEMMA OtherFieldsKeep ==
  ASSUME NEW h \in Nat, NEW b, BufferInv(b, h), NEW c \in Buffers,
         c.queue = b.queue, c.out = b.out, c.size = b.size,
         c.runs = b.runs
  PROVE  BufferInv(c, h) /\ Speaks(b, c)
<1>1. b \in Buffers
  BY DEF BufferInv
<1>2. Speaks(b, c)
  BY <1>1, SpeaksNothing
<1>3. BufferInv(c, h)
  BY DEF BufferInv, Within
<1>4. QED
  BY <1>2, <1>3

\* Phase 2 of _feedQueue: nothing is sent, or a chunk.
LEMMA Phase2Keeps ==
  ASSUME NEW h \in Nat, NEW b, BufferInv(b, h), NEW late \in BOOLEAN
  PROVE  BufferInv(Phase2(b, late), h) /\ Speaks(b, Phase2(b, late))
<1> DEFINE n == ChunkEnd(b.queue, late)
<1>1. b \in Buffers /\ b.queue \in Seq(Item)
  BY DEF BufferInv, Buffers
<1>2. n \in 0..Len(b.queue) /\ \A i \in 1..n : IsText(b.queue[i])
  BY <1>1, ChunkEndIsText
<1>3. CASE b.queue = <<>>
  <2> DEFINE c == [b EXCEPT !.timer = "off"]
  <2>1. /\ c \in Buffers /\ c.queue = b.queue /\ c.out = b.out /\ c.size = b.size
        /\ c.runs = b.runs
    BY <1>1 DEF Buffers
  <2>2. Phase2(b, late) = c
    BY <1>3 DEF Phase2
  <2> HIDE DEF c
  <2>3. QED
    BY <2>1, <2>2, OtherFieldsKeep
<1>4. CASE b.queue # <<>> /\ n = 0
  <2> DEFINE c == SetTimer(b)
  <2>1. /\ c \in Buffers /\ c.queue = b.queue /\ c.out = b.out /\ c.size = b.size
        /\ c.runs = b.runs
    BY <1>1 DEF Buffers, SetTimer
  <2>2. Phase2(b, late) = c
    BY <1>4 DEF Phase2
  <2> HIDE DEF c
  <2>3. QED
    BY <2>1, <2>2, OtherFieldsKeep
<1>5. CASE b.queue # <<>> /\ n # 0
  <2>1. Phase2(b, late) = SendChunk(b, n)
    BY <1>5 DEF Phase2
  <2> HIDE DEF n
  <2>2. n \in 1..Len(b.queue)
    BY <1>2, <1>5
  <2>3. QED
    BY <1>2, <2>1, <2>2, SendChunkKeeps
<1>6. QED
  BY <1>3, <1>4, <1>5

\* One flush marker, taken out of a list.
LEMMA NumbersOfOne ==
  ASSUME NEW q \in Seq(Item), NEW i \in 1..Len(q), ~IsText(q[i])
  PROVE  SubSeq(q, i, i) = <<q[i]>> /\ Numbers(SubSeq(q, i, i)) = <<>>
<1>1. SubSeq(q, i, i) = <<q[i]>>
  <2> DEFINE s == SubSeq(q, i, i)
  <2>1. i \in 1..Len(q) + 1 /\ i \in 0..Len(q) /\ i <= i + 1 /\ (i - i) + 1 = 1
        /\ i + 1 - 1 = i
    OBVIOUS
  <2>2. /\ s \in Seq(Item) /\ Len(s) = (i - i) + 1
        /\ \A j \in 1..(i - i) + 1 : s[j] = q[i + j - 1] /\ i + j - 1 \in i..i
    BY <2>1, SliceFacts
  <2>3. s \in Seq(Item) /\ Len(s) = 1 /\ s[1] = q[i]
    <3> HIDE DEF s
    <3> QED
      BY <2>1, <2>2
  <2> HIDE DEF s
  <2>4. s = <<q[i]>>
    BY <2>3
  <2>5. QED
    BY <2>4 DEF s
<1>2. q[i] \in Item
  OBVIOUS
<1>3. QED
  BY <1>1, <1>2, NumbersOfMarker

\* A flush at the front of the queue is sent.
LEMMA FrontKeeps ==
  ASSUME NEW h \in Nat, NEW b, BufferInv(b, h), NEW late \in BOOLEAN
  PROVE  BufferInv(Front(b, late), h) /\ Speaks(b, Front(b, late))
<1>1. b \in Buffers /\ b.queue \in Seq(Item) /\ b.out \in Seq(Item)
  BY DEF BufferInv, Buffers
<1>2. CASE b.queue # <<>> /\ ~IsText(Head(b.queue))
  <2> DEFINE run == [at |-> "front", late |-> late, mark |-> 0]
             sent == SubSeq(b.queue, 1, 1)
             c == Front(b, late)
  <2>1. run \in Run /\ run.mark <= h /\ run.at # "text"
    BY DEF Run
  <2>2. 1 \in 1..Len(b.queue) /\ b.queue[1] = Head(b.queue)
    BY <1>1, <1>2
  <2>3. sent = <<Head(b.queue)>> /\ Numbers(sent) = <<>>
    BY <1>1, <1>2, <2>2, NumbersOfOne
  <2>4. Tail(b.queue) = SubSeq(b.queue, 1 + 1, Len(b.queue))
    BY <1>1, <1>2, TailIsSubSeq
  <2>5. Append(b.out, Head(b.queue)) = b.out \o sent
    <3>1. b.queue[1] \in Item
      BY <1>1, <2>2
    <3>2. QED
      BY <1>1, <2>2, <2>3, <3>1, AppendIsConcat
  <2>6. c = [b EXCEPT !.queue = SubSeq(b.queue, 1 + 1, Len(b.queue)),
                      !.out = b.out \o sent,
                      !.size = b.size - Len(Numbers(sent)),
                      !.runs = Append(b.runs, run)]
    <3>1. b.size - Len(Numbers(sent)) = b.size
      <4>1. Len(Numbers(sent)) = 0 /\ b.size \in Nat
        BY <1>1, <2>3 DEF Buffers
      <4> HIDE DEF sent
      <4>2. QED
        BY <4>1
    <3> HIDE DEF sent
    <3>2. c = Await([b EXCEPT !.queue = Tail(@), !.out = Append(@, Head(b.queue))], "front", late)
      BY <1>2 DEF Front
    <3>3. c = [b EXCEPT !.queue = Tail(b.queue), !.out = Append(b.out, Head(b.queue)),
                        !.runs = Append(b.runs, run)]
      BY <1>1, <3>2 DEF Await, Buffers
    <3>4. [b EXCEPT !.queue = Tail(b.queue), !.out = Append(b.out, Head(b.queue)),
                    !.runs = Append(b.runs, run)]
          = [b EXCEPT !.queue = Tail(b.queue), !.out = Append(b.out, Head(b.queue)),
                      !.size = b.size, !.runs = Append(b.runs, run)]
      BY <1>1 DEF Buffers
    <3>5. QED
      BY <2>4, <2>5, <3>1, <3>3, <3>4
  <2> HIDE DEF run, c
  <2>7. 1 \in 1..1 /\ 1 \in 0..1 /\ 1 <= 1 + 1 /\ 1 = 1
    OBVIOUS
  <2>8. BufferInv(c, h) /\ Speaks(b, c)
    BY <2>1, <2>2, <2>6, <2>7, TakeKeeps
  <2>9. QED
    BY <2>8 DEF c
<1>3. CASE ~(b.queue # <<>> /\ ~IsText(Head(b.queue)))
  BY <1>3, Phase2Keeps DEF Front
<1>4. QED
  BY <1>2, <1>3

\* A part of a list can be cut in two.
LEMMA NumbersOfSplit ==
  ASSUME NEW q \in Seq(Item), NEW m \in 1..Len(q) + 1, NEW n \in m - 1..Len(q),
         NEW k \in n..Len(q)
  PROVE  Numbers(SubSeq(q, m, k)) = Numbers(SubSeq(q, m, n)) \o Numbers(SubSeq(q, n + 1, k))
<1>1. SubSeq(q, m, n) \o SubSeq(q, n + 1, k) = SubSeq(q, m, k)
  BY ConcatAdjacentSubSeq
<1>2. /\ m \in 1..Len(q) + 1 /\ n \in 0..Len(q) /\ m <= n + 1
      /\ n + 1 \in 1..Len(q) + 1 /\ k \in 0..Len(q) /\ n + 1 <= k + 1
  OBVIOUS
<1>3. SubSeq(q, m, n) \in Seq(Item) /\ SubSeq(q, n + 1, k) \in Seq(Item)
  BY <1>2, SliceFacts
<1>4. QED
  BY <1>1, <1>3, NumbersConcat

\* Phase 1 of _feedQueue: the text before a flush is sent and the run remembers the flush.
LEMMA Phase1Keeps ==
  ASSUME NEW h \in Nat, NEW b, BufferInv(b, h), NEW late \in BOOLEAN
  PROVE  BufferInv(Phase1(b, late), h) /\ Speaks(b, Phase1(b, late))
<1> DEFINE q == b.queue
<1>1. b \in Buffers /\ q \in Seq(Item) /\ b.size \in Nat /\ Len(q) \in Nat
  BY DEF BufferInv, Buffers
<1>2. CASE Marks(q) = {}
  BY <1>2, FrontKeeps DEF Phase1
<1>3. CASE Marks(q) # {}
  <2> DEFINE i == CHOOSE k \in Marks(q) : \A j \in Marks(q) : k <= j
             m == IF IsText(q[1]) THEN 1 ELSE 2
             text == SubSeq(q, m, i - 1)
             run == [at |-> "text", late |-> late, mark |-> q[i].n]
             c == Phase1(b, late)
  <2>1. i \in Marks(q) /\ \A j \in Marks(q) : i <= j
    <3>1. Marks(q) \in SUBSET Nat
      BY DEF Marks
    <3>2. \E k \in Marks(q) : \A j \in Marks(q) : k <= j
      BY <1>3, <3>1, Least
    <3>3. QED
      BY <3>2
  <2>2. c = [b EXCEPT !.queue = SubSeq(q, i + 1, Len(q)), !.size = b.size - Len(text),
                      !.out = b.out \o text, !.runs = Append(b.runs, run)]
    <3>1. b = [b EXCEPT !.queue = b.queue] /\ DOMAIN b =
                {"queue", "size", "timer", "runs", "out", "adrift"}
      BY <1>1 DEF Buffers
    <3>2. QED
      BY <1>1, <1>3, <3>1 DEF Phase1, Buffers
  <2>3. i \in 2..Len(q) /\ ~IsText(q[i])
    BY <2>1 DEF Marks
  <2>4. m \in {1, 2} /\ (m = 2 => ~IsText(q[1])) /\ (m = 1 => IsText(q[1]))
    OBVIOUS
  <2>5. ASSUME NEW j \in m..i - 1 PROVE IsText(q[j])
    <3> HIDE DEF i, m
    <3>1. CASE j = 1
      BY <1>1, <2>3, <2>4, <3>1
    <3>2. CASE j # 1
      <4>1. j \in 2..Len(q) /\ ~(i <= j)
        BY <1>1, <2>3, <2>4, <3>2
      <4>2. j \notin Marks(q)
        BY <2>1, <4>1
      <4>3. QED
        BY <4>1, <4>2 DEF Marks
    <3>3. QED
      BY <3>1, <3>2
  <2>6. Numbers(SubSeq(q, m, i - 1)) = Numbers(SubSeq(q, 1, i))
    <3>1. q[i] \in Item /\ q[1] \in Item
      <4> HIDE DEF i, q
      <4> QED
        BY <1>1, <2>3
    <3> HIDE DEF i, m, q
    <3>2. Numbers(SubSeq(q, i, i)) = <<>>
      <4>1. i \in 1..Len(q)
        BY <1>1, <2>3
      <4>2. QED
        BY <1>1, <2>3, <4>1, NumbersOfOne
    <3>3. Numbers(SubSeq(q, 1, i)) = Numbers(SubSeq(q, 1, i - 1)) \o Numbers(SubSeq(q, i, i))
      <4>1. 1 \in 1..Len(q) + 1 /\ i - 1 \in 1 - 1..Len(q) /\ i \in i - 1..Len(q) /\ (i - 1) + 1 = i
        BY <1>1, <2>3
      <4>2. QED
        BY <1>1, <4>1, NumbersOfSplit
    <3>4. SubSeq(q, 1, i - 1) \in Seq(Item)
      <4>1. 1 \in 1..Len(q) + 1 /\ i - 1 \in 0..Len(q) /\ 1 <= (i - 1) + 1
        BY <1>1, <2>3
      <4>2. QED
        BY <1>1, <4>1, SliceFacts
    <3>5. Numbers(SubSeq(q, 1, i)) = Numbers(SubSeq(q, 1, i - 1))
      <4>1. Numbers(SubSeq(q, 1, i - 1)) \in Seq(Nat)
        BY <3>4, NumbersType
      <4>2. QED
        BY <3>2, <3>3, <4>1, ConcatEmptySeq
    <3>6. CASE m = 1
      BY <3>5, <3>6
    <3>7. CASE m = 2
      <4>1. /\ 1 \in 1..Len(q) + 1 /\ 1 \in 1 - 1..Len(q) /\ i - 1 \in 1..Len(q)
            /\ 1 \in 1..Len(q)
        BY <1>1, <2>3
      <4>2. Numbers(SubSeq(q, 1, i - 1)) = Numbers(SubSeq(q, 1, 1)) \o Numbers(SubSeq(q, 2, i - 1))
        <5>1. Numbers(SubSeq(q, 1, i - 1))
                = Numbers(SubSeq(q, 1, 1)) \o Numbers(SubSeq(q, 1 + 1, i - 1))
          BY <1>1, <4>1, NumbersOfSplit
        <5>2. 1 + 1 = 2
          OBVIOUS
        <5>3. QED
          BY <5>1, <5>2
      <4>3. Numbers(SubSeq(q, 1, 1)) = <<>>
        BY <1>1, <2>4, <3>7, <4>1, NumbersOfOne
      <4>4. SubSeq(q, 2, i - 1) \in Seq(Item)
        <5>1. 2 \in 1..Len(q) + 1 /\ i - 1 \in 0..Len(q) /\ 2 <= (i - 1) + 1
          BY <1>1, <2>3
        <5>2. QED
          BY <1>1, <5>1, SliceFacts
      <4>5. <<>> \o Numbers(SubSeq(q, 2, i - 1)) = Numbers(SubSeq(q, 2, i - 1))
        BY <4>4, NumbersType, ConcatEmptySeq
      <4>6. Numbers(SubSeq(q, 1, i - 1)) = Numbers(SubSeq(q, 2, i - 1))
        BY <4>2, <4>3, <4>5
      <4>7. QED
        BY <3>5, <3>7, <4>6
    <3>8. QED
      BY <2>4, <3>6, <3>7
  <2>7. Len(text) = Len(Numbers(text))
    <3>1. m \in 1..Len(q) + 1 /\ i - 1 \in 0..Len(q) /\ m <= (i - 1) + 1
      <4> HIDE DEF i, m
      <4>1. QED
        BY <1>1, <2>3, <2>4
    <3> HIDE DEF i, m, q
    <3>2. /\ text \in Seq(Item) /\ Len(text) = ((i - 1) - m) + 1
          /\ \A j \in 1..((i - 1) - m) + 1 : text[j] = q[m + j - 1] /\ m + j - 1 \in m..i - 1
      BY <1>1, <3>1, SliceFacts
    <3> HIDE DEF text
    <3>3. \A j \in 1..Len(text) : IsText(text[j])
      BY <2>5, <3>2
    <3>4. Numbers(text) = [j \in 1..Len(text) |-> text[j].n]
      BY <3>2, <3>3, NumbersOfText
    <3>5. Len(text) \in Nat
      BY <3>2
    <3>6. QED
      BY <3>4, <3>5
  <2>8. run \in Run /\ run.mark <= h /\ (run.at = "text" => (~IsText(q[i]) /\ run.mark = q[i].n))
    <3>1. q[i].n <= h
      <4>1. \A j \in 1..Len(q) : q[j].n <= h
        BY DEF BufferInv, Within
      <4> HIDE DEF i, q
      <4>2. QED
        BY <1>1, <2>3, <4>1
    <3>2. q[i] \in Item
      <4> HIDE DEF i, q
      <4> QED
        BY <1>1, <2>3
    <3>3. q[i].n \in Nat
      BY <3>2 DEF Item
    <3> HIDE DEF i, q
    <3>4. QED
      BY <2>3, <3>1, <3>3 DEF Run
  <2>9. /\ i \in 1..Len(q) /\ m \in 1..i /\ i - 1 \in 0..i /\ m <= (i - 1) + 1
    <3> HIDE DEF i, m, q
    <3> QED
      BY <1>1, <2>3, <2>4
  <2> DEFINE n == i - 1
  <2>10. /\ n \in 0..i /\ m <= n + 1 /\ \A j \in m..n : IsText(b.queue[j])
         /\ Numbers(SubSeq(b.queue, m, n)) = Numbers(SubSeq(b.queue, 1, i))
         /\ i \in 1..Len(b.queue) /\ m \in 1..i
         /\ run.at = "text" => (~IsText(b.queue[i]) /\ run.mark = b.queue[i].n)
    <3> HIDE DEF i, m, run
    <3> QED
      BY <2>5, <2>6, <2>8, <2>9
  <2>11. c = [b EXCEPT !.queue = SubSeq(b.queue, i + 1, Len(b.queue)),
                       !.out = b.out \o SubSeq(b.queue, m, n),
                       !.size = b.size - Len(Numbers(SubSeq(b.queue, m, n))),
                       !.runs = Append(b.runs, run)]
    <3> HIDE DEF c, i, m, run
    <3>1. c = [b EXCEPT !.queue = SubSeq(q, i + 1, Len(q)), !.size = b.size - Len(Numbers(text)),
                        !.out = b.out \o text, !.runs = Append(b.runs, run)]
      BY <2>2, <2>7
    <3> HIDE DEF text
    <3>2. c = [b EXCEPT !.queue = SubSeq(q, i + 1, Len(q)), !.out = b.out \o text,
                        !.size = b.size - Len(Numbers(text)), !.runs = Append(b.runs, run)]
      BY <1>1, <3>1 DEF Buffers
    <3>3. QED
      BY <3>2 DEF text
  <2> HIDE DEF c, i, m, n, run
  <2>12. BufferInv(c, h) /\ Speaks(b, c)
    <3>1. run \in Run /\ run.mark <= h
      BY <2>8
    <3>2. QED
      BY <2>10, <2>11, <3>1, TakeKeeps
  <2>13. QED
    BY <2>12 DEF c
<1>4. QED
  BY <1>2, <1>3

\* A run of _feedQueue up to its next await.
LEMMA FeedKeeps ==
  ASSUME NEW h \in Nat, NEW b, BufferInv(b, h), NEW open \in BOOLEAN, NEW late \in BOOLEAN
  PROVE  BufferInv(Feed(b, open, late), h) /\ Speaks(b, Feed(b, open, late))
<1>1. b \in Buffers
  BY DEF BufferInv
<1>2. CASE open
  <2> DEFINE c == [b EXCEPT !.adrift = FALSE]
  <2>1. /\ c \in Buffers /\ c.queue = b.queue /\ c.out = b.out /\ c.size = b.size
        /\ c.runs = b.runs
    BY <1>1 DEF Buffers
  <2>2. Feed(b, open, late) = Phase1(c, late)
    BY <1>2 DEF Feed
  <2> HIDE DEF c
  <2>3. BufferInv(c, h)
    BY <2>1, OtherFieldsKeep
  <2>4. BufferInv(Phase1(c, late), h) /\ Speaks(c, Phase1(c, late))
    BY <2>3, Phase1Keeps
  <2>5. Speaks(b, Phase1(c, late))
    BY <2>1, <2>4 DEF Speaks
  <2>6. QED
    BY <2>2, <2>4, <2>5
<1>3. CASE ~open
  <2> DEFINE c == [b EXCEPT !.adrift = @ \/ b.queue # <<>>]
  <2>1. /\ c \in Buffers /\ c.queue = b.queue /\ c.out = b.out /\ c.size = b.size
        /\ c.runs = b.runs
    BY <1>1 DEF Buffers
  <2>2. Feed(b, open, late) = c
    BY <1>3 DEF Feed
  <2> HIDE DEF c
  <2>3. QED
    BY <2>1, <2>2, OtherFieldsKeep
<1>4. QED
  BY <1>2, <1>3
----------------------------------------------------------------------------
\* A flush that is appended adds no words.
LEMMA NumbersOfAppend ==
  ASSUME NEW q \in Seq(Item), NEW x \in Item, ~IsText(x)
  PROVE  /\ Append(q, x) \in Seq(Item) /\ Len(Append(q, x)) = Len(q) + 1
         /\ \A i \in 1..Len(q) : Append(q, x)[i] = q[i]
         /\ Append(q, x)[Len(q) + 1] = x
         /\ Numbers(Append(q, x)) = Numbers(q)
<1>1. /\ Append(q, x) \in Seq(Item) /\ Len(Append(q, x)) = Len(q) + 1
      /\ \A i \in 1..Len(q) : Append(q, x)[i] = q[i]
      /\ Append(q, x)[Len(q) + 1] = x
  BY AppendProperties
<1>2. Append(q, x) = q \o <<x>>
  BY AppendIsConcat
<1>3. <<x>> \in Seq(Item)
  OBVIOUS
<1>4. Numbers(q \o <<x>>) = Numbers(q) \o Numbers(<<x>>)
  BY <1>3, NumbersConcat
<1>5. Numbers(<<x>>) = <<>> /\ Numbers(q) \o <<>> = Numbers(q)
  BY NumbersOfMarker, NumbersType, ConcatEmptySeq
<1>6. QED
  BY <1>1, <1>2, <1>4, <1>5

\* An emptied buffer, whatever runs still wait for an answer.
LEMMA EmptiedKeeps ==
  ASSUME NEW h \in Nat, NEW b, BufferInv(b, h), NEW c \in Buffers,
         c.queue = <<>>, c.size = 0, c.out = b.out, c.runs = b.runs
  PROVE  BufferInv(c, h)
<1>1. Len(c.queue) = 0 /\ Numbers(c.queue) = <<>> /\ Len(<<>>) = 0
  BY NumbersOfNothing
<1>2. \A i : i \notin 1..Len(c.queue)
  BY <1>1
<1>3. InOrder(c.queue) /\ Precedes(c.out, c.queue) /\ MarksPrecede(c.runs, c.queue)
  BY <1>2 DEF InOrder, Precedes, MarksPrecede
<1>4. Apart(c.queue)
  <2>1. 1..Len(c.queue) - 1 = {}
    BY <1>1
  <2>2. QED
    BY <2>1 DEF Apart
<1>5. Within(c, h)
  BY <1>2 DEF BufferInv, Within
<1>6. InOrder(c.out)
  BY DEF BufferInv
<1>7. c.size = Len(Numbers(c.queue))
  BY <1>1
<1>8. QED
  BY <1>3, <1>4, <1>5, <1>6, <1>7 DEF BufferInv

\* A run gets its answer; the flush it remembers comes before all text that waits.
LEMMA AnswerKeeps ==
  ASSUME NEW h \in Nat, NEW b, BufferInv(b, h), b.runs # <<>>
  PROVE  /\ BufferInv([b EXCEPT !.runs = Tail(@)], h)
         /\ Head(b.runs) \in Run /\ Head(b.runs).mark <= h
         /\ Head(b.runs).at = "text" =>
              \A j \in 1..Len(b.queue) : IsText(b.queue[j]) => Head(b.runs).mark < b.queue[j].n
<1> DEFINE c == [b EXCEPT !.runs = Tail(@)]
<1>1. b \in Buffers /\ b.runs \in Seq(Run)
  BY DEF BufferInv, Buffers
<1>2. /\ Tail(b.runs) \in Seq(Run) /\ Head(b.runs) \in Run
      /\ Len(Tail(b.runs)) = Len(b.runs) - 1
      /\ \A i \in 1..Len(Tail(b.runs)) : Tail(b.runs)[i] = b.runs[i + 1] /\ i + 1 \in 1..Len(b.runs)
      /\ Head(b.runs) = b.runs[1] /\ 1 \in 1..Len(b.runs)
  <2>1. /\ Tail(b.runs) \in Seq(Run) /\ Head(b.runs) \in Run
        /\ Len(Tail(b.runs)) = Len(b.runs) - 1
        /\ \A i \in 1..Len(Tail(b.runs)) : Tail(b.runs)[i] = b.runs[i + 1]
    BY <1>1, HeadTailProperties
  <2>2. Len(b.runs) \in Nat /\ Len(b.runs) # 0
    BY <1>1
  <2>3. Head(b.runs) = b.runs[1]
    BY <1>1
  <2>4. QED
    BY <2>1, <2>2, <2>3
<1>3. /\ c \in Buffers /\ c.queue = b.queue /\ c.out = b.out /\ c.size = b.size
      /\ c.runs = Tail(b.runs)
  BY <1>1, <1>2 DEF Buffers
<1> HIDE DEF c
<1>4. MarksPrecede(c.runs, c.queue)
  BY <1>2, <1>3 DEF BufferInv, MarksPrecede
<1>5. Within(c, h)
  BY <1>2, <1>3 DEF BufferInv, Within
<1>6. BufferInv(c, h)
  BY <1>3, <1>4, <1>5 DEF BufferInv
<1>7. Head(b.runs).mark <= h
  BY <1>2 DEF BufferInv, Within
<1>8. Head(b.runs).at = "text" =>
        \A j \in 1..Len(b.queue) : IsText(b.queue[j]) => Head(b.runs).mark < b.queue[j].n
  BY <1>2 DEF BufferInv, MarksPrecede
<1>9. QED
  BY <1>2, <1>6, <1>7, <1>8 DEF c

\* A run waits for another answer.
LEMMA AwaitKeeps ==
  ASSUME NEW h \in Nat, NEW b, BufferInv(b, h), NEW stage \in {"flush", "front", "chunk"},
         NEW late \in BOOLEAN
  PROVE  /\ BufferInv(Await(b, stage, late), h)
         /\ Await(b, stage, late).queue = b.queue /\ Await(b, stage, late).out = b.out
<1> DEFINE run == [at |-> stage, late |-> late, mark |-> 0]
           c == Await(b, stage, late)
<1>1. b \in Buffers /\ b.runs \in Seq(Run)
  BY DEF BufferInv, Buffers
<1>2. run \in Run /\ run.at # "text" /\ run.mark <= h
  BY DEF Run
<1> HIDE DEF run
<1>3. /\ Append(b.runs, run) \in Seq(Run) /\ Len(Append(b.runs, run)) = Len(b.runs) + 1
      /\ \A i \in 1..Len(b.runs) : Append(b.runs, run)[i] = b.runs[i]
      /\ Append(b.runs, run)[Len(b.runs) + 1] = run
  BY <1>1, <1>2, AppendProperties
<1>4. /\ c \in Buffers /\ c.queue = b.queue /\ c.out = b.out /\ c.size = b.size
      /\ c.runs = Append(b.runs, run)
  BY <1>1, <1>3 DEF Await, Buffers, run
<1> HIDE DEF c
<1>5. \A i \in 1..Len(c.runs) : i \in 1..Len(b.runs) \/ c.runs[i] = run
  <2>1. Len(b.runs) \in Nat /\ Len(c.runs) = Len(b.runs) + 1
    BY <1>1, <1>3, <1>4
  <2>2. \A i \in 1..Len(c.runs) : i \in 1..Len(b.runs) \/ i = Len(b.runs) + 1
    BY <2>1
  <2>3. QED
    BY <1>3, <1>4, <2>2
<1>6. \A i \in 1..Len(b.runs) : c.runs[i] = b.runs[i]
  BY <1>3, <1>4
<1>7. MarksPrecede(c.runs, c.queue)
  BY <1>2, <1>4, <1>5, <1>6 DEF BufferInv, MarksPrecede
<1>8. Within(c, h)
  BY <1>2, <1>4, <1>5, <1>6 DEF BufferInv, Within
<1>9. BufferInv(c, h)
  BY <1>4, <1>7, <1>8 DEF BufferInv
<1>10. QED
  BY <1>4, <1>9 DEF c

\* A flush is handed over after the text that was asked for before it.
LEMMA FlushHandedOver ==
  ASSUME NEW h \in Nat, NEW b, BufferInv(b, h), NEW x \in Item, ~IsText(x), x.n <= h,
         \A j \in 1..Len(b.queue) : IsText(b.queue[j]) => x.n < b.queue[j].n
  PROVE  /\ BufferInv([b EXCEPT !.out = Append(@, x)], h)
         /\ Speaks(b, [b EXCEPT !.out = Append(@, x)])
<1> DEFINE c == [b EXCEPT !.out = Append(@, x)]
           o == b.out
<1>1. b \in Buffers /\ o \in Seq(Item) /\ Len(o) \in Nat /\ b.queue \in Seq(Item)
  BY DEF BufferInv, Buffers
<1>2. /\ Append(o, x) \in Seq(Item) /\ Len(Append(o, x)) = Len(o) + 1
      /\ \A i \in 1..Len(o) : Append(o, x)[i] = o[i]
      /\ Append(o, x)[Len(o) + 1] = x
      /\ Numbers(Append(o, x)) = Numbers(o)
  <2> HIDE DEF o
  <2> QED
    BY <1>1, NumbersOfAppend
<1>3. /\ c \in Buffers /\ c.queue = b.queue /\ c.out = Append(o, x) /\ c.size = b.size
      /\ c.runs = b.runs
  BY <1>1, <1>2 DEF Buffers
<1>4. /\ \A i, j \in 1..Len(o) : (i < j /\ ~IsText(o[i]) /\ IsText(o[j])) => o[i].n < o[j].n
      /\ \A i \in 1..Len(o), j \in 1..Len(b.queue) :
           (~IsText(o[i]) /\ IsText(b.queue[j])) => o[i].n < b.queue[j].n
      /\ \A i \in 1..Len(o) : o[i].n <= h
  BY DEF BufferInv, InOrder, Precedes, Within
<1> HIDE DEF c, o
<1>5. \A i \in 1..Len(c.out) :
        (i \in 1..Len(o) /\ c.out[i] = o[i]) \/ (i = Len(o) + 1 /\ c.out[i] = x)
  <2> SUFFICES ASSUME NEW i \in 1..Len(c.out)
               PROVE  (i \in 1..Len(o) /\ c.out[i] = o[i]) \/ (i = Len(o) + 1 /\ c.out[i] = x)
    OBVIOUS
  <2>1. /\ Len(c.out) = Len(o) + 1 /\ c.out[Len(o) + 1] = x
        /\ \A k \in 1..Len(o) : c.out[k] = o[k]
    BY <1>2, <1>3
  <2>2. i \in 1..Len(o) \/ i = Len(o) + 1
    BY <1>1, <2>1
  <2>3. QED
    BY <2>1, <2>2
<1>6. InOrder(c.out)
  <2> SUFFICES ASSUME NEW i \in 1..Len(c.out), NEW j \in 1..Len(c.out), i < j,
                      ~IsText(c.out[i]), IsText(c.out[j])
               PROVE  c.out[i].n < c.out[j].n
    BY DEF InOrder
  <2>1. j \in 1..Len(o) /\ c.out[j] = o[j]
    BY <1>5
  <2>2. i \in 1..Len(o) /\ c.out[i] = o[i]
    <3>1. i # Len(o) + 1
      BY <1>1, <2>1
    <3>2. QED
      BY <1>5, <3>1
  <2>3. QED
    BY <1>4, <2>1, <2>2
<1>7. Precedes(c.out, c.queue)
  BY <1>3, <1>4, <1>5 DEF Precedes
<1>8. Within(c, h)
  BY <1>3, <1>4, <1>5 DEF BufferInv, Within
<1>9. BufferInv(c, h)
  BY <1>3, <1>6, <1>7, <1>8 DEF BufferInv
<1>10. Speaks(b, c)
  <2> DEFINE d == [b EXCEPT !.out = b.out]
  <2>1. Speaks(b, b)
    BY <1>1, SpeaksNothing
  <2>2. Numbers(c.out) = Numbers(b.out) /\ c.queue = b.queue
    BY <1>2, <1>3 DEF o
  <2>3. QED
    BY <2>1, <2>2 DEF Speaks
<1>11. QED
  BY <1>9, <1>10 DEF c

\* A flush waits behind the text that was asked for before it.
LEMMA FlushWaits ==
  ASSUME NEW h \in Nat, NEW b, BufferInv(b, h), NEW x \in Item, ~IsText(x), x.n <= h,
         b.queue # <<>> => IsText(b.queue[Len(b.queue)])
  PROVE  /\ BufferInv([b EXCEPT !.queue = Append(@, x)], h)
         /\ Speaks(b, [b EXCEPT !.queue = Append(@, x)])
<1> DEFINE c == [b EXCEPT !.queue = Append(@, x)]
           q == b.queue
<1>1. b \in Buffers /\ q \in Seq(Item) /\ Len(q) \in Nat /\ b.size = Len(Numbers(q))
  BY DEF BufferInv, Buffers
<1>2. /\ Append(q, x) \in Seq(Item) /\ Len(Append(q, x)) = Len(q) + 1
      /\ \A i \in 1..Len(q) : Append(q, x)[i] = q[i]
      /\ Append(q, x)[Len(q) + 1] = x
      /\ Numbers(Append(q, x)) = Numbers(q)
  <2> HIDE DEF q
  <2> QED
    BY <1>1, NumbersOfAppend
<1>3. /\ c \in Buffers /\ c.out = b.out /\ c.queue = Append(q, x) /\ c.size = b.size
      /\ c.runs = b.runs
  BY <1>1, <1>2 DEF Buffers
<1>4. /\ \A i, j \in 1..Len(q) : (i < j /\ ~IsText(q[i]) /\ IsText(q[j])) => q[i].n < q[j].n
      /\ \A i \in 1..Len(b.out), j \in 1..Len(q) :
           (~IsText(b.out[i]) /\ IsText(q[j])) => b.out[i].n < q[j].n
      /\ \A i \in 1..Len(b.runs), j \in 1..Len(q) :
            (b.runs[i].at = "text" /\ IsText(q[j])) => b.runs[i].mark < q[j].n
      /\ \A i \in 1..Len(q) : q[i].n <= h
      /\ \A i \in 1..Len(q) - 1 : IsText(q[i]) \/ IsText(q[i + 1])
      /\ q # <<>> => IsText(q[Len(q)])
  BY DEF BufferInv, InOrder, Precedes, MarksPrecede, Within, Apart
<1>5. q = <<>> \/ Len(q) \in 1..Len(q)
  BY <1>1
<1> HIDE DEF c, q
<1>6. \A i \in 1..Len(c.queue) :
        (i \in 1..Len(q) /\ c.queue[i] = q[i]) \/ (i = Len(q) + 1 /\ c.queue[i] = x)
  <2> SUFFICES ASSUME NEW i \in 1..Len(c.queue)
               PROVE  (i \in 1..Len(q) /\ c.queue[i] = q[i]) \/ (i = Len(q) + 1 /\ c.queue[i] = x)
    OBVIOUS
  <2>1. /\ Len(c.queue) = Len(q) + 1 /\ c.queue[Len(q) + 1] = x
        /\ \A k \in 1..Len(q) : c.queue[k] = q[k]
    BY <1>2, <1>3
  <2>2. i \in 1..Len(q) \/ i = Len(q) + 1
    BY <1>1, <2>1
  <2>3. QED
    BY <2>1, <2>2
<1>7. InOrder(c.queue)
  <2> SUFFICES ASSUME NEW i \in 1..Len(c.queue), NEW j \in 1..Len(c.queue), i < j,
                      ~IsText(c.queue[i]), IsText(c.queue[j])
               PROVE  c.queue[i].n < c.queue[j].n
    BY DEF InOrder
  <2>1. j \in 1..Len(q) /\ c.queue[j] = q[j]
    BY <1>6
  <2>2. i \in 1..Len(q) /\ c.queue[i] = q[i]
    <3>1. i # Len(q) + 1
      BY <1>1, <2>1
    <3>2. QED
      BY <1>6, <3>1
  <2>3. QED
    BY <1>4, <2>1, <2>2
<1>8. Precedes(c.out, c.queue) /\ MarksPrecede(c.runs, c.queue)
  BY <1>3, <1>4, <1>6 DEF Precedes, MarksPrecede
<1>9. Within(c, h)
  BY <1>3, <1>4, <1>6 DEF BufferInv, Within
<1>10. Apart(c.queue)
  <2> SUFFICES ASSUME NEW i \in 1..Len(c.queue) - 1
               PROVE  IsText(c.queue[i]) \/ IsText(c.queue[i + 1])
    BY DEF Apart
  <2>1. i \in 1..Len(q)
    BY <1>1, <1>2, <1>3
  <2>2. c.queue[i] = q[i]
    BY <1>2, <1>3, <2>1
  <2>3. CASE i = Len(q)
    <3>1. q # <<>>
      BY <2>1, <2>3
    <3>2. QED
      BY <1>4, <2>2, <2>3, <3>1
  <2>4. CASE i # Len(q)
    <3>1. i \in 1..Len(q) - 1 /\ i + 1 \in 1..Len(q)
      BY <1>1, <2>1, <2>4
    <3>2. c.queue[i + 1] = q[i + 1]
      BY <1>2, <1>3, <3>1
    <3>3. QED
      BY <1>4, <2>2, <3>1, <3>2
  <2>5. QED
    BY <2>3, <2>4
<1>11. c.size = Len(Numbers(c.queue))
  BY <1>1, <1>2, <1>3
<1>12. BufferInv(c, h)
  BY <1>3, <1>7, <1>8, <1>9, <1>10, <1>11 DEF BufferInv
<1>13. Speaks(b, c)
  <2>1. Speaks(b, b)
    BY <1>1, SpeaksNothing
  <2>2. Numbers(c.queue) = Numbers(b.queue) /\ c.out = b.out
    BY <1>2, <1>3 DEF q
  <2>3. QED
    BY <2>1, <2>2 DEF Speaks
<1>14. QED
  BY <1>12, <1>13 DEF c

\* Between b and c the text of items, numbered from h + 1 to k, was put into the queue.
TextQueued(b, c, items, h, k) ==
  /\ h \in Nat /\ k \in Nat /\ items \in Seq(Item) /\ k = h + Len(items)
  /\ \A i \in 1..Len(items) : items[i].n = h + i /\ IsText(items[i])
  /\ BufferInv(b, h) /\ c \in Buffers
  /\ c.queue = b.queue \o items /\ c.size = b.size + Len(items)
  /\ c.out = b.out /\ c.runs = b.runs

\* Text waits behind all that was asked for before it.
LEMMA TextWaits ==
  ASSUME NEW b, NEW c, NEW items, NEW h, NEW k, TextQueued(b, c, items, h, k)
  PROVE  BufferInv(c, k) /\ Numbers(c.queue) = Numbers(b.queue) \o Numbers(items)
<1> DEFINE q == b.queue
           l == Len(items)
<1>1. /\ b \in Buffers /\ q \in Seq(Item) /\ Len(q) \in Nat
      /\ b.size = Len(Numbers(q)) /\ b.size \in Nat /\ l \in Nat /\ k = h + l
  BY DEF TextQueued, BufferInv, Buffers
<1>2. /\ \A i \in 1..l : items[i].n = h + i /\ IsText(items[i])
      /\ h \in Nat /\ k \in Nat /\ items \in Seq(Item) /\ BufferInv(b, h)
  BY DEF TextQueued
<1>3. /\ q \o items \in Seq(Item) /\ Len(q \o items) = Len(q) + l
      /\ \A i \in 1..Len(q) : (q \o items)[i] = q[i]
      /\ \A i \in 1..l : (q \o items)[Len(q) + i] = items[i]
  <2> HIDE DEF q
  <2> QED
    BY <1>1, <1>2, ConcatFacts
<1>4. /\ c \in Buffers /\ c.queue = q \o items /\ c.out = b.out /\ c.size = b.size + l
      /\ c.runs = b.runs
  BY DEF TextQueued
<1>5. Len(Numbers(items)) = l
  <2>1. Numbers(items) = [i \in 1..Len(items) |-> items[i].n]
    BY <1>2, NumbersOfText
  <2>2. QED
    BY <1>1, <2>1
<1>6. Numbers(c.queue) = Numbers(q) \o Numbers(items)
  <2> HIDE DEF q
  <2> QED
    BY <1>1, <1>2, <1>4, NumbersConcat
<1>7. c.size = Len(Numbers(c.queue))
  <2> DEFINE x == Numbers(q)
             y == Numbers(items)
  <2>1. x \in Seq(Nat) /\ y \in Seq(Nat) /\ Len(y) = l
    BY <1>1, <1>2, <1>5, NumbersType
  <2> HIDE DEF x, y
  <2>2. Len(x \o y) = Len(x) + Len(y)
    BY <2>1, ConcatProperties
  <2>3. QED
    BY <1>1, <1>4, <1>6, <2>1, <2>2 DEF x, y
<1>8. /\ \A i, j \in 1..Len(q) : (i < j /\ ~IsText(q[i]) /\ IsText(q[j])) => q[i].n < q[j].n
      /\ \A i \in 1..Len(b.out), j \in 1..Len(q) :
           (~IsText(b.out[i]) /\ IsText(q[j])) => b.out[i].n < q[j].n
      /\ \A i \in 1..Len(b.runs), j \in 1..Len(q) :
            (b.runs[i].at = "text" /\ IsText(q[j])) => b.runs[i].mark < q[j].n
      /\ \A i \in 1..Len(q) - 1 : IsText(q[i]) \/ IsText(q[i + 1])
  BY <1>2 DEF BufferInv, InOrder, Precedes, MarksPrecede, Apart
<1>9. /\ \A i \in 1..Len(q) : q[i].n <= h
      /\ \A i \in 1..Len(b.out) : b.out[i].n <= h
      /\ \A i \in 1..Len(b.runs) : b.runs[i].mark <= h
  BY <1>2 DEF BufferInv, Within
<1>10. /\ \A i \in 1..Len(q) : q[i].n \in Nat
       /\ \A i \in 1..Len(b.out) : b.out[i].n \in Nat
       /\ \A i \in 1..Len(b.runs) : b.runs[i].mark \in Nat
  <2>1. /\ \A i \in 1..Len(q) : q[i] \in Item
        /\ \A i \in 1..Len(b.out) : b.out[i] \in Item
        /\ \A i \in 1..Len(b.runs) : b.runs[i] \in Run
    BY <1>1 DEF Buffers
  <2>2. QED
    BY <2>1 DEF Item, Run
<1>11. InOrder(b.out)
  BY <1>2 DEF BufferInv
<1> HIDE DEF q, l
<1>12. \A i \in 1..Len(c.queue) :
         \/ i \in 1..Len(q) /\ c.queue[i] = q[i]
         \/ i \notin 1..Len(q) /\ IsText(c.queue[i]) /\ c.queue[i].n > h /\ c.queue[i].n <= h + l
  <2> SUFFICES ASSUME NEW i \in 1..Len(q) + l, i \notin 1..Len(q)
               PROVE  IsText((q \o items)[i]) /\ (q \o items)[i].n > h /\ (q \o items)[i].n <= h + l
    BY <1>3, <1>4
  <2>1. i - Len(q) \in 1..l /\ Len(q) + (i - Len(q)) = i
    BY <1>1
  <2>2. (q \o items)[i] = items[i - Len(q)]
    BY <1>3, <2>1
  <2>3. items[i - Len(q)].n = h + (i - Len(q)) /\ IsText(items[i - Len(q)])
    BY <1>2, <2>1
  <2>4. h + (i - Len(q)) > h /\ h + (i - Len(q)) <= h + l
    BY <1>1, <1>2, <2>1
  <2>5. QED
    BY <2>2, <2>3, <2>4
<1>13. \A j \in 1..Len(c.queue) : c.queue[j].n \in Nat
  <2>1. c.queue \in Seq(Item)
    BY <1>3, <1>4
  <2>2. \A j \in 1..Len(c.queue) : c.queue[j] \in Item
    BY <2>1
  <2>3. QED
    BY <2>2 DEF Item
<1>14. InOrder(c.queue)
  <2> SUFFICES ASSUME NEW i \in 1..Len(c.queue), NEW j \in 1..Len(c.queue), i < j,
                      ~IsText(c.queue[i]), IsText(c.queue[j])
               PROVE  c.queue[i].n < c.queue[j].n
    BY DEF InOrder
  <2>1. i \in 1..Len(q) /\ c.queue[i] = q[i]
    BY <1>12
  <2>2. CASE j \in 1..Len(q)
    <3>1. c.queue[j] = q[j]
      BY <1>12, <2>2
    <3>2. QED
      BY <1>8, <2>1, <2>2, <3>1
  <2>3. CASE j \notin 1..Len(q)
    <3>1. c.queue[j].n > h /\ q[i].n <= h /\ q[i].n \in Nat
      BY <1>9, <1>10, <1>12, <2>1, <2>3
    <3>2. c.queue[j].n \in Nat
      BY <1>13
    <3> DEFINE x == q[i].n
               y == c.queue[j].n
    <3>3. x \in Nat /\ y \in Nat /\ x <= h /\ y > h /\ c.queue[i].n = x
      BY <2>1, <3>1, <3>2
    <3> HIDE DEF x, y
    <3>4. x < y
      BY <1>2, <3>3
    <3>5. QED
      BY <3>3, <3>4 DEF y
  <2>4. QED
    BY <2>2, <2>3
<1>15. ASSUME NEW x \in Nat, x <= h, NEW j \in 1..Len(c.queue), j \notin 1..Len(q)
       PROVE  x < c.queue[j].n
  <2>1. c.queue[j].n > h /\ c.queue[j].n \in Nat
    BY <1>12, <1>13, <1>15
  <2>2. QED
    BY <1>2, <1>15, <2>1
<1>16. Precedes(c.out, c.queue)
  <2> SUFFICES ASSUME NEW i \in 1..Len(b.out), NEW j \in 1..Len(c.queue),
                      ~IsText(b.out[i]), IsText(c.queue[j])
               PROVE  b.out[i].n < c.queue[j].n
    BY <1>4 DEF Precedes
  <2>1. CASE j \in 1..Len(q)
    BY <1>8, <1>12, <2>1
  <2>2. CASE j \notin 1..Len(q)
    BY <1>9, <1>10, <1>15, <2>2
  <2>3. QED
    BY <2>1, <2>2
<1>17. MarksPrecede(c.runs, c.queue)
  <2> SUFFICES ASSUME NEW i \in 1..Len(b.runs), NEW j \in 1..Len(c.queue),
                      b.runs[i].at = "text", IsText(c.queue[j])
               PROVE  b.runs[i].mark < c.queue[j].n
    BY <1>4 DEF MarksPrecede
  <2>1. CASE j \in 1..Len(q)
    BY <1>8, <1>12, <2>1
  <2>2. CASE j \notin 1..Len(q)
    BY <1>9, <1>10, <1>15, <2>2
  <2>3. QED
    BY <2>1, <2>2
<1>18. Within(c, k)
  <2>1. \A x \in Nat : x <= h => x <= h + l
    BY <1>1, <1>2
  <2>2. \A i \in 1..Len(c.queue) : c.queue[i].n <= h + l
    BY <1>9, <1>10, <1>12, <2>1
  <2>3. /\ \A i \in 1..Len(b.out) : b.out[i].n <= h + l
        /\ \A i \in 1..Len(b.runs) : b.runs[i].mark <= h + l
    BY <1>9, <1>10, <2>1
  <2>4. QED
    BY <1>1, <1>4, <2>2, <2>3 DEF Within
<1>19. Apart(c.queue)
  <2> SUFFICES ASSUME NEW i \in 1..Len(c.queue) - 1
               PROVE  IsText(c.queue[i]) \/ IsText(c.queue[i + 1])
    BY DEF Apart
  <2>1. Len(c.queue) = Len(q) + l
    BY <1>3, <1>4
  <2>2. i \in 1..Len(c.queue) /\ i + 1 \in 1..Len(c.queue)
    BY <1>1, <2>1
  <2>3. CASE i + 1 \in 1..Len(q)
    <3>1. i \in 1..Len(q) - 1 /\ i \in 1..Len(q)
      BY <1>1, <2>1, <2>3
    <3>2. c.queue[i] = q[i] /\ c.queue[i + 1] = q[i + 1]
      BY <1>12, <2>2, <2>3, <3>1
    <3>3. QED
      BY <1>8, <3>1, <3>2
  <2>4. CASE i + 1 \notin 1..Len(q)
    BY <1>12, <2>2, <2>4
  <2>5. QED
    BY <2>3, <2>4
<1>20. BufferInv(c, k)
  BY <1>4, <1>7, <1>11, <1>14, <1>16, <1>17, <1>18, <1>19 DEF BufferInv
<1>21. QED
  BY <1>6, <1>20 DEF q
----------------------------------------------------------------------------
(* Text is looked after, and there is never too much of it *)

\* Text that waits in b will be looked at again: when the answer to a command comes, or
\* when the timer fires.
Watched(b) == (b.size > 0 /\ ~b.adrift) => (b.runs # <<>> \/ b.timer # "off")

\* To await an answer is enough.
LEMMA AwaitWatches ==
  ASSUME NEW b \in Buffers, NEW r, NEW run \in Run, r.runs = Append(b.runs, run)
  PROVE  Watched(r)
<1>1. r.runs # <<>>
  <2>1. b.runs \in Seq(Run)
    BY DEF Buffers
  <2>2. QED
    BY <2>1, AppendProperties
<1>2. QED
  BY <1>1 DEF Watched

\* Where there is text, the timer is set.
LEMMA SetTimerWatches ==
  ASSUME NEW b \in Buffers
  PROVE  Watched(SetTimer(b))
BY DEF SetTimer, Watched, Buffers

\* However a run of _feedQueue ends, what it leaves is looked after.
LEMMA Phase2Watches ==
  ASSUME NEW h \in Nat, NEW b, BufferInv(b, h), NEW late \in BOOLEAN
  PROVE  Watched(Phase2(b, late))
<1> DEFINE n == ChunkEnd(b.queue, late)
<1>1. b \in Buffers /\ b.size = Len(Numbers(b.queue))
  BY DEF BufferInv
<1> HIDE DEF n
<1>2. CASE b.queue = <<>>
  <2>1. b.size = 0
    BY <1>1, <1>2, NumbersOfNothing
  <2>2. Phase2(b, late).size = b.size
    BY <1>1, <1>2 DEF Phase2, Buffers
  <2>3. QED
    BY <2>1, <2>2 DEF Watched
<1>3. CASE b.queue # <<>> /\ n = 0
  <2>1. Phase2(b, late) = SetTimer(b)
    BY <1>3 DEF Phase2, n
  <2>2. QED
    BY <1>1, <2>1, SetTimerWatches
<1>4. CASE b.queue # <<>> /\ n # 0
  <2>1. Phase2(b, late) = SendChunk(b, n)
    BY <1>4 DEF Phase2, n
  <2>2. SendChunk(b, n).runs = Append(b.runs, [at |-> "chunk", late |-> FALSE, mark |-> 0])
    BY <1>1 DEF SendChunk, Await, Buffers
  <2>3. [at |-> "chunk", late |-> FALSE, mark |-> 0] \in Run
    BY DEF Run
  <2>4. QED
    BY <1>1, <2>1, <2>2, <2>3, AwaitWatches
<1>5. QED
  BY <1>2, <1>3, <1>4

LEMMA FrontWatches ==
  ASSUME NEW h \in Nat, NEW b, BufferInv(b, h), NEW late \in BOOLEAN
  PROVE  Watched(Front(b, late))
<1>1. b \in Buffers
  BY DEF BufferInv
<1>2. CASE b.queue # <<>> /\ ~IsText(Head(b.queue))
  <2>1. Front(b, late).runs = Append(b.runs, [at |-> "front", late |-> late, mark |-> 0])
    BY <1>1, <1>2 DEF Front, Await, Buffers
  <2>2. [at |-> "front", late |-> late, mark |-> 0] \in Run
    BY DEF Run
  <2>3. QED
    BY <1>1, <2>1, <2>2, AwaitWatches
<1>3. CASE ~(b.queue # <<>> /\ ~IsText(Head(b.queue)))
  BY <1>3, Phase2Watches DEF Front
<1>4. QED
  BY <1>2, <1>3

LEMMA Phase1Watches ==
  ASSUME NEW h \in Nat, NEW b, BufferInv(b, h), NEW late \in BOOLEAN
  PROVE  Watched(Phase1(b, late))
<1> DEFINE i == CHOOSE k \in Marks(b.queue) : \A j \in Marks(b.queue) : k <= j
           text == SubSeq(b.queue, IF IsText(b.queue[1]) THEN 1 ELSE 2, i - 1)
           run == [at |-> "text", late |-> late, mark |-> b.queue[i].n]
<1>1. b \in Buffers /\ b.queue \in Seq(Item)
  BY DEF BufferInv, Buffers
<1>2. CASE Marks(b.queue) = {}
  BY <1>2, FrontWatches DEF Phase1
<1>3. CASE Marks(b.queue) # {}
  <2>1. i \in Marks(b.queue)
    <3>1. Marks(b.queue) \in SUBSET Nat
      BY DEF Marks
    <3>2. \E k \in Marks(b.queue) : \A j \in Marks(b.queue) : k <= j
      BY <1>3, <3>1, Least
    <3>3. QED
      BY <3>2
  <2> HIDE DEF i
  <2>2. run \in Run
    <3>1. b.queue[i] \in Item
      BY <1>1, <2>1 DEF Marks
    <3>2. QED
      BY <3>1 DEF Run, Item
  <2>3. Phase1(b, late)
          = [b EXCEPT !.queue = SubSeq(@, i + 1, Len(@)), !.size = @ - Len(text),
                      !.out = @ \o text, !.runs = Append(@, run)]
    BY <1>3 DEF Phase1, i
  <2> HIDE DEF text, run
  <2>4. Phase1(b, late).runs = Append(b.runs, run)
    BY <1>1, <2>3 DEF Buffers
  <2>5. QED
    BY <1>1, <2>2, <2>4, AwaitWatches
<1>4. QED
  BY <1>2, <1>3

LEMMA FeedWatches ==
  ASSUME NEW h \in Nat, NEW b, BufferInv(b, h), NEW open \in BOOLEAN, NEW late \in BOOLEAN
  PROVE  Watched(Feed(b, open, late))
<1>1. b \in Buffers /\ b.size = Len(Numbers(b.queue))
  BY DEF BufferInv
<1>2. CASE open
  <2> DEFINE c == [b EXCEPT !.adrift = FALSE]
  <2>1. /\ c \in Buffers /\ c.queue = b.queue /\ c.out = b.out /\ c.size = b.size
        /\ c.runs = b.runs
    BY <1>1 DEF Buffers
  <2>2. Feed(b, open, late) = Phase1(c, late)
    BY <1>2 DEF Feed
  <2> HIDE DEF c
  <2>3. BufferInv(c, h)
    BY <2>1, OtherFieldsKeep
  <2>4. QED
    BY <2>2, <2>3, Phase1Watches
<1>3. CASE ~open
  <2>1. Feed(b, open, late).size = b.size
    BY <1>1, <1>3 DEF Feed, Buffers
  <2>2. b.queue # <<>> => Feed(b, open, late).adrift
    BY <1>1, <1>3 DEF Feed, Buffers
  <2>3. b.queue = <<>> => b.size = 0
    BY <1>1, NumbersOfNothing
  <2>4. QED
    BY <2>1, <2>2, <2>3 DEF Watched
<1>4. QED
  BY <1>2, <1>3
----------------------------------------------------------------------------
(* The steps *)

\* The inductive invariant.
IInv == TypeOK /\ BufferInv(Buffer, heard)

\* The types of what is not part of the buffer.
OtherTypes ==
  /\ full \in BOOLEAN /\ paused \in BOOLEAN /\ conn \in {"not", "connecting", "connected", "failed"}
  /\ listening \in BOOLEAN /\ attempts \in Nat /\ say \in BOOLEAN /\ starting \in Nat
  /\ heard \in Nat /\ drained \in BOOLEAN /\ flushes \in Nat /\ says \in Nat

\* The types of all variables.
LEMMA TypesOfBuffer ==
  ASSUME OtherTypes, BufferInv(Buffer, heard)
  PROVE  IInv
BY DEF IInv, TypeOK, OtherTypes, BufferInv, Buffers, Buffer

\* Every action keeps the types of what is not part of the buffer.
LEMMA OtherTypesKept ==
  ASSUME IInv, Next
  PROVE  OtherTypes'
<1>0. TypeOK
  BY DEF IInv
<1>1. ASSUME NEW text \in Texts, Tokens(text) PROVE OtherTypes'
  <2>1. Len(text) \in Nat
    BY BufferAssumption DEF BufferAssumption
  <2>2. QED
    BY <1>0, <1>1, <2>1 DEF Tokens, TypeOK, OtherTypes, callVars, flowVars
<1>2. ASSUME NEW text \in Texts, TokensRejected(text) PROVE OtherTypes'
  BY <1>0, <1>2 DEF TokensRejected, TypeOK, OtherTypes, callVars
<1>3. CASE Flush
  BY <1>0, <1>3 DEF Flush, TypeOK, OtherTypes, flowVars
<1>4. CASE Clear
  BY <1>0, <1>4 DEF Clear, TypeOK, OtherTypes, callVars
<1>5. CASE Say
  <2>1. CASE SayBegins
    BY <1>0, <2>1 DEF SayBegins, TypeOK, OtherTypes, flowVars
  <2>2. CASE SayStarts
    <3>1. starting \in Nat /\ starting > 0 /\ starting' = starting - 1
      BY <1>0, <2>2 DEF SayStarts, TypeOK
    <3>2. starting' \in Nat
      BY <3>1
    <3>3. CASE conn = "not"
      BY <1>0, <2>2, <3>2, <3>3 DEF SayStarts, TypeOK, OtherTypes, flowVars
    <3>4. CASE conn # "not"
      BY <1>0, <2>2, <3>2, <3>4 DEF SayStarts, TypeOK, OtherTypes, flowVars
    <3>5. QED
      BY <3>3, <3>4
  <2>3. CASE SayEnds
    BY <1>0, <2>3 DEF SayEnds, TypeOK, OtherTypes, flowVars
  <2>4. CASE SayKilled
    BY <1>0, <2>4 DEF SayKilled, Stop, TypeOK, OtherTypes
  <2>5. QED
    BY <1>5, <2>1, <2>2, <2>3, <2>4 DEF Say
<1>6. CASE Connected \/ ConnectFails \/ ConnectRefused \/ ConnectUnheard
  <2>1. attempts - 1 \in Nat
    <3>1. attempts \in Nat /\ attempts > 0
      BY <1>0, <1>6 DEF Connected, ConnectFails, ConnectRefused, ConnectUnheard, TypeOK
    <3>2. QED
      BY <3>1
  <2>2. CASE Connected
    BY <1>0, <2>1, <2>2 DEF Connected, TypeOK, OtherTypes, callVars, flowVars
  <2>3. CASE ConnectFails
    BY <1>0, <2>1, <2>3 DEF ConnectFails, TypeOK, OtherTypes, callVars
  <2>4. CASE ConnectRefused
    BY <1>0, <2>1, <2>4 DEF ConnectRefused, TypeOK, OtherTypes, callVars, flowVars
  <2>5. CASE ConnectUnheard
    BY <1>0, <2>1, <2>5 DEF ConnectUnheard, TypeOK, OtherTypes, callVars, flowVars
  <2>6. QED
    BY <1>6, <2>2, <2>3, <2>4, <2>5
<1>7. CASE TextSent \/ FlushSent \/ FrontFlushSent \/ ChunkSent
  BY <1>0, <1>7 DEF TextSent, FlushSent, FrontFlushSent, ChunkSent, ResumeIfDrained, TypeOK,
     OtherTypes, callVars, flowVars
<1>8. CASE Timeout
  BY <1>0, <1>8 DEF Timeout, TypeOK, OtherTypes, callVars, flowVars
<1>9. QED
  BY <1>1, <1>2, <1>3, <1>4, <1>5, <1>6, <1>7, <1>8 DEF Next, Application, FreeSwitch

\* Becomes determines the buffer.
LEMMA BufferBecomes ==
  ASSUME NEW r \in Buffers, Becomes(r)
  PROVE  Buffer' = r
BY DEF Becomes, Buffer, Buffers

\* What happens in a step, seen from the stream of text.
Streams == Stream!Stream \/ Stream!ThrowAway \/ UNCHANGED <<heard, Numbers(queue), Numbers(out)>>

\* Text is accepted and a beginning of what waits is spoken: a step of the stream.
LEMMA SpeaksStreams ==
  ASSUME IInv, heard' \in Nat, heard <= heard', NEW b, b.out = out,
         Numbers(b.queue) = Numbers(queue) \o Stream!Pieces(heard, heard'),
         NEW r \in Buffers, Speaks(b, r), Becomes(r)
  PROVE  Stream!Stream
<1>1. queue' = r.queue /\ out' = r.out
  BY DEF Becomes
<1>2. PICK n \in 0..Len(Numbers(b.queue)) :
        /\ Numbers(r.out) = Numbers(b.out) \o SubSeq(Numbers(b.queue), 1, n)
        /\ Numbers(r.queue) = SubSeq(Numbers(b.queue), n + 1, Len(Numbers(b.queue)))
  BY DEF Speaks
<1>3. QED
  BY <1>1, <1>2 DEF Stream!Stream

\* The same when no text is accepted.
LEMMA QuietStreams ==
  ASSUME IInv, heard' = heard, NEW r, BufferInv(r, heard), Speaks(Buffer, r), Becomes(r)
  PROVE  BufferInv(Buffer, heard)' /\ Streams
<1>1. Buffer' = r
  BY BufferBecomes DEF BufferInv
<1>2. heard \in Nat /\ queue \in Seq(Item)
  BY DEF IInv, TypeOK
<1>3. Numbers(queue) = Numbers(queue) \o Stream!Pieces(heard, heard')
  <2>1. Stream!Pieces(heard, heard') = <<>>
    BY <1>2 DEF Stream!Pieces
  <2>2. Numbers(queue) \o <<>> = Numbers(queue)
    BY <1>2, NumbersType, ConcatEmptySeq
  <2>3. QED
    BY <2>1, <2>2
<1>4. Buffer.queue = queue /\ Buffer.out = out
  BY DEF Buffer
<1>5. r \in Buffers /\ heard' \in Nat /\ heard <= heard'
  BY <1>2 DEF BufferInv
<1>6. Stream!Stream
  BY <1>3, <1>4, <1>5, SpeaksStreams
<1>7. QED
  BY <1>1, <1>6 DEF Streams

\* Actions that leave the buffer alone.
LEMMA BufferUnchanged ==
  ASSUME IInv, UNCHANGED bufferVars, UNCHANGED heard
  PROVE  BufferInv(Buffer, heard)' /\ Streams
<1>1. Becomes(Buffer)
  BY DEF bufferVars, Becomes, Buffer
<1>2. BufferInv(Buffer, heard) /\ Buffer \in Buffers
  BY DEF IInv, BufferInv
<1>3. Speaks(Buffer, Buffer)
  BY <1>2, SpeaksNothing
<1>4. QED
  BY <1>1, <1>2, <1>3, QuietStreams

\* A buffer that is emptied throws its text away.
LEMMA BufferEmptied ==
  ASSUME IInv, queue' = <<>>, size' = 0, timer' \in {"off", "set", "fresh"},
         UNCHANGED <<runs, out, adrift, heard>>
  PROVE  BufferInv(Buffer, heard)' /\ Streams
<1> DEFINE r == [Buffer EXCEPT !.queue = <<>>, !.size = 0, !.timer = timer']
<1>1. BufferInv(Buffer, heard) /\ Buffer \in Buffers /\ heard \in Nat
  BY DEF IInv, TypeOK, BufferInv
<1>2. <<>> \in Seq(Item)
  OBVIOUS
<1>3. /\ r \in Buffers /\ r.queue = <<>> /\ r.size = 0 /\ r.out = Buffer.out
      /\ r.runs = Buffer.runs
  BY <1>1, <1>2 DEF Buffers
<1>4. Becomes(r)
  BY DEF Becomes, Buffer
<1> HIDE DEF r
<1>5. BufferInv(r, heard)
  BY <1>1, <1>3, EmptiedKeeps
<1>6. BufferInv(Buffer, heard)'
  <2>1. Buffer' = r
    BY <1>3, <1>4, BufferBecomes
  <2>2. QED
    BY <1>5, <2>1
<1>7. Stream!ThrowAway
  BY NumbersOfNothing DEF Stream!ThrowAway
<1>8. QED
  BY <1>6, <1>7 DEF Streams

\* bufferTokens.
LEMMA TokensKeeps ==
  ASSUME IInv, NEW text \in Texts, Tokens(text)
  PROVE  BufferInv(Buffer, heard)' /\ Watched(Buffer)' /\ Streams
<1> DEFINE t == IF timer = "set" THEN "fresh" ELSE timer
           l == Len(text)
           items == Numbered(text)
           b == [Buffer EXCEPT !.queue = @ \o items, !.size = @ + l, !.timer = t]
           r == Feed(b, StreamOpen, FALSE)
<1>1. /\ BufferInv(Buffer, heard) /\ heard \in Nat /\ t \in {"off", "set", "fresh"}
      /\ StreamOpen \in BOOLEAN
  BY DEF IInv, TypeOK, StreamOpen
<1>2. text \in Seq({"word", "stop"}) /\ l \in Nat /\ \A i \in 1..l : text[i] \in {"word", "stop"}
  BY BufferAssumption DEF BufferAssumption
<1>3. /\ items \in Seq(Item) /\ Len(items) = l
      /\ \A i \in 1..l : items[i].n = heard + i /\ IsText(items[i])
  <2>1. \A i \in 1..l : [kind |-> text[i], n |-> heard + i] \in Item
    BY <1>1, <1>2 DEF Item
  <2>2. \A i \in 1..l : IsText([kind |-> text[i], n |-> heard + i])
    BY <1>2 DEF IsText
  <2>3. items = [i \in 1..l |-> [kind |-> text[i], n |-> heard + i]]
    BY DEF Numbered
  <2> HIDE DEF l, items
  <2>4. QED
    BY <1>2, <2>1, <2>2, <2>3
<1>4. heard' = heard + l /\ heard' \in Nat /\ heard <= heard'
  BY <1>1, <1>2 DEF Tokens
<1>5. Becomes(r)
  <2>1. b = [Buffer EXCEPT !.queue = @ \o Numbered(text), !.size = @ + Len(text),
                           !.timer = IF @ = "set" THEN "fresh" ELSE @]
    BY DEF Buffer
  <2> HIDE DEF b
  <2>2. QED
    BY <2>1 DEF Tokens
<1> HIDE DEF t, l
<1>6. /\ b \in Buffers /\ b.queue = Buffer.queue \o items /\ b.size = Buffer.size + l
      /\ b.out = Buffer.out /\ b.runs = Buffer.runs
  <2>1. /\ Buffer \in Buffers /\ Buffer.queue \in Seq(Item) /\ Buffer.size \in Nat
        /\ Buffer.out \in Seq(Item) /\ Buffer.runs \in Seq(Run) /\ Buffer.adrift \in BOOLEAN
    BY <1>1 DEF BufferInv, Buffers
  <2> HIDE DEF items
  <2>2. Buffer.queue \o items \in Seq(Item) /\ Buffer.size + l \in Nat
    BY <1>2, <1>3, <2>1, ConcatProperties
  <2>3. QED
    BY <1>1, <2>1, <2>2 DEF Buffers
<1>7. Buffer.queue = queue /\ Buffer.out = out
  BY DEF Buffer
<1> HIDE DEF b, items
<1>8. BufferInv(b, heard') /\ Numbers(b.queue) = Numbers(Buffer.queue) \o Numbers(items)
  <2> DEFINE h == heard'
  <2>1. /\ heard \in Nat /\ h \in Nat /\ items \in Seq(Item) /\ h = heard + Len(items)
        /\ \A i \in 1..Len(items) : items[i].n = heard + i /\ IsText(items[i])
    BY <1>1, <1>3, <1>4
  <2>2. /\ BufferInv(Buffer, heard) /\ b \in Buffers /\ b.queue = Buffer.queue \o items
        /\ b.size = Buffer.size + Len(items) /\ b.out = Buffer.out /\ b.runs = Buffer.runs
    BY <1>1, <1>3, <1>6
  <2> HIDE DEF h
  <2>3. TextQueued(Buffer, b, items, heard, h)
    BY <2>1, <2>2 DEF TextQueued
  <2>4. BufferInv(b, h) /\ Numbers(b.queue) = Numbers(Buffer.queue) \o Numbers(items)
    BY <2>3, TextWaits
  <2>5. QED
    BY <2>4 DEF h
<1>9. BufferInv(r, heard') /\ Watched(r) /\ Speaks(b, r)
  BY <1>1, <1>4, <1>8, FeedKeeps, FeedWatches
<1> HIDE DEF r
<1>10. BufferInv(Buffer, heard)' /\ Watched(Buffer)'
  <2>1. r \in Buffers
    BY <1>9 DEF BufferInv
  <2>2. Buffer' = r
    BY <1>5, <2>1, BufferBecomes
  <2>3. QED
    BY <1>9, <2>2
<1>11. Stream!Stream
  <2>1. Stream!Pieces(heard, heard') = Numbers(items)
    <3>1. heard' - heard = l
      BY <1>1, <1>2, <1>4
    <3>2. Stream!Pieces(heard, heard') = [i \in 1..l |-> heard + i]
      BY <3>1 DEF Stream!Pieces
    <3>3. Numbers(items) = [i \in 1..Len(items) |-> items[i].n]
      BY <1>3, NumbersOfText
    <3>4. QED
      BY <1>3, <3>2, <3>3
  <2>2. b.out = out /\ Numbers(b.queue) = Numbers(queue) \o Stream!Pieces(heard, heard')
    BY <1>6, <1>7, <1>8, <2>1
  <2>3. r \in Buffers
    BY <1>9 DEF BufferInv
  <2>4. QED
    BY <1>4, <1>5, <1>9, <2>2, <2>3, SpeaksStreams
<1>12. QED
  BY <1>10, <1>11 DEF Streams

\* flush.
LEMMA FlushKeeps ==
  ASSUME IInv, Flush
  PROVE  BufferInv(Buffer, heard)' /\ Streams
<1> DEFINE x == [kind |-> "flush", n |-> heard]
<1>1. BufferInv(Buffer, heard) /\ heard \in Nat /\ Buffer \in Buffers /\ heard' = heard
  BY DEF IInv, TypeOK, BufferInv, Flush
<1>2. x \in Item /\ ~IsText(x) /\ x.n <= heard
  BY <1>1 DEF Item, IsText
<1>3. Buffer.queue = queue /\ Buffer.out = out
  BY DEF Buffer
<1>4. UNCHANGED <<size, timer, runs, adrift>>
  BY DEF Flush
<1>5. CASE queue = <<>> /\ out' = Append(out, x) /\ UNCHANGED queue
  <2> DEFINE r == [Buffer EXCEPT !.out = Append(@, x)]
  <2>1. BufferInv(r, heard) /\ Speaks(Buffer, r)
    <3>1. \A j \in 1..Len(Buffer.queue) : IsText(Buffer.queue[j]) => x.n < Buffer.queue[j].n
      BY <1>3, <1>5
    <3> HIDE DEF x
    <3>2. QED
      BY <1>1, <1>2, <3>1, FlushHandedOver
  <2>2. Becomes(r)
    BY <1>4, <1>5 DEF Becomes, Buffer
  <2> HIDE DEF r
  <2>3. QED
    BY <1>1, <2>1, <2>2, QuietStreams
<1>6. CASE /\ UNCHANGED out /\ queue' = Append(queue, x)
           /\ queue # <<>> => IsText(queue[Len(queue)])
  <2> DEFINE r == [Buffer EXCEPT !.queue = Append(@, x)]
  <2>1. BufferInv(r, heard) /\ Speaks(Buffer, r)
    <3>1. Buffer.queue # <<>> => IsText(Buffer.queue[Len(Buffer.queue)])
      BY <1>3, <1>6
    <3> HIDE DEF x
    <3>2. QED
      BY <1>1, <1>2, <3>1, FlushWaits
  <2>2. Becomes(r)
    BY <1>4, <1>6 DEF Becomes, Buffer
  <2> HIDE DEF r
  <2>3. QED
    BY <1>1, <2>1, <2>2, QuietStreams
<1>7. CASE UNCHANGED <<queue, out>>
  <2>1. UNCHANGED bufferVars
    BY <1>4, <1>7 DEF bufferVars
  <2>2. QED
    BY <1>1, <2>1, BufferUnchanged
<1>8. QED
  BY <1>5, <1>6, <1>7 DEF Flush

\* The text before a flush was sent: now the flush is, even if the buffer was emptied.
LEMMA TextSentKeeps ==
  ASSUME IInv, TextSent
  PROVE  BufferInv(Buffer, heard)' /\ Streams
<1> DEFINE x == [kind |-> "flush", n |-> Head(runs).mark]
           c == [Rest EXCEPT !.out = Append(@, x)]
           r == Await(c, "flush", Head(runs).late)
<1>1. BufferInv(Buffer, heard) /\ heard \in Nat /\ heard' = heard /\ Buffer \in Buffers
  BY DEF IInv, TypeOK, BufferInv, TextSent
<1>2. Buffer.queue = queue /\ Buffer.out = out /\ Buffer.runs = runs
  BY DEF Buffer
<1>3. runs # <<>> /\ Head(runs).at = "text" /\ Becomes(r)
  BY DEF TextSent, Answered
<1>4. /\ BufferInv(Rest, heard) /\ Head(runs) \in Run /\ Head(runs).mark <= heard
      /\ \A j \in 1..Len(queue) : IsText(queue[j]) => Head(runs).mark < queue[j].n
  <2>1. Rest = [Buffer EXCEPT !.runs = Tail(@)]
    BY DEF Rest
  <2>2. QED
    BY <1>1, <1>2, <1>3, <2>1, AnswerKeeps
<1>5. Rest.queue = queue /\ Rest.out = out /\ Rest \in Buffers
  BY <1>1, <1>2, <1>4 DEF Rest, Buffers, BufferInv
<1>6. x \in Item /\ ~IsText(x) /\ x.n <= heard /\ x.n = Head(runs).mark
  BY <1>4 DEF Item, IsText, Run
<1>7. Head(runs).late \in BOOLEAN
  BY <1>4 DEF Run
<1> HIDE DEF x
<1>8. BufferInv(c, heard) /\ Speaks(Rest, c)
  BY <1>1, <1>4, <1>5, <1>6, FlushHandedOver
<1> HIDE DEF c
<1>9. BufferInv(r, heard) /\ r.queue = c.queue /\ r.out = c.out
  BY <1>1, <1>7, <1>8, AwaitKeeps
<1>10. Speaks(Buffer, r)
  BY <1>2, <1>5, <1>8, <1>9 DEF Speaks
<1> HIDE DEF r
<1>11. QED
  BY <1>1, <1>3, <1>9, <1>10, QuietStreams

\* A run goes on after its flush or chunk was sent.
LEMMA AnsweredKeeps ==
  ASSUME IInv, runs # <<>>, heard' = heard, NEW r, Becomes(r),
         \/ \E late \in BOOLEAN : r = Phase1(Rest, late) \/ r = Front(Rest, late)
         \/ r = Feed(Rest, StreamOpen, FALSE)
  PROVE  BufferInv(Buffer, heard)' /\ Streams
<1>1. BufferInv(Buffer, heard) /\ heard \in Nat /\ Buffer \in Buffers /\ StreamOpen \in BOOLEAN
  BY DEF IInv, TypeOK, BufferInv, StreamOpen
<1>2. BufferInv(Rest, heard)
  <2>1. Rest = [Buffer EXCEPT !.runs = Tail(@)] /\ Buffer.runs = runs
    BY DEF Rest, Buffer
  <2>2. QED
    BY <1>1, <2>1, AnswerKeeps
<1>3. Rest.queue = Buffer.queue /\ Rest.out = Buffer.out
  BY <1>1 DEF Rest, Buffers
<1>4. BufferInv(r, heard) /\ Speaks(Rest, r)
  BY <1>1, <1>2, Phase1Keeps, FrontKeeps, FeedKeeps
<1>5. Speaks(Buffer, r)
  BY <1>3, <1>4 DEF Speaks
<1>6. QED
  BY <1>4, <1>5, QuietStreams

\* _onTimeout.
LEMMA TimeoutKeeps ==
  ASSUME IInv, Timeout
  PROVE  BufferInv(Buffer, heard)' /\ Streams
<1> DEFINE b == [Buffer EXCEPT !.timer = "off"]
<1>1. /\ BufferInv(Buffer, heard) /\ heard \in Nat /\ heard' = heard /\ Buffer \in Buffers
      /\ StreamOpen \in BOOLEAN
  BY DEF IInv, TypeOK, BufferInv, StreamOpen, Timeout
<1>2. /\ b \in Buffers /\ b.queue = Buffer.queue /\ b.out = Buffer.out /\ b.size = Buffer.size
      /\ b.runs = Buffer.runs
  BY <1>1 DEF Buffers
<1>3. Becomes(IF timer = "fresh" THEN SetTimer(b) ELSE Feed(b, StreamOpen, TRUE))
  BY DEF Timeout
<1> HIDE DEF b
<1>4. BufferInv(b, heard)
  BY <1>1, <1>2, OtherFieldsKeep
<1>5. BufferInv(SetTimer(b), heard) /\ Speaks(b, SetTimer(b))
  <2> DEFINE c == SetTimer(b)
  <2>1. /\ c \in Buffers /\ c.queue = b.queue /\ c.out = b.out /\ c.size = b.size
        /\ c.runs = b.runs
    BY <1>2 DEF Buffers, SetTimer
  <2> HIDE DEF c
  <2>2. BufferInv(c, heard) /\ Speaks(b, c)
    BY <1>1, <1>4, <2>1, OtherFieldsKeep
  <2>3. QED
    BY <2>2 DEF c
<1>6. BufferInv(Feed(b, StreamOpen, TRUE), heard) /\ Speaks(b, Feed(b, StreamOpen, TRUE))
  BY <1>1, <1>4, FeedKeeps
<1>7. PICK r : Becomes(r) /\ BufferInv(r, heard) /\ Speaks(b, r)
  BY <1>3, <1>5, <1>6
<1>8. Speaks(Buffer, r)
  BY <1>2, <1>7 DEF Speaks
<1>9. QED
  BY <1>1, <1>7, <1>8, QuietStreams

\* _onConnect.
LEMMA ConnectedKeeps ==
  ASSUME IInv, Connected
  PROVE  BufferInv(Buffer, heard)' /\ Streams
<1>1. BufferInv(Buffer, heard) /\ heard \in Nat /\ heard' = heard /\ say \in BOOLEAN
  BY DEF IInv, TypeOK, Connected
<1>2. CASE queue = <<>>
  BY <1>1, <1>2, BufferUnchanged DEF Connected
<1>3. CASE queue # <<>>
  <2> DEFINE r == Feed(Buffer, say, FALSE)
  <2>1. Becomes(r)
    BY <1>3 DEF Connected
  <2>2. BufferInv(r, heard) /\ Speaks(Buffer, r)
    BY <1>1, FeedKeeps
  <2> HIDE DEF r
  <2>3. QED
    BY <1>1, <2>1, <2>2, QuietStreams
<1>4. QED
  BY <1>2, <1>3

\* Every step keeps the order of text and flushes and is a step of the stream.
LEMMA NextKeeps ==
  ASSUME IInv, Next
  PROVE  BufferInv(Buffer, heard)' /\ Streams
<1>1. ASSUME NEW text \in Texts, Tokens(text) PROVE BufferInv(Buffer, heard)' /\ Streams
  BY <1>1, TokensKeeps
<1>2. ASSUME NEW text \in Texts, TokensRejected(text) PROVE BufferInv(Buffer, heard)' /\ Streams
  BY <1>2, BufferUnchanged DEF TokensRejected
<1>3. CASE Flush
  BY <1>3, FlushKeeps
<1>4. CASE Clear
  BY <1>4, BufferEmptied DEF Clear
<1>5. CASE Say
  <2>1. CASE SayKilled
    BY <2>1, BufferEmptied DEF SayKilled, Stop
  <2>2. CASE SayBegins \/ SayStarts \/ SayEnds
    BY <2>2, BufferUnchanged DEF SayBegins, SayStarts, SayEnds
  <2>3. QED
    BY <1>5, <2>1, <2>2 DEF Say
<1>6. CASE Connected
  BY <1>6, ConnectedKeeps
<1>7. CASE ConnectFails
  <2>1. timer' \in {"off", "set", "fresh"}
    BY <1>7 DEF ConnectFails, IInv, TypeOK
  <2>2. QED
    BY <1>7, <2>1, BufferEmptied DEF ConnectFails
<1>8. CASE ConnectRefused \/ ConnectUnheard
  BY <1>8, BufferUnchanged DEF ConnectRefused, ConnectUnheard
<1>9. CASE TextSent
  BY <1>9, TextSentKeeps
<1>10. CASE FlushSent \/ FrontFlushSent \/ ChunkSent
  <2>1. /\ runs # <<>> /\ heard' = heard /\ Head(runs).late \in BOOLEAN
    <3>1. runs # <<>> /\ heard' = heard /\ runs \in Seq(Run)
      BY <1>10 DEF FlushSent, FrontFlushSent, ChunkSent, Answered, IInv, TypeOK
    <3>2. Head(runs) \in Run
      BY <3>1
    <3>3. QED
      BY <3>1, <3>2 DEF Run
  <2>2. CASE FlushSent
    <3> DEFINE r == Phase1(Rest, Head(runs).late)
    <3>1. Becomes(r) /\ \E late \in BOOLEAN : r = Phase1(Rest, late)
      BY <2>1, <2>2 DEF FlushSent
    <3> HIDE DEF r
    <3>2. QED
      BY <2>1, <3>1, AnsweredKeeps
  <2>3. CASE FrontFlushSent
    <3> DEFINE r == Front(Rest, Head(runs).late)
    <3>1. Becomes(r) /\ \E late \in BOOLEAN : r = Front(Rest, late)
      BY <2>1, <2>3 DEF FrontFlushSent
    <3> HIDE DEF r
    <3>2. QED
      BY <2>1, <3>1, AnsweredKeeps
  <2>4. CASE ChunkSent
    <3> DEFINE r == Feed(Rest, StreamOpen, FALSE)
    <3>1. Becomes(r) /\ r = Feed(Rest, StreamOpen, FALSE)
      BY <2>4 DEF ChunkSent
    <3> HIDE DEF r
    <3>2. QED
      BY <2>1, <3>1, AnsweredKeeps
  <2>5. QED
    BY <1>10, <2>2, <2>3, <2>4
<1>11. CASE Timeout
  BY <1>11, TimeoutKeeps
<1>12. QED
  BY <1>1, <1>2, <1>3, <1>4, <1>5, <1>6, <1>7, <1>8, <1>9, <1>10, <1>11
  DEF Next, Application, FreeSwitch
\* After every step, what waits is looked after.
LEMMA NextWatches ==
  ASSUME IInv, Watched(Buffer), Next
  PROVE  Watched(Buffer)'
<1>1. /\ BufferInv(Buffer, heard) /\ heard \in Nat /\ Buffer \in Buffers
      /\ StreamOpen \in BOOLEAN /\ say \in BOOLEAN
  BY DEF IInv, TypeOK, BufferInv, StreamOpen
<1>2. ASSUME UNCHANGED <<size, timer, runs, adrift>> PROVE Watched(Buffer)'
  BY <1>2 DEF Watched, Buffer
<1>3. ASSUME size' = 0 PROVE Watched(Buffer)'
  BY <1>3 DEF Watched, Buffer
<1>4. ASSUME NEW r \in Buffers, Watched(r), Becomes(r) PROVE Watched(Buffer)'
  BY <1>4, BufferBecomes
<1>5. ASSUME NEW b, BufferInv(b, heard), NEW open \in BOOLEAN, NEW late \in BOOLEAN,
             NEW r, r = Feed(b, open, late) \/ r = Phase1(b, late) \/ r = Front(b, late),
             Becomes(r)
      PROVE  Watched(Buffer)'
  <2>1. BufferInv(r, heard) /\ Watched(r)
    BY <1>1, <1>5, FeedKeeps, Phase1Keeps, FrontKeeps, FeedWatches, Phase1Watches, FrontWatches
  <2>2. r \in Buffers
    BY <2>1 DEF BufferInv
  <2>3. QED
    BY <1>4, <1>5, <2>1, <2>2
<1>6. ASSUME NEW text \in Texts, Tokens(text) PROVE Watched(Buffer)'
  BY <1>6, TokensKeeps
<1>7. CASE \/ Flush \/ SayBegins \/ SayStarts \/ SayEnds \/ ConnectRefused \/ ConnectUnheard
           \/ \E text \in Texts : TokensRejected(text)
  BY <1>2, <1>7 DEF Flush, SayBegins, SayStarts, SayEnds, ConnectRefused, ConnectUnheard,
                    TokensRejected, bufferVars
<1>8. CASE Clear \/ SayKilled \/ ConnectFails
  BY <1>3, <1>8 DEF Clear, SayKilled, Stop, ConnectFails
<1>9. CASE Connected
  <2>1. CASE queue = <<>>
    BY <1>2, <1>9, <2>1 DEF Connected, bufferVars
  <2>2. CASE queue # <<>>
    <3> DEFINE r == Feed(Buffer, say, FALSE)
    <3>1. Becomes(r)
      BY <1>9, <2>2 DEF Connected
    <3> HIDE DEF r
    <3>2. r = Feed(Buffer, say, FALSE)
      BY DEF r
    <3>3. QED
      BY <1>1, <1>5, <3>1, <3>2
  <2>3. QED
    BY <2>1, <2>2
<1>10. CASE Timeout
  <2> DEFINE b == [Buffer EXCEPT !.timer = "off"]
             c == SetTimer(b)
             r == Feed(b, StreamOpen, TRUE)
  <2>1. /\ b \in Buffers /\ b.queue = Buffer.queue /\ b.out = Buffer.out
        /\ b.size = Buffer.size /\ b.runs = Buffer.runs
    BY <1>1 DEF Buffers
  <2>2. Becomes(IF timer = "fresh" THEN c ELSE r)
    BY <1>10 DEF Timeout
  <2>3. c \in Buffers
    BY <2>1 DEF Buffers, SetTimer
  <2> HIDE DEF b
  <2>4. BufferInv(b, heard)
    BY <1>1, <2>1, OtherFieldsKeep
  <2>5. Watched(c)
    BY <2>1, SetTimerWatches
  <2> HIDE DEF c
  <2>6. CASE Becomes(c)
    BY <1>4, <2>3, <2>5, <2>6
  <2>7. CASE Becomes(r)
    <3> HIDE DEF r
    <3>1. r = Feed(b, StreamOpen, TRUE)
      BY DEF r
    <3>2. QED
      BY <1>1, <1>5, <2>4, <2>7, <3>1
  <2>8. QED
    BY <2>2, <2>6, <2>7
<1>11. CASE TextSent
  <2>1. runs' = Append(Tail(runs), [at |-> "flush", late |-> Head(runs).late, mark |-> 0])
    BY <1>11 DEF TextSent, Becomes, Await, Rest, Buffer
  <2>2. Tail(runs) \in Seq(Run)
    <3>1. runs \in Seq(Run) /\ runs # <<>>
      BY <1>11 DEF TextSent, Answered, IInv, TypeOK
    <3>2. QED
      BY <3>1
  <2>3. runs' # <<>>
    BY <2>1, <2>2
  <2>4. QED
    BY <2>3 DEF Watched, Buffer
<1>12. CASE FlushSent \/ FrontFlushSent \/ ChunkSent
  <2>1. runs # <<>>
    BY <1>12 DEF FlushSent, FrontFlushSent, ChunkSent, Answered
  <2>2. BufferInv(Rest, heard) /\ Head(runs).late \in BOOLEAN
    <3>1. Rest = [Buffer EXCEPT !.runs = Tail(@)] /\ Buffer.runs = runs
      BY DEF Rest, Buffer
    <3>2. BufferInv(Rest, heard) /\ Head(runs) \in Run
      BY <1>1, <2>1, <3>1, AnswerKeeps
    <3>3. QED
      BY <3>2 DEF Run
  <2>3. \E late \in BOOLEAN : \E r :
          /\ Becomes(r)
          /\ r = Feed(Rest, StreamOpen, late) \/ r = Phase1(Rest, late) \/ r = Front(Rest, late)
    <3>1. CASE FlushSent
      BY <2>2, <3>1 DEF FlushSent
    <3>2. CASE FrontFlushSent
      BY <2>2, <3>2 DEF FrontFlushSent
    <3>3. CASE ChunkSent
      BY <3>3 DEF ChunkSent
    <3>4. QED
      BY <1>12, <3>1, <3>2, <3>3
  <2>4. QED
    BY <1>1, <1>5, <2>2, <2>3
<1>13. QED
  BY <1>6, <1>7, <1>8, <1>9, <1>10, <1>11, <1>12
  DEF Next, Application, Say, FreeSwitch

\* No step buffers more text than it accepts.
LEMMA SizeGrows ==
  ASSUME IInv, IInv', Next
  PROVE  size' <= size + (heard' - heard)
<1>1. /\ size = Len(Numbers(queue)) /\ size' = Len(Numbers(queue'))
      /\ queue \in Seq(Item) /\ queue' \in Seq(Item) /\ heard \in Nat /\ heard' \in Nat
  BY DEF IInv, TypeOK
<1>2. Numbers(queue) \in Seq(Nat) /\ Numbers(queue') \in Seq(Nat)
  BY <1>1, NumbersType
<1>3. CASE Stream!Stream
  <2> DEFINE p == Stream!Pieces(heard, heard')
             all == Numbers(queue) \o p
  <2>0. heard \in Nat /\ heard' \in Nat /\ heard <= heard'
    BY <1>1, <1>3 DEF Stream!Stream
  <2>1. \E n \in 0..Len(all) : Numbers(queue') = SubSeq(all, n + 1, Len(all))
    BY <1>3 DEF Stream!Stream
  <2>2. p \in Seq(Nat) /\ Len(p) = heard' - heard
    <3>1. \A m, n \in Nat : m <= n => \E d \in Nat : n = m + d
      <4>1. ASSUME NEW m \in Nat, NEW n \in Nat, m <= n PROVE n - m \in Nat /\ n = m + (n - m)
        BY <4>1
      <4>2. QED
        BY <4>1
    <3>2. PICK d \in Nat : heard' = heard + d
      BY <2>0, <3>1
    <3>3. heard' - heard = d
      BY <2>0, <3>2
    <3>4. p = [i \in 1..d |-> heard + i]
      BY <3>3 DEF Stream!Pieces
    <3> HIDE DEF p
    <3>5. p \in Seq(Nat) /\ Len(p) = d
      BY <2>0, <3>4
    <3>6. QED
      BY <3>3, <3>5
  <2> HIDE DEF p
  <2>3. all \in Seq(Nat) /\ Len(all) = Len(Numbers(queue)) + Len(p)
    BY <1>2, <2>2, ConcatProperties
  <2> HIDE DEF all
  <2>4. PICK n \in 0..Len(all) : Numbers(queue') = SubSeq(all, n + 1, Len(all))
    BY <2>1
  <2>5. Len(Numbers(queue')) <= Len(all)
    BY <2>3, <2>4
  <2>6. QED
    BY <1>1, <2>2, <2>3, <2>5
<1>4. CASE Stream!ThrowAway
  <2>1. Numbers(queue)' = <<>> /\ heard' = heard
    BY <1>4 DEF Stream!ThrowAway
  <2>2. size' = 0
    BY <1>1, <2>1
  <2>3. QED
    BY <1>1, <2>1, <2>2
<1>5. CASE UNCHANGED <<heard, Numbers(queue), Numbers(out)>>
  BY <1>1, <1>5
<1>6. QED
  BY <1>3, <1>4, <1>5, NextKeeps DEF Streams
----------------------------------------------------------------------------
(* Theorems *)

\* The invariant holds at first ...
LEMMA InitInv == ASSUME Init PROVE IInv
<1> DEFINE r == [queue |-> <<>>, size |-> 0, timer |-> "off", runs |-> <<>>, out |-> <<>>,
                 adrift |-> FALSE]
<1>1. <<>> \in Seq(Item) /\ <<>> \in Seq(Run) /\ Len(<<>>) = 0
  OBVIOUS
<1>2. Buffer = r /\ r \in Buffers
  BY <1>1 DEF Init, Buffer, Buffers
<1>3. /\ r.queue = <<>> /\ r.size = 0 /\ r.out = <<>> /\ r.runs = <<>>
  OBVIOUS
<1> HIDE DEF r
<1>4. /\ InOrder(r.queue) /\ InOrder(r.out) /\ Precedes(r.out, r.queue)
      /\ MarksPrecede(r.runs, r.queue) /\ Within(r, 0)
  BY <1>1, <1>3 DEF InOrder, Precedes, MarksPrecede, Within
<1>5. Apart(r.queue)
  <2>1. 1..Len(r.queue) - 1 = {}
    BY <1>1, <1>3
  <2>2. QED
    BY <2>1 DEF Apart
<1>6. r.size = Len(Numbers(r.queue))
  BY <1>1, <1>3, NumbersOfNothing
<1>7. BufferInv(Buffer, heard)
  BY <1>2, <1>4, <1>5, <1>6 DEF BufferInv, Init
<1>8. OtherTypes
  BY DEF Init, OtherTypes
<1>9. QED
  BY <1>7, <1>8, TypesOfBuffer

\* ... and every step keeps it.
LEMMA NextInv == ASSUME IInv, [Next]_vars PROVE IInv'
<1>1. CASE Next
  <2>1. OtherTypes' /\ BufferInv(Buffer, heard)'
    BY <1>1, OtherTypesKept, NextKeeps
  <2>2. QED
    BY <2>1 DEF IInv, TypeOK, OtherTypes, BufferInv, Buffers, Buffer
<1>2. CASE UNCHANGED vars
  BY <1>2 DEF IInv, TypeOK, Buffer, vars
<1>3. QED
  BY <1>1, <1>2

\* The inductive invariant: types, the count of buffered text, and the order of text and
\* flushes in queue and output and of the flushes that runs of _feedQueue remember.
THEOREM Invariance == Spec => []IInv
<1>1. Init => IInv
  BY InitInv
<1>2. IInv /\ [Next]_vars => IInv'
  BY NextInv
<1>3. QED
  BY <1>1, <1>2, PTL DEF Spec

\* Every variable has its type; bufferedLength counts the text that is queued.
THEOREM TypesHold == Spec => []TypeOK
<1>1. IInv => TypeOK
  BY DEF IInv
<1>2. QED
  BY <1>1, Invariance, PTL

\* No flush overtakes a word it was sent after, however runs of _feedQueue interleave
\* (flush, _feedQueue).
THEOREM FlushesFollowTheirText == Spec => []FlushFollowsItsText
<1>1. IInv => FlushFollowsItsText
  <2>1. Buffer.out = out
    BY DEF Buffer
  <2>2. QED
    BY <2>1 DEF IInv, BufferInv, InOrder, FlushFollowsItsText
<1>2. QED
  BY <1>1, Invariance, PTL

\* Two flushes are never adjacent in the queue (flush drops the second) ...
TextBetweenFlushes == \A i \in 1..Len(queue) - 1 : IsText(queue[i]) \/ IsText(queue[i + 1])

\* ... so that phase 1 never sends an empty text (_feedQueue).
THEOREM FlushesAreApart == Spec => []TextBetweenFlushes
<1>1. IInv => TextBetweenFlushes
  <2>1. Buffer.queue = queue
    BY DEF Buffer
  <2>2. QED
    BY <2>1 DEF IInv, BufferInv, Apart, TextBetweenFlushes
<1>2. QED
  BY <1>1, Invariance, PTL

\* Text that waits is looked at again, by a run of _feedQueue when FreeSWITCH answers or
\* when the timer fires, unless the last run found the stream closed ...
TextIsWatched == (size > 0 /\ ~adrift) => (runs # <<>> \/ timer # "off")

\* ... so that no text is forgotten in the buffer (_feedQueue, _setTimerIfNeeded).
THEOREM NoTextIsForgotten == Spec => []TextIsWatched
<1>1. Init => TextIsWatched
  BY DEF Init, TextIsWatched
<1>2. IInv /\ TextIsWatched /\ [Next]_vars => TextIsWatched'
  <2> SUFFICES ASSUME IInv, TextIsWatched, [Next]_vars
               PROVE  TextIsWatched'
    OBVIOUS
  <2>1. CASE Next
    <3>1. Watched(Buffer)
      BY DEF TextIsWatched, Watched, Buffer
    <3>2. Watched(Buffer)'
      BY <2>1, <3>1, NextWatches
    <3>3. QED
      BY <3>2 DEF TextIsWatched, Watched, Buffer
  <2>2. CASE UNCHANGED vars
    BY <2>2 DEF TextIsWatched, vars
  <2>3. QED
    BY <2>1, <2>2
<1>3. QED
  BY <1>1, <1>2, Invariance, PTL DEF Spec

\* The buffer never holds more text than the high-water mark allows ...
BufferIsBounded == size <= High

\* ... since bufferTokens rejects what would exceed it and nothing else makes it grow.
THEOREM NeverTooMuchText == Spec => []BufferIsBounded
<1>1. Init => BufferIsBounded
  BY BufferAssumption DEF BufferAssumption, Init, BufferIsBounded
<1>2. IInv /\ IInv' /\ BufferIsBounded /\ [Next]_vars => BufferIsBounded'
  <2> SUFFICES ASSUME IInv, IInv', BufferIsBounded, [Next]_vars
               PROVE  BufferIsBounded'
    OBVIOUS
  <2>1. size \in Nat /\ heard \in Nat /\ size' \in Nat /\ heard' \in Nat /\ High \in Nat
    BY BufferAssumption, NumbersType DEF BufferAssumption, IInv, TypeOK
  <2>2. CASE Next
    <3>1. size' <= size + (heard' - heard)
      BY <2>2, SizeGrows
    <3>2. ASSUME NEW text \in Texts, Tokens(text)
          PROVE  size' <= High
      <4>1. Len(text) \in Nat
        BY BufferAssumption DEF BufferAssumption
      <4>2. heard' = heard + Len(text) /\ size + Len(text) <= High
        BY <3>2 DEF Tokens
      <4>3. QED
        BY <2>1, <3>1, <4>1, <4>2
    <3>3. CASE heard' = heard
      BY <2>1, <3>1, <3>3 DEF BufferIsBounded
    <3>4. (\E text \in Texts : Tokens(text)) \/ heard' = heard
      BY <2>2
      DEF Next, Application, Say, FreeSwitch, TokensRejected, Flush, Clear, SayBegins,
          SayStarts, SayEnds, SayKilled, Connected, ConnectFails, ConnectRefused,
          ConnectUnheard, TextSent, FlushSent, FrontFlushSent, ChunkSent, Timeout
    <3>5. QED
      BY <3>2, <3>3, <3>4 DEF BufferIsBounded
  <2>3. CASE UNCHANGED vars
    BY <2>3 DEF BufferIsBounded, vars
  <2>4. QED
    BY <2>2, <2>3
<1>3. QED
  BY <1>1, <1>2, Invariance, PTL DEF Spec

\* The buffer implements TextStream: words are spoken in the order they came and once, and
\* are thrown away only with all that waits behind them.
THEOREM Refinement == Spec => StreamsText
<1>1. Init => Stream!Init
  BY NumbersOfNothing DEF Init, Stream!Init
<1>2. IInv /\ [Next]_vars => [Stream!Next]_<<heard, Numbers(queue), Numbers(out)>>
  <2> SUFFICES ASSUME IInv, [Next]_vars
               PROVE  [Stream!Next]_<<heard, Numbers(queue), Numbers(out)>>
    OBVIOUS
  <2>1. CASE Next
    <3>1. Streams
      BY <2>1, NextKeeps
    <3>2. QED
      BY <3>1 DEF Streams, Stream!Next
  <2>2. CASE UNCHANGED vars
    BY <2>2 DEF vars
  <2>3. QED
    BY <2>1, <2>2
<1>3. QED
  BY <1>1, <1>2, Invariance, PTL DEF Spec, StreamsText, Stream!Spec
=============================================================================
