---------------------------- MODULE SequenceLemmas ----------------------------
(***************************************************************************)
(* Lemmas about FlattenSeq, which is defined by recursion over a sequence  *)
(* of sequences: it conforms to its equation, what one sequence more adds, *)
(* and what it does to a concatenation; and a few about concatenations and *)
(* subsequences.  Induction is by the first number for which the fact      *)
(* would not hold.                                                         *)
(***************************************************************************)
EXTENDS Integers, Sequences, SequencesExt, SequenceTheorems, WellFoundedInduction, TLAPS

\* A set of numbers has a least one.
LEMMA Least ==
  ASSUME NEW S, S \subseteq Nat, S # {}
  PROVE  \E i \in S : \A j \in S : i <= j
<1> DEFINE R == OpToRel(<, Nat)
<1>1. IsWellFoundedOn(R, Nat)
  BY NatLessThanWellFounded
<1>2. PICK x \in S : \A y \in S : ~(<<y, x>> \in R)
  <2> HIDE DEF R
  <2>. QED
    BY <1>1, WFMin
<1>3. \A y \in S : ~(y < x)
  BY <1>2 DEF OpToRel
<1>. QED
  BY <1>3

\* A set that contains 0, and the next number of each it contains, contains all.
LEMMA Induction ==
  ASSUME NEW P, 0 \in P, \A n \in Nat : n \in P => n + 1 \in P
  PROVE  Nat \subseteq P
<1> DEFINE Bad == Nat \ P
<1> SUFFICES ASSUME Bad # {} PROVE FALSE
  OBVIOUS
<1>1. PICK n \in Bad : \A m \in Bad : n <= m
  <2>1. Bad \subseteq Nat
    OBVIOUS
  <2> HIDE DEF Bad
  <2>. QED
    BY <2>1, Least
<1>2. n # 0 /\ n - 1 \in Nat /\ n - 1 \notin Bad
  BY <1>1
<1>. QED
  BY <1>1, <1>2

-----------------------------------------------------------------------------
(* The recursion has a solution, and just one.                             *)

\* f is the concatenations of the first sequences.
Flattens(f, seqs, n) ==
  f = [i \in 1 .. n |-> IF i = 1 THEN seqs[i] ELSE f[i - 1] \o seqs[i]]

LEMMA FlattensAt ==
  ASSUME NEW f, NEW seqs, NEW n \in Nat, NEW i \in 1 .. n, Flattens(f, seqs, n)
  PROVE  f[i] = IF i = 1 THEN seqs[i] ELSE f[i - 1] \o seqs[i]
<1>1. f = [j \in 1 .. n |-> IF j = 1 THEN seqs[j] ELSE f[j - 1] \o seqs[j]]
  BY DEF Flattens
<1> DEFINE g == [j \in 1 .. n |-> IF j = 1 THEN seqs[j] ELSE f[j - 1] \o seqs[j]]
<1>2. g[i] = IF i = 1 THEN seqs[i] ELSE f[i - 1] \o seqs[i]
  OBVIOUS
<1>3. f = g
  BY <1>1
<1> HIDE DEF g
<1>. QED
  BY <1>2, <1>3

LEMMA FlattensExists ==
  ASSUME NEW seqs, NEW n \in Nat
  PROVE  \E f : Flattens(f, seqs, n)
<1> DEFINE P == {k \in Nat : \E f : Flattens(f, seqs, k)}
<1>1. 0 \in P
  <2>1. Flattens([i \in 1 .. 0 |-> 0], seqs, 0)
    BY DEF Flattens
  <2>. QED
    BY <2>1
<1>2. ASSUME NEW k \in Nat, k \in P PROVE k + 1 \in P
  <2>1. PICK f : Flattens(f, seqs, k)
    BY <1>2
  <2> DEFINE g == [i \in 1 .. k + 1 |-> IF i \in 1 .. k THEN f[i]
                                        ELSE IF i = 1 THEN seqs[i] ELSE f[i - 1] \o seqs[i]]
  <2>2. \A i \in 1 .. k : f[i] = IF i = 1 THEN seqs[i] ELSE f[i - 1] \o seqs[i]
    BY <2>1 DEF Flattens
  <2>3. \A i \in 1 .. k + 1 : g[i] = IF i = 1 THEN seqs[i] ELSE g[i - 1] \o seqs[i]
    <3> SUFFICES ASSUME NEW i \in 1 .. k + 1
                 PROVE  g[i] = IF i = 1 THEN seqs[i] ELSE g[i - 1] \o seqs[i]
      OBVIOUS
    <3>1. i # 1 => i - 1 \in 1 .. k /\ g[i - 1] = f[i - 1]
      OBVIOUS
    <3>. QED
      BY <2>2, <3>1
  <2>4. Flattens(g, seqs, k + 1)
    BY <2>3 DEF Flattens
  <2>. QED
    BY <2>4
<1>3. Nat \subseteq P
  <2> HIDE DEF P
  <2>. QED
    BY <1>1, <1>2, Induction
<1>. QED
  BY <1>3

LEMMA FlattensIs ==
  ASSUME NEW seqs, Len(seqs) \in Nat \ {0}
  PROVE  \E f : Flattens(f, seqs, Len(seqs)) /\ FlattenSeq(seqs) = f[Len(seqs)]
<1> DEFINE f[i \in 1 .. Len(seqs)] == IF i = 1 THEN seqs[i] ELSE f[i - 1] \o seqs[i]
<1>1. FlattenSeq(seqs) = f[Len(seqs)]
  BY DEF FlattenSeq
<1>2. \E g : g = [i \in 1 .. Len(seqs) |-> IF i = 1 THEN seqs[i] ELSE g[i - 1] \o seqs[i]]
  BY FlattensExists DEF Flattens
<1>3. f = [i \in 1 .. Len(seqs) |-> IF i = 1 THEN seqs[i] ELSE f[i - 1] \o seqs[i]]
  BY <1>2
<1>. QED
  BY <1>1, <1>3 DEF Flattens

\* Two solutions agree as far as the sequences do.
LEMMA FlattensUnique ==
  ASSUME NEW s, NEW t, NEW f, NEW g, NEW n \in Nat,
         Flattens(f, s, n), Flattens(g, t, n + 1), \A i \in 1 .. n : s[i] = t[i]
  PROVE  \A i \in 1 .. n : f[i] = g[i]
<1> DEFINE P == {j \in Nat : j \in 1 .. n => f[j] = g[j]}
<1>1. 0 \in P
  OBVIOUS
<1>2. ASSUME NEW j \in Nat, j \in P PROVE j + 1 \in P
  <2> SUFFICES ASSUME j + 1 \in 1 .. n PROVE f[j + 1] = g[j + 1]
    OBVIOUS
  <2>0. n + 1 \in Nat /\ j + 1 \in 1 .. n /\ j + 1 \in 1 .. n + 1
    OBVIOUS
  <2>1. f[j + 1] = IF j + 1 = 1 THEN s[j + 1] ELSE f[(j + 1) - 1] \o s[j + 1]
    BY <2>0, FlattensAt
  <2>2. g[j + 1] = IF j + 1 = 1 THEN t[j + 1] ELSE g[(j + 1) - 1] \o t[j + 1]
    BY <2>0, FlattensAt
  <2>3. s[j + 1] = t[j + 1] /\ (j + 1) - 1 = j
    OBVIOUS
  <2>4. j # 0 => f[j] = g[j]
    BY <1>2
  <2>. QED
    BY <2>1, <2>2, <2>3, <2>4
<1>3. Nat \subseteq P
  <2> HIDE DEF P
  <2>. QED
    BY <1>1, <1>2, Induction
<1>. QED
  BY <1>3

-----------------------------------------------------------------------------
(* What follows for the operator.                                          *)

LEMMA FlattenEmpty == FlattenSeq(<<>>) = <<>>
  BY DEF FlattenSeq

LEMMA FlattenOne ==
  ASSUME NEW S, NEW s \in Seq(S)
  PROVE  FlattenSeq(<<s>>) = s
<1> DEFINE one == <<s>>
<1>1. Len(one) = 1 /\ one[1] = s /\ 1 \in Nat \ {0}
  OBVIOUS
<1> HIDE DEF one
<1>2. PICK f : Flattens(f, one, 1) /\ FlattenSeq(one) = f[1]
  BY <1>1, FlattensIs
<1>3. f[1] = s
  BY <1>1, <1>2, FlattensAt
<1>. QED
  BY <1>2, <1>3 DEF one

LEMMA FlattenAppend ==
  ASSUME NEW S, NEW seqs \in Seq(Seq(S)), NEW s \in Seq(S)
  PROVE  FlattenSeq(Append(seqs, s)) = FlattenSeq(seqs) \o s
<1> DEFINE n == Len(seqs)
<1> DEFINE more == Append(seqs, s)
<1>1. n \in Nat /\ Len(more) = n + 1 /\ more[n + 1] = s /\ \A i \in 1 .. n : more[i] = seqs[i]
  OBVIOUS
<1>2. CASE n = 0
  <2>1. seqs = <<>> /\ more = <<s>>
    BY <1>2
  <2>. QED
    BY <2>1, FlattenEmpty, FlattenOne
<1>3. CASE n # 0
  <2>1. PICK f : Flattens(f, seqs, n) /\ FlattenSeq(seqs) = f[n]
    BY <1>1, <1>3, FlattensIs
  <2>2. PICK g : Flattens(g, more, n + 1) /\ FlattenSeq(more) = g[n + 1]
    <3> HIDE DEF more
    <3>. QED
      BY <1>1, FlattensIs
  <2>3. f[n] = g[n]
    <3> HIDE DEF more, n
    <3>1. n \in Nat /\ n + 1 \in Nat /\ n <= n /\ n <= n + 1 /\ n \in 1 .. n
      BY <1>1, <1>3
    <3>2. \A i \in 1 .. n : seqs[i] = more[i]
      BY <1>1
    <3>3. \A i \in 1 .. n : f[i] = g[i]
      BY <2>1, <2>2, <3>1, <3>2, FlattensUnique
    <3>. QED
      BY <3>1, <3>3
  <2>4. g[n + 1] = g[(n + 1) - 1] \o more[n + 1]
    <3> HIDE DEF more, n
    <3>2. n + 1 \in Nat /\ n + 1 \in 1 .. n + 1 /\ n + 1 # 1
      BY <1>1, <1>3
    <3>. QED
      BY <2>2, <3>2, FlattensAt
  <2>. QED
    BY <1>1, <2>1, <2>2, <2>3, <2>4
<1>. QED
  BY <1>2, <1>3

LEMMA FlattenType ==
  ASSUME NEW S, NEW seqs \in Seq(Seq(S))
  PROVE  FlattenSeq(seqs) \in Seq(S)
<1> DEFINE P == {n \in Nat : \A q \in Seq(Seq(S)) : Len(q) = n => FlattenSeq(q) \in Seq(S)}
<1>1. 0 \in P
  BY FlattenEmpty
<1>2. ASSUME NEW n \in Nat, n \in P PROVE n + 1 \in P
  <2> SUFFICES ASSUME NEW q \in Seq(Seq(S)), Len(q) = n + 1 PROVE FlattenSeq(q) \in Seq(S)
    OBVIOUS
  <2> DEFINE front == SubSeq(q, 1, n)
  <2>1. front \in Seq(Seq(S)) /\ Len(front) = n /\ q[n + 1] \in Seq(S)
        /\ q = Append(front, q[n + 1])
    OBVIOUS
  <2>2. FlattenSeq(front) \in Seq(S)
    BY <1>2, <2>1
  <2> HIDE DEF front
  <2>3. FlattenSeq(q) = FlattenSeq(front) \o q[n + 1]
    BY <2>1, FlattenAppend
  <2>. QED
    BY <2>1, <2>2, <2>3
<1>3. Nat \subseteq P
  <2> HIDE DEF P
  <2>. QED
    BY <1>1, <1>2, Induction
<1>. QED
  BY <1>3

LEMMA ConcatAssociates ==
  ASSUME NEW S
  PROVE  \A s, t, u \in Seq(S) : (s \o t) \o u = s \o (t \o u)
  BY ConcatAssociative

LEMMA AppendToConcat ==
  ASSUME NEW S, NEW s \in Seq(S), NEW t \in Seq(S), NEW x \in S
  PROVE  s \o t \in Seq(S) /\ s \o Append(t, x) = Append(s \o t, x)
  OBVIOUS

LEMMA FlattenConcat ==
  ASSUME NEW S
  PROVE  \A s, t \in Seq(Seq(S)) : FlattenSeq(s \o t) = FlattenSeq(s) \o FlattenSeq(t)
<1>0. \A a, b, y \in Seq(S) : (a \o b) \o y = a \o (b \o y)
  BY ConcatAssociates
<1> SUFFICES ASSUME NEW s \in Seq(Seq(S)), NEW t \in Seq(Seq(S))
             PROVE  FlattenSeq(s \o t) = FlattenSeq(s) \o FlattenSeq(t)
  OBVIOUS
<1> DEFINE P == {n \in Nat : \A q \in Seq(Seq(S)) :
                   Len(q) = n => FlattenSeq(s \o q) = FlattenSeq(s) \o FlattenSeq(q)}
<1>1. 0 \in P
  <2>1. ASSUME NEW q \in Seq(Seq(S)), Len(q) = 0
        PROVE  FlattenSeq(s \o q) = FlattenSeq(s) \o FlattenSeq(q)
    <3>1. q = <<>> /\ s \o q = s
      BY <2>1
    <3>2. FlattenSeq(s) \in Seq(S)
      BY FlattenType
    <3>. QED
      BY <3>1, <3>2, FlattenEmpty
  <2>. QED
    BY <2>1
<1>2. ASSUME NEW n \in Nat, n \in P PROVE n + 1 \in P
  <2> SUFFICES ASSUME NEW q \in Seq(Seq(S)), Len(q) = n + 1
               PROVE  FlattenSeq(s \o q) = FlattenSeq(s) \o FlattenSeq(q)
    OBVIOUS
  <2> DEFINE front == SubSeq(q, 1, n)
  <2> DEFINE x == q[n + 1]
  <2>0. front \in Seq(Seq(S)) /\ Len(front) = n /\ x \in Seq(S) /\ q = Append(front, x)
    OBVIOUS
  <2>2. FlattenSeq(s \o front) = FlattenSeq(s) \o FlattenSeq(front)
    BY <1>2, <2>0
  <2> HIDE DEF front, x, P
  <2>1. s \o front \in Seq(Seq(S)) /\ s \o q = Append(s \o front, x)
    BY <2>0, AppendToConcat
  <2>3. /\ FlattenSeq(s) \in Seq(S) /\ FlattenSeq(front) \in Seq(S)
        /\ FlattenSeq(q) = FlattenSeq(front) \o x
        /\ FlattenSeq(s \o q) = FlattenSeq(s \o front) \o x
    BY <2>0, <2>1, FlattenType, FlattenAppend
  <2>5. x \in Seq(S)
    BY <2>0
  <2> HIDE <2>0, <2>1
  <2>6. (FlattenSeq(s) \o FlattenSeq(front)) \o x = FlattenSeq(s) \o (FlattenSeq(front) \o x)
    BY <1>0, <2>3, <2>5
  <2>. QED
    BY <2>2, <2>3, <2>6
<1>3. Nat \subseteq P
  <2> HIDE DEF P
  <2>. QED
    BY <1>1, <1>2, Induction
<1>. QED
  BY <1>3

-----------------------------------------------------------------------------
(* Sequences taken apart and put together.                                 *)

LEMMA SplitAt ==
  ASSUME NEW S, NEW s \in Seq(S), NEW n \in 1 .. Len(s)
  PROVE  s = Append(SubSeq(s, 1, n - 1), s[n]) \o SubSeq(s, n + 1, Len(s))
<1>1. 1 \in 1 .. Len(s) + 1 /\ n \in 1 - 1 .. Len(s) /\ Len(s) \in n .. Len(s)
  OBVIOUS
<1>2. SubSeq(s, 1, n) \o SubSeq(s, n + 1, Len(s)) = SubSeq(s, 1, Len(s))
  BY <1>1, ConcatAdjacentSubSeq
<1>3. SubSeq(s, 1, Len(s)) = s
  BY SubSeqFull
<1>4. SubSeq(s, 1, n) = Append(SubSeq(s, 1, n - 1), s[n])
  OBVIOUS
<1>. QED
  BY <1>2, <1>3, <1>4

LEMMA SubSeqMore ==
  ASSUME NEW S, NEW s \in Seq(S), NEW x \in S, NEW p \in Nat, p <= Len(s)
  PROVE  SubSeq(Append(s, x), p + 1, Len(s) + 1) = Append(SubSeq(s, p + 1, Len(s)), x)
<1> DEFINE n == Len(s)
<1> DEFINE more == Append(s, x)
<1> DEFINE a == SubSeq(more, p + 1, n + 1)
<1> DEFINE b == SubSeq(s, p + 1, n)
<1>1. n \in Nat /\ p <= n /\ \A i \in 1 .. n : s[i] \in S
  OBVIOUS
<1>2. more \in Seq(S) /\ \A i \in 1 .. n + 1 : more[i] = IF i = n + 1 THEN x ELSE s[i]
  OBVIOUS
<1>3. a \in Seq(S) /\ Len(a) = (n - p) + 1 /\ \A i \in 1 .. (n - p) + 1 : a[i] = more[p + i]
  BY <1>1, <1>2
<1>4. b \in Seq(S) /\ Len(b) = n - p /\ \A i \in 1 .. n - p : b[i] = s[p + i]
  BY <1>1
<1> HIDE DEF n, more, a, b
<1>5. Append(b, x) \in Seq(S) /\ Len(Append(b, x)) = (n - p) + 1
  BY <1>4
<1>6. \A i \in 1 .. (n - p) + 1 : a[i] = Append(b, x)[i]
  BY <1>1, <1>2, <1>3, <1>4
<1>7. a = Append(b, x)
  BY <1>3, <1>5, <1>6, SeqEqual
<1>. QED
  BY <1>7 DEF a, b, more, n

LEMMA OneBefore ==
  ASSUME NEW S, NEW x \in S, NEW s \in Seq(S)
  PROVE  Len(<<x>> \o s) = Len(s) + 1 /\ (<<x>> \o s)[1] = x /\ Tail(<<x>> \o s) = s
  OBVIOUS

LEMMA MovedOn ==
  ASSUME NEW S, NEW s \in Seq(S), NEW t \in Seq(S), t # <<>>
  PROVE  Append(s, Head(t)) \o Tail(t) = s \o t
<1>1. <<Head(t)>> \in Seq(S) /\ Tail(t) \in Seq(S) /\ t = <<Head(t)>> \o Tail(t)
  OBVIOUS
<1>2. Append(s, Head(t)) = s \o <<Head(t)>>
  BY <1>1
<1>3. (s \o <<Head(t)>>) \o Tail(t) = s \o (<<Head(t)>> \o Tail(t))
  BY <1>1, ConcatAssociative
<1>. QED
  BY <1>1, <1>2, <1>3

LEMMA FirstIsPrefix ==
  ASSUME NEW S, NEW s \in Seq(S), NEW t \in Seq(S)
  PROVE  IsPrefix(s, s \o t)
<1>1. Len(s) <= Len(s \o t)
  OBVIOUS
<1>2. SubSeq(s \o t, 1, Len(s)) = s
  OBVIOUS
<1>3. SubSeq(s, 1, Len(s)) = s
  OBVIOUS
<1>. QED
  BY <1>1, <1>2, <1>3 DEF IsPrefix
=============================================================================
