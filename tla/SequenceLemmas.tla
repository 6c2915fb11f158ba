--------------------------- MODULE SequenceLemmas ---------------------------
(***************************************************************************)
(* Facts about sequences, sums and remainders that the proofs of several   *)
(* programs need.                                                          *)
(*                                                                         *)
(* FlattenSeq is defined by a recursive function, so what it does to a     *)
(* longer sequence is shown by induction.  An induction theorem of the     *)
(* library that takes an operator cannot be used; Climb is made from its   *)
(* least element of a set of numbers instead.                              *)
(***************************************************************************)
EXTENDS SequencesExt, SequenceTheorems, WellFoundedInduction, TLAPS

\* A set that has 0 and the successor of each of its numbers has them all.
LEMMA Climb ==
    ASSUME NEW T \in SUBSET Nat, 0 \in T, \A n \in T : n + 1 \in T
    PROVE  \A n \in Nat : n \in T
<1> SUFFICES ASSUME NEW m \in Nat, m \notin T PROVE FALSE
  OBVIOUS
<1> DEFINE LT == OpToRel(<, Nat)
           U == Nat \ T
<1>1. IsWellFoundedOn(LT, Nat)
  BY NatLessThanWellFounded
<1>2. \A a, b \in Nat : a < b => <<a, b>> \in LT
  BY DEF OpToRel
<1> HIDE DEF LT
<1>3. PICK x \in U : \A y \in U : ~ (<<y, x>> \in LT)
  <2>1. U # {} /\ U \subseteq Nat
    OBVIOUS
  <2> HIDE DEF U
  <2>2. QED
    BY <1>1, <2>1, WFMin
<1>4. x \in Nat /\ x \notin T /\ x # 0
  BY <1>3
<1>5. x - 1 \in Nat /\ x - 1 < x /\ (x - 1) + 1 = x
  BY <1>4
<1>6. x - 1 \in T
  BY <1>2, <1>3, <1>4, <1>5
<1>7. QED
  BY <1>4, <1>5, <1>6

-----------------------------------------------------------------------------
(***************************************************************************)
(* FlattenSeq                                                              *)
(***************************************************************************)
\* What FlattenSeq has gathered after each of the first n sequences of s.
Gathered(s, n, g) ==
    g = [i \in 1 .. n |-> IF i = 1 THEN s[i] ELSE g[i - 1] \o s[i]]

\* There is exactly one such function.
LEMMA GatheredExists ==
    ASSUME NEW s, NEW n \in Nat
    PROVE  \E g : Gathered(s, n, g)
<1> DEFINE T == {k \in Nat : \E g : Gathered(s, k, g)}
<1>1. 0 \in T
  <2>1. Gathered(s, 0, [i \in 1 .. 0 |-> i])
    BY DEF Gathered
  <2>2. QED
    BY <2>1
<1>2. ASSUME NEW k \in T
      PROVE  k + 1 \in T
  <2>1. PICK g : Gathered(s, k, g)
    OBVIOUS
  <2> DEFINE h == [i \in 1 .. k + 1 |->
                     IF i = 1 THEN s[i] ELSE g[i - 1] \o s[i]]
  <2>2. \A i \in 1 .. k : h[i] = g[i]
    <3>1. \A i \in 1 .. k : g[i] = IF i = 1 THEN s[i] ELSE g[i - 1] \o s[i]
      BY <2>1 DEF Gathered
    <3>2. \A i \in 1 .. k : i \in 1 .. k + 1
      OBVIOUS
    <3>3. QED
      BY <3>1, <3>2
  <2>3. Gathered(s, k + 1, h)
    <3>1. \A i \in 1 .. k + 1 : i # 1 => i - 1 \in 1 .. k
      OBVIOUS
    <3>2. \A i \in 1 .. k + 1 :
              h[i] = IF i = 1 THEN s[i] ELSE h[i - 1] \o s[i]
      BY <2>2, <3>1
    <3>3. h = [i \in 1 .. k + 1 |-> h[i]]
      OBVIOUS
    <3> HIDE DEF h
    <3>4. h = [i \in 1 .. k + 1 |->
                 IF i = 1 THEN s[i] ELSE h[i - 1] \o s[i]]
      BY <3>2, <3>3
    <3>5. QED
      BY <3>4 DEF Gathered
  <2>4. QED
    BY <2>3
<1> HIDE DEF T
<1>3. T \in SUBSET Nat
  BY DEF T
<1>4. n \in T
  BY <1>1, <1>2, <1>3, Climb
<1>5. QED
  BY <1>4 DEF T

LEMMA GatheredUnique ==
    ASSUME NEW s, NEW n \in Nat, NEW g, Gathered(s, n, g),
           NEW h, Gathered(s, n, h)
    PROVE  g = h
<1> DEFINE T == {k \in Nat : k + 1 \in 1 .. n => g[k + 1] = h[k + 1]}
<1>1. /\ DOMAIN g = 1 .. n /\ g = [i \in 1 .. n |-> g[i]]
      /\ h = [i \in 1 .. n |-> h[i]]
  BY DEF Gathered
<1>2. /\ \A i \in 1 .. n : g[i] = IF i = 1 THEN s[i] ELSE g[i - 1] \o s[i]
      /\ \A i \in 1 .. n : h[i] = IF i = 1 THEN s[i] ELSE h[i - 1] \o s[i]
  BY DEF Gathered
<1>3. 0 \in T
  BY <1>2
<1>4. ASSUME NEW k \in T
      PROVE  k + 1 \in T
  <2>1. SUFFICES ASSUME k + 2 \in 1 .. n
                 PROVE  g[k + 2] = h[k + 2]
    OBVIOUS
  <2>2. g[k + 1] = h[k + 1] /\ (k + 2) - 1 = k + 1 /\ k + 2 # 1
    BY <2>1
  <2>3. QED
    BY <1>2, <2>1, <2>2
<1> HIDE DEF T
<1>5. T \in SUBSET Nat
  BY DEF T
<1>6. \A k \in Nat : k \in T
  BY <1>3, <1>4, <1>5, Climb
<1>7. ASSUME NEW i \in 1 .. n
      PROVE  g[i] = h[i]
  <2>1. i - 1 \in Nat /\ (i - 1) + 1 = i
    OBVIOUS
  <2>2. QED
    BY <1>6, <2>1 DEF T
<1>8. QED
  BY <1>1, <1>7

\* What FlattenSeq returns is the last of them.
LEMMA FlattenIsGathered ==
    ASSUME NEW s, NEW n \in Nat, n # 0, Len(s) = n, NEW g, Gathered(s, n, g)
    PROVE  FlattenSeq(s) = g[n]
<1>1. \A h : Gathered(s, n, h) => h = g
  BY GatheredUnique
<1>2. \A h : h = [i \in 1 .. n |-> IF i = 1 THEN s[i] ELSE h[i - 1] \o s[i]]
             => h = g
  BY <1>1 DEF Gathered
<1>3. g = [i \in 1 .. n |-> IF i = 1 THEN s[i] ELSE g[i - 1] \o s[i]]
  BY DEF Gathered
<1>4. QED
  BY <1>2, <1>3 DEF FlattenSeq

\* No chunk, no bytes.
LEMMA FlattenEmpty == FlattenSeq(<<>>) = <<>>
BY DEF FlattenSeq

\* One chunk more: its bytes come behind the others.
LEMMA FlattenAppend ==
    ASSUME NEW D, NEW s \in Seq(Seq(D)), NEW x \in Seq(D)
    PROVE  FlattenSeq(Append(s, x)) = FlattenSeq(s) \o x
<1> DEFINE n == Len(s)
           t == Append(s, x)
<1>1. /\ n \in Nat /\ Len(t) = n + 1 /\ n + 1 # 0
      /\ \A i \in 1 .. n : t[i] = s[i]
      /\ t[n + 1] = x
  OBVIOUS
<1> HIDE DEF t
<1>2. PICK g : Gathered(t, n + 1, g)
  BY <1>1, GatheredExists
<1>3. /\ FlattenSeq(t) = g[n + 1]
      /\ \A i \in 1 .. n + 1 : g[i] = IF i = 1 THEN t[i] ELSE g[i - 1] \o t[i]
  <2>1. FlattenSeq(t) = g[n + 1]
    BY <1>1, <1>2, FlattenIsGathered
  <2>2. QED
    BY <1>2, <2>1 DEF Gathered
<1>4. CASE n = 0
  <2>1. FlattenSeq(t) = x
    BY <1>1, <1>3, <1>4
  <2>2. s = <<>>
    BY <1>4
  <2>3. FlattenSeq(s) \o x = x
    BY <2>2, FlattenEmpty
  <2>4. QED
    BY <2>1, <2>3 DEF t
<1>5. CASE n # 0
  <2> DEFINE h == [i \in 1 .. n |-> g[i]]
  <2>1. Gathered(s, n, h)
    <3>1. \A i \in 1 .. n : h[i] = IF i = 1 THEN s[i] ELSE h[i - 1] \o s[i]
      BY <1>1, <1>3
    <3>2. h = [i \in 1 .. n |-> h[i]]
      OBVIOUS
    <3> HIDE DEF h
    <3>3. h = [i \in 1 .. n |-> IF i = 1 THEN s[i] ELSE h[i - 1] \o s[i]]
      BY <3>1, <3>2
    <3>4. QED
      BY <3>3 DEF Gathered
  <2> HIDE DEF h
  <2>2. FlattenSeq(s) = h[n]
    BY <1>1, <1>5, <2>1, FlattenIsGathered
  <2>3. h[n] = g[n]
    BY <1>1, <1>5 DEF h
  <2>4. g[n + 1] = g[n] \o x
    <3>1. n + 1 \in 1 .. n + 1 /\ n + 1 # 1 /\ (n + 1) - 1 = n
      BY <1>1, <1>5
    <3>2. QED
      BY <1>1, <1>3, <3>1
  <2>5. QED
    BY <1>3, <2>2, <2>3, <2>4 DEF t
<1>6. QED
  BY <1>4, <1>5

\* Whatever is flattened has elements of the sort that were there.
LEMMA FlattenType ==
    ASSUME NEW D, NEW s \in Seq(Seq(D))
    PROVE  FlattenSeq(s) \in Seq(D)
<1> DEFINE n == Len(s)
<1>1. n \in Nat /\ \A i \in 1 .. n : s[i] \in Seq(D)
  OBVIOUS
<1>2. CASE n = 0
  <2>1. s = <<>>
    BY <1>2
  <2>2. FlattenSeq(s) = <<>>
    BY <2>1, FlattenEmpty
  <2>3. <<>> \in Seq(D)
    OBVIOUS
  <2>4. QED
    BY <2>2, <2>3
<1>3. CASE n # 0
  <2>1. PICK g : Gathered(s, n, g)
    BY <1>1, GatheredExists
  <2>2. \A i \in 1 .. n : g[i] = IF i = 1 THEN s[i] ELSE g[i - 1] \o s[i]
    BY <2>1 DEF Gathered
  <2> DEFINE T == {k \in Nat : k + 1 \in 1 .. n => g[k + 1] \in Seq(D)}
  <2>3. 0 \in T
    BY <1>1, <2>2
  <2>4. ASSUME NEW k \in T
        PROVE  k + 1 \in T
    <3> SUFFICES ASSUME k + 2 \in 1 .. n
                 PROVE  g[k + 2] \in Seq(D)
      OBVIOUS
    <3>1. g[k + 1] \in Seq(D) /\ s[k + 2] \in Seq(D)
      BY <1>1
    <3>2. g[k + 2] = g[k + 1] \o s[k + 2]
      <4>1. k + 2 # 1 /\ (k + 2) - 1 = k + 1
        OBVIOUS
      <4>2. QED
        BY <2>2, <4>1
    <3>3. QED
      BY <3>1, <3>2
  <2> HIDE DEF T
  <2>5. T \in SUBSET Nat
    BY DEF T
  <2>6. n - 1 \in T
    <3>1. n - 1 \in Nat
      BY <1>1, <1>3
    <3>2. QED
      BY <2>3, <2>4, <2>5, <3>1, Climb
  <2>7. g[n] \in Seq(D)
    BY <1>1, <1>3, <2>6 DEF T
  <2>8. QED
    BY <1>1, <1>3, <2>1, <2>7, FlattenIsGathered
<1>4. QED
  BY <1>2, <1>3

-----------------------------------------------------------------------------
(***************************************************************************)
(* SubSeq and IsPrefix                                                     *)
(***************************************************************************)
\* A sequence is what comes up to a place and what comes behind it.
LEMMA Cut ==
    ASSUME NEW D, NEW s \in Seq(D), NEW n \in 0 .. Len(s)
    PROVE  /\ SubSeq(s, 1, n) \in Seq(D) /\ Len(SubSeq(s, 1, n)) = n
           /\ SubSeq(s, n + 1, Len(s)) \in Seq(D)
           /\ Len(SubSeq(s, n + 1, Len(s))) = Len(s) - n
           /\ SubSeq(s, 1, n) \o SubSeq(s, n + 1, Len(s)) = s
<1>1. Len(s) \in Nat /\ \A i \in 1 .. Len(s) : s[i] \in D
  BY LenProperties, ElementOfSeq
<1>2. SubSeq(s, 1, n) \in Seq(D) /\ Len(SubSeq(s, 1, n)) = n
  BY <1>1, SubSeqProperties
<1>3. /\ SubSeq(s, n + 1, Len(s)) \in Seq(D)
      /\ Len(SubSeq(s, n + 1, Len(s))) = Len(s) - n
  BY <1>1, SubSeqProperties
<1>4. 1 \in 1 .. Len(s) + 1 /\ n \in 1 - 1 .. Len(s) /\ Len(s) \in n .. Len(s)
  BY <1>1
<1>5. SubSeq(s, 1, n) \o SubSeq(s, n + 1, Len(s)) = SubSeq(s, 1, Len(s))
  BY <1>4, ConcatAdjacentSubSeq
<1>6. QED
  BY <1>2, <1>3, <1>5, SubSeqFull

\* The elements of two sequences that have been put together.
LEMMA ConcatAt ==
    ASSUME NEW D, NEW s \in Seq(D), NEW t \in Seq(D)
    PROVE  /\ s \o t \in Seq(D) /\ Len(s \o t) = Len(s) + Len(t)
           /\ \A j \in 1 .. Len(s) : (s \o t)[j] = s[j]
           /\ \A j \in 1 .. Len(t) : (s \o t)[Len(s) + j] = t[j]
<1>1. /\ Len(s) \in Nat /\ Len(t) \in Nat
  BY LenProperties
<1>2. /\ s \o t \in Seq(D) /\ Len(s \o t) = Len(s) + Len(t)
      /\ \A k \in 1 .. Len(s) + Len(t) :
           (s \o t)[k] = IF k <= Len(s) THEN s[k] ELSE t[k - Len(s)]
  BY ConcatProperties
<1>3. ASSUME NEW j \in 1 .. Len(t)
      PROVE  (s \o t)[Len(s) + j] = t[j]
  <2>1. /\ Len(s) + j \in 1 .. Len(s) + Len(t) /\ ~ (Len(s) + j <= Len(s))
        /\ (Len(s) + j) - Len(s) = j
    BY <1>1
  <2>2. QED
    BY <1>2, <2>1
<1>4. ASSUME NEW j \in 1 .. Len(s)
      PROVE  (s \o t)[j] = s[j]
  <2>1. j \in 1 .. Len(s) + Len(t) /\ j <= Len(s)
    BY <1>1
  <2>2. QED
    BY <1>2, <2>1
<1>5. QED
  BY <1>2, <1>3, <1>4

\* Every sequence begins with itself.
LEMMA PrefixOfItself ==
    ASSUME NEW D, NEW s \in Seq(D)
    PROVE  IsPrefix(s, s)
<1>1. Len(s) <= Len(s) /\ SubSeq(s, 1, Len(s)) = SubSeq(s, 1, Len(s))
  BY LenProperties
<1>2. QED
  BY <1>1 DEF IsPrefix

\* A prefix is what something can be put behind to get the sequence.
LEMMA PrefixOfConcat ==
    ASSUME NEW D, NEW s \in Seq(D), NEW t \in Seq(D)
    PROVE  IsPrefix(s, s \o t)
<1>1. /\ s \o t \in Seq(D) /\ Len(s \o t) = Len(s) + Len(t)
      /\ Len(s) \in Nat /\ Len(t) \in Nat
  BY ConcatProperties, LenProperties
<1>2. SubSeq(s \o t, 1, Len(s)) = SubSeq(s, 1, Len(s))
  <2>1. CASE Len(s) = 0
    BY <2>1, SubSeqEmpty
  <2>2. CASE Len(s) # 0
    <3>1. 1 \in 1 .. Len(s) /\ Len(s) \in 1 .. Len(s)
      BY <1>1, <2>2
    <3>2. QED
      BY <3>1, SubSeqOfConcat1
  <2>3. QED
    BY <2>1, <2>2
<1>3. QED
  BY <1>1, <1>2 DEF IsPrefix

LEMMA ConcatOfPrefix ==
    ASSUME NEW D, NEW s \in Seq(D), NEW t \in Seq(D), IsPrefix(s, t)
    PROVE  \E u \in Seq(D) : t = s \o u
<1>1. Len(s) \in 0 .. Len(t)
  BY LenProperties DEF IsPrefix
<1>2. SubSeq(t, 1, Len(s)) = s
  BY SubSeqFull DEF IsPrefix
<1>3. /\ SubSeq(t, Len(s) + 1, Len(t)) \in Seq(D)
      /\ s \o SubSeq(t, Len(s) + 1, Len(t)) = t
  BY <1>1, <1>2, Cut
<1>4. QED
  BY <1>3

\* It stays one when the sequence grows.
LEMMA PrefixGrows ==
    ASSUME NEW D, NEW s \in Seq(D), NEW t \in Seq(D), NEW u \in Seq(D),
           IsPrefix(s, t)
    PROVE  IsPrefix(s, t \o u)
<1>1. PICK v \in Seq(D) : t = s \o v
  BY ConcatOfPrefix
<1>2. t \o u = s \o (v \o u) /\ v \o u \in Seq(D)
  BY <1>1, ConcatAssociative, ConcatProperties
<1>3. QED
  BY <1>2, PrefixOfConcat

\* One element more is behind it as well.
LEMMA PrefixAppend ==
    ASSUME NEW D, NEW s \in Seq(D), NEW t \in Seq(D), NEW e \in D,
           IsPrefix(s, t)
    PROVE  IsPrefix(s, Append(t, e))
<1>1. Append(t, e) = t \o <<e>> /\ <<e>> \in Seq(D)
  BY AppendIsConcat
<1>2. QED
  BY <1>1, PrefixGrows

-----------------------------------------------------------------------------
(***************************************************************************)
(* FlattenSeq, RemoveAt and InsertAt                                       *)
(***************************************************************************)
\* What is flattened in two parts is flattened as a whole.
LEMMA FlattenConcat ==
    ASSUME NEW D, NEW s \in Seq(Seq(D)), NEW t \in Seq(Seq(D))
    PROVE  FlattenSeq(s \o t) = FlattenSeq(s) \o FlattenSeq(t)
<1> DEFINE u(n) == SubSeq(t, 1, n)
           T == {n \in Nat : n <= Len(t) =>
                    FlattenSeq(s \o u(n)) = FlattenSeq(s) \o FlattenSeq(u(n))}
<1>1. Len(t) \in Nat
  BY LenProperties
<1>2. FlattenSeq(s) \in Seq(D)
  BY FlattenType
<1>3. 0 \in T
  <2>1. u(0) = <<>>
    BY SubSeqEmpty
  <2>2. s \o <<>> = s /\ FlattenSeq(s) \o <<>> = FlattenSeq(s)
    BY <1>2, ConcatEmptySeq
  <2>3. FlattenSeq(s \o u(0)) = FlattenSeq(s) \o FlattenSeq(u(0))
    BY <2>1, <2>2, FlattenEmpty
  <2>4. QED
    BY <2>3
<1>4. ASSUME NEW n \in T
      PROVE  n + 1 \in T
  <2> SUFFICES ASSUME n + 1 <= Len(t)
               PROVE  FlattenSeq(s \o u(n + 1))
                      = FlattenSeq(s) \o FlattenSeq(u(n + 1))
    OBVIOUS
  <2>1. n \in Nat /\ n <= Len(t) /\ n \in 0 .. Len(t) /\ n + 1 \in 1 .. Len(t)
    BY <1>1
  <2>2. FlattenSeq(s \o u(n)) = FlattenSeq(s) \o FlattenSeq(u(n))
    BY <2>1
  <2> DEFINE v == u(n)
             x == t[n + 1]
  <2>3. v \in Seq(Seq(D)) /\ x \in Seq(D)
    BY <2>1, Cut, ElementOfSeq
  <2>4. u(n + 1) = v \o <<x>>
    <3>1. 1 \in 1 .. Len(t) /\ n + 1 \in 1 .. Len(t) /\ (n + 1) - 1 = n
      BY <1>1, <2>1
    <3>2. SubSeq(t, 1, n + 1) = SubSeq(t, 1, (n + 1) - 1) \o <<t[n + 1]>>
      BY <3>1, SubSeqRecursiveSecond
    <3>3. QED
      BY <3>1, <3>2
  <2> DEFINE w == u(n + 1)
  <2>5. w = v \o <<x>> /\ FlattenSeq(s \o v) = FlattenSeq(s) \o FlattenSeq(v)
    BY <2>2, <2>4
  <2> SUFFICES FlattenSeq(s \o w) = FlattenSeq(s) \o FlattenSeq(w)
    OBVIOUS
  <2> HIDE DEF w, v, x, u, T
  <2>6. s \o v \in Seq(Seq(D)) /\ <<x>> \in Seq(Seq(D))
    BY <2>3, ConcatProperties
  <2>7. w = Append(v, x) /\ (s \o v) \o <<x>> = Append(s \o v, x)
    BY <2>3, <2>5, <2>6, AppendIsConcat
  <2>8. s \o w = Append(s \o v, x)
    BY <2>3, <2>5, <2>6, <2>7, ConcatAssociative, SMTT(30)
  <2>9. FlattenSeq(s \o w) = FlattenSeq(s \o v) \o x
    BY <2>3, <2>6, <2>8, FlattenAppend
  <2>10. FlattenSeq(w) = FlattenSeq(v) \o x
    BY <2>3, <2>7, FlattenAppend
  <2>11. FlattenSeq(v) \in Seq(D)
    BY <2>3, FlattenType
  <2>12. (FlattenSeq(s) \o FlattenSeq(v)) \o x
         = FlattenSeq(s) \o (FlattenSeq(v) \o x)
    BY <1>2, <2>3, <2>11, ConcatAssociative, SMTT(30)
  <2>13. QED
    BY <2>5, <2>9, <2>10, <2>12
<1> HIDE DEF T
<1>5. T \in SUBSET Nat
  BY DEF T
<1>6. Len(t) \in T
  BY <1>1, <1>3, <1>4, <1>5, Climb
<1>7. FlattenSeq(s \o u(Len(t))) = FlattenSeq(s) \o FlattenSeq(u(Len(t)))
  BY <1>1, <1>6 DEF T
<1>8. u(Len(t)) = t
  BY SubSeqFull
<1>9. QED
  BY <1>7, <1>8

LEMMA FlattenOne ==
    ASSUME NEW D, NEW x \in Seq(D)
    PROVE  FlattenSeq(<<x>>) = x
<1>1. <<>> \in Seq(Seq(D)) /\ <<>> \in Seq(D)
  OBVIOUS
<1>2. Append(<<>>, x) = <<x>>
  OBVIOUS
<1>3. FlattenSeq(<<x>>) = FlattenSeq(<<>>) \o x
  BY <1>1, <1>2, FlattenAppend
<1>4. <<>> \o x = x
  BY ConcatEmptySeq
<1>5. QED
  BY <1>3, <1>4, FlattenEmpty

\* The parts that RemoveAt and InsertAt put together.
LEMMA AroundAt ==
    ASSUME NEW D, NEW s \in Seq(D), NEW i \in 1 .. Len(s)
    PROVE  /\ SubSeq(s, 1, i - 1) \in Seq(D)
           /\ Len(SubSeq(s, 1, i - 1)) = i - 1
           /\ s[i] \in D
           /\ SubSeq(s, i + 1, Len(s)) \in Seq(D)
           /\ SubSeq(s, i, Len(s)) = <<s[i]>> \o SubSeq(s, i + 1, Len(s))
           /\ s = SubSeq(s, 1, i - 1)
                  \o (<<s[i]>> \o SubSeq(s, i + 1, Len(s)))
<1>1. /\ Len(s) \in Nat /\ i \in Nat /\ i - 1 \in 0 .. Len(s)
      /\ i \in 0 .. Len(s) /\ (i - 1) + 1 = i /\ Len(s) \in i .. Len(s)
  BY LenProperties
<1>2. /\ SubSeq(s, 1, i - 1) \in Seq(D) /\ Len(SubSeq(s, 1, i - 1)) = i - 1
      /\ SubSeq(s, 1, i - 1) \o SubSeq(s, (i - 1) + 1, Len(s)) = s
  BY <1>1, Cut
<1>3. SubSeq(s, i + 1, Len(s)) \in Seq(D)
  BY <1>1, Cut
<1>4. SubSeq(s, i, Len(s)) = <<s[i]>> \o SubSeq(s, i + 1, Len(s))
  BY <1>1, SubSeqRecursiveFirst
<1>5. s[i] \in D
  BY ElementOfSeq
<1>6. QED
  BY <1>1, <1>2, <1>3, <1>4, <1>5

LEMMA RemoveAtParts ==
    ASSUME NEW D, NEW s \in Seq(D), NEW i \in 1 .. Len(s)
    PROVE  /\ RemoveAt(s, i) \in Seq(D)
           /\ Len(RemoveAt(s, i)) = Len(s) - 1
           /\ \A j \in 1 .. Len(s) - 1 :
                RemoveAt(s, i)[j] = IF j < i THEN s[j] ELSE s[j + 1]
<1>1. Len(s) \in Nat /\ i \in Nat /\ 1 <= i /\ i <= Len(s)
  BY LenProperties
<1>7. \A j \in 1 .. Len(s) : s[j] \in D
  BY ElementOfSeq
<1> DEFINE a == SubSeq(s, 1, i - 1)
           b == SubSeq(s, i + 1, Len(s))
<1>2. /\ a \in Seq(D) /\ Len(a) = i - 1
      /\ \A j \in 1 .. (i - 1) - 1 + 1 : a[j] = s[1 + j - 1]
  BY <1>1, <1>7, SubSeqProperties
<1>3. /\ b \in Seq(D) /\ Len(b) = Len(s) - i
      /\ \A j \in 1 .. Len(s) - (i + 1) + 1 : b[j] = s[i + 1 + j - 1]
  BY <1>1, <1>7, SubSeqProperties
<1> HIDE DEF a, b
<1>4. /\ a \o b \in Seq(D) /\ Len(a \o b) = Len(a) + Len(b)
      /\ \A j \in 1 .. Len(a) + Len(b) :
            (a \o b)[j] = IF j <= Len(a) THEN a[j] ELSE b[j - Len(a)]
  BY <1>2, <1>3, ConcatProperties
<1>5. RemoveAt(s, i) = a \o b
  BY DEF RemoveAt, a, b
<1>6. ASSUME NEW j \in 1 .. Len(s) - 1
      PROVE  (a \o b)[j] = IF j < i THEN s[j] ELSE s[j + 1]
  <2>1. (a \o b)[j] = IF j <= i - 1 THEN a[j] ELSE b[j - (i - 1)]
    BY <1>1, <1>2, <1>3, <1>4
  <2>2. CASE j < i
    <3>1. a[j] = s[1 + j - 1]
      BY <1>1, <1>2, <2>2
    <3>2. QED
      BY <1>1, <2>1, <2>2, <3>1
  <2>3. CASE ~(j < i)
    <3>1. j - (i - 1) \in 1 .. Len(s) - (i + 1) + 1
      BY <1>1, <2>3
    <3>2. b[j - (i - 1)] = s[i + 1 + (j - (i - 1)) - 1]
      BY <1>3, <3>1
    <3>3. i + 1 + (j - (i - 1)) - 1 = j + 1
      BY <1>1
    <3>4. QED
      BY <1>1, <2>1, <2>3, <3>2, <3>3
  <2>4. QED
    BY <2>2, <2>3
<1>8. Len(a \o b) = Len(s) - 1
  BY <1>1, <1>2, <1>3, <1>4
<1>9. \A j \in 1 .. Len(s) - 1 :
          RemoveAt(s, i)[j] = IF j < i THEN s[j] ELSE s[j + 1]
  BY <1>5, <1>6
<1>10. QED
  BY <1>4, <1>5, <1>8, <1>9

\* What a sequence that is taken out, or put in once more, does to the length.
LEMMA FlattenRemoved ==
    ASSUME NEW D, NEW s \in Seq(Seq(D)), NEW i \in 1 .. Len(s)
    PROVE  /\ RemoveAt(s, i) \in Seq(Seq(D))
           /\ Len(FlattenSeq(s)) = Len(FlattenSeq(RemoveAt(s, i))) + Len(s[i])
           /\ InsertAt(s, i, s[i]) \in Seq(Seq(D))
           /\ Len(FlattenSeq(InsertAt(s, i, s[i])))
              = Len(FlattenSeq(s)) + Len(s[i])
<1> DEFINE a == SubSeq(s, 1, i - 1)
           b == SubSeq(s, i + 1, Len(s))
           x == s[i]
           c == SubSeq(s, i, Len(s))
<1>1. /\ a \in Seq(Seq(D)) /\ b \in Seq(Seq(D)) /\ x \in Seq(D)
      /\ c = <<x>> \o b /\ s = a \o (<<x>> \o b)
  BY AroundAt
<1>2. RemoveAt(s, i) = a \o b /\ InsertAt(s, i, x) = (a \o <<x>>) \o c
  BY DEF RemoveAt, InsertAt
<1> HIDE DEF a, b, c, x
<1>3. <<x>> \in Seq(Seq(D)) /\ <<x>> \o b \in Seq(Seq(D)) /\ c \in Seq(Seq(D))
  BY <1>1, ConcatProperties
<1>4. /\ a \o <<x>> \in Seq(Seq(D)) /\ a \o b \in Seq(Seq(D))
      /\ (a \o <<x>>) \o c \in Seq(Seq(D))
  BY <1>1, <1>3, ConcatProperties
<1>5. FlattenSeq(<<x>>) = x
  BY <1>1, FlattenOne
<1>6. FlattenSeq(c) = x \o FlattenSeq(b)
  BY <1>1, <1>3, <1>5, FlattenConcat
<1>7. FlattenSeq(s) = FlattenSeq(a) \o FlattenSeq(c)
  BY <1>1, <1>3, FlattenConcat
<1>8. FlattenSeq(a \o b) = FlattenSeq(a) \o FlattenSeq(b)
  BY <1>1, FlattenConcat
<1>9. FlattenSeq((a \o <<x>>) \o c) = (FlattenSeq(a) \o x) \o FlattenSeq(c)
  <2>1. FlattenSeq(a \o <<x>>) = FlattenSeq(a) \o x
    BY <1>1, <1>3, <1>5, FlattenConcat
  <2>2. QED
    BY <1>3, <1>4, <2>1, FlattenConcat
<1> DEFINE A == FlattenSeq(a)
           B == FlattenSeq(b)
           C == FlattenSeq(c)
<1>10. A \in Seq(D) /\ B \in Seq(D) /\ C \in Seq(D)
  BY <1>1, <1>3, FlattenType
<1> HIDE DEF A, B, C
<1>11. /\ Len(x \o B) = Len(x) + Len(B) /\ Len(A \o C) = Len(A) + Len(C)
       /\ Len(A \o B) = Len(A) + Len(B) /\ Len(A \o x) = Len(A) + Len(x)
       /\ A \o x \in Seq(D)
  BY <1>1, <1>10, ConcatProperties
<1>12. Len((A \o x) \o C) = Len(A \o x) + Len(C)
  BY <1>10, <1>11, ConcatProperties
<1>13. /\ Len(A) \in Nat /\ Len(B) \in Nat /\ Len(C) \in Nat /\ Len(x) \in Nat
  BY <1>1, <1>10, LenProperties
<1>14. C = x \o B
  BY <1>6 DEF B, C
<1>15. Len(FlattenSeq(s)) = Len(A) + (Len(x) + Len(B))
  BY <1>7, <1>11, <1>14 DEF A, C
<1>16. Len(FlattenSeq(RemoveAt(s, i))) = Len(A) + Len(B)
  BY <1>2, <1>8, <1>11 DEF A, B
<1>17. Len(FlattenSeq(InsertAt(s, i, x)))
       = (Len(A) + Len(x)) + (Len(x) + Len(B))
  BY <1>2, <1>9, <1>11, <1>12, <1>14 DEF A, C
<1>18. Len(FlattenSeq(s)) = Len(FlattenSeq(RemoveAt(s, i))) + Len(x)
  BY <1>13, <1>15, <1>16
<1>19. Len(FlattenSeq(InsertAt(s, i, x))) = Len(FlattenSeq(s)) + Len(x)
  BY <1>13, <1>15, <1>17
<1>20. QED
  BY <1>2, <1>4, <1>18, <1>19 DEF x

-----------------------------------------------------------------------------
(***************************************************************************)
(* Numbers that follow from each other.                                    *)
(***************************************************************************)
\* Each of the numbers of g follows from the one before, by F.
Follows(g, n, F) ==
    /\ g \in [0 .. n -> Nat]
    /\ g[0] = 0
    /\ \A i \in 1 .. n : g[i] = F[<<i, g[i - 1]>>]

Steps(n, F) == n \in Nat /\ F \in [(1 .. n) \X Nat -> Nat]

\* Numbers may be defined by that.
LEMMA RecursionExists ==
    ASSUME NEW n, NEW F, Steps(n, F)
    PROVE  \E g : Follows(g, n, F)
<1>0. n \in Nat /\ F \in [(1 .. n) \X Nat -> Nat]
  BY DEF Steps
<1> DEFINE Is(k, g) == /\ g \in [0 .. k -> Nat]
                       /\ g[0] = 0
                       /\ \A i \in 1 .. k : g[i] = F[<<i, g[i - 1]>>]
           T == {k \in Nat : k <= n => \E g : Is(k, g)}
<1>1. 0 \in T
  <2>1. Is(0, [i \in 0 .. 0 |-> 0])
    OBVIOUS
  <2>2. QED
    BY <2>1
<1>2. ASSUME NEW k \in T
      PROVE  k + 1 \in T
  <2>1. SUFFICES ASSUME k + 1 <= n
                 PROVE  \E g : Is(k + 1, g)
    OBVIOUS
  <2>2. PICK g : Is(k, g)
    BY <1>0, <2>1
  <2> DEFINE b == F[<<k + 1, g[k]>>]
             h == [i \in 0 .. k + 1 |-> IF i = k + 1 THEN b ELSE g[i]]
  <2>3. b \in Nat
    BY <1>0, <2>1, <2>2
  <2> HIDE DEF b
  <2>4. h \in [0 .. k + 1 -> Nat]
    BY <2>2, <2>3
  <2>5. \A i \in 0 .. k : h[i] = g[i]
    OBVIOUS
  <2>6. h[k + 1] = b
    OBVIOUS
  <2> HIDE DEF h
  <2>7. ASSUME NEW i \in 1 .. k + 1
        PROVE  h[i] = F[<<i, h[i - 1]>>]
    <3>1. CASE i = k + 1
      <4>1. h[k] = g[k] /\ i - 1 = k
        BY <2>5, <3>1
      <4>2. QED
        BY <2>6, <3>1, <4>1 DEF b
    <3>2. CASE i # k + 1
      <4>1. i \in 1 .. k /\ i - 1 \in 0 .. k /\ i \in 0 .. k
        BY <3>2
      <4>2. g[i] = F[<<i, g[i - 1]>>]
        BY <2>2, <4>1
      <4>3. QED
        BY <2>5, <4>1, <4>2
    <3>3. QED
      BY <3>1, <3>2
  <2>8. h[0] = 0
    BY <2>2, <2>5
  <2>9. QED
    BY <2>4, <2>7, <2>8
<1> HIDE DEF T
<1>3. T \in SUBSET Nat
  BY DEF T
<1>4. n \in T
  BY <1>0, <1>1, <1>2, <1>3, Climb
<1>5. QED
  BY <1>4 DEF T, Follows

\* Two lists of numbers are the same if each number is when the one before is.
SameSteps(f, g, n) ==
    /\ f[0] = g[0]
    /\ \A i \in 1 .. n : f[i - 1] = g[i - 1] => f[i] = g[i]

LEMMA SameNumbers ==
    ASSUME NEW n \in Nat, NEW f, NEW g, SameSteps(f, g, n)
    PROVE  \A i \in 0 .. n : f[i] = g[i]
<1> DEFINE T == {k \in Nat : k <= n => f[k] = g[k]}
<1>1. 0 \in T
  BY DEF SameSteps
<1>2. ASSUME NEW k \in T
      PROVE  k + 1 \in T
  <2>1. SUFFICES ASSUME k + 1 <= n
                 PROVE  f[k + 1] = g[k + 1]
    OBVIOUS
  <2>2. k + 1 \in 1 .. n /\ (k + 1) - 1 = k /\ f[k] = g[k]
    BY <2>1
  <2>3. QED
    BY <2>2 DEF SameSteps
<1> HIDE DEF T
<1>3. T \in SUBSET Nat
  BY DEF T
<1>4. \A k \in Nat : k \in T
  BY <1>1, <1>2, <1>3, Climb
<1>5. QED
  BY <1>4 DEF T

\* g has the sums of the first of the numbers of t.
Summed(g, n, t) ==
    /\ g \in [0 .. n -> Nat]
    /\ g[0] = 0
    /\ \A i \in 1 .. n : g[i] = g[i - 1] + t[i]

LEMMA SumExists ==
    ASSUME NEW n \in Nat, NEW t, \A i \in 1 .. n : t[i] \in Nat
    PROVE  \E g : Summed(g, n, t)
<1> DEFINE F == [x \in (1 .. n) \X Nat |-> x[2] + t[x[1]]]
<1>1. Steps(n, F)
  BY DEF Steps
<1>2. PICK g : Follows(g, n, F)
  BY <1>1, RecursionExists
<1>3. ASSUME NEW i \in 1 .. n
      PROVE  g[i] = g[i - 1] + t[i]
  <2>1. <<i, g[i - 1]>> \in (1 .. n) \X Nat
    BY <1>2 DEF Follows
  <2>2. QED
    BY <1>2, <2>1 DEF Follows
<1>4. QED
  BY <1>2, <1>3 DEF Follows, Summed

\* The sum of numbers that are at most b.
LEMMA SumBound ==
    ASSUME NEW n \in Nat, NEW t, NEW g, Summed(g, n, t),
           NEW b \in Nat, \A i \in 1 .. n : t[i] \in 0 .. b
    PROVE  \A i \in 0 .. n : g[i] <= i * b
<1> DEFINE T == {k \in Nat : k <= n => g[k] <= k * b}
<1>1. 0 \in T
  BY DEF Summed
<1>2. ASSUME NEW k \in T
      PROVE  k + 1 \in T
  <2>1. SUFFICES ASSUME k + 1 <= n
                 PROVE  g[k + 1] <= (k + 1) * b
    OBVIOUS
  <2>2. k + 1 \in 1 .. n /\ (k + 1) - 1 = k /\ k \in 0 .. n
    BY <2>1
  <2>3. g[k + 1] = g[k] + t[k + 1] /\ g[k] \in Nat /\ t[k + 1] \in 0 .. b
    BY <2>2 DEF Summed
  <2>4. (k + 1) * b = k * b + b /\ k * b \in Nat
    OBVIOUS
  <2>5. g[k] <= k * b
    BY <2>2
  <2>6. QED
    BY <2>3, <2>4, <2>5
<1> HIDE DEF T
<1>3. T \in SUBSET Nat
  BY DEF T
<1>4. \A k \in Nat : k \in T
  BY <1>1, <1>2, <1>3, Climb
<1>5. QED
  BY <1>4 DEF T

-----------------------------------------------------------------------------
(***************************************************************************)
(* Quotients and remainders.                                               *)
(***************************************************************************)
\* A product is no less than one factor if the other is at least 1.
LEMMA ProductGrows ==
    ASSUME NEW a \in Nat, NEW b \in Int, b >= 1
    PROVE  a * b >= a
<1>1. b = 1 + (b - 1) /\ b - 1 \in Nat
  OBVIOUS
<1>2. a * b = a + a * (b - 1)
  BY SMTT(30)
<1>3. a * (b - 1) >= 0
  BY <1>1, SMTT(30)
<1>4. a * (b - 1) \in Int /\ a * b \in Int
  BY <1>1
<1>5. QED
  BY <1>2, <1>3, <1>4

\* A number is its quotient and its remainder.
LEMMA DivMod ==
    ASSUME NEW a \in Int, NEW w \in Nat \ {0}
    PROVE  /\ a = w * (a \div w) + (a % w)
           /\ (a % w) \in 0 .. w - 1 /\ (a \div w) \in Int
OBVIOUS

\* And what is written as a quotient and a remainder has them.
LEMMA Remainder ==
    ASSUME NEW w \in Nat \ {0}, NEW q \in Int, NEW r \in 0 .. w - 1
    PROVE  ((w * q + r) % w) = r /\ ((w * q + r) \div w) = q
<1> DEFINE a == w * q + r
           d == a \div w
           m == (a % w)
<1>1. a \in Int
  OBVIOUS
<1>2. a = w * d + m /\ m \in 0 .. w - 1 /\ d \in Int
  BY <1>1, DivMod
<1> HIDE DEF a, d, m
<1>3. a = w * q + r
  BY DEF a
<1>4. w * (q - d) = m - r
  <2>1. w * (q - d) = w * q - w * d
    BY <1>2, SMTT(30)
  <2>2. w * q \in Int /\ w * d \in Int
    BY <1>2
  <2> HIDE DEF a
  <2>3. QED
    BY <1>1, <1>2, <1>3, <2>1, <2>2
<1>5. ~ (q - d >= 1)
  <2> SUFFICES ASSUME q - d >= 1 PROVE FALSE
    OBVIOUS
  <2>1. w * (q - d) >= w
    BY <1>2, ProductGrows
  <2>2. QED
    BY <1>2, <1>4, <2>1
<1>6. ~ (d - q >= 1)
  <2> SUFFICES ASSUME d - q >= 1 PROVE FALSE
    OBVIOUS
  <2>1. w * (d - q) >= w
    BY <1>2, ProductGrows
  <2>2. w * (d - q) = r - m
    <3>1. w * (d - q) = - (w * (q - d))
      BY <1>2, SMTT(30)
    <3>2. w * (q - d) \in Int
      BY <1>2
    <3>3. QED
      BY <1>2, <1>4, <3>1, <3>2
  <2>3. QED
    BY <1>2, <2>1, <2>2
<1>7. q = d
  BY <1>2, <1>5, <1>6
<1>8. m = r
  <2>1. w * q \in Int
    OBVIOUS
  <2>2. QED
    BY <1>2, <1>3, <1>7, <2>1
<1>9. QED
  BY <1>7, <1>8 DEF a, d, m
=============================================================================
