--------------------------- MODULE FlattenLemmas ---------------------------
(***************************************************************************)
(* What FlattenSeq computes, for every sequence of sequences: its value on *)
(* nothing, on one sequence more at either end, and that it is a sequence. *)
(* Its recursive function is an induction over data; the induction rule is *)
(* won from a fact of the library with no operator parameter, that the     *)
(* finite sets are well-founded under strict inclusion.                    *)
(***************************************************************************)
EXTENDS Integers, SequencesExt, SequenceTheorems, FiniteSetTheorems, TLAPS

-----------------------------------------------------------------------------
(* Induction on the natural numbers *)

\* Every set of naturals that is not empty has a least element: a strictly
\* smaller number n has a strictly smaller set 0..n-1.
LEMMA LeastNat ==
    ASSUME NEW T, T \subseteq Nat, T # {}
    PROVE  \E n \in T : \A m \in T : n <= m
<1> DEFINE Below(n) == {k \in Nat : k < n}
           U == {Below(n) : n \in T}
<1>1. \A n \in Nat : IsFiniteSet(Below(n))
  <2> TAKE n \in Nat
  <2>1. 0..(n - 1) = Below(n)
      OBVIOUS
  <2>2. IsFiniteSet(0..(n - 1))
      BY FS_Interval
  <2> QED
      BY <2>1, <2>2
<1>2. U \subseteq FiniteSubsetsOf(Nat)
    BY <1>1 DEF FiniteSubsetsOf
<1>3. U # {}
    OBVIOUS
<1>4. PICK x \in U : \A y \in U : ~(<<y, x>> \in StrictSubsetOrdering(Nat))
  <2> HIDE DEF U
  <2>1. IsWellFoundedOn(StrictSubsetOrdering(Nat), FiniteSubsetsOf(Nat))
      BY FS_StrictSubsetOrderingWellFounded
  <2> QED
      BY <1>2, <1>3, <2>1, WFMin
<1>5. PICK n \in T : x = Below(n)
    OBVIOUS
<1>6. ASSUME NEW m \in T, m < n
      PROVE  FALSE
  <2>1. Below(m) \subseteq Below(n)
      BY <1>6
  <2>2. m \in Below(n) /\ m \notin Below(m)
      BY <1>6
  <2>3. Below(m) \in SUBSET Nat /\ Below(n) \in SUBSET Nat
      OBVIOUS
  <2>4. <<Below(m), Below(n)>> \in StrictSubsetOrdering(Nat)
      BY <2>1, <2>2, <2>3 DEF StrictSubsetOrdering
  <2> QED
      BY <1>4, <1>5, <2>4
<1> QED
    BY <1>6

\* Induction, for a set of naturals instead of a predicate.
LEMMA NatSetInduction ==
    ASSUME NEW S, 0 \in S, \A n \in Nat : n \in S => n + 1 \in S
    PROVE  Nat \subseteq S
<1> SUFFICES ASSUME Nat \ S # {}
             PROVE  FALSE
    OBVIOUS
<1>1. PICK n \in Nat \ S : \A m \in Nat \ S : n <= m
  <2>1. Nat \ S \subseteq Nat
      OBVIOUS
  <2> QED
      BY <2>1, LeastNat
<1>2. n - 1 \in Nat
    OBVIOUS
<1>3. n - 1 \in S
    BY <1>1, <1>2
<1> QED
    BY <1>2, <1>3

-----------------------------------------------------------------------------
(* FlattenSeq *)

\* Concatenation under a name of its own, which the provers leave folded.
Joined(a, b) == a \o b

LEMMA JoinedType ==
    ASSUME NEW S, NEW a \in Seq(S), NEW b \in Seq(S)
    PROVE  Joined(a, b) \in Seq(S)
BY ConcatProperties DEF Joined

LEMMA JoinedEmpty ==
    ASSUME NEW S, NEW a \in Seq(S)
    PROVE  Joined(a, <<>>) = a /\ Joined(<<>>, a) = a
BY ConcatEmptySeq DEF Joined

LEMMA JoinedAssociative ==
    ASSUME NEW S, NEW a \in Seq(S), NEW b \in Seq(S), NEW c \in Seq(S)
    PROVE  Joined(Joined(a, b), c) = Joined(a, Joined(b, c))
BY ConcatAssociative DEF Joined

\* The equation of FlattenSeq's recursive function, up to n.
Flattens(f, s, n) ==
    f = [i \in 1..n |-> IF i = 1 THEN s[i] ELSE Joined(f[i - 1], s[i])]

\* s and t begin with the same k sequences.
Alike(s, t, k) == \A i \in 1..k : s[i] = t[i]

\* s is a sequence of n + 1 sequences over S, and t is s without the first.
DropsFirst(s, t, n, S) ==
    /\ \A i \in 1..(n + 1) : s[i] \in Seq(S)
    /\ \A i \in 1..n : t[i] = s[i + 1]

\* The equation, value by value.
LEMMA FlattensAt ==
    ASSUME NEW s, NEW n \in Nat, NEW f, Flattens(f, s, n), NEW i \in 1..n
    PROVE  f[i] = IF i = 1 THEN s[i] ELSE Joined(f[i - 1], s[i])
BY DEF Flattens

\* A function that solves it up to n, and one value more.
LEMMA FlattensOneMore ==
    ASSUME NEW s, NEW n \in Nat, NEW f, Flattens(f, s, n)
    PROVE  \E g : Flattens(g, s, n + 1)
<1> DEFINE last == IF n = 0 THEN s[1] ELSE Joined(f[n], s[n + 1])
           g == [i \in 1..(n + 1) |-> IF i = n + 1 THEN last ELSE f[i]]
<1>1. ASSUME NEW i \in 1..(n + 1)
      PROVE  g[i] = IF i = 1 THEN s[i] ELSE Joined(g[i - 1], s[i])
  <2>1. CASE i = n + 1
    <3>1. g[i] = last
        BY <2>1
    <3>2. n # 0 => g[n] = f[n]
        OBVIOUS
    <3> QED
        BY <2>1, <3>1, <3>2
  <2>2. CASE i # n + 1
    <3>1. i \in 1..n /\ g[i] = f[i]
        BY <2>2
    <3>2. i # 1 => g[i - 1] = f[i - 1]
        BY <3>1
    <3> QED
        BY <3>1, <3>2, FlattensAt
  <2> QED
      BY <2>1, <2>2
<1>2. Flattens(g, s, n + 1)
  <2>1. g = [i \in 1..(n + 1) |-> g[i]]
      OBVIOUS
  <2> HIDE DEF g
  <2> QED
      BY <1>1, <2>1 DEF Flattens
<1> QED
    BY <1>2

\* FlattenSeq's recursive function exists, for every length.
LEMMA FlattensExists ==
    ASSUME NEW s, NEW m \in Nat
    PROVE  \E f : Flattens(f, s, m)
<1> DEFINE Solved == {n \in Nat : \E f : Flattens(f, s, n)}
<1>1. 0 \in Solved
  <2>1. Flattens([i \in 1..0 |-> s], s, 0)
      BY DEF Flattens
  <2> QED
      BY <2>1
<1>2. ASSUME NEW n \in Nat, n \in Solved
      PROVE  n + 1 \in Solved
    BY <1>2, FlattensOneMore
<1>3. Nat \subseteq Solved
  <2> HIDE DEF Solved
  <2> QED
      BY <1>1, <1>2, NatSetInduction
<1> QED
    BY <1>3

\* So FlattenSeq is what its definition says it is.
LEMMA FlattenUnfolds ==
    ASSUME NEW s, Len(s) \in Nat, Len(s) > 0
    PROVE  \E f : Flattens(f, s, Len(s)) /\ FlattenSeq(s) = f[Len(s)]
<1> DEFINE F == CHOOSE f : Flattens(f, s, Len(s))
<1>1. \E f : Flattens(f, s, Len(s))
    BY FlattensExists
<1>2. Flattens(F, s, Len(s))
    BY <1>1
<1>3. FlattenSeq(s) = F[Len(s)]
    BY DEF FlattenSeq, Flattens, Joined
<1> QED
    BY <1>2, <1>3

\* Two sequences that begin alike are flattened alike as far as they do.
LEMMA FlattensAgree ==
    ASSUME NEW s, NEW t, NEW m \in Nat, NEW n \in Nat, NEW k \in Nat,
           k <= m, k <= n, Alike(s, t, k),
           NEW f, Flattens(f, s, m), NEW g, Flattens(g, t, n)
    PROVE  Alike(f, g, k)
<1> USE DEF Alike
<1> DEFINE Same == {i \in Nat : i \in 1..k => f[i] = g[i]}
<1>1. 0 \in Same
    OBVIOUS
<1>2. ASSUME NEW i \in Nat, i \in Same
      PROVE  i + 1 \in Same
  <2> SUFFICES ASSUME i + 1 \in 1..k
               PROVE  f[i + 1] = g[i + 1]
      OBVIOUS
  <2>1. i + 1 \in 1..m /\ i + 1 \in 1..n /\ s[i + 1] = t[i + 1]
      OBVIOUS
  <2>2. /\ f[i + 1] = IF i + 1 = 1 THEN s[i + 1] ELSE Joined(f[i + 1 - 1], s[i + 1])
        /\ g[i + 1] = IF i + 1 = 1 THEN t[i + 1] ELSE Joined(g[i + 1 - 1], t[i + 1])
      BY <2>1, FlattensAt
  <2>3. i + 1 # 1 => f[i] = g[i]
      BY <1>2
  <2>4. i + 1 - 1 = i
      OBVIOUS
  <2> QED
      BY <2>1, <2>2, <2>3, <2>4
<1>3. Nat \subseteq Same
  <2> HIDE DEF Same
  <2> QED
      BY <1>1, <1>2, NatSetInduction
<1> QED
    BY <1>3

\* Nothing flattens to nothing.
LEMMA FlattenEmpty == FlattenSeq(<<>>) = <<>>
BY DEF FlattenSeq

\* Flattening a sequence of sequences of elements of S is a sequence of them.
LEMMA FlattenType ==
    ASSUME NEW S, NEW s \in Seq(Seq(S))
    PROVE  FlattenSeq(s) \in Seq(S)
<1>1. CASE s = <<>>
    BY <1>1, FlattenEmpty, EmptySeq
<1>2. CASE s # <<>>
  <2>1. Len(s) \in Nat /\ Len(s) > 0 /\ \A i \in 1..Len(s) : s[i] \in Seq(S)
      BY <1>2, LenProperties, ElementOfSeq, EmptySeq
  <2>2. PICK f : Flattens(f, s, Len(s)) /\ FlattenSeq(s) = f[Len(s)]
      BY <2>1, FlattenUnfolds
  <2> DEFINE Typed == {i \in Nat : i \in 1..Len(s) => f[i] \in Seq(S)}
  <2>3. 0 \in Typed
      OBVIOUS
  <2>4. ASSUME NEW i \in Nat, i \in Typed
        PROVE  i + 1 \in Typed
    <3> SUFFICES ASSUME i + 1 \in 1..Len(s)
                 PROVE  f[i + 1] \in Seq(S)
        OBVIOUS
    <3>0. Len(s) \in Nat
        BY <2>1
    <3>1. f[i + 1] = IF i + 1 = 1 THEN s[i + 1] ELSE Joined(f[i + 1 - 1], s[i + 1])
        BY <3>0, <2>2, FlattensAt
    <3>2. s[i + 1] \in Seq(S)
        BY <2>1
    <3>3. i + 1 # 1 => f[i] \in Seq(S)
        BY <2>4, <2>1
    <3>4. i + 1 - 1 = i
        OBVIOUS
    <3> QED
        BY <3>1, <3>2, <3>3, <3>4, JoinedType
  <2>5. Nat \subseteq Typed
    <3> HIDE DEF Typed
    <3> QED
        BY <2>3, <2>4, NatSetInduction
  <2> QED
      BY <2>1, <2>2, <2>5
<1> QED
    BY <1>1, <1>2

\* One sequence more at the end is one sequence more at the end of the result.
LEMMA FlattenAppend ==
    ASSUME NEW S, NEW s \in Seq(Seq(S)), NEW x \in Seq(S)
    PROVE  FlattenSeq(Append(s, x)) = FlattenSeq(s) \o x
<1> SUFFICES FlattenSeq(Append(s, x)) = Joined(FlattenSeq(s), x)
    BY DEF Joined
<1> DEFINE t == Append(s, x)
<1>1. /\ Len(s) \in Nat /\ Len(t) = Len(s) + 1
      /\ t[Len(s) + 1] = x
      /\ \A i \in 1..Len(s) : t[i] = s[i]
    BY AppendProperties, LenProperties
<1> HIDE DEF t
<1>2. PICK g : Flattens(g, t, Len(t)) /\ FlattenSeq(t) = g[Len(t)]
    BY <1>1, FlattenUnfolds
<1>3. g[Len(t)] = IF Len(t) = 1 THEN t[Len(t)] ELSE Joined(g[Len(t) - 1], t[Len(t)])
    BY <1>1, <1>2, FlattensAt
<1>4. CASE s = <<>>
  <2>1. FlattenSeq(t) = x
      BY <1>1, <1>2, <1>3, <1>4
  <2>2. FlattenSeq(s) = <<>>
      BY <1>4, FlattenEmpty
  <2> QED
      BY <2>1, <2>2, JoinedEmpty DEF t
<1>5. CASE s # <<>>
  <2>1. Len(s) > 0
      BY <1>1, <1>5, EmptySeq
  <2>2. PICK f : Flattens(f, s, Len(s)) /\ FlattenSeq(s) = f[Len(s)]
      BY <1>1, <2>1, FlattenUnfolds
  <2>3. f[Len(s)] = g[Len(s)]
    <3>1. Alike(s, t, Len(s))
        BY <1>1 DEF Alike
    <3>2. Len(s) \in Nat /\ Len(t) \in Nat /\ Len(s) <= Len(t)
        BY <1>1
    <3>3. Alike(f, g, Len(s))
        BY <1>2, <2>2, <3>1, <3>2, FlattensAgree
    <3> QED
        BY <1>1, <2>1, <3>3 DEF Alike
  <2>4. Len(t) - 1 = Len(s) /\ Len(t) # 1
      BY <1>1, <2>1
  <2> QED
      BY <1>1, <1>2, <1>3, <2>2, <2>3, <2>4 DEF t
<1> QED
    BY <1>4, <1>5

\* Without its first sequence, a flattened sequence lacks just that.
LEMMA FlattensShift ==
    ASSUME NEW S, NEW n \in Nat, NEW s, NEW t,
           DropsFirst(s, t, n, S),
           NEW f, Flattens(f, s, n + 1), NEW h, Flattens(h, t, n)
    PROVE  \A i \in 1..n : h[i] \in Seq(S) /\ f[i + 1] = Joined(s[1], h[i])
<1> USE DEF DropsFirst
<1> DEFINE Shifted == {i \in Nat : i \in 1..n =>
                           h[i] \in Seq(S) /\ f[i + 1] = Joined(s[1], h[i])}
<1>1. 0 \in Shifted
    OBVIOUS
<1>2. ASSUME NEW i \in Nat, i \in Shifted, NEW j \in 1..n, j = i + 1
      PROVE  h[j] \in Seq(S) /\ f[j + 1] = Joined(s[1], h[j])
  <2>1. /\ n + 1 \in Nat /\ 1 \in 1..(n + 1) /\ j + 1 \in 1..(n + 1)
        /\ j \in 1..(n + 1) /\ j + 1 # 1 /\ (j + 1) - 1 = j /\ j - 1 = i
      BY <1>2
  <2>2. t[j] = s[j + 1] /\ s[j + 1] \in Seq(S) /\ s[1] \in Seq(S)
      BY <2>1
  <2>3. h[j] = IF j = 1 THEN t[j] ELSE Joined(h[i], t[j])
      BY <2>1, FlattensAt
  <2>4. f[j + 1] = Joined(f[j], s[j + 1]) /\ f[1] = s[1]
      BY <2>1, FlattensAt
  <2>5. CASE j = 1
      BY <2>2, <2>3, <2>4, <2>5
  <2>6. CASE j # 1
    <3>1. h[i] \in Seq(S) /\ f[j] = Joined(s[1], h[i])
        BY <1>2, <2>6
    <3>2. h[j] = Joined(h[i], s[j + 1])
        BY <2>2, <2>3, <2>6
    <3>3. h[j] \in Seq(S)
        BY <2>2, <3>1, <3>2, JoinedType
    <3>4. f[j + 1] = Joined(s[1], h[j])
        BY <2>2, <2>4, <3>1, <3>2, JoinedAssociative
    <3> QED
        BY <3>3, <3>4
  <2> QED
      BY <2>5, <2>6
<1>3. ASSUME NEW i \in Nat, i \in Shifted
      PROVE  i + 1 \in Shifted
  <2>1. ASSUME i + 1 \in 1..n
        PROVE  h[i + 1] \in Seq(S) /\ f[(i + 1) + 1] = Joined(s[1], h[i + 1])
    <3> HIDE DEF Shifted
    <3> QED
        BY <1>2, <1>3, <2>1
  <2> QED
      BY <1>3, <2>1
<1>4. Nat \subseteq Shifted
  <2> HIDE DEF Shifted
  <2> QED
      BY <1>1, <1>3, NatSetInduction, SMTT(30)
<1> QED
    BY <1>4

\* One sequence more at the front is one more at the front of the result.
LEMMA FlattenHeadTail ==
    ASSUME NEW S, NEW s \in Seq(Seq(S)), s # <<>>
    PROVE  FlattenSeq(s) = Head(s) \o FlattenSeq(Tail(s))
<1> SUFFICES FlattenSeq(s) = Joined(Head(s), FlattenSeq(Tail(s)))
    BY DEF Joined
<1> DEFINE t == Tail(s)
<1>1. PICK n \in Nat : Len(s) = n + 1
  <2>1. Len(s) \in Nat /\ Len(s) # 0
      BY LenProperties, EmptySeq
  <2>2. Len(s) - 1 \in Nat /\ Len(s) = (Len(s) - 1) + 1
      BY <2>1
  <2> QED
      BY <2>2
<1>2. /\ Head(s) = s[1] /\ t \in Seq(Seq(S)) /\ Len(t) = n
      /\ \A i \in 1..n : t[i] = s[i + 1]
    BY <1>1, HeadTailProperties
<1>3. \A i \in 1..(n + 1) : s[i] \in Seq(S)
    BY <1>1, ElementOfSeq
<1> HIDE DEF t
<1>4. PICK f : Flattens(f, s, n + 1) /\ FlattenSeq(s) = f[n + 1]
    BY <1>1, FlattenUnfolds
<1>5. CASE n = 0
  <2>1. t = <<>>
      BY <1>2, <1>5, EmptySeq
  <2>2. FlattenSeq(s) = s[1] /\ s[1] \in Seq(S)
      BY <1>3, <1>4, <1>5, FlattensAt
  <2> QED
      BY <1>2, <2>1, <2>2, FlattenEmpty, JoinedEmpty DEF t
<1>6. CASE n # 0
  <2>1. Len(t) \in Nat /\ Len(t) > 0
      BY <1>2, <1>6
  <2>2. PICK h : Flattens(h, t, Len(t)) /\ FlattenSeq(t) = h[Len(t)]
      BY <2>1, FlattenUnfolds
  <2>3. Flattens(h, t, n) /\ FlattenSeq(t) = h[n] /\ Flattens(f, s, n + 1)
      BY <1>2, <1>4, <2>2
  <2>4. DropsFirst(s, t, n, S)
      BY <1>2, <1>3 DEF DropsFirst
  <2>5. \A i \in 1..n : h[i] \in Seq(S) /\ f[i + 1] = Joined(s[1], h[i])
      BY <2>3, <2>4, FlattensShift
  <2>6. f[n + 1] = Joined(s[1], h[n])
      BY <1>6, <2>5
  <2> QED
      BY <1>2, <1>4, <2>3, <2>6 DEF t
<1> QED
    BY <1>5, <1>6
=============================================================================
