------------------------------ MODULE Recursion ------------------------------
(***************************************************************************)
(* Induction over numbers and sequences with sets in place of predicates,  *)
(* and what it gives for functions defined by recursion: that they exist,  *)
(* and what FlattenSeq is.                                                 *)
(***************************************************************************)
EXTENDS SequencesExt, SequenceTheorems, WellFoundedInduction, TLAPS

Less == {ss \in Nat \X Nat : ss[1] < ss[2]}

\* Nat is well-founded under <.
LEMMA LessWellFounded == IsWellFoundedOn(Less, Nat)
  BY NatLessThanWellFounded, Zenon DEF OpToRel, Less

\* A set of numbers that is not empty has a least one.
LEMMA Least ==
  ASSUME NEW T, T \subseteq Nat, T # {}
  PROVE  \E x \in T : \A y \in T : x <= y
<1>1. \E x \in T : \A y \in T : ~(<<y, x>> \in Less)
  BY LessWellFounded, WFMin, Zenon
<1>2. \A x, y \in Nat : ~(<<y, x>> \in Less) => x <= y
  BY DEF Less
<1> QED BY <1>1, <1>2

\* Induction up to n: what a set has from 0 on, step by step, is in it.
LEMMA Induction ==
  ASSUME NEW n \in Nat, NEW T, 0 \in T, \A i \in 0..n - 1 : i \in T => i + 1 \in T
  PROVE  0..n \subseteq T
<1> SUFFICES ASSUME 0..n \ T # {} PROVE FALSE
  OBVIOUS
<1>0. 0..n \ T \subseteq Nat
  OBVIOUS
<1>1. PICK x \in 0..n \ T : \A y \in 0..n \ T : x <= y
  BY <1>0, Least, Zenon
<1>2. x # 0 /\ x - 1 \in 0..n - 1 /\ x - 1 \in 0..n /\ ~(x <= x - 1) /\ (x - 1) + 1 = x
  BY <1>1
<1> QED BY <1>1, <1>2

\* Two functions that start alike and go on alike are alike.
Alike(f, g, n)   == \A i \in 0..n : f[i] = g[i]
GoAlike(f, g, n) == f[0] = g[0] /\ \A i \in 1..n : f[i - 1] = g[i - 1] => f[i] = g[i]

LEMMA Agreement ==
  ASSUME NEW n \in Nat, NEW f, NEW g, GoAlike(f, g, n)
  PROVE  Alike(f, g, n)
<1> USE DEF Alike, GoAlike
<1> DEFINE T == {i \in 0..n : f[i] = g[i]}
<1>1. 0 \in T
  OBVIOUS
<1>2. ASSUME NEW i \in 0..n - 1, i \in T PROVE i + 1 \in T
  <2>1. i + 1 \in 1..n /\ (i + 1) - 1 = i
    OBVIOUS
  <2> QED BY <2>1, <1>2
<1>3. 0..n \subseteq T
  <2> HIDE DEF T
  <2> QED BY <1>1, <1>2, Induction
<1> QED BY <1>3

\* A recursion that stays in a set defines a function.
Steps(step, n, S)         == step \in [(1..n) \X S -> S]
Follows(f, n, S, s, step) ==
  f \in [0..n -> S] /\ f[0] = s /\ \A i \in 1..n : f[i] = step[<<i, f[i - 1]>>]

\* Such a function exists: the recursion on n, built from the one on n - 1.
LEMMA Existence ==
  ASSUME NEW n \in Nat, NEW S, NEW s \in S, NEW step, Steps(step, n, S)
  PROVE  \E f : Follows(f, n, S, s, step)
<1> USE DEF Steps, Follows
<1> DEFINE Upto(m, f) == f[0] = s /\ \A i \in 1..m : f[i] = step[<<i, f[i - 1]>>]
           T == {m \in 0..n : \E f \in [0..m -> S] : Upto(m, f)}
<1>1. 0 \in T
  <2>1. [i \in 0..0 |-> s] \in [0..0 -> S] /\ Upto(0, [i \in 0..0 |-> s])
    OBVIOUS
  <2>2. 0 \in 0..n
    OBVIOUS
  <2> QED BY <2>1, <2>2, Zenon
<1>2. ASSUME NEW m \in 0..n - 1, m \in T PROVE m + 1 \in T
  <2>1. PICK f \in [0..m -> S] : Upto(m, f)
    BY <1>2
  <2> DEFINE g == [i \in 0..m + 1 |-> IF i <= m THEN f[i] ELSE step[<<m + 1, f[m]>>]]
  <2>2. g \in [0..m + 1 -> S]
    <3>1. m \in 0..m /\ m + 1 \in 1..n /\ <<m + 1, f[m]>> \in (1..n) \X S
      OBVIOUS
    <3>2. step[<<m + 1, f[m]>>] \in S
      BY <3>1
    <3> QED BY <3>2
  <2>3. \A i \in 1..m : g[i] = f[i] /\ g[i - 1] = f[i - 1]
    OBVIOUS
  <2>4. g[0] = f[0] /\ g[m + 1] = step[<<m + 1, f[m]>>] /\ g[(m + 1) - 1] = f[m]
    OBVIOUS
  <2>5. \A i \in 1..m + 1 : i \in 1..m \/ i = m + 1
    OBVIOUS
  <2>6. Upto(m + 1, g)
    <3> HIDE DEF g
    <3> QED BY <2>1, <2>3, <2>4, <2>5
  <2>7. m + 1 \in 0..n
    OBVIOUS
  <2> HIDE DEF g, Upto
  <2> QED BY <2>2, <2>6, <2>7
<1>3. 0..n \subseteq T
  <2> HIDE DEF T
  <2> QED BY <1>1, <1>2, Induction
<1>4. n \in T
  <2> HIDE DEF T
  <2> QED BY <1>3
<1> QED BY <1>4

\* Induction over sequences: by Append, from the empty one.
LEMMA SequenceInduction ==
  ASSUME NEW S, NEW T, <<>> \in T, \A s \in Seq(S), e \in S : s \in T => Append(s, e) \in T
  PROVE  Seq(S) \subseteq T
<1> SUFFICES ASSUME NEW w \in Seq(S) PROVE w \in T
  OBVIOUS
<1> DEFINE U == {m \in 0..Len(w) : SubSeq(w, 1, m) \in T}
<1>0. Len(w) \in Nat /\ SubSeq(w, 1, 0) = <<>> /\ SubSeq(w, 1, Len(w)) = w
  BY LenProperties, SubSeqEmpty, SubSeqFull
<1>1. 0 \in U
  <2>1. 0 \in 0..Len(w)
    BY <1>0
  <2> QED BY <1>0, <2>1, Zenon
<1>2. ASSUME NEW m \in 0..Len(w) - 1, m \in U PROVE m + 1 \in U
  <2>1. m + 1 \in 1..Len(w) /\ w[m + 1] \in S /\ m \in 0..Len(w)
    BY <1>0, ElementOfSeq
  <2>2. SubSeq(w, 1, m) \in Seq(S)
    <3>1. \A i \in 1..m : w[i] \in S
      BY <1>0, ElementOfSeq
    <3> QED BY <3>1, SubSeqProperties
  <2>3. SubSeq(w, 1, m + 1) = Append(SubSeq(w, 1, m), w[m + 1])
    <3>1. SubSeq(w, 1, m + 1) = SubSeq(w, 1, m) \o <<w[m + 1]>>
      <4>1. 1 \in 1..Len(w) /\ m + 1 \in 1..Len(w) /\ (m + 1) - 1 = m
        BY <2>1, <1>0
      <4> QED BY <4>1, SubSeqRecursiveSecond
    <3> QED BY <3>1, <2>1, <2>2, AppendIsConcat
  <2>4. SubSeq(w, 1, m) \in T /\ m + 1 \in 0..Len(w)
    <3>1. m + 1 \in 0..Len(w)
      BY <1>0
    <3> QED BY <1>2, <3>1, Zenon
  <2>5. SubSeq(w, 1, m + 1) \in T
    BY <2>1, <2>2, <2>3, <2>4, Zenon
  <2> QED BY <2>4, <2>5, Zenon
<1>3. 0..Len(w) \subseteq U
  <2> HIDE DEF U
  <2> QED BY <1>0, <1>1, <1>2, Induction
<1>4. Len(w) \in 0..Len(w)
  BY <1>0
<1> QED BY <1>0, <1>3, <1>4, Zenon

-----------------------------------------------------------------------------
(* FlattenSeq, by its value on a sequence that grows at the end.           *)

Grows(f, t) == \A i \in 1..Len(t) : f[i] = f[i - 1] \o t[i]

\* FlattenSeq is what grows by one member of t after the other.
LEMMA FlattenIs ==
  ASSUME NEW S, NEW t \in Seq(Seq(S))
  PROVE  \E f \in [0..Len(t) -> Seq(S)] :
           f[0] = <<>> /\ Grows(f, t) /\ FlattenSeq(t) = f[Len(t)]
<1>0. Len(t) \in Nat /\ <<>> \in Seq(S) /\ \A i \in 1..Len(t) : t[i] \in Seq(S)
  BY LenProperties, ElementOfSeq, EmptySeq
<1>1. PICK f \in [0..Len(t) -> Seq(S)] : f[0] = <<>> /\ Grows(f, t)
  <2> DEFINE step == [at \in (1..Len(t)) \X Seq(S) |-> at[2] \o t[at[1]]]
  <2>1. Steps(step, Len(t), Seq(S))
    BY <1>0, ConcatProperties DEF Steps
  <2>2. \A i \in 1..Len(t), s \in Seq(S) : step[<<i, s>>] = s \o t[i]
    OBVIOUS
  <2> HIDE DEF step
  <2>3. PICK f : Follows(f, Len(t), Seq(S), <<>>, step)
    BY <1>0, <2>1, Existence, Zenon
  <2>4. \A i \in 1..Len(t) : i - 1 \in 0..Len(t)
    BY <1>0
  <2>5. \A i \in 1..Len(t) : f[i] = f[i - 1] \o t[i]
    BY <2>2, <2>3, <2>4 DEF Follows
  <2> QED BY <2>3, <2>5 DEF Grows, Follows
<1>2. CASE t = <<>>
  <2>1. FlattenSeq(t) = <<>> /\ Len(t) = 0
    BY <1>2 DEF FlattenSeq
  <2> QED BY <1>1, <2>1
<1>3. CASE t # <<>>
  <2>0. Len(t) # 0 /\ Len(t) \in 1..Len(t) /\ Len(t) \in 0..Len(t)
    BY <1>0, <1>3, EmptySeq
  <2> DEFINE flatten[i \in 1..Len(t)] == IF i = 1 THEN t[i] ELSE flatten[i - 1] \o t[i]
  <2>1. FlattenSeq(t) = flatten[Len(t)]
    BY <2>0 DEF FlattenSeq
  <2>2. flatten = [i \in 1..Len(t) |-> IF i = 1 THEN t[i] ELSE flatten[i - 1] \o t[i]]
    <3> SUFFICES \E g : g = [i \in 1..Len(t) |-> IF i = 1 THEN t[i] ELSE g[i - 1] \o t[i]]
      BY Zenon
    <3> DEFINE g == [i \in 1..Len(t) |-> f[i]]
    <3>1. ASSUME NEW i \in 1..Len(t)
          PROVE  f[i] = IF i = 1 THEN t[i] ELSE g[i - 1] \o t[i]
      <4>1. CASE i = 1
        <5>0. 1 \in 1..Len(t) /\ 1 - 1 = 0
          BY <4>1
        <5>1. f[1] = <<>> \o t[1] /\ t[1] \in Seq(S)
          BY <1>0, <1>1, <5>0, Zenon DEF Grows
        <5>2. <<>> \o t[1] = t[1]
          BY <5>1, ConcatEmptySeq
        <5> QED BY <4>1, <5>1, <5>2
      <4>2. CASE i # 1
        <5>1. i - 1 \in 1..Len(t)
          BY <4>2
        <5>2. g[i - 1] = f[i - 1]
          BY <5>1
        <5> QED BY <1>1, <4>2, <5>2, Zenon DEF Grows
      <4> QED BY <4>1, <4>2
    <3>2. g = [i \in 1..Len(t) |-> IF i = 1 THEN t[i] ELSE g[i - 1] \o t[i]]
      BY <3>1, Zenon
    <3> QED BY <3>2, Zenon
  <2> HIDE DEF flatten
  <2> DEFINE h == [i \in 0..Len(t) |-> IF i = 0 THEN <<>> ELSE flatten[i]]
  <2>3. \A i \in 1..Len(t) : h[i] = flatten[i]
    BY <1>0
  <2>4. h[0] = <<>>
    BY <1>0
  <2>5. ASSUME NEW i \in 1..Len(t), f[i - 1] = h[i - 1] PROVE f[i] = h[i]
    <3>1. CASE i = 1
      <4>0. 1 \in 1..Len(t) /\ 1 - 1 = 0
        BY <3>1
      <4>1. f[1] = <<>> \o t[1] /\ t[1] \in Seq(S)
        BY <1>0, <1>1, <4>0, Zenon DEF Grows
      <4>2. <<>> \o t[1] = t[1]
        BY <4>1, ConcatEmptySeq
      <4>3. flatten[1] = t[1]
        BY <2>2, <3>1, Zenon
      <4> QED BY <2>3, <3>1, <4>1, <4>2, <4>3
    <3>2. CASE i # 1
      <4>1. i - 1 \in 1..Len(t)
        BY <3>2
      <4>2. flatten[i] = flatten[i - 1] \o t[i]
        BY <2>2, <3>2, Zenon
      <4> HIDE DEF h
      <4> QED BY <1>1, <2>3, <2>5, <4>1, <4>2 DEF Grows
    <3> QED BY <3>1, <3>2
  <2> HIDE DEF h
  <2>6. Alike(f, h, Len(t))
    <3>1. GoAlike(f, h, Len(t))
      BY <1>1, <2>4, <2>5 DEF GoAlike
    <3> QED BY <1>0, <3>1, Agreement
  <2> QED BY <1>1, <2>0, <2>1, <2>3, <2>6 DEF Alike
<1> QED BY <1>2, <1>3

LEMMA FlattenType ==
  ASSUME NEW S, NEW t \in Seq(Seq(S))
  PROVE  FlattenSeq(t) \in Seq(S)
<1>1. Len(t) \in 0..Len(t)
  BY LenProperties
<1> QED BY <1>1, FlattenIs

LEMMA FlattenEmpty == FlattenSeq(<<>>) = <<>>
  BY DEF FlattenSeq

\* FlattenSeq of one sequence more.
LEMMA FlattenAppend ==
  ASSUME NEW S, NEW t \in Seq(Seq(S)), NEW e \in Seq(S)
  PROVE  FlattenSeq(Append(t, e)) = FlattenSeq(t) \o e
<1> DEFINE u == Append(t, e)
           n == Len(t)
<1>0. /\ n \in Nat /\ u \in Seq(Seq(S)) /\ Len(u) = n + 1
      /\ u[n + 1] = e /\ \A i \in 1..n : u[i] = t[i]
  BY LenProperties, AppendProperties
<1>1. PICK f \in [0..n -> Seq(S)] : f[0] = <<>> /\ Grows(f, t) /\ FlattenSeq(t) = f[n]
  BY FlattenIs
<1> HIDE DEF u
<1>2. PICK g \in [0..n + 1 -> Seq(S)] : g[0] = <<>> /\ Grows(g, u) /\ FlattenSeq(u) = g[n + 1]
  BY <1>0, FlattenIs
<1>3. \A i \in 1..n : f[i - 1] = g[i - 1] => f[i] = g[i]
  <2>1. \A i \in 1..n : i \in 1..n + 1 /\ i \in 1..Len(u) /\ i \in 1..Len(t)
    BY <1>0 DEF n
  <2> QED BY <1>0, <1>1, <1>2, <2>1 DEF Grows
<1>4. Alike(f, g, n)
  <2>1. GoAlike(f, g, n) /\ n \in Nat
    BY <1>0, <1>1, <1>2, <1>3 DEF GoAlike
  <2> HIDE DEF n
  <2> QED BY <2>1, Agreement
<1>5. g[n + 1] = g[n] \o e
  <2>1. n + 1 \in 1..Len(u) /\ (n + 1) - 1 = n
    BY <1>0
  <2> QED BY <1>0, <1>2, <2>1 DEF Grows
<1>6. n \in 0..n
  BY <1>0
<1> QED BY <1>1, <1>2, <1>4, <1>5, <1>6 DEF u, Alike

\* FlattenSeq of two parts.
LEMMA FlattenConcat ==
  ASSUME NEW S, NEW t \in Seq(Seq(S)), NEW u \in Seq(Seq(S))
  PROVE  FlattenSeq(t \o u) = FlattenSeq(t) \o FlattenSeq(u)
<1> DEFINE T == {v \in Seq(Seq(S)) : FlattenSeq(t \o v) = FlattenSeq(t) \o FlattenSeq(v)}
<1>1. <<>> \in T
  BY FlattenEmpty, FlattenType, ConcatEmptySeq, EmptySeq
<1>2. ASSUME NEW v \in Seq(Seq(S)), NEW e \in Seq(S), v \in T PROVE Append(v, e) \in T
  <2>1. t \o v \in Seq(Seq(S)) /\ Append(v, e) \in Seq(Seq(S))
    BY ConcatProperties, AppendProperties
  <2>2. t \o Append(v, e) = Append(t \o v, e)
    OBVIOUS
  <2>3. FlattenSeq(Append(t \o v, e)) = (FlattenSeq(t) \o FlattenSeq(v)) \o e
    BY <1>2, <2>1, FlattenAppend
  <2>4. FlattenSeq(Append(v, e)) = FlattenSeq(v) \o e
    BY FlattenAppend
  <2>5. (FlattenSeq(t) \o FlattenSeq(v)) \o e = FlattenSeq(t) \o (FlattenSeq(v) \o e)
    <3>1. FlattenSeq(t) \in Seq(S) /\ FlattenSeq(v) \in Seq(S)
      BY FlattenType, Zenon
    <3> QED BY <3>1, ConcatAssociative
  <2> QED BY <2>1, <2>2, <2>3, <2>4, <2>5
<1>3. Seq(Seq(S)) \subseteq T
  <2> HIDE DEF T
  <2> QED BY <1>1, <1>2, SequenceInduction
<1> QED BY <1>3
=============================================================================
