---------------------------- MODULE SequenceFacts ----------------------------
(***************************************************************************)
(* Induction over numbers, and what follows from it for the functions that *)
(* go through a sequence from left to right.  Every fact is stated with    *)
(* sets in the place of predicates: induction over P is induction over     *)
(* {n \in Nat : P(n)}.                                                     *)
(***************************************************************************)
EXTENDS Integers, Sequences, FiniteSets, SequencesExt, Words, SequenceTheorems, WellFoundedInduction, TLAPS

\* A set that has 0, and with a number the next one, has them all.
LEMMA NatInductive ==
  ASSUME NEW S, 0 \in S, \A n \in Nat : n \in S => n + 1 \in S
  PROVE  Nat \subseteq S
<1> DEFINE R == OpToRel(<, Nat)
           T == Nat \ S
<1>1. IsWellFoundedOn(R, Nat)
  BY NatLessThanWellFounded
<1>2. \A x, y \in Nat : x < y => <<x, y>> \in R
  BY DEF OpToRel
<1> HIDE DEF R
<1>3. SUFFICES ASSUME T # {} PROVE FALSE
  OBVIOUS
<1>4. PICK x \in T : \A y \in T : ~ (<<y, x>> \in R)
  BY <1>1, <1>3, WFMin
<1>5. x # 0 /\ x \in Nat
  OBVIOUS
<1>6. x - 1 \in Nat /\ x - 1 < x /\ (x - 1) + 1 = x
  BY <1>5
<1>7. x - 1 \in T
  BY <1>6
<1> QED BY <1>2, <1>4, <1>5, <1>6, <1>7

\* From one end of an interval to the other.
LEMMA IntervalInductive ==
  ASSUME NEW m \in Int, NEW n \in Int, NEW S, m \in S, \A i \in m..(n - 1) : i \in S => i + 1 \in S
  PROVE  m..n \subseteq S
<1> DEFINE T == {k \in Nat : m + k <= n => m + k \in S}
<1>1. 0 \in T
  OBVIOUS
<1>2. ASSUME NEW k \in Nat, k \in T PROVE k + 1 \in T
  <2>1. CASE m + (k + 1) <= n
    <3>1. m + k \in m..(n - 1) /\ m + k \in S /\ (m + k) + 1 = m + (k + 1)
      BY <1>2, <2>1
    <3> QED BY <3>1
  <2>2. CASE ~(m + (k + 1) <= n)
    BY <2>2
  <2> QED BY <2>1, <2>2
<1> HIDE DEF T
<1>3. Nat \subseteq T
  BY <1>1, <1>2, NatInductive
<1>4. ASSUME NEW i \in m..n PROVE i \in S
  <2>1. i - m \in Nat /\ m + (i - m) = i
    OBVIOUS
  <2>2. i - m \in T
    BY <1>3, <2>1
  <2> QED BY <2>1, <2>2 DEF T
<1> QED BY <1>4

\* Some number of a set of numbers is the least.
LEMMA LeastOf ==
  ASSUME NEW T, T \subseteq Nat, T # {}
  PROVE  \E x \in T : \A y \in T : x <= y
<1> DEFINE S == {n \in Nat : \A y \in T : n <= y}
<1>1. SUFFICES ASSUME ~ \E x \in T : \A y \in T : x <= y PROVE FALSE
  OBVIOUS
<1>2. 0 \in S
  OBVIOUS
<1>3. ASSUME NEW n \in Nat, n \in S PROVE n + 1 \in S
  <2>1. n \notin T
    BY <1>1, <1>3
  <2> QED BY <1>3, <2>1
<1> HIDE DEF S
<1>4. Nat \subseteq S
  BY <1>2, <1>3, NatInductive
<1>5. PICK y \in T : TRUE
  OBVIOUS
<1>6. y + 1 \in S
  BY <1>4
<1> QED BY <1>5, <1>6 DEF S

-----------------------------------------------------------------------------
(* Functions that go step by step.                                          *)

\* From base, f takes n steps.
Proceeds(f, base, step, n) ==
  f[0] = base /\ \A i \in 1..n : f[i] = step[<<f[i - 1], i>>]

\* There is a function that takes the steps.
LEMMA StepsExist ==
  ASSUME NEW A, NEW base \in A, NEW n \in Nat, NEW step \in [A \X (1..n) -> A]
  PROVE  \E f \in [0..n -> A] : Proceeds(f, base, step, n)
<1> DEFINE S == {m \in 0..n : \E f \in [0..m -> A] : Proceeds(f, base, step, m)}
<1>1. 0 \in S
  <2> DEFINE f == [i \in 0..0 |-> base]
  <2> f \in [0..0 -> A] /\ Proceeds(f, base, step, 0)
    BY DEF Proceeds
  <2> QED OBVIOUS
<1>2. ASSUME NEW m \in 0..(n - 1), m \in S PROVE m + 1 \in S
  <2>1. PICK f \in [0..m -> A] : Proceeds(f, base, step, m)
    BY <1>2
  <2> DEFINE g == [i \in 0..(m + 1) |-> IF i <= m THEN f[i] ELSE step[<<f[m], m + 1>>]]
  <2>2. f[m] \in A /\ <<f[m], m + 1>> \in A \X (1..n)
    OBVIOUS
  <2>3. g \in [0..(m + 1) -> A]
    BY <2>2
  <2>4. Proceeds(g, base, step, m + 1)
    <3>1. g[0] = base
      BY <2>1 DEF Proceeds
    <3>2. ASSUME NEW i \in 1..(m + 1) PROVE g[i] = step[<<g[i - 1], i>>]
      <4>1. CASE i = m + 1
        BY <4>1
      <4>2. CASE i \in 1..m
        <5>1. g[i] = f[i] /\ g[i - 1] = f[i - 1]
          BY <4>2
        <5> QED BY <2>1, <4>2, <5>1 DEF Proceeds
      <4> QED BY <4>1, <4>2
    <3> QED BY <3>1, <3>2 DEF Proceeds
  <2> QED BY <2>3, <2>4
<1> HIDE DEF S
<1>3. 0..n \subseteq S
  BY <1>1, <1>2, IntervalInductive
<1>4. n \in S
  BY <1>3
<1> QED BY <1>4 DEF S

\* A function that takes them as long as its values are of A stays in A.
LEMMA StepsTyped ==
  ASSUME NEW A, NEW base \in A, NEW n \in Nat, NEW step \in [A \X (1..n) -> A], NEW f, f[0] = base,
         \A i \in 1..n : f[i - 1] \in A => f[i] = step[<<f[i - 1], i>>]
  PROVE  \A i \in 0..n : f[i] \in A
<1> DEFINE S == {i \in 0..n : f[i] \in A}
<1>1. 0 \in S
  OBVIOUS
<1>2. ASSUME NEW m \in 0..(n - 1), m \in S PROVE m + 1 \in S
  <2>1. m + 1 \in 1..n /\ (m + 1) - 1 = m /\ f[m] \in A
    BY <1>2
  <2>2. f[m + 1] = step[<<f[m], m + 1>>]
    BY <2>1
  <2> QED BY <2>1, <2>2
<1> HIDE DEF S
<1>3. 0..n \subseteq S
  BY <1>1, <1>2, IntervalInductive
<1> QED BY <1>3 DEF S

-----------------------------------------------------------------------------
(* Sequences built from left to right.                                      *)

\* FlattenSeq appends the sequences one by one.
LEMMA FlattenRuns ==
  ASSUME NEW S, NEW ss \in Seq(Seq(S)), ss # <<>>
  PROVE  \E f \in [1..Len(ss) -> Seq(S)] :
           f[1] = ss[1] /\ (\A i \in 2..Len(ss) : f[i] = f[i - 1] \o ss[i]) /\ FlattenSeq(ss) = f[Len(ss)]
<1> DEFINE n == Len(ss)
           A == Seq(S)
           step == [p \in A \X (1..n) |-> p[1] \o ss[p[2]]]
           Runs(f) == f = [i \in 1..n |-> IF i = 1 THEN ss[i] ELSE f[i - 1] \o ss[i]]
           flatten == CHOOSE f : Runs(f)
<1>1. n \in Nat \ {0} /\ Len(ss) = n
  OBVIOUS
<1>2. \A i \in 1..n : ss[i] \in A
  BY ElementOfSeq
<1>3. step \in [A \X (1..n) -> A]
  <2>1. ASSUME NEW x \in A, NEW i \in 1..n PROVE x \o ss[i] \in A
    BY <1>2, ConcatProperties
  <2> HIDE DEF A, n
  <2> QED BY <2>1
<1>4. <<>> \in A /\ \A t \in A : <<>> \o t = t
  BY ConcatEmptySeq
<1>5. \E f : Runs(f)
  <2> HIDE DEF step, A, n
  <2>1. PICK g \in [0..n -> A] : Proceeds(g, <<>>, step, n)
    BY <1>1, <1>3, <1>4, StepsExist
  <2>2. ASSUME NEW i \in 1..n PROVE g[i] = g[i - 1] \o ss[i]
    <3>1. g[i - 1] \in A
      BY <1>1
    <3>2. g[i] = step[<<g[i - 1], i>>]
      BY <2>1 DEF Proceeds
    <3> QED BY <3>1, <3>2 DEF step
  <2>3. g[1] = ss[1]
    <3>1. 1 \in 1..n /\ 1 - 1 = 0 /\ g[0] = <<>>
      BY <1>1, <2>1 DEF Proceeds
    <3>2. g[1] = g[0] \o ss[1] /\ ss[1] \in A
      BY <1>2, <2>2, <3>1
    <3> QED BY <1>4, <3>1, <3>2
  <2> DEFINE f == [i \in 1..n |-> g[i]]
  <2>4. ASSUME NEW i \in 1..n PROVE f[i] = IF i = 1 THEN ss[i] ELSE f[i - 1] \o ss[i]
    <3>1. CASE i = 1
      BY <2>3, <3>1
    <3>2. CASE i # 1
      <4>1. i - 1 \in 1..n
        BY <1>1, <3>2
      <4> QED BY <2>2, <3>2, <4>1
    <3> QED BY <3>1, <3>2
  <2>5. Runs(f)
    BY <2>4
  <2> QED BY <2>5
<1>6. Runs(flatten)
  BY <1>5
<1>7. FlattenSeq(ss) = flatten[n]
  BY <1>1 DEF FlattenSeq, flatten
<1> HIDE DEF flatten
<1>8. flatten[1] = ss[1] /\ \A i \in 2..n : flatten[i] = flatten[i - 1] \o ss[i]
  <2> HIDE DEF n
  <2>1. \A i \in 1..n : flatten[i] = IF i = 1 THEN ss[i] ELSE flatten[i - 1] \o ss[i]
    BY <1>6
  <2>2. 1 \in 1..n /\ \A i \in 2..n : i \in 1..n /\ i # 1
    BY <1>1
  <2> QED BY <2>1, <2>2
<1>9. \A i \in 1..n : flatten[i] \in A
  <2> DEFINE T == {i \in 1..n : flatten[i] \in A}
  <2>1. 1 \in T
    BY <1>1, <1>2, <1>8
  <2>2. ASSUME NEW i \in 1..(n - 1), i \in T PROVE i + 1 \in T
    <3>1. i + 1 \in 2..n /\ (i + 1) - 1 = i /\ i + 1 \in 1..n
      BY <1>1
    <3>2. flatten[i] \in A /\ ss[i + 1] \in A
      BY <1>2, <2>2, <3>1
    <3>3. flatten[i + 1] = flatten[i] \o ss[i + 1]
      BY <1>8, <3>1
    <3>4. flatten[i] \o ss[i + 1] \in A
      BY <3>2, ConcatProperties
    <3> HIDE DEF A
    <3> QED BY <3>1, <3>3, <3>4
  <2>3. 1..n \subseteq T
    <3> HIDE DEF T, n
    <3>1. 1 \in Int /\ n \in Int
      BY <1>1
    <3>2. \A i \in 1..(n - 1) : i \in T => i + 1 \in T
      BY <2>2
    <3> QED BY <2>1, <3>1, <3>2, IntervalInductive
  <2> QED BY <2>3
<1>10. flatten \in [1..n -> A]
  BY <1>6, <1>9
<1> QED BY <1>7, <1>8, <1>10

LEMMA FlattenTyped ==
  ASSUME NEW S, NEW ss \in Seq(Seq(S))
  PROVE  FlattenSeq(ss) \in Seq(S)
<1>1. CASE ss = <<>>
  BY <1>1 DEF FlattenSeq
<1>2. CASE ss # <<>>
  <2>1. PICK f \in [1..Len(ss) -> Seq(S)] : FlattenSeq(ss) = f[Len(ss)]
    BY <1>2, FlattenRuns
  <2>2. Len(ss) \in 1..Len(ss)
    BY <1>2
  <2> QED BY <2>1, <2>2
<1> QED BY <1>1, <1>2

\* Each of the sequences stands somewhere in the flattened one.
LEMMA FlattenPlace ==
  ASSUME NEW S, NEW ss \in Seq(Seq(S)), NEW k \in 1..Len(ss)
  PROVE  \E d \in Nat : /\ d + Len(ss[k]) <= Len(FlattenSeq(ss))
                        /\ \A m \in 1..Len(ss[k]) : FlattenSeq(ss)[d + m] = ss[k][m]
<1> DEFINE n == Len(ss)  w == ss[k]
<1>1. n \in Nat /\ Len(ss) = n /\ k \in 1..n /\ ss # <<>> /\ (\A i \in 1..n : ss[i] \in Seq(S)) /\ w \in Seq(S)
  BY ElementOfSeq
<1>2. w = ss[k]
  OBVIOUS
<1> HIDE DEF n, w
<1>3. PICK f \in [1..n -> Seq(S)] :
        f[1] = ss[1] /\ (\A i \in 2..n : f[i] = f[i - 1] \o ss[i]) /\ FlattenSeq(ss) = f[n]
  BY <1>1, FlattenRuns
<1> DEFINE At(u, d) == d + Len(w) <= Len(u) /\ \A m \in 1..Len(w) : u[d + m] = w[m]
           T == {i \in k..n : \E d \in Nat : At(f[i], d)}
<1>4. k \in T
  <2>1. CASE k = 1
    <3>1. f[k] = w /\ k \in k..n
      BY <1>1, <1>2, <1>3, <2>1
    <3>2. At(w, 0)
      BY <1>1
    <3> QED BY <3>1, <3>2
  <2>2. CASE k # 1
    <3> DEFINE a == f[k - 1]
    <3>1. k \in 2..n /\ k - 1 \in 1..n /\ k \in k..n
      BY <1>1, <2>2
    <3>2. a \in Seq(S) /\ f[k] = a \o w
      BY <1>1, <1>2, <1>3, <3>1
    <3> HIDE DEF a
    <3>3. At(a \o w, Len(a))
      <4>1. /\ Len(a \o w) = Len(a) + Len(w)
            /\ \A i \in 1..(Len(a) + Len(w)) : (a \o w)[i] = IF i <= Len(a) THEN a[i] ELSE w[i - Len(a)]
        BY <1>1, <3>2, ConcatProperties
      <4>2. ASSUME NEW m \in 1..Len(w) PROVE (a \o w)[Len(a) + m] = w[m]
        <5>1. /\ Len(a) + m \in 1..(Len(a) + Len(w)) /\ ~(Len(a) + m <= Len(a))
              /\ (Len(a) + m) - Len(a) = m
          BY <1>1, <3>2
        <5> QED BY <4>1, <5>1
      <4>3. Len(a) + Len(w) <= Len(a \o w)
        BY <1>1, <3>2, <4>1
      <4> QED BY <4>2, <4>3
    <3>4. Len(a) \in Nat
      BY <3>2
    <3> QED BY <3>1, <3>2, <3>3, <3>4
  <2> QED BY <2>1, <2>2
<1>5. ASSUME NEW i \in k..(n - 1), i \in T PROVE i + 1 \in T
  <2> DEFINE a == f[i]  b == ss[i + 1]
  <2>1. i \in 1..n /\ i + 1 \in 2..n /\ (i + 1) - 1 = i /\ i + 1 \in k..n /\ i + 1 \in 1..n
    BY <1>1
  <2>2. a \in Seq(S) /\ b \in Seq(S) /\ f[i + 1] = a \o b
    BY <1>1, <1>3, <2>1
  <2>3. PICK d \in Nat : At(a, d)
    BY <1>5
  <2> HIDE DEF a, b
  <2>4. At(a \o b, d)
    <3>1. /\ Len(a \o b) = Len(a) + Len(b) /\ Len(a) \in Nat /\ Len(b) \in Nat
          /\ \A h \in 1..(Len(a) + Len(b)) : (a \o b)[h] = IF h <= Len(a) THEN a[h] ELSE b[h - Len(a)]
      BY <2>2, ConcatProperties
    <3>2. ASSUME NEW m \in 1..Len(w) PROVE (a \o b)[d + m] = w[m]
      <4>1. d + m \in 1..(Len(a) + Len(b)) /\ d + m <= Len(a) /\ a[d + m] = w[m]
        BY <1>1, <2>3, <3>1
      <4> QED BY <3>1, <4>1
    <3>3. d + Len(w) <= Len(a \o b)
      BY <1>1, <2>3, <3>1
    <3> QED BY <3>2, <3>3
  <2> QED BY <2>1, <2>2, <2>4
<1>6. n \in T
  <2> HIDE DEF T
  <2>1. k \in Int /\ n \in Int /\ \A i \in k..(n - 1) : i \in T => i + 1 \in T
    BY <1>1, <1>5
  <2>2. k..n \subseteq T
    BY <1>4, <2>1, IntervalInductive
  <2> QED BY <1>1, <2>2
<1> QED BY <1>2, <1>3, <1>6

\* Whatever is in one of the sequences is in the flattened one.
LEMMA FlattenHas ==
  ASSUME NEW S, NEW ss \in Seq(Seq(S)), NEW k \in 1..Len(ss), NEW m \in 1..Len(ss[k])
  PROVE  \E j \in 1..Len(FlattenSeq(ss)) : FlattenSeq(ss)[j] = ss[k][m]
<1>1. PICK d \in Nat : /\ d + Len(ss[k]) <= Len(FlattenSeq(ss))
                       /\ \A i \in 1..Len(ss[k]) : FlattenSeq(ss)[d + i] = ss[k][i]
  BY FlattenPlace
<1>2. ss[k] \in Seq(S) /\ FlattenSeq(ss) \in Seq(S)
  BY FlattenTyped, ElementOfSeq
<1> DEFINE w == ss[k]  u == FlattenSeq(ss)
<1> HIDE DEF w, u
<1>3. Len(w) \in Nat /\ Len(u) \in Nat /\ m \in 1..Len(w) /\ d + Len(w) <= Len(u)
  BY <1>1, <1>2 DEF w, u
<1>4. d + m \in 1..Len(u)
  BY <1>3
<1> QED BY <1>1, <1>4 DEF u

\* The steps in which Only goes through a sequence of n elements.
Picks(f, s, S, n) ==
  /\ f[0] = <<>>
  /\ \A i \in 1..n : f[i] = IF s[i] \in S THEN Append(f[i - 1], s[i]) ELSE f[i - 1]
  /\ Only(s, S) = f[n]

LEMMA OnlyRuns ==
  ASSUME NEW A, NEW n \in Nat, NEW s \in Seq(A), Len(s) = n, NEW S
  PROVE  \E f \in [0..n -> Seq(A \cap S)] : Picks(f, s, S, n)
<1> DEFINE B == Seq(A \cap S)
           step == [p \in B \X (1..n) |-> IF s[p[2]] \in S THEN Append(p[1], s[p[2]]) ELSE p[1]]
           Runs(f) == f = [i \in 0..n |-> IF i = 0 THEN <<>>
                                          ELSE IF s[i] \in S THEN Append(f[i - 1], s[i]) ELSE f[i - 1]]
           at == CHOOSE f : Runs(f)
<1>1. <<>> \in B
  OBVIOUS
<1>2. step \in [B \X (1..n) -> B]
  <2>1. ASSUME NEW t \in B, NEW i \in 1..n PROVE (IF s[i] \in S THEN Append(t, s[i]) ELSE t) \in B
    <3>1. CASE s[i] \in S
      <4>1. s[i] \in A \cap S
        BY <3>1, ElementOfSeq
      <4> QED BY <3>1, <4>1, AppendProperties
    <3>2. CASE s[i] \notin S
      BY <3>2
    <3> QED BY <3>1, <3>2
  <2> HIDE DEF B
  <2> QED BY <2>1
<1>3. \E f : Runs(f)
  <2> HIDE DEF step, B
  <2>1. PICK f \in [0..n -> B] : Proceeds(f, <<>>, step, n)
    BY <1>1, <1>2, StepsExist
  <2>2. ASSUME NEW i \in 1..n PROVE f[i] = IF s[i] \in S THEN Append(f[i - 1], s[i]) ELSE f[i - 1]
    <3>1. f[i - 1] \in B
      BY <1>1
    <3>2. f[i] = step[<<f[i - 1], i>>]
      BY <2>1 DEF Proceeds
    <3> QED BY <3>1, <3>2 DEF step
  <2>3. f[0] = <<>>
    BY <2>1 DEF Proceeds
  <2>4. ASSUME NEW i \in 0..n
        PROVE  f[i] = IF i = 0 THEN <<>> ELSE IF s[i] \in S THEN Append(f[i - 1], s[i]) ELSE f[i - 1]
    <3>1. CASE i = 0
      BY <2>3, <3>1
    <3>2. CASE i # 0
      <4>1. i \in 1..n
        BY <3>2
      <4> QED BY <2>2, <3>2, <4>1
    <3> QED BY <3>1, <3>2
  <2>5. Runs(f)
    BY <2>4
  <2> QED BY <2>5
<1>4. Runs(at)
  BY <1>3
<1>5. Only(s, S) = at[n]
  BY DEF Only, at
<1> HIDE DEF at
<1>6. at[0] = <<>> /\ \A i \in 1..n : at[i] = IF s[i] \in S THEN Append(at[i - 1], s[i]) ELSE at[i - 1]
  <2>1. \A i \in 0..n : at[i] = IF i = 0 THEN <<>> ELSE IF s[i] \in S THEN Append(at[i - 1], s[i]) ELSE at[i - 1]
    BY <1>4
  <2>2. 0 \in 0..n /\ \A i \in 1..n : i \in 0..n /\ i # 0
    BY <1>1
  <2> QED BY <2>1, <2>2
<1>7. \A i \in 0..n : at[i] \in B
  <2>1. \A i \in 1..n : at[i - 1] \in B => at[i] = step[<<at[i - 1], i>>]
    BY <1>6
  <2>2. at[0] = <<>>
    BY <1>6
  <2> HIDE DEF step, B
  <2> QED BY <1>1, <1>2, <2>1, <2>2, StepsTyped, ZenonT(30)
<1>8. at \in [0..n -> B]
  BY <1>4, <1>7
<1> QED BY <1>5, <1>6, <1>8 DEF Picks

LEMMA OnlyTyped ==
  ASSUME NEW A, NEW s \in Seq(A), NEW S
  PROVE  Only(s, S) \in Seq(A \cap S)
<1> DEFINE n == Len(s)
<1>1. n \in Nat /\ Len(s) = n
  OBVIOUS
<1> HIDE DEF n
<1>2. PICK f \in [0..n -> Seq(A \cap S)] : Picks(f, s, S, n)
  BY <1>1, OnlyRuns
<1>3. f[n] \in Seq(A \cap S)
  BY <1>1
<1> QED BY <1>2, <1>3 DEF Picks

LEMMA OnlyEmpty ==
  ASSUME NEW S
  PROVE  Only(<<>>, S) = <<>>
<1>1. <<>> \in Seq({}) /\ Len(<<>>) = 0
  OBVIOUS
<1>2. PICK f \in [0..0 -> Seq({} \cap S)] : Picks(f, <<>>, S, 0)
  BY <1>1, OnlyRuns
<1> QED BY <1>2 DEF Picks

\* Nothing is selected when nothing is in the set.
LEMMA OnlyNone ==
  ASSUME NEW A, NEW s \in Seq(A), NEW S, A \cap S = {}
  PROVE  Only(s, S) = <<>>
<1>1. Only(s, S) \in Seq({})
  BY OnlyTyped
<1> DEFINE t == Only(s, S)
<1> HIDE DEF t
<1>2. t \in Seq({})
  BY <1>1 DEF t
<1>3. t = <<>>
  <2>1. SUFFICES ASSUME t # <<>> PROVE FALSE
    OBVIOUS
  <2>2. 1 \in 1..Len(t)
    BY <1>2, <2>1
  <2>3. t[1] \in {}
    BY <1>2, <2>2, ElementOfSeq
  <2> QED BY <2>3
<1> QED BY <1>3 DEF t

\* The last element is selected last.
LEMMA OnlyAppend ==
  ASSUME NEW A, NEW s \in Seq(A), NEW x \in A, NEW S
  PROVE  Only(Append(s, x), S) = IF x \in S THEN Append(Only(s, S), x) ELSE Only(s, S)
<1> DEFINE n == Len(s)  r == Append(s, x)
<1>1. n \in Nat /\ Len(s) = n
  OBVIOUS
<1>2. r \in Seq(A) /\ Len(r) = n + 1 /\ (\A i \in 1..n : r[i] = s[i]) /\ r[n + 1] = x
  BY AppendProperties
<1> HIDE DEF n, r
<1>3. PICK f \in [0..n -> Seq(A \cap S)] : Picks(f, s, S, n)
  BY <1>1, OnlyRuns
<1>4. PICK g \in [0..(n + 1) -> Seq(A \cap S)] : Picks(g, r, S, n + 1)
  <2>1. n + 1 \in Nat
    BY <1>1
  <2> QED BY <1>2, <2>1, OnlyRuns
<1> DEFINE T == {i \in 0..n : g[i] = f[i]}
<1>5. 0 \in T
  BY <1>1, <1>3, <1>4 DEF Picks
<1>6. ASSUME NEW i \in 0..(n - 1), i \in T PROVE i + 1 \in T
  <2>1. i + 1 \in 1..n /\ (i + 1) - 1 = i /\ i + 1 \in 0..n /\ i + 1 \in 1..(n + 1)
    BY <1>1
  <2>2. r[i + 1] = s[i + 1] /\ g[i] = f[i]
    BY <1>2, <1>6, <2>1
  <2>3. f[i + 1] = IF s[i + 1] \in S THEN Append(f[i], s[i + 1]) ELSE f[i]
    BY <1>3, <2>1 DEF Picks
  <2>4. g[i + 1] = IF r[i + 1] \in S THEN Append(g[i], r[i + 1]) ELSE g[i]
    BY <1>4, <2>1 DEF Picks
  <2> QED BY <2>1, <2>2, <2>3, <2>4
<1>7. n \in T
  <2> HIDE DEF T
  <2>1. 0 \in Int /\ n \in Int /\ \A i \in 0..(n - 1) : i \in T => i + 1 \in T
    BY <1>1, <1>6
  <2>2. 0..n \subseteq T
    BY <1>5, <2>1, IntervalInductive
  <2> QED BY <1>1, <2>2
<1>8. g[n + 1] = IF r[n + 1] \in S THEN Append(g[n], r[n + 1]) ELSE g[n]
  <2>1. n + 1 \in 1..(n + 1) /\ (n + 1) - 1 = n
    BY <1>1
  <2> QED BY <1>4, <2>1 DEF Picks
<1> QED BY <1>2, <1>3, <1>4, <1>7, <1>8 DEF r, Picks

\* An element of the set is found.
LEMMA OnlyHas ==
  ASSUME NEW A, NEW s \in Seq(A), NEW S, NEW k \in 1..Len(s), s[k] \in S
  PROVE  \E j \in 1..Len(Only(s, S)) : Only(s, S)[j] = s[k]
<1> DEFINE n == Len(s)  B == A \cap S
<1>1. n \in Nat /\ Len(s) = n /\ k \in 1..n /\ \A i \in 1..n : s[i] \in A
  BY ElementOfSeq
<1> HIDE DEF n, B
<1>2. PICK f \in [0..n -> Seq(B)] : Picks(f, s, S, n)
  BY <1>1, OnlyRuns DEF B
<1> DEFINE Found(u) == \E j \in 1..Len(u) : u[j] = s[k]
           T == {i \in k..n : Found(f[i])}
<1>3. ASSUME NEW i \in 1..n, s[i] \in S
      PROVE  LET before == f[i - 1]  x == s[i]
             IN /\ before \in Seq(B) /\ x \in B /\ f[i] = Append(before, x) /\ Len(f[i]) = Len(before) + 1
                /\ (\A j \in 1..Len(before) : f[i][j] = before[j]) /\ f[i][Len(before) + 1] = x
  <2> DEFINE before == f[i - 1]  x == s[i]
  <2>1. before \in Seq(B) /\ x \in B
    <3>1. i - 1 \in 0..n
      BY <1>1
    <3> QED BY <1>1, <1>2, <1>3, <3>1 DEF B
  <2>2. f[i] = Append(before, x)
    BY <1>2, <1>3 DEF Picks
  <2> HIDE DEF before, x
  <2>3. /\ Len(Append(before, x)) = Len(before) + 1
        /\ (\A j \in 1..Len(before) : Append(before, x)[j] = before[j]) /\ Append(before, x)[Len(before) + 1] = x
    BY <2>1, AppendProperties
  <2>4. /\ Len(f[i]) = Len(before) + 1
        /\ (\A j \in 1..Len(before) : f[i][j] = before[j]) /\ f[i][Len(before) + 1] = x
    BY <2>2, <2>3
  <2> QED BY <2>1, <2>2, <2>4 DEF before, x
<1>4. k \in T
  <2> DEFINE before == f[k - 1]
  <2>1. before \in Seq(B) /\ Len(f[k]) = Len(before) + 1 /\ f[k][Len(before) + 1] = s[k]
    BY <1>1, <1>3
  <2> HIDE DEF before
  <2>2. Len(before) + 1 \in 1..Len(f[k]) /\ k \in k..n
    BY <1>1, <2>1
  <2> QED BY <2>1, <2>2
<1>5. ASSUME NEW i \in k..(n - 1), i \in T PROVE i + 1 \in T
  <2>1. i + 1 \in 1..n /\ (i + 1) - 1 = i /\ i + 1 \in k..n
    BY <1>1
  <2>2. CASE s[i + 1] \in S
    <3> DEFINE before == f[i]
    <3>1. before \in Seq(B) /\ Len(f[i + 1]) = Len(before) + 1 /\ \A j \in 1..Len(before) : f[i + 1][j] = before[j]
      BY <1>3, <2>1, <2>2
    <3>2. PICK j \in 1..Len(before) : before[j] = s[k]
      BY <1>5
    <3> HIDE DEF before
    <3>3. j \in 1..Len(f[i + 1]) /\ f[i + 1][j] = s[k]
      BY <3>1, <3>2
    <3> QED BY <2>1, <3>3
  <2>3. CASE s[i + 1] \notin S
    <3>1. f[i + 1] = f[i]
      BY <1>2, <2>1, <2>3 DEF Picks
    <3> QED BY <1>5, <2>1, <3>1
  <2> QED BY <2>2, <2>3
<1>6. n \in T
  <2> HIDE DEF T
  <2>1. k \in Int /\ n \in Int /\ \A i \in k..(n - 1) : i \in T => i + 1 \in T
    BY <1>1, <1>5
  <2>2. k..n \subseteq T
    BY <1>4, <2>1, IntervalInductive
  <2> QED BY <1>1, <2>2
<1> QED BY <1>2, <1>6 DEF Picks

\* Two sequences joined, by a name the provers do not look into.
Join(s, t) == s \o t

LEMMA JoinThree ==
  ASSUME NEW A, NEW u \in Seq(A), NEW v \in Seq(A), NEW w \in Seq(A)
  PROVE  Join(Join(u, v), w) = Join(u, Join(v, w))
BY ConcatAssociative DEF Join

\* What goes behind the second of two sequences goes behind both.
LEMMA AppendBehind ==
  ASSUME NEW A, NEW u \in Seq(A), NEW v \in Seq(A), NEW x \in A
  PROVE  Append(u \o v, x) = u \o Append(v, x)
<1>1. u \o v \in Seq(A)
  BY ConcatProperties
<1>2. Append(u \o v, x) = (u \o v) \o <<x>> /\ Append(v, x) = v \o <<x>>
  BY <1>1, AppendIsConcat
<1> DEFINE w == <<x>>
<1>3. w \in Seq(A)
  OBVIOUS
<1> HIDE DEF w
<1>4. (u \o v) \o w = u \o (v \o w)
  <2>1. Join(Join(u, v), w) = Join(u, Join(v, w))
    BY <1>3, JoinThree
  <2> QED BY <2>1 DEF Join
<1> QED BY <1>2, <1>4 DEF w

\* What is selected from what goes behind.
LEMMA OnlyStep ==
  ASSUME NEW A, NEW S, NEW a \in Seq(A), NEW t \in Seq(A), NEW x \in A
  PROVE  Only(a \o t, S) = Only(a, S) \o Only(t, S)
           => Only(a \o Append(t, x), S) = Only(a, S) \o Only(Append(t, x), S)
<1> DEFINE p == Only(a, S)  o == Only(t, S)  w == <<x>>  u == a \o t
<1>1. p \in Seq(A) /\ o \in Seq(A)
  <2>1. p \in Seq(A \cap S) /\ o \in Seq(A \cap S)
    BY OnlyTyped
  <2> HIDE DEF p, o
  <2> QED BY <2>1
<1>w. w \in Seq(A)
  OBVIOUS
<1>2. u \in Seq(A) /\ a \o Append(t, x) = Append(u, x)
  BY AppendBehind, ConcatProperties
<1>3. Only(Append(u, x), S) = IF x \in S THEN Append(Only(u, S), x) ELSE Only(u, S)
  <2> HIDE DEF u
  <2> QED BY <1>2, OnlyAppend
<1>4. Only(Append(t, x), S) = IF x \in S THEN Append(o, x) ELSE o
  BY OnlyAppend
<1>5. (Only(a \o t, S) = Only(a, S) \o Only(t, S)) <=> (Only(u, S) = p \o o)
  OBVIOUS
<1> HIDE DEF p, o, u
<1>6. p \o o \in Seq(A)
  BY <1>1, ConcatProperties
<1>7. Append(p \o o, x) = (p \o o) \o w /\ Append(o, x) = o \o w
  BY <1>1, <1>6, AppendIsConcat
<1>8. (p \o o) \o w = p \o (o \o w)
  <2> HIDE DEF w
  <2>1. Join(Join(p, o), w) = Join(p, Join(o, w))
    BY <1>1, <1>w, JoinThree
  <2> QED BY <2>1 DEF Join
<1>9. a \o Append(t, x) = Append(u, x)
  BY <1>2
<1> HIDE DEF w
<1>10. ASSUME Only(u, S) = p \o o PROVE Only(Append(u, x), S) = p \o Only(Append(t, x), S)
  BY <1>3, <1>4, <1>7, <1>8, <1>10
<1> QED BY <1>5, <1>9, <1>10 DEF p

\* What is selected from two sequences is what is selected from each.
LEMMA OnlyConcat ==
  ASSUME NEW A, NEW a \in Seq(A), NEW b \in Seq(A), NEW S
  PROVE  Only(a \o b, S) = Only(a, S) \o Only(b, S)
<1> DEFINE n == Len(b)
           Part(i) == SubSeq(b, 1, i)
           T == {i \in 0..n : Only(a \o Part(i), S) = Only(a, S) \o Only(Part(i), S)}
<1>1. n \in Nat
  OBVIOUS
<1>2. \A t \in Seq(A) : Only(t, S) \in Seq(A)
  <2>1. ASSUME NEW t \in Seq(A) PROVE Only(t, S) \in Seq(A)
    <3>1. Only(t, S) \in Seq(A \cap S)
      BY OnlyTyped
    <3> QED BY <3>1
  <2> QED BY <2>1
<1>3. 0 \in T
  <2>1. Part(0) = <<>>
    BY SubSeqEmpty
  <2>2. a \o <<>> = a /\ Only(a, S) \o <<>> = Only(a, S)
    BY <1>2, ConcatEmptySeq
  <2>3. Only(<<>>, S) = <<>>
    BY OnlyEmpty
  <2>4. Only(a \o Part(0), S) = Only(a, S) \o Only(Part(0), S)
    BY <2>1, <2>2, <2>3
  <2>5. 0 \in 0..n
    BY <1>1
  <2> HIDE DEF Part, n
  <2> QED BY <2>4, <2>5
<1>4. ASSUME NEW i \in 0..(n - 1), i \in T PROVE i + 1 \in T
  <2> DEFINE t == Part(i)  x == b[i + 1]
  <2>1. t \in Seq(A) /\ x \in A
    <3>1. i + 1 \in 1..Len(b) /\ \A j \in 1..i : j \in 1..Len(b)
      OBVIOUS
    <3>2. \A j \in 1..i : b[j] \in A
      BY <3>1, ElementOfSeq
    <3> QED BY <3>1, <3>2, ElementOfSeq, SubSeqProperties
  <2>2. Part(i + 1) = Append(t, x)
    <3>1. 1 \in 1..(Len(b) + 1) /\ i + 1 \in 1..Len(b)
      OBVIOUS
    <3> QED BY <3>1, SubSeqRecursiveSecond
  <2>3. Only(a \o t, S) = Only(a, S) \o Only(t, S)
    BY <1>4
  <2> HIDE DEF t, x
  <2>9. Only(a \o Append(t, x), S) = Only(a, S) \o Only(Append(t, x), S)
    BY <2>1, <2>3, OnlyStep
  <2>10. i + 1 \in 0..n
    BY <1>1
  <2> QED BY <2>2, <2>9, <2>10
<1>5. n \in T
  <2> HIDE DEF T, n
  <2>1. 0 \in Int /\ n \in Int /\ \A i \in 0..(n - 1) : i \in T => i + 1 \in T
    BY <1>1, <1>4
  <2>2. 0..n \subseteq T
    BY <1>3, <2>1, IntervalInductive
  <2> QED BY <1>1, <2>2
<1>6. Part(n) = b
  BY SubSeqFull
<1> QED BY <1>5, <1>6
-----------------------------------------------------------------------------
(* Short sequences, written out.                                            *)

LEMMA AppendOne ==
  ASSUME NEW S, NEW a \in S, NEW b \in S
  PROVE  Append(<<>>, a) = <<a>> /\ Append(<<a>>, b) = <<a, b>>
<1>1. Append(<<>>, a) = <<a>>
  OBVIOUS
<1> DEFINE s == <<a>>
<1>2. s \in Seq(S) /\ Len(s) = 1 /\ s[1] = a
  OBVIOUS
<1> HIDE DEF s
<1> DEFINE r == Append(s, b)
<1>3. r \in Seq(S) /\ Len(r) = 2 /\ r[1] = a /\ r[2] = b
  <2>1. /\ r \in Seq(S) /\ Len(r) = Len(s) + 1
        /\ (\A i \in 1..Len(s) : r[i] = s[i]) /\ r[Len(s) + 1] = b
    <3>1. s \in Seq(S)
      BY <1>2
    <3> QED BY <3>1, AppendProperties
  <2> HIDE DEF r
  <2> QED BY <1>2, <2>1
<1> HIDE DEF r
<1>4. r = <<a, b>>
  BY <1>3
<1> QED BY <1>1, <1>4 DEF r, s

LEMMA AppendTwo ==
  ASSUME NEW S, NEW a \in S, NEW b \in S, NEW c \in S
  PROVE  Append(<<a, b>>, c) = <<a, b, c>>
<1> DEFINE s == <<a, b>>
<1>1. s \in Seq(S) /\ Len(s) = 2 /\ s[1] = a /\ s[2] = b
  OBVIOUS
<1> HIDE DEF s
<1> DEFINE r == Append(s, c)
<1>2. /\ r \in Seq(S) /\ Len(r) = Len(s) + 1
      /\ (\A i \in 1..Len(s) : r[i] = s[i]) /\ r[Len(s) + 1] = c
  <2>1. s \in Seq(S)
    BY <1>1
  <2> QED BY <2>1, AppendProperties
<1> HIDE DEF r
<1>3. r \in Seq(S) /\ Len(r) = 3 /\ r[1] = a /\ r[2] = b /\ r[3] = c
  BY <1>1, <1>2
<1>4. r = <<a, b, c>>
  BY <1>3
<1> QED BY <1>4 DEF r, s

LEMMA AppendThree ==
  ASSUME NEW S, NEW a \in S, NEW b \in S, NEW c \in S, NEW d \in S
  PROVE  Append(<<a, b, c>>, d) = <<a, b, c, d>>
<1> DEFINE s == <<a, b, c>>
<1>1. s \in Seq(S) /\ Len(s) = 3 /\ s[1] = a /\ s[2] = b /\ s[3] = c
  OBVIOUS
<1> HIDE DEF s
<1> DEFINE r == Append(s, d)
<1>2. /\ r \in Seq(S) /\ Len(r) = Len(s) + 1
      /\ (\A i \in 1..Len(s) : r[i] = s[i]) /\ r[Len(s) + 1] = d
  <2>1. s \in Seq(S)
    BY <1>1
  <2> QED BY <2>1, AppendProperties
<1> HIDE DEF r
<1>3. r \in Seq(S) /\ Len(r) = 4 /\ r[1] = a /\ r[2] = b /\ r[3] = c /\ r[4] = d
  BY <1>1, <1>2
<1>4. r = <<a, b, c, d>>
  BY <1>3
<1> QED BY <1>4 DEF r, s

\* Only on two, three and four elements.
LEMMA OnlyTwo ==
  ASSUME NEW A, NEW S, NEW a \in A, NEW b \in A
  PROVE  /\ (a \in S /\ b \notin S) => Only(<<a, b>>, S) = <<a>>
         /\ (a \in S /\ b \in S) => Only(<<a, b>>, S) = <<a, b>>
<1> DEFINE e == <<>>  s1 == <<a>>  s2 == <<a, b>>
<1>1. e \in Seq(A) /\ s1 \in Seq(A) /\ Only(e, S) = e
  BY OnlyEmpty
<1>2. s1 = Append(e, a) /\ s2 = Append(s1, b)
  BY AppendOne
<1> HIDE DEF e, s1, s2
<1>3. Only(Append(e, a), S) = IF a \in S THEN Append(Only(e, S), a) ELSE Only(e, S)
  BY <1>1, OnlyAppend
<1>4. Only(Append(s1, b), S) = IF b \in S THEN Append(Only(s1, S), b) ELSE Only(s1, S)
  BY <1>1, OnlyAppend
<1>5. (a \in S /\ b \notin S) => Only(s2, S) = s1
  BY <1>1, <1>2, <1>3, <1>4
<1>6. (a \in S /\ b \in S) => Only(s2, S) = s2
  BY <1>1, <1>2, <1>3, <1>4
<1> QED BY <1>5, <1>6 DEF s1, s2

LEMMA OnlyThree ==
  ASSUME NEW A, NEW S, NEW a \in A, NEW b \in A, NEW c \in A, a \in S, c \notin S
  PROVE  /\ b \notin S => Only(<<a, b, c>>, S) = <<a>>
         /\ b \in S => Only(<<a, b, c>>, S) = <<a, b>>
<1> DEFINE s1 == <<a>>  s2 == <<a, b>>  s3 == <<a, b, c>>
<1>1. s2 \in Seq(A)
  OBVIOUS
<1>2. s3 = Append(s2, c)
  BY AppendTwo
<1>3. (b \notin S => Only(s2, S) = s1) /\ (b \in S => Only(s2, S) = s2)
  BY OnlyTwo
<1> HIDE DEF s1, s2, s3
<1>4. Only(Append(s2, c), S) = IF c \in S THEN Append(Only(s2, S), c) ELSE Only(s2, S)
  BY <1>1, OnlyAppend
<1>5. (b \notin S => Only(s3, S) = s1) /\ (b \in S => Only(s3, S) = s2)
  BY <1>2, <1>3, <1>4
<1> QED BY <1>5 DEF s1, s2, s3

LEMMA OnlyFour ==
  ASSUME NEW A, NEW S, NEW a \in A, NEW b \in A, NEW c \in A, NEW d \in A, a \in S, b \in S, c \notin S, d \in S
  PROVE  Only(<<a, b, c, d>>, S) = <<a, b, d>>
<1> DEFINE s2 == <<a, b>>  s3 == <<a, b, c>>  s4 == <<a, b, c, d>>
<1>1. s3 \in Seq(A)
  OBVIOUS
<1>2. s4 = Append(s3, d) /\ Append(s2, d) = <<a, b, d>>
  BY AppendTwo, AppendThree
<1>3. Only(s3, S) = s2
  BY OnlyThree
<1> HIDE DEF s2, s3, s4
<1>4. Only(Append(s3, d), S) = IF d \in S THEN Append(Only(s3, S), d) ELSE Only(s3, S)
  BY <1>1, OnlyAppend
<1>5. Only(s4, S) = <<a, b, d>>
  BY <1>2, <1>3, <1>4
<1> QED BY <1>5 DEF s4
=============================================================================
