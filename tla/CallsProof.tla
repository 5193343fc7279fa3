------------------------------ MODULE CallsProof ------------------------------
(***************************************************************************)
(* Proofs about the model calls of a session, for any sizes and any number *)
(* of records, windows and summaries.                                      *)
(***************************************************************************)
EXTENDS SessionCalls, SequenceFacts, SequenceTheorems, FiniteSetTheorems

(* Totals.                                                                  *)

\* The sum of a sequence goes from 0 by its elements.
LEMMA TotalRuns ==
  ASSUME NEW s \in Seq(Nat)
  PROVE  \E f \in [0..Len(s) -> Nat] :
           f[0] = 0 /\ (\A i \in 1..Len(s) : f[i] = f[i - 1] + s[i]) /\ Total(s) = f[Len(s)]
<1> DEFINE n == Len(s)
           step == [p \in Nat \X (1..n) |-> p[1] + s[p[2]]]
           Sums(f) == f = [i \in 0..n |-> IF i = 0 THEN 0 ELSE f[i - 1] + s[i]]
           sum == CHOOSE f : Sums(f)
<1>1. n \in Nat /\ step \in [Nat \X (1..n) -> Nat]
  OBVIOUS
<1>2. \E f : Sums(f)
  <2> HIDE DEF step, n
  <2>1. PICK f \in [0..n -> Nat] : Proceeds(f, 0, step, n)
    BY <1>1, StepsExist
  <2>2. ASSUME NEW i \in 1..n PROVE f[i] = f[i - 1] + s[i]
    <3>1. i - 1 \in 0..n
      BY <1>1
    <3>2. f[i - 1] \in Nat
      BY <3>1
    <3> QED BY <2>1, <3>2 DEF Proceeds, step
  <2>3. Sums(f)
    BY <1>1, <2>1, <2>2 DEF Proceeds
  <2> QED BY <2>3
<1>3. Sums(sum)
  BY <1>2
<1> HIDE DEF sum
<1>4. sum[0] = 0 /\ \A i \in 1..n : sum[i] = sum[i - 1] + s[i]
  <2>1. n \in Nat
    BY <1>1
  <2> HIDE DEF n
  <2>2. 0 \in 0..n /\ \A i \in 1..n : i \in 0..n /\ i # 0
    BY <2>1
  <2> QED BY <1>3, <2>2
<1>5. \A i \in 0..n : sum[i] \in Nat
  <2>1. \A i \in 1..n : sum[i - 1] \in Nat => sum[i] = step[<<sum[i - 1], i>>]
    <3> HIDE DEF n
    <3> QED BY <1>4
  <2> HIDE DEF step
  <2>2. 0 \in Nat /\ sum[0] = 0
    BY <1>4
  <2>3. n \in Nat /\ step \in [Nat \X (1..n) -> Nat]
    BY <1>1
  <2> HIDE DEF n, step
  <2> QED BY <2>1, <2>2, <2>3, StepsTyped, ZenonT(30)
<1>6. sum \in [0..n -> Nat]
  BY <1>3, <1>5
<1>7. Total(s) = sum[n]
  BY DEF Total, sum
<1> QED BY <1>4, <1>6, <1>7

LEMMA TotalTyped ==
  ASSUME NEW s \in Seq(Nat)
  PROVE  Total(s) \in Nat
BY TotalRuns

\* The part of a sequence between two places.
LEMMA PartTyped ==
  ASSUME NEW S, NEW s \in Seq(S), NEW i \in 1..Len(s), NEW j \in 0..Len(s)
  PROVE  /\ SubSeq(s, i, j) \in Seq(S)
         /\ Len(SubSeq(s, i, j)) = IF i <= j THEN j - i + 1 ELSE 0
         /\ \A k \in 1..(j - i + 1) : SubSeq(s, i, j)[k] = s[i + k - 1]
BY SubSeqProperties

LEMMA JoinedTyped ==
  ASSUME NEW s \in Seq(Nat), NEW i \in 1..(Len(s) + 1), NEW j \in 0..Len(s)
  PROVE  Joined(s, i, j) \in Nat
<1>1. CASE i > j
  BY <1>1 DEF Joined
<1>2. CASE i <= j
  <2>1. i \in 1..Len(s)
    BY <1>2
  <2>2. Total(SubSeq(s, i, j)) \in Nat
    BY <2>1, PartTyped, TotalTyped
  <2> QED BY <1>2, <2>2 DEF Joined
<1> QED BY <1>1, <1>2

-----------------------------------------------------------------------------
(* windows.py.                                                              *)

\* The tail of a window begins in it or just behind it, and fits the overlap.
LEMMA TailFits ==
  ASSUME NEW s \in Seq(Nat), NEW i \in 1..Len(s), NEW j \in i..Len(s)
  PROVE  TailFrom(s, i, j) \in i..(j + 1) /\ Joined(s, TailFrom(s, i, j), j) <= Overlap
<1> DEFINE T == {k \in i..(j + 1) : Joined(s, k, j) <= Overlap}
           IsTail(k) == Joined(s, k, j) <= Overlap /\ \A m \in i..(k - 1) : Joined(s, m, j) > Overlap
<1>1. Joined(s, j + 1, j) = 0
  BY DEF Joined
<1>2. j + 1 \in T
  BY <1>1, CallsAssumption
<1>3. T \subseteq Nat
  OBVIOUS
<1>4. PICK k \in T : \A y \in T : k <= y
  BY <1>2, <1>3, LeastOf
<1>5. ASSUME NEW m \in i..(k - 1) PROVE Joined(s, m, j) > Overlap
  <2>1. m \in i..(j + 1) /\ m \notin T
    BY <1>4
  <2>2. Joined(s, m, j) \in Nat /\ Overlap \in Nat
    <3>1. m \in 1..(Len(s) + 1) /\ j \in 0..Len(s)
      BY <2>1
    <3>2. Joined(s, m, j) \in Nat
      BY <3>1, JoinedTyped
    <3> QED BY <3>2, CallsAssumption
  <2>3. ~(Joined(s, m, j) <= Overlap)
    BY <2>1
  <2> DEFINE x == Joined(s, m, j)
  <2> HIDE DEF x
  <2>4. x > Overlap
    BY <2>2, <2>3 DEF x
  <2> QED BY <2>4 DEF x
<1>6. IsTail(k)
  BY <1>4, <1>5
<1>7. \E x \in i..(j + 1) : IsTail(x)
  BY <1>6
<1>8. TailFrom(s, i, j) \in i..(j + 1) /\ IsTail(TailFrom(s, i, j))
  BY <1>7 DEF TailFrom
<1> QED BY <1>8

Interval == [from : Nat, to : Nat]
Placing(n) == [from : 1..(n + 1), cut : Seq(Interval)]

LEMMA WindowTyped ==
  ASSUME NEW s \in Seq(Nat), NEW acc \in Placing(Len(s)), NEW r \in 1..Len(s)
  PROVE  Window(s, acc, r) \in Placing(Len(s))
<1>1. CASE acc.from < r /\ Joined(s, acc.from, r) > WindowSize
  <2> DEFINE t == TailFrom(s, acc.from, r - 1)
             w == [from |-> acc.from, to |-> r - 1]
             from == IF Joined(s, t, r) > WindowSize THEN r ELSE t
  <2>1. acc.from \in 1..Len(s) /\ r - 1 \in acc.from..Len(s)
    BY <1>1 DEF Placing
  <2>2. t \in acc.from..r
    <3> DEFINE i == acc.from  j == r - 1
    <3>1. i \in 1..Len(s) /\ j \in i..Len(s) /\ j + 1 = r
      BY <2>1
    <3> HIDE DEF i, j
    <3>2. TailFrom(s, i, j) \in i..(j + 1)
      BY <3>1, TailFits
    <3> QED BY <3>1, <3>2 DEF i, j
  <2>3. from \in 1..(Len(s) + 1)
    BY <2>1, <2>2
  <2>4. w \in Interval
    BY <2>1 DEF Interval
  <2>5. Append(acc.cut, w) \in Seq(Interval)
    BY <2>4 DEF Placing
  <2>6. Window(s, acc, r) = [from |-> from, cut |-> Append(acc.cut, w)]
    BY <1>1 DEF Window
  <2> HIDE DEF from, w
  <2> QED BY <2>3, <2>5, <2>6 DEF Placing
<1>2. CASE ~(acc.from < r /\ Joined(s, acc.from, r) > WindowSize)
  BY <1>2 DEF Window
<1> QED BY <1>1, <1>2

\* split goes through the records one by one.
LEMMA SplitRuns ==
  ASSUME NEW s \in Seq(Nat), s # <<>>
  PROVE  \E at \in [0..Len(s) -> Placing(Len(s))] :
           /\ at[0] = [from |-> 1, cut |-> <<>>]
           /\ \A r \in 1..Len(s) : at[r] = Window(s, at[r - 1], r)
           /\ Split(s) = Append(at[Len(s)].cut, [from |-> at[Len(s)].from, to |-> Len(s)])
<1> DEFINE n == Len(s)
           A == Placing(n)
           base == [from |-> 1, cut |-> <<>>]
           step == [p \in A \X (1..n) |-> Window(s, p[1], p[2])]
           Runs(f) == f = [r \in 0..n |-> IF r = 0 THEN base ELSE Window(s, f[r - 1], r)]
           at == CHOOSE f : Runs(f)
<1>1. n \in Nat /\ n # 0
  OBVIOUS
<1>2. base \in A
  BY DEF Placing
<1>3. step \in [A \X (1..n) -> A]
  BY WindowTyped
<1>4. \E f : Runs(f)
  <2> HIDE DEF step, A, base, n
  <2>1. PICK f \in [0..n -> A] : Proceeds(f, base, step, n)
    BY <1>1, <1>2, <1>3, StepsExist
  <2>2. ASSUME NEW r \in 1..n PROVE f[r] = Window(s, f[r - 1], r)
    <3>1. f[r - 1] \in A
      BY <1>1
    <3>2. f[r] = step[<<f[r - 1], r>>]
      BY <2>1 DEF Proceeds
    <3> QED BY <3>1, <3>2 DEF step
  <2>3. Runs(f)
    BY <1>1, <2>1, <2>2 DEF Proceeds
  <2> QED BY <2>3
<1>5. Runs(at)
  BY <1>4
<1> HIDE DEF at
<1>6. at[0] = base /\ \A r \in 1..n : at[r] = Window(s, at[r - 1], r)
  BY <1>1, <1>5
<1>7. \A r \in 0..n : at[r] \in A
  <2>1. \A r \in 1..n : at[r - 1] \in A => at[r] = step[<<at[r - 1], r>>]
    BY <1>6
  <2> HIDE DEF step, A, base, n
  <2> QED BY <1>1, <1>2, <1>3, <1>6, <2>1, StepsTyped
<1>8. at \in [0..n -> A]
  BY <1>5, <1>7
<1>9. Split(s) = Append(at[n].cut, [from |-> at[n].from, to |-> n])
  BY <1>1 DEF Split, at
<1> QED BY <1>6, <1>8, <1>9

\* What WindowsCoverSession says of windows that hold the records up to r.
HoldUpTo(s, w, r) ==
  /\ w \in Seq(Interval) /\ w # <<>> /\ w[1].from = 1 /\ w[Len(w)].to = r
  /\ \A i \in 1..Len(w) :
       /\ w[i].from \in 1..w[i].to /\ w[i].to <= r
       /\ Joined(s, w[i].from, w[i].to) <= WindowSize \/ w[i].from = w[i].to
  /\ \A i \in 2..Len(w) :
       /\ w[i - 1].to < w[i].to /\ w[i].from <= w[i - 1].to + 1
       /\ Joined(s, w[i].from, w[i - 1].to) <= Overlap
       /\ Joined(s, w[i - 1].from, w[i - 1].to + 1) > WindowSize

WindowsAt(acc, r) == Append(acc.cut, [from |-> acc.from, to |-> r])

LEMMA WindowsAtAre ==
  ASSUME NEW acc, acc.cut \in Seq(Interval), acc.from \in Nat, NEW r \in Nat
  PROVE  /\ WindowsAt(acc, r) \in Seq(Interval)
         /\ Len(WindowsAt(acc, r)) = Len(acc.cut) + 1
         /\ \A i \in 1..Len(acc.cut) : WindowsAt(acc, r)[i] = acc.cut[i]
         /\ WindowsAt(acc, r)[Len(acc.cut) + 1].from = acc.from
         /\ WindowsAt(acc, r)[Len(acc.cut) + 1].to = r
<1>1. [from |-> acc.from, to |-> r] \in Interval
  BY DEF Interval
<1> QED BY <1>1, AppendProperties DEF WindowsAt

\* The next record goes into the last window, or into a new one.
LEMMA WindowHolds ==
  ASSUME NEW s \in Seq(Nat), NEW acc \in Placing(Len(s)), NEW r \in 1..(Len(s) - 1),
         HoldUpTo(s, WindowsAt(acc, r), r)
  PROVE  HoldUpTo(s, WindowsAt(Window(s, acc, r + 1), r + 1), r + 1)
<1> DEFINE k == Len(acc.cut)
           w == WindowsAt(acc, r)
           next == Window(s, acc, r + 1)
           v == WindowsAt(next, r + 1)
<1>1. acc.cut \in Seq(Interval) /\ acc.from \in Nat /\ k \in Nat /\ r \in Nat /\ r + 1 \in 1..Len(s) /\ Len(s) \in Nat
  BY DEF Placing
<1> HIDE DEF k
<1>2. /\ w \in Seq(Interval) /\ Len(w) = k + 1
      /\ \A i \in 1..k : w[i] = acc.cut[i]
      /\ w[k + 1].from = acc.from /\ w[k + 1].to = r
  BY <1>1, WindowsAtAre DEF k
<1>3. acc.from \in 1..r
  BY <1>1, <1>2 DEF HoldUpTo
<1>4. \A i \in 1..(k + 1) : w[i].from \in Nat /\ w[i].to \in Nat
  <2>1. \A i \in 1..(k + 1) : w[i] \in Interval
    BY <1>1, <1>2, ElementOfSeq
  <2> QED BY <2>1 DEF Interval
<1>5. next \in Placing(Len(s))
  BY WindowTyped
<1>6. next.cut \in Seq(Interval) /\ next.from \in Nat
  BY <1>5 DEF Placing
<1>7. /\ v \in Seq(Interval) /\ Len(v) = Len(next.cut) + 1
      /\ \A i \in 1..Len(next.cut) : v[i] = next.cut[i]
      /\ v[Len(next.cut) + 1].from = next.from /\ v[Len(next.cut) + 1].to = r + 1
  BY <1>6, WindowsAtAre
<1> HIDE DEF w, next, v
<1>8. Joined(s, acc.from, r + 1) \in Nat
  <2>1. acc.from \in 1..(Len(s) + 1) /\ r + 1 \in 0..Len(s)
    BY <1>1, <1>3
  <2> QED BY <2>1, JoinedTyped
<1>9. CASE acc.from < r + 1 /\ Joined(s, acc.from, r + 1) > WindowSize
  <2> DEFINE t == TailFrom(s, acc.from, r)
             from == IF Joined(s, t, r + 1) > WindowSize THEN r + 1 ELSE t
  <2>1. next.from = from /\ next.cut = Append(acc.cut, [from |-> acc.from, to |-> r])
    BY <1>9 DEF Window, next
  <2>2. t \in acc.from..(r + 1) /\ Joined(s, t, r) <= Overlap
    <3>1. acc.from \in 1..Len(s) /\ r \in acc.from..Len(s)
      BY <1>1, <1>3
    <3> QED BY <3>1, TailFits
  <2>3. from \in 1..(r + 1) /\ Joined(s, from, r) <= Overlap
    <3>1. Joined(s, r + 1, r) = 0
      BY DEF Joined
    <3>2. acc.from \in Nat /\ 0 <= Overlap /\ from \in {r + 1, t}
      BY <1>1, CallsAssumption
    <3> HIDE DEF from, t
    <3>3. CASE from = r + 1
      BY <1>1, <3>1, <3>2, <3>3
    <3>4. CASE from = t
      BY <1>1, <1>3, <2>2, <3>4
    <3> QED BY <3>2, <3>3, <3>4
  <2>4. from = r + 1 \/ Joined(s, from, r + 1) <= WindowSize
    <3>1. Joined(s, t, r + 1) \in Nat
      BY <1>3, <2>2, JoinedTyped
    <3> QED BY <3>1, CallsAssumption
  <2> HIDE DEF from, t
  <2>5. next.cut = w
    BY <2>1 DEF WindowsAt, w
  <2>6. /\ Len(v) = k + 2
        /\ \A i \in 1..(k + 1) : v[i] = w[i]
        /\ v[k + 2].from = from /\ v[k + 2].to = r + 1
    <3>1. Len(next.cut) = k + 1 /\ (k + 1) + 1 = k + 2
      BY <1>1, <1>2, <2>5
    <3>2. \A i \in 1..(k + 1) : v[i] = w[i]
      BY <1>7, <2>5, <3>1
    <3> QED BY <1>7, <2>1, <3>1, <3>2
  <2>7. v # <<>> /\ v[1].from = 1 /\ v[Len(v)].to = r + 1
    BY <1>1, <1>2, <1>7, <2>6 DEF HoldUpTo, w
  <2>8. ASSUME NEW i \in 1..Len(v)
        PROVE  /\ v[i].from \in 1..v[i].to /\ v[i].to <= r + 1
               /\ Joined(s, v[i].from, v[i].to) <= WindowSize \/ v[i].from = v[i].to
    <3>1. CASE i = k + 2
      BY <2>3, <2>4, <2>6, <3>1
    <3>2. CASE i \in 1..(k + 1)
      <4>1. i \in 1..(k + 1) /\ v[i] = w[i] /\ i \in 1..Len(w)
        BY <1>2, <2>6, <3>2
      <4>2. /\ w[i].from \in 1..w[i].to /\ w[i].to <= r
            /\ Joined(s, w[i].from, w[i].to) <= WindowSize \/ w[i].from = w[i].to
        BY <4>1 DEF HoldUpTo, w
      <4> DEFINE b == w[i].to
      <4>3. b \in Nat /\ b <= r
        BY <1>4, <4>1, <4>2
      <4> HIDE DEF b
      <4>4. b <= r + 1
        BY <1>1, <4>3
      <4> QED BY <4>1, <4>2, <4>4 DEF b
    <3> QED BY <1>1, <2>6, <3>1, <3>2
  <2>9. ASSUME NEW i \in 2..Len(v)
        PROVE  /\ v[i - 1].to < v[i].to /\ v[i].from <= v[i - 1].to + 1
               /\ Joined(s, v[i].from, v[i - 1].to) <= Overlap
               /\ Joined(s, v[i - 1].from, v[i - 1].to + 1) > WindowSize
    <3>1. CASE i = k + 2
      <4>1. v[i - 1].from = acc.from /\ v[i - 1].to = r
        <5>1. i - 1 = k + 1 /\ k + 1 \in 1..(k + 1)
          BY <1>1, <3>1
        <5>2. v[k + 1] = w[k + 1]
          BY <2>6, <5>1
        <5> QED BY <1>2, <5>1, <5>2
      <4> QED BY <1>9, <2>3, <2>6, <3>1, <4>1
    <3>2. CASE i \in 2..(k + 1)
      <4>1. i \in 1..(k + 1) /\ i - 1 \in 1..(k + 1) /\ Len(w) = k + 1
        BY <1>1, <1>2, <3>2
      <4>2. v[i] = w[i] /\ v[i - 1] = w[i - 1] /\ i \in 2..Len(w)
        BY <2>6, <3>2, <4>1
      <4>3. HoldUpTo(s, w, r)
        BY DEF w
      <4> QED BY <4>2, <4>3 DEF HoldUpTo
    <3> QED BY <1>1, <2>6, <3>1, <3>2
  <2> QED BY <1>7, <2>7, <2>8, <2>9 DEF HoldUpTo, v, next
<1>10. CASE ~(acc.from < r + 1 /\ Joined(s, acc.from, r + 1) > WindowSize)
  <2>1. next = acc
    BY <1>10 DEF Window, next
  <2>2. Joined(s, acc.from, r + 1) <= WindowSize
    <3>1. acc.from < r + 1
      BY <1>1, <1>3
    <3>2. WindowSize \in Nat
      BY CallsAssumption
    <3> QED BY <1>8, <1>10, <3>1, <3>2
  <2>3. /\ Len(v) = k + 1
        /\ \A i \in 1..k : v[i] = w[i]
        /\ v[k + 1].from = acc.from /\ v[k + 1].to = r + 1
    <3>1. Len(next.cut) = k /\ next.cut = acc.cut /\ next.from = acc.from
      BY <2>1 DEF k
    <3> QED BY <1>2, <1>7, <3>1
  <2>4. v # <<>> /\ v[1].from = 1 /\ v[Len(v)].to = r + 1
    <3>1. v[1].from = w[1].from
      <4>1. k = 0 \/ 1 \in 1..k
        BY <1>1
      <4>2. k = 0 => k + 1 = 1
        OBVIOUS
      <4> QED BY <1>2, <2>3, <4>1, <4>2
    <3> QED BY <1>1, <1>7, <2>3, <3>1 DEF HoldUpTo, w
  <2>5. ASSUME NEW i \in 1..Len(v)
        PROVE  /\ v[i].from \in 1..v[i].to /\ v[i].to <= r + 1
               /\ Joined(s, v[i].from, v[i].to) <= WindowSize \/ v[i].from = v[i].to
    <3>1. CASE i = k + 1
      BY <1>3, <2>2, <2>3, <3>1
    <3>2. CASE i \in 1..k
      <4>1. i \in 1..(k + 1) /\ v[i] = w[i] /\ i \in 1..Len(w)
        BY <1>1, <1>2, <2>3, <3>2
      <4>2. /\ w[i].from \in 1..w[i].to /\ w[i].to <= r
            /\ Joined(s, w[i].from, w[i].to) <= WindowSize \/ w[i].from = w[i].to
        BY <4>1 DEF HoldUpTo, w
      <4> DEFINE b == w[i].to
      <4>3. b \in Nat /\ b <= r
        BY <1>4, <4>1, <4>2
      <4> HIDE DEF b
      <4>4. b <= r + 1
        BY <1>1, <4>3
      <4> QED BY <4>1, <4>2, <4>4 DEF b
    <3> QED BY <1>1, <2>3, <3>1, <3>2
  <2>6. ASSUME NEW i \in 2..Len(v)
        PROVE  /\ v[i - 1].to < v[i].to /\ v[i].from <= v[i - 1].to + 1
               /\ Joined(s, v[i].from, v[i - 1].to) <= Overlap
               /\ Joined(s, v[i - 1].from, v[i - 1].to + 1) > WindowSize
    <3>1. /\ i \in 2..Len(w) /\ v[i - 1] = w[i - 1]
          /\ v[i].from = w[i].from /\ w[i].to <= v[i].to
      <4>1. i \in 2..(k + 1) /\ i - 1 \in 1..k
        <5>1. i \in 2..(k + 1)
          BY <2>3
        <5> QED BY <1>1, <5>1
      <4>2. v[i - 1] = w[i - 1] /\ i \in 2..Len(w)
        BY <1>2, <2>3, <4>1
      <4>3. CASE i = k + 1
        BY <1>1, <1>2, <2>3, <4>1, <4>2, <4>3
      <4>4. CASE i \in 2..k
        <5>1. v[i] = w[i] /\ w[i].to \in Nat
          BY <1>1, <1>4, <2>3, <4>4
        <5> QED BY <4>2, <5>1
      <4>5. i = k + 1 \/ i \in 2..k
        BY <1>1, <4>1
      <4> QED BY <4>3, <4>4, <4>5
    <3>2. /\ w[i - 1].to < w[i].to /\ w[i].from <= w[i - 1].to + 1
          /\ Joined(s, w[i].from, w[i - 1].to) <= Overlap
          /\ Joined(s, w[i - 1].from, w[i - 1].to + 1) > WindowSize
      BY <3>1 DEF HoldUpTo, w
    <3>3. w[i].to \in Nat /\ v[i].to \in Nat /\ w[i - 1].to \in Nat
      <4>1. i \in 1..(k + 1) /\ i - 1 \in 1..(k + 1) /\ i \in 1..Len(v)
        BY <1>1, <2>3
      <4>2. v[i] \in Interval
        BY <1>7, <4>1, ElementOfSeq
      <4> QED BY <1>4, <4>1, <4>2 DEF Interval
    <3>4. w[i - 1].to < v[i].to
      <4> DEFINE a == w[i - 1].to  b == w[i].to  c == v[i].to
      <4>1. a \in Nat /\ b \in Nat /\ c \in Nat /\ a < b /\ b <= c
        BY <3>1, <3>2, <3>3
      <4> HIDE DEF a, b, c
      <4>2. a < c
        BY <4>1
      <4> QED BY <4>2 DEF a, c
    <3> QED BY <3>1, <3>2, <3>4
  <2> QED BY <1>7, <2>4, <2>5, <2>6 DEF HoldUpTo, v, next
<1> QED BY <1>9, <1>10

\* Each record is in a window when split is through.
LEMMA SplitHolds ==
  ASSUME NEW s \in Seq(Nat), s # <<>>
  PROVE  HoldUpTo(s, Split(s), Len(s))
<1> DEFINE n == Len(s)
<1>1. n \in Nat \ {0}
  OBVIOUS
<1>2. PICK at \in [0..n -> Placing(n)] :
        /\ at[0] = [from |-> 1, cut |-> <<>>]
        /\ \A r \in 1..n : at[r] = Window(s, at[r - 1], r)
        /\ Split(s) = WindowsAt(at[n], n)
  BY SplitRuns DEF WindowsAt
<1> DEFINE S == {r \in 1..n : HoldUpTo(s, WindowsAt(at[r], r), r)}
<1>3. 1 \in S
  <2>1. at[1] = Window(s, at[0], 1)
    BY <1>1, <1>2
  <2>2. at[1] = [from |-> 1, cut |-> <<>>]
    BY <1>2, <2>1 DEF Window
  <2>3. WindowsAt(at[1], 1) = << [from |-> 1, to |-> 1] >>
    BY <2>2 DEF WindowsAt
  <2> DEFINE w == << [from |-> 1, to |-> 1] >>
  <2>4. w \in Seq(Interval) /\ w # <<>> /\ Len(w) = 1 /\ w[1].from = 1 /\ w[1].to = 1
    BY DEF Interval
  <2> HIDE DEF w
  <2>5. HoldUpTo(s, w, 1)
    <3>1. \A i \in 1..Len(w) : i = 1
      BY <2>4
    <3>2. ~ \E i \in 2..Len(w) : TRUE
      BY <2>4
    <3>3. w[Len(w)].to = 1
      BY <2>4
    <3>4. \A i \in 1..Len(w) : w[i].from \in 1..w[i].to /\ w[i].to <= 1 /\ w[i].from = w[i].to
      BY <2>4, <3>1
    <3> QED BY <2>4, <3>2, <3>3, <3>4 DEF HoldUpTo
  <2> QED BY <1>1, <2>3, <2>5 DEF w
<1>4. ASSUME NEW r \in 1..(n - 1), r \in S PROVE r + 1 \in S
  <2>1. at[r + 1] = Window(s, at[r], r + 1) /\ at[r] \in Placing(n) /\ r + 1 \in 1..n
    <3> HIDE DEF n, S
    <3>1. r + 1 \in 1..n /\ (r + 1) - 1 = r /\ r \in 0..n
      BY <1>1
    <3>2. at[r + 1] = Window(s, at[(r + 1) - 1], r + 1) /\ at[r] \in Placing(n)
      BY <1>2, <3>1
    <3> QED BY <3>1, <3>2
  <2>2. HoldUpTo(s, WindowsAt(at[r], r), r)
    BY <1>4
  <2> QED BY <2>1, <2>2, WindowHolds
<1> HIDE DEF S, n
<1>5. 1..n \subseteq S
  <2>1. 1 \in Int /\ n \in Int
    BY <1>1
  <2>2. \A r \in 1..(n - 1) : r \in S => r + 1 \in S
    BY <1>4
  <2> QED BY <1>3, <2>1, <2>2, IntervalInductive
<1>6. n \in S
  BY <1>1, <1>5
<1> QED BY <1>2, <1>6 DEF S, n

\* The plan is made once.
PlanInv ==
  /\ records \in Seq(Nat) /\ windows \in Seq(Interval)
  /\ IF records = <<>> THEN windows = <<>> ELSE HoldUpTo(records, windows, Len(records))

\* What an answer comes to.
LEMMA Outcomes ==
  ASSUME NEW ending \in Endings, NEW size, Answered(ending, size)
  PROVE  \/ MayHalve(ending) /\ Halve
         \/ ending # "fits" /\ \E detail : Raise(detail)
         \/ ending = "fits" /\ Keep(size)
<1>1. CASE MayHalve(ending)
  BY <1>1 DEF Answered, MayHalve
<1>2. CASE ending = "max_tokens" /\ ~MayHalve(ending)
  BY <1>2 DEF Answered
<1>3. CASE ending = "other"
  BY <1>3 DEF Answered, MayHalve
<1>4. CASE ending = "fits"
  BY <1>4 DEF Answered, MayHalve
<1> QED BY <1>1, <1>2, <1>3, <1>4 DEF Endings

\* A plan is made before the first call, and kept.
LEMMA PlanKept ==
  ASSUME [CallsNext]_callsVars
  PROVE  \/ UNCHANGED plan
         \/ \E sizes \in BoundedSeq(RecordSizes, MaxRecords), left \in {RunCap, RunCap \div 2} : Plan(sizes, left)
<1>1. CASE UNCHANGED callsVars
  BY <1>1 DEF callsVars
<1>2. ASSUME NEW failure, Fails(failure) PROVE UNCHANGED plan
  BY <1>2 DEF Fails, Raise, Over, plan
<1>3. ASSUME NEW ending \in Endings, NEW size, Answered(ending, size) PROVE UNCHANGED plan
  BY <1>3, Outcomes DEF Raise, Over, Keep, Halve
<1>4. ASSUME Ask \/ WorkFails \/ PromptGone \/ Interrupted \/ WindowsDone \/ PassOn \/ Round \/ Finish
      PROVE  UNCHANGED plan
  BY <1>4 DEF Ask, WorkFails, PromptGone, Interrupted, Over, WindowsDone, PassOn, Round, Finish, plan
<1> QED BY <1>1, <1>2, <1>3, <1>4 DEF CallsNext

\* BoundedSeq of the records' sizes.
LEMMA RecordsTyped ==
  ASSUME NEW sizes \in BoundedSeq(RecordSizes, MaxRecords)
  PROVE  sizes \in Seq(Nat)
<1>1. PICK n \in 0..MaxRecords : sizes \in [1..n -> RecordSizes]
  BY DEF BoundedSeq, SeqOf
<1>2. n \in Nat /\ RecordSizes \subseteq Nat
  BY CallsAssumption
<1>3. sizes \in [1..n -> Nat]
  BY <1>1, <1>2
<1> QED BY <1>2, <1>3

LEMMA PlanHolds == CallsSpec => []PlanInv
<1>1. CallsInit => PlanInv
  BY DEF CallsInit, PlanInv
<1>2. PlanInv /\ [CallsNext]_callsVars => PlanInv'
  <2> SUFFICES ASSUME PlanInv, [CallsNext]_callsVars PROVE PlanInv'
    OBVIOUS
  <2>1. CASE UNCHANGED plan
    BY <2>1 DEF PlanInv, plan
  <2>2. ASSUME NEW sizes \in BoundedSeq(RecordSizes, MaxRecords), NEW left, Plan(sizes, left) PROVE PlanInv'
    <3>1. sizes \in Seq(Nat) /\ records' = sizes /\ windows' = Split(sizes)
      BY <2>2, RecordsTyped DEF Plan
    <3>2. CASE sizes = <<>>
      <4>1. Split(sizes) = <<>>
        BY <3>2 DEF Split
      <4>2. <<>> \in Seq(Interval) /\ <<>> \in Seq(Nat)
        OBVIOUS
      <4> QED BY <3>1, <3>2, <4>1, <4>2 DEF PlanInv
    <3>3. CASE sizes # <<>>
      <4>1. HoldUpTo(sizes, Split(sizes), Len(sizes))
        BY <3>1, <3>3, SplitHolds
      <4>2. Split(sizes) \in Seq(Interval)
        BY <4>1 DEF HoldUpTo
      <4> QED BY <3>1, <3>3, <4>1, <4>2 DEF PlanInv
    <3> QED BY <3>2, <3>3
  <2> QED BY <2>1, <2>2, PlanKept
<1> QED BY <1>1, <1>2, PTL DEF CallsSpec

\* Every record of a session is in a window and in order, however long the
\* records are; what is shown twice fits the overlap, and no window is cut
\* before it must be (windows.split).
THEOREM WindowsCover == CallsSpec => []WindowsCoverSession
<1>1. PlanInv => WindowsCoverSession
  <2> SUFFICES ASSUME PlanInv PROVE WindowsCoverSession
    OBVIOUS
  <2>1. CASE records = <<>>
    BY <2>1 DEF PlanInv, WindowsCoverSession
  <2>2. CASE records # <<>>
    <3>1. HoldUpTo(records, windows, Len(records))
      BY <2>2 DEF PlanInv
    <3>2. DOMAIN windows = 1..Len(windows)
      BY DEF PlanInv
    <3> QED BY <2>2, <3>1, <3>2 DEF HoldUpTo, WindowsCoverSession, WindowText
  <2> QED BY <2>1, <2>2
<1> QED BY <1>1, PlanHolds, PTL

-----------------------------------------------------------------------------
(* summarize.grouped.                                                       *)

LEMMA GroupTyped ==
  ASSUME NEW s \in Seq(Nat), NEW acc \in Placing(Len(s)), NEW i \in 1..Len(s)
  PROVE  Group(s, acc, i) \in Placing(Len(s))
<1>1. CASE acc.from + 1 < i /\ Overhead + Total(SubSeq(s, acc.from, i)) > MergeInput
  <2> DEFINE g == [from |-> acc.from, to |-> i - 1]
  <2>1. g \in Interval
    BY DEF Interval, Placing
  <2>2. Append(acc.cut, g) \in Seq(Interval)
    BY <2>1 DEF Placing
  <2>3. Group(s, acc, i) = [from |-> i, cut |-> Append(acc.cut, g)]
    BY <1>1 DEF Group
  <2> HIDE DEF g
  <2> QED BY <2>2, <2>3 DEF Placing
<1>2. CASE ~(acc.from + 1 < i /\ Overhead + Total(SubSeq(s, acc.from, i)) > MergeInput)
  BY <1>2 DEF Group
<1> QED BY <1>1, <1>2

\* grouped goes through the summaries one by one.
LEMMA GroupedRuns ==
  ASSUME NEW s \in Seq(Nat), s # <<>>
  PROVE  \E at \in [0..Len(s) -> Placing(Len(s))] :
           /\ at[0] = [from |-> 1, cut |-> <<>>]
           /\ \A i \in 1..Len(s) : at[i] = Group(s, at[i - 1], i)
           /\ Grouped(s) = WindowsAt(at[Len(s)], Len(s))
<1> DEFINE n == Len(s)
           A == Placing(n)
           base == [from |-> 1, cut |-> <<>>]
           step == [p \in A \X (1..n) |-> Group(s, p[1], p[2])]
           Runs(f) == f = [i \in 0..n |-> IF i = 0 THEN base ELSE Group(s, f[i - 1], i)]
           at == CHOOSE f : Runs(f)
<1>1. n \in Nat /\ n # 0
  OBVIOUS
<1>2. base \in A
  BY DEF Placing
<1>3. step \in [A \X (1..n) -> A]
  BY GroupTyped
<1>4. \E f : Runs(f)
  <2> HIDE DEF step, A, base, n
  <2>1. PICK f \in [0..n -> A] : Proceeds(f, base, step, n)
    BY <1>1, <1>2, <1>3, StepsExist
  <2>2. ASSUME NEW i \in 1..n PROVE f[i] = Group(s, f[i - 1], i)
    <3>1. f[i - 1] \in A
      BY <1>1
    <3>2. f[i] = step[<<f[i - 1], i>>]
      BY <2>1 DEF Proceeds
    <3> QED BY <3>1, <3>2 DEF step
  <2>3. Runs(f)
    BY <1>1, <2>1, <2>2 DEF Proceeds
  <2> QED BY <2>3
<1>5. Runs(at)
  BY <1>4
<1> HIDE DEF at
<1>6. at[0] = base /\ \A i \in 1..n : at[i] = Group(s, at[i - 1], i)
  BY <1>1, <1>5
<1>7. \A i \in 0..n : at[i] \in A
  <2>1. \A i \in 1..n : at[i - 1] \in A => at[i] = step[<<at[i - 1], i>>]
    BY <1>6
  <2> HIDE DEF step, A, base, n
  <2> QED BY <1>1, <1>2, <1>3, <1>6, <2>1, StepsTyped
<1>8. at \in [0..n -> A]
  BY <1>5, <1>7
<1>9. Grouped(s) = WindowsAt(at[n], n)
  BY <1>1 DEF Grouped, at, WindowsAt
<1> QED BY <1>6, <1>8, <1>9

\* The input of a merge of the summaries i..j.
MergeOf(s, i, j) == Overhead + Total(SubSeq(s, i, j))

LEMMA MergeOfTyped ==
  ASSUME NEW s \in Seq(Nat), NEW i \in 1..Len(s), NEW j \in 0..Len(s)
  PROVE  MergeOf(s, i, j) \in Nat
<1>1. SubSeq(s, i, j) \in Seq(Nat)
  BY PartTyped
<1>2. Total(SubSeq(s, i, j)) \in Nat
  BY <1>1, TotalTyped
<1>3. Overhead \in Nat
  BY CallsAssumption
<1> QED BY <1>2, <1>3 DEF MergeOf

\* Groups of the first r summaries: consecutive, two at least but for the last
\* group, as many as fit.
GroupsUpTo(s, g, r) ==
  /\ g \in Seq(Interval) /\ g # <<>> /\ g[1].from = 1 /\ g[Len(g)].to = r
  /\ \A i \in 1..Len(g) :
       /\ g[i].from \in 1..g[i].to /\ g[i].to <= r
       /\ MergeOf(s, g[i].from, g[i].to) <= MergeInput \/ g[i].to <= g[i].from + 1
  /\ \A i \in 2..Len(g) :
       /\ g[i].from = g[i - 1].to + 1 /\ g[i - 1].from < g[i - 1].to
       /\ MergeOf(s, g[i - 1].from, g[i].from) > MergeInput

\* The next summary goes into the last group, or into a new one.
LEMMA GroupHolds ==
  ASSUME NEW s \in Seq(Nat), NEW acc \in Placing(Len(s)), NEW r \in 1..(Len(s) - 1),
         GroupsUpTo(s, WindowsAt(acc, r), r)
  PROVE  GroupsUpTo(s, WindowsAt(Group(s, acc, r + 1), r + 1), r + 1)
<1> DEFINE k == Len(acc.cut)
           w == WindowsAt(acc, r)
           next == Group(s, acc, r + 1)
           v == WindowsAt(next, r + 1)
<1>1. acc.cut \in Seq(Interval) /\ acc.from \in Nat /\ k \in Nat /\ r \in Nat /\ r + 1 \in Nat /\ r + 1 \in 1..Len(s) /\ Len(s) \in Nat
  BY DEF Placing
<1> HIDE DEF k
<1>2. /\ w \in Seq(Interval) /\ Len(w) = k + 1
      /\ \A i \in 1..k : w[i] = acc.cut[i]
      /\ w[k + 1].from = acc.from /\ w[k + 1].to = r
  BY <1>1, WindowsAtAre DEF k
<1>3. acc.from \in 1..r
  BY <1>1, <1>2 DEF GroupsUpTo
<1>4. \A i \in 1..(k + 1) : w[i].from \in Nat /\ w[i].to \in Nat
  <2>1. \A i \in 1..(k + 1) : w[i] \in Interval
    BY <1>1, <1>2, ElementOfSeq
  <2> QED BY <2>1 DEF Interval
<1>5. next \in Placing(Len(s))
  BY <1>1, GroupTyped
<1>6. next.cut \in Seq(Interval) /\ next.from \in Nat
  BY <1>5 DEF Placing
<1>7. /\ v \in Seq(Interval) /\ Len(v) = Len(next.cut) + 1
      /\ \A i \in 1..Len(next.cut) : v[i] = next.cut[i]
      /\ v[Len(next.cut) + 1].from = next.from /\ v[Len(next.cut) + 1].to = r + 1
  <2> HIDE DEF next
  <2> QED BY <1>1, <1>6, WindowsAtAre
<1> HIDE DEF w, next, v
<1>8. MergeOf(s, acc.from, r + 1) \in Nat /\ MergeInput \in Nat
  <2>1. acc.from \in 1..Len(s) /\ r + 1 \in 0..Len(s)
    BY <1>1, <1>3
  <2> QED BY <2>1, MergeOfTyped, CallsAssumption
<1>9. CASE acc.from + 1 < r + 1 /\ MergeOf(s, acc.from, r + 1) > MergeInput
  <2>1. next.from = r + 1 /\ next.cut = Append(acc.cut, [from |-> acc.from, to |-> r])
    <3>1. (r + 1) - 1 = r
      BY <1>1
    <3>2. next = [from |-> r + 1, cut |-> Append(acc.cut, [from |-> acc.from, to |-> (r + 1) - 1])]
      BY <1>9 DEF Group, next, MergeOf
    <3> QED BY <3>1, <3>2
  <2>2. next.cut = w
    BY <2>1 DEF WindowsAt, w
  <2>3. /\ Len(v) = k + 2
        /\ \A i \in 1..(k + 1) : v[i] = w[i]
        /\ v[k + 2].from = r + 1 /\ v[k + 2].to = r + 1
    <3>1. Len(next.cut) = k + 1 /\ (k + 1) + 1 = k + 2
      BY <1>1, <1>2, <2>2
    <3>2. \A i \in 1..(k + 1) : v[i] = w[i]
      BY <1>7, <2>2, <3>1
    <3> QED BY <1>7, <2>1, <3>1, <3>2
  <2>4. v # <<>> /\ v[1].from = 1 /\ v[Len(v)].to = r + 1
    BY <1>1, <1>2, <1>7, <2>3 DEF GroupsUpTo, w
  <2>5. ASSUME NEW i \in 1..Len(v)
        PROVE  /\ v[i].from \in 1..v[i].to /\ v[i].to <= r + 1
               /\ MergeOf(s, v[i].from, v[i].to) <= MergeInput \/ v[i].to <= v[i].from + 1
    <3>1. CASE i = k + 2
      BY <1>1, <2>3, <3>1
    <3>2. CASE i \in 1..(k + 1)
      <4>1. i \in 1..(k + 1) /\ v[i] = w[i] /\ i \in 1..Len(w)
        BY <1>2, <2>3, <3>2
      <4>2. /\ w[i].from \in 1..w[i].to /\ w[i].to <= r
            /\ MergeOf(s, w[i].from, w[i].to) <= MergeInput \/ w[i].to <= w[i].from + 1
        BY <4>1 DEF GroupsUpTo, w
      <4> DEFINE b == w[i].to
      <4>3. b \in Nat /\ b <= r
        BY <1>4, <4>1, <4>2
      <4> HIDE DEF b
      <4>4. b <= r + 1
        BY <1>1, <4>3
      <4> QED BY <4>1, <4>2, <4>4 DEF b
    <3> QED BY <1>1, <2>3, <3>1, <3>2
  <2>6. ASSUME NEW i \in 2..Len(v)
        PROVE  /\ v[i].from = v[i - 1].to + 1 /\ v[i - 1].from < v[i - 1].to
               /\ MergeOf(s, v[i - 1].from, v[i].from) > MergeInput
    <3>1. CASE i = k + 2
      <4>1. v[i - 1].from = acc.from /\ v[i - 1].to = r
        <5>1. i - 1 = k + 1 /\ k + 1 \in 1..(k + 1)
          BY <1>1, <3>1
        <5>2. v[k + 1] = w[k + 1]
          BY <2>3, <5>1
        <5> QED BY <1>2, <5>1, <5>2
      <4>2. acc.from < r
        BY <1>1, <1>9
      <4> QED BY <1>9, <2>3, <3>1, <4>1, <4>2
    <3>2. CASE i \in 2..(k + 1)
      <4>1. i \in 1..(k + 1) /\ i - 1 \in 1..(k + 1) /\ i \in 2..Len(w)
        <5>1. k \in Nat /\ Len(w) = k + 1
          BY <1>1, <1>2
        <5>2. i \in 1..(k + 1) /\ i - 1 \in 1..(k + 1)
          BY <3>2, <5>1
        <5> QED BY <3>2, <5>1, <5>2
      <4>2. v[i] = w[i] /\ v[i - 1] = w[i - 1]
        BY <2>3, <4>1
      <4> QED BY <4>1, <4>2 DEF GroupsUpTo, w
    <3> QED BY <1>1, <2>3, <3>1, <3>2
  <2> QED BY <1>7, <2>4, <2>5, <2>6 DEF GroupsUpTo, v, next
<1>10. CASE ~(acc.from + 1 < r + 1 /\ MergeOf(s, acc.from, r + 1) > MergeInput)
  <2>1. next = acc
    BY <1>1, <1>10 DEF Group, next, MergeOf
  <2>2. MergeOf(s, acc.from, r + 1) <= MergeInput \/ r + 1 <= acc.from + 1
    BY <1>1, <1>8, <1>10
  <2>3. /\ Len(v) = k + 1
        /\ \A i \in 1..k : v[i] = w[i]
        /\ v[k + 1].from = acc.from /\ v[k + 1].to = r + 1
    <3>1. Len(next.cut) = k /\ next.cut = acc.cut /\ next.from = acc.from
      BY <2>1 DEF k
    <3> QED BY <1>2, <1>7, <3>1
  <2>4. v # <<>> /\ v[1].from = 1 /\ v[Len(v)].to = r + 1
    <3>1. v[1].from = w[1].from
      <4>1. k = 0 \/ 1 \in 1..k
        BY <1>1
      <4>2. k = 0 => k + 1 = 1
        OBVIOUS
      <4> QED BY <1>2, <2>3, <4>1, <4>2
    <3> QED BY <1>1, <1>7, <2>3, <3>1 DEF GroupsUpTo, w
  <2>5. ASSUME NEW i \in 1..Len(v)
        PROVE  /\ v[i].from \in 1..v[i].to /\ v[i].to <= r + 1
               /\ MergeOf(s, v[i].from, v[i].to) <= MergeInput \/ v[i].to <= v[i].from + 1
    <3>1. CASE i = k + 1
      BY <1>1, <1>3, <2>2, <2>3, <3>1
    <3>2. CASE i \in 1..k
      <4>1. v[i] = w[i] /\ i \in 1..Len(w) /\ w[i].to \in Nat
        BY <1>1, <1>2, <1>4, <2>3, <3>2
      <4>2. w[i].from \in 1..w[i].to /\ w[i].to <= r
            /\ (MergeOf(s, w[i].from, w[i].to) <= MergeInput \/ w[i].to <= w[i].from + 1)
        BY <4>1 DEF GroupsUpTo, w
      <4> QED BY <1>1, <4>1, <4>2
    <3> QED BY <1>1, <2>3, <3>1, <3>2
  <2>6. ASSUME NEW i \in 2..Len(v)
        PROVE  /\ v[i].from = v[i - 1].to + 1 /\ v[i - 1].from < v[i - 1].to
               /\ MergeOf(s, v[i - 1].from, v[i].from) > MergeInput
    <3>1. i \in 2..(k + 1) /\ i - 1 \in 1..k /\ i \in 2..Len(w)
      BY <1>1, <1>2, <2>3
    <3>2. v[i - 1] = w[i - 1]
      BY <2>3, <3>1
    <3>3. v[i].from = w[i].from
      <4>1. CASE i = k + 1
        BY <1>2, <2>3, <4>1
      <4>2. CASE i \in 2..k
        BY <2>3, <4>2
      <4> QED BY <1>1, <3>1, <4>1, <4>2
    <3> QED BY <3>1, <3>2, <3>3 DEF GroupsUpTo, w
  <2> QED BY <1>7, <2>4, <2>5, <2>6 DEF GroupsUpTo, v, next
<1> QED BY <1>9, <1>10

LEMMA GroupedHolds ==
  ASSUME NEW s \in Seq(Nat), s # <<>>
  PROVE  GroupsUpTo(s, Grouped(s), Len(s))
<1> DEFINE n == Len(s)
<1>1. n \in Nat \ {0}
  OBVIOUS
<1>2. PICK at \in [0..n -> Placing(n)] :
        /\ at[0] = [from |-> 1, cut |-> <<>>]
        /\ \A i \in 1..n : at[i] = Group(s, at[i - 1], i)
        /\ Grouped(s) = WindowsAt(at[n], n)
  BY GroupedRuns
<1> DEFINE S == {i \in 1..n : GroupsUpTo(s, WindowsAt(at[i], i), i)}
<1>3. 1 \in S
  <2>1. at[1] = Group(s, at[0], 1)
    BY <1>1, <1>2
  <2>2. at[1] = [from |-> 1, cut |-> <<>>]
    BY <1>2, <2>1 DEF Group
  <2>3. WindowsAt(at[1], 1) = << [from |-> 1, to |-> 1] >>
    BY <2>2 DEF WindowsAt
  <2> DEFINE w == << [from |-> 1, to |-> 1] >>
  <2>4. w \in Seq(Interval) /\ w # <<>> /\ Len(w) = 1 /\ w[1].from = 1 /\ w[1].to = 1
    BY DEF Interval
  <2> HIDE DEF w
  <2>5. GroupsUpTo(s, w, 1)
    <3>1. \A i \in 1..Len(w) : i = 1
      BY <2>4
    <3>2. ~ \E i \in 2..Len(w) : TRUE
      BY <2>4
    <3>3. w[Len(w)].to = 1
      BY <2>4
    <3>4. \A i \in 1..Len(w) : w[i].from \in 1..w[i].to /\ w[i].to <= 1 /\ w[i].to <= w[i].from + 1
      BY <2>4, <3>1
    <3> QED BY <2>4, <3>2, <3>3, <3>4 DEF GroupsUpTo
  <2> QED BY <1>1, <2>3, <2>5 DEF w
<1>4. ASSUME NEW i \in 1..(n - 1), i \in S PROVE i + 1 \in S
  <2>1. at[i + 1] = Group(s, at[i], i + 1) /\ at[i] \in Placing(n) /\ i + 1 \in 1..n
    <3> HIDE DEF n, S
    <3>1. i + 1 \in 1..n /\ (i + 1) - 1 = i /\ i \in 0..n
      BY <1>1
    <3>2. at[i + 1] = Group(s, at[(i + 1) - 1], i + 1) /\ at[i] \in Placing(n)
      BY <1>2, <3>1
    <3> QED BY <3>1, <3>2
  <2>2. GroupsUpTo(s, WindowsAt(at[i], i), i)
    BY <1>4
  <2> QED BY <2>1, <2>2, GroupHolds
<1> HIDE DEF S, n
<1>5. 1..n \subseteq S
  <2>1. 1 \in Int /\ n \in Int
    BY <1>1
  <2>2. \A i \in 1..(n - 1) : i \in S => i + 1 \in S
    BY <1>4
  <2> QED BY <1>3, <2>1, <2>2, IntervalInductive
<1>6. n \in S
  BY <1>1, <1>5
<1> QED BY <1>2, <1>6 DEF S, n

-----------------------------------------------------------------------------
(* The summaries on their way through the rounds.                           *)

Summary == [from : Nat, to : Nat, size : Nat]
Item == [group : Seq(Summary), split : BOOLEAN]

\* Each summary begins where the one before ends.
Linked(s) == \A i \in 2..Len(s) : s[i].from = s[i - 1].to + 1

OpensAt(item) == item.group[1].from
ClosesAt(item) == item.group[Len(item.group)].to
Reached(ps) == IF ps = <<>> THEN 0 ELSE ps[Len(ps)].to

\* The answers and the waiting groups, one behind the other, speak of the
\* windows 1..n.
InLine(ps, q, n) ==
  /\ Linked(ps) /\ (ps # <<>> => ps[1].from = 1)
  /\ \A g \in 1..Len(q) : q[g].group # <<>> /\ Linked(q[g].group)
  /\ q # <<>> => OpensAt(q[1]) = Reached(ps) + 1
  /\ \A g \in 2..Len(q) : OpensAt(q[g]) = ClosesAt(q[g - 1]) + 1
  /\ (IF q = <<>> THEN Reached(ps) ELSE ClosesAt(q[Len(q)])) = n
  /\ ps # <<>> \/ q # <<>>

LEMMA ReachedTyped ==
  ASSUME NEW ps \in Seq(Summary)
  PROVE  Reached(ps) \in Nat
<1>1. CASE ps = <<>>
  BY <1>1 DEF Reached
<1>2. CASE ps # <<>>
  <2>1. ps[Len(ps)] \in Summary
    BY <1>2, ElementOfSeq
  <2> QED BY <1>2, <2>1 DEF Reached, Summary
<1> QED BY <1>1, <1>2

\* The head of the queue is answered, or passed on, by one summary.
LEMMA AnsweredInLine ==
  ASSUME NEW ps \in Seq(Summary), NEW q \in Seq(Item), NEW n \in Nat, InLine(ps, q, n), q # <<>>,
         NEW x \in Summary, x.from = OpensAt(q[1]), x.to = ClosesAt(q[1])
  PROVE  InLine(Append(ps, x), Tail(q), n)
<1> DEFINE m == Len(ps)  l == Len(q)  as == Append(ps, x)  t == Tail(q)
<1>1. m \in Nat /\ l \in Nat \ {0}
  OBVIOUS
<1>2. as \in Seq(Summary) /\ as # <<>> /\ Len(as) = m + 1 /\ as[m + 1] = x /\ \A i \in 1..m : as[i] = ps[i]
  BY AppendProperties
<1>3. t \in Seq(Item) /\ Len(t) = l - 1 /\ \A g \in 1..(l - 1) : t[g] = q[g + 1]
  BY HeadTailProperties
<1> HIDE DEF as, t, m, l
<1>4. as # <<>> /\ Reached(as) = x.to
  BY <1>1, <1>2 DEF Reached
<1>5. x.from = Reached(ps) + 1
  BY DEF InLine
<1>6. Linked(as)
  <2>1. ASSUME NEW i \in 2..Len(as) PROVE as[i].from = as[i - 1].to + 1
    <3> i \in 2..(m + 1)
      BY <1>2
    <3>0. i = m + 1 \/ i \in 2..m
      BY <1>1
    <3>1. CASE i = m + 1
      <4>1. i - 1 = m /\ m \in 1..m
        BY <1>1, <3>1
      <4>2. as[i - 1] = ps[m]
        BY <1>2, <4>1
      <4>3. ps # <<>>
        BY <4>1 DEF m
      <4>4. Reached(ps) = ps[m].to
        BY <4>3 DEF Reached, m
      <4>5. as[i] = x
        BY <1>2, <3>1
      <4> QED BY <1>5, <4>2, <4>4, <4>5
    <3>2. CASE i \in 2..m
      <4>1. i \in 1..m /\ i - 1 \in 1..m
        BY <1>1, <3>2
      <4>2. as[i] = ps[i] /\ as[i - 1] = ps[i - 1]
        BY <1>2, <4>1
      <4> QED BY <3>2, <4>2 DEF InLine, Linked, m
    <3> QED BY <3>0, <3>1, <3>2
  <2> QED BY <2>1 DEF Linked
<1>7. as[1].from = 1
  <2>1. CASE ps = <<>>
    <3>1. m = 0
      BY <2>1 DEF m
    <3>2. as[1] = x
      <4>1. m + 1 = 1
        BY <3>1
      <4> QED BY <1>2, <4>1
    <3>3. Reached(ps) = 0
      BY <2>1 DEF Reached
    <3> QED BY <1>5, <3>2, <3>3
  <2>2. CASE ps # <<>>
    <3>1. 1 \in 1..m
      BY <2>2 DEF m
    <3>2. as[1] = ps[1] /\ ps[1].from = 1
      BY <1>2, <2>2, <3>1 DEF InLine
    <3> QED BY <3>2
  <2> QED BY <2>1, <2>2
<1>8. \A g \in 1..Len(t) : t[g].group # <<>> /\ Linked(t[g].group)
  <2>1. ASSUME NEW g \in 1..Len(t) PROVE t[g].group # <<>> /\ Linked(t[g].group)
    <3>1. g + 1 \in 1..l /\ t[g] = q[g + 1]
      BY <1>1, <1>3
    <3> QED BY <3>1 DEF InLine, l
  <2> QED BY <2>1
<1>9. t # <<>> => OpensAt(t[1]) = Reached(as) + 1
  <2>1. SUFFICES ASSUME t # <<>> PROVE OpensAt(t[1]) = Reached(as) + 1
    OBVIOUS
  <2>2. 2 \in 2..l /\ t[1] = q[2]
    BY <1>1, <1>3, <2>1
  <2>3. OpensAt(q[2]) = ClosesAt(q[2 - 1]) + 1
    BY <2>2 DEF InLine, l
  <2> QED BY <1>4, <2>2, <2>3
<1>10. \A g \in 2..Len(t) : OpensAt(t[g]) = ClosesAt(t[g - 1]) + 1
  <2>1. ASSUME NEW g \in 2..Len(t) PROVE OpensAt(t[g]) = ClosesAt(t[g - 1]) + 1
    <3>1. g + 1 \in 2..l /\ (g + 1) - 1 = g /\ t[g] = q[g + 1] /\ t[g - 1] = q[g]
      BY <1>1, <1>3
    <3>2. OpensAt(q[g + 1]) = ClosesAt(q[(g + 1) - 1]) + 1
      BY <3>1 DEF InLine, l
    <3> QED BY <3>1, <3>2
  <2> QED BY <2>1
<1>11. (IF t = <<>> THEN Reached(as) ELSE ClosesAt(t[Len(t)])) = n
  <2>1. CASE l = 1
    <3>1. t = <<>>
      BY <1>3, <2>1
    <3> QED BY <1>4, <2>1, <3>1 DEF InLine, l
  <2>2. CASE l > 1
    <3>1. l - 1 \in 1..(l - 1) /\ (l - 1) + 1 = l
      BY <1>1, <2>2
    <3>2. t # <<>> /\ t[Len(t)] = q[l]
      BY <1>3, <3>1
    <3> QED BY <3>2 DEF InLine, l
  <2>3. l = 1 \/ l > 1
    BY <1>1
  <2> QED BY <2>1, <2>2, <2>3
<1> QED BY <1>4, <1>6, <1>7, <1>8, <1>9, <1>10, <1>11 DEF InLine, as, t

\* The head of the queue is cut in two.
LEMMA HalvedInLine ==
  ASSUME NEW ps \in Seq(Summary), NEW q \in Seq(Item), NEW n \in Nat, InLine(ps, q, n), q # <<>>,
         Len(q[1].group) > 2
  PROVE  /\ Halves(q[1].group) \o Tail(q) \in Seq(Item)
         /\ InLine(ps, Halves(q[1].group) \o Tail(q), n)
<1> DEFINE g == q[1].group  k == Len(g)  half == k \div 2  l == Len(q)
           a == [group |-> SubSeq(g, 1, half), split |-> FALSE]
           b == [group |-> SubSeq(g, half + 1, k), split |-> FALSE]
           h == <<a, b>>  t == Tail(q)  r == h \o t
<1>1. l \in Nat \ {0} /\ q[1] \in Item
  BY ElementOfSeq
<1>2. g \in Seq(Summary) /\ k \in Nat /\ k > 2
  BY <1>1 DEF Item
<1> HIDE DEF g, k, l
<1>3. half \in 1..(k - 1)
  <2>1. half \in Nat /\ 2 * half <= k /\ k <= 2 * half + 1
    BY <1>2
  <2> QED BY <1>2, <2>1
<1> HIDE DEF half
<1>4. /\ a.group \in Seq(Summary) /\ Len(a.group) = half
      /\ \A i \in 1..half : a.group[i] = g[i]
  BY <1>2, <1>3, PartTyped DEF k
<1>5. /\ b.group \in Seq(Summary) /\ Len(b.group) = k - half
      /\ \A i \in 1..(k - half) : b.group[i] = g[half + i]
  <2>1. half + 1 \in 1..Len(g) /\ k \in 0..Len(g) /\ half + 1 <= k
    BY <1>2, <1>3 DEF k
  <2>2. /\ SubSeq(g, half + 1, k) \in Seq(Summary)
        /\ Len(SubSeq(g, half + 1, k)) = k - (half + 1) + 1
        /\ \A i \in 1..(k - (half + 1) + 1) : SubSeq(g, half + 1, k)[i] = g[(half + 1) + i - 1]
    BY <1>2, <2>1, PartTyped
  <2>3. k - (half + 1) + 1 = k - half
    BY <1>2, <1>3
  <2>4. \A i \in 1..(k - half) : (half + 1) + i - 1 = half + i
    BY <1>3
  <2>5. b.group = SubSeq(g, half + 1, k)
    OBVIOUS
  <2> HIDE DEF b
  <2> QED BY <2>2, <2>3, <2>4, <2>5
<1>6. a \in Item /\ b \in Item
  BY <1>4, <1>5 DEF Item
<1>7. t \in Seq(Item) /\ Len(t) = l - 1 /\ \A i \in 1..(l - 1) : t[i] = q[i + 1]
  BY HeadTailProperties DEF l
<1> HIDE DEF a, b, t
<1>8. h \in Seq(Item) /\ Len(h) = 2 /\ h[1] = a /\ h[2] = b
  BY <1>6
<1> HIDE DEF h
<1>9. r \in Seq(Item) /\ Len(r) = l + 1 /\ r[1] = a /\ r[2] = b /\ \A i \in 2..l : r[i + 1] = q[i]
  <2>0. /\ r \in Seq(Item) /\ Len(r) = Len(h) + Len(t)
        /\ \A i \in 1..(Len(h) + Len(t)) : r[i] = IF i <= Len(h) THEN h[i] ELSE t[i - Len(h)]
    BY <1>7, <1>8, ConcatProperties
  <2>1. /\ r \in Seq(Item) /\ Len(r) = 2 + (l - 1)
        /\ \A i \in 1..(2 + (l - 1)) : r[i] = IF i <= 2 THEN h[i] ELSE t[i - 2]
    BY <1>7, <1>8, <2>0
  <2>2. ASSUME NEW i \in 2..l PROVE r[i + 1] = q[i]
    <3>1. i + 1 \in 1..(2 + (l - 1)) /\ ~(i + 1 <= 2) /\ (i + 1) - 2 = i - 1 /\ i - 1 \in 1..(l - 1) /\ (i - 1) + 1 = i
      BY <1>1
    <3> QED BY <1>7, <2>1, <3>1
  <2>3. 2 + (l - 1) = l + 1 /\ 1 \in 1..(2 + (l - 1)) /\ 2 \in 1..(2 + (l - 1))
    BY <1>1
  <2>4. r[1] = h[1] /\ r[2] = h[2]
    <3>1. 1 <= 2 /\ 2 <= 2
      OBVIOUS
    <3> HIDE DEF r, h, t, l
    <3> QED BY <2>1, <2>3, <3>1
  <2> QED BY <1>8, <2>1, <2>2, <2>3, <2>4
<1> HIDE DEF r
<1>10. Linked(g) /\ OpensAt(q[1]) = g[1].from /\ ClosesAt(q[1]) = g[k].to
  BY <1>1 DEF InLine, OpensAt, ClosesAt, g, k
<1>11. Linked(a.group) /\ a.group # <<>> /\ OpensAt(a) = g[1].from /\ ClosesAt(a) = g[half].to
  <2>1. ASSUME NEW i \in 2..half PROVE a.group[i].from = a.group[i - 1].to + 1
    <3>0. i \in 2..k /\ i \in 1..half /\ i - 1 \in 1..half
      BY <1>2, <1>3
    <3>1. i \in 2..k /\ a.group[i] = g[i] /\ a.group[i - 1] = g[i - 1]
      BY <1>4, <3>0
    <3> QED BY <1>10, <3>1 DEF Linked, k
  <2> QED BY <1>3, <1>4, <2>1 DEF Linked, OpensAt, ClosesAt
<1>12. Linked(b.group) /\ b.group # <<>> /\ OpensAt(b) = g[half + 1].from /\ ClosesAt(b) = g[k].to
  <2>1. ASSUME NEW i \in 2..(k - half) PROVE b.group[i].from = b.group[i - 1].to + 1
    <3>0. /\ half + i \in 2..k /\ (half + i) - 1 = half + (i - 1)
          /\ i \in 1..(k - half) /\ i - 1 \in 1..(k - half)
      BY <1>2, <1>3
    <3>1. half + i \in 2..k /\ (half + i) - 1 = half + (i - 1)
          /\ b.group[i] = g[half + i] /\ b.group[i - 1] = g[half + (i - 1)]
      BY <1>5, <3>0
    <3> QED BY <1>10, <3>1 DEF Linked, k
  <2>2. b.group[1] = g[half + 1] /\ b.group[k - half] = g[k]
    <3>1. k - half \in 1..(k - half) /\ 1 \in 1..(k - half) /\ half + (k - half) = k
      BY <1>2, <1>3
    <3> QED BY <1>5, <3>1
  <2> QED BY <1>2, <1>3, <1>5, <2>1, <2>2 DEF Linked, OpensAt, ClosesAt
<1>13. g[half + 1].from = g[half].to + 1
  <2>1. half + 1 \in 2..k /\ (half + 1) - 1 = half
    BY <1>2, <1>3
  <2> QED BY <1>10, <2>1 DEF Linked, k
<1>14. \A i \in 1..Len(r) : r[i].group # <<>> /\ Linked(r[i].group)
  <2>1. ASSUME NEW i \in 1..Len(r), i > 2 PROVE r[i].group # <<>> /\ Linked(r[i].group)
    <3>1. i - 1 \in 2..l /\ (i - 1) + 1 = i /\ i - 1 \in 1..Len(q)
      BY <1>1, <1>9, <2>1 DEF l
    <3>2. r[i] = q[i - 1]
      BY <1>9, <3>1
    <3> QED BY <3>1, <3>2 DEF InLine
  <2> QED BY <1>9, <1>11, <1>12, <2>1
<1>15. r # <<>> /\ OpensAt(r[1]) = Reached(ps) + 1
  BY <1>1, <1>9, <1>10, <1>11 DEF InLine, l
<1>16. \A i \in 2..Len(r) : OpensAt(r[i]) = ClosesAt(r[i - 1]) + 1
  <2>1. ASSUME NEW i \in 2..Len(r) PROVE OpensAt(r[i]) = ClosesAt(r[i - 1]) + 1
    <3>1. CASE i = 2
      <4>1. i - 1 = 1
        BY <3>1
      <4> QED BY <1>9, <1>11, <1>12, <1>13, <3>1, <4>1
    <3>2. CASE i = 3
      <4>1. i - 1 = 2 /\ 2 \in 2..l /\ r[3] = q[2]
        BY <1>1, <1>9, <3>2
      <4>2. OpensAt(q[2]) = ClosesAt(q[2 - 1]) + 1
        BY <4>1 DEF InLine, l
      <4> QED BY <1>9, <1>10, <1>12, <3>2, <4>1, <4>2
    <3>3. CASE i > 3
      <4>1. i - 1 \in 2..l /\ (i - 1) + 1 = i /\ i - 2 \in 2..l /\ (i - 2) + 1 = i - 1 /\ (i - 1) - 1 = i - 2
        BY <1>1, <1>9, <3>3
      <4>2. r[i] = q[i - 1] /\ r[i - 1] = q[i - 2]
        BY <1>9, <4>1
      <4>3. OpensAt(q[i - 1]) = ClosesAt(q[(i - 1) - 1]) + 1
        BY <4>1 DEF InLine, l
      <4> QED BY <4>1, <4>2, <4>3
    <3> QED BY <1>9, <3>1, <3>2, <3>3
  <2> QED BY <2>1
<1>17. ClosesAt(r[Len(r)]) = n
  <2>1. CASE l = 1
    BY <1>9, <1>10, <1>12, <2>1 DEF InLine, l
  <2>2. CASE l > 1
    <3>1. l \in 2..l /\ r[l + 1] = q[l]
      BY <1>1, <1>9, <2>2
    <3> QED BY <1>1, <1>9, <3>1 DEF InLine, l
  <2> QED BY <1>1, <2>1, <2>2
<1>18. r \in Seq(Item) /\ InLine(ps, r, n)
  BY <1>9, <1>14, <1>15, <1>16, <1>17 DEF InLine
<1>19. Halves(q[1].group) \o Tail(q) = r
  BY DEF Halves, r, h, a, b, t, g, k, half
<1> QED BY <1>18, <1>19

\* A part of a line.
LEMMA PartLinked ==
  ASSUME NEW ps \in Seq(Summary), Linked(ps), NEW i \in 1..Len(ps), NEW j \in i..Len(ps)
  PROVE  /\ SubSeq(ps, i, j) \in Seq(Summary) /\ SubSeq(ps, i, j) # <<>> /\ Linked(SubSeq(ps, i, j))
         /\ SubSeq(ps, i, j)[1].from = ps[i].from
         /\ SubSeq(ps, i, j)[Len(SubSeq(ps, i, j))].to = ps[j].to
<1> DEFINE m == Len(ps)  p == SubSeq(ps, i, j)
<1>1. m \in Nat /\ i \in 1..m /\ j \in i..m
  OBVIOUS
<1>2. p \in Seq(Summary) /\ Len(p) = j - i + 1 /\ \A k \in 1..(j - i + 1) : p[k] = ps[i + k - 1]
  BY PartTyped
<1> HIDE DEF m, p
<1>3. 1 \in 1..(j - i + 1) /\ j - i + 1 \in 1..(j - i + 1) /\ i + 1 - 1 = i /\ i + (j - i + 1) - 1 = j
  BY <1>1
<1>4. p # <<>>
  BY <1>2, <1>3
<1>5. p[1] = ps[i] /\ p[Len(p)] = ps[j]
  BY <1>2, <1>3
<1>6. ASSUME NEW k \in 2..Len(p) PROVE p[k].from = p[k - 1].to + 1
  <2>1. /\ k \in 1..(j - i + 1) /\ k - 1 \in 1..(j - i + 1)
        /\ i + k - 1 \in 2..m /\ i + (k - 1) - 1 = (i + k - 1) - 1
    BY <1>1, <1>2
  <2>2. p[k] = ps[i + k - 1] /\ p[k - 1] = ps[(i + k - 1) - 1]
    BY <1>2, <2>1
  <2> QED BY <2>1, <2>2 DEF Linked, m
<1> QED BY <1>2, <1>4, <1>5, <1>6 DEF Linked, p

\* The groups of a round.
Regrouped(ps) ==
  LET groups == Grouped([i \in DOMAIN ps |-> ps[i].size])
  IN [g \in DOMAIN groups |-> [group |-> SubSeq(ps, groups[g].from, groups[g].to), split |-> TRUE]]

\* A round leaves no summary out and changes no order.
LEMMA RoundInLine ==
  ASSUME NEW ps \in Seq(Summary), NEW n \in Nat, InLine(ps, <<>>, n)
  PROVE  Regrouped(ps) \in Seq(Item) /\ InLine(<<>>, Regrouped(ps), n)
<1> DEFINE m == Len(ps)
           sizes == [i \in DOMAIN ps |-> ps[i].size]
           groups == Grouped(sizes)
           l == Len(groups)
           q == Regrouped(ps)
<1>1. ps # <<>> /\ m \in Nat \ {0} /\ DOMAIN ps = 1..m
  <2>1. ps # <<>>
    BY DEF InLine
  <2> QED BY <2>1
<1>2. sizes \in Seq(Nat) /\ Len(sizes) = m /\ sizes # <<>>
  <2>1. ASSUME NEW i \in 1..m PROVE ps[i].size \in Nat
    <3>1. ps[i] \in Summary
      BY ElementOfSeq
    <3> QED BY <3>1 DEF Summary
  <2>2. sizes \in [1..m -> Nat]
    BY <1>1, <2>1
  <2>3. Len(sizes) = m
    BY <1>1, <2>2
  <2> HIDE DEF sizes
  <2> QED BY <1>1, <2>2, <2>3
<1>3. GroupsUpTo(sizes, groups, m)
  <2> HIDE DEF sizes
  <2> QED BY <1>2, GroupedHolds
<1>4. /\ groups \in Seq(Interval) /\ l \in Nat \ {0} /\ DOMAIN groups = 1..l
      /\ groups[1].from = 1 /\ groups[l].to = m
  <2> HIDE DEF sizes, groups
  <2>1. groups \in Seq(Interval) /\ groups # <<>> /\ groups[1].from = 1 /\ groups[Len(groups)].to = m
    BY <1>3 DEF GroupsUpTo
  <2> QED BY <2>1
<1>5. \A g \in 1..l : groups[g].from \in 1..groups[g].to /\ groups[g].to <= m
  BY <1>3 DEF GroupsUpTo
<1>6. \A g \in 2..l : groups[g].from = groups[g - 1].to + 1
  BY <1>3 DEF GroupsUpTo
<1>7. q = [g \in 1..l |-> [group |-> SubSeq(ps, groups[g].from, groups[g].to), split |-> TRUE]]
  BY <1>4 DEF Regrouped
<1> HIDE DEF m, sizes, groups, l, q
<1>8. Linked(ps) /\ ps[1].from = 1 /\ ps[m].to = n
  BY <1>1 DEF InLine, Reached, m
<1>9. ASSUME NEW g \in 1..l
      PROVE  /\ q[g].group \in Seq(Summary) /\ q[g].group # <<>> /\ Linked(q[g].group) /\ q[g] \in Item
             /\ OpensAt(q[g]) = ps[groups[g].from].from /\ ClosesAt(q[g]) = ps[groups[g].to].to
  <2> DEFINE i == groups[g].from  j == groups[g].to
  <2>1. i \in Nat /\ j \in Nat
    <3>1. groups[g] \in Interval
      BY <1>4, ElementOfSeq DEF l
    <3> QED BY <3>1 DEF Interval
  <2>2. i \in 1..m /\ j \in i..m
    BY <1>1, <1>5, <2>1
  <2>3. q[g] = [group |-> SubSeq(ps, i, j), split |-> TRUE]
    BY <1>7
  <2> HIDE DEF i, j
  <2>4. /\ SubSeq(ps, i, j) \in Seq(Summary) /\ SubSeq(ps, i, j) # <<>> /\ Linked(SubSeq(ps, i, j))
        /\ SubSeq(ps, i, j)[1].from = ps[i].from
        /\ SubSeq(ps, i, j)[Len(SubSeq(ps, i, j))].to = ps[j].to
    BY <1>8, <2>2, PartLinked DEF m
  <2>5. q[g].group = SubSeq(ps, i, j)
    <3> DEFINE p == SubSeq(ps, i, j)
    <3>1. q[g] = [group |-> p, split |-> TRUE]
      BY <2>3
    <3> HIDE DEF p
    <3>2. q[g].group = p
      BY <3>1
    <3> QED BY <3>2 DEF p
  <2>6. q[g] \in Item
    BY <2>3, <2>4 DEF Item
  <2> QED BY <2>4, <2>5, <2>6 DEF OpensAt, ClosesAt, i, j
<1>10. q \in Seq(Item) /\ Len(q) = l /\ q # <<>>
  <2>1. q \in [1..l -> Item]
    BY <1>7, <1>9
  <2>2. q \in Seq(Item) /\ Len(q) = l
    BY <1>4, <2>1
  <2> QED BY <1>4, <2>2
<1>11. 1 \in 1..l /\ l \in 1..l
  BY <1>4
<1>12. OpensAt(q[1]) = 1 /\ ClosesAt(q[l]) = n
  BY <1>4, <1>8, <1>9, <1>11
<1>13. ASSUME NEW g \in 2..l PROVE OpensAt(q[g]) = ClosesAt(q[g - 1]) + 1
  <2>1. g \in 1..l /\ g - 1 \in 1..l
    BY <1>4
  <2>2. OpensAt(q[g]) = ps[groups[g].from].from /\ ClosesAt(q[g - 1]) = ps[groups[g - 1].to].to
    BY <1>9, <2>1
  <2>3. groups[g].from = groups[g - 1].to + 1
    BY <1>6
  <2> DEFINE j == groups[g - 1].to
  <2>4. j + 1 \in 2..m /\ (j + 1) - 1 = j
    <3>1. groups[g] \in Interval /\ groups[g - 1] \in Interval
      BY <1>4, <2>1, ElementOfSeq DEF l
    <3>2. groups[g].to \in Nat /\ j \in Nat
      BY <3>1 DEF Interval
    <3>3. j + 1 \in 1..groups[g].to /\ groups[g].to <= m /\ 1 <= j
      <4>1. groups[g - 1].from \in 1..j
        BY <1>5, <2>1
      <4>2. groups[g].from \in 1..groups[g].to /\ groups[g].to <= m
        BY <1>5, <2>1
      <4> QED BY <2>3, <3>2, <4>1, <4>2
    <3> HIDE DEF j
    <3> QED BY <1>1, <3>2, <3>3
  <2> HIDE DEF j
  <2>5. ps[j + 1].from = ps[(j + 1) - 1].to + 1
    BY <1>8, <2>4 DEF Linked, m
  <2> QED BY <2>2, <2>3, <2>4, <2>5 DEF j
<1>14. Linked(<<>>) /\ Reached(<<>>) = 0
  BY DEF Linked, Reached
<1> QED BY <1>9, <1>10, <1>12, <1>13, <1>14 DEF InLine, q

\* Two lines, one behind the other.
LEMMA Continued ==
  ASSUME NEW a \in Seq(Summary), NEW b \in Seq(Summary), Linked(a), Linked(b), b # <<>>,
         a # <<>> => b[1].from = a[Len(a)].to + 1
  PROVE  /\ a \o b \in Seq(Summary) /\ a \o b # <<>> /\ Linked(a \o b)
         /\ (a \o b)[1] = IF a = <<>> THEN b[1] ELSE a[1]
         /\ (a \o b)[Len(a \o b)] = b[Len(b)]
<1> DEFINE m == Len(a)  l == Len(b)  c == a \o b
<1>1. m \in Nat /\ l \in Nat \ {0}
  OBVIOUS
<1>2. c \in Seq(Summary) /\ Len(c) = m + l /\ \A i \in 1..(m + l) : c[i] = IF i <= m THEN a[i] ELSE b[i - m]
  BY ConcatProperties
<1>3. (a = <<>>) <=> (m = 0)
  OBVIOUS
<1> HIDE DEF c
<1>4. a # <<>> => b[1].from = a[m].to + 1
  OBVIOUS
<1>5. \A i \in 2..m : a[i].from = a[i - 1].to + 1
  BY DEF Linked
<1>6. \A i \in 2..l : b[i].from = b[i - 1].to + 1
  BY DEF Linked
<1>7. Len(b) = l
  OBVIOUS
<1> HIDE DEF m, l
<1>8. c # <<>>
  BY <1>1, <1>2
<1>9. c[1] = IF a = <<>> THEN b[1] ELSE a[1]
  <2>1. 1 \in 1..(m + l) /\ (m = 0 => ~(1 <= m) /\ 1 - m = 1) /\ (m # 0 => 1 <= m)
    BY <1>1
  <2> QED BY <1>2, <1>3, <2>1
<1>10. c[m + l] = b[l]
  <2>1. m + l \in 1..(m + l) /\ ~(m + l <= m) /\ (m + l) - m = l
    BY <1>1
  <2> QED BY <1>2, <2>1
<1>11. ASSUME NEW i \in 2..(m + l) PROVE c[i].from = c[i - 1].to + 1
  <2>1. i \in 2..m \/ (i = m + 1 /\ m # 0) \/ i - m \in 2..l
    BY <1>1
  <2>2. CASE i \in 2..m
    <3>1. i \in 1..(m + l) /\ i - 1 \in 1..(m + l) /\ i <= m /\ i - 1 <= m
      BY <1>1, <2>2
    <3> QED BY <1>2, <1>5, <2>2, <3>1
  <2>3. CASE i = m + 1 /\ m # 0
    <3>1. /\ i \in 1..(m + l) /\ i - 1 \in 1..(m + l) /\ ~(i <= m) /\ i - 1 <= m
          /\ i - m = 1 /\ i - 1 = m
      BY <1>1, <2>3
    <3>2. c[i] = b[1] /\ c[i - 1] = a[m]
      BY <1>2, <3>1
    <3> QED BY <1>3, <1>4, <2>3, <3>2
  <2>4. CASE i - m \in 2..l
    <3>1. /\ i \in 1..(m + l) /\ i - 1 \in 1..(m + l) /\ ~(i <= m) /\ ~(i - 1 <= m)
          /\ (i - 1) - m = (i - m) - 1
      BY <1>1, <2>4
    <3>2. c[i] = b[i - m] /\ c[i - 1] = b[(i - m) - 1]
      BY <1>2, <3>1
    <3> QED BY <1>6, <2>4, <3>2
  <2> QED BY <2>1, <2>2, <2>3, <2>4
<1> QED BY <1>2, <1>8, <1>9, <1>10, <1>11 DEF Linked, c, l, m

\* The waiting groups in one line.
LEMMA QueueInLine ==
  ASSUME NEW ps \in Seq(Summary), NEW q \in Seq(Item), NEW n \in Nat, InLine(ps, q, n), q # <<>>
  PROVE  LET line == FlattenSeq([g \in DOMAIN q |-> q[g].group])
         IN /\ line \in Seq(Summary) /\ line # <<>> /\ Linked(line)
            /\ line[1].from = Reached(ps) + 1 /\ line[Len(line)].to = n
<1> DEFINE l == Len(q)  ss == [g \in DOMAIN q |-> q[g].group]
<1>1. l \in Nat \ {0} /\ DOMAIN q = 1..l
  OBVIOUS
<1>2. \A g \in 1..l : q[g].group \in Seq(Summary)
  <2>1. ASSUME NEW g \in 1..l PROVE q[g].group \in Seq(Summary)
    <3>1. q[g] \in Item
      BY ElementOfSeq
    <3> QED BY <3>1 DEF Item
  <2> QED BY <2>1
<1>3. ss \in Seq(Seq(Summary)) /\ ss # <<>> /\ Len(ss) = l /\ \A g \in 1..l : ss[g] = q[g].group
  <2>1. ss \in [1..l -> Seq(Summary)]
    BY <1>1, <1>2
  <2>2. \A g \in 1..l : ss[g] = q[g].group
    BY <1>1
  <2> HIDE DEF ss, l
  <2>3. ss \in Seq(Seq(Summary)) /\ Len(ss) = l
    BY <1>1, <2>1
  <2> QED BY <1>1, <2>2, <2>3
<1>4. \A g \in 1..l : q[g].group # <<>> /\ Linked(q[g].group)
  BY DEF InLine
<1>5. \A g \in 2..l : OpensAt(q[g]) = ClosesAt(q[g - 1]) + 1
  BY DEF InLine
<1>6. OpensAt(q[1]) = Reached(ps) + 1 /\ ClosesAt(q[l]) = n
  BY DEF InLine
<1> HIDE DEF l, ss
<1>7. PICK f \in [1..l -> Seq(Summary)] :
        f[1] = ss[1] /\ (\A i \in 2..l : f[i] = f[i - 1] \o ss[i]) /\ FlattenSeq(ss) = f[l]
  BY <1>3, FlattenRuns
<1> DEFINE Runs(i) == /\ f[i] # <<>> /\ Linked(f[i])
                      /\ f[i][1].from = Reached(ps) + 1 /\ f[i][Len(f[i])].to = ClosesAt(q[i])
           T == {i \in 1..l : Runs(i)}
<1>8. 1 \in T
  <2>1. 1 \in 1..l /\ f[1] = q[1].group
    BY <1>1, <1>3, <1>7
  <2> QED BY <1>4, <1>6, <2>1 DEF OpensAt, ClosesAt
<1>9. ASSUME NEW i \in 1..(l - 1), i \in T PROVE i + 1 \in T
  <2> DEFINE b == q[i + 1].group
  <2>1. i \in 1..l /\ i + 1 \in 1..l /\ i + 1 \in 2..l /\ (i + 1) - 1 = i
    BY <1>1
  <2>2. b \in Seq(Summary) /\ b # <<>> /\ Linked(b) /\ ss[i + 1] = b
    BY <1>2, <1>3, <1>4, <2>1
  <2>3. f[i + 1] = f[i] \o b
    BY <1>7, <2>1, <2>2
  <2>4. b[1].from = OpensAt(q[i + 1]) /\ b[Len(b)].to = ClosesAt(q[i + 1])
    BY DEF OpensAt, ClosesAt
  <2>5. b[1].from = ClosesAt(q[i]) + 1
    BY <1>5, <2>1, <2>4
  <2> HIDE DEF b
  <2>6. f[i] \in Seq(Summary) /\ Runs(i)
    BY <1>9, <2>1
  <2>7. /\ f[i] \o b # <<>> /\ Linked(f[i] \o b)
        /\ (f[i] \o b)[1] = f[i][1] /\ (f[i] \o b)[Len(f[i] \o b)] = b[Len(b)]
    BY <2>2, <2>5, <2>6, Continued
  <2>8. Runs(i + 1)
    BY <2>3, <2>4, <2>6, <2>7
  <2> QED BY <2>1, <2>8
<1> HIDE DEF T
<1>10. 1..l \subseteq T
  <2>1. 1 \in Int /\ l \in Int
    BY <1>1
  <2>2. \A i \in 1..(l - 1) : i \in T => i + 1 \in T
    BY <1>9
  <2> QED BY <1>8, <2>1, <2>2, IntervalInductive
<1>11. l \in 1..l /\ l \in T
  BY <1>1, <1>10
<1>12. Runs(l) /\ f[l] \in Seq(Summary)
  BY <1>11 DEF T
<1> QED BY <1>6, <1>7, <1>12 DEF ss

\* Answers and groups in line speak of every window once and in order.
LEMMA LineCovers ==
  ASSUME NEW ps \in Seq(Summary), NEW q \in Seq(Item), NEW n \in Nat, InLine(ps, q, n)
  PROVE  LET line == ps \o FlattenSeq([g \in DOMAIN q |-> q[g].group])
         IN /\ line \in Seq(Summary) /\ line # <<>> /\ Linked(line)
            /\ line[1].from = 1 /\ line[Len(line)].to = n
<1> DEFINE rest == FlattenSeq([g \in DOMAIN q |-> q[g].group])
<1>1. Linked(ps) /\ (ps # <<>> => ps[1].from = 1)
  BY DEF InLine
<1>2. CASE q = <<>>
  <2>1. rest = <<>>
    BY <1>2 DEF FlattenSeq
  <2>2. ps \o rest = ps
    BY <2>1, ConcatEmptySeq
  <2>3. ps # <<>> /\ ps[Len(ps)].to = n
    BY <1>2 DEF InLine, Reached
  <2> HIDE DEF rest
  <2> QED BY <1>1, <2>2, <2>3 DEF rest
<1>3. CASE q # <<>>
  <2>1. /\ rest \in Seq(Summary) /\ rest # <<>> /\ Linked(rest)
        /\ rest[1].from = Reached(ps) + 1 /\ rest[Len(rest)].to = n
    BY <1>3, QueueInLine
  <2> HIDE DEF rest
  <2>2. ps # <<>> => rest[1].from = ps[Len(ps)].to + 1
    BY <2>1 DEF Reached
  <2>3. ps = <<>> => rest[1].from = 1
    BY <2>1 DEF Reached
  <2>4. /\ ps \o rest \in Seq(Summary) /\ ps \o rest # <<>> /\ Linked(ps \o rest)
        /\ (ps \o rest)[1] = IF ps = <<>> THEN rest[1] ELSE ps[1]
        /\ (ps \o rest)[Len(ps \o rest)] = rest[Len(rest)]
    BY <1>1, <2>1, <2>2, Continued
  <2> QED BY <1>1, <2>1, <2>3, <2>4 DEF rest
<1> QED BY <1>2, <1>3

-----------------------------------------------------------------------------
(* The session's calls.                                                     *)

\* A call is under way for a window that has no summary yet, or for a group
\* of two at least.
CallInv ==
  attempt > 0 => \/ stage = "window" /\ Len(parts) < Len(windows)
                 \/ stage = "merge" /\ queue # <<>> /\ Len(queue[1].group) > 1

CoverInv ==
  /\ parts \in Seq(Summary) /\ queue \in Seq(Item) /\ attempt \in Nat
  /\ stage \in {"render", "window", "merge", "over"}
  /\ stage # "over" => verdict = "none"
  /\ stage = "render" => parts = <<>> /\ queue = <<>>
  /\ stage = "window" =>
       /\ queue = <<>> /\ windows # <<>> /\ Len(parts) <= Len(windows)
       /\ \A i \in 1..Len(parts) : parts[i].from = i /\ parts[i].to = i
  /\ stage = "merge" => InLine(parts, queue, Len(windows))
  /\ CallInv
  /\ verdict = "summarized" => queue = <<>> /\ InLine(parts, <<>>, Len(windows))

LEMMA WindowsInLine ==
  ASSUME NEW ps \in Seq(Summary), ps # <<>>, \A i \in 1..Len(ps) : ps[i].from = i /\ ps[i].to = i
  PROVE  InLine(ps, <<>>, Len(ps))
<1> DEFINE m == Len(ps)
<1>1. m \in Nat \ {0}
  OBVIOUS
<1>2. ASSUME NEW i \in 2..m PROVE ps[i].from = ps[i - 1].to + 1
  <2>1. i \in 1..m /\ i - 1 \in 1..m
    BY <1>1
  <2>2. ps[i].from = i /\ ps[i - 1].to = i - 1
    BY <2>1
  <2> HIDE DEF m
  <2> QED BY <1>1, <2>1, <2>2
<1>3. ps[1].from = 1 /\ Reached(ps) = m
  <2>1. 1 \in 1..m /\ m \in 1..m
    BY <1>1
  <2> QED BY <2>1 DEF Reached
<1>4. Linked(ps)
  BY <1>2 DEF Linked
<1> QED BY <1>3, <1>4 DEF InLine

\* A session that ends with no card lets its summaries go.
LEMMA OverCovers ==
  ASSUME NEW why, why # "summarized", Over(why)
  PROVE  CoverInv'
<1>1. parts' = <<>> /\ queue' = <<>> /\ attempt' = 0 /\ stage' = "over" /\ verdict' = why
  BY DEF Over
<1>2. <<>> \in Seq(Summary) /\ <<>> \in Seq(Item)
  OBVIOUS
<1>3. CallInv'
  BY <1>1 DEF CallInv
<1> QED BY <1>1, <1>2, <1>3 DEF CoverInv

LEMMA RaiseCovers ==
  ASSUME NEW detail, Raise(detail)
  PROVE  CoverInv'
<1>1. PICK why : Over(why) /\ why # "summarized"
  <2>1. PICK again \in BOOLEAN :
          Over(IF detail \in UnavailableErrors /\ ~again THEN "model_unavailable"
               ELSE IF detail = "unparsable" THEN "unparsable" ELSE "model_error")
    BY DEF Raise
  <2> QED BY <2>1
<1> QED BY <1>1, OverCovers

LEMMA PlanCovers ==
  ASSUME CoverInv, stage = "render", NEW sizes \in BoundedSeq(RecordSizes, MaxRecords), NEW left, Plan(sizes, left)
  PROVE  CoverInv'
<1>1. parts = <<>> /\ queue = <<>> /\ attempt = 0
  BY DEF CoverInv, CallInv
<1>2. UNCHANGED <<parts, queue, attempt>> /\ stage' = (IF verdict' = "none" THEN "window" ELSE "over")
  BY DEF Plan
<1>3. verdict' # "summarized" /\ (verdict' = "none" => sizes # <<>>)
  <2>1. CASE sizes = <<>>
    BY <2>1 DEF Plan
  <2>2. CASE sizes # <<>>
    BY <2>2 DEF Plan
  <2> QED BY <2>1, <2>2
<1>4. stage' = "window" => windows' # <<>> /\ Len(windows') \in Nat
  <2>1. SUFFICES ASSUME sizes # <<>> PROVE windows' # <<>> /\ Len(windows') \in Nat
    BY <1>2, <1>3
  <2>2. HoldUpTo(sizes, Split(sizes), Len(sizes))
    BY <2>1, RecordsTyped, SplitHolds
  <2>3. Split(sizes) \in Seq(Interval) /\ Split(sizes) # <<>>
    BY <2>2 DEF HoldUpTo
  <2>4. windows' = Split(sizes)
    BY DEF Plan
  <2> HIDE DEF Interval
  <2> QED BY <2>3, <2>4
<1>5. CallInv'
  BY <1>1, <1>2 DEF CallInv
<1>6. <<>> \in Seq(Summary) /\ <<>> \in Seq(Item) /\ Len(<<>>) = 0
  OBVIOUS
<1> QED BY <1>1, <1>2, <1>3, <1>4, <1>5, <1>6 DEF CoverInv

\* An answer that is kept speaks of the next window, or of the group it is
\* the summary of.
LEMMA KeepCovers ==
  ASSUME CoverInv, windows \in Seq(Interval), attempt > 0, NEW size \in AnswerSizes, Keep(size)
  PROVE  CoverInv'
<1> DEFINE x == [from |-> Spoken.from, to |-> Spoken.to, size |-> size]
<1>1. size \in Nat
  BY CallsAssumption
<1>2. parts \in Seq(Summary) /\ queue \in Seq(Item) /\ Len(windows) \in Nat
  BY DEF CoverInv
<1>3. /\ parts' = Append(parts, x) /\ attempt' = 0 /\ stage' = stage /\ verdict' = verdict
      /\ windows' = windows /\ queue' = IF stage = "merge" THEN Tail(queue) ELSE queue
  BY DEF Keep, plan
<1>4. CallInv'
  BY <1>3 DEF CallInv
<1>5. CASE stage = "window"
  <2> DEFINE n == Len(parts) + 1
  <2>1. n \in Nat /\ n <= Len(windows) /\ verdict = "none" /\ queue = <<>> /\ windows # <<>>
    BY <1>2, <1>5 DEF CoverInv, CallInv
  <2>2. x = [from |-> n, to |-> n, size |-> size]
    BY <1>5 DEF Spoken
  <2>3. x \in Summary /\ x.from = n /\ x.to = n
    BY <1>1, <2>1, <2>2 DEF Summary
  <2> HIDE DEF x
  <2>4. /\ parts' \in Seq(Summary) /\ Len(parts') = n
        /\ parts'[n] = x /\ \A i \in 1..(n - 1) : parts'[i] = parts[i]
    BY <1>2, <1>3, <2>3, AppendProperties
  <2>5. ASSUME NEW i \in 1..n PROVE parts'[i].from = i /\ parts'[i].to = i
    <3>1. CASE i = n
      BY <2>3, <2>4, <3>1
    <3>2. CASE i \in 1..(n - 1)
      <4>1. i \in 1..Len(parts) /\ parts'[i] = parts[i]
        BY <1>2, <2>4, <3>2
      <4> QED BY <1>5, <4>1 DEF CoverInv
    <3>3. i = n \/ i \in 1..(n - 1)
      BY <2>1
    <3> QED BY <3>1, <3>2, <3>3
  <2> HIDE DEF n
  <2> QED BY <1>2, <1>3, <1>4, <1>5, <2>1, <2>4, <2>5 DEF CoverInv
<1>6. CASE stage = "merge"
  <2>1. queue # <<>> /\ verdict = "none" /\ InLine(parts, queue, Len(windows))
    BY <1>6 DEF CoverInv, CallInv
  <2>2. Head(queue) = queue[1] /\ queue[1] \in Item /\ queue[1].group # <<>>
    <3>1. 1 \in 1..Len(queue)
      BY <1>2, <2>1
    <3> QED BY <1>2, <2>1, <3>1, ElementOfSeq DEF InLine
  <2> DEFINE g == queue[1].group
  <2>3. g \in Seq(Summary) /\ 1 \in 1..Len(g) /\ Len(g) \in 1..Len(g)
    BY <2>2 DEF Item
  <2>4. g[1] \in Summary /\ g[Len(g)] \in Summary
    BY <2>3, ElementOfSeq
  <2>5. x = [from |-> g[1].from, to |-> g[Len(g)].to, size |-> size]
    BY <1>6, <2>2 DEF Spoken
  <2>6. x \in Summary /\ x.from = OpensAt(queue[1]) /\ x.to = ClosesAt(queue[1])
    BY <1>1, <2>4, <2>5 DEF Summary, OpensAt, ClosesAt
  <2> HIDE DEF x, g
  <2>7. InLine(parts', queue', Len(windows))
    BY <1>2, <1>3, <1>6, <2>1, <2>6, AnsweredInLine
  <2>8. parts' \in Seq(Summary) /\ queue' \in Seq(Item)
    BY <1>2, <1>3, <1>6, <2>1, <2>6, AppendProperties, HeadTailProperties
  <2> QED BY <1>3, <1>4, <1>6, <2>1, <2>7, <2>8 DEF CoverInv
<1>7. stage = "window" \/ stage = "merge"
  BY DEF CoverInv, CallInv
<1> QED BY <1>5, <1>6, <1>7

\* A group whose merge was cut is halved.
LEMMA HalveCovers ==
  ASSUME CoverInv, windows \in Seq(Interval), attempt > 0, NEW ending, MayHalve(ending), Halve
  PROVE  CoverInv'
<1>1. parts \in Seq(Summary) /\ queue \in Seq(Item) /\ Len(windows) \in Nat
  BY DEF CoverInv
<1>2. stage = "merge" /\ queue # <<>> /\ verdict = "none" /\ InLine(parts, queue, Len(windows))
  BY DEF CoverInv, CallInv, MayHalve
<1>3. Head(queue) = queue[1] /\ Len(queue[1].group) > 2
  BY <1>1, <1>2 DEF MayHalve
<1>4. /\ queue' = Halves(queue[1].group) \o Tail(queue) /\ attempt' = 0
      /\ stage' = stage /\ verdict' = verdict /\ windows' = windows /\ parts' = parts
  BY <1>3 DEF Halve, plan
<1>5. queue' \in Seq(Item) /\ InLine(parts, queue', Len(windows))
  BY <1>1, <1>2, <1>3, <1>4, HalvedInLine
<1>6. CallInv'
  BY <1>4 DEF CallInv
<1> QED BY <1>1, <1>2, <1>4, <1>5, <1>6 DEF CoverInv

LEMMA WindowsDoneCovers ==
  ASSUME CoverInv, windows \in Seq(Interval), WindowsDone
  PROVE  CoverInv'
<1>1. /\ parts \in Seq(Summary) /\ verdict = "none" /\ queue = <<>> /\ windows # <<>>
      /\ \A i \in 1..Len(parts) : parts[i].from = i /\ parts[i].to = i
  BY DEF CoverInv, WindowsDone
<1>2. parts # <<>> /\ Len(parts) = Len(windows)
  <2>1. Len(windows) # 0
    BY <1>1
  <2> QED BY <1>1, <2>1 DEF WindowsDone
<1>3. InLine(parts, <<>>, Len(windows))
  BY <1>1, <1>2, WindowsInLine
<1>4. UNCHANGED <<verdict, windows, parts, queue, attempt>> /\ stage' = "merge" /\ attempt = 0
  BY DEF WindowsDone, plan
<1>5. CallInv'
  BY <1>4 DEF CallInv
<1> QED BY <1>1, <1>3, <1>4, <1>5 DEF CoverInv

LEMMA PassOnCovers ==
  ASSUME CoverInv, windows \in Seq(Interval), PassOn
  PROVE  CoverInv'
<1> DEFINE x == queue[1].group[1]
<1>1. /\ parts \in Seq(Summary) /\ queue \in Seq(Item) /\ Len(windows) \in Nat
      /\ stage = "merge" /\ queue # <<>> /\ verdict = "none" /\ InLine(parts, queue, Len(windows))
  BY DEF CoverInv, PassOn
<1>2. Head(queue) = queue[1] /\ queue[1] \in Item /\ Len(queue[1].group) = 1
  BY <1>1, ElementOfSeq DEF PassOn
<1>3. queue[1].group \in Seq(Summary)
  BY <1>2 DEF Item
<1>4. x \in Summary /\ x.from = OpensAt(queue[1]) /\ x.to = ClosesAt(queue[1])
  BY <1>2, <1>3, ElementOfSeq DEF OpensAt, ClosesAt
<1>5. attempt = 0
  BY <1>1, <1>2 DEF CoverInv, CallInv
<1>6. /\ parts' = Append(parts, x) /\ queue' = Tail(queue)
      /\ UNCHANGED <<stage, verdict, windows, attempt>>
  BY <1>2 DEF PassOn, plan
<1> HIDE DEF x
<1>7. InLine(parts', queue', Len(windows))
  BY <1>1, <1>4, <1>6, AnsweredInLine
<1>8. parts' \in Seq(Summary) /\ queue' \in Seq(Item)
  BY <1>1, <1>4, <1>6, AppendProperties, HeadTailProperties
<1>9. CallInv'
  BY <1>5, <1>6 DEF CallInv
<1> QED BY <1>1, <1>5, <1>6, <1>7, <1>8, <1>9 DEF CoverInv

LEMMA RoundCovers ==
  ASSUME CoverInv, windows \in Seq(Interval), Round
  PROVE  CoverInv'
<1>1. /\ parts \in Seq(Summary) /\ Len(windows) \in Nat /\ verdict = "none"
      /\ stage = "merge" /\ queue = <<>> /\ InLine(parts, <<>>, Len(windows))
  BY DEF CoverInv, Round
<1>2. attempt = 0
  BY <1>1 DEF CoverInv, CallInv
<1>3. queue' = Regrouped(parts) /\ parts' = <<>> /\ UNCHANGED <<stage, verdict, windows, attempt>>
  BY DEF Round, Regrouped, plan
<1>4. queue' \in Seq(Item) /\ InLine(parts', queue', Len(windows))
  BY <1>1, <1>3, RoundInLine
<1>5. parts' \in Seq(Summary)
  BY <1>3
<1>6. CallInv'
  BY <1>2, <1>3 DEF CallInv
<1> QED BY <1>1, <1>2, <1>3, <1>4, <1>5, <1>6 DEF CoverInv

LEMMA CoverKept ==
  ASSUME PlanInv, CoverInv, [CallsNext]_callsVars
  PROVE  CoverInv'
<1>1. windows \in Seq(Interval) /\ attempt \in Nat
  BY DEF PlanInv, CoverInv
<1>2. CASE UNCHANGED callsVars
  BY <1>2 DEF callsVars, plan, CoverInv, CallInv
<1>3. ASSUME stage = "render", NEW sizes \in BoundedSeq(RecordSizes, MaxRecords), NEW left, Plan(sizes, left)
      PROVE  CoverInv'
  BY <1>3, PlanCovers
<1>4. CASE Ask
  <2>1. UNCHANGED <<stage, verdict, windows, parts, queue>> /\ attempt' = 1 /\ Waiting
    BY <1>4 DEF Ask, plan
  <2>2. queue # <<>> => Head(queue) = queue[1]
    BY DEF CoverInv
  <2>3. CallInv'
    BY <2>1, <2>2 DEF CallInv, Waiting
  <2> QED BY <2>1, <2>3 DEF CoverInv
<1>5. CASE WorkFails \/ PromptGone \/ Interrupted
  <2>1. \E why : why # "summarized" /\ Over(why)
    BY <1>5 DEF WorkFails, PromptGone, Interrupted
  <2> QED BY <2>1, OverCovers
<1>6. ASSUME NEW failure, Fails(failure) PROVE CoverInv'
  <2>1. CASE failure \in Transient /\ attempt < Attempts
    <3>1. UNCHANGED <<stage, verdict, windows, parts, queue>> /\ attempt' = attempt + 1 /\ attempt > 0
      BY <1>6, <2>1 DEF Fails, plan
    <3>2. CallInv'
      BY <3>1 DEF CallInv, CoverInv
    <3> QED BY <1>1, <3>1, <3>2 DEF CoverInv
  <2>2. CASE ~(failure \in Transient /\ attempt < Attempts)
    BY <1>6, <2>2, RaiseCovers DEF Fails
  <2> QED BY <2>1, <2>2
<1>7. ASSUME NEW ending \in Endings, NEW size \in AnswerSizes, Answered(ending, size) PROVE CoverInv'
  <2>1. attempt > 0
    BY <1>7 DEF Answered
  <2>2. CASE MayHalve(ending) /\ Halve
    BY <1>1, <2>1, <2>2, HalveCovers
  <2>3. CASE \E detail : Raise(detail)
    BY <2>3, RaiseCovers
  <2>4. CASE Keep(size)
    BY <1>1, <2>1, <2>4, KeepCovers
  <2> QED BY <1>7, <2>2, <2>3, <2>4, Outcomes
<1>8. CASE WindowsDone
  BY <1>1, <1>8, WindowsDoneCovers
<1>9. CASE PassOn
  BY <1>1, <1>9, PassOnCovers
<1>10. CASE Round
  BY <1>1, <1>10, RoundCovers
<1>11. CASE Finish
  <2>1. /\ stage = "merge" /\ queue = <<>> /\ stage' = "over" /\ verdict' \in {"unparsable", "summarized"}
        /\ UNCHANGED <<windows, parts, queue, attempt>>
    BY <1>11 DEF Finish, LastOne, plan
  <2>2. InLine(parts, <<>>, Len(windows)) /\ attempt = 0
    BY <2>1 DEF CoverInv, CallInv
  <2>3. CallInv'
    BY <2>1, <2>2 DEF CallInv
  <2> QED BY <2>1, <2>2, <2>3 DEF CoverInv
<1> QED BY <1>2, <1>3, <1>4, <1>5, <1>6, <1>7, <1>8, <1>9, <1>10, <1>11 DEF CallsNext

LEMMA CoverHolds == CallsSpec => []CoverInv
<1>1. CallsInit => CoverInv
  <2>1. CallsInit => <<>> \in Seq(Summary) /\ <<>> \in Seq(Item)
    OBVIOUS
  <2> QED BY <2>1 DEF CallsInit, CoverInv, CallInv
<1>2. PlanInv /\ CoverInv /\ [CallsNext]_callsVars => CoverInv'
  BY CoverKept
<1> QED BY <1>1, <1>2, PlanHolds, PTL DEF CallsSpec

\* Merging loses no window: in every round, through every halving, the
\* answers and the waiting groups speak of each window once and in order, and
\* the summary a card is made from speaks of all of them (summarize.merge).
THEOREM SummaryCovers == CallsSpec => []SummaryCoversSession
<1>1. PlanInv /\ CoverInv => SummaryCoversSession
  <2> SUFFICES ASSUME PlanInv, CoverInv, stage \in {"window", "merge"} \/ verdict = "summarized"
               PROVE  SummaryCoversSession
    BY DEF SummaryCoversSession
  <2> DEFINE line == parts \o FlattenSeq([g \in DOMAIN queue |-> queue[g].group])
  <2>1. parts \in Seq(Summary) /\ queue \in Seq(Item) /\ Len(windows) \in Nat
    BY DEF PlanInv, CoverInv
  <2>2. ASSUME NEW s \in Seq(Summary), Linked(s), s # <<>> => s[1].from = 1
        PROVE  \A i \in DOMAIN s : s[i].from = IF i = 1 THEN 1 ELSE s[i - 1].to + 1
    <3>1. ASSUME NEW i \in DOMAIN s PROVE s[i].from = IF i = 1 THEN 1 ELSE s[i - 1].to + 1
      <4>1. i = 1 \/ i \in 2..Len(s)
        OBVIOUS
      <4>2. s # <<>>
        OBVIOUS
      <4> QED BY <2>2, <4>1, <4>2 DEF Linked
    <3> QED BY <3>1
  <2>3. CASE stage = "window"
    <3>1. queue = <<>> /\ \A i \in 1..Len(parts) : parts[i].from = i /\ parts[i].to = i
      BY <2>3 DEF CoverInv
    <3>2. FlattenSeq([g \in DOMAIN queue |-> queue[g].group]) = <<>>
      BY <3>1 DEF FlattenSeq
    <3>3. line = parts
      BY <2>1, <3>2, ConcatEmptySeq
    <3>4. Linked(parts) /\ (parts # <<>> => parts[1].from = 1)
      <4>1. CASE parts = <<>>
        BY <4>1 DEF Linked
      <4>2. CASE parts # <<>>
        BY <2>1, <3>1, <4>2, WindowsInLine DEF InLine
      <4> QED BY <4>1, <4>2
    <3>5. stage # "merge" /\ verdict = "none"
      BY <2>3 DEF CoverInv
    <3> HIDE DEF line
    <3>6. \A i \in DOMAIN line : line[i].from = IF i = 1 THEN 1 ELSE line[i - 1].to + 1
      BY <2>1, <2>2, <3>3, <3>4
    <3> QED BY <2>3, <3>6 DEF SummaryCoversSession, line
  <2>4. CASE stage # "window"
    <3>1. InLine(parts, queue, Len(windows))
      BY <2>4 DEF CoverInv
    <3>2. /\ line \in Seq(Summary) /\ line # <<>> /\ Linked(line)
          /\ line[1].from = 1 /\ line[Len(line)].to = Len(windows)
      BY <2>1, <3>1, LineCovers
    <3> HIDE DEF line
    <3>3. \A i \in DOMAIN line : line[i].from = IF i = 1 THEN 1 ELSE line[i - 1].to + 1
      BY <2>2, <3>2
    <3> QED BY <3>2, <3>3 DEF SummaryCoversSession, line
  <2> QED BY <2>3, <2>4
<1> QED BY <1>1, PlanHolds, CoverHolds, PTL

\* The groups are fewer than what they group.
LEMMA GroupsAreFewer ==
  ASSUME NEW s, NEW r \in Nat, r > 1, NEW g, GroupsUpTo(s, g, r)
  PROVE  Len(g) < r
<1> DEFINE l == Len(g)
           S == {i \in 1..l : g[i].from >= 2 * i - 1}
<1>1. g \in Seq(Interval) /\ l \in Nat \ {0} /\ g[1].from = 1 /\ g[l].to = r
  BY DEF GroupsUpTo
<1>2. ASSUME NEW i \in 1..l PROVE g[i].from \in Nat /\ g[i].to \in Nat /\ g[i].from \in 1..g[i].to
  <2>1. g[i] \in Interval
    BY <1>1, ElementOfSeq
  <2> QED BY <2>1 DEF Interval, GroupsUpTo
<1>3. \A i \in 2..l : g[i].from = g[i - 1].to + 1 /\ g[i - 1].from < g[i - 1].to
  BY DEF GroupsUpTo
<1> HIDE DEF l
<1>4. 1 \in S
  BY <1>1
<1>5. ASSUME NEW i \in 1..(l - 1), i \in S PROVE i + 1 \in S
  <2>1. i + 1 \in 2..l /\ (i + 1) - 1 = i /\ i \in 1..l /\ i + 1 \in 1..l
    BY <1>1
  <2>2. g[i + 1].from = g[i].to + 1 /\ g[i].from < g[i].to
    BY <1>3, <2>1
  <2>3. g[i].from >= 2 * i - 1
    BY <1>5
  <2>4. g[i].from \in Nat /\ g[i].to \in Nat /\ i \in Nat
    BY <1>2, <2>1
  <2>5. g[i].to + 1 >= 2 * (i + 1) - 1
    BY <2>2, <2>3, <2>4
  <2> QED BY <2>1, <2>2, <2>5
<1>6. l \in S
  <2> HIDE DEF S
  <2>1. 1 \in Int /\ l \in Int /\ \A i \in 1..(l - 1) : i \in S => i + 1 \in S
    BY <1>1, <1>5
  <2>2. 1..l \subseteq S
    BY <1>4, <2>1, IntervalInductive
  <2> QED BY <1>1, <2>2
<1>7. g[l].from >= 2 * l - 1 /\ g[l].from \in 1..r /\ g[l].from \in Nat
  BY <1>1, <1>2, <1>6
<1>8. l < r
  <2> HIDE DEF S
  <2> DEFINE k == g[l].from
  <2>1. k >= 2 * l - 1 /\ k \in 1..r
    BY <1>7
  <2> HIDE DEF k
  <2> QED BY <1>1, <2>1
<1> QED BY <1>8 DEF l

\* Every round leaves fewer groups than it had summaries, whatever their
\* sizes: the rounds of summarize.merge come to one summary, and as many
\* rounds as there are windows are enough for projected.
THEOREM RoundsShrink == CallsSpec => [][Round => Len(queue') < Len(parts)]_callsVars
<1>1. ASSUME CoverInv, Round PROVE Len(queue') < Len(parts)
  <2> DEFINE sizes == [i \in DOMAIN parts |-> parts[i].size]  groups == Grouped(sizes)
  <2>1. parts \in Seq(Summary) /\ Len(parts) \in Nat /\ Len(parts) > 1 /\ DOMAIN parts = 1..Len(parts)
    BY <1>1 DEF CoverInv, Round
  <2>2. sizes \in Seq(Nat) /\ Len(sizes) = Len(parts) /\ sizes # <<>>
    <3>1. ASSUME NEW i \in 1..Len(parts) PROVE parts[i].size \in Nat
      <4>1. parts[i] \in Summary
        BY <2>1, ElementOfSeq
      <4> QED BY <4>1 DEF Summary
    <3>2. sizes \in [1..Len(parts) -> Nat]
      BY <2>1, <3>1
    <3>3. Len(sizes) = Len(parts)
      BY <2>1, <3>2
    <3> HIDE DEF sizes
    <3> QED BY <2>1, <3>2, <3>3
  <2> HIDE DEF sizes
  <2>3. GroupsUpTo(sizes, groups, Len(parts))
    BY <2>2, GroupedHolds
  <2> HIDE DEF groups
  <2>4. Len(groups) < Len(parts) /\ groups \in Seq(Interval)
    BY <2>1, <2>3, GroupsAreFewer DEF GroupsUpTo
  <2>5. queue' = [g \in DOMAIN groups |-> [group |-> SubSeq(parts, groups[g].from, groups[g].to), split |-> TRUE]]
    BY <1>1 DEF Round, groups, sizes
  <2>6. Len(queue') = Len(groups)
    <3> HIDE DEF Interval
    <3>1. Len(groups) \in Nat /\ DOMAIN groups = 1..Len(groups)
      BY <2>4
    <3> QED BY <2>5, <3>1
  <2> QED BY <2>4, <2>6
<1>2. CoverInv /\ [CallsNext]_callsVars => [Round => Len(queue') < Len(parts)]_callsVars
  BY <1>1
<1> QED BY <1>2, CoverHolds, PTL DEF CallsSpec

-----------------------------------------------------------------------------
(* The projection.  As long as no answer is longer than asked for, the      *)
(* summaries of each round are no more than the projected ones, and none is *)
(* larger than the projected one in its place.                              *)

\* A total is no larger than that of larger elements behind others.
LEMMA TotalLess ==
  ASSUME NEW s \in Seq(Nat), NEW t \in Seq(Nat), NEW d \in Nat, Len(t) = Len(s) + d,
         \A i \in 1..Len(s) : s[i] <= t[i + d]
  PROVE  Total(s) <= Total(t)
<1> DEFINE n == Len(s)  m == Len(t)
<1>1. n \in Nat /\ m = n + d /\ m \in Nat
  OBVIOUS
<1>2. PICK f \in [0..n -> Nat] : f[0] = 0 /\ (\A i \in 1..n : f[i] = f[i - 1] + s[i]) /\ Total(s) = f[n]
  BY TotalRuns
<1>3. PICK g \in [0..m -> Nat] : g[0] = 0 /\ (\A i \in 1..m : g[i] = g[i - 1] + t[i]) /\ Total(t) = g[m]
  BY TotalRuns
<1>4. (\A i \in 1..n : s[i] \in Nat /\ s[i] <= t[i + d]) /\ \A i \in 1..m : t[i] \in Nat
  BY ElementOfSeq
<1> HIDE DEF n, m
<1> DEFINE T == {i \in 0..n : f[i] <= g[i + d]}
<1>5. 0 \in T
  <2>1. 0 + d \in 0..m /\ 0 \in 0..n
    BY <1>1
  <2>2. g[0 + d] \in Nat
    BY <2>1
  <2> QED BY <1>2, <2>1, <2>2
<1>6. ASSUME NEW i \in 0..(n - 1), i \in T PROVE i + 1 \in T
  <2>1. /\ i + 1 \in 1..n /\ (i + 1) - 1 = i /\ i + 1 \in 0..n /\ i \in 0..n
        /\ (i + 1) + d \in 1..m /\ ((i + 1) + d) - 1 = i + d /\ i + d \in 0..m
    BY <1>1
  <2>2. f[i + 1] = f[i] + s[i + 1] /\ g[(i + 1) + d] = g[i + d] + t[(i + 1) + d]
    BY <1>2, <1>3, <2>1
  <2>3. f[i] \in Nat /\ g[i + d] \in Nat /\ s[i + 1] \in Nat /\ t[(i + 1) + d] \in Nat
    BY <1>4, <2>1
  <2>4. f[i] <= g[i + d] /\ s[i + 1] <= t[(i + 1) + d]
    BY <1>4, <1>6, <2>1
  <2>5. f[i + 1] <= g[(i + 1) + d]
    <3> DEFINE u == f[i]  v == g[i + d]  x == s[i + 1]  y == t[(i + 1) + d]
    <3>1. u \in Nat /\ v \in Nat /\ x \in Nat /\ y \in Nat /\ u <= v /\ x <= y
      BY <2>3, <2>4
    <3>2. f[i + 1] = u + x /\ g[(i + 1) + d] = v + y
      BY <2>2
    <3> HIDE DEF u, v, x, y
    <3> QED BY <3>1, <3>2
  <2> QED BY <2>1, <2>5
<1>7. n \in T
  <2> HIDE DEF T
  <2>1. 0 \in Int /\ n \in Int /\ \A i \in 0..(n - 1) : i \in T => i + 1 \in T
    BY <1>1, <1>6
  <2>2. 0..n \subseteq T
    BY <1>5, <2>1, IntervalInductive
  <2> QED BY <1>1, <2>2
<1> QED BY <1>1, <1>2, <1>3, <1>7

\* No more summaries than t has, and none larger than t's in its place.
Below(s, t) == Len(s) <= Len(t) /\ \A i \in 1..Len(s) : s[i] <= t[i]

\* Before the same summary, a has closed fewer groups than b, or as many and
\* its open group begins no earlier.
Ahead(a, b) ==
  \/ Len(a.cut) < Len(b.cut)
  \/ Len(a.cut) = Len(b.cut) /\ b.from <= a.from

\* Smaller summaries fit where larger ones do.
LEMMA MergeLess ==
  ASSUME NEW s \in Seq(Nat), NEW t \in Seq(Nat), Below(s, t), NEW i \in 1..Len(s),
         NEW a \in 1..i, NEW b \in 1..a
  PROVE  Total(SubSeq(s, a, i)) <= Total(SubSeq(t, b, i))
<1> DEFINE x == SubSeq(s, a, i)  y == SubSeq(t, b, i)  d == a - b
<1>1. /\ i \in Nat /\ a \in Nat /\ b \in Nat /\ d \in Nat /\ a <= i /\ b <= i
      /\ a \in 1..Len(s) /\ i \in 0..Len(s) /\ b \in 1..Len(t) /\ i \in 0..Len(t) /\ i \in 1..Len(t)
  BY DEF Below
<1>2. x \in Seq(Nat) /\ Len(x) = i - a + 1 /\ \A k \in 1..(i - a + 1) : x[k] = s[a + k - 1]
  BY <1>1, PartTyped
<1>3. y \in Seq(Nat) /\ Len(y) = i - b + 1 /\ \A k \in 1..(i - b + 1) : y[k] = t[b + k - 1]
  BY <1>1, PartTyped
<1> HIDE DEF x, y
<1>4. ASSUME NEW k \in 1..Len(x) PROVE x[k] <= y[k + d]
  <2>1. /\ k \in 1..(i - a + 1) /\ k + d \in 1..(i - b + 1) /\ b + (k + d) - 1 = a + k - 1
        /\ a + k - 1 \in 1..Len(s)
    <3> DEFINE n == Len(s)
    <3>1. k \in 1..(i - a + 1)
      BY <1>2
    <3>2. i \in 1..n /\ n \in Nat
      OBVIOUS
    <3> HIDE DEF n
    <3>3. k + (a - b) \in 1..(i - b + 1) /\ b + (k + (a - b)) - 1 = a + k - 1 /\ a + k - 1 \in 1..n
      BY <1>1, <3>1, <3>2
    <3> QED BY <3>1, <3>3 DEF n
  <2> DEFINE j == k + d
  <2>2. j \in 1..(i - b + 1) /\ b + j - 1 = a + k - 1
    BY <2>1
  <2> HIDE DEF j
  <2>3. x[k] = s[a + k - 1] /\ y[j] = t[a + k - 1]
    BY <1>2, <1>3, <2>1, <2>2
  <2>4. x[k] = s[a + k - 1] /\ y[k + d] = t[a + k - 1]
    BY <2>3 DEF j
  <2> QED BY <2>1, <2>4 DEF Below
<1>5. Len(y) = Len(x) + d
  <2>1. Len(y) = i - b + 1 /\ Len(x) = i - a + 1
    BY <1>2, <1>3
  <2>2. i - b + 1 = (i - a + 1) + (a - b)
    BY <1>1
  <2> QED BY <2>1, <2>2
<1> HIDE DEF d
<1>6. Total(x) <= Total(y)
  BY <1>1, <1>2, <1>3, <1>4, <1>5, TotalLess
<1> QED BY <1>6 DEF x, y

\* The next of the smaller summaries closes a group only when the larger's
\* next does, or has closed one before.
LEMMA GroupAhead ==
  ASSUME NEW s \in Seq(Nat), NEW t \in Seq(Nat), Below(s, t), NEW i \in 1..Len(s),
         NEW a \in Placing(Len(s)), NEW b \in Placing(Len(t)), Ahead(a, b), a.from <= i, b.from <= i
  PROVE  Ahead(Group(s, a, i), Group(t, b, i))
<1> DEFINE Closes(u, acc) == acc.from + 1 < i /\ Overhead + Total(SubSeq(u, acc.from, i)) > MergeInput
           Closed(acc) == [from |-> i, cut |-> Append(acc.cut, [from |-> acc.from, to |-> i - 1])]
<1>1. /\ a.from \in Nat \ {0} /\ b.from \in Nat \ {0} /\ i \in Nat
      /\ a.cut \in Seq(Interval) /\ b.cut \in Seq(Interval) /\ Len(a.cut) \in Nat /\ Len(b.cut) \in Nat
  BY DEF Placing
<1>2. Group(s, a, i) = (IF Closes(s, a) THEN Closed(a) ELSE a) /\ Group(t, b, i) = IF Closes(t, b) THEN Closed(b) ELSE b
  BY DEF Group
<1>3. /\ Closes(s, a) => Len(Closed(a).cut) = Len(a.cut) + 1 /\ Closed(a).from = i
      /\ Closes(t, b) => Len(Closed(b).cut) = Len(b.cut) + 1 /\ Closed(b).from = i
  <2>1. ASSUME NEW acc, acc.cut \in Seq(Interval), acc.from \in Nat, acc.from < i
        PROVE  Len(Closed(acc).cut) = Len(acc.cut) + 1 /\ Closed(acc).from = i
    <3>1. [from |-> acc.from, to |-> i - 1] \in Interval
      BY <1>1, <2>1 DEF Interval
    <3> QED BY <2>1, <3>1, AppendProperties
  <2>2. (Closes(s, a) => a.from < i) /\ (Closes(t, b) => b.from < i)
    BY <1>1
  <2> HIDE DEF Closes, Closed
  <2> QED BY <1>1, <2>1, <2>2
<1>4. ASSUME Closes(s, a), b.from <= a.from PROVE Closes(t, b)
  <2>1. a.from \in 1..i /\ b.from \in 1..a.from /\ b.from + 1 < i
    <3> DEFINE p == a.from  q == b.from
    <3>1. p \in Nat \ {0} /\ q \in Nat \ {0} /\ i \in Nat /\ p + 1 < i /\ q <= p
      BY <1>1, <1>4
    <3> HIDE DEF p, q, Closes, Closed
    <3>2. p \in 1..i /\ q \in 1..p /\ q + 1 < i
      BY <3>1
    <3> QED BY <3>2 DEF p, q
  <2>2. Total(SubSeq(s, a.from, i)) <= Total(SubSeq(t, b.from, i))
    BY <2>1, MergeLess
  <2>3. a.from \in 1..Len(s) /\ i \in 0..Len(s) /\ b.from \in 1..Len(t) /\ i \in 0..Len(t)
    <3> DEFINE p == a.from  q == b.from  n == Len(s)  m == Len(t)
    <3>1. p \in 1..i /\ q \in 1..p /\ n \in Nat /\ m \in Nat /\ n <= m /\ i \in 1..n
      <4>1. p \in 1..i /\ q \in 1..p
        BY <2>1
      <4>2. n <= m /\ i \in 1..n
        BY DEF Below
      <4>3. n \in Nat /\ m \in Nat
        BY LenProperties
      <4> QED BY <4>1, <4>2, <4>3
    <3> HIDE DEF p, q, n, m
    <3>2. p \in 1..n /\ i \in 0..n /\ q \in 1..m /\ i \in 0..m
      BY <3>1
    <3> QED BY <3>2 DEF p, q, n, m
  <2>4. Total(SubSeq(s, a.from, i)) \in Nat /\ Total(SubSeq(t, b.from, i)) \in Nat /\ Overhead \in Nat /\ MergeInput \in Nat
    <3>1. SubSeq(s, a.from, i) \in Seq(Nat) /\ SubSeq(t, b.from, i) \in Seq(Nat)
      BY <2>3, PartTyped
    <3> QED BY <3>1, TotalTyped, CallsAssumption
  <2>5. Overhead + Total(SubSeq(s, a.from, i)) > MergeInput
    BY <1>4
  <2> QED BY <2>1, <2>2, <2>4, <2>5
<1> HIDE DEF Closes, Closed
<1> DEFINE x == Group(s, a, i)  y == Group(t, b, i)
<1>5. CASE Closes(s, a)
  <2>1. Len(x.cut) = Len(a.cut) + 1 /\ x.from = i
    BY <1>2, <1>3, <1>5
  <2>2. CASE Closes(t, b)
    <3>1. Len(y.cut) = Len(b.cut) + 1 /\ y.from = i
      BY <1>2, <1>3, <2>2
    <3> HIDE DEF x, y
    <3>2. Len(x.cut) < Len(y.cut) \/ Len(x.cut) = Len(y.cut)
      <4> DEFINE k == Len(a.cut)  l == Len(b.cut)
      <4>1. k \in Nat /\ l \in Nat /\ (k < l \/ k = l) /\ Len(x.cut) = k + 1 /\ Len(y.cut) = l + 1
        BY <1>1, <2>1, <3>1 DEF Ahead
      <4> HIDE DEF k, l
      <4> QED BY <4>1
    <3>3. y.from <= x.from
      BY <1>1, <2>1, <3>1
    <3>4. Ahead(x, y)
      BY <3>2, <3>3 DEF Ahead
    <3> QED BY <3>4 DEF x, y
  <2>3. CASE ~Closes(t, b)
    <3>1. y = b
      BY <1>2, <2>3
    <3>2. Len(a.cut) < Len(b.cut)
      BY <1>4, <1>5, <2>3 DEF Ahead
    <3> HIDE DEF x, y
    <3>3. Ahead(x, y)
      BY <1>1, <2>1, <3>1, <3>2 DEF Ahead
    <3> QED BY <3>3 DEF x, y
  <2> QED BY <2>2, <2>3
<1>6. CASE ~Closes(s, a)
  <2>1. x = a
    BY <1>2, <1>6
  <2>2. (y = b) \/ (Len(y.cut) = Len(b.cut) + 1 /\ y.from = i)
    BY <1>2, <1>3
  <2> HIDE DEF x, y
  <2>3. Ahead(x, y)
    BY <1>1, <2>1, <2>2 DEF Ahead
  <2> QED BY <2>3 DEF x, y
<1> QED BY <1>5, <1>6

LEMMA GroupOpens ==
  ASSUME NEW s, NEW acc, NEW i
  PROVE  Group(s, acc, i).from \in {acc.from, i}
BY DEF Group

\* With no more and no larger summaries there are no more groups, and as many
\* only when the last begins no earlier.
LEMMA GroupedAhead ==
  ASSUME NEW s \in Seq(Nat), NEW t \in Seq(Nat), Below(s, t), s # <<>>
  PROVE  LET g == Grouped(s)
             h == Grouped(t)
         IN Len(g) < Len(h) \/ (Len(g) = Len(h) /\ h[Len(h)].from <= g[Len(g)].from)
<1> DEFINE n == Len(s)  m == Len(t)  base == [from |-> 1, cut |-> <<>>]
<1>1. n \in Nat \ {0} /\ m \in Nat /\ n <= m /\ t # <<>>
  BY DEF Below
<1>2. PICK x \in [0..n -> Placing(n)] :
        x[0] = base /\ (\A i \in 1..n : x[i] = Group(s, x[i - 1], i)) /\ Grouped(s) = WindowsAt(x[n], n)
  BY GroupedRuns
<1>3. PICK y \in [0..m -> Placing(m)] :
        y[0] = base /\ (\A i \in 1..m : y[i] = Group(t, y[i - 1], i)) /\ Grouped(t) = WindowsAt(y[m], m)
  BY <1>1, GroupedRuns
<1>4. /\ \A i \in 0..n : x[i] \in Placing(n) /\ x[i].from \in Nat /\ x[i].cut \in Seq(Interval)
      /\ \A i \in 0..m : y[i] \in Placing(m) /\ y[i].from \in Nat /\ y[i].cut \in Seq(Interval)
  <2>1. \A i \in 0..n : x[i] \in Placing(n)
    BY <1>2
  <2>2. \A i \in 0..m : y[i] \in Placing(m)
    BY <1>3
  <2>3. \A k \in Nat : \A acc \in Placing(k) : acc.from \in Nat /\ acc.cut \in Seq(Interval)
    BY DEF Placing
  <2> HIDE DEF n, m
  <2> QED BY <1>1, <2>1, <2>2, <2>3
<1>5. base.from = 1 /\ Ahead(base, base)
  BY DEF Ahead
<1>6. n = Len(s) /\ m = Len(t)
  OBVIOUS
<1> HIDE DEF n, m, base
<1> DEFINE T == {i \in 0..n : Ahead(x[i], y[i]) /\ x[i].from <= i + 1 /\ y[i].from <= i + 1}
<1>7. 0 \in T
  BY <1>1, <1>2, <1>3, <1>5
<1>8. ASSUME NEW i \in 0..(n - 1), i \in T PROVE i + 1 \in T
  <2> DEFINE j == i + 1  a == x[i]  b == y[i]
  <2>1. j \in 1..n /\ j \in 1..m /\ j - 1 = i /\ j \in 0..n /\ j \in 0..m /\ i \in 0..n /\ i \in 0..m /\ j <= j + 1 /\ j \in Nat
    BY <1>1
  <2>2. Ahead(a, b) /\ a.from <= j /\ b.from <= j
    BY <1>8
  <2>3. x[j] = Group(s, a, j) /\ y[j] = Group(t, b, j)
    BY <1>2, <1>3, <2>1
  <2>4. a \in Placing(n) /\ b \in Placing(m) /\ a.from \in Nat /\ b.from \in Nat
    BY <1>4, <2>1
  <2> HIDE DEF j, a, b
  <2>5. Ahead(Group(s, a, j), Group(t, b, j))
    BY <1>6, <2>1, <2>2, <2>4, GroupAhead
  <2>6. x[j].from <= j + 1 /\ y[j].from <= j + 1
    <3>1. x[j].from \in {a.from, j} /\ y[j].from \in {b.from, j}
      BY <2>3, GroupOpens
    <3> DEFINE p == a.from  q == b.from
    <3>2. p \in Nat /\ q \in Nat /\ p <= j /\ q <= j
      BY <2>2, <2>4
    <3> HIDE DEF p, q
    <3>3. p <= j + 1 /\ q <= j + 1 /\ j <= j + 1
      BY <2>1, <3>2
    <3> QED BY <3>1, <3>3 DEF p, q
  <2>7. j \in T
    BY <2>1, <2>3, <2>5, <2>6
  <2> QED BY <2>7 DEF j
<1>9. n \in T
  <2> HIDE DEF T
  <2>1. 0 \in Int /\ n \in Int /\ \A i \in 0..(n - 1) : i \in T => i + 1 \in T
    BY <1>1, <1>8
  <2>2. 0..n \subseteq T
    BY <1>7, <2>1, IntervalInductive
  <2> QED BY <1>1, <2>2
<1> DEFINE a == x[n]  U == {i \in n..m : Ahead(a, y[i])}
<1>10. n \in U
  BY <1>1, <1>9
<1>11. a.cut \in Seq(Interval) /\ a.from \in Nat /\ Len(a.cut) \in Nat
  BY <1>1, <1>4
<1> HIDE DEF a
<1>12. ASSUME NEW i \in n..(m - 1), i \in U PROVE i + 1 \in U
  <2> DEFINE b == y[i]
  <2>1. i + 1 \in 1..m /\ (i + 1) - 1 = i /\ i \in 0..m /\ i + 1 \in n..m /\ i + 1 \in Nat
    BY <1>1
  <2>2. y[i + 1] = Group(t, b, i + 1) /\ Ahead(a, b)
    BY <1>3, <1>12, <2>1
  <2>3. b.cut \in Seq(Interval) /\ b.from \in Nat /\ Len(b.cut) \in Nat
    BY <1>4, <2>1
  <2> HIDE DEF b
  <2> DEFINE c == Group(t, b, i + 1)
  <2>4. c = b \/ Len(c.cut) = Len(b.cut) + 1
    <3>1. CASE b.from + 1 < i + 1 /\ Overhead + Total(SubSeq(t, b.from, i + 1)) > MergeInput
      <4> DEFINE w == [from |-> b.from, to |-> (i + 1) - 1]
      <4>1. c.cut = Append(b.cut, w)
        BY <3>1 DEF Group
      <4>2. w \in Interval
        BY <1>1, <2>1, <2>3 DEF Interval
      <4> HIDE DEF c, w
      <4> QED BY <2>3, <4>1, <4>2, AppendProperties
    <3>2. CASE ~(b.from + 1 < i + 1 /\ Overhead + Total(SubSeq(t, b.from, i + 1)) > MergeInput)
      BY <3>2 DEF Group
    <3> QED BY <3>1, <3>2
  <2> HIDE DEF c
  <2>5. Ahead(a, c)
    <3>1. CASE c = b
      BY <2>2, <3>1
    <3>2. CASE Len(c.cut) = Len(b.cut) + 1
      <4> DEFINE k == Len(a.cut)  l == Len(b.cut)
      <4>1. k \in Nat /\ l \in Nat /\ (k < l \/ k = l) /\ Len(c.cut) = l + 1
        BY <1>11, <2>2, <2>3, <3>2 DEF Ahead
      <4> HIDE DEF k, l
      <4>2. k < Len(c.cut)
        BY <4>1
      <4> QED BY <4>2 DEF Ahead, k
    <3> QED BY <2>4, <3>1, <3>2
  <2> QED BY <2>1, <2>2, <2>5 DEF c
<1>13. m \in U
  <2> HIDE DEF U
  <2>1. n \in Int /\ m \in Int /\ \A i \in n..(m - 1) : i \in U => i + 1 \in U
    BY <1>1, <1>12
  <2>2. n..m \subseteq U
    BY <1>10, <2>1, IntervalInductive
  <2> QED BY <1>1, <2>2
<1> DEFINE b == y[m]  g == Grouped(s)  h == Grouped(t)
<1>14. b.cut \in Seq(Interval) /\ b.from \in Nat /\ Len(b.cut) \in Nat /\ Ahead(a, b)
  BY <1>1, <1>4, <1>13
<1>15. g = WindowsAt(a, n) /\ h = WindowsAt(b, m)
  BY <1>2, <1>3 DEF a
<1> HIDE DEF b, g, h
<1>16. Len(g) = Len(a.cut) + 1 /\ g[Len(a.cut) + 1].from = a.from
  BY <1>1, <1>11, <1>15, WindowsAtAre
<1>17. Len(h) = Len(b.cut) + 1 /\ h[Len(b.cut) + 1].from = b.from
  BY <1>1, <1>14, <1>15, WindowsAtAre
<1>18. Len(g) < Len(h) \/ (Len(g) = Len(h) /\ h[Len(h)].from <= g[Len(g)].from)
  <2> DEFINE k == Len(a.cut)  l == Len(b.cut)
  <2>1. k \in Nat /\ l \in Nat /\ Len(g) = k + 1 /\ Len(h) = l + 1 /\ g[k + 1].from = a.from /\ h[l + 1].from = b.from
    BY <1>11, <1>14, <1>16, <1>17
  <2>2. k < l \/ (k = l /\ b.from <= a.from)
    BY <1>14 DEF Ahead
  <2> HIDE DEF k, l
  <2>3. CASE k < l
    <3>1. Len(g) < Len(h)
      BY <2>1, <2>3
    <3> QED BY <3>1
  <2>4. CASE k = l /\ b.from <= a.from
    BY <2>1, <2>4
  <2> QED BY <2>2, <2>3, <2>4
<1> QED BY <1>18 DEF g, h

\* The groups of a round, by what GroupedHolds says of them.
LEMMA GroupsAre ==
  ASSUME NEW s \in Seq(Nat), s # <<>>
  PROVE  LET g == Grouped(s)
         IN /\ g \in Seq(Interval) /\ Len(g) \in Nat \ {0} /\ DOMAIN g = 1..Len(g) /\ g[Len(g)].to = Len(s)
            /\ \A i \in 1..Len(g) : /\ g[i].from \in 1..g[i].to /\ g[i].to \in 1..Len(s)
                                    /\ MergeOf(s, g[i].from, g[i].to) <= MergeInput \/ g[i].to <= g[i].from + 1
            /\ \A i \in 1..(Len(g) - 1) : g[i].from < g[i].to
<1> DEFINE g == Grouped(s)  l == Len(g)  n == Len(s)
<1>1. GroupsUpTo(s, g, n)
  BY GroupedHolds
<1>2. n \in Nat
  OBVIOUS
<1> HIDE DEF g, n
<1>3. g \in Seq(Interval) /\ g # <<>> /\ g[Len(g)].to = n
  BY <1>1 DEF GroupsUpTo
<1>4. l \in Nat \ {0} /\ DOMAIN g = 1..l
  BY <1>3, LenProperties
<1>5. ASSUME NEW i \in 1..l
      PROVE  /\ g[i].from \in 1..g[i].to /\ g[i].to \in 1..n
             /\ MergeOf(s, g[i].from, g[i].to) <= MergeInput \/ g[i].to <= g[i].from + 1
  <2>1. g[i] \in Interval
    BY <1>3, ElementOfSeq
  <2>2. g[i].from \in Nat /\ g[i].to \in Nat
    BY <2>1 DEF Interval
  <2>3. /\ g[i].from \in 1..g[i].to /\ g[i].to <= n
        /\ MergeOf(s, g[i].from, g[i].to) <= MergeInput \/ g[i].to <= g[i].from + 1
    BY <1>1 DEF GroupsUpTo
  <2> DEFINE a == g[i].from  b == g[i].to
  <2>4. a \in Nat /\ b \in Nat /\ a \in 1..b /\ b <= n
    BY <2>2, <2>3
  <2> HIDE DEF a, b
  <2>5. b \in 1..n
    BY <1>2, <2>4
  <2> QED BY <2>3, <2>5 DEF a, b
<1>6. ASSUME NEW i \in 1..(l - 1) PROVE g[i].from < g[i].to
  <2>1. i + 1 \in 2..l /\ (i + 1) - 1 = i
    BY <1>4
  <2>2. \A j \in 2..l : g[j - 1].from < g[j - 1].to
    BY <1>1 DEF GroupsUpTo
  <2> QED BY <2>1, <2>2
<1> QED BY <1>3, <1>4, <1>5, <1>6 DEF g, n

\* Every group takes a call but a last one of one.
LEMMA RoundCallsAre ==
  ASSUME NEW s \in Seq(Nat), s # <<>>
  PROVE  LET g == Grouped(s) IN RoundCalls(s) = IF g[Len(g)].from < g[Len(g)].to THEN Len(g) ELSE Len(g) - 1
<1> DEFINE g == Grouped(s)  l == Len(g)  S == {i \in DOMAIN g : g[i].from < g[i].to}
<1>1. l \in Nat \ {0} /\ DOMAIN g = 1..l /\ \A i \in 1..(l - 1) : g[i].from < g[i].to
  BY GroupsAre
<1>2. RoundCalls(s) = Cardinality(S)
  BY DEF RoundCalls
<1> HIDE DEF g, l
<1>3. CASE g[l].from < g[l].to
  <2>1. ASSUME NEW i \in 1..l PROVE g[i].from < g[i].to
    <3>1. i = l \/ i \in 1..(l - 1)
      BY <1>1
    <3> QED BY <1>1, <1>3, <3>1
  <2>2. S = 1..l
    BY <1>1, <2>1
  <2>3. 1 \in Int /\ l \in Int /\ ~(1 > l) /\ l - 1 + 1 = l
    BY <1>1
  <2>4. Cardinality(1..l) = l
    BY <2>3, FS_Interval
  <2> QED BY <1>2, <1>3, <2>2, <2>4 DEF l, g
<1>4. CASE ~(g[l].from < g[l].to)
  <2>1. \A i \in 1..l : g[i].from < g[i].to <=> i \in 1..(l - 1)
    <3>1. \A i \in 1..l : i = l \/ i \in 1..(l - 1)
      BY <1>1
    <3>2. l \notin 1..(l - 1)
      BY <1>1
    <3> QED BY <1>1, <1>4, <3>1, <3>2
  <2>2. 1..(l - 1) \subseteq 1..l
    BY <1>1
  <2>3. S = 1..(l - 1)
    BY <1>1, <2>1, <2>2
  <2>4. 1 \in Int /\ l - 1 \in Int /\ ((l - 1) - 1 + 1 = l - 1) /\ (1 > l - 1 => l - 1 = 0)
    BY <1>1
  <2>5. Cardinality(1..(l - 1)) = l - 1
    BY <2>4, FS_Interval
  <2> QED BY <1>2, <1>4, <2>3, <2>5 DEF l, g
<1> QED BY <1>3, <1>4

\* What a round of merging leaves.
LEMMA MergedAre ==
  ASSUME NEW s \in Seq(0..MergeOutput), s # <<>>
  PROVE  LET g == Grouped(s)
         IN /\ Merged(s) \in Seq(0..MergeOutput) /\ Len(Merged(s)) = Len(g)
            /\ \A i \in 1..Len(g) : Merged(s)[i] = IF g[i].from < g[i].to THEN MergeOutput ELSE s[g[i].from]
<1> DEFINE g == Grouped(s)  l == Len(g)  A == 0..MergeOutput
<1>1. s \in Seq(Nat) /\ MergeOutput \in A
  <2>1. MergeOutput \in Nat /\ A \subseteq Nat
    BY CallsAssumption
  <2>2. s \in Seq(Nat)
    BY <2>1, SeqMonotonic
  <2> QED BY <2>1, <2>2
<1>2. /\ l \in Nat /\ DOMAIN g = 1..l
      /\ \A i \in 1..l : g[i].from \in 1..g[i].to /\ g[i].to \in 1..Len(s)
  BY <1>1, GroupsAre
<1>3. Merged(s) = [i \in DOMAIN g |-> IF g[i].from < g[i].to THEN MergeOutput ELSE s[g[i].from]]
  BY DEF Merged
<1> HIDE DEF g, l, A
<1>4. ASSUME NEW i \in 1..l PROVE (IF g[i].from < g[i].to THEN MergeOutput ELSE s[g[i].from]) \in A
  <2> DEFINE a == g[i].from  b == g[i].to  n == Len(s)
  <2>1. a \in 1..b /\ b \in 1..n /\ n \in Nat
    BY <1>1, <1>2
  <2> HIDE DEF a, b, n
  <2>2. a \in 1..n
    BY <2>1
  <2>3. s[a] \in A
    BY <2>2, ElementOfSeq DEF n, A
  <2> QED BY <1>1, <2>3 DEF a
<1> DEFINE w == Merged(s)
<1>5. w \in [1..l -> A]
  BY <1>2, <1>3, <1>4
<1>6. \A i \in 1..l : w[i] = IF g[i].from < g[i].to THEN MergeOutput ELSE s[g[i].from]
  BY <1>2, <1>3
<1> HIDE DEF w
<1>7. w \in Seq(A) /\ Len(w) = l
  <2>1. w \in Seq(A)
    BY <1>2, <1>5, SeqDef
  <2>2. DOMAIN w = 1..l /\ DOMAIN w = 1..Len(w) /\ Len(w) \in Nat
    BY <1>5, <2>1, LenProperties
  <2> QED BY <1>2, <2>1, <2>2
<1> QED BY <1>6, <1>7 DEF w, l, g, A

LEMMA TotalTwo ==
  ASSUME NEW s \in Seq(Nat), Len(s) = 2
  PROVE  Total(s) = s[1] + s[2]
<1>1. PICK f \in [0..Len(s) -> Nat] :
        f[0] = 0 /\ (\A i \in 1..Len(s) : f[i] = f[i - 1] + s[i]) /\ Total(s) = f[Len(s)]
  BY TotalRuns
<1>2. 1 \in 1..Len(s) /\ 2 \in 1..Len(s)
  OBVIOUS
<1>3. s[1] \in Nat /\ s[2] \in Nat
  BY <1>2, ElementOfSeq
<1>4. f[1] = f[0] + s[1] /\ f[2] = f[1] + s[2]
  BY <1>1, <1>2
<1> QED BY <1>1, <1>3, <1>4

\* What the round makes of a group of s is no larger than t's projected
\* summary in its place, and its merge is no larger than a merge may be.
Fits(s, t, group, i) ==
  \/ group.from = group.to /\ s[group.from] <= Merged(t)[i]
  \/ group.from < group.to /\ MergeOutput <= Merged(t)[i] /\ MergeOf(s, group.from, group.to) <= MergeInput

LEMMA RoundBelow ==
  ASSUME NEW s \in Seq(Nat), NEW t \in Seq(0..MergeOutput), Below(s, t), s # <<>>
  PROVE  /\ Len(Grouped(s)) <= Len(Merged(t)) /\ RoundCalls(s) <= RoundCalls(t)
         /\ \A i \in 1..Len(Grouped(s)) : Fits(s, t, Grouped(s)[i], i)
<1> DEFINE g == Grouped(s)  h == Grouped(t)  w == Merged(t)  k == Len(g)  l == Len(h)  n == Len(s)  m == Len(t)
<1>1. MergeOutput \in Nat /\ MergeInput \in Nat /\ Overhead \in Nat /\ Overhead + 2 * MergeOutput <= MergeInput
  BY CallsAssumption
<1>2. t \in Seq(Nat) /\ n \in Nat \ {0} /\ m \in Nat /\ n <= m /\ t # <<>>
  <2>1. 0..MergeOutput \subseteq Nat
    BY <1>1
  <2>2. t \in Seq(Nat)
    BY <2>1, SeqMonotonic
  <2> QED BY <2>2 DEF Below
<1>3. \A i \in 1..m : t[i] \in Nat /\ t[i] <= MergeOutput
  <2>1. ASSUME NEW i \in 1..m PROVE t[i] \in 0..MergeOutput
    BY ElementOfSeq
  <2> QED BY <1>1, <2>1
<1>4. \A i \in 1..n : s[i] \in Nat /\ s[i] <= t[i] /\ i \in 1..m
  <2>1. ASSUME NEW i \in 1..n PROVE s[i] \in Nat /\ s[i] <= t[i] /\ i \in 1..m
    BY <1>2, ElementOfSeq DEF Below
  <2> QED BY <2>1
<1>5. /\ g \in Seq(Interval) /\ k \in Nat \ {0} /\ g[k].to = n
      /\ \A i \in 1..k : /\ g[i].from \in 1..g[i].to /\ g[i].to \in 1..n
                         /\ MergeOf(s, g[i].from, g[i].to) <= MergeInput \/ g[i].to <= g[i].from + 1
      /\ \A i \in 1..(k - 1) : g[i].from < g[i].to
  BY GroupsAre
<1>6. /\ h \in Seq(Interval) /\ l \in Nat \ {0} /\ h[l].to = m
      /\ \A i \in 1..l : h[i].from \in 1..h[i].to /\ h[i].to \in 1..m
      /\ \A i \in 1..(l - 1) : h[i].from < h[i].to
  BY <1>2, GroupsAre
<1>7. Len(w) = l /\ \A i \in 1..l : w[i] = IF h[i].from < h[i].to THEN MergeOutput ELSE t[h[i].from]
  BY <1>2, MergedAre
<1>8. k < l \/ (k = l /\ h[l].from <= g[k].from)
  BY <1>2, GroupedAhead
<1>9. RoundCalls(s) = IF g[k].from < g[k].to THEN k ELSE k - 1
  BY RoundCallsAre
<1>10. RoundCalls(t) = IF h[l].from < h[l].to THEN l ELSE l - 1
  BY <1>2, RoundCallsAre
<1>11. n = Len(s) /\ m = Len(t)
  OBVIOUS
<1> HIDE DEF g, h, w, k, l, n, m
\* Where the last of the larger is alone, the last of the smaller is, in the
\* same place.
<1>12. ASSUME k = l, ~(h[l].from < h[l].to) PROVE ~(g[k].from < g[k].to) /\ g[k].from = n /\ n = m /\ h[l].from = m
  <2> DEFINE a == g[k].from  b == h[l].from
  <2>1. k \in 1..k /\ l \in 1..l
    BY <1>5, <1>6
  <2>2. a \in 1..n /\ b \in 1..m /\ ~(b < m) /\ b <= a
    BY <1>5, <1>6, <1>8, <1>12, <2>1
  <2> HIDE DEF a, b
  <2>3. b = m /\ a = n /\ n = m
    BY <1>2, <2>2
  <2> QED BY <1>5, <2>3 DEF a, b
<1>13. RoundCalls(s) <= RoundCalls(t)
  <2> DEFINE p == RoundCalls(s)  q == RoundCalls(t)
  <2>1. p \in {k, k - 1} /\ q \in {l, l - 1} /\ k \in Nat /\ l \in Nat
    BY <1>5, <1>6, <1>9, <1>10
  <2>2. CASE k < l
    <3> HIDE DEF p, q
    <3>1. p <= q
      BY <2>1, <2>2
    <3> QED BY <3>1 DEF p, q
  <2>3. CASE k = l
    <3>1. q = l - 1 => p = k - 1
      BY <1>6, <1>9, <1>10, <1>12, <2>3
    <3> HIDE DEF p, q
    <3>2. p <= q
      BY <2>1, <2>3, <3>1
    <3> QED BY <3>2 DEF p, q
  <2> QED BY <1>8, <2>2, <2>3
<1>14. ASSUME NEW i \in 1..k PROVE Fits(s, t, g[i], i)
  <2> DEFINE a == g[i].from  b == g[i].to
  <2>1. a \in 1..b /\ b \in 1..n /\ (MergeOf(s, a, b) <= MergeInput \/ b <= a + 1)
    BY <1>5
  <2>2. i \in 1..l /\ (i < l \/ (i = l /\ i = k))
    BY <1>5, <1>6, <1>8
  <2>3. w[i] = MergeOutput \/ (i = l /\ i = k /\ w[i] = t[h[l].from] /\ ~(h[l].from < h[l].to))
    <3>1. i < l => i \in 1..(l - 1)
      BY <1>6, <2>2
    <3> QED BY <1>6, <1>7, <2>2, <3>1
  <2>4. a \in 1..n /\ s[a] \in Nat /\ s[a] <= t[a] /\ t[a] \in Nat /\ t[a] <= MergeOutput /\ a \in 1..m
    <3> HIDE DEF a, b
    <3>1. a \in 1..n
      BY <1>2, <2>1
    <3>2. a \in 1..m
      BY <1>4, <3>1
    <3> QED BY <1>3, <1>4, <3>1, <3>2
  <2>5. CASE a = b
    <3>1. CASE w[i] = MergeOutput
      <4> DEFINE x == s[a]  y == t[a]
      <4>1. x \in Nat /\ y \in Nat /\ x <= y /\ y <= MergeOutput
        BY <2>4
      <4> HIDE DEF x, y
      <4>2. x <= MergeOutput
        BY <1>1, <4>1
      <4> QED BY <2>5, <3>1, <4>2 DEF Fits, x, w
    <3>2. CASE i = l /\ i = k /\ w[i] = t[h[l].from] /\ ~(h[l].from < h[l].to)
      <4>1. a = n /\ h[l].from = n
        BY <1>12, <3>2
      <4>2. w[i] = t[a]
        BY <3>2, <4>1
      <4> QED BY <2>4, <2>5, <4>2 DEF Fits, w
    <3> QED BY <2>3, <3>1, <3>2
  <2>6. CASE a # b
    <3>1. a < b
      <4> HIDE DEF a, b
      <4> QED BY <1>2, <2>1, <2>6
    <3>2. w[i] = MergeOutput
      <4>1. ~(i = l /\ i = k /\ ~(h[l].from < h[l].to))
        BY <1>12, <3>1
      <4> QED BY <2>3, <4>1
    <3>3. MergeOf(s, a, b) <= MergeInput
      <4>1. CASE b <= a + 1
        <5> HIDE DEF a, b
        <5>1. b = a + 1 /\ a \in 1..n /\ b \in 0..n /\ a <= b /\ b \in 1..n /\ b - a + 1 = 2
          BY <1>2, <2>1, <3>1, <4>1
        <5> DEFINE u == SubSeq(s, a, b)
        <5>2. u \in Seq(Nat) /\ Len(u) = 2 /\ \A j \in 1..2 : u[j] = s[a + j - 1]
          BY <1>11, <5>1, PartTyped
        <5> HIDE DEF u
        <5>3. Total(u) = u[1] + u[2]
          BY <5>2, TotalTwo
        <5>4. u[1] = s[a] /\ u[2] = s[b]
          <6>1. 1 \in 1..2 /\ 2 \in 1..2 /\ a + 1 - 1 = a /\ a + 2 - 1 = b
            BY <1>2, <5>1
          <6> QED BY <5>2, <6>1
        <5> DEFINE x == s[a]  y == s[b]
        <5>5. x \in Nat /\ y \in Nat /\ x <= MergeOutput /\ y <= MergeOutput
          <6>1. ASSUME NEW j \in 1..n PROVE s[j] \in Nat /\ s[j] <= MergeOutput
            <7> DEFINE p == s[j]  q == t[j]
            <7>1. p \in Nat /\ q \in Nat /\ p <= q /\ q <= MergeOutput
              BY <1>3, <1>4
            <7> HIDE DEF p, q
            <7>2. p \in Nat /\ p <= MergeOutput
              BY <1>1, <7>1
            <7> QED BY <7>2 DEF p
          <6> QED BY <5>1, <6>1
        <5>6. Total(u) = x + y
          BY <5>3, <5>4
        <5> HIDE DEF x, y
        <5>7. Overhead + Total(u) <= MergeInput
          BY <1>1, <5>5, <5>6
        <5> QED BY <5>7 DEF MergeOf, u
      <4> QED BY <2>1, <4>1
    <3>4. MergeOutput <= w[i]
      BY <1>1, <3>2
    <3> QED BY <3>1, <3>3, <3>4 DEF Fits, w
  <2> QED BY <2>5, <2>6
<1>15. k <= Len(w)
  BY <1>5, <1>6, <1>7, <1>8
<1> QED BY <1>13, <1>14, <1>15 DEF g, w, k

\* What the projection has after a round.
Tally == [sizes : {s \in Seq(0..MergeOutput) : s # <<>>}, calls : Nat]

LEMMA NextRoundTyped ==
  ASSUME NEW last \in Tally
  PROVE  /\ NextRound(last) \in Tally /\ last.calls <= NextRound(last).calls
         /\ Len(last.sizes) > 1 => Len(NextRound(last).sizes) < Len(last.sizes)
<1> DEFINE s == last.sizes  c == last.calls
<1>1. s \in Seq(0..MergeOutput) /\ s # <<>> /\ c \in Nat /\ Len(s) \in Nat
  BY DEF Tally
<1>2. CASE Len(s) <= 1
  <2>1. NextRound(last) = last
    BY <1>2 DEF NextRound
  <2> QED BY <1>1, <1>2, <2>1
<1>3. CASE ~(Len(s) <= 1)
  <2> DEFINE w == Merged(s)  d == RoundCalls(s)  g == Grouped(s)
  <2>1. NextRound(last) = [sizes |-> w, calls |-> c + d]
    BY <1>3 DEF NextRound
  <2> HIDE DEF s, c
  <2>2. s \in Seq(Nat)
    <3>1. 0..MergeOutput \subseteq Nat
      BY CallsAssumption
    <3> QED BY <1>1, <3>1, SeqMonotonic
  <2>3. w \in Seq(0..MergeOutput) /\ Len(w) = Len(g)
    BY <1>1, MergedAre
  <2>4. Len(g) \in Nat \ {0} /\ Len(g) < Len(s)
    <3>1. GroupsUpTo(s, g, Len(s))
      BY <1>1, <2>2, GroupedHolds
    <3>2. Len(s) > 1
      BY <1>1, <1>3
    <3> HIDE DEF g
    <3>3. Len(g) < Len(s)
      BY <1>1, <3>1, <3>2, GroupsAreFewer
    <3> QED BY <1>1, <2>2, <3>3, GroupsAre DEF g
  <2>5. d \in Nat
    <3>1. d = IF g[Len(g)].from < g[Len(g)].to THEN Len(g) ELSE Len(g) - 1
      BY <1>1, <2>2, RoundCallsAre
    <3> HIDE DEF g, d
    <3> QED BY <2>4, <3>1
  <2> HIDE DEF w, d, g
  <2>6. w # <<>>
    BY <2>3, <2>4
  <2>7. NextRound(last) \in Tally
    BY <1>1, <2>1, <2>3, <2>5, <2>6 DEF Tally
  <2>8. NextRound(last).calls = c + d /\ NextRound(last).sizes = w /\ c <= c + d
    BY <1>1, <2>1, <2>5
  <2> QED BY <2>3, <2>4, <2>7, <2>8 DEF s, c
<1> QED BY <1>2, <1>3

LEMMA RoundsAre ==
  ASSUME NEW count \in Nat \ {0}, NEW size \in 0..MergeOutput
  PROVE  LET f == Rounds(count, size)
         IN /\ f[0] = [sizes |-> [i \in 1..count |-> size], calls |-> 0]
            /\ \A k \in 0..count : f[k] \in Tally
            /\ \A k \in 1..count : f[k] = NextRound(f[k - 1])
            /\ \A k \in 0..count : Len(f[k].sizes) + k <= count \/ Len(f[k].sizes) <= 1
            /\ \A k \in 0..count : f[k].calls <= f[count].calls
<1> DEFINE first == [i \in 1..count |-> size]
           base == [sizes |-> first, calls |-> 0]
           step == [p \in Tally \X (1..count) |-> NextRound(p[1])]
           Runs(f) == f = [k \in 0..count |-> IF k = 0 THEN base ELSE NextRound(f[k - 1])]
           f == CHOOSE f : Runs(f)
<1>1. first \in Seq(0..MergeOutput) /\ Len(first) = count /\ first # <<>>
  <2>1. first \in [1..count -> 0..MergeOutput]
    OBVIOUS
  <2>2. first \in Seq(0..MergeOutput)
    BY <2>1, SeqDef
  <2>3. Len(first) = count
    BY <2>1
  <2> HIDE DEF first
  <2> QED BY <2>2, <2>3
<1>2. base \in Tally
  <2> HIDE DEF first
  <2> QED BY <1>1 DEF Tally
<1>3. step \in [Tally \X (1..count) -> Tally]
  BY NextRoundTyped
<1>4. \E g : Runs(g)
  <2> HIDE DEF step, base
  <2>1. PICK g \in [0..count -> Tally] : Proceeds(g, base, step, count)
    BY <1>2, <1>3, StepsExist
  <2>2. ASSUME NEW k \in 1..count PROVE g[k] = NextRound(g[k - 1])
    <3>1. g[k - 1] \in Tally
      OBVIOUS
    <3>2. g[k] = step[<<g[k - 1], k>>]
      BY <2>1 DEF Proceeds
    <3> QED BY <3>1, <3>2 DEF step
  <2>3. Runs(g)
    BY <2>1, <2>2 DEF Proceeds
  <2> QED BY <2>3
<1>5. Runs(f)
  BY <1>4
<1>6. Rounds(count, size) = f
  BY DEF Rounds, f, base, first
<1> HIDE DEF f, base
<1>7. f[0] = base /\ \A k \in 1..count : f[k] = NextRound(f[k - 1])
  BY <1>5
<1>8. \A k \in 0..count : f[k] \in Tally
  <2>1. \A k \in 1..count : f[k - 1] \in Tally => f[k] = step[<<f[k - 1], k>>]
    BY <1>7
  <2>2. f[0] = base
    BY <1>7
  <2> HIDE DEF step, base, f
  <2>3. count \in Nat
    OBVIOUS
  <2> QED BY <1>2, <1>3, <2>1, <2>2, <2>3, StepsTyped
<1> DEFINE T == {k \in 0..count : Len(f[k].sizes) + k <= count \/ Len(f[k].sizes) <= 1}
<1>9. 0 \in T
  <2>1. Len(f[0].sizes) = count
    BY <1>1, <1>7 DEF base
  <2>2. Len(f[0].sizes) + 0 <= count
    BY <2>1
  <2> QED BY <2>2
<1>10. ASSUME NEW k \in 0..(count - 1) PROVE f[k] \in Tally /\ f[k + 1] = NextRound(f[k]) /\ f[k + 1] \in Tally
  <2>1. k + 1 \in 1..count /\ (k + 1) - 1 = k /\ k \in 0..count /\ k + 1 \in 0..count
    OBVIOUS
  <2> QED BY <1>7, <1>8, <2>1
<1>11. \A x \in Tally : Len(x.sizes) \in Nat /\ x.calls \in Nat
  BY DEF Tally
<1>12. ASSUME NEW k \in 0..(count - 1), k \in T PROVE k + 1 \in T
  <2> DEFINE a == Len(f[k].sizes)  b == Len(f[k + 1].sizes)
  <2>1. a \in Nat /\ b \in Nat
    BY <1>10, <1>11
  <2>2. a > 1 => b < a
    BY <1>10, NextRoundTyped
  <2>3. a <= 1 => b = a
    BY <1>10 DEF NextRound
  <2>4. a + k <= count \/ a <= 1
    BY <1>12
  <2> HIDE DEF a, b
  <2>5. b + (k + 1) <= count \/ b <= 1
    BY <2>1, <2>2, <2>3, <2>4
  <2>6. k + 1 \in 0..count
    OBVIOUS
  <2> QED BY <2>5, <2>6 DEF b
<1>13. 0..count \subseteq T
  <2> HIDE DEF T
  <2>1. 0 \in Int /\ count \in Int
    OBVIOUS
  <2> QED BY <1>9, <1>12, <2>1, IntervalInductive
<1>14. ASSUME NEW k \in 0..count PROVE f[k].calls <= f[count].calls
  <2> DEFINE U == {j \in k..count : f[k].calls <= f[j].calls}
  <2>1. f[k].calls \in Nat
    BY <1>8, <1>11
  <2>2. k \in U
    BY <2>1
  <2>3. ASSUME NEW j \in k..(count - 1), j \in U PROVE j + 1 \in U
    <3>1. j \in 0..(count - 1) /\ j + 1 \in k..count
      OBVIOUS
    <3> DEFINE a == f[k].calls  b == f[j].calls  c == f[j + 1].calls
    <3>2. b <= c /\ b \in Nat /\ c \in Nat
      BY <1>10, <1>11, <3>1, NextRoundTyped
    <3>3. a <= b
      BY <2>3
    <3> HIDE DEF a, b, c
    <3>4. a \in Nat
      BY <2>1 DEF a
    <3>5. a <= c
      BY <3>2, <3>3, <3>4
    <3> QED BY <3>1, <3>5 DEF a, c
  <2>4. count \in U
    <3> HIDE DEF U
    <3>1. k \in Int /\ count \in Int
      OBVIOUS
    <3>2. k..count \subseteq U
      BY <2>2, <2>3, <3>1, IntervalInductive
    <3> QED BY <3>2
  <2> QED BY <2>4
<1> HIDE DEF T
<1>15. \A k \in 0..count : Len(f[k].sizes) + k <= count \/ Len(f[k].sizes) <= 1
  BY <1>13 DEF T
<1>16. f[0] = [sizes |-> [i \in 1..count |-> size], calls |-> 0]
  BY <1>7 DEF base
<1> QED BY <1>6, <1>7, <1>8, <1>14, <1>15, <1>16

\* The queue's groups that take a call: all of them but a last one of one.
Due(q) == IF q = <<>> THEN 0 ELSE IF Len(q[Len(q)].group) > 1 THEN Len(q) ELSE Len(q) - 1

\* What an item comes to is no larger than size, and its call is affordable.
Promised(item, size) ==
  \/ Len(item.group) = 1 /\ item.group[1].size <= size
  \/ Len(item.group) > 1 /\ MergeOutput <= size /\ Overhead + SizesOf(item.group) <= MergeInput

\* The answers of a round, and the ones that wait, fit the projected sizes.
Awaited(ps, q, sizes) ==
  /\ Len(ps) + Len(q) <= Len(sizes)
  /\ \A i \in 1..Len(ps) : ps[i].size <= sizes[i]
  /\ \A g \in 1..Len(q) : Promised(q[g], sizes[Len(ps) + g])
  /\ \A g \in 1..(Len(q) - 1) : Len(q[g].group) > 1

LEMMA AnsweredFits ==
  ASSUME NEW ps \in Seq(Summary), NEW q \in Seq(Item), q # <<>>, NEW sizes \in Seq(Nat), Awaited(ps, q, sizes),
         NEW x \in Summary, x.size <= sizes[Len(ps) + 1]
  PROVE  /\ Awaited(Append(ps, x), Tail(q), sizes) /\ Due(Tail(q)) \in Nat
         /\ Due(q) = IF Len(q[1].group) > 1 THEN Due(Tail(q)) + 1 ELSE Due(Tail(q))
<1> DEFINE m == Len(ps)  l == Len(q)  as == Append(ps, x)  t == Tail(q)
<1>1. m \in Nat /\ l \in Nat \ {0} /\ Len(sizes) \in Nat
  OBVIOUS
<1>2. as \in Seq(Summary) /\ Len(as) = m + 1 /\ (\A i \in 1..m : as[i] = ps[i]) /\ as[m + 1] = x
  BY AppendProperties
<1>3. t \in Seq(Item) /\ Len(t) = l - 1 /\ \A i \in 1..(l - 1) : t[i] = q[i + 1]
  BY HeadTailProperties
<1>4. /\ m + l <= Len(sizes) /\ \A i \in 1..m : ps[i].size <= sizes[i]
      /\ \A g \in 1..l : Promised(q[g], sizes[m + g])
      /\ \A g \in 1..(l - 1) : Len(q[g].group) > 1
  BY DEF Awaited
<1>5. x.size <= sizes[m + 1]
  OBVIOUS
<1>6. Due(q) = IF Len(q[l].group) > 1 THEN l ELSE l - 1
  BY DEF Due
<1> HIDE DEF m, l, as, t
<1>7. ASSUME NEW i \in 1..(m + 1) PROVE as[i].size <= sizes[i]
  <2>1. i \in 1..m \/ i = m + 1
    BY <1>1
  <2> QED BY <1>2, <1>4, <1>5, <2>1
<1>8. ASSUME NEW g \in 1..(l - 1) PROVE Promised(t[g], sizes[(m + 1) + g])
  <2>1. g + 1 \in 1..l /\ m + (g + 1) = (m + 1) + g
    BY <1>1
  <2>2. Promised(q[g + 1], sizes[m + (g + 1)])
    BY <1>4, <2>1
  <2> QED BY <1>3, <2>1, <2>2
<1>9. ASSUME NEW g \in 1..((l - 1) - 1) PROVE Len(t[g].group) > 1
  <2>1. g + 1 \in 1..(l - 1) /\ g \in 1..(l - 1)
    BY <1>1
  <2> QED BY <1>3, <1>4, <2>1
<1>10. (m + 1) + (l - 1) <= Len(sizes)
  BY <1>1, <1>4
<1>11. Awaited(as, t, sizes)
  BY <1>2, <1>3, <1>7, <1>8, <1>9, <1>10 DEF Awaited
<1>12. CASE l = 1
  <2>1. t = <<>>
    BY <1>3, <1>12
  <2>2. Due(t) = 0
    BY <2>1 DEF Due
  <2> QED BY <1>6, <1>11, <1>12, <2>2 DEF as, t
<1>13. CASE l # 1
  <2>1. l - 1 \in 1..(l - 1) /\ 1 \in 1..(l - 1) /\ (l - 1) + 1 = l /\ l - 1 \in Nat /\ (l - 1) - 1 \in Nat
    BY <1>1, <1>13
  <2>2. t # <<>> /\ t[l - 1] = q[l] /\ Len(q[1].group) > 1
    <3>1. t[l - 1] = q[l] /\ Len(q[1].group) > 1
      BY <1>3, <1>4, <2>1
    <3>2. Len(t) # 0
      BY <1>3, <2>1
    <3>3. t # <<>>
      BY <3>2
    <3> QED BY <3>1, <3>3
  <2>3. Due(t) = IF Len(q[l].group) > 1 THEN l - 1 ELSE (l - 1) - 1
    BY <1>3, <2>2 DEF Due
  <2>4. Due(t) \in Nat
    BY <2>1, <2>3
  <2>5. Due(q) = Due(t) + 1
    BY <1>1, <1>6, <2>3
  <2> QED BY <1>11, <2>2, <2>4, <2>5 DEF as, t
<1> QED BY <1>12, <1>13

\* The groups of a round of actual summaries fit a round of projected ones.
LEMMA RoundFits ==
  ASSUME NEW ps \in Seq(Summary), ps # <<>>, NEW t \in Seq(0..MergeOutput), Awaited(ps, <<>>, t)
  PROVE  /\ Awaited(<<>>, Regrouped(ps), Merged(t))
         /\ Due(Regrouped(ps)) \in Nat /\ Due(Regrouped(ps)) <= RoundCalls(t)
<1> DEFINE m == Len(ps)
           sizes == [i \in DOMAIN ps |-> ps[i].size]
           g == Grouped(sizes)
           l == Len(g)
           q == Regrouped(ps)
           w == Merged(t)
<1>1. m \in Nat \ {0} /\ DOMAIN ps = 1..m
  OBVIOUS
<1>2. sizes \in Seq(Nat) /\ Len(sizes) = m /\ sizes # <<>> /\ \A i \in 1..m : sizes[i] = ps[i].size
  <2>1. ASSUME NEW i \in 1..m PROVE ps[i].size \in Nat
    <3>1. ps[i] \in Summary
      BY ElementOfSeq
    <3> QED BY <3>1 DEF Summary
  <2>2. sizes \in [1..m -> Nat]
    BY <1>1, <2>1
  <2>3. Len(sizes) = m /\ \A i \in 1..m : sizes[i] = ps[i].size
    BY <1>1, <2>2
  <2> HIDE DEF sizes
  <2> QED BY <1>1, <2>2, <2>3
<1>3. Below(sizes, t)
  <2>1. m + Len(<<>>) <= Len(t) /\ \A i \in 1..m : ps[i].size <= t[i]
    BY DEF Awaited
  <2>2. m <= Len(t)
    BY <1>1, <2>1
  <2> HIDE DEF sizes, m
  <2> QED BY <1>2, <2>1, <2>2 DEF Below
<1>4. q = [i \in DOMAIN g |-> [group |-> SubSeq(ps, g[i].from, g[i].to), split |-> TRUE]]
  BY DEF Regrouped
<1>5. m = Len(ps)
  OBVIOUS
<1> HIDE DEF m, sizes, q, w
<1>6. /\ l \in Nat \ {0} /\ DOMAIN g = 1..l
      /\ \A i \in 1..l : g[i].from \in 1..g[i].to /\ g[i].to \in 1..m
      /\ \A i \in 1..(l - 1) : g[i].from < g[i].to
  BY <1>2, GroupsAre
<1>7. l <= Len(w) /\ RoundCalls(sizes) <= RoundCalls(t) /\ \A i \in 1..l : Fits(sizes, t, g[i], i)
  BY <1>2, <1>3, RoundBelow DEF w
<1>8. RoundCalls(sizes) = IF g[l].from < g[l].to THEN l ELSE l - 1
  BY <1>2, RoundCallsAre
<1> HIDE DEF g, l
<1>9. ASSUME NEW i \in 1..l
      PROVE  /\ Len(q[i].group) = g[i].to - g[i].from + 1
             /\ Promised(q[i], w[i]) /\ (Len(q[i].group) > 1 <=> g[i].from < g[i].to)
  <2> DEFINE a == g[i].from  b == g[i].to  u == SubSeq(ps, a, b)  r == [j \in DOMAIN u |-> u[j].size]
  <2>1. a \in 1..b /\ b \in 1..m
    BY <1>6
  <2>2. q[i] = [group |-> u, split |-> TRUE]
    BY <1>4, <1>6
  <2>3. Fits(sizes, t, g[i], i)
    BY <1>7
  <2>4. \/ a = b /\ sizes[a] <= w[i]
        \/ a < b /\ MergeOutput <= w[i] /\ MergeOf(sizes, a, b) <= MergeInput
    BY <2>3 DEF Fits, w
  <2> HIDE DEF a, b
  <2>5. a \in 1..m /\ b \in 0..m /\ a <= b /\ a \in Nat /\ b \in Nat
    BY <1>1, <2>1
  <2>6. u \in Seq(Summary) /\ Len(u) = b - a + 1 /\ \A j \in 1..(b - a + 1) : u[j] = ps[a + j - 1]
    BY <1>5, <2>5, PartTyped
  <2>7. q[i].group = u
    <3> HIDE DEF u
    <3> QED BY <2>2
  <2> HIDE DEF u
  <2>8. r = SubSeq(sizes, a, b)
    <3> DEFINE v == SubSeq(sizes, a, b)
    <3>1. v \in Seq(Nat) /\ Len(v) = b - a + 1 /\ \A j \in 1..(b - a + 1) : v[j] = sizes[a + j - 1]
      BY <1>2, <2>5, PartTyped
    <3>2. DOMAIN u = 1..(b - a + 1)
      BY <2>6, LenProperties
    <3> HIDE DEF v
    <3>3. DOMAIN v = 1..(b - a + 1) /\ v = [j \in DOMAIN v |-> v[j]]
      BY <3>1, LenProperties
    <3>4. ASSUME NEW j \in 1..(b - a + 1) PROVE u[j].size = v[j]
      <4>1. a + j - 1 \in 1..m
        BY <1>1, <2>1, <2>5
      <4> QED BY <1>2, <2>6, <3>1, <4>1
    <3>5. r = v
      BY <3>2, <3>3, <3>4
    <3> QED BY <3>5 DEF v
  <2>9. SizesOf(u) = Total(SubSeq(sizes, a, b))
    BY <2>8 DEF SizesOf
  <2> HIDE DEF r
  <2>10. CASE a = b /\ sizes[a] <= w[i]
    <3>1. Len(u) = 1 /\ u[1] = ps[a]
      <4>1. b - a + 1 = 1 /\ 1 \in 1..(b - a + 1) /\ a + 1 - 1 = a
        BY <2>5, <2>10
      <4> QED BY <2>6, <4>1
    <3>2. u[1].size <= w[i]
      BY <1>2, <2>5, <2>10, <3>1
    <3>3. Promised(q[i], w[i])
      BY <2>7, <3>1, <3>2 DEF Promised
    <3>4. Len(q[i].group) = b - a + 1 /\ (Len(q[i].group) > 1 <=> a < b)
      <4>1. b - a + 1 = 1 /\ ~(a < b) /\ ~(1 > 1)
        BY <2>5, <2>10
      <4>2. Len(q[i].group) = 1
        BY <2>7, <3>1
      <4> QED BY <4>1, <4>2
    <3> QED BY <3>3, <3>4 DEF a, b
  <2>11. CASE a < b /\ MergeOutput <= w[i] /\ MergeOf(sizes, a, b) <= MergeInput
    <3>1. Len(u) > 1
      BY <2>5, <2>6, <2>11
    <3>2. Overhead + SizesOf(u) <= MergeInput
      BY <2>9, <2>11 DEF MergeOf
    <3>3. Promised(q[i], w[i])
      BY <2>7, <2>11, <3>1, <3>2 DEF Promised
    <3> QED BY <2>6, <2>7, <2>11, <3>1, <3>3 DEF a, b
  <2> QED BY <2>4, <2>10, <2>11
<1>10. DOMAIN q = 1..l /\ Len(q) = l /\ q # <<>>
  <2> DEFINE V == {[group |-> SubSeq(ps, g[i].from, g[i].to), split |-> TRUE] : i \in 1..l}
  <2>1. q \in [1..l -> V]
    BY <1>4, <1>6
  <2> HIDE DEF V
  <2>2. q \in Seq(V) /\ Len(q) = l
    BY <1>6, <2>1
  <2> QED BY <1>6, <2>1, <2>2
<1>11. Due(q) = IF g[l].from < g[l].to THEN l ELSE l - 1
  <2>1. l \in 1..l
    BY <1>6
  <2> QED BY <1>9, <1>10, <2>1 DEF Due
<1>12. Due(q) \in Nat /\ Due(q) <= RoundCalls(t)
  BY <1>6, <1>7, <1>8, <1>11
<1>13. Len(<<>>) = 0 /\ \A i \in 1..l : 0 + i = i
  BY <1>6
<1>14. \A i \in 1..(l - 1) : i \in 1..l
  BY <1>6
<1>15. Awaited(<<>>, q, w)
  <2>1. 0 + l <= Len(w)
    BY <1>6, <1>7
  <2>2. \A i \in 1..l : Promised(q[i], w[0 + i])
    BY <1>9, <1>13
  <2>3. \A i \in 1..(l - 1) : Len(q[i].group) > 1
    BY <1>6, <1>9, <1>14
  <2> QED BY <1>10, <1>13, <2>1, <2>2, <2>3 DEF Awaited
<1> QED BY <1>12, <1>15 DEF q, w

-----------------------------------------------------------------------------
(* What the calls so far cost.                                              *)

LEMMA TimesTyped ==
  ASSUME NEW a \in Nat, NEW b \in Nat
  PROVE  a * b \in Nat
OBVIOUS

LEMMA TimesNext ==
  ASSUME NEW a \in Nat, NEW b \in Nat
  PROVE  (a + 1) * b = a * b + b
OBVIOUS

LEMMA TimesSum ==
  ASSUME NEW a \in Nat, NEW b \in Nat, NEW c \in Nat
  PROVE  a * (b + c) = a * b + a * c
OBVIOUS

LEMMA TimesMore ==
  ASSUME NEW a \in Nat, NEW b \in Nat, NEW c \in Nat, a <= b
  PROVE  a * c <= b * c
OBVIOUS

\* The largest window's text is no smaller than another's.
LEMMA LargestIs ==
  ASSUME NEW s \in Seq(Nat), NEW w, HoldUpTo(s, w, Len(s))
  PROVE  /\ LargestText(s, w) \in Nat
         /\ \A i \in 1..Len(w) : Joined(s, w[i].from, w[i].to) <= LargestText(s, w)
<1> DEFINE n == Len(w)
           text == [i \in 1..n |-> Joined(s, w[i].from, w[i].to)]
           texts == {Joined(s, w[i].from, w[i].to) : i \in DOMAIN w}
           S == {r \in 1..n : \E k \in 1..r : \A i \in 1..r : text[i] <= text[k]}
<1>1. n \in Nat \ {0} /\ DOMAIN w = 1..n
  <2> HIDE DEF Interval
  <2>1. w \in Seq(Interval) /\ w # <<>>
    BY DEF HoldUpTo
  <2> QED BY <2>1
<1>2. ASSUME NEW i \in 1..n PROVE Joined(s, w[i].from, w[i].to) \in Nat
  <2>1. w[i].from \in 1..w[i].to /\ w[i].to <= Len(s)
    BY DEF HoldUpTo
  <2>2. w[i] \in Interval
    BY <1>1, ElementOfSeq DEF HoldUpTo
  <2> DEFINE a == w[i].from  b == w[i].to
  <2>3. a \in Nat /\ b \in Nat
    BY <2>2 DEF Interval
  <2> HIDE DEF a, b
  <2>4. a \in 1..b /\ b <= Len(s)
    BY <2>1 DEF a, b
  <2>5. a \in 1..(Len(s) + 1) /\ b \in 0..Len(s)
    BY <2>3, <2>4
  <2>6. Joined(s, a, b) \in Nat
    BY <2>5, JoinedTyped
  <2> QED BY <2>6 DEF a, b
<1>3. text \in [1..n -> Nat] /\ texts = {text[i] : i \in 1..n}
  BY <1>1, <1>2
<1>4. LargestText(s, w) = CHOOSE x \in texts : \A y \in texts : y <= x
  BY DEF LargestText
<1> HIDE DEF n, text
<1>5. 1 \in S
  <2>1. 1 \in 1..n /\ text[1] \in Nat /\ \A i \in 1..1 : i = 1
    BY <1>1, <1>3
  <2> QED BY <2>1
<1>6. ASSUME NEW r \in 1..(n - 1), r \in S PROVE r + 1 \in S
  <2>1. PICK k \in 1..r : \A i \in 1..r : text[i] <= text[k]
    BY <1>6
  <2> DEFINE a == text[k]  b == text[r + 1]
  <2>2. /\ r + 1 \in 1..n /\ k \in 1..(r + 1) /\ r + 1 \in 1..(r + 1)
        /\ \A i \in 1..(r + 1) : i \in 1..r \/ i = r + 1
    BY <1>1
  <2>3. a \in Nat /\ b \in Nat /\ \A i \in 1..r : text[i] \in Nat
    <3>1. k \in 1..n /\ \A i \in 1..r : i \in 1..n
      BY <1>1
    <3> QED BY <1>3, <2>2, <3>1
  <2>4. \A i \in 1..r : text[i] <= a
    BY <2>1
  <2> HIDE DEF a, b
  <2>5. CASE b <= a
    <3>1. \A i \in 1..(r + 1) : text[i] <= a
      BY <2>2, <2>4, <2>5 DEF b
    <3> QED BY <2>2, <3>1 DEF a
  <2>6. CASE a <= b
    <3>1. \A i \in 1..r : text[i] <= b
      BY <2>3, <2>4, <2>6
    <3>2. b <= b
      BY <2>3
    <3>3. \A i \in 1..(r + 1) : text[i] <= b
      BY <2>2, <3>1, <3>2 DEF b
    <3> QED BY <2>2, <3>3 DEF b
  <2> QED BY <2>3, <2>5, <2>6
<1> HIDE DEF S
<1>7. n \in S
  <2>1. 1 \in Int /\ n \in Int
    BY <1>1
  <2>2. \A r \in 1..(n - 1) : r \in S => r + 1 \in S
    BY <1>6
  <2>3. 1..n \subseteq S
    BY <1>5, <2>1, <2>2, IntervalInductive
  <2> QED BY <1>1, <2>3
<1>8. PICK k \in 1..n : \A i \in 1..n : text[i] <= text[k]
  BY <1>7 DEF S
<1> HIDE DEF texts
<1>9. \E x \in texts : \A y \in texts : y <= x
  BY <1>3, <1>8
<1>10. LargestText(s, w) \in texts /\ \A y \in texts : y <= LargestText(s, w)
  BY <1>4, <1>9
<1>11. \A i \in 1..n : Joined(s, w[i].from, w[i].to) \in texts
  BY <1>1 DEF texts
<1> QED BY <1>3, <1>10, <1>11 DEF n

\* What a window and its summary come to, and a merge, at the most.
PerWindow(s, w) == Around + Price(LargestText(s, w), WindowOutput)
Rate == Price(MergeInput, MergeOutput)

LEMMA RateTyped == Rate \in Nat
<1>1. MergeInput \in Nat /\ MergeOutput \in Nat
  BY CallsAssumption
<1>2. Rate = MergeInput + MergeOutput
  BY DEF Rate, Price
<1> QED BY <1>1, <1>2

\* The projection leaves out what is around each window, and nothing else.
LEMMA ProjectedIs ==
  ASSUME NEW s \in Seq(Nat), NEW w, HoldUpTo(s, w, Len(s)), NEW c \in 0..MergeCalls(Len(w), WindowOutput)
  PROVE  /\ Len(w) \in Nat \ {0} /\ PerWindow(s, w) \in Nat /\ Rate \in Nat /\ Projected(s, w) \in Nat
         /\ Len(w) * PerWindow(s, w) + c * Rate <= Projected(s, w) + Len(w) * Around
<1> DEFINE n == Len(w)  t == LargestText(s, w) + WindowOutput  calls == MergeCalls(n, WindowOutput)
<1>1. n \in Nat \ {0}
  <2> HIDE DEF Interval
  <2>1. w \in Seq(Interval) /\ w # <<>>
    BY DEF HoldUpTo
  <2> QED BY <2>1
<1>2. t \in Nat /\ Around \in Nat /\ Rate \in Nat /\ WindowOutput \in 0..MergeOutput
  <2>1. LargestText(s, w) \in Nat
    BY LargestIs
  <2>2. Around \in Nat /\ MergeInput \in Nat /\ MergeOutput \in Nat /\ WindowOutput \in 0..MergeOutput
    BY CallsAssumption
  <2>3. Rate = MergeInput + MergeOutput
    BY DEF Rate, Price
  <2> QED BY <2>1, <2>2, <2>3
<1>3. calls \in Nat /\ c \in 0..calls
  <2>1. Rounds(n, WindowOutput)[n] \in Tally
    <3>1. n \in 0..n
      BY <1>1
    <3> QED BY <1>1, <1>2, <3>1, RoundsAre
  <2> QED BY <2>1 DEF MergeCalls, Tally
<1>4. PerWindow(s, w) = Around + t /\ Projected(s, w) = n * t + calls * Rate
  BY DEF PerWindow, Projected, Price, Rate
<1> HIDE DEF n, t, calls, Rate
<1>5. n * (Around + t) = n * Around + n * t
  BY <1>1, <1>2, TimesSum
<1>6. c * Rate <= calls * Rate
  BY <1>2, <1>3, TimesMore
<1>7. n * Around \in Nat /\ n * t \in Nat /\ calls * Rate \in Nat /\ c * Rate \in Nat
  BY <1>1, <1>2, <1>3, TimesTyped
<1>8. n * (Around + t) + c * Rate <= n * t + calls * Rate + n * Around
  BY <1>5, <1>6, <1>7
<1>9. PerWindow(s, w) \in Nat /\ Projected(s, w) \in Nat
  BY <1>2, <1>4, <1>7
<1> QED BY <1>1, <1>2, <1>4, <1>8, <1>9 DEF n

LEMMA TallyAt ==
  ASSUME NEW n \in Nat \ {0}, NEW k \in 0..n
  PROVE  LET tally == Rounds(n, WindowOutput)[k]
         IN /\ tally \in Tally /\ tally.sizes \in Seq(Nat) /\ tally.sizes # <<>>
            /\ tally.calls \in 0..MergeCalls(n, WindowOutput)
<1> DEFINE tally == Rounds(n, WindowOutput)[k]  last == Rounds(n, WindowOutput)[n]
<1>1. WindowOutput \in 0..MergeOutput /\ 0..MergeOutput \subseteq Nat /\ n \in 0..n
  BY CallsAssumption
<1>2. tally \in Tally /\ last \in Tally /\ tally.calls <= last.calls
  BY <1>1, RoundsAre
<1>3. MergeCalls(n, WindowOutput) = last.calls
  BY DEF MergeCalls
<1> HIDE DEF tally, last
<1>4. tally.sizes \in Seq(0..MergeOutput) /\ tally.sizes # <<>> /\ tally.calls \in Nat /\ last.calls \in Nat
  BY <1>2 DEF Tally
<1>5. tally.sizes \in Seq(Nat)
  BY <1>1, <1>4, SeqMonotonic
<1>6. tally.calls \in 0..last.calls
  BY <1>2, <1>4
<1> QED BY <1>2, <1>3, <1>4, <1>5, <1>6 DEF tally

\* The summaries and the ledger keep within what the projection has after so
\* many rounds, with the calls of the round that are still due.
Within(tally) ==
  /\ Awaited(parts, queue, tally.sizes)
  /\ ledger + Due(queue) * Rate <= Len(windows) * PerWindow(records, windows) + tally.calls * Rate

CostInv ==
  /\ ledger \in Nat /\ quote \in Nat
  /\ stage = "render" => ledger = 0
  /\ stage \in {"window", "merge"} => windows # <<>>
  /\ windows # <<>> => quote = Projected(records, windows)
  /\ modest => ledger <= quote + Len(windows) * Around
  /\ modest /\ stage = "window" =>
       /\ ledger <= Len(parts) * PerWindow(records, windows)
       /\ \A i \in 1..Len(parts) : parts[i].size <= WindowOutput
  /\ modest /\ stage = "merge" => \E k \in 0..Len(windows) : Within(Rounds(Len(windows), WindowOutput)[k])

\* What is known of a session's windows while its calls are made.
\* What is known of a session's windows once it has some.
LEMMA Planned ==
  ASSUME PlanInv, CostInv, windows # <<>>, NEW c \in 0..MergeCalls(Len(windows), WindowOutput)
  PROVE  /\ records \in Seq(Nat) /\ HoldUpTo(records, windows, Len(records))
         /\ Len(windows) \in Nat \ {0} /\ PerWindow(records, windows) \in Nat /\ Rate \in Nat /\ quote \in Nat
         /\ Len(windows) * PerWindow(records, windows) + c * Rate <= quote + Len(windows) * Around
<1>1. records \in Seq(Nat) /\ HoldUpTo(records, windows, Len(records))
  BY DEF PlanInv
<1>2. quote = Projected(records, windows) /\ quote \in Nat
  BY DEF CostInv
<1> QED BY <1>1, <1>2, ProjectedIs

\* The calls of a round that is not over are within the projection.
LEMMA WithinQuote ==
  ASSUME PlanInv, CostInv, windows # <<>>, NEW k \in 0..Len(windows), NEW cost \in Nat,
         LET tally == Rounds(Len(windows), WindowOutput)[k]
         IN cost <= Len(windows) * PerWindow(records, windows) + tally.calls * Rate
  PROVE  cost <= quote + Len(windows) * Around
<1> DEFINE n == Len(windows)  c == Rounds(n, WindowOutput)[k].calls  p == PerWindow(records, windows)
<1>1. n \in Nat \ {0}
  <2> HIDE DEF Interval
  <2>1. windows \in Seq(Interval)
    BY DEF PlanInv
  <2> QED BY <2>1
<1>2. c \in 0..MergeCalls(n, WindowOutput) /\ c \in Nat
  <2>1. Rounds(n, WindowOutput)[k] \in Tally /\ c \in 0..MergeCalls(n, WindowOutput)
    BY <1>1, TallyAt
  <2> QED BY <2>1 DEF Tally
<1>3. p \in Nat /\ Rate \in Nat /\ quote \in Nat /\ n * p + c * Rate <= quote + n * Around
  BY <1>2, Planned
<1>4. cost <= n * p + c * Rate
  OBVIOUS
<1>5. Around \in Nat
  BY CallsAssumption
<1> HIDE DEF n, c, p, Rate
<1>6. n * p \in Nat /\ c * Rate \in Nat /\ n * Around \in Nat
  BY <1>1, <1>2, <1>3, <1>5, TimesTyped
<1>7. cost <= quote + n * Around
  BY <1>3, <1>4, <1>6
<1> QED BY <1>7 DEF n

\* A session that is over keeps to its quote.
LEMMA OverCosts ==
  ASSUME CostInv, stage' = "over", UNCHANGED plan, ledger' \in Nat,
         modest' => ledger' <= quote + Len(windows) * Around
  PROVE  CostInv'
BY DEF CostInv, plan

LEMMA PlanCosts ==
  ASSUME CoverInv, CostInv, stage = "render",
         NEW sizes \in BoundedSeq(RecordSizes, MaxRecords), NEW left, Plan(sizes, left)
  PROVE  CostInv'
<1>1. ledger = 0 /\ parts = <<>>
  BY DEF CostInv, CoverInv
<1>2. /\ records' = sizes /\ windows' = Split(sizes) /\ ledger' = 0 /\ parts' = <<>> /\ modest' = modest
      /\ quote' = (IF sizes = <<>> THEN 0 ELSE Projected(sizes, windows'))
      /\ stage' = (IF verdict' = "none" THEN "window" ELSE "over")
  BY <1>1 DEF Plan, money
<1>3. sizes \in Seq(Nat) /\ Around \in Nat
  BY RecordsTyped, CallsAssumption
<1>4. CASE sizes = <<>>
  <2>1. windows' = <<>> /\ quote' = 0 /\ Len(windows') = 0
    BY <1>2, <1>4 DEF Split
  <2>2. stage' = "over"
    <3>1. verdict' = "unreadable"
      BY <1>4 DEF Plan
    <3> QED BY <1>2, <3>1
  <2>3. Len(windows') * Around = 0
    BY <1>3, <2>1
  <2> QED BY <1>2, <2>1, <2>2, <2>3 DEF CostInv
<1>5. CASE sizes # <<>>
  <2>1. HoldUpTo(sizes, windows', Len(sizes))
    BY <1>2, <1>3, <1>5, SplitHolds
  <2> DEFINE n == Len(windows')  p == PerWindow(records', windows')
  <2>2. 0 \in 0..MergeCalls(n, WindowOutput)
    <3>1. n \in Nat \ {0}
      <4> HIDE DEF Interval
      <4>1. windows' \in Seq(Interval) /\ windows' # <<>>
        BY <2>1 DEF HoldUpTo
      <4> QED BY <4>1
    <3> HIDE DEF n
    <3>2. 0 \in 0..n
      BY <3>1
    <3>3. Rounds(n, WindowOutput)[0] \in Tally /\ Rounds(n, WindowOutput)[0].calls \in 0..MergeCalls(n, WindowOutput)
      BY <3>1, <3>2, TallyAt
    <3> DEFINE c == Rounds(n, WindowOutput)[0].calls  d == MergeCalls(n, WindowOutput)
    <3>4. n \in 0..n
      BY <3>1
    <3>5. Rounds(n, WindowOutput)[n] \in Tally
      BY <3>1, <3>4, TallyAt
    <3>6. d \in Nat
      BY <3>5 DEF Tally, MergeCalls
    <3> QED BY <3>6
  <2>3. n \in Nat \ {0} /\ p \in Nat /\ quote' \in Nat /\ quote' = Projected(records', windows')
    BY <1>2, <1>3, <1>5, <2>1, <2>2, ProjectedIs
  <2>4. windows' # <<>>
    BY <2>1 DEF HoldUpTo
  <2> HIDE DEF n, p
  <2>5. n * Around \in Nat /\ 0 * p = 0
    BY <1>3, <2>3, TimesTyped
  <2>6. 0 <= quote' + n * Around
    BY <2>3, <2>5
  <2>7. Len(parts') = 0 /\ 0 <= 0 * p
    BY <1>2, <2>5
  <2>8. ledger' <= Len(parts') * p /\ \A i \in 1..Len(parts') : parts'[i].size <= WindowOutput
    BY <1>2, <2>7
  <2> QED BY <1>2, <2>3, <2>4, <2>6, <2>8 DEF CostInv, n, p
<1> QED BY <1>4, <1>5

\* A window's call and its answer cost no more than a window does.
LEMMA WindowCosts ==
  ASSUME PlanInv, CoverInv, CostInv, attempt > 0, stage = "window",
         NEW size \in Nat, NEW cost, cost = ledger + Price(Input, size)
  PROVE  /\ cost \in Nat
         /\ modest /\ size <= WindowOutput =>
              /\ cost <= (Len(parts) + 1) * PerWindow(records, windows)
              /\ cost <= quote + Len(windows) * Around
<1> DEFINE n == Len(windows)  m == Len(parts)  p == PerWindow(records, windows)
           text == WindowText(windows[m + 1])  largest == LargestText(records, windows)
<1>1. windows # <<>> /\ ledger \in Nat /\ (modest => ledger <= m * p)
  BY DEF CostInv
<1>2. n \in Nat \ {0} /\ 0 \in 0..n
  <2> HIDE DEF Interval
  <2>1. windows \in Seq(Interval)
    BY DEF PlanInv
  <2> QED BY <1>1, <2>1
<1>3. m \in Nat /\ m < n
  <2>1. parts \in Seq(Summary)
    BY DEF CoverInv
  <2> HIDE DEF Summary
  <2>2. m \in Nat
    BY <2>1
  <2> QED BY <2>2 DEF CoverInv, CallInv
<1>4. records \in Seq(Nat) /\ HoldUpTo(records, windows, Len(records))
  BY <1>1 DEF PlanInv
<1>5. Rounds(n, WindowOutput)[n] \in Tally
  BY <1>2, TallyAt
<1>6. MergeCalls(n, WindowOutput) \in Nat
  BY <1>5 DEF MergeCalls, Tally
<1>7. 0 \in 0..MergeCalls(n, WindowOutput)
  BY <1>6
<1>8. p \in Nat /\ Rate \in Nat /\ quote \in Nat /\ n * p + 0 * Rate <= quote + n * Around
  BY <1>1, <1>7, Planned
<1>9. largest \in Nat /\ text <= largest
  <2>1. m + 1 \in 1..n
    BY <1>2, <1>3
  <2>2. text = Joined(records, windows[m + 1].from, windows[m + 1].to)
    BY DEF WindowText
  <2> QED BY <1>4, <2>1, <2>2, LargestIs
<1>10. text \in Nat
  <2> DEFINE w == windows[m + 1]
  <2>1. m + 1 \in 1..n
    BY <1>2, <1>3
  <2>2. w \in Interval
    BY <2>1, ElementOfSeq DEF PlanInv
  <2>3. w.from \in 1..w.to /\ w.to <= Len(records)
    BY <1>4, <2>1 DEF HoldUpTo
  <2>4. text = Joined(records, w.from, w.to)
    BY DEF WindowText
  <2> DEFINE a == w.from  b == w.to
  <2>5. a \in Nat /\ b \in Nat
    BY <2>2 DEF Interval
  <2>6. a \in 1..b /\ b <= Len(records) /\ text = Joined(records, a, b)
    BY <2>3, <2>4
  <2> HIDE DEF a, b, text
  <2>7. a \in 1..(Len(records) + 1) /\ b \in 0..Len(records)
    BY <1>4, <2>5, <2>6
  <2>8. Joined(records, a, b) \in Nat
    BY <1>4, <2>7, JoinedTyped
  <2> QED BY <2>6, <2>8
<1>11. cost = ledger + (Around + text + size)
  BY DEF Input, Price
<1>12. p = Around + (largest + WindowOutput)
  BY DEF PerWindow, Price
<1>13. Around \in Nat /\ WindowOutput \in Nat
  BY CallsAssumption
<1> HIDE DEF n, m, p, text, largest, Rate
<1>14. cost \in Nat
  BY <1>1, <1>10, <1>11, <1>13
<1>15. ASSUME modest, size <= WindowOutput
       PROVE  cost <= (m + 1) * p /\ cost <= quote + n * Around
  <2>1. m * p \in Nat /\ (m + 1) * p = m * p + p
    BY <1>3, <1>8, TimesTyped, TimesNext
  <2>2. Around + text + size <= p
    BY <1>9, <1>10, <1>12, <1>13, <1>15
  <2>3. cost <= m * p + p
    BY <1>1, <1>8, <1>10, <1>11, <1>13, <1>15, <2>1, <2>2
  <2>4. (m + 1) * p <= n * p
    <3>1. m + 1 \in Nat /\ m + 1 <= n /\ n \in Nat
      BY <1>2, <1>3
    <3> QED BY <1>8, <3>1, TimesMore
  <2>5. n * p \in Nat /\ n * Around \in Nat /\ 0 * Rate = 0
    BY <1>2, <1>8, <1>13, TimesTyped
  <2>6. cost <= quote + n * Around
    BY <1>8, <1>14, <2>1, <2>3, <2>4, <2>5
  <2> QED BY <2>1, <2>3, <2>6
<1> QED BY <1>14, <1>15 DEF m, n, p

\* A merge of a round and its answer cost no more than a projected one, and
\* pay for one of the calls that are due.
LEMMA MergeCosts ==
  ASSUME PlanInv, CoverInv, CostInv, attempt > 0, stage = "merge",
         NEW size \in Nat, NEW cost, cost = ledger + Price(Input, size)
  PROVE  /\ cost \in Nat
         /\ modest /\ size <= MergeOutput =>
              /\ cost <= quote + Len(windows) * Around
              /\ \E k \in 0..Len(windows) :
                   LET tally == Rounds(Len(windows), WindowOutput)[k]
                   IN /\ Awaited(parts, queue, tally.sizes) /\ size <= tally.sizes[Len(parts) + 1]
                      /\ cost + Due(Tail(queue)) * Rate
                           <= Len(windows) * PerWindow(records, windows) + tally.calls * Rate
<1> DEFINE n == Len(windows)  p == PerWindow(records, windows)  g == queue[1].group  spent == SizesOf(g)
<1>1. windows # <<>> /\ ledger \in Nat
  BY DEF CostInv
<1>2. n \in Nat \ {0}
  <2> HIDE DEF Interval
  <2>1. windows \in Seq(Interval)
    BY DEF PlanInv
  <2> QED BY <1>1, <2>1
<1>3. parts \in Seq(Summary) /\ queue \in Seq(Item) /\ queue # <<>> /\ Len(g) > 1
  BY DEF CoverInv, CallInv
<1>4. Head(queue) = queue[1] /\ queue[1] \in Item /\ 1 \in 1..Len(queue)
  BY <1>3, ElementOfSeq
<1>5. spent \in Nat
  <2>1. g \in Seq(Summary)
    BY <1>4 DEF Item
  <2> DEFINE sizes == [i \in DOMAIN g |-> g[i].size]
  <2>2. sizes \in Seq(Nat)
    <3>1. Len(g) \in Nat /\ DOMAIN g = 1..Len(g)
      BY <2>1, LenProperties
    <3>2. ASSUME NEW i \in 1..Len(g) PROVE g[i].size \in Nat
      <4>1. g[i] \in Summary
        BY <2>1, <3>2, ElementOfSeq
      <4> QED BY <4>1 DEF Summary
    <3> HIDE DEF g
    <3>3. sizes \in [1..Len(g) -> Nat]
      BY <3>1, <3>2
    <3> HIDE DEF sizes
    <3> QED BY <3>1, <3>3, SeqDef
  <2>3. Total(sizes) \in Nat
    BY <2>2, TotalTyped
  <2> QED BY <2>3 DEF SizesOf
<1>6. Input = Overhead + spent
  BY <1>4 DEF Input
<1>7. Overhead \in Nat /\ MergeInput \in Nat /\ MergeOutput \in Nat
  BY CallsAssumption
<1>8. cost = ledger + (Overhead + spent + size)
  BY <1>6 DEF Price
<1>9. cost \in Nat
  <2> HIDE DEF spent
  <2> QED BY <1>1, <1>5, <1>7, <1>8
<1>10. ASSUME modest, size <= MergeOutput
       PROVE  \E k \in 0..n :
                LET tally == Rounds(n, WindowOutput)[k]
                IN /\ Awaited(parts, queue, tally.sizes) /\ size <= tally.sizes[Len(parts) + 1]
                   /\ cost + Due(Tail(queue)) * Rate <= n * p + tally.calls * Rate
                   /\ cost <= quote + n * Around
  <2>1. PICK k \in 0..n : Within(Rounds(n, WindowOutput)[k])
    BY <1>10 DEF CostInv
  <2> DEFINE tally == Rounds(n, WindowOutput)[k]  due == Due(Tail(queue))  c == tally.calls  sizes == tally.sizes
             bound == n * p + c * Rate  s == sizes[Len(parts) + 1]
  <2>2. tally \in Tally /\ sizes \in Seq(Nat) /\ c \in Nat
    <3>1. tally \in Tally /\ sizes \in Seq(Nat)
      BY <1>2, TallyAt
    <3> QED BY <3>1 DEF Tally
  <2>3. Awaited(parts, queue, sizes) /\ ledger + Due(queue) * Rate <= bound
    BY <2>1 DEF Within
  <2>4. MergeOutput <= s /\ Overhead + spent <= MergeInput
    <3>1. Promised(queue[1], s)
      BY <1>4, <2>3 DEF Awaited
    <3>2. ~(Len(g) = 1)
      <4>1. Len(g) > 1 /\ ~(1 > 1)
        BY <1>3
      <4> QED BY <4>1
    <3> HIDE DEF s
    <3>3. MergeOutput <= s /\ Overhead + SizesOf(queue[1].group) <= MergeInput
      BY <3>1, <3>2 DEF Promised
    <3> QED BY <3>3
  <2>5. size <= s
    <3>1. s \in Nat
      <4>1. Len(parts) + Len(queue) <= Len(sizes)
        BY <2>3 DEF Awaited
      <4>2. Len(parts) + 1 \in 1..Len(sizes)
        <5> DEFINE a == Len(parts)  b == Len(queue)  d == Len(sizes)
        <5>1. a \in Nat /\ b \in Nat /\ d \in Nat /\ b >= 1 /\ a + b <= d
          <6>1. a \in Nat /\ b \in Nat /\ d \in Nat
            BY <1>3, <2>2, LenProperties
          <6> QED BY <1>4, <4>1, <6>1
        <5> HIDE DEF a, b, d
        <5>2. a + 1 \in 1..d
          BY <5>1
        <5> QED BY <5>2 DEF a, d
      <4> QED BY <2>2, <4>2, ElementOfSeq
    <3> HIDE DEF s
    <3> QED BY <1>7, <1>10, <2>4, <3>1
  <2>6. due \in Nat /\ Due(queue) = due + 1
    <3> DEFINE x == [from |-> 0, to |-> 0, size |-> size]
    <3>1. x \in Summary /\ x.size <= s
      BY <2>5 DEF Summary
    <3> HIDE DEF x, sizes
    <3>2. due \in Nat /\ Due(queue) = IF Len(queue[1].group) > 1 THEN due + 1 ELSE due
      BY <1>3, <2>2, <2>3, <3>1, AnsweredFits
    <3> QED BY <1>3, <3>2
  <2>7. Rate = MergeInput + MergeOutput /\ Rate \in Nat
    BY <1>7 DEF Rate, Price
  <2>8. p \in Nat
    <3>1. 0 \in 0..n /\ n \in 0..n
      BY <1>2
    <3>2. Rounds(n, WindowOutput)[n] \in Tally
      BY <1>2, <3>1, TallyAt
    <3>3. MergeCalls(n, WindowOutput) \in Nat
      BY <3>2 DEF MergeCalls, Tally
    <3>4. 0 \in 0..MergeCalls(n, WindowOutput)
      BY <3>3
    <3> QED BY <1>1, <3>4, Planned
  <2> HIDE DEF due, c, s, spent, bound, Rate
  <2>9. (due + 1) * Rate = due * Rate + Rate /\ due * Rate \in Nat
    BY <2>6, <2>7, TimesNext, TimesTyped
  <2>10. Overhead + spent + size <= Rate
    BY <1>5, <1>7, <1>10, <2>4, <2>7
  <2>11. bound \in Nat
    <3> HIDE DEF n, p
    <3>1. n * p \in Nat /\ c * Rate \in Nat
      BY <1>2, <2>2, <2>7, <2>8, TimesTyped
    <3> QED BY <3>1 DEF bound
  <2>12. ledger + (due * Rate + Rate) <= bound
    BY <2>3, <2>6, <2>9
  <2>13. cost + due * Rate <= bound /\ cost <= bound
    <3> DEFINE rest == due * Rate
    <3>1. rest \in Nat /\ ledger + (rest + Rate) <= bound
      BY <2>9, <2>12
    <3> HIDE DEF rest
    <3>2. cost + rest <= bound /\ cost <= bound
      BY <1>1, <1>5, <1>7, <1>8, <1>9, <2>7, <2>10, <2>11, <3>1
    <3> QED BY <3>2 DEF rest
  <2>14. cost <= quote + n * Around
    BY <1>1, <1>9, <2>13, WithinQuote DEF bound, c
  <2> QED BY <2>3, <2>5, <2>13, <2>14 DEF bound, c, s, due
<1> QED BY <1>9, <1>10

\* An answer that is kept.
LEMMA KeepCosts ==
  ASSUME PlanInv, CoverInv, CostInv, attempt > 0, NEW size \in AnswerSizes, Keep(size),
         ledger' = ledger + Price(Input, size), modest' => modest /\ size <= Asked
  PROVE  CostInv'
<1> DEFINE n == Len(windows)  m == Len(parts)  p == PerWindow(records, windows)
           x == [from |-> Spoken.from, to |-> Spoken.to, size |-> size]
<1>1. size \in Nat
  BY CallsAssumption
<1>2. parts' = Append(parts, x) /\ UNCHANGED <<stage, records, windows, quote>>
  BY DEF Keep, plan
<1>3. parts \in Seq(Summary) /\ queue \in Seq(Item)
  BY DEF CoverInv
<1>4. CostInv => /\ quote \in Nat /\ (stage \in {"window", "merge"} => windows # <<>>)
                 /\ (windows # <<>> => quote = Projected(records, windows))
  BY DEF CostInv
<1>5. CASE stage = "window"
  <2>1. /\ ledger' \in Nat
        /\ modest' => /\ modest /\ size <= WindowOutput
                      /\ ledger' <= (m + 1) * p /\ ledger' <= quote + n * Around
    BY <1>1, <1>5, WindowCosts DEF Asked
  <2>2. x = [from |-> m + 1, to |-> m + 1, size |-> size]
    BY <1>5 DEF Spoken
  <2>3. m \in Nat
    <3> HIDE DEF Summary
    <3> QED BY <1>3
  <2>4. x \in Summary /\ x.size = size
    BY <1>1, <2>2, <2>3 DEF Summary
  <2> HIDE DEF x
  <2>5. Len(parts') = m + 1 /\ parts'[m + 1] = x /\ \A i \in 1..m : parts'[i] = parts[i]
    BY <1>2, <1>3, <2>4, AppendProperties
  <2>6. ASSUME modest' PROVE \A i \in 1..(m + 1) : parts'[i].size <= WindowOutput
    <3>1. \A i \in 1..m : parts[i].size <= WindowOutput
      BY <1>5, <2>1, <2>6 DEF CostInv
    <3>2. \A i \in 1..(m + 1) : i \in 1..m \/ i = m + 1
      BY <2>3
    <3> HIDE DEF m
    <3>3. parts'[m + 1].size <= WindowOutput
      BY <2>1, <2>4, <2>5, <2>6
    <3>4. \A i \in 1..m : parts'[i].size <= WindowOutput
      BY <2>5, <3>1
    <3> QED BY <3>2, <3>3, <3>4
  <2> HIDE DEF m, n, p
  <2>7. modest' => ledger' <= Len(parts') * p
    BY <2>1, <2>5
  <2> QED BY <1>2, <1>4, <1>5, <2>1, <2>5, <2>6, <2>7 DEF CostInv, n, p
<1>6. CASE stage = "merge"
  <2>1. queue # <<>> /\ queue' = Tail(queue)
    BY <1>6 DEF CoverInv, CallInv, Keep
  <2>2. /\ ledger' \in Nat
        /\ modest' => /\ ledger' <= quote + n * Around
                      /\ \E k \in 0..n :
                           LET tally == Rounds(n, WindowOutput)[k]
                           IN /\ Awaited(parts, queue, tally.sizes) /\ size <= tally.sizes[m + 1]
                              /\ ledger' + Due(Tail(queue)) * Rate <= n * p + tally.calls * Rate
    BY <1>1, <1>6, MergeCosts DEF Asked
  <2>3. x \in Summary /\ x.size = size
    <3>1. Head(queue) = queue[1] /\ queue[1] \in Item /\ Len(queue[1].group) > 1
      BY <1>3, <1>6, <2>1, ElementOfSeq DEF CoverInv, CallInv
    <3> DEFINE g == queue[1].group
    <3>2. g \in Seq(Summary) /\ Len(g) > 1
      BY <3>1 DEF Item
    <3> HIDE DEF g
    <3>3. 1 \in 1..Len(g) /\ Len(g) \in 1..Len(g)
      BY <3>2, LenProperties
    <3>4. g[1] \in Summary /\ g[Len(g)] \in Summary
      BY <3>2, <3>3, ElementOfSeq
    <3>5. x = [from |-> g[1].from, to |-> g[Len(g)].to, size |-> size]
      BY <1>6, <3>1 DEF Spoken, g
    <3> QED BY <1>1, <3>4, <3>5 DEF Summary
  <2> HIDE DEF x
  <2>4. ASSUME modest' PROVE \E k \in 0..n : Within(Rounds(n, WindowOutput)[k])'
    <3>1. PICK k \in 0..n :
            LET tally == Rounds(n, WindowOutput)[k]
            IN /\ Awaited(parts, queue, tally.sizes) /\ size <= tally.sizes[m + 1]
               /\ ledger' + Due(Tail(queue)) * Rate <= n * p + tally.calls * Rate
      BY <2>2, <2>4
    <3> DEFINE tally == Rounds(n, WindowOutput)[k]  sizes == tally.sizes
    <3>2. sizes \in Seq(Nat)
      <4>1. n \in Nat \ {0}
        <5> HIDE DEF Interval
        <5>1. windows \in Seq(Interval) /\ windows # <<>>
          BY <1>4, <1>6 DEF PlanInv
        <5> QED BY <5>1
      <4> QED BY <4>1, TallyAt
    <3> HIDE DEF sizes
    <3>3. Awaited(Append(parts, x), Tail(queue), sizes)
      BY <1>3, <2>1, <2>3, <3>1, <3>2, AnsweredFits DEF sizes
    <3> QED BY <1>2, <2>1, <3>1, <3>3 DEF Within, sizes
  <2> QED BY <1>2, <1>4, <1>6, <2>2, <2>4 DEF CostInv
<1>7. stage = "window" \/ stage = "merge"
  BY DEF CoverInv, CallInv
<1> QED BY <1>5, <1>6, <1>7

\* An answer the session ends at.
LEMMA RaiseCosts ==
  ASSUME PlanInv, CoverInv, CostInv, attempt > 0, NEW size \in AnswerSizes, NEW detail, Raise(detail),
         ledger' = ledger + Price(Input, size), modest' => modest /\ size <= Asked
  PROVE  CostInv'
<1>1. size \in Nat
  BY CallsAssumption
<1>2. stage' = "over" /\ UNCHANGED plan
  BY DEF Raise, Over
<1>3. stage = "window" \/ stage = "merge"
  BY DEF CoverInv, CallInv
<1>4. ledger' \in Nat /\ (modest' => ledger' <= quote + Len(windows) * Around)
  BY <1>1, <1>3, WindowCosts, MergeCosts DEF Asked
<1> QED BY <1>2, <1>4, OverCosts

\* A merge that is cut costs too, and the projection knows of no such merge.
LEMMA HalveCosts ==
  ASSUME PlanInv, CoverInv, CostInv, attempt > 0, NEW size \in AnswerSizes, stage = "merge", Halve,
         ledger' = ledger + Price(Input, size), ~modest'
  PROVE  CostInv'
<1>1. size \in Nat
  BY CallsAssumption
<1>2. ledger' \in Nat
  BY <1>1, MergeCosts
<1>3. UNCHANGED <<stage, records, windows, quote>>
  BY DEF Halve, plan
<1> QED BY <1>2, <1>3 DEF CostInv

LEMMA WindowsDoneCosts ==
  ASSUME PlanInv, CoverInv, CostInv, WindowsDone
  PROVE  CostInv'
<1> DEFINE n == Len(windows)  p == PerWindow(records, windows)  tally == Rounds(n, WindowOutput)[0]
<1>1. /\ stage = "window" /\ Len(parts) = n /\ queue = <<>> /\ stage' = "merge"
      /\ UNCHANGED <<records, windows, quote, parts, queue, ledger, modest>>
  BY DEF WindowsDone, CoverInv, plan, money
<1>2. windows # <<>> /\ ledger \in Nat
  BY <1>1 DEF CostInv
<1>3. n \in Nat \ {0} /\ 0 \in 0..n
  <2> HIDE DEF Interval
  <2>1. windows \in Seq(Interval)
    BY DEF PlanInv
  <2> QED BY <1>2, <2>1
<1>4. WindowOutput \in 0..MergeOutput
  BY CallsAssumption
<1>5. tally = [sizes |-> [i \in 1..n |-> WindowOutput], calls |-> 0]
  BY <1>3, <1>4, RoundsAre
<1>6. ASSUME modest PROVE Within(tally)'
  <2> DEFINE sizes == [i \in 1..n |-> WindowOutput]
  <2>1. ledger <= n * p /\ \A i \in 1..n : parts[i].size <= WindowOutput
    BY <1>1, <1>6 DEF CostInv
  <2>2. Len(sizes) = n /\ \A i \in 1..n : sizes[i] = WindowOutput
    BY <1>3
  <2>3. Len(<<>>) = 0
    OBVIOUS
  <2> HIDE DEF sizes, n
  <2>4. n + 0 <= n /\ \A i \in 1..n : parts[i].size <= sizes[i]
    BY <1>3, <2>1, <2>2
  <2>5. Awaited(parts, <<>>, sizes)
    <3>1. /\ ~ \E g \in 1..0 : TRUE
          /\ ~ \E g \in 1..(0 - 1) : TRUE
      OBVIOUS
    <3> QED BY <1>1, <2>2, <2>3, <2>4, <3>1 DEF Awaited
  <2>6. Due(<<>>) = 0
    BY DEF Due
  <2>7. ledger + 0 * Rate <= n * p + 0 * Rate
    <3>1. Rate \in Nat
      BY RateTyped
    <3>2. p \in Nat
      <4>1. n \in 0..n
        BY <1>3
      <4>2. Rounds(n, WindowOutput)[n] \in Tally
        BY <1>3, <4>1, TallyAt
      <4>3. 0 \in 0..MergeCalls(n, WindowOutput)
        <5>1. MergeCalls(n, WindowOutput) \in Nat
          BY <4>2 DEF MergeCalls, Tally
        <5> QED BY <5>1
      <4> QED BY <1>2, <4>3, Planned DEF n
    <3> HIDE DEF p, Rate
    <3>3. 0 * Rate = 0 /\ n * p \in Nat
      BY <1>3, <3>1, <3>2, TimesTyped
    <3> QED BY <1>2, <2>1, <3>3
  <2>8. tally.sizes = sizes /\ tally.calls = 0
    BY <1>5 DEF n, sizes
  <2>9. tally' = tally
    BY <1>1 DEF n
  <2> HIDE DEF tally
  <2> QED BY <1>1, <2>5, <2>6, <2>7, <2>8, <2>9 DEF Within, n, p
<1> HIDE DEF tally
<1>7. modest' => \E k \in 0..n : Within(Rounds(n, WindowOutput)[k])'
  BY <1>1, <1>3, <1>6 DEF tally
<1> QED BY <1>1, <1>7 DEF CostInv

\* A group of one takes no call.
LEMMA PassOnCosts ==
  ASSUME PlanInv, CoverInv, CostInv, PassOn
  PROVE  CostInv'
<1> DEFINE n == Len(windows)  x == queue[1].group[1]
<1>1. /\ stage = "merge" /\ queue # <<>> /\ parts \in Seq(Summary) /\ queue \in Seq(Item)
      /\ UNCHANGED <<stage, records, windows, quote, ledger, modest>>
  BY DEF PassOn, CoverInv, plan, money
<1>2. Head(queue) = queue[1] /\ queue[1] \in Item /\ Len(queue[1].group) = 1 /\ 1 \in 1..Len(queue)
  BY <1>1, ElementOfSeq DEF PassOn
<1>3. x \in Summary
  <2>1. queue[1].group \in Seq(Summary)
    BY <1>2 DEF Item
  <2> QED BY <1>2, <2>1, ElementOfSeq
<1>4. parts' = Append(parts, x) /\ queue' = Tail(queue)
  BY <1>2 DEF PassOn
<1>5. n \in Nat \ {0}
  <2> HIDE DEF Interval
  <2>1. windows \in Seq(Interval) /\ windows # <<>>
    BY <1>1 DEF PlanInv, CostInv
  <2> QED BY <2>1
<1>6. ASSUME modest PROVE \E k \in 0..n : Within(Rounds(n, WindowOutput)[k])'
  <2>1. PICK k \in 0..n : Within(Rounds(n, WindowOutput)[k])
    BY <1>1, <1>6 DEF CostInv
  <2> DEFINE tally == Rounds(n, WindowOutput)[k]  sizes == tally.sizes
  <2>2. sizes \in Seq(Nat) /\ Awaited(parts, queue, sizes)
    BY <1>5, <2>1, TallyAt DEF Within
  <2>3. x.size <= sizes[Len(parts) + 1]
    <3>1. Promised(queue[1], sizes[Len(parts) + 1])
      BY <1>2, <2>2 DEF Awaited
    <3>2. ~(Len(queue[1].group) > 1)
      BY <1>2
    <3> HIDE DEF sizes
    <3> QED BY <3>1, <3>2 DEF Promised
  <2> HIDE DEF x, sizes
  <2>4. Awaited(Append(parts, x), Tail(queue), sizes) /\ Due(queue) = Due(Tail(queue))
    <3>1. ~(Len(queue[1].group) > 1)
      BY <1>2
    <3> QED BY <1>1, <1>3, <2>2, <2>3, <3>1, AnsweredFits
  <2>5. Within(tally)'
    BY <1>1, <1>4, <2>1, <2>4 DEF Within, sizes
  <2> QED BY <2>5
<1> QED BY <1>1, <1>6 DEF CostInv

\* The next round is the projection's next one.
LEMMA RoundCosts ==
  ASSUME PlanInv, CoverInv, CostInv, Round
  PROVE  CostInv'
<1> DEFINE n == Len(windows)  p == PerWindow(records, windows)
<1>1. /\ stage = "merge" /\ queue = <<>> /\ parts \in Seq(Summary) /\ Len(parts) > 1 /\ queue' = Regrouped(parts)
      /\ parts' = <<>> /\ UNCHANGED <<stage, records, windows, quote, ledger, modest>>
  BY DEF Round, Regrouped, CoverInv, plan, money
<1>2. windows # <<>> /\ ledger \in Nat
  BY <1>1 DEF CostInv
<1>3. n \in Nat \ {0}
  <2> HIDE DEF Interval
  <2>1. windows \in Seq(Interval)
    BY DEF PlanInv
  <2> QED BY <1>2, <2>1
<1>4. ASSUME modest PROVE \E k \in 0..n : Within(Rounds(n, WindowOutput)[k])'
  <2>1. PICK k \in 0..n : Within(Rounds(n, WindowOutput)[k])
    BY <1>1, <1>4 DEF CostInv
  <2> DEFINE tally == Rounds(n, WindowOutput)[k]  s == tally.sizes  c == tally.calls
             next == Rounds(n, WindowOutput)[k + 1]  d == RoundCalls(s)
  <2>2. WindowOutput \in 0..MergeOutput /\ 0..MergeOutput \subseteq Nat
    BY CallsAssumption
  <2>3. tally \in Tally /\ (Len(s) + k <= n \/ Len(s) <= 1)
    BY <1>3, <2>2, RoundsAre
  <2>4. s \in Seq(0..MergeOutput) /\ s \in Seq(Nat) /\ c \in Nat
    <3>1. s \in Seq(0..MergeOutput) /\ c \in Nat
      BY <2>3 DEF Tally
    <3> HIDE DEF s
    <3>2. s \in Seq(Nat)
      BY <2>2, <3>1, SeqMonotonic
    <3> QED BY <3>1, <3>2
  <2>5. Awaited(parts, <<>>, s)
    BY <1>1, <2>1 DEF Within
  <2>6. Len(s) > 1 /\ Len(s) \in Nat
    <3> DEFINE a == Len(parts)  b == Len(s)
    <3>1. a + Len(<<>>) <= b
      BY <2>5 DEF Awaited
    <3>2. Len(<<>>) = 0 /\ a \in Nat /\ b \in Nat /\ a > 1
      BY <1>1, <2>4, LenProperties
    <3> HIDE DEF a, b
    <3>3. b > 1
      BY <3>1, <3>2
    <3> QED BY <3>2, <3>3 DEF b
  <2>7. k + 1 \in 1..n /\ (k + 1) - 1 = k
    <3> DEFINE b == Len(s)
    <3>1. b \in Nat /\ b > 1 /\ b + k <= n
      BY <2>3, <2>6
    <3> HIDE DEF b, n
    <3> QED BY <1>3, <3>1
  <2>8. next = NextRound(tally)
    <3>1. Rounds(n, WindowOutput)[k + 1] = NextRound(Rounds(n, WindowOutput)[(k + 1) - 1])
      BY <1>3, <2>2, <2>7, RoundsAre
    <3> QED BY <2>7, <3>1
  <2>9. next = [sizes |-> Merged(s), calls |-> c + d]
    <3>1. ~(Len(s) <= 1)
      BY <2>6
    <3> QED BY <2>8, <3>1 DEF NextRound
  <2> DEFINE q == Regrouped(parts)  due == Due(q)
  <2>10. Awaited(<<>>, q, Merged(s)) /\ due \in Nat /\ due <= d
    <3>1. parts # <<>>
      BY <1>1
    <3> HIDE DEF s
    <3> QED BY <1>1, <2>4, <2>5, <3>1, RoundFits
  <2>11. d \in Nat
    <3>1. s # <<>>
      BY <2>6
    <3> DEFINE g == Grouped(s)
    <3> HIDE DEF s
    <3>2. Len(g) \in Nat \ {0}
      BY <2>4, <3>1, GroupsAre
    <3>3. d = IF g[Len(g)].from < g[Len(g)].to THEN Len(g) ELSE Len(g) - 1
      BY <2>4, <3>1, RoundCallsAre
    <3> HIDE DEF g, d
    <3> QED BY <3>2, <3>3
  <2>12. ledger <= n * p + c * Rate
    <3>1. ledger + Due(<<>>) * Rate <= n * p + c * Rate
      BY <1>1, <2>1 DEF Within
    <3>2. Due(<<>>) * Rate = 0
      <4>1. Rate \in Nat
        BY RateTyped
      <4> QED BY <4>1 DEF Due
    <3>3. ledger + 0 = ledger
      BY <1>2
    <3> QED BY <3>1, <3>2, <3>3
  <2>13. Rate \in Nat
    BY RateTyped
  <2>14. p \in Nat
    <3>1. n \in 0..n
      BY <1>3
    <3>2. Rounds(n, WindowOutput)[n] \in Tally
      BY <1>3, <3>1, TallyAt
    <3>3. MergeCalls(n, WindowOutput) \in Nat
      BY <3>2 DEF MergeCalls, Tally
    <3>4. 0 \in 0..MergeCalls(n, WindowOutput)
      BY <3>3
    <3> QED BY <1>2, <3>4, Planned
  <2> HIDE DEF n, p, c, d, due, Rate
  <2>15. (c + d) * Rate = c * Rate + d * Rate /\ due * Rate <= d * Rate
    BY <2>4, <2>10, <2>11, <2>13, TimesMore
  <2>16. n * p \in Nat /\ c * Rate \in Nat /\ d * Rate \in Nat /\ due * Rate \in Nat
    BY <1>3, <2>4, <2>10, <2>11, <2>13, <2>14, TimesTyped
  <2>17. ledger + due * Rate <= n * p + (c + d) * Rate
    BY <1>2, <2>12, <2>15, <2>16
  <2>18. next.sizes = Merged(s) /\ next.calls = c + d /\ next' = next
    BY <1>1, <2>9 DEF n
  <2> HIDE DEF next, q, s
  <2>19. Within(next)'
    BY <1>1, <2>10, <2>17, <2>18 DEF Within, q, due, n, p
  <2>20. k + 1 \in 0..n
    BY <1>3, <2>7
  <2> QED BY <2>19, <2>20 DEF next, n
<1> QED BY <1>1, <1>4 DEF CostInv

LEMMA CostKept ==
  ASSUME PlanInv, CoverInv, CostInv, [CallsNext]_callsVars
  PROVE  CostInv'
<1>1. CASE UNCHANGED callsVars
  BY <1>1 DEF callsVars, plan, money, CostInv, Within
<1>2. ASSUME stage = "render", NEW sizes \in BoundedSeq(RecordSizes, MaxRecords), NEW left, Plan(sizes, left)
      PROVE  CostInv'
  BY <1>2, PlanCosts
<1>3. ASSUME NEW why, Over(why), UNCHANGED money PROVE CostInv'
  <2>1. stage' = "over" /\ UNCHANGED plan /\ ledger' = ledger /\ modest' = modest
    BY <1>3 DEF Over, money
  <2>2. ledger' \in Nat /\ (modest' => ledger' <= quote + Len(windows) * Around)
    BY <2>1 DEF CostInv
  <2> QED BY <2>1, <2>2, OverCosts
<1>4. CASE Ask
  BY <1>4 DEF Ask, plan, money, CostInv, Within
<1>5. CASE WorkFails \/ PromptGone \/ Interrupted
  BY <1>3, <1>5 DEF WorkFails, PromptGone, Interrupted
<1>6. ASSUME NEW failure, Fails(failure) PROVE CostInv'
  <2>1. CASE failure \in Transient /\ attempt < Attempts
    BY <1>6, <2>1 DEF Fails, plan, money, CostInv, Within
  <2>2. CASE ~(failure \in Transient /\ attempt < Attempts)
    BY <1>3, <1>6, <2>2 DEF Fails, Raise
  <2> QED BY <2>1, <2>2
<1>7. ASSUME NEW ending \in Endings, NEW size \in AnswerSizes, Answered(ending, size) PROVE CostInv'
  <2>1. /\ attempt > 0 /\ ledger' = ledger + Price(Input, size)
        /\ modest' = (modest /\ size <= Asked /\ ~MayHalve(ending))
    BY <1>7 DEF Answered, Charge
  <2>2. modest' => modest /\ size <= Asked
    BY <2>1
  <2>3. CASE MayHalve(ending) /\ Halve
    <3>1. stage = "merge" /\ ~modest'
      BY <2>1, <2>3 DEF MayHalve
    <3> QED BY <2>1, <2>3, <3>1, HalveCosts
  <2>4. ASSUME NEW detail, Raise(detail) PROVE CostInv'
    BY <2>1, <2>2, <2>4, RaiseCosts
  <2>5. CASE Keep(size)
    BY <2>1, <2>2, <2>5, KeepCosts
  <2> QED BY <1>7, <2>3, <2>4, <2>5, Outcomes
<1>8. CASE WindowsDone
  BY <1>8, WindowsDoneCosts
<1>9. CASE PassOn
  BY <1>9, PassOnCosts
<1>10. CASE Round
  BY <1>10, RoundCosts
<1>11. CASE Finish
  <2>1. stage' = "over" /\ UNCHANGED plan /\ ledger' = ledger /\ modest' = modest
    BY <1>11 DEF Finish, money
  <2>2. ledger' \in Nat /\ (modest' => ledger' <= quote + Len(windows) * Around)
    BY <2>1 DEF CostInv
  <2> QED BY <2>1, <2>2, OverCosts
<1> QED BY <1>1, <1>2, <1>4, <1>5, <1>6, <1>7, <1>8, <1>9, <1>10, <1>11 DEF CallsNext

\* A session costs no more than it was let in for, but for the prompt around
\* each window, while the answers keep the size asked for and no merge is
\* cut: its windows hold no more than the largest, and its rounds of merging
\* stay, summary by summary and call by call, below the rounds the projection
\* went through (pipeline.projected).
THEOREM ProjectionHolds == CallsSpec => []ProjectionIsConservative
<1>1. CallsInit => CostInv
  <2>1. SUFFICES ASSUME CallsInit PROVE CostInv
    OBVIOUS
  <2>2. ledger = 0 /\ quote = 0 /\ windows = <<>> /\ stage = "render" /\ Len(windows) = 0
    BY <2>1 DEF CallsInit
  <2>3. Len(windows) * Around = 0
    <3>1. Around \in Nat
      BY CallsAssumption
    <3> QED BY <2>2, <3>1
  <2> QED BY <2>2, <2>3 DEF CostInv
<1>2. PlanInv /\ CoverInv /\ CostInv /\ [CallsNext]_callsVars => CostInv'
  BY CostKept
<1>3. CostInv => ProjectionIsConservative
  BY DEF CostInv, ProjectionIsConservative
<1> QED BY <1>1, <1>2, <1>3, PlanHolds, CoverHolds, PTL DEF CallsSpec

=============================================================================
