--------------------------- MODULE IntervalRecursion ---------------------------
(***************************************************************************)
(* Induction over the numbers 0..n, stated with a set instead of a         *)
(* predicate, and what it shows: that functions defined by recursion over  *)
(* an interval exist, running concatenations among them.                   *)
(***************************************************************************)
EXTENDS Integers, SequencesExt, FiniteSetTheorems, SequenceTheorems, TLAPS

\* A set that holds 0 and with each number below n its successor holds 0..n: else the numbers
\* missing up to some k would be mapped one to one, by the predecessor, to fewer of them.
LEMMA SetInduction ==
    ASSUME NEW n \in Nat, NEW S, 0 \in S, \A k \in 0..(n - 1) : k \in S => k + 1 \in S
    PROVE  \A k \in 0..n : k \in S
<1> SUFFICES ASSUME NEW k \in 0..n, k \notin S
             PROVE  FALSE
  OBVIOUS
<1> DEFINE bad == {i \in 0..k : i \notin S}
           less == bad \ {k}
           prev == [i \in bad |-> i - 1]
<1>1. k \in Nat /\ k \in bad
  OBVIOUS
<1>2. IsFiniteSet(0..k)
  BY <1>1, FS_Interval
<1>3. IsFiniteSet(bad)
  BY <1>2, FS_Subset
<1>4. IsFiniteSet(less) /\ Cardinality(less) = Cardinality(bad) - 1
  BY <1>1, <1>3, FS_RemoveElement
<1>5. Cardinality(less) < Cardinality(bad)
  BY <1>3, <1>4, FS_CardinalityType
<1>6. ASSUME NEW i \in bad
      PROVE  i - 1 \in less
  <2>1. i \in Nat /\ i # 0 /\ i <= k /\ i \notin S
    OBVIOUS
  <2>2. i - 1 \in 0..(n - 1) /\ (i - 1) + 1 = i
    BY <1>1, <2>1
  <2>3. i - 1 \notin S
    BY <2>1, <2>2
  <2> QED BY <2>1, <2>3
<1>7. prev \in [bad -> less]
  BY <1>6
<1>8. \A i, j \in bad : prev[i] = prev[j] => i = j
  OBVIOUS
<1> HIDE DEF bad, less, prev
<1>9. \E i, j \in bad : i # j /\ prev[i] = prev[j]
  BY <1>3, <1>4, <1>5, <1>7, FS_PigeonHole
<1> QED BY <1>8, <1>9

\* A set of natural numbers that is not empty has a least one.
LEMMA LeastNatural ==
    ASSUME NEW S \in SUBSET Nat, S # {}
    PROVE  \E k \in S : \A m \in S : k <= m
<1> SUFFICES ASSUME \A k \in S : \E m \in S : ~(k <= m)
             PROVE  FALSE
  OBVIOUS
<1> DEFINE A == {j \in Nat : \A m \in S : j < m}
<1>1. PICK k \in S : TRUE
  OBVIOUS
<1>2. 0 \in A
  OBVIOUS
<1>3. ASSUME NEW j \in 0..(k - 1), j \in A
      PROVE  j + 1 \in A
  <2>1. \A m \in S : j + 1 <= m
    BY <1>3
  <2>2. j + 1 \notin S
    BY <2>1
  <2> QED BY <2>1, <2>2
<1>4. k \in Nat
  OBVIOUS
<1>5. k \notin A
  OBVIOUS
<1> HIDE DEF A
<1>6. \A j \in 0..k : j \in A
  BY <1>2, <1>3, <1>4, SetInduction
<1> QED BY <1>4, <1>5, <1>6

\* The k-th value of a recursion over 1..n is got from the one before it.
Steps(V, n, step) == step \in [1..n -> [V -> V]]

Follows(V, a, n, step, g) ==
    /\ g \in [0..n -> V] /\ g[0] = a
    /\ \A k \in 1..n : g[k] = step[k][g[k - 1]]

\* A recursion over an interval has a solution.
LEMMA Recursion ==
    ASSUME NEW V, NEW a \in V, NEW n \in Nat, NEW step, Steps(V, n, step)
    PROVE  \E g : Follows(V, a, n, step, g)
<1> DEFINE S == {k \in 0..n : \E g : Follows(V, a, k, step, g)}
<1>1. 0 \in S
  <2> DEFINE g == [k \in 0..0 |-> a]
  <2>1. Follows(V, a, 0, step, g)
    BY DEF Follows
  <2> QED BY <2>1
<1>2. ASSUME NEW k \in 0..(n - 1), k \in S
      PROVE  k + 1 \in S
  <2>1. PICK g : Follows(V, a, k, step, g)
    BY <1>2
  <2> DEFINE i == k + 1
             h == [j \in 0..i |-> IF j = i THEN step[i][g[k]] ELSE g[j]]
  <2>2. k \in Nat /\ i \in Nat /\ i \in 1..n /\ i \in 0..n /\ i - 1 = k /\ k \in 0..k
    OBVIOUS
  <2>3. step[i] \in [V -> V] /\ g[k] \in V
    BY <2>1, <2>2 DEF Steps, Follows
  <2>4. step[i][g[k]] \in V
    BY <2>3
  <2>5. \A j \in 0..i : j # i => j \in 0..k
    BY <2>2
  <2>6. h \in [0..i -> V]
    BY <2>1, <2>4, <2>5 DEF Follows
  <2>7. h[0] = a
    <3>1. 0 \in 0..i /\ 0 # i
      BY <2>2
    <3> QED BY <2>1, <3>1 DEF Follows
  <2>8. ASSUME NEW j \in 1..i
        PROVE  h[j] = step[j][h[j - 1]]
    <3>1. j - 1 \in 0..i /\ j - 1 # i /\ j \in 0..i
      BY <2>2
    <3>2. h[j - 1] = g[j - 1]
      BY <3>1
    <3>3. CASE j = i
      BY <2>2, <3>1, <3>2, <3>3
    <3>4. CASE j # i
      <4>1. j \in 1..k
        BY <2>2, <3>4
      <4>2. g[j] = step[j][g[j - 1]]
        BY <2>1, <4>1 DEF Follows
      <4> QED BY <3>1, <3>2, <3>4, <4>2
    <3> QED BY <3>3, <3>4
  <2>9. Follows(V, a, i, step, h)
    BY <2>6, <2>7, <2>8 DEF Follows
  <2> QED BY <2>2, <2>9
<1> HIDE DEF S
<1>3. \A k \in 0..n : k \in S
  BY <1>1, <1>2, SetInduction
<1>4. n \in S
  BY <1>3
<1> QED BY <1>4 DEF S

--------------------------------------------------------------------------------
(* Concatenation *)

\* The running concatenation of n sequences.
Joins(V, n, ss, g) ==
    /\ g \in [1..n -> Seq(V)]
    /\ g = [i \in 1..n |-> IF i = 1 THEN ss[i] ELSE g[i - 1] \o ss[i]]

\* A running concatenation exists.
LEMMA RunningJoin ==
    ASSUME NEW V, NEW n \in Nat, NEW ss \in [1..n -> Seq(V)]
    PROVE  \E g : Joins(V, n, ss, g)
<1> DEFINE step == [i \in 1..n |-> [s \in Seq(V) |-> s \o ss[i]]]
<1>1. \A i \in 1..n : [s \in Seq(V) |-> s \o ss[i]] \in [Seq(V) -> Seq(V)]
  BY ConcatProperties
<1>2. Steps(Seq(V), n, step) /\ <<>> \in Seq(V)
  BY <1>1 DEF Steps
<1>9. \A i \in 1..n : \A s \in Seq(V) : step[i][s] = s \o ss[i]
  OBVIOUS
<1> HIDE DEF step
<1>3. PICK g : Follows(Seq(V), <<>>, n, step, g)
  BY <1>2, Recursion, Zenon
<1> DEFINE h == [i \in 1..n |-> g[i]]
<1>4. h \in [1..n -> Seq(V)]
  BY <1>3 DEF Follows
<1>5. ASSUME NEW i \in 1..n
      PROVE  h[i] = IF i = 1 THEN ss[i] ELSE h[i - 1] \o ss[i]
  <2>1. i - 1 \in 0..n /\ i \in 0..n
    OBVIOUS
  <2>2. g[i - 1] \in Seq(V) /\ g[i] = step[i][g[i - 1]]
    BY <1>3, <2>1 DEF Follows
  <2>3. g[i] = g[i - 1] \o ss[i]
    BY <1>9, <2>2
  <2>4. CASE i = 1
    <3>1. g[i - 1] = <<>>
      BY <1>3, <2>4 DEF Follows
    <3>2. <<>> \o ss[i] = ss[i]
      BY ConcatEmptySeq
    <3> QED BY <2>3, <2>4, <3>1, <3>2
  <2>5. CASE i # 1
    <3>1. i - 1 \in 1..n
      BY <2>5
    <3> QED BY <2>3, <2>5, <3>1
  <2> QED BY <2>4, <2>5
<1>6. h = [i \in 1..n |-> IF i = 1 THEN ss[i] ELSE h[i - 1] \o ss[i]]
  BY <1>5
<1>7. Joins(V, n, ss, h)
  BY <1>4, <1>6 DEF Joins
<1> QED BY <1>7

\* Concatenating sequences over a set gives a sequence over this set.
LEMMA FlattenedType ==
    ASSUME NEW V, NEW n \in Nat, NEW ss \in [1..n -> Seq(V)]
    PROVE  FlattenSeq(ss) \in Seq(V)
<1>1. ss \in Seq(Seq(V)) /\ Len(ss) = n
  OBVIOUS
<1>2. CASE n = 0
  <2>1. ss = <<>>
    BY <1>1, <1>2, EmptySeq
  <2> QED BY <1>1, <1>2, <2>1 DEF FlattenSeq
<1>3. CASE n # 0
  <2> DEFINE f == CHOOSE g : g = [i \in 1..n |-> IF i = 1 THEN ss[i] ELSE g[i - 1] \o ss[i]]
  <2>1. FlattenSeq(ss) = f[n]
    BY <1>1, <1>3 DEF FlattenSeq
  <2>2. \E g : g = [i \in 1..n |-> IF i = 1 THEN ss[i] ELSE g[i - 1] \o ss[i]]
    <3>1. PICK g : Joins(V, n, ss, g)
      BY RunningJoin, Zenon
    <3> QED BY <3>1 DEF Joins
  <2>3. f = [i \in 1..n |-> IF i = 1 THEN ss[i] ELSE f[i - 1] \o ss[i]]
    BY <2>2
  <2> HIDE DEF f
  <2> DEFINE S == {k \in Nat : k + 1 \in 1..n => f[k + 1] \in Seq(V)}
  <2>4. 0 \in S
    BY <1>3, <2>3
  <2>5. ASSUME NEW k \in 0..(n - 1), k \in S
        PROVE  k + 1 \in S
    <3> SUFFICES ASSUME k + 2 \in 1..n PROVE f[k + 2] \in Seq(V)
      OBVIOUS
    <3>1. k + 1 \in 1..n /\ k + 2 # 1 /\ (k + 2) - 1 = k + 1
      OBVIOUS
    <3>2. f[k + 1] \in Seq(V) /\ ss[k + 2] \in Seq(V)
      BY <2>5, <3>1
    <3>3. f[k + 2] = f[k + 1] \o ss[k + 2]
      BY <2>3, <3>1
    <3> QED BY <3>2, <3>3, ConcatProperties
  <2> HIDE DEF S
  <2>6. \A k \in 0..n : k \in S
    BY <2>4, <2>5, SetInduction
  <2>7. n - 1 \in 0..n /\ (n - 1) + 1 = n /\ n \in 1..n
    BY <1>3
  <2>8. f[n] \in Seq(V)
    BY <2>6, <2>7 DEF S
  <2> QED BY <2>1, <2>8
<1> QED BY <1>2, <1>3
================================================================================
