--------------------------- MODULE BatchRoundsProofs ---------------------------
(***************************************************************************)
(* Theorems about BatchRounds: for any number of sources, priorities and   *)
(* frames, the remembered place exists unless late sources shifted the     *)
(* groups, no source is left out of more full batches than there are other *)
(* sources, the more urgent sources come first, and a batch takes all that *)
(* is offered and fits.                                                    *)
(***************************************************************************)
EXTENDS BatchRounds, BatchPolicyProofs

--------------------------------------------------------------------------------
(* Sets of numbers in ascending order *)

Lower(S, x) == {y \in S : y < x}

\* A set of natural numbers is numbered by how many of its members are lower.
LEMMA RankIsNumbering ==
    ASSUME NEW S \in SUBSET Nat, IsFiniteSet(S)
    PROVE  /\ \A x \in S : Cardinality(Lower(S, x)) \in 0..(Cardinality(S) - 1)
           /\ \A x, z \in S : x < z => Cardinality(Lower(S, x)) < Cardinality(Lower(S, z))
           /\ \A i \in 0..(Cardinality(S) - 1) : \E x \in S : Cardinality(Lower(S, x)) = i
<1>1. \A x \in S : IsFiniteSet(Lower(S, x)) /\ Cardinality(Lower(S, x)) \in Nat
  BY FS_Subset, FS_CardinalityType DEF Lower
<1>2. Cardinality(S) \in Nat
  BY FS_CardinalityType
<1>3. ASSUME NEW x \in S
      PROVE  Cardinality(Lower(S, x)) \in 0..(Cardinality(S) - 1)
  <2>1. Lower(S, x) \subseteq S /\ Lower(S, x) # S
    BY DEF Lower
  <2>2. Cardinality(Lower(S, x)) < Cardinality(S)
    BY <1>1, <1>2, <2>1, FS_Subset
  <2> QED BY <1>1, <1>2, <2>2
<1>4. ASSUME NEW x \in S, NEW z \in S, x < z
      PROVE  Cardinality(Lower(S, x)) < Cardinality(Lower(S, z))
  <2>1. Lower(S, x) \subseteq Lower(S, z)
    <3>1. x \in Nat /\ z \in Nat /\ \A y \in S : y \in Nat
      OBVIOUS
    <3>2. \A y \in S : y < x => y < z
      BY <1>4, <3>1
    <3> QED BY <3>2 DEF Lower
  <2>2. x \in Lower(S, z) /\ x \notin Lower(S, x)
    BY <1>4 DEF Lower
  <2>3. Lower(S, x) # Lower(S, z)
    BY <2>2
  <2>4. Cardinality(Lower(S, x)) <= Cardinality(Lower(S, z))
    BY <1>1, <2>1, FS_Subset
  <2>5. Cardinality(Lower(S, x)) # Cardinality(Lower(S, z))
    BY <1>1, <2>1, <2>3, FS_Subset
  <2> QED BY <1>1, <2>4, <2>5
<1> DEFINE T == 0..(Cardinality(S) - 1)
           rank == [x \in S |-> Cardinality(Lower(S, x))]
<1>5. rank \in [S -> T]
  BY <1>3
<1>6. IsFiniteSet(T) /\ Cardinality(T) = Cardinality(S)
  <2>1. 0 \in Int /\ Cardinality(S) - 1 \in Int
    BY <1>2
  <2>2. /\ IsFiniteSet(T)
        /\ Cardinality(T) = IF 0 > Cardinality(S) - 1 THEN 0 ELSE Cardinality(S) - 1 - 0 + 1
    BY <2>1, FS_Interval
  <2> QED BY <1>2, <2>2
<1>7. ASSUME NEW x \in S, NEW z \in S, rank[x] = rank[z]
      PROVE  x = z
  <2>1. ~(x < z) /\ ~(z < x)
    <3>1. Cardinality(Lower(S, x)) = Cardinality(Lower(S, z))
      BY <1>7
    <3> QED BY <1>1, <1>4, <3>1
  <2> QED BY <2>1
<1>8. rank \in Injection(S, T)
  BY <1>5, <1>7 DEF Injection, IsInjective
<1>9. rank \in Surjection(S, T)
  BY <1>6, <1>8, FS_Injection
<1>10. \A i \in T : \E x \in S : rank[x] = i
  BY <1>9 DEF Surjection
<1> QED BY <1>3, <1>4, <1>10

\* What Ascending yields: all members, once, the lower ones first.
IsAscending(S, a) ==
    /\ a \in Seq(S) /\ Len(a) = Cardinality(S) /\ Len(a) \in Nat
    /\ \A x \in S : \E i \in 1..Len(a) : a[i] = x
    /\ \A i, j \in 1..Len(a) : i < j => a[i] < a[j]

\* Ascending sorts a finite set of numbers.
LEMMA AscendingSorts ==
    ASSUME NEW S \in SUBSET Nat, IsFiniteSet(S)
    PROVE  IsAscending(S, Ascending(S))
<1> DEFINE n == Cardinality(S)
           a == Ascending(S)
           At(i) == CHOOSE x \in S : Cardinality(Lower(S, x)) = i - 1
<1>1. n \in Nat
  BY FS_CardinalityType
<1>2. a = [i \in 1..n |-> At(i)]
  BY DEF Ascending, Lower
<1>3. ASSUME NEW i \in 1..n
      PROVE  At(i) \in S /\ Cardinality(Lower(S, At(i))) = i - 1
  <2>1. i - 1 \in 0..(n - 1)
    BY <1>1
  <2>2. \E x \in S : Cardinality(Lower(S, x)) = i - 1
    BY <2>1, RankIsNumbering
  <2> QED BY <2>2
<1> HIDE DEF a, At
<1>4. /\ DOMAIN a = 1..n
      /\ \A i \in 1..n : a[i] \in S /\ Cardinality(Lower(S, a[i])) = i - 1
  BY <1>2, <1>3
<1>5. a \in [1..n -> S]
  BY <1>2, <1>3
<1>6. a \in Seq(S) /\ Len(a) = n
  BY <1>1, <1>5
<1>7. ASSUME NEW x \in S
      PROVE  \E i \in 1..n : a[i] = x
  <2> DEFINE i == Cardinality(Lower(S, x)) + 1
  <2>1. Cardinality(Lower(S, x)) \in 0..(n - 1)
    BY RankIsNumbering
  <2>2. i \in 1..n /\ Cardinality(Lower(S, x)) = i - 1
    BY <1>1, <2>1
  <2> HIDE DEF i
  <2>3. a[i] \in S /\ Cardinality(Lower(S, a[i])) = Cardinality(Lower(S, x))
    BY <1>4, <2>2
  <2>4. ~(a[i] < x) /\ ~(x < a[i])
    <3>1. Cardinality(Lower(S, a[i])) \in 0..(n - 1)
      BY <2>3, RankIsNumbering
    <3> HIDE DEF n
    <3>2. a[i] < x => Cardinality(Lower(S, a[i])) < Cardinality(Lower(S, x))
      BY <2>3, RankIsNumbering
    <3>3. x < a[i] => Cardinality(Lower(S, x)) < Cardinality(Lower(S, a[i]))
      BY <2>3, RankIsNumbering
    <3> QED BY <2>1, <2>3, <3>1, <3>2, <3>3
  <2>5. a[i] \in Nat /\ x \in Nat
    BY <2>3
  <2>6. a[i] = x
    BY <2>4, <2>5
  <2> QED BY <2>2, <2>6
<1>8. ASSUME NEW i \in 1..n, NEW j \in 1..n, i < j
      PROVE  a[i] < a[j]
  <2>1. a[i] \in S /\ a[j] \in S
    BY <1>4
  <2>2. /\ Cardinality(Lower(S, a[i])) = i - 1
        /\ Cardinality(Lower(S, a[j])) = j - 1
    BY <1>4
  <2>3. a[i] # a[j]
    BY <1>1, <1>8, <2>2
  <2>4. a[j] < a[i] => Cardinality(Lower(S, a[j])) < Cardinality(Lower(S, a[i]))
    BY <2>1, RankIsNumbering
  <2>5. ~(a[j] < a[i])
    BY <1>1, <1>8, <2>2, <2>4
  <2>6. a[i] \in Nat /\ a[j] \in Nat
    BY <2>1
  <2> QED BY <2>3, <2>5, <2>6
<1> QED BY <1>1, <1>6, <1>7, <1>8 DEF IsAscending, a

--------------------------------------------------------------------------------
(* The groups of the known sources *)

Levels == {PriorityOf(s) : s \in Range(known)}
Members(p) == {i \in DOMAIN known : PriorityOf(known[i]) = p}
Level(g) == Ascending(Levels)[g]

\* The sources there are: listed once, each with a priority.
SourcesInv ==
    /\ config \in [roundRobin : BOOLEAN, priority : Priorities]
    /\ known \in Seq(Sources) /\ IsInjective(known)
    /\ DOMAIN config.priority \subseteq Range(known)
    /\ attached \subseteq Range(known)

At(p) == Groups[p[1]][p[2]]

\* Priorities are natural numbers, and there are finitely many.
LEMMA LevelsAre ==
    ASSUME SourcesInv
    PROVE  /\ \A s \in Sources : PriorityOf(s) \in Nat
           /\ Range(known) \subseteq Sources
           /\ Levels \in SUBSET Nat /\ IsFiniteSet(Levels)
           /\ \A p : Members(p) \in SUBSET Nat /\ IsFiniteSet(Members(p))
           /\ \A p \in Levels : Cardinality(Members(p)) \in Nat \ {0}
<1>1. known \in Seq(Sources) /\ DOMAIN known = 1..Len(known) /\ Len(known) \in Nat
  BY DEF SourcesInv
<1>2. config.priority \in Priorities
  BY DEF SourcesInv
<1>3. \A s \in Sources : PriorityOf(s) \in Nat
  BY <1>2, BatchRoundsAssumption DEF PriorityOf, DefaultPriority
<1>4. Range(known) \subseteq Sources
  BY <1>1 DEF Range
<1>5. Levels \in SUBSET Nat
  BY <1>3, <1>4 DEF Levels
<1>6. IsFiniteSet(Range(known))
  BY <1>4, BatchRoundsAssumption, FS_Subset
<1>7. IsFiniteSet(Levels)
  <2> DEFINE f == [s \in Range(known) |-> PriorityOf(s)]
  <2>1. f \in Surjection(Range(known), Levels)
    BY DEF Surjection, Levels
  <2> QED BY <1>6, <2>1, FS_Surjection
<1>8. \A p : Members(p) \in SUBSET (1..Len(known))
  BY <1>1 DEF Members
<1>9. IsFiniteSet(1..Len(known))
  BY <1>1, FS_Interval
<1>10. \A p : Members(p) \in SUBSET Nat /\ IsFiniteSet(Members(p))
  BY <1>1, <1>8, <1>9, FS_Subset
<1>11. ASSUME NEW p \in Levels
       PROVE  Cardinality(Members(p)) \in Nat \ {0}
  <2>1. PICK s \in Range(known) : p = PriorityOf(s)
    BY DEF Levels
  <2>2. PICK i \in DOMAIN known : known[i] = s
    BY DEF Range
  <2>3. i \in Members(p)
    BY <2>1, <2>2 DEF Members
  <2>4. Members(p) # {}
    BY <2>3
  <2> QED BY <1>10, <2>4, FS_EmptySet, FS_CardinalityType
<1> QED BY <1>3, <1>4, <1>5, <1>7, <1>10, <1>11

\* There is a group for each priority, with the sources that have it.
LEMMA GroupsByPriority ==
    ASSUME SourcesInv
    PROVE  /\ Groups \in Seq(Seq(Sources))
           /\ Len(Groups) = Cardinality(Levels) /\ Len(Groups) \in Nat
           /\ IsAscending(Levels, Ascending(Levels))
           /\ \A g \in 1..Len(Groups) :
                 /\ Level(g) \in Levels
                 /\ IsAscending(Members(Level(g)), Ascending(Members(Level(g))))
                 /\ Groups[g] \in Seq(Sources)
                 /\ Len(Groups[g]) = Cardinality(Members(Level(g)))
                 /\ Len(Groups[g]) \in Nat \ {0}
                 /\ \A i \in 1..Len(Groups[g]) :
                       Groups[g][i] = known[Ascending(Members(Level(g)))[i]]
<1> DEFINE list == Ascending(Levels)
           index(g) == Ascending(Members(list[g]))
           n == Cardinality(Levels)
<1>1. IsAscending(Levels, list)
  BY LevelsAre, AscendingSorts
<1>2. DOMAIN list = 1..n /\ n \in Nat /\ \A g \in 1..n : list[g] \in Levels
  BY <1>1 DEF IsAscending
<1>3. \A g : IsAscending(Members(list[g]), index(g))
  BY LevelsAre, AscendingSorts
<1>4. Groups = [g \in DOMAIN list |-> [i \in DOMAIN index(g) |-> known[index(g)[i]]]]
  BY DEF Groups, Levels, Members
<1>5. ASSUME NEW g \in 1..n
      PROVE  /\ Groups[g] \in Seq(Sources)
             /\ Len(Groups[g]) = Cardinality(Members(list[g]))
             /\ Len(Groups[g]) \in Nat \ {0}
             /\ \A i \in 1..Len(Groups[g]) : Groups[g][i] = known[index(g)[i]]
  <2> DEFINE a == index(g)
             m == Cardinality(Members(list[g]))
  <2>1. m \in Nat \ {0}
    BY <1>2, LevelsAre
  <2>2. a \in Seq(Members(list[g])) /\ Len(a) = m
    BY <1>3 DEF IsAscending
  <2>3. DOMAIN a = 1..m /\ \A i \in 1..m : a[i] \in DOMAIN known
    <3>1. Members(list[g]) \subseteq DOMAIN known
      BY DEF Members
    <3> HIDE DEF a, m, list
    <3> QED BY <2>1, <2>2, <3>1
  <2>4. known \in [DOMAIN known -> Sources]
    BY DEF SourcesInv
  <2>5. Groups[g] = [i \in 1..m |-> known[a[i]]]
    BY <1>2, <1>4, <2>3
  <2> HIDE DEF a, m
  <2>6. Groups[g] \in [1..m -> Sources] /\ \A i \in 1..m : Groups[g][i] = known[a[i]]
    BY <2>3, <2>4, <2>5
  <2>7. Groups[g] \in Seq(Sources) /\ Len(Groups[g]) = m
    BY <2>1, <2>6
  <2> QED BY <2>1, <2>6, <2>7 DEF a, m
<1>6. Groups = [g \in 1..n |-> Groups[g]]
  BY <1>2, <1>4
<1> HIDE DEF n, list
<1>7. Groups \in [1..n -> Seq(Sources)]
  BY <1>5, <1>6
<1>8. Groups \in Seq(Seq(Sources)) /\ Len(Groups) = n
  BY <1>2, <1>7
<1> QED BY <1>1, <1>2, <1>3, <1>5, <1>8 DEF n, list, Level

\* Every known source is at one place; a more urgent one is in an earlier group.
LEMMA PlacesHoldSources ==
    ASSUME SourcesInv
    PROVE  /\ \A p \in Places(Groups) : At(p) \in Range(known)
           /\ \A s \in Range(known) : \E p \in Places(Groups) : At(p) = s
           /\ \A p, q \in Places(Groups) : At(p) = At(q) => p = q
           /\ \A p, q \in Places(Groups) :
                 PriorityOf(At(p)) < PriorityOf(At(q)) => p[1] < q[1]
<1> DEFINE n == Len(Groups)
           list == Ascending(Levels)
           index(g) == Ascending(Members(Level(g)))
<1>1. n \in Nat /\ IsAscending(Levels, list) /\ Len(list) = n
  BY GroupsByPriority DEF IsAscending
<1>2. \A i, j \in 1..n : i < j => list[i] < list[j]
  BY <1>1 DEF IsAscending
<1>3. ASSUME NEW p \in Places(Groups)
      PROVE  /\ p[1] \in 1..n /\ p = <<p[1], p[2]>>
             /\ index(p[1]) \in Seq(Members(Level(p[1])))
             /\ p[2] \in 1..Len(index(p[1]))
             /\ index(p[1])[p[2]] \in Members(Level(p[1]))
             /\ At(p) = known[index(p[1])[p[2]]]
  <2>1. p[1] \in 1..n /\ p[2] \in 1..Len(Groups[p[1]]) /\ p = <<p[1], p[2]>>
    BY DEF Places
  <2>2. /\ Len(Groups[p[1]]) = Cardinality(Members(Level(p[1])))
        /\ At(p) = known[index(p[1])[p[2]]]
        /\ IsAscending(Members(Level(p[1])), index(p[1]))
    BY <2>1, GroupsByPriority DEF At
  <2>3. index(p[1]) \in Seq(Members(Level(p[1]))) /\ p[2] \in 1..Len(index(p[1]))
    BY <2>1, <2>2 DEF IsAscending
  <2> HIDE DEF index, n
  <2>4. index(p[1])[p[2]] \in Members(Level(p[1]))
    BY <2>3
  <2> QED BY <2>1, <2>2, <2>3, <2>4
<1>4. ASSUME NEW p \in Places(Groups)
      PROVE  At(p) \in Range(known) /\ PriorityOf(At(p)) = list[p[1]] /\ list[p[1]] \in Nat
  <2>1. index(p[1])[p[2]] \in DOMAIN known /\ PriorityOf(At(p)) = list[p[1]]
    BY <1>3 DEF Members, Level
  <2>2. list[p[1]] \in Levels
    BY <1>3, GroupsByPriority DEF Level
  <2> QED BY <1>3, <2>1, <2>2, LevelsAre DEF Range
<1>5. ASSUME NEW s \in Range(known)
      PROVE  \E p \in Places(Groups) : At(p) = s
  <2>1. PICK k \in DOMAIN known : known[k] = s
    BY DEF Range
  <2>2. PriorityOf(s) \in Levels
    BY DEF Levels
  <2>3. PICK g \in 1..n : list[g] = PriorityOf(s)
    BY <1>1, <2>2 DEF IsAscending
  <2>4. k \in Members(Level(g))
    BY <2>1, <2>3 DEF Members, Level
  <2>5. /\ IsAscending(Members(Level(g)), index(g))
        /\ Len(Groups[g]) = Cardinality(Members(Level(g)))
        /\ \A i \in 1..Len(Groups[g]) : Groups[g][i] = known[index(g)[i]]
    BY GroupsByPriority
  <2>6. PICK i \in 1..Len(index(g)) : index(g)[i] = k
    BY <2>4, <2>5 DEF IsAscending
  <2>7. i \in 1..Len(Groups[g])
    BY <2>5, <2>6 DEF IsAscending
  <2>8. i \in Nat
    BY <2>5, <2>6 DEF IsAscending
  <2>9. <<g, i>> \in Places(Groups)
    BY <2>7, <2>8 DEF Places
  <2>10. At(<<g, i>>) = s
    BY <2>1, <2>5, <2>6, <2>7 DEF At
  <2> QED BY <2>9, <2>10
<1>6. ASSUME NEW p \in Places(Groups), NEW q \in Places(Groups), At(p) = At(q)
      PROVE  p = q
  <2>1. list[p[1]] = list[q[1]] /\ list[p[1]] \in Nat
    BY <1>4, <1>6
  <2>2. p[1] \in 1..n /\ q[1] \in 1..n
    BY <1>3
  <2>3. ~(p[1] < q[1]) /\ ~(q[1] < p[1])
    <3> HIDE DEF list, n
    <3> QED BY <1>2, <2>1, <2>2
  <2>4. p[1] = q[1]
    BY <1>1, <2>2, <2>3
  <2> DEFINE a == index(p[1])
  <2>5. /\ p[2] \in 1..Len(a) /\ q[2] \in 1..Len(a)
        /\ a[p[2]] \in Members(Level(p[1])) /\ a[q[2]] \in Members(Level(p[1]))
        /\ known[a[p[2]]] = known[a[q[2]]]
    BY <1>3, <1>6, <2>4
  <2>6. IsAscending(Members(Level(p[1])), a)
    BY <2>2, GroupsByPriority
  <2>7. a[p[2]] \in DOMAIN known /\ a[q[2]] \in DOMAIN known
    BY <2>5 DEF Members
  <2>8. a[p[2]] = a[q[2]] /\ a[p[2]] \in Nat
    BY <2>5, <2>7 DEF SourcesInv, IsInjective
  <2> HIDE DEF a
  <2>9. ~(p[2] < q[2]) /\ ~(q[2] < p[2]) /\ Len(a) \in Nat
    BY <2>5, <2>6, <2>8 DEF IsAscending
  <2>10. p[2] = q[2]
    BY <2>5, <2>9
  <2> QED BY <1>3, <2>4, <2>10
<1>7. ASSUME NEW p \in Places(Groups), NEW q \in Places(Groups),
             PriorityOf(At(p)) < PriorityOf(At(q))
      PROVE  p[1] < q[1]
  <2>1. list[p[1]] < list[q[1]] /\ list[p[1]] \in Nat /\ list[q[1]] \in Nat
    BY <1>4, <1>7
  <2>2. p[1] \in 1..n /\ q[1] \in 1..n
    BY <1>3
  <2>3. ~(q[1] < p[1]) /\ p[1] # q[1]
    <3> HIDE DEF list, n
    <3> QED BY <1>2, <2>1, <2>2
  <2> QED BY <1>1, <2>2, <2>3
<1> QED BY <1>4, <1>5, <1>6, <1>7

\* The first numbers are in ascending order.
LEMMA AscendingInterval ==
    ASSUME NEW n \in Nat, NEW i \in 1..n
    PROVE  Ascending(1..n)[i] = i
<1>1. \A x \in 1..n : {y \in 1..n : y < x} = 1..(x - 1)
  OBVIOUS
<1>2. \A x \in 1..n : Cardinality(1..(x - 1)) = x - 1
  <2> TAKE x \in 1..n
  <2>1. 1 \in Int /\ x - 1 \in Int
    OBVIOUS
  <2>2. Cardinality(1..(x - 1)) = IF 1 > x - 1 THEN 0 ELSE x - 1 - 1 + 1
    BY <2>1, FS_Interval
  <2> QED BY <2>2
<1>3. Cardinality(1..n) = n
  <2>1. 1 \in Int /\ n \in Int
    OBVIOUS
  <2>2. Cardinality(1..n) = IF 1 > n THEN 0 ELSE n - 1 + 1
    BY <2>1, FS_Interval
  <2> QED BY <2>2
<1> DEFINE x == CHOOSE z \in 1..n : Cardinality({y \in 1..n : y < z}) = i - 1
<1>4. Ascending(1..n)[i] = x
  BY <1>3 DEF Ascending
<1>5. Cardinality({y \in 1..n : y < i}) = i - 1
  BY <1>1, <1>2
<1>6. x \in 1..n /\ Cardinality({y \in 1..n : y < x}) = i - 1
  BY <1>5
<1> HIDE DEF x
<1>7. x - 1 = i - 1
  BY <1>1, <1>2, <1>6
<1> QED BY <1>4, <1>6, <1>7

\* If all sources have the same priority, the group lists them as they came.
LEMMA OneGroup ==
    ASSUME SourcesInv, Len(Groups) = 1
    PROVE  Groups[1] = known
<1>1. Cardinality(Levels) = 1 /\ Level(1) \in Levels
  BY GroupsByPriority
<1>2. PICK x : Levels = {x}
  BY <1>1, LevelsAre, FS_Singleton
<1>3. known \in Seq(Sources) /\ Len(known) \in Nat /\ DOMAIN known = 1..Len(known)
  BY DEF SourcesInv
<1>4. \A i \in DOMAIN known : PriorityOf(known[i]) = Level(1)
  BY <1>1, <1>2 DEF Levels, Range
<1>5. Members(Level(1)) = 1..Len(known)
  BY <1>3, <1>4 DEF Members
<1>6. Cardinality(1..Len(known)) = Len(known)
  <2>1. 1 \in Int /\ Len(known) \in Int
    BY <1>3
  <2>2. Cardinality(1..Len(known)) = IF 1 > Len(known) THEN 0 ELSE Len(known) - 1 + 1
    BY <2>1, FS_Interval
  <2> QED BY <1>3, <2>2
<1>7. /\ Groups[1] \in Seq(Sources) /\ Len(Groups[1]) = Len(known)
      /\ \A i \in 1..Len(known) : Groups[1][i] = known[Ascending(1..Len(known))[i]]
  BY <1>5, <1>6, GroupsByPriority
<1>8. \A i \in 1..Len(known) : Groups[1][i] = known[i]
  BY <1>3, <1>7, AscendingInterval
<1> QED BY <1>3, <1>7, <1>8

--------------------------------------------------------------------------------
(* The places of a walk *)

\* w is the concatenation of n sequences, and off[j] the length of the first j of them.
Parts(n, ss, off, w) ==
    /\ off \in [0..n -> Nat] /\ off[0] = 0 /\ Len(w) = off[n]
    /\ \A j \in 1..n : off[j] = off[j - 1] + Len(ss[j])
    /\ \A j \in 1..n : \A i \in 1..Len(ss[j]) :
          off[j - 1] + i \in 1..Len(w) /\ w[off[j - 1] + i] = ss[j][i]
    /\ \A k \in 1..Len(w) : \E j \in 1..n : \E i \in 1..Len(ss[j]) : k = off[j - 1] + i
    /\ \A j, l \in 1..n : j < l => off[j] <= off[l - 1]

\* Concatenated sequences follow one another.
LEMMA FlattenedParts ==
    ASSUME NEW V, NEW n \in Nat \ {0}, NEW ss \in [1..n -> Seq(V)]
    PROVE  \E off : Parts(n, ss, off, FlattenSeq(ss))
<1> DEFINE f == CHOOSE g : g = [i \in 1..n |-> IF i = 1 THEN ss[i] ELSE g[i - 1] \o ss[i]]
           w == FlattenSeq(ss)
<1>1. ss \in Seq(Seq(V)) /\ Len(ss) = n
  OBVIOUS
<1>2. w = f[n]
  BY <1>1 DEF FlattenSeq
<1>3. PICK g : Joins(V, n, ss, g)
  BY RunningJoin, Zenon
<1>4. f = [i \in 1..n |-> IF i = 1 THEN ss[i] ELSE f[i - 1] \o ss[i]]
  BY <1>3 DEF Joins
<1> HIDE DEF f, w
<1>5. \A i \in 1..n : f[i] = IF i = 1 THEN ss[i] ELSE f[i - 1] \o ss[i]
  BY <1>4, Zenon
<1>6. ASSUME NEW m \in 1..n
      PROVE  f[m] \in Seq(V)
  <2> DEFINE S == {k \in Nat : k + 1 \in 1..n => f[k + 1] \in Seq(V)}
  <2>1. 0 \in S
    BY <1>5
  <2>2. ASSUME NEW k \in 0..(n - 1), k \in S
        PROVE  k + 1 \in S
    <3> SUFFICES ASSUME k + 2 \in 1..n PROVE f[k + 2] \in Seq(V)
      OBVIOUS
    <3>1. k + 1 \in 1..n /\ k + 2 # 1 /\ (k + 2) - 1 = k + 1
      OBVIOUS
    <3>2. f[k + 1] \in Seq(V) /\ ss[k + 2] \in Seq(V)
      BY <2>2, <3>1
    <3>3. f[k + 2] = f[k + 1] \o ss[k + 2]
      BY <1>5, <3>1
    <3> QED BY <3>2, <3>3, ConcatProperties
  <2> HIDE DEF S
  <2>3. \A k \in 0..n : k \in S
    BY <2>1, <2>2, SetInduction
  <2>4. m - 1 \in 0..n /\ (m - 1) + 1 = m
    OBVIOUS
  <2> QED BY <2>3, <2>4 DEF S
<1> DEFINE off == [j \in 0..n |-> IF j = 0 THEN 0 ELSE Len(f[j])]
<1>7. off \in [0..n -> Nat] /\ off[0] = 0
  BY <1>6
<1>8. \A j \in 1..n : off[j] = Len(f[j]) /\ off[j] \in Nat /\ off[j - 1] \in Nat
  <2> TAKE j \in 1..n
  <2>1. j \in 0..n /\ j # 0 /\ j - 1 \in 0..n
    OBVIOUS
  <2> QED BY <1>7, <2>1
<1>9. \A j \in 1..n : Len(ss[j]) \in Nat
  OBVIOUS
<1>10. ASSUME NEW j \in 1..n
       PROVE  off[j] = off[j - 1] + Len(ss[j])
  <2>1. CASE j = 1
    <3>1. f[1] = ss[1] /\ off[0] = 0 /\ j - 1 = 0
      BY <1>5, <1>7, <2>1
    <3> HIDE DEF off
    <3> QED BY <1>8, <1>9, <2>1, <3>1
  <2>2. CASE j # 1
    <3>1. j - 1 \in 1..n
      BY <2>2
    <3>2. f[j] = f[j - 1] \o ss[j] /\ f[j - 1] \in Seq(V) /\ ss[j] \in Seq(V)
      BY <1>5, <1>6, <2>2, <3>1
    <3>3. Len(f[j]) = Len(f[j - 1]) + Len(ss[j])
      BY <3>2, ConcatProperties
    <3> HIDE DEF off
    <3> QED BY <1>8, <3>1, <3>3
  <2> QED BY <2>1, <2>2
<1> HIDE DEF off
<1> DEFINE Prefix(m) ==
              /\ \A j \in 1..m : \A i \in 1..Len(ss[j]) :
                    off[j - 1] + i \in 1..off[m] /\ f[m][off[j - 1] + i] = ss[j][i]
              /\ \A k \in 1..off[m] : \E j \in 1..m : \E i \in 1..Len(ss[j]) : k = off[j - 1] + i
              /\ \A j \in 0..m : off[j] <= off[m]
<1>11. Prefix(1)
  <2>1. off[1] = Len(ss[1]) /\ f[1] = ss[1] /\ off[0] = 0 /\ Len(ss[1]) \in Nat
    <3>1. 1 \in 1..n /\ 1 - 1 = 0
      OBVIOUS
    <3> QED BY <1>5, <1>7, <1>9, <1>10, <3>1
  <2>2. \A j : j \in 1..1 <=> j = 1
    OBVIOUS
  <2>3. \A i \in 1..Len(ss[1]) : 0 + i = i /\ i \in 1..off[1]
    BY <2>1
  <2>4. \A j \in 0..1 : j = 0 \/ j = 1
    OBVIOUS
  <2>5. \A j \in 1..1 : \A i \in 1..Len(ss[j]) :
           off[j - 1] + i \in 1..off[1] /\ f[1][off[j - 1] + i] = ss[j][i]
    BY <2>1, <2>2, <2>3
  <2>6. \A k \in 1..off[1] : \E j \in 1..1 : \E i \in 1..Len(ss[j]) : k = off[j - 1] + i
    <3> TAKE k \in 1..off[1]
    <3>1. 1 \in 1..1 /\ k \in 1..Len(ss[1]) /\ k = off[1 - 1] + k
      BY <2>1
    <3> QED BY <3>1
  <2>7. \A j \in 0..1 : off[j] <= off[1]
    BY <2>1, <2>4
  <2> QED BY <2>5, <2>6, <2>7
<1>12. ASSUME NEW m \in 1..n, m # n, Prefix(m)
       PROVE  Prefix(m + 1)
  <2> DEFINE l == m + 1
  <2>1. l \in 1..n /\ l - 1 = m /\ l # 1 /\ m \in 0..n /\ m \in Nat
    BY <1>12
  <2>2. f[l] = f[m] \o ss[l] /\ f[m] \in Seq(V) /\ ss[l] \in Seq(V)
    BY <1>5, <1>6, <2>1
  <2>3. off[l] = off[m] + Len(ss[l]) /\ off[m] \in Nat /\ Len(ss[l]) \in Nat /\ Len(f[m]) = off[m]
    BY <1>8, <1>9, <1>10, <2>1
  <2> HIDE DEF Prefix
  <2>4. /\ \A k \in 1..off[m] : f[l][k] = f[m][k]
        /\ \A i \in 1..Len(ss[l]) : f[l][off[m] + i] = ss[l][i]
    <3> DEFINE s == f[m]
               t == ss[l]
               a == off[m]
               b == Len(t)
    <3>1. s \in Seq(V) /\ t \in Seq(V) /\ f[l] = s \o t /\ Len(s) = a /\ a \in Nat /\ b \in Nat
      BY <2>2, <2>3
    <3> HIDE DEF s, t, a, l
    <3>2. \A k \in 1..a : (s \o t)[k] = s[k]
      BY <3>1, ConcatProperties
    <3>3. ASSUME NEW i \in 1..b
          PROVE  (s \o t)[a + i] = t[i]
      <4> DEFINE k == a + i
      <4>1. k \in 1..(a + b) /\ ~(k <= a) /\ k - a = i
        BY <3>1
      <4> HIDE DEF k, b
      <4>2. (s \o t)[k] = t[k - Len(s)]
        BY <3>1, <4>1, ConcatProperties DEF b
      <4> QED BY <3>1, <4>1, <4>2 DEF k
    <3> QED BY <3>1, <3>2, <3>3 DEF s, t, a
  <2>5. \A j \in 1..l : j \in 1..m \/ j = l
    BY <2>1
  <2>6. \A j \in 1..m : j \in 1..l /\ j \in 1..n
    BY <2>1
  <2> HIDE DEF l
  <2>7. ASSUME NEW j \in 1..l, NEW i \in 1..Len(ss[j])
        PROVE  off[j - 1] + i \in 1..off[l] /\ f[l][off[j - 1] + i] = ss[j][i]
    <3>1. CASE j \in 1..m
      <4>1. off[j - 1] + i \in 1..off[m] /\ f[m][off[j - 1] + i] = ss[j][i]
        BY <1>12, <3>1 DEF Prefix
      <4> QED BY <2>3, <2>4, <4>1, SMTT(30)
    <3>2. CASE j = l
      <4>1. off[j - 1] = off[m]
        BY <2>1, <3>2
      <4>2. off[m] + i \in 1..off[l]
        BY <2>3, <3>2, SMTT(30)
      <4> QED BY <2>4, <3>2, <4>1, <4>2
    <3> QED BY <2>5, <3>1, <3>2
  <2>8. ASSUME NEW k \in 1..off[l]
        PROVE  \E j \in 1..l : \E i \in 1..Len(ss[j]) : k = off[j - 1] + i
    <3>1. CASE k <= off[m]
      <4>1. k \in 1..off[m]
        BY <2>3, <3>1
      <4>2. PICK j \in 1..m : \E i \in 1..Len(ss[j]) : k = off[j - 1] + i
        BY <1>12, <4>1 DEF Prefix
      <4> QED BY <2>6, <4>2
    <3>2. CASE ~(k <= off[m])
      <4> DEFINE i == k - off[m]
      <4>1. i \in 1..Len(ss[l]) /\ k = off[m] + i
        BY <2>3, <3>2, SMTT(30)
      <4>2. l \in 1..l /\ l - 1 = m
        BY <2>1
      <4> QED BY <4>1, <4>2
    <3> QED BY <3>1, <3>2
  <2>9. ASSUME NEW j \in 0..l
        PROVE  off[j] <= off[l]
    <3>1. CASE j = l
      <4>1. off[l] \in Nat
        BY <2>3, SMTT(30)
      <4> QED BY <3>1, <4>1
    <3>2. CASE j # l
      <4>1. j \in 0..m /\ j \in 0..n
        BY <2>1, <3>2
      <4>2. off[j] <= off[m] /\ off[j] \in Nat
        BY <1>7, <1>12, <4>1 DEF Prefix
      <4> QED BY <2>3, <4>2
    <3> QED BY <3>1, <3>2
  <2>10. Prefix(l)
    BY <2>7, <2>8, <2>9 DEF Prefix
  <2> QED BY <2>10 DEF l
<1> HIDE DEF Prefix
<1>13. ASSUME NEW m \in 1..n
       PROVE  Prefix(m)
  <2> DEFINE S == {k \in Nat : k + 1 \in 1..n => Prefix(k + 1)}
  <2>1. 0 \in S
    BY <1>11
  <2>2. ASSUME NEW k \in 0..(n - 1), k \in S
        PROVE  k + 1 \in S
    <3> SUFFICES ASSUME k + 2 \in 1..n PROVE Prefix(k + 2)
      OBVIOUS
    <3>1. k + 1 \in 1..n /\ k + 1 # n /\ (k + 1) + 1 = k + 2
      OBVIOUS
    <3>2. Prefix(k + 1)
      BY <2>2, <3>1
    <3>3. Prefix((k + 1) + 1)
      BY <1>12, <3>1, <3>2
    <3> QED BY <3>1, <3>3
  <2> HIDE DEF S
  <2>3. \A k \in 0..n : k \in S
    BY <2>1, <2>2, SetInduction
  <2>4. m - 1 \in 0..n /\ (m - 1) + 1 = m
    OBVIOUS
  <2> QED BY <2>3, <2>4 DEF S
<1>14. n \in 1..n /\ Len(w) = off[n] /\ w = f[n]
  BY <1>2, <1>8
<1>15. /\ \A j \in 1..n : \A i \in 1..Len(ss[j]) :
             off[j - 1] + i \in 1..Len(w) /\ w[off[j - 1] + i] = ss[j][i]
       /\ \A k \in 1..Len(w) : \E j \in 1..n : \E i \in 1..Len(ss[j]) : k = off[j - 1] + i
  BY <1>13, <1>14, SMTT(30) DEF Prefix
<1>16. ASSUME NEW j \in 1..n, NEW l \in 1..n, j < l
       PROVE  off[j] <= off[l - 1]
  <2>1. l - 1 \in 1..n /\ j \in 0..(l - 1)
    BY <1>16
  <2> QED BY <1>13, <2>1 DEF Prefix
<1>17. Parts(n, ss, off, w)
  BY <1>7, <1>10, <1>14, <1>15, <1>16 DEF Parts
<1> QED BY <1>17 DEF w

\* The j-th of n, counted from the one behind the first a on, with a wrap around.
Turn(a, n, j) == ((j - 1 + a) % n) + 1

\* A remainder is what is left after the full turns.
LEMMA Division ==
    ASSUME NEW x \in Nat, NEW n \in Nat \ {0}
    PROVE  x % n \in 0..(n - 1) /\ x \div n \in Nat /\ x = n * (x \div n) + (x % n)
  OBVIOUS

\* The only multiple of n between -n and n is zero.
LEMMA OnlyMultiple ==
    ASSUME NEW n \in Nat \ {0}, NEW q \in Int, n * q < n, 0 - n < n * q
    PROVE  q = 0
<1>1. CASE q >= 1
  <2>1. PICK d \in Nat : q = d + 1
    <3>1. q - 1 \in Nat /\ q = (q - 1) + 1
      BY <1>1
    <3> QED BY <3>1
  <2>2. n * q = n * d + n /\ n * d \in Nat
    BY <2>1
  <2> QED BY <2>2
<1>2. CASE q <= -1
  <2>1. PICK d \in Nat : q = 0 - d - 1
    <3>1. 0 - q - 1 \in Nat /\ q = 0 - (0 - q - 1) - 1
      BY <1>2
    <3> QED BY <3>1
  <2>2. n * q = 0 - n * d - n /\ n * d \in Nat
    BY <2>1
  <2> QED BY <2>2
<1> QED BY <1>1, <1>2

\* One turn meets each of the n exactly once.
LEMMA TurnMeetsAll ==
    ASSUME NEW a \in Nat, NEW n \in Nat \ {0}
    PROVE  /\ \A j \in 1..n : Turn(a, n, j) \in 1..n
           /\ \A j, l \in 1..n : Turn(a, n, j) = Turn(a, n, l) => j = l
           /\ \A x \in 1..n : \E j \in 1..n : Turn(a, n, j) = x
<1>1. ASSUME NEW j \in 1..n
      PROVE  Turn(a, n, j) \in 1..n
  <2>1. j - 1 + a \in Nat
    OBVIOUS
  <2> QED BY <2>1, Remainder DEF Turn
<1>2. ASSUME NEW j \in 1..n, NEW l \in 1..n, Turn(a, n, j) = Turn(a, n, l)
      PROVE  j = l
  <2> DEFINE x == j - 1 + a
             y == l - 1 + a
             q == x \div n
             r == y \div n
  <2>1. x \in Nat /\ y \in Nat /\ x - y = j - l /\ x - y < n /\ 0 - n < x - y
    OBVIOUS
  <2>2. x % n \in 0..(n - 1) /\ y % n \in 0..(n - 1)
    BY <2>1, Division
  <2>3. (x % n) + 1 = (y % n) + 1
    BY <1>2 DEF Turn
  <2>4. q \in Nat /\ r \in Nat /\ x = n * q + (x % n) /\ y = n * r + (y % n)
    BY <2>1, Division
  <2> DEFINE u == x % n
             v == y % n
             nq == n * q
             nr == n * r
  <2> HIDE DEF x, y, q, r, u, v
  <2>5. u = v /\ u \in Int /\ nq \in Int /\ nr \in Int /\ x = nq + u /\ y = nr + v
    BY <2>2, <2>3, <2>4 DEF u, v
  <2> HIDE DEF nq, nr
  <2>6. x - y = nq - nr
    BY <2>5
  <2>7. x - y = n * q - n * r
    BY <2>6 DEF nq, nr
  <2>8. n * (q - r) = n * q - n * r /\ q - r \in Int
    BY <2>4
  <2>9. q - r = 0
    BY <2>1, <2>7, <2>8, OnlyMultiple
  <2>10. x - y = 0
    BY <2>4, <2>7, <2>8, <2>9
  <2> QED BY <2>1, <2>10
<1> DEFINE f == [j \in 1..n |-> Turn(a, n, j)]
<1>3. f \in Injection(1..n, 1..n)
  BY <1>1, <1>2 DEF Injection, IsInjective
<1>4. IsFiniteSet(1..n)
  BY FS_Interval
<1>5. f \in Surjection(1..n, 1..n)
  BY <1>3, <1>4, FS_Injection
<1>6. \A x \in 1..n : \E j \in 1..n : f[j] = x
  BY <1>5 DEF Surjection
<1> QED BY <1>1, <1>2, <1>6

\* The places of the j-th group of a walk, and how many there are.
GroupOf(groups, start, j) == Turn(start.group, Len(groups), j)
SizeOf(groups, start, j) == Len(groups[GroupOf(groups, start, j)])
Skip(start, j) == IF j = 1 THEN start.source ELSE 0
PlaceOf(groups, start, j, i) ==
    <<GroupOf(groups, start, j), Turn(Skip(start, j), SizeOf(groups, start, j), i)>>

\* A walk goes through the groups one after the other.
InParts(groups, start, w, ss, off) ==
    /\ Parts(Len(groups), ss, off, w)
    /\ \A j \in 1..Len(groups) :
          /\ Len(ss[j]) = SizeOf(groups, start, j)
          /\ \A i \in 1..SizeOf(groups, start, j) : ss[j][i] = PlaceOf(groups, start, j, i)

\* Such parts and their ends exist, for each walk.
LEMMA WalkInParts ==
    ASSUME NEW S, NEW groups, Grouped(groups, S), NEW start, IsPosition(start)
    PROVE  /\ \E ss, off : InParts(groups, start, Walk(groups, start), ss, off)
           /\ \A j \in 1..Len(groups) : SizeOf(groups, start, j) \in Nat
<1> DEFINE n == Len(groups)
           w == Walk(groups, start)
           g(j) == Turn(start.group, n, j)
           skip(j) == IF j = 1 THEN start.source ELSE 0
           size(j) == Len(groups[g(j)])
           ss == [j \in 1..n |-> [i \in 1..size(j) |-> <<g(j), Turn(skip(j), size(j), i)>>]]
<1>1. w = FlattenSeq(ss)
  <2>1. \A j \in 1..n : start.group + j - 1 = j - 1 + start.group
    BY DEF IsPosition
  <2>2. \A j \in 1..n : g(j) = ((start.group + j - 1) % n) + 1
    BY <2>1 DEF Turn
  <2>3. \A j \in 1..n :
           LET h == ((start.group + j - 1) % n) + 1
           IN [i \in 1..Len(groups[h]) |-> <<h, ((i - 1 + skip(j)) % Len(groups[h])) + 1>>]
              = [i \in 1..size(j) |-> <<g(j), Turn(skip(j), size(j), i)>>]
    BY <2>2 DEF Turn
  <2> HIDE DEF g, size
  <2>4. w = FlattenSeq([j \in 1..n |->
                LET h == ((start.group + j - 1) % n) + 1
                IN [i \in 1..Len(groups[h]) |-> <<h, ((i - 1 + skip(j)) % Len(groups[h])) + 1>>]])
    BY DEF Walk
  <2> HIDE DEF n, skip, w
  <2>5. [j \in 1..n |->
           LET h == ((start.group + j - 1) % n) + 1
           IN [i \in 1..Len(groups[h]) |-> <<h, ((i - 1 + skip(j)) % Len(groups[h])) + 1>>]] = ss
    BY <2>3
  <2> HIDE DEF ss
  <2> QED BY <2>4, <2>5
<1>2. n \in Nat \ {0} /\ \A h \in 1..n : groups[h] \in Seq(S) /\ Len(groups[h]) \in Nat
  BY DEF Grouped
<1>3. /\ start.group \in Nat
      /\ \A j \in 1..n : skip(j) \in Nat
  BY DEF IsPosition
<1>4. /\ \A j \in 1..n : g(j) \in 1..n
      /\ \A j, l \in 1..n : g(j) = g(l) => j = l
      /\ \A x \in 1..n : \E j \in 1..n : g(j) = x
  <2> HIDE DEF n
  <2> QED BY <1>2, <1>3, TurnMeetsAll
<1>5. w \in Seq(Places(groups)) /\ Len(w) \in Nat
  BY WalkVisitsPlaces
<1>6. \A k \in 1..Len(w) : w[k] \in Places(groups)
  <2> HIDE DEF w
  <2> QED BY <1>5
<1>7. \A j \in 1..n : DOMAIN ss[j] = 1..size(j) /\ size(j) \in Nat
  BY <1>2, <1>4
<1>8. \A j \in 1..n : \A i \in 1..size(j) : ss[j][i] = <<g(j), Turn(skip(j), size(j), i)>>
  OBVIOUS
<1>9. \A j \in 1..n : ss[j] = [i \in 1..size(j) |-> ss[j][i]]
  OBVIOUS
<1>10. ss = [j \in 1..n |-> ss[j]]
  OBVIOUS
<1> HIDE DEF ss, w, g, size, skip, n
<1>11. ASSUME NEW j \in 1..n, NEW i \in 1..size(j)
       PROVE  Turn(skip(j), size(j), i) \in 1..size(j) /\ ss[j][i] \in (1..n) \X Nat
  <2>1. size(j) \in Nat \ {0}
    BY <1>7
  <2>2. Turn(skip(j), size(j), i) \in 1..size(j)
    BY <1>3, <2>1, TurnMeetsAll
  <2> DEFINE t == Turn(skip(j), size(j), i)
             h == g(j)
  <2>3. h \in 1..n /\ t \in Nat /\ ss[j][i] = <<h, t>>
    BY <1>4, <1>8, <2>1, <2>2
  <2> HIDE DEF t, h
  <2>4. <<h, t>> \in (1..n) \X Nat
    BY <2>3
  <2>5. ss[j][i] \in (1..n) \X Nat
    BY <2>3, <2>4
  <2> QED BY <2>2, <2>5
<1>12. ss \in [1..n -> Seq((1..n) \X Nat)]
  <2>1. \A j \in 1..n : ss[j] \in [1..size(j) -> (1..n) \X Nat]
    BY <1>9, <1>11
  <2>2. \A j \in 1..n : ss[j] \in Seq((1..n) \X Nat)
    BY <1>7, <2>1
  <2> QED BY <1>10, <2>2
<1>13. \A j \in 1..n : Len(ss[j]) = size(j)
  BY <1>7, <1>12
<1>14. PICK off : Parts(n, ss, off, w)
  BY <1>1, <1>2, <1>12, FlattenedParts
<1>15. \A j : /\ g(j) = GroupOf(groups, start, j) /\ size(j) = SizeOf(groups, start, j)
              /\ skip(j) = Skip(start, j)
  BY DEF g, size, skip, n, GroupOf, SizeOf, Skip
<1>16. InParts(groups, start, w, ss, off)
  <2>1. \A j \in 1..n : \A i \in 1..size(j) : ss[j][i] = PlaceOf(groups, start, j, i)
    BY <1>8, <1>15 DEF PlaceOf
  <2> QED BY <1>13, <1>14, <1>15, <2>1 DEF InParts, n
<1> QED BY <1>7, <1>15, <1>16 DEF w, n

\* Wherever it starts, a walk visits every place once.
LEMMA WalkVisitsEachOnce ==
    ASSUME NEW S, NEW groups, Grouped(groups, S), NEW start, IsPosition(start)
    PROVE  LET w == Walk(groups, start)
           IN  /\ Len(w) \in Nat
               /\ \A k \in 1..Len(w) : w[k] \in Places(groups)
               /\ \A k, m \in 1..Len(w) : w[k] = w[m] => k = m
               /\ \A p \in Places(groups) : \E k \in 1..Len(w) : w[k] = p
<1> DEFINE n == Len(groups)
           w == Walk(groups, start)
           g(j) == GroupOf(groups, start, j)
           size(j) == SizeOf(groups, start, j)
           skip(j) == Skip(start, j)
<1>1. PICK ss, off : InParts(groups, start, w, ss, off)
  BY WalkInParts
<1>2. n \in Nat \ {0} /\ \A h \in 1..n : groups[h] \in Seq(S) /\ Len(groups[h]) \in Nat
  BY DEF Grouped
<1>3. /\ start.group \in Nat
      /\ \A j \in 1..n : skip(j) \in Nat
  BY DEF IsPosition, Skip
<1>4. /\ \A j \in 1..n : g(j) \in 1..n
      /\ \A j, l \in 1..n : g(j) = g(l) => j = l
      /\ \A x \in 1..n : \E j \in 1..n : g(j) = x
  <2> HIDE DEF n
  <2>1. \A j : g(j) = Turn(start.group, n, j)
    BY DEF GroupOf, n
  <2> HIDE DEF g
  <2> QED BY <1>2, <1>3, <2>1, TurnMeetsAll
<1>5. w \in Seq(Places(groups)) /\ Len(w) \in Nat
  BY WalkVisitsPlaces
<1>6. \A k \in 1..Len(w) : w[k] \in Places(groups)
  <2> HIDE DEF w
  <2> QED BY <1>5
<1>7. \A j \in 1..n : size(j) \in Nat
  BY WalkInParts
<1>8. \A j \in 1..n : Len(ss[j]) = size(j)
  BY <1>1 DEF InParts
<1>9. Parts(n, ss, off, w)
  BY <1>1 DEF InParts
<1>10. \A j \in 1..n : \A i \in 1..size(j) : ss[j][i] = <<g(j), Turn(skip(j), size(j), i)>>
  BY <1>1 DEF InParts, PlaceOf
<1>11. \A j : size(j) = Len(groups[g(j)])
  BY DEF SizeOf
<1> HIDE DEF w, g, size, skip, n
<1>12. ASSUME NEW k \in 1..Len(w)
       PROVE  \E j \in 1..n : \E i \in 1..size(j) :
                  k = off[j - 1] + i /\ w[k] = <<g(j), Turn(skip(j), size(j), i)>>
  <2>1. PICK j \in 1..n : \E i \in 1..size(j) : k = off[j - 1] + i
    BY <1>8, <1>9 DEF Parts
  <2>2. PICK i \in 1..size(j) : k = off[j - 1] + i
    BY <2>1
  <2>3. w[k] = ss[j][i]
    BY <1>8, <1>9, <2>2 DEF Parts
  <2> QED BY <1>10, <2>2, <2>3
<1>13. ASSUME NEW k \in 1..Len(w), NEW m \in 1..Len(w), w[k] = w[m]
       PROVE  k = m
  <2> DEFINE From1(j, i) == k = off[j - 1] + i /\ w[k] = <<g(j), Turn(skip(j), size(j), i)>>
             From2(j, i) == m = off[j - 1] + i /\ w[m] = <<g(j), Turn(skip(j), size(j), i)>>
  <2>1. PICK j \in 1..n : \E i \in 1..size(j) : From1(j, i)
    BY <1>12
  <2>2. PICK i \in 1..size(j) : From1(j, i)
    BY <2>1
  <2>3. PICK l \in 1..n : \E h \in 1..size(l) : From2(l, h)
    BY <1>12
  <2>4. PICK h \in 1..size(l) : From2(l, h)
    BY <2>3
  <2>5. g(j) = g(l) /\ Turn(skip(j), size(j), i) = Turn(skip(l), size(l), h)
    BY <1>13, <2>2, <2>4
  <2>6. j = l
    BY <1>4, <2>5
  <2>7. size(j) \in Nat \ {0} /\ skip(j) \in Nat
    BY <1>3, <1>7
  <2>8. i = h
    BY <2>5, <2>6, <2>7, TurnMeetsAll
  <2> QED BY <2>2, <2>4, <2>6, <2>8
<1>14. ASSUME NEW p \in Places(groups)
       PROVE  \E k \in 1..Len(w) : w[k] = p
  <2>1. p[1] \in 1..n /\ p[2] \in 1..Len(groups[p[1]]) /\ p = <<p[1], p[2]>>
    BY DEF Places, n
  <2>2. PICK j \in 1..n : g(j) = p[1]
    BY <1>4, <2>1
  <2>3. size(j) = Len(groups[p[1]])
    BY <1>11, <2>2
  <2>4. size(j) \in Nat \ {0} /\ skip(j) \in Nat /\ p[2] \in 1..size(j)
    BY <1>3, <1>7, <2>1, <2>3
  <2>5. PICK i \in 1..size(j) : Turn(skip(j), size(j), i) = p[2]
    BY <2>4, TurnMeetsAll
  <2>6. off[j - 1] + i \in 1..Len(w) /\ w[off[j - 1] + i] = ss[j][i]
    BY <1>8, <1>9, <2>5 DEF Parts
  <2>7. ss[j][i] = p
    BY <1>10, <2>1, <2>2, <2>5
  <2> QED BY <2>6, <2>7
<1> QED BY <1>5, <1>6, <1>13, <1>14 DEF w

\* From the beginning on, the groups are visited in their order.
LEMMA UrgentWalk ==
    ASSUME NEW S, NEW groups, Grouped(groups, S),
           NEW start, start.group = 0, start.source = 0
    PROVE  LET w == Walk(groups, start)
           IN  \A k, m \in 1..Len(w) : w[k][1] < w[m][1] => k < m
<1> DEFINE n == Len(groups)
           w == Walk(groups, start)
           size(j) == SizeOf(groups, start, j)
<1>1. IsPosition(start) /\ n \in Nat \ {0}
  BY DEF IsPosition, Grouped
<1>2. PICK ss, off : InParts(groups, start, w, ss, off)
  BY <1>1, WalkInParts
<1>3. \A j \in 1..n : size(j) \in Nat
  BY <1>1, WalkInParts
<1>4. ASSUME NEW j \in 1..n
      PROVE  GroupOf(groups, start, j) = j
  <2> DEFINE x == j - 1 + 0
  <2>1. x \in 0..(n - 1) /\ x + 1 = j
    OBVIOUS
  <2> HIDE DEF x, n
  <2>2. x % n = x
    BY <1>1, <2>1
  <2> QED BY <2>1, <2>2 DEF GroupOf, Turn, n, x
<1> HIDE DEF w, size
<1>5. Parts(n, ss, off, w) /\ \A j \in 1..n : Len(ss[j]) = size(j)
  BY <1>2 DEF InParts, size
<1>6. ASSUME NEW k \in 1..Len(w)
      PROVE  \E j \in 1..n : \E i \in 1..size(j) : k = off[j - 1] + i /\ w[k][1] = j
  <2>1. PICK j \in 1..n : \E i \in 1..size(j) : k = off[j - 1] + i
    BY <1>5, SMTT(30) DEF Parts
  <2>2. PICK i \in 1..size(j) : k = off[j - 1] + i
    BY <2>1
  <2>3. w[k] = ss[j][i]
    BY <1>5, <2>2 DEF Parts
  <2>4. ss[j][i] = PlaceOf(groups, start, j, i)
    BY <1>2 DEF InParts, size
  <2> QED BY <1>4, <2>2, <2>3, <2>4 DEF PlaceOf
<1>7. \A j \in 1..n : off[j - 1] \in Nat /\ off[j] \in Nat /\ off[j] = off[j - 1] + size(j)
  <2> HIDE DEF n
  <2>1. \A j \in 1..n : j \in 0..n /\ j - 1 \in 0..n
    BY <1>1
  <2> QED BY <1>5, <2>1 DEF Parts
<1> SUFFICES ASSUME NEW k \in 1..Len(w), NEW m \in 1..Len(w), w[k][1] < w[m][1]
             PROVE  k < m
  BY DEF w
<1>8. PICK j \in 1..n : \E i \in 1..size(j) : k = off[j - 1] + i /\ w[k][1] = j
  BY <1>6
<1>9. PICK l \in 1..n : \E i \in 1..size(l) : m = off[l - 1] + i /\ w[m][1] = l
  BY <1>6
<1>10. off[j] <= off[l - 1]
  BY <1>5, <1>8, <1>9 DEF Parts
<1>11. k <= off[j] /\ k \in Int
  BY <1>3, <1>7, <1>8
<1>12. off[l - 1] < m /\ m \in Int
  BY <1>3, <1>7, <1>9, SMTT(30)
<1> QED BY <1>7, <1>10, <1>11, <1>12

\* The walk over one group starts at the remembered source.
LEMMA SingleWalk ==
    ASSUME NEW S, NEW groups, Grouped(groups, S), Len(groups) = 1,
           NEW start, IsPosition(start)
    PROVE  LET w == Walk(groups, start)
               n == Len(groups[1])
           IN  Len(w) = n /\ n \in Nat
               /\ \A k \in 1..n : w[k] = <<1, Turn(start.source, n, k)>>
<1> DEFINE w == Walk(groups, start)
           n == Len(groups[1])
<1>1. PICK ss, off : InParts(groups, start, w, ss, off)
  BY WalkInParts
<1>2. 1 \in 1..Len(groups) /\ Len(groups) = 1 /\ 1 - 1 = 0
  OBVIOUS
<1>3. GroupOf(groups, start, 1) = 1
  <2> DEFINE x == 1 - 1 + start.group
  <2>1. x \in Nat
    BY DEF IsPosition
  <2> HIDE DEF x
  <2>2. x % 1 = 0
    BY <2>1
  <2> QED BY <2>2 DEF GroupOf, Turn, x
<1>4. SizeOf(groups, start, 1) = n /\ Skip(start, 1) = start.source
  BY <1>3 DEF SizeOf, Skip
<1>5. n \in Nat
  BY <1>2, <1>4, WalkInParts
<1> HIDE DEF w, n
<1>6. Parts(1, ss, off, w)
  BY <1>1, <1>2 DEF InParts
<1>7. Len(ss[1]) = n /\ \A k \in 1..n : ss[1][k] = <<1, Turn(start.source, n, k)>>
  BY <1>1, <1>2, <1>3, <1>4 DEF InParts, PlaceOf
<1>8. off[0] = 0 /\ off[1] = 0 + n /\ Len(w) = off[1]
  BY <1>2, <1>6, <1>7 DEF Parts
<1>9. \A k \in 1..n : w[0 + k] = ss[1][k]
  BY <1>2, <1>6, <1>7, <1>8 DEF Parts
<1>10. \A k \in 1..n : 0 + k = k
  BY <1>5
<1> QED BY <1>5, <1>7, <1>8, <1>9, <1>10 DEF w, n

--------------------------------------------------------------------------------
(* The shares of the sources *)

Unique(groups) ==
    \A p, q \in Places(groups) : groups[p[1]][p[2]] = groups[q[1]][q[2]] => p = q

\* Until the batch is full every source gives all it may.
LEMMA FillsUntilFull ==
    ASSUME NEW groups, NEW walk, Len(walk) \in Nat, NEW offer, NEW size \in Nat, NEW acc, NEW last,
           Fills(groups, walk, offer, size, acc), EndsAt(walk, size, acc, last),
           NEW k \in 1..last, OfferAt(groups, walk, offer, k) \in Nat
    PROVE  /\ k \in 1..Len(walk)
           /\ acc[k] = AtMost(size, acc[k - 1] + OfferAt(groups, walk, offer, k))
           /\ acc[k] \in 0..size /\ acc[k - 1] \in 0..size
           /\ size # 0 => acc[k - 1] < size
           /\ size # 0 /\ k < last => acc[k] < size
<1> DEFINE n == Len(walk)
           o == [i \in 1..n |-> OfferAt(groups, walk, offer, i)]
           w == OfferAt(groups, walk, offer, k)
<1>1. last \in 0..n
  BY DEF EndsAt
<1>2. k \in 1..n /\ k \in Nat /\ k <= last /\ last \in Nat /\ n \in Nat
  BY <1>1
<1>3. o[k] = w /\ w \in Nat
  BY <1>2
<1>4. Sums(n, size, o, acc)
  BY DEF Fills
<1>5. \A m \in 1..n : m < last /\ size # 0 => acc[m] # size
  <2> HIDE DEF n
  <2>1. \A m \in 1..n : m < last => ~(last <= m)
    BY <1>1
  <2> QED BY <2>1 DEF EndsAt, n
<1> HIDE DEF o, w, n
<1>6. acc[k] = AtMost(size, acc[k - 1] + w) /\ acc[k] \in 0..size /\ acc[k - 1] \in 0..size
  <2>1. /\ acc \in [0..n -> 0..size]
        /\ acc = [i \in 0..n |-> IF i = 0 THEN 0 ELSE AtMost(size, acc[i - 1] + o[i])]
    BY <1>4 DEF Sums
  <2>2. k \in 0..n /\ k - 1 \in 0..n /\ k # 0
    BY <1>2
  <2> QED BY <1>3, <2>1, <2>2
<1>7. ASSUME size # 0
      PROVE  acc[k - 1] < size
  <2>1. CASE k = 1
    <3>1. acc[0] = 0
      <4>1. acc = [i \in 0..n |-> IF i = 0 THEN 0 ELSE AtMost(size, acc[i - 1] + o[i])]
        BY <1>4 DEF Sums
      <4>2. 0 \in 0..n
        BY <1>2
      <4> QED BY <4>1, <4>2
    <3> QED BY <1>7, <2>1, <3>1
  <2>2. CASE k # 1
    <3>1. k - 1 \in 1..n /\ k - 1 < last
      BY <1>2, <2>2
    <3> QED BY <1>5, <1>6, <1>7, <3>1
  <2> QED BY <2>1, <2>2
<1>8. ASSUME size # 0, k < last
      PROVE  acc[k] < size
  BY <1>2, <1>5, <1>6, <1>8
<1> QED BY <1>2, <1>6, <1>7, <1>8 DEF n, w

\* A run of form_batch over groups that list every source once.
BatchRun(groups, start, walk, offer, size, f, acc, last) ==
    /\ Fills(groups, walk, offer, size, acc)
    /\ EndsAt(walk, size, acc, last)
    /\ Result(groups, start, walk, offer, size, acc, last, f)
    /\ last \in 0..Len(walk)
    /\ \A k \in 1..last : SourceAt(groups, walk, k) \in DOMAIN offer =>
          /\ SourceAt(groups, walk, k) \in DOMAIN f.num
          /\ f.num[SourceAt(groups, walk, k)] = acc[k] - acc[k - 1]

\* Every batch of FormBatch is one.
LEMMA BatchRuns ==
    ASSUME NEW S, NEW groups, Grouped(groups, S), Unique(groups), NEW pos, NEW roundRobin,
           IsPosition(Start(groups, pos, roundRobin)),
           NEW offer, IsOffer(offer), NEW size \in Nat
    PROVE  \E acc, last :
              BatchRun(groups, Start(groups, pos, roundRobin),
                       Walk(groups, Start(groups, pos, roundRobin)), offer, size,
                       FormBatch(groups, pos, roundRobin, offer, size), acc, last)
<1> DEFINE start == Start(groups, pos, roundRobin)
           walk == Walk(groups, start)
           f == FormBatch(groups, pos, roundRobin, offer, size)
<1>1. PICK acc, last : /\ Fills(groups, walk, offer, size, acc)
                       /\ EndsAt(walk, size, acc, last)
                       /\ Result(groups, start, walk, offer, size, acc, last, f)
  BY FormBatchWalks
<1>2. /\ Len(walk) \in Nat
      /\ \A k \in 1..Len(walk) : walk[k] \in Places(groups)
      /\ \A k, m \in 1..Len(walk) : walk[k] = walk[m] => k = m
  BY WalkVisitsEachOnce
<1> HIDE DEF start, walk, f
<1>3. last \in 0..Len(walk)
  BY <1>1 DEF EndsAt
<1>4. ASSUME NEW k \in 1..last, SourceAt(groups, walk, k) \in DOMAIN offer
      PROVE  /\ SourceAt(groups, walk, k) \in DOMAIN f.num
             /\ f.num[SourceAt(groups, walk, k)] = acc[k] - acc[k - 1]
  <2> DEFINE s == SourceAt(groups, walk, k)
  <2>1. s \in DOMAIN f.num
    BY <1>1, <1>4 DEF Result
  <2>2. PICK m \in 1..last : SourceAt(groups, walk, m) = s /\ f.num[s] = acc[m] - acc[m - 1]
    BY <1>1, <2>1 DEF Result
  <2>3. k \in 1..Len(walk) /\ m \in 1..Len(walk)
    BY <1>2, <1>3
  <2>4. walk[k] = walk[m]
    BY <1>2, <2>2, <2>3 DEF Unique, SourceAt
  <2>5. k = m
    BY <1>2, <2>3, <2>4
  <2> QED BY <2>1, <2>2, <2>5
<1>5. BatchRun(groups, start, walk, offer, size, f, acc, last)
  BY <1>1, <1>3, <1>4 DEF BatchRun
<1> QED BY <1>5 DEF start, walk, f

--------------------------------------------------------------------------------
(* The remembered place *)

GroupsHold ==
    /\ Levels \in SUBSET Nat /\ IsFiniteSet(Levels)
    /\ \A p : Members(p) \in SUBSET Nat /\ IsFiniteSet(Members(p))
    /\ Groups \in Seq(Seq(Sources))
    /\ Len(Groups) = Cardinality(Levels) /\ Len(Groups) \in Nat
    /\ \A g \in 1..Len(Groups) : /\ Level(g) \in Levels
                                 /\ Len(Groups[g]) = Cardinality(Members(Level(g)))
                                 /\ Len(Groups[g]) \in Nat \ {0}
    /\ Len(Groups) = 1 => Groups[1] = known

\* What is said of the groups holds before and after a step.
LEMMA GroupsNow == SourcesInv => GroupsHold
  BY LevelsAre, GroupsByPriority, OneGroup DEF GroupsHold

\* The same in the next state.
LEMMA GroupsNext == SourcesInv' => GroupsHold'
  BY GroupsNow, PTL

\* The remembered place, unless late sources shifted the groups.
PlaceInv ==
    /\ position \in [group : Nat, source : Nat]
    /\ known = <<>> => position.group = 0 /\ position.source = 0
    /\ ~Shifted => PositionValid

\* The frames in the queues, and the batches a source was left out of.
CountsInv ==
    /\ waiting \in [Sources -> 0..MaxWaiting]
    /\ passed \in [Sources -> Nat]
    /\ \A s \in Sources : s \notin attached => waiting[s] = 0 /\ passed[s] = 0

\* A source is listed when its pad is added, behind those that are known.
LEMMA SourceListed ==
    ASSUME SourcesInv, NEW s \in Sources, s \notin Range(known),
           known' = Append(known, s), config' = config
    PROVE  /\ known' \in Seq(Sources) /\ IsInjective(known')
           /\ Range(known') = Range(known) \cup {s}
           /\ Len(known') = Len(known) + 1 /\ Len(known) \in Nat
           /\ \A i \in 1..Len(known) : known'[i] = known[i]
           /\ known'[Len(known) + 1] = s
<1> DEFINE n == Len(known)
<1>1. known \in Seq(Sources) /\ DOMAIN known = 1..n /\ n \in Nat
  BY DEF SourcesInv
<1>2. /\ known' \in Seq(Sources) /\ Len(known') = n + 1 /\ DOMAIN known' = 1..(n + 1)
      /\ \A i \in 1..n : known'[i] = known[i]
      /\ known'[n + 1] = s
  BY <1>1
<1>3. \A i \in 1..(n + 1) : i \in 1..n \/ i = n + 1
  BY <1>1
<1>4. \A i \in 1..n : i \in 1..(n + 1) /\ i # n + 1
  BY <1>1
<1>5. n + 1 \in 1..(n + 1)
  BY <1>1
<1> HIDE DEF n
<1>6. Range(known') = Range(known) \cup {s}
  BY <1>1, <1>2, <1>3, <1>4, <1>5 DEF Range
<1>7. \A i \in 1..n : known[i] # s
  BY <1>1 DEF Range
<1>8. \A i, j \in 1..n : known[i] = known[j] => i = j
  BY <1>1 DEF SourcesInv, IsInjective
<1>9. IsInjective(known')
  BY <1>2, <1>3, <1>7, <1>8 DEF IsInjective
<1> QED BY <1>1, <1>2, <1>6, <1>9 DEF n

\* AddSource keeps what the sources are.
LEMMA AddSourceSources ==
    ASSUME SourcesInv, NEW s \in Sources, AddSource(s)
    PROVE  SourcesInv'
<1>1. config' = config /\ attached' = attached \cup {s}
  BY DEF AddSource
<1>2. CASE s \in Range(known)
  BY <1>1, <1>2 DEF AddSource, SourcesInv
<1>3. CASE s \notin Range(known)
  <2>1. known' = Append(known, s)
    BY <1>3 DEF AddSource
  <2>2. /\ known' \in Seq(Sources) /\ IsInjective(known')
        /\ Range(known') = Range(known) \cup {s}
    BY <1>1, <1>3, <2>1, SourceListed
  <2> QED BY <1>1, <2>2 DEF SourcesInv
<1> QED BY <1>2, <1>3

\* The groups depend on the known sources alone.
LEMMA SameGroups ==
    ASSUME config' = config, known' = known
    PROVE  Groups' = Groups /\ Shifted' = Shifted
<1>1. Groups' = Groups
  BY DEF Groups, PriorityOf
<1>2. Shifted' = Shifted
  BY DEF Shifted
<1> QED BY <1>1, <1>2

\* Unless it founds a group ahead of others, a new source joins one at its end.
LEMMA NewSourceJoins ==
    ASSUME SourcesInv, NEW s \in Sources, s \notin Range(known), known # <<>>,
           known' = Append(known, s), config' = config, SourcesInv',
           config.roundRobin, ~Shifted'
    PROVE  /\ ~Shifted
           /\ Len(Groups') = Len(Groups)
           /\ \A g \in 1..Len(Groups) : Len(Groups[g]) <= Len(Groups'[g])
<1>1. /\ Range(known') = Range(known) \cup {s}
      /\ Len(known') = Len(known) + 1 /\ Len(known) \in Nat
      /\ \A i \in 1..Len(known) : known'[i] = known[i]
  BY SourceListed
<1>2. DOMAIN config.priority \subseteq Range(known)
  BY DEF SourcesInv
<1>3. Range(known') # DOMAIN config.priority
  BY <1>1, <1>2
<1>4. \/ DOMAIN config.priority = {}
      \/ \E u \in DOMAIN config.priority : config.priority[u] = DefaultPriority
  BY <1>3 DEF Shifted
<1>5. ~Shifted
  BY <1>4 DEF Shifted
<1>6. \A u : PriorityOf(u)' = PriorityOf(u)
  BY DEF PriorityOf
<1>7. PriorityOf(s) = DefaultPriority
  BY <1>2 DEF PriorityOf
<1>8. DefaultPriority \in Levels
  <2>1. CASE DOMAIN config.priority = {}
    <3>1. known[1] \in Range(known)
      BY DEF SourcesInv, Range
    <3>2. PriorityOf(known[1]) = DefaultPriority
      BY <2>1 DEF PriorityOf
    <3> QED BY <3>1, <3>2 DEF Levels
  <2>2. CASE \E u \in DOMAIN config.priority : config.priority[u] = DefaultPriority
    <3>1. PICK u \in DOMAIN config.priority : config.priority[u] = DefaultPriority
      BY <2>2
    <3>2. u \in Range(known) /\ PriorityOf(u) = DefaultPriority
      BY <1>2, <3>1 DEF PriorityOf
    <3> QED BY <3>2 DEF Levels
  <2> QED BY <1>4, <2>1, <2>2
<1>9. Levels' = Levels
  <2>1. Levels' = {PriorityOf(u) : u \in Range(known')}
    BY <1>6 DEF Levels
  <2>2. Levels' = Levels \cup {PriorityOf(s)}
    BY <1>1, <2>1 DEF Levels
  <2> QED BY <1>7, <1>8, <2>2
<1>10. \A p : Members(p) \subseteq Members(p)'
  <2>1. DOMAIN known = 1..Len(known) /\ DOMAIN known' = 1..(Len(known) + 1)
    BY <1>1 DEF SourcesInv
  <2>2. DOMAIN known \subseteq DOMAIN known'
    BY <1>1, <2>1
  <2>3. \A p : Members(p)' = {i \in DOMAIN known' : PriorityOf(known'[i]) = p}
    BY <1>6 DEF Members
  <2>4. ASSUME NEW p, NEW i \in Members(p)
        PROVE  i \in Members(p)'
    <3>1. i \in DOMAIN known /\ PriorityOf(known[i]) = p
      BY DEF Members
    <3>2. i \in DOMAIN known' /\ known'[i] = known[i]
      BY <1>1, <2>1, <2>2, <3>1
    <3> QED BY <2>3, <3>1, <3>2
  <2> QED BY <2>4
<1>11. GroupsHold /\ GroupsHold'
  BY GroupsNow, GroupsNext
<1>12. Len(Groups') = Len(Groups)
  BY <1>9, <1>11 DEF GroupsHold
<1>13. ASSUME NEW g \in 1..Len(Groups)
       PROVE  Len(Groups[g]) <= Len(Groups'[g])
  <2>1. PICK p : p = Level(g)
    OBVIOUS
  <2>2. Level(g)' = p
    BY <1>9, <2>1 DEF Level
  <2>3. /\ Len(Groups[g]) = Cardinality(Members(p))
        /\ Len(Groups'[g]) = Cardinality(Members(p)')
    BY <1>11, <1>12, <2>2, <2>1 DEF GroupsHold
  <2>4. IsFiniteSet(Members(p)')
    BY <1>11 DEF GroupsHold
  <2>5. Cardinality(Members(p)) <= Cardinality(Members(p)')
    BY <1>10, <2>4, FS_Subset
  <2> QED BY <2>3, <2>5
<1> QED BY <1>5, <1>12, <1>13

--------------------------------------------------------------------------------
(* What a batch may be *)

\* A batch that does not take more than is offered, and a place to go on.
Sound(f, size) ==
    /\ f.pos \in [group : Nat, source : Nat]
    /\ f.acc \in 0..size
    /\ DOMAIN f.num \subseteq attached
    /\ \A s \in DOMAIN f.num : f.num[s] \in 0..Offer(size)[s]

\* A source may offer a frame if it has one.
LEMMA OfferIs ==
    ASSUME SourcesInv, CountsInv, NEW size \in Nat
    PROVE  /\ IsOffer(Offer(size)) /\ DOMAIN Offer(size) = attached
           /\ attached \subseteq Sources
           /\ \A s \in attached : /\ Offer(size)[s] \in 0..waiting[s]
                                  /\ waiting[s] # 0 => Offer(size)[s] # 0
<1>1. attached \subseteq Sources
  BY LevelsAre DEF SourcesInv
<1>2. Allowed(size) \in Nat \ {0}
  BY BatchRoundsAssumption DEF Allowed, AllowedRepeats, AtMost, AtLeast
<1>3. \A s \in attached : waiting[s] \in Nat
  BY <1>1, BatchRoundsAssumption DEF CountsInv
<1> DEFINE a == Allowed(size)
<1> HIDE DEF a
<1>4. \A w \in Nat : AtMost(w, a) \in 0..w /\ (w # 0 => AtMost(w, a) # 0)
  BY <1>2 DEF AtMost, a
<1>5. Offer(size) = [s \in attached |-> AtMost(waiting[s], a)]
  BY DEF Offer, a
<1>6. \A s \in attached : Offer(size)[s] = AtMost(waiting[s], a)
  BY <1>5
<1>7. \A s \in attached : Offer(size)[s] \in Nat
  BY <1>3, <1>4, <1>6
<1>8. IsOffer(Offer(size)) /\ DOMAIN Offer(size) = attached
  BY <1>5, <1>7 DEF IsOffer
<1> QED BY <1>1, <1>3, <1>4, <1>6, <1>8

\* There is a group as soon as a source is known, and a source is in it once.
LEMMA GroupsAreUnique ==
    ASSUME SourcesInv, known # <<>>
    PROVE  Grouped(Groups, Sources) /\ Unique(Groups)
<1>1. known[1] \in Range(known)
  BY DEF SourcesInv, Range
<1>2. Levels # {}
  BY <1>1 DEF Levels
<1>3. Len(Groups) # 0 /\ Groups \in Seq(Seq(Sources))
  BY <1>2, GroupsNow, FS_EmptySet DEF GroupsHold
<1>4. Unique(Groups)
  BY PlacesHoldSources DEF Unique, At
<1> QED BY <1>3, <1>4 DEF Grouped

\* The batch of a walk from a place there is.
LEMMA ValidBatch ==
    ASSUME SourcesInv, CountsInv, position \in [group : Nat, source : Nat],
           known # <<>>, PositionValid, NEW size \in Nat, NEW f \in Batches(size)
    PROVE  /\ f = FormBatch(Groups, position, config.roundRobin, Offer(size), size)
           /\ Sound(f, size)
           /\ IsPosition(Start(Groups, position, config.roundRobin))
           /\ config.roundRobin => /\ f.pos.group < Len(Groups)
                                   /\ f.pos.source < Len(Groups[f.pos.group + 1])
<1> DEFINE start == Start(Groups, position, config.roundRobin)
           walk == Walk(Groups, start)
           offer == Offer(size)
<1>1. f = FormBatch(Groups, position, config.roundRobin, offer, size)
  BY DEF Batches
<1>2. Grouped(Groups, Sources) /\ Unique(Groups)
  BY GroupsAreUnique
<1>3. IsPosition(start) /\ (config.roundRobin => start = position)
  BY DEF Start, IsPosition
<1>4. IsOffer(offer) /\ DOMAIN offer = attached
  BY OfferIs
<1>5. Bounded(Groups, start, offer, size, f)
  BY <1>1, <1>2, <1>3, <1>4, FormBatchBounded
<1>6. PICK acc, last : BatchRun(Groups, start, walk, offer, size, f, acc, last)
  BY <1>1, <1>2, <1>3, <1>4, BatchRuns
<1>7. /\ Len(Groups) \in Nat
      /\ \A g \in 1..Len(Groups) : Len(Groups[g]) \in Nat \ {0}
  BY GroupsNow DEF GroupsHold
<1>8. CASE \E k \in 1..Len(walk) : size # 0 /\ acc[k] = size
  <2>1. last \in 1..Len(walk) /\ f.pos = After(Groups, walk[last])
    BY <1>6, <1>8 DEF BatchRun, EndsAt, Result
  <2>2. walk[last] \in Places(Groups)
    BY <1>2, <1>3, <2>1, WalkVisitsEachOnce
  <2> DEFINE g == walk[last][1]
             i == walk[last][2]
             m == Len(Groups[g])
  <2>3. g \in 1..Len(Groups) /\ i \in 1..m
    BY <2>2 DEF Places
  <2>4. f.pos = [group |-> g - 1, source |-> i % m]
    BY <2>1 DEF After
  <2>5. m \in Nat \ {0}
    BY <1>7, <2>3
  <2>6. (g - 1) + 1 = g /\ g - 1 \in Nat /\ g - 1 < Len(Groups)
    BY <1>7, <2>3
  <2> HIDE DEF g, i
  <2>7. f.pos.group = g - 1 /\ f.pos.source = i % m
    BY <2>4
  <2>8. Len(Groups[f.pos.group + 1]) = m
    BY <2>6, <2>7
  <2> HIDE DEF m
  <2>9. i % m \in Nat /\ i % m < m
    BY <2>3, <2>5
  <2>10. f.pos \in [group : Nat, source : Nat]
    BY <2>4, <2>6, <2>9
  <2>11. Sound(f, size)
    BY <1>4, <1>5, <2>10 DEF Bounded, Sound
  <2> QED BY <1>1, <1>3, <2>6, <2>7, <2>8, <2>9, <2>11
<1>9. CASE ~\E k \in 1..Len(walk) : size # 0 /\ acc[k] = size
  <2>1. f.pos = [group |-> start.group,
                 source |-> IF Len(Groups) = 1 THEN start.source ELSE 0]
    BY <1>6, <1>9 DEF BatchRun, Result
  <2>2. f.pos \in [group : Nat, source : Nat] /\ f.pos.group = start.group
        /\ f.pos.source \in {start.source, 0}
    BY <1>3, <2>1 DEF IsPosition
  <2>3. Sound(f, size)
    BY <1>4, <1>5, <2>2 DEF Bounded, Sound
  <2>4. ASSUME config.roundRobin
        PROVE  f.pos.group < Len(Groups) /\ f.pos.source < Len(Groups[f.pos.group + 1])
    <3> DEFINE g == position.group + 1
               m == Len(Groups[g])
    <3>1. position.group < Len(Groups) /\ position.source < m
      BY <2>4 DEF PositionValid
    <3>2. g \in 1..Len(Groups)
      BY <1>7, <3>1
    <3>3. m \in Nat \ {0}
      BY <1>7, <3>2
    <3>4. f.pos.group = position.group /\ f.pos.source \in {position.source, 0}
      BY <1>3, <2>2, <2>4
    <3>5. Len(Groups[f.pos.group + 1]) = m
      BY <3>4
    <3> HIDE DEF m
    <3> QED BY <3>1, <3>3, <3>4, <3>5
  <2> QED BY <1>1, <1>3, <2>3, <2>4
<1> QED BY <1>8, <1>9

\* The largest of some numbers up to a bound.
LEMMA GreatestNatural ==
    ASSUME NEW n \in Nat, NEW S \in SUBSET (1..n), S # {}
    PROVE  \E k \in S : \A m \in S : m <= k
<1> DEFINE T == {n - k : k \in S}
<1>1. T \in SUBSET Nat /\ T # {}
  <2>1. \A k \in S : n - k \in Nat
    OBVIOUS
  <2> QED BY <2>1
<1>2. PICK t \in T : \A u \in T : t <= u
  BY <1>1, LeastNatural
<1>3. PICK k \in S : t = n - k
  OBVIOUS
<1>4. \A m \in S : n - m \in T /\ t <= n - m
  BY <1>2
<1>5. \A m \in S : m \in Nat
  OBVIOUS
<1>6. ASSUME NEW m \in S
      PROVE  m <= k
  BY <1>3, <1>4, <1>5
<1> QED BY <1>6

\* Even when the groups were shifted, no source gives more than it has.
LEMMA ShiftedBatchSound ==
    ASSUME SourcesInv, CountsInv, position \in [group : Nat, source : Nat], known # <<>>,
           NEW size \in Nat, NEW read, NEW left \in Nat
    PROVE  Sound(ShiftedBatch(size, read, left), size)
<1> DEFINE walk == Walk(Groups, [group |-> position.group, source |-> 0])
           length == Len(Groups[position.group + 1])
           Here(k) == IF k \in DOMAIN read THEN read[k]
                      ELSE IF k <= length THEN From(position.group)[position.source + k]
                      ELSE Groups[walk[k][1]][walk[k][2]]
           again(k) == \E m \in 1..(k - 1) : Here(m) = Here(k)
           Takes(k) == IF \/ Here(k) \notin attached
                          \/ again(k) /\ Offer(size)[Here(k)] = Allowed(size)
                       THEN 0 ELSE Offer(size)[Here(k)]
           n == Len(walk)
           acc == CHOOSE a : a = [k \in 0..n |->
                                    IF k = 0 THEN 0 ELSE AtMost(size, a[k-1] + Takes(k))]
           full == {k \in 1..n : size # 0 /\ acc[k] = size}
           last == IF full = {} THEN n ELSE CHOOSE k \in full : \A m \in full : k <= m
           giving == {k \in 1..last : Takes(k) > 0}
           num == [s \in {Here(k) : k \in giving} |->
                      LET k == CHOOSE v \in giving :
                                   Here(v) = s /\ \A w \in giving : Here(w) = s => w <= v
                      IN acc[k] - acc[k-1]]
           pos == IF full = {} THEN [position EXCEPT !.source = 0]
                  ELSE IF last > length THEN After(Groups, walk[last])
                  ELSE [position EXCEPT !.source = IF DOMAIN read \cap 1..last = {} THEN @ + last
                                                   ELSE left]
           f == ShiftedBatch(size, read, left)
<1>1. f = [num |-> num, acc |-> acc[last], pos |-> pos]
  BY DEF ShiftedBatch
<1>2. f.num = num /\ f.acc = acc[last] /\ f.pos = pos
  <2> HIDE DEF num, acc, last, pos, f
  <2> QED BY <1>1
<1> HIDE DEF f
<1>3. \A k \in 1..n : Takes(k) \in Nat
  <2>1. \A s \in attached : Offer(size)[s] \in Nat
    BY OfferIs DEF IsOffer
  <2> HIDE DEF Here, again
  <2> QED BY <2>1
<1>4. n \in Nat /\ \A k \in 1..n : walk[k] \in Places(Groups)
  <2>1. IsPosition([group |-> position.group, source |-> 0])
    BY DEF IsPosition
  <2> QED BY <2>1, GroupsAreUnique, WalkVisitsEachOnce
<1>5. \A k \in 1..n : Takes(k) > 0 => Here(k) \in attached /\ Takes(k) = Offer(size)[Here(k)]
  <2> HIDE DEF Here, again
  <2> QED BY <1>3
<1> HIDE DEF walk, length, Here, again, Takes, n
<1> DEFINE o == [k \in 1..n |-> Takes(k)]
<1>6. o \in [1..n -> Nat] /\ \A k \in 1..n : o[k] = Takes(k)
  BY <1>3
<1> HIDE DEF o
<1>7. PICK g : Sums(n, size, o, g)
  BY <1>4, <1>6, SumRuns, Zenon
<1>8. \A k \in 0..n : k # 0 => k \in 1..n
  BY <1>4
<1>9. g = [k \in 0..n |-> IF k = 0 THEN 0 ELSE AtMost(size, g[k-1] + Takes(k))]
  <2>1. g = [k \in 0..n |-> IF k = 0 THEN 0 ELSE AtMost(size, g[k - 1] + o[k])]
    BY <1>7 DEF Sums
  <2> QED BY <1>6, <1>8, <2>1
<1>10. acc = [k \in 0..n |-> IF k = 0 THEN 0 ELSE AtMost(size, acc[k-1] + Takes(k))]
  BY <1>9
<1> HIDE DEF acc
<1>11. acc[0] = 0 /\ \A k \in 1..n : acc[k] = AtMost(size, acc[k-1] + Takes(k))
  <2>1. 0 \in 0..n /\ \A k \in 1..n : k \in 0..n /\ k # 0
    BY <1>4
  <2> QED BY <1>10, <2>1
<1>12. \A k \in 0..n : acc[k] \in 0..size
  <2> DEFINE A == {k \in Nat : k \in 0..n => acc[k] \in 0..size}
  <2>1. 0 \in A
    BY <1>11
  <2>2. ASSUME NEW k \in 0..(n - 1), k \in A
        PROVE  k + 1 \in A
    <3> DEFINE i == k + 1
    <3>1. k \in 0..n /\ i \in 1..n /\ i \in Nat /\ i - 1 = k
      BY <1>4
    <3>2. acc[k] \in 0..size
      BY <2>2, <3>1
    <3> HIDE DEF i
    <3>3. acc[i] = AtMost(size, acc[k] + Takes(i)) /\ Takes(i) \in Nat
      BY <1>3, <1>11, <3>1
    <3>4. acc[i] \in 0..size
      BY <3>2, <3>3 DEF AtMost
    <3>5. i \in A
      BY <3>1, <3>4
    <3> QED BY <3>5 DEF i
  <2> HIDE DEF A
  <2>3. \A k \in 0..n : k \in A
    BY <1>4, <2>1, <2>2, SetInduction
  <2> QED BY <2>3 DEF A
<1>13. last \in 0..n /\ (full # {} => last \in 1..n)
  <2>1. CASE full = {}
    BY <1>4, <2>1
  <2>2. CASE full # {}
    <3>1. full \in SUBSET Nat /\ full \subseteq 1..n
      BY <1>4
    <3> DEFINE x == CHOOSE k \in full : \A m \in full : k <= m
    <3>2. x \in full /\ last = x
      BY <2>2, <3>1, LeastNatural
    <3> HIDE DEF x, full, last
    <3>3. last \in 1..n
      BY <3>1, <3>2
    <3> QED BY <1>4, <3>3
  <2> QED BY <2>1, <2>2
<1>14. f.acc \in 0..size
  BY <1>2, <1>12, <1>13
<1> HIDE DEF last
<1>15. \A k \in 1..last : k \in 1..n
  BY <1>4, <1>13
<1>16. ASSUME NEW s \in DOMAIN num
       PROVE  s \in attached /\ num[s] \in 0..Offer(size)[s]
  <2>1. s \in {Here(k) : k \in giving}
    OBVIOUS
  <2> DEFINE mine == {v \in giving : Here(v) = s}
             k == CHOOSE v \in giving : Here(v) = s /\ \A w \in giving : Here(w) = s => w <= v
  <2>2. mine \in SUBSET (1..last) /\ mine # {} /\ last \in Nat
    BY <1>4, <1>13, <2>1
  <2>3. \E v \in mine : \A w \in mine : w <= v
    BY <2>2, GreatestNatural
  <2>4. k \in giving /\ Here(k) = s
    BY <2>3
  <2>5. num[s] = acc[k] - acc[k - 1]
    OBVIOUS
  <2> HIDE DEF num, k, mine
  <2>6. k \in 1..n /\ Takes(k) > 0
    BY <1>15, <2>4
  <2>7. s \in attached /\ Takes(k) = Offer(size)[s]
    BY <1>5, <2>4, <2>6
  <2>8. k - 1 \in 0..n
    BY <1>4, <2>6
  <2> DEFINE t == Takes(k)
             a == acc[k - 1]
  <2>9. acc[k] = AtMost(size, a + t) /\ a \in 0..size /\ t \in Nat
    BY <1>3, <1>11, <1>12, <2>6, <2>8
  <2> HIDE DEF t, a
  <2>10. acc[k] - a \in 0..t
    BY <2>9 DEF AtMost
  <2> QED BY <2>5, <2>7, <2>10 DEF t, a
<1>17. pos \in [group : Nat, source : Nat]
  <2>1. CASE full = {}
    BY <2>1
  <2>2. CASE full # {} /\ last > length
    <3>1. pos = After(Groups, walk[last]) /\ last \in 1..n
      BY <1>13, <2>2
    <3> DEFINE h == walk[last][1]
               i == walk[last][2]
               m == Len(Groups[h])
    <3>2. h \in 1..Len(Groups) /\ i \in 1..m /\ m \in Nat /\ Len(Groups) \in Nat
      BY <1>4, <3>1, GroupsNow DEF Places, GroupsHold
    <3>3. pos = [group |-> h - 1, source |-> i % m]
      BY <3>1 DEF After
    <3> HIDE DEF h, i, m, pos
    <3>4. h - 1 \in Nat /\ i % m \in Nat
      BY <3>2
    <3> QED BY <3>3, <3>4
  <2>3. CASE full # {} /\ ~(last > length)
    <3> DEFINE next == IF DOMAIN read \cap 1..last = {} THEN position.source + last ELSE left
    <3>1. next \in Nat
      BY <1>4, <1>13
    <3>2. pos = [position EXCEPT !.source = next]
      BY <2>3
    <3> HIDE DEF next, pos
    <3> QED BY <3>1, <3>2
  <2> QED BY <2>1, <2>2, <2>3
<1> HIDE DEF num, pos, acc
<1>18. DOMAIN num \subseteq attached /\ \A s \in DOMAIN num : num[s] \in 0..Offer(size)[s]
  BY <1>16
<1>19. Sound(f, size)
  BY <1>2, <1>14, <1>17, <1>18 DEF Sound
<1> QED BY <1>19 DEF f

\* Every batch form_batch may form is sound, with shifted groups too.
LEMMA BatchesSound ==
    ASSUME SourcesInv, CountsInv, position \in [group : Nat, source : Nat],
           known # <<>>, NEW size \in Nat, NEW f \in Batches(size)
    PROVE  Sound(f, size)
<1>1. CASE PositionValid
  BY <1>1, ValidBatch
<1>2. CASE ~PositionValid
  <2>1. PICK read \in [Behind -> Sources \cup {"none"}], left \in 0..Cardinality(Sources) :
            f = ShiftedBatch(size, read, left)
    BY <1>2 DEF Batches
  <2>2. left \in Nat
    OBVIOUS
  <2> QED BY <2>1, <2>2, ShiftedBatchSound
<1> QED BY <1>1, <1>2

--------------------------------------------------------------------------------
(* The steps *)

RoundsInv == SourcesInv /\ CountsInv /\ PlaceInv

Taken(f, s) == IF s \in DOMAIN f.num THEN f.num[s] ELSE 0

\* What Form does with a batch f.
FormedWith(size, f) ==
    /\ position' = f.pos
    /\ formed' = [size |-> size, offer |-> Offer(size), num |-> f.num, acc |-> f.acc]
    /\ \/ /\ f.acc > 0
          /\ waiting' = [s \in Sources |-> waiting[s] - Taken(f, s)]
          /\ passed' = [s \in Sources |->
                IF waiting[s] = 0 \/ Taken(f, s) > 0 \/ ~(size # 0 /\ f.acc = size) THEN 0
                ELSE AtMost(passed[s] + 1, Cardinality(Sources))]
       \/ ~(size # 0 /\ f.acc = size) /\ UNCHANGED <<waiting, passed>>

\* A step of Form has a batch it does this with.
LEMMA FormIs ==
    ASSUME NEW size \in Sizes, Form(size)
    PROVE  /\ size \in Nat /\ known # <<>> /\ UNCHANGED <<config, known, attached>>
           /\ \E f \in Batches(size) : FormedWith(size, f)
<1>1. size \in Nat
  BY BatchRoundsAssumption
<1> QED BY <1>1 DEF Form, FormedWith, Taken

\* At first no pad is there, and the sources of the file are known.
LEMMA InitRounds == Init => RoundsInv
<1> SUFFICES ASSUME Init PROVE RoundsInv
  OBVIOUS
<1> DEFINE S == DOMAIN config.priority
<1>1. config \in [roundRobin : BOOLEAN, priority : Priorities]
  BY DEF Init
<1>2. S \subseteq Sources
  BY <1>1, BatchRoundsAssumption
<1>3. IsFiniteSet(S) /\ Cardinality(S) \in Nat
  BY <1>2, BatchRoundsAssumption, FS_Subset, FS_CardinalityType
<1>4. /\ known \in [1..Cardinality(S) -> S]
      /\ \A i, j \in 1..Cardinality(S) : i # j => known[i] # known[j]
  BY DEF Init, SetToSeqs
<1> HIDE DEF S
<1>5. known \in Seq(Sources) /\ IsInjective(known)
  BY <1>2, <1>3, <1>4 DEF IsInjective
<1>6. S \subseteq Range(known)
  <2>1. known \in Injection(1..Cardinality(S), S)
    BY <1>4 DEF Injection, IsInjective
  <2>2. Cardinality(1..Cardinality(S)) = Cardinality(S)
    <3>1. 1 \in Int /\ Cardinality(S) \in Int
      BY <1>3
    <3>2. Cardinality(1..Cardinality(S)) =
              IF 1 > Cardinality(S) THEN 0 ELSE Cardinality(S) - 1 + 1
      BY <3>1, FS_Interval
    <3> QED BY <1>3, <3>2
  <2>3. known \in Surjection(1..Cardinality(S), S)
    BY <1>3, <2>1, <2>2, FS_Injection
  <2> QED BY <1>4, <2>3 DEF Surjection, Range
<1>7. attached = {}
  BY DEF Init
<1>8. SourcesInv
  BY <1>1, <1>5, <1>6, <1>7 DEF SourcesInv, S
<1>9. CountsInv
  <2>1. waiting = [s \in Sources |-> 0] /\ passed = [s \in Sources |-> 0]
    BY DEF Init
  <2> QED BY <2>1, BatchRoundsAssumption DEF CountsInv
<1>10. position = [group |-> 0, source |-> 0]
  BY DEF Init
<1>11. ASSUME known # <<>>
       PROVE  0 < Len(Groups) /\ 0 < Len(Groups[0 + 1])
  <2>1. Len(Groups) # 0
    BY <1>8, <1>11, GroupsAreUnique DEF Grouped
  <2>2. Len(Groups) \in Nat /\ \A g \in 1..Len(Groups) : Len(Groups[g]) \in Nat \ {0}
    BY <1>8, GroupsNow DEF GroupsHold
  <2> QED BY <2>1, <2>2
<1>12. PositionValid
  <2>1. position.group = 0 /\ position.source = 0
    BY <1>10
  <2> QED BY <1>11, <2>1 DEF PositionValid
<1>13. PlaceInv
  BY <1>10, <1>12 DEF PlaceInv
<1> QED BY <1>8, <1>9, <1>13 DEF RoundsInv

\* A new source shifts the groups, or leaves the remembered place where it is.
LEMMA AddSourceRounds ==
    ASSUME RoundsInv, NEW s \in Sources, AddSource(s)
    PROVE  RoundsInv'
<1>1. /\ attached' = attached \cup {s}
      /\ UNCHANGED <<config, waiting, position, passed>>
  BY DEF AddSource
<1>2. SourcesInv'
  BY AddSourceSources DEF RoundsInv
<1>3. CountsInv'
  BY <1>1 DEF RoundsInv, CountsInv
<1>4. CASE s \in Range(known)
  <2>1. known' = known
    BY <1>4 DEF AddSource
  <2>2. Groups' = Groups /\ Shifted' = Shifted
    BY <1>1, <2>1, SameGroups
  <2>3. PlaceInv'
    BY <1>1, <2>1, <2>2 DEF RoundsInv, PlaceInv, PositionValid
  <2> QED BY <1>2, <1>3, <2>3 DEF RoundsInv
<1>5. CASE s \notin Range(known)
  <2>1. known' = Append(known, s)
    BY <1>5 DEF AddSource
  <2>2. known' # <<>>
    BY <2>1 DEF RoundsInv, SourcesInv
  <2>3. ASSUME config.roundRobin, ~Shifted'
        PROVE  position.group < Len(Groups') /\ position.source < Len(Groups'[position.group + 1])
    <3>1. GroupsHold /\ GroupsHold'
      BY <1>2, GroupsNow, GroupsNext DEF RoundsInv
    <3>2. /\ Len(Groups) \in Nat
          /\ \A g \in 1..Len(Groups) : Len(Groups[g]) \in Nat \ {0}
          /\ Len(Groups') \in Nat
          /\ \A g \in 1..Len(Groups') : Len(Groups'[g]) \in Nat \ {0}
      BY <3>1 DEF GroupsHold
    <3>3. CASE known = <<>>
      <4>1. position.group = 0 /\ position.source = 0
        BY <3>3 DEF RoundsInv, PlaceInv
      <4>2. s \in Range(known')
        BY <1>1, <1>5, <2>1, SourceListed DEF RoundsInv
      <4>3. Levels' # {}
        BY <4>2 DEF Levels
      <4>4. Len(Groups') # 0
        BY <3>1, <4>3, FS_EmptySet DEF GroupsHold
      <4> QED BY <3>2, <4>1, <4>4
    <3>4. CASE known # <<>>
      <4>1. /\ ~Shifted
            /\ Len(Groups') = Len(Groups)
            /\ \A g \in 1..Len(Groups) : Len(Groups[g]) <= Len(Groups'[g])
        BY <1>1, <1>2, <1>5, <2>1, <2>3, <3>4, NewSourceJoins DEF RoundsInv
      <4> DEFINE g == position.group + 1
      <4>2. position.group < Len(Groups) /\ position.source < Len(Groups[g])
        BY <2>3, <3>4, <4>1 DEF RoundsInv, PlaceInv, PositionValid
      <4>3. position.group \in Nat /\ position.source \in Nat
        BY DEF RoundsInv, PlaceInv
      <4>4. g \in 1..Len(Groups)
        BY <3>2, <4>2, <4>3
      <4>5. Len(Groups[g]) \in Nat /\ Len(Groups'[g]) \in Nat /\ Len(Groups[g]) <= Len(Groups'[g])
        BY <3>2, <4>1, <4>4
      <4> HIDE DEF g
      <4>6. position.source < Len(Groups'[g])
        BY <4>2, <4>3, <4>5
      <4> QED BY <4>1, <4>2, <4>6 DEF g
    <3> QED BY <3>3, <3>4
  <2>4. (~Shifted => PositionValid)'
    BY <1>1, <2>3 DEF PositionValid
  <2>5. PlaceInv'
    BY <1>1, <2>2, <2>4 DEF RoundsInv, PlaceInv
  <2> QED BY <1>2, <1>3, <2>5 DEF RoundsInv
<1> QED BY <1>4, <1>5

\* A frame changes neither the sources nor the place.
LEMMA ArriveRounds ==
    ASSUME RoundsInv, NEW s \in Sources, Arrive(s)
    PROVE  RoundsInv'
<1>1. /\ s \in attached /\ waiting[s] < MaxWaiting
      /\ waiting' = [waiting EXCEPT ![s] = @ + 1]
      /\ UNCHANGED <<config, known, attached, position, passed>>
  BY DEF Arrive
<1>2. SourcesInv'
  BY <1>1 DEF RoundsInv, SourcesInv
<1>3. CountsInv'
  BY <1>1, BatchRoundsAssumption DEF RoundsInv, CountsInv
<1>4. Groups' = Groups /\ Shifted' = Shifted
  BY <1>1, SameGroups
<1>5. PlaceInv'
  BY <1>1, <1>4 DEF RoundsInv, PlaceInv, PositionValid
<1> QED BY <1>2, <1>3, <1>5 DEF RoundsInv

\* The place a batch leaves behind is one of the groups it was formed from.
LEMMA FormRounds ==
    ASSUME RoundsInv, NEW size \in Sizes, Form(size)
    PROVE  RoundsInv'
<1>1. /\ size \in Nat /\ known # <<>> /\ UNCHANGED <<config, known, attached>>
      /\ \E f \in Batches(size) : FormedWith(size, f)
  BY FormIs
<1>2. PICK f \in Batches(size) : FormedWith(size, f)
  BY <1>1
<1>3. SourcesInv /\ CountsInv /\ PlaceInv /\ position \in [group : Nat, source : Nat]
  BY DEF RoundsInv, PlaceInv
<1>4. Sound(f, size)
  BY <1>1, <1>3, BatchesSound
<1>5. SourcesInv'
  BY <1>1, <1>3 DEF SourcesInv
<1>6. ASSUME NEW s \in Sources
      PROVE  /\ Taken(f, s) \in 0..waiting[s] /\ waiting[s] \in 0..MaxWaiting
             /\ s \notin attached => Taken(f, s) = 0 /\ waiting[s] = 0
  <2>1. waiting[s] \in 0..MaxWaiting /\ (s \notin attached => waiting[s] = 0)
    BY <1>3 DEF CountsInv
  <2>2. CASE s \in DOMAIN f.num
    <3>1. s \in attached /\ f.num[s] \in 0..Offer(size)[s]
      BY <1>4, <2>2 DEF Sound
    <3>2. Offer(size)[s] \in 0..waiting[s]
      BY <1>1, <1>3, <3>1, OfferIs
    <3>3. f.num[s] \in 0..waiting[s]
      BY <2>1, <3>1, <3>2, BatchRoundsAssumption
    <3> QED BY <2>1, <2>2, <3>1, <3>3 DEF Taken
  <2>3. CASE s \notin DOMAIN f.num
    BY <2>1, <2>3, BatchRoundsAssumption DEF Taken
  <2> QED BY <2>2, <2>3
<1>7. CountsInv'
  <2>1. CASE UNCHANGED <<waiting, passed>>
    BY <1>1, <1>3, <2>1 DEF CountsInv
  <2>2. CASE /\ waiting' = [s \in Sources |-> waiting[s] - Taken(f, s)]
             /\ passed' = [s \in Sources |->
                    IF waiting[s] = 0 \/ Taken(f, s) > 0 \/ ~(size # 0 /\ f.acc = size) THEN 0
                    ELSE AtMost(passed[s] + 1, Cardinality(Sources))]
    <3>1. ASSUME NEW s \in Sources
          PROVE  /\ waiting'[s] \in 0..MaxWaiting /\ passed'[s] \in Nat
                 /\ s \notin attached => waiting'[s] = 0 /\ passed'[s] = 0
      <4>1. waiting'[s] = waiting[s] - Taken(f, s)
        BY <2>2
      <4>2. passed[s] \in Nat /\ Cardinality(Sources) \in Nat
        BY <1>3, BatchRoundsAssumption, FS_CardinalityType DEF CountsInv
      <4>3. AtMost(passed[s] + 1, Cardinality(Sources)) \in Nat
        BY <4>2 DEF AtMost
      <4>4. passed'[s] \in Nat /\ (waiting[s] = 0 => passed'[s] = 0)
        BY <2>2, <4>3
      <4> QED BY <1>6, <4>1, <4>4, BatchRoundsAssumption
    <3> QED BY <1>1, <2>2, <3>1 DEF CountsInv
  <2> QED BY <1>2, <2>1, <2>2 DEF FormedWith
<1>8. position' = f.pos
  BY <1>2 DEF FormedWith
<1>9. Groups' = Groups /\ Shifted' = Shifted
  BY <1>1, SameGroups
<1>10. ASSUME ~Shifted
       PROVE  PositionValid'
  <2>1. PositionValid
    BY <1>3, <1>10 DEF PlaceInv
  <2>2. config.roundRobin => /\ f.pos.group < Len(Groups)
                             /\ f.pos.source < Len(Groups[f.pos.group + 1])
    BY <1>1, <1>3, <2>1, ValidBatch
  <2> QED BY <1>1, <1>8, <1>9, <2>2 DEF PositionValid
<1>11. PlaceInv'
  BY <1>1, <1>4, <1>8, <1>9, <1>10 DEF PlaceInv, Sound
<1> QED BY <1>5, <1>7, <1>11 DEF RoundsInv

\* Nothing the policy does breaks the invariant.
LEMMA RoundsInvariant == Spec => []RoundsInv
<1>1. RoundsInv /\ [Next]_vars => RoundsInv'
  <2> SUFFICES ASSUME RoundsInv, [Next]_vars PROVE RoundsInv'
    OBVIOUS
  <2>1. ASSUME NEW s \in Sources, AddSource(s) PROVE RoundsInv'
    BY <2>1, AddSourceRounds
  <2>2. ASSUME NEW s \in Sources, Arrive(s) PROVE RoundsInv'
    BY <2>2, ArriveRounds
  <2>3. ASSUME NEW size \in Sizes, Form(size) PROVE RoundsInv'
    BY <2>3, FormRounds
  <2>4. CASE UNCHANGED vars
    <3>1. UNCHANGED <<config, known, attached, waiting, position, passed>>
      BY <2>4 DEF vars
    <3>2. Groups' = Groups /\ Shifted' = Shifted
      BY <3>1, SameGroups
    <3>3. PlaceInv'
      BY <3>1, <3>2 DEF RoundsInv, PlaceInv, PositionValid
    <3> QED BY <3>1, <3>3 DEF RoundsInv, SourcesInv, CountsInv
  <2> QED BY <2>1, <2>2, <2>3, <2>4 DEF Next
<1> QED BY InitRounds, <1>1, PTL DEF Spec

\* The types, and the place the next walk starts from: it is that of a source unless
\* a late source with the default priority shifted the groups (last_batch_state).
THEOREM PlaceKept == Spec => []TypeOK
<1>1. RoundsInv => TypeOK
  BY DEF RoundsInv, SourcesInv, CountsInv, PlaceInv, TypeOK
<1> QED BY RoundsInvariant, <1>1, PTL

--------------------------------------------------------------------------------
(* The more urgent sources first *)

\* With the priority method a batch takes from a source only when every more
\* urgent source has given all it may.
LEMMA UrgentForm ==
    ASSUME RoundsInv, NEW size \in Sizes, Form(size)
    PROVE  UrgentFirst'
<1>1. /\ size \in Nat /\ known # <<>> /\ UNCHANGED <<config, known, attached>>
      /\ \E f \in Batches(size) : FormedWith(size, f)
  BY FormIs
<1>2. PICK f \in Batches(size) : FormedWith(size, f)
  BY <1>1
<1>3. SourcesInv /\ CountsInv /\ position \in [group : Nat, source : Nat]
  BY DEF RoundsInv, PlaceInv
<1> DEFINE offer == Offer(size)
           start == Start(Groups, position, config.roundRobin)
           walk == Walk(Groups, start)
<1>4. formed'.num = f.num /\ formed'.offer = offer
  <2> HIDE DEF offer
  <2>1. formed' = [size |-> size, offer |-> offer, num |-> f.num, acc |-> f.acc]
    BY <1>2 DEF FormedWith, offer
  <2> QED BY <2>1
<1>5. \A u : PriorityOf(u)' = PriorityOf(u)
  BY <1>1 DEF PriorityOf
<1>6. ASSUME ~config.roundRobin, NEW s \in DOMAIN f.num, f.num[s] > 0,
             NEW u \in DOMAIN offer, PriorityOf(u) < PriorityOf(s)
      PROVE  u \in DOMAIN f.num /\ f.num[u] = offer[u]
  <2>1. PositionValid
    BY <1>6 DEF PositionValid
  <2>2. /\ f = FormBatch(Groups, position, config.roundRobin, offer, size)
        /\ IsPosition(start)
    BY <1>1, <1>3, <2>1, ValidBatch
  <2>3. Grouped(Groups, Sources) /\ Unique(Groups)
    BY <1>1, <1>3, GroupsAreUnique
  <2>4. IsOffer(offer) /\ DOMAIN offer = attached
    BY <1>1, <1>3, OfferIs
  <2>5. PICK acc, last : BatchRun(Groups, start, walk, offer, size, f, acc, last)
    BY <1>1, <2>2, <2>3, <2>4, BatchRuns
  <2>6. start.group = 0 /\ start.source = 0
    BY <1>6 DEF Start
  <2> HIDE DEF start, offer
  <2>7. /\ Len(walk) \in Nat
        /\ \A k \in 1..Len(walk) : walk[k] \in Places(Groups)
        /\ \A p \in Places(Groups) : \E k \in 1..Len(walk) : walk[k] = p
    BY <2>2, <2>3, WalkVisitsEachOnce
  <2>8. \A k, m \in 1..Len(walk) : walk[k][1] < walk[m][1] => k < m
    BY <2>3, <2>6, UrgentWalk
  <2> HIDE DEF walk
  <2>9. last \in 0..Len(walk) /\ last \in Nat /\ \A k \in 1..last : k \in 1..Len(walk)
    BY <2>5, <2>7 DEF BatchRun
  <2>10. PICK k \in 1..last : SourceAt(Groups, walk, k) = s /\ f.num[s] = acc[k] - acc[k - 1]
    BY <2>5 DEF BatchRun, Result
  <2>11. u \in Range(known)
    BY <1>3, <2>4 DEF SourcesInv
  <2>12. PICK p \in Places(Groups) : At(p) = u
    BY <1>3, <2>11, PlacesHoldSources
  <2>13. PICK m \in 1..Len(walk) : walk[m] = p
    BY <2>7, <2>12
  <2>14. walk[k] \in Places(Groups) /\ At(walk[k]) = s /\ k \in 1..Len(walk)
    BY <2>7, <2>9, <2>10 DEF SourceAt, At
  <2>15. m < k
    <3>1. p[1] < walk[k][1]
      BY <1>3, <1>6, <2>12, <2>14, PlacesHoldSources
    <3> QED BY <2>8, <2>13, <2>14, <3>1
  <2>16. m \in 1..last /\ m < last
    BY <2>7, <2>9, <2>13, <2>15
  <2>17. SourceAt(Groups, walk, m) = u /\ OfferAt(Groups, walk, offer, m) = offer[u]
    BY <2>12, <2>13 DEF SourceAt, At, OfferAt
  <2>18. \A i \in 1..last : OfferAt(Groups, walk, offer, i) \in Nat
    BY <2>4 DEF OfferAt, IsOffer
  <2>19. Fills(Groups, walk, offer, size, acc) /\ EndsAt(walk, size, acc, last)
    BY <2>5 DEF BatchRun
  <2>20. size # 0
    <3>1. acc[k] \in 0..size /\ acc[k - 1] \in 0..size
      BY <1>1, <2>7, <2>18, <2>19, FillsUntilFull
    <3> QED BY <1>1, <1>6, <2>10, <3>1
  <2>21. acc[m] - acc[m - 1] = offer[u]
    <3>1. OfferAt(Groups, walk, offer, m) \in Nat
      BY <2>16, <2>18
    <3>2. acc[m] - acc[m - 1] = OfferAt(Groups, walk, offer, m)
      <4>1. size \in Nat /\ Len(walk) \in Nat /\ m \in 1..last /\ m < last
        BY <1>1, <2>7, <2>16
      <4>2. /\ acc[m] = AtMost(size, acc[m - 1] + OfferAt(Groups, walk, offer, m))
            /\ acc[m - 1] \in 0..size
            /\ size # 0 /\ m < last => acc[m] < size
        BY <2>19, <3>1, <4>1, FillsUntilFull
      <4> DEFINE w == OfferAt(Groups, walk, offer, m)
                 a == acc[m - 1]
      <4> HIDE DEF w, a
      <4>3. acc[m] = AtMost(size, a + w) /\ acc[m] < size /\ a \in Nat /\ w \in Nat
        BY <2>20, <3>1, <4>1, <4>2 DEF w, a
      <4>4. acc[m] = a + w
        BY <4>1, <4>3 DEF AtMost
      <4>5. (a + w) - a = w
        BY <4>3
      <4>6. acc[m] - a = w
        BY <4>4, <4>5
      <4> QED BY <4>6 DEF w, a
    <3> QED BY <2>17, <3>2
  <2>22. u \in DOMAIN f.num /\ f.num[u] = acc[m] - acc[m - 1]
    BY <2>5, <2>16, <2>17 DEF BatchRun
  <2> QED BY <2>21, <2>22
<1> HIDE DEF offer
<1> QED BY <1>1, <1>4, <1>5, <1>6 DEF UrgentFirst

\* Priority: a source gives frames only if every more urgent one gave all it offered
\* (form_batch walks priority_list from its least element).
THEOREM UrgentSourcesFirst == Spec => []UrgentFirst
<1>1. Init => UrgentFirst
  <2> SUFFICES ASSUME Init PROVE UrgentFirst
    OBVIOUS
  <2>1. formed = [size |-> 0, offer |-> NoFrames, num |-> NoFrames, acc |-> 0]
    BY DEF Init
  <2>2. DOMAIN formed.num = {}
    BY <2>1 DEF NoFrames
  <2> QED BY <2>2 DEF UrgentFirst
<1>2. RoundsInv /\ UrgentFirst /\ [Next]_vars => UrgentFirst'
  <2> SUFFICES ASSUME RoundsInv, UrgentFirst, [Next]_vars PROVE UrgentFirst'
    OBVIOUS
  <2>1. ASSUME UNCHANGED <<config, formed>> PROVE UrgentFirst'
    <3>1. \A u : PriorityOf(u)' = PriorityOf(u)
      BY <2>1 DEF PriorityOf
    <3> QED BY <2>1, <3>1 DEF UrgentFirst
  <2>2. ASSUME NEW s \in Sources, AddSource(s) PROVE UrgentFirst'
    BY <2>1, <2>2 DEF AddSource
  <2>3. ASSUME NEW s \in Sources, Arrive(s) PROVE UrgentFirst'
    BY <2>1, <2>3 DEF Arrive
  <2>4. ASSUME NEW size \in Sizes, Form(size) PROVE UrgentFirst'
    BY <2>4, UrgentForm
  <2>5. CASE UNCHANGED vars
    BY <2>1, <2>5 DEF vars
  <2> QED BY <2>2, <2>3, <2>4, <2>5 DEF Next
<1> QED BY RoundsInvariant, <1>1, <1>2, PTL DEF Spec

--------------------------------------------------------------------------------
(* Everyone in turn *)

\* The remainder of a number below twice the divisor.
LEMMA SmallRemainder ==
    ASSUME NEW n \in Nat \ {0}, NEW x \in Nat, x < n + n
    PROVE  x % n = IF x < n THEN x ELSE x - n
<1> DEFINE r == x % n
           q == x \div n
           e == IF x < n THEN 0 ELSE 1
           y == IF x < n THEN x ELSE x - n
           nq == n * q
           ne == n * e
<1>1. r \in 0..(n - 1) /\ q \in Nat /\ x = nq + r
  BY Division
<1>2. y \in 0..(n - 1) /\ x = ne + y /\ e \in Nat
  OBVIOUS
<1>3. n * (q - e) = nq - ne /\ q - e \in Int /\ nq \in Int /\ ne \in Int
  BY <1>1, <1>2
<1> DEFINE d == n * (q - e)
<1> HIDE DEF r, q, e, y, nq, ne, d
<1>4. d = nq - ne
  BY <1>3 DEF d
<1>5. d < n /\ 0 - n < d
  BY <1>1, <1>2, <1>3, <1>4
<1>6. q - e = 0
  BY <1>3, <1>5, OnlyMultiple DEF d
<1>7. q = e
  BY <1>1, <1>2, <1>6
<1>8. nq = ne
  BY <1>7 DEF nq, ne
<1>9. r = y
  BY <1>1, <1>2, <1>3, <1>8
<1> QED BY <1>9 DEF r, y

\* One turn from the place a counted from 0 goes up to n, then on from 1.
LEMMA TurnIs ==
    ASSUME NEW n \in Nat \ {0}, NEW a \in 0..(n - 1), NEW j \in 1..n
    PROVE  Turn(a, n, j) = IF j + a <= n THEN j + a ELSE j + a - n
<1> DEFINE x == j - 1 + a
<1>1. x \in Nat /\ x < n + n
  OBVIOUS
<1>2. x % n = IF x < n THEN x ELSE x - n
  BY <1>1, SmallRemainder
<1> QED BY <1>2 DEF Turn

\* After l places of a turn the next turn begins with those that are left.
LEMMA TurnOn ==
    ASSUME NEW n \in Nat \ {0}, NEW a \in 0..(n - 1), NEW l \in 1..n, NEW k \in 1..n,
           NEW b, b = Turn(a, n, l) % n
    PROVE  /\ b \in 0..(n - 1)
           /\ Turn(b, n, k) = Turn(a, n, IF l + k <= n THEN l + k ELSE l + k - n)
<1> DEFINE t == Turn(a, n, l)
           m == IF l + k <= n THEN l + k ELSE l + k - n
<1>1. t = IF l + a <= n THEN l + a ELSE l + a - n
  BY TurnIs
<1>2. m \in 1..n
  OBVIOUS
<1> HIDE DEF t
<1>3. t \in Nat /\ t < n + n /\ t \in 1..n
  BY <1>1
<1>4. b = IF t < n THEN t ELSE t - n
  BY <1>3, SmallRemainder DEF t
<1>5. b \in 0..(n - 1)
  BY <1>3, <1>4
<1>6. Turn(b, n, k) = IF k + b <= n THEN k + b ELSE k + b - n
  BY <1>5, TurnIs
<1>7. Turn(a, n, m) = IF m + a <= n THEN m + a ELSE m + a - n
  BY <1>2, TurnIs
<1>8. (IF k + b <= n THEN k + b ELSE k + b - n) = (IF m + a <= n THEN m + a ELSE m + a - n)
  BY <1>1, <1>4
<1> QED BY <1>5, <1>6, <1>7, <1>8

\* The k-th source of the next walk was left out of as many full batches as there are
\* sources behind it, or fewer.
TurnInv ==
    config.roundRobin /\ Len(Groups) = 1 =>
        \A k \in 1..Len(known) :
            passed[known[Turn(position.source, Len(known), k)]] + k <= Len(known)

\* A single group cannot have been shifted, and the remembered place is in it.
LEMMA SingleGroup ==
    ASSUME RoundsInv, config.roundRobin, Len(Groups) = 1
    PROVE  /\ ~Shifted /\ PositionValid
           /\ known # <<>> /\ Len(known) \in Nat \ {0} /\ Groups[1] = known
           /\ position.group = 0 /\ position.source \in 0..(Len(known) - 1)
<1>1. GroupsHold
  BY GroupsNow DEF RoundsInv
<1>2. Cardinality(Levels) = 1 /\ IsFiniteSet(Levels)
  BY <1>1 DEF GroupsHold
<1>3. known # <<>>
  <2>1. known = <<>> => Levels = {}
    BY DEF Levels, Range
  <2> QED BY <1>2, <2>1, FS_EmptySet
<1>4. Len(known) \in Nat \ {0}
  BY <1>3 DEF RoundsInv, SourcesInv
<1>5. \A p, q \in Levels : p = q
  BY <1>2, FS_Singleton
<1>6. ~Shifted
  <2> SUFFICES ASSUME Shifted PROVE FALSE
    OBVIOUS
  <2>1. PICK u \in DOMAIN config.priority : config.priority[u] # DefaultPriority
    BY DEF Shifted
  <2>2. DOMAIN config.priority \subseteq Range(known)
    BY DEF RoundsInv, SourcesInv
  <2>3. PICK v \in Range(known) : v \notin DOMAIN config.priority
    BY <2>2 DEF Shifted
  <2>4. PriorityOf(u) # DefaultPriority /\ PriorityOf(v) = DefaultPriority
    BY <2>1, <2>3 DEF PriorityOf
  <2>5. PriorityOf(u) \in Levels /\ PriorityOf(v) \in Levels
    BY <2>1, <2>2, <2>3 DEF Levels
  <2> QED BY <1>5, <2>4, <2>5
<1>7. PositionValid /\ position \in [group : Nat, source : Nat]
  BY <1>6 DEF RoundsInv, PlaceInv
<1>8. Groups[1] = known
  BY <1>1 DEF GroupsHold
<1>9. position.group = 0 /\ position.source < Len(Groups[0 + 1])
  BY <1>3, <1>7 DEF PositionValid
<1>10. position.source \in 0..(Len(known) - 1)
  BY <1>4, <1>7, <1>8, <1>9
<1> QED BY <1>3, <1>4, <1>6, <1>7, <1>8, <1>9, <1>10

\* A source that becomes known takes its turn behind the others.
LEMMA TurnAdd ==
    ASSUME RoundsInv, RoundsInv', TurnInv, NEW s \in Sources, AddSource(s)
    PROVE  TurnInv'
<1>1. UNCHANGED <<config, position, passed>> /\ s \notin attached
  BY DEF AddSource
<1>2. CASE s \in Range(known)
  <2>1. known' = known
    BY <1>2 DEF AddSource
  <2>2. Groups' = Groups
    BY <1>1, <2>1, SameGroups
  <2> QED BY <1>1, <2>1, <2>2 DEF TurnInv
<1>3. CASE s \notin Range(known)
  <2> SUFFICES ASSUME config.roundRobin, Len(Groups') = 1, NEW k \in 1..Len(known')
               PROVE  passed[known'[Turn(position.source, Len(known'), k)]] + k <= Len(known')
    BY <1>1 DEF TurnInv
  <2> DEFINE n == Len(known)
             a == position.source
  <2>1. known' = Append(known, s)
    BY <1>3 DEF AddSource
  <2>2. /\ Len(known') = n + 1 /\ n \in Nat
        /\ \A i \in 1..n : known'[i] = known[i]
        /\ known'[n + 1] = s
    BY <1>1, <1>3, <2>1, SourceListed DEF RoundsInv
  <2>3. passed[s] = 0
    BY <1>1 DEF RoundsInv, CountsInv
  <2>4. CASE known = <<>>
    <3>1. a = 0 /\ n = 0
      BY <2>4 DEF RoundsInv, PlaceInv
    <3>2. k = 1 /\ Len(known') = 1
      BY <2>2, <3>1
    <3>3. Turn(0, 1, 1) = 1
      BY TurnIs
    <3> QED BY <2>2, <2>3, <3>1, <3>2, <3>3
  <2>5. CASE known # <<>>
    <3>1. SourcesInv /\ SourcesInv'
      BY DEF RoundsInv
    <3>2. ~Shifted'
      <4>1. (RoundsInv /\ config.roundRobin /\ Len(Groups) = 1 => ~Shifted)'
        BY SingleGroup, PTL
      <4> QED BY <1>1, <4>1
    <3>3. Len(Groups) = 1
      BY <1>1, <1>3, <2>1, <2>5, <3>1, <3>2, NewSourceJoins
    <3>4. n \in Nat \ {0} /\ a \in 0..(n - 1)
      BY <3>3, SingleGroup
    <3>5. \A j \in 1..n : passed[known[Turn(a, n, j)]] + j <= n
      BY <3>3 DEF TurnInv
    <3> DEFINE t == Turn(a, n + 1, k)
    <3> HIDE DEF n, a, t
    <3>6. k \in 1..(n + 1) /\ n + 1 \in Nat \ {0} /\ a \in 0..((n + 1) - 1)
      BY <2>2, <3>4
    <3>7. t = IF k + a <= n + 1 THEN k + a ELSE k + a - (n + 1)
      BY <3>6, TurnIs DEF t
    <3>8. \A j \in 1..n : Turn(a, n, j) = IF j + a <= n THEN j + a ELSE j + a - n
      BY <3>4, TurnIs
    <3>9. \A i \in Sources : passed[i] \in Nat
      BY DEF RoundsInv, CountsInv
    <3>10. \A i \in 1..n : known[i] \in Sources
      BY <3>1 DEF SourcesInv, n
    <3>11. passed[known'[t]] + k <= n + 1
      <4>1. CASE k + a <= n
        <5>1. k \in 1..n /\ t = k + a /\ t \in 1..n /\ Turn(a, n, k) = t
          BY <3>4, <3>6, <3>7, <3>8, <4>1
        <5>2. passed[known[t]] + k <= n /\ passed[known[t]] \in Nat
          BY <3>5, <3>9, <3>10, <5>1
        <5>3. known'[t] = known[t]
          BY <2>2, <5>1
        <5> QED BY <3>4, <3>6, <5>2, <5>3
      <4>2. CASE k + a = n + 1
        <5>1. t = n + 1
          BY <3>4, <3>6, <3>7, <4>2
        <5> QED BY <2>2, <2>3, <3>6, <5>1
      <4>3. CASE k + a > n + 1
        <5>1. /\ k - 1 \in 1..n /\ t = k + a - (n + 1) /\ t \in 1..n
              /\ (k - 1) + a > n /\ (k - 1) + a - n = t
          BY <3>4, <3>6, <3>7, <4>3
        <5>2. Turn(a, n, k - 1) = t
          BY <3>4, <3>8, <5>1
        <5>3. passed[known[t]] + (k - 1) <= n /\ passed[known[t]] \in Nat
          BY <3>5, <3>9, <3>10, <5>1, <5>2
        <5>4. known'[t] = known[t]
          BY <2>2, <5>1
        <5> QED BY <3>4, <3>6, <5>3, <5>4
      <4> QED BY <3>4, <3>6, <4>1, <4>2, <4>3
    <3> QED BY <2>2, <3>11 DEF n, a, t
  <2> QED BY <2>4, <2>5
<1> QED BY <1>2, <1>3

\* A source visited by a full batch gave a frame, if it had one.
LEMMA VisitedGives ==
    ASSUME RoundsInv, NEW size \in Nat \ {0}, NEW start, NEW walk, Len(walk) \in Nat, NEW f,
           NEW acc, NEW last, BatchRun(Groups, start, walk, Offer(size), size, f, acc, last),
           NEW m \in 1..last, NEW s \in Sources, SourceAt(Groups, walk, m) = s, waiting[s] # 0
    PROVE  Taken(f, s) > 0
<1> DEFINE offer == Offer(size)
           w == OfferAt(Groups, walk, offer, m)
<1>1. /\ IsOffer(offer) /\ DOMAIN offer = attached
      /\ \A u \in attached : waiting[u] # 0 => offer[u] # 0
  BY OfferIs DEF RoundsInv
<1>2. s \in attached
  BY DEF RoundsInv, CountsInv
<1> HIDE DEF offer
<1>3. w = offer[s] /\ w \in Nat \ {0}
  BY <1>1, <1>2 DEF OfferAt, IsOffer
<1>4. Fills(Groups, walk, offer, size, acc) /\ EndsAt(walk, size, acc, last)
  BY DEF BatchRun, offer
<1>5. size \in Nat /\ w \in Nat
  BY <1>3
<1>6. /\ acc[m] = AtMost(size, acc[m - 1] + w)
      /\ acc[m - 1] \in 0..size
      /\ size # 0 => acc[m - 1] < size
  BY <1>4, <1>5, FillsUntilFull
<1> DEFINE a == acc[m - 1]
<1>7. s \in DOMAIN f.num /\ f.num[s] = acc[m] - a
  BY <1>1, <1>2 DEF BatchRun, offer
<1> HIDE DEF w, a
<1>8. a \in Nat /\ a < size /\ acc[m] = AtMost(size, a + w)
  BY <1>5, <1>6 DEF a
<1>9. acc[m] - a > 0
  BY <1>3, <1>5, <1>8 DEF AtMost
<1> QED BY <1>7, <1>9 DEF Taken

\* The next walk begins where the batch ended, and those it visited had their turn.
LEMMA TurnForm ==
    ASSUME RoundsInv, TurnInv, NEW size \in Sizes, Form(size)
    PROVE  TurnInv'
<1>1. /\ size \in Nat /\ known # <<>> /\ UNCHANGED <<config, known, attached>>
      /\ \E f \in Batches(size) : FormedWith(size, f)
  BY FormIs
<1>2. PICK f \in Batches(size) : FormedWith(size, f)
  BY <1>1
<1>3. SourcesInv /\ CountsInv /\ position \in [group : Nat, source : Nat]
  BY DEF RoundsInv, PlaceInv
<1>4. Groups' = Groups
  BY <1>1, SameGroups
<1> SUFFICES ASSUME config.roundRobin, Len(Groups) = 1, NEW k \in 1..Len(known)
             PROVE  passed'[known[Turn(position'.source, Len(known), k)]] + k <= Len(known)
  BY <1>1, <1>4 DEF TurnInv
<1> DEFINE n == Len(known)
           a == position.source
           b == f.pos.source
           walk == Walk(Groups, position)
<1>5. /\ PositionValid /\ n \in Nat \ {0} /\ Groups[1] = known
      /\ position.group = 0 /\ a \in 0..(n - 1)
  BY SingleGroup
<1>6. \A j \in 1..n : passed[known[Turn(a, n, j)]] + j <= n
  BY DEF TurnInv
<1>7. Start(Groups, position, config.roundRobin) = position /\ IsPosition(position)
  BY <1>3 DEF Start, IsPosition
<1>8. f = FormBatch(Groups, position, config.roundRobin, Offer(size), size)
  BY <1>1, <1>3, <1>5, ValidBatch
<1>9. Grouped(Groups, Sources) /\ Unique(Groups)
  BY <1>1, <1>3, GroupsAreUnique
<1>10. IsOffer(Offer(size))
  BY <1>1, <1>3, OfferIs
<1>11. PICK acc, last : BatchRun(Groups, position, walk, Offer(size), size, f, acc, last)
  <2> DEFINE start == Start(Groups, position, config.roundRobin)
             batch == FormBatch(Groups, position, config.roundRobin, Offer(size), size)
  <2>1. \E acc, last : BatchRun(Groups, start, Walk(Groups, start), Offer(size), size,
                               batch, acc, last)
    BY <1>1, <1>7, <1>9, <1>10, BatchRuns
  <2> HIDE DEF batch, start
  <2>2. start = position /\ batch = f
    BY <1>7, <1>8 DEF batch, start
  <2> QED BY <2>1, <2>2
<1>12. Len(walk) = n /\ \A j \in 1..n : walk[j] = <<1, Turn(a, n, j)>>
  BY <1>5, <1>7, <1>9, SingleWalk
<1> HIDE DEF walk
<1>13. \A j \in 1..n : SourceAt(Groups, walk, j) = known[Turn(a, n, j)]
  BY <1>5, <1>12 DEF SourceAt
<1>14. \A j \in 1..n : Turn(a, n, j) \in 1..n
  <2> HIDE DEF n, a
  <2>1. a \in Nat
    BY <1>5
  <2> QED BY <1>5, <2>1, TurnMeetsAll
<1>15. \A i \in 1..n : known[i] \in Sources
  BY <1>3 DEF SourcesInv
<1>16. position' = f.pos
  BY <1>2 DEF FormedWith
<1>17. \A s \in Sources : passed[s] \in Nat /\ Cardinality(Sources) \in Nat
  BY <1>3, BatchRoundsAssumption, FS_CardinalityType DEF CountsInv
<1>18. last \in 0..n /\ f.acc = acc[last]
  BY <1>11, <1>12 DEF BatchRun, Result
<1>19. CASE \E j \in 1..n : size # 0 /\ acc[j] = size
  <2>1. size # 0 /\ last \in 1..n /\ acc[last] = size
    BY <1>11, <1>12, <1>19 DEF BatchRun, EndsAt
  <2>2. f.pos = After(Groups, walk[last])
    BY <1>11, <1>12, <1>19 DEF BatchRun, Result
  <2>3. b = Turn(a, n, last) % n
    <3>1. walk[last] = <<1, Turn(a, n, last)>>
      BY <1>12, <2>1
    <3>2. After(Groups, walk[last]).source = walk[last][2] % Len(Groups[walk[last][1]])
      BY DEF After
    <3> QED BY <1>5, <2>2, <3>1, <3>2
  <2> DEFINE m == IF last + k <= n THEN last + k ELSE last + k - n
             s == known[Turn(a, n, m)]
  <2> HIDE DEF b, n, a
  <2>4. Turn(b, n, k) = Turn(a, n, m)
    <3>1. k \in 1..n
      BY DEF n
    <3> QED BY <1>5, <2>1, <2>3, <3>1, TurnOn
  <2>5. m \in 1..n /\ k \in 1..n
    BY <1>5, <2>1 DEF n
  <2>6. s \in Sources
    BY <1>14, <1>15, <2>5
  <2>7. passed[s] + m <= n
    BY <1>6, <2>5
  <2>8. passed'[s] = IF waiting[s] = 0 \/ Taken(f, s) > 0 THEN 0
                     ELSE AtMost(passed[s] + 1, Cardinality(Sources))
    BY <1>2, <1>18, <2>1, <2>6 DEF FormedWith
  <2>9. passed'[s] + k <= n
    <3>1. CASE last + k <= n
      <4>1. passed[s] + (last + k) <= n /\ passed[s] \in Nat /\ Cardinality(Sources) \in Nat
        BY <1>17, <2>6, <2>7, <3>1
      <4> HIDE DEF s, m
      <4>2. passed'[s] \in Nat /\ passed'[s] <= passed[s] + 1
        BY <2>8, <4>1 DEF AtMost
      <4> QED BY <1>5, <2>1, <2>5, <4>1, <4>2
    <3>2. CASE ~(last + k <= n)
      <4>1. m \in 1..last
        BY <1>5, <2>1, <2>5, <3>2
      <4>2. SourceAt(Groups, walk, m) = s
        BY <1>13, <2>5
      <4>3. size \in Nat \ {0} /\ Len(walk) \in Nat
        BY <1>1, <1>5, <1>12, <2>1
      <4> HIDE DEF s, m
      <4>4. waiting[s] # 0 => Taken(f, s) > 0
        BY <1>11, <2>6, <4>1, <4>2, <4>3, VisitedGives
      <4>5. passed'[s] = 0
        BY <2>8, <4>4
      <4> QED BY <1>5, <2>5, <4>5
    <3> QED BY <3>1, <3>2
  <2> QED BY <1>16, <2>4, <2>9 DEF n, b
<1>20. CASE ~\E j \in 1..n : size # 0 /\ acc[j] = size
  <2>1. b = a
    <3>1. f.pos = [group |-> position.group, source |-> position.source]
      BY <1>11, <1>12, <1>20 DEF BatchRun, Result
    <3> QED BY <3>1
  <2>2. last = n /\ n \in 1..n
    BY <1>5, <1>11, <1>12, <1>20 DEF BatchRun, EndsAt
  <2>3. ~(size # 0 /\ f.acc = size)
    BY <1>18, <1>20, <2>2
  <2> DEFINE s == known[Turn(a, n, k)]
  <2>4. s \in Sources /\ passed[s] + k <= n /\ passed[s] \in Nat
    BY <1>6, <1>14, <1>15, <1>17
  <2> HIDE DEF s
  <2>5. passed'[s] = 0 \/ passed'[s] = passed[s]
    BY <1>2, <2>3, <2>4 DEF FormedWith
  <2>6. passed'[s] + k <= n
    BY <1>5, <2>4, <2>5
  <2> QED BY <1>16, <2>1, <2>6 DEF s
<1> QED BY <1>19, <1>20

\* Every step keeps the order of the turns.
LEMMA TurnInvariant == Spec => []TurnInv
<1>1. Init => TurnInv
  <2> SUFFICES ASSUME Init, config.roundRobin, Len(Groups) = 1, NEW k \in 1..Len(known)
               PROVE  passed[known[Turn(position.source, Len(known), k)]] + k <= Len(known)
    BY DEF TurnInv
  <2> DEFINE n == Len(known)
             a == position.source
  <2>1. RoundsInv
    BY InitRounds
  <2>2. n \in Nat \ {0} /\ a \in 0..(n - 1)
    BY <2>1, SingleGroup
  <2>3. \A i \in 1..n : known[i] \in Sources
    BY <2>1 DEF RoundsInv, SourcesInv
  <2> HIDE DEF n, a
  <2>4. a \in Nat /\ k \in 1..n
    BY <2>2 DEF n
  <2>5. Turn(a, n, k) \in 1..n
    BY <2>2, <2>4, TurnMeetsAll
  <2>6. passed[known[Turn(a, n, k)]] = 0
    BY <2>3, <2>5 DEF Init
  <2>7. passed[known[Turn(a, n, k)]] + k <= n
    BY <2>2, <2>4, <2>6
  <2> QED BY <2>7 DEF n, a
<1>2. RoundsInv /\ RoundsInv' /\ TurnInv /\ [Next]_vars => TurnInv'
  <2> SUFFICES ASSUME RoundsInv, RoundsInv', TurnInv, [Next]_vars PROVE TurnInv'
    OBVIOUS
  <2>1. ASSUME UNCHANGED <<config, known, position, passed>> PROVE TurnInv'
    <3>1. Groups' = Groups
      BY <2>1, SameGroups
    <3> QED BY <2>1, <3>1 DEF TurnInv
  <2>2. ASSUME NEW s \in Sources, AddSource(s) PROVE TurnInv'
    BY <2>2, TurnAdd
  <2>3. ASSUME NEW s \in Sources, Arrive(s) PROVE TurnInv'
    BY <2>1, <2>3 DEF Arrive
  <2>4. ASSUME NEW size \in Sizes, Form(size) PROVE TurnInv'
    BY <2>4, TurnForm
  <2>5. CASE UNCHANGED vars
    BY <2>1, <2>5 DEF vars
  <2> QED BY <2>2, <2>3, <2>4, <2>5 DEF Next
<1> QED BY RoundsInvariant, <1>1, <1>2, PTL DEF Spec

\* Round robin, one priority: a source with frames is left out of fewer full batches in a
\* row than there are sources, however sources join (last_batch_state.source_map_position).
THEOREM SourcesTakeTurns == Spec => []EveryoneInTurn
<1>1. RoundsInv /\ TurnInv => EveryoneInTurn
  <2> SUFFICES ASSUME RoundsInv, TurnInv, config.roundRobin, Len(Groups) = 1, NEW s \in Sources
               PROVE  passed[s] < Len(known)
    BY DEF EveryoneInTurn
  <2> DEFINE n == Len(known)
             a == position.source
  <2>1. n \in Nat \ {0} /\ a \in 0..(n - 1)
    BY SingleGroup
  <2>2. passed[s] \in Nat
    BY DEF RoundsInv, CountsInv
  <2>3. CASE s \in Range(known)
    <3>1. PICK i \in 1..n : known[i] = s
      BY <2>3 DEF RoundsInv, SourcesInv, Range
    <3>2. \A k \in 1..n : passed[known[Turn(a, n, k)]] + k <= n
      BY DEF TurnInv
    <3> HIDE DEF n, a
    <3>3. a \in Nat
      BY <2>1
    <3>4. PICK k \in 1..n : Turn(a, n, k) = i
      BY <2>1, <3>3, TurnMeetsAll
    <3>5. passed[s] + k <= n
      BY <3>1, <3>2, <3>4
    <3>6. passed[s] < n
      BY <2>1, <2>2, <3>5
    <3> QED BY <3>6 DEF n
  <2>4. CASE s \notin Range(known)
    <3>1. passed[s] = 0
      BY <2>4 DEF RoundsInv, SourcesInv, CountsInv
    <3> QED BY <2>1, <3>1
  <2> QED BY <2>3, <2>4
<1> QED BY RoundsInvariant, TurnInvariant, <1>1, PTL

--------------------------------------------------------------------------------
(* Sums over a finite set *)

Chosen(s) == CHOOSE x \in s : TRUE

\* What SumFunction computes: the sum over each subset, one member taken out at a time.
IsSum(S, f, g) ==
    g = [s \in SUBSET S |-> IF s = {} THEN 0 ELSE f[Chosen(s)] + g[s \ {Chosen(s)}]]

\* A set without one of its members is smaller.
LEMMA OneLess ==
    ASSUME NEW S, IsFiniteSet(S), NEW s \in SUBSET S, NEW x \in s
    PROVE  /\ s \ {x} \in SUBSET S
           /\ Cardinality(s) \in 1..Cardinality(S)
           /\ Cardinality(s \ {x}) = Cardinality(s) - 1
<1>1. IsFiniteSet(s) /\ Cardinality(s) <= Cardinality(S)
  BY FS_Subset
<1>2. Cardinality(s) \in Nat /\ Cardinality(S) \in Nat
  BY <1>1, FS_CardinalityType
<1>3. Cardinality(s) # 0
  BY <1>1, FS_EmptySet
<1>4. Cardinality(s \ {x}) = Cardinality(s) - 1
  BY <1>1, FS_RemoveElement
<1> QED BY <1>1, <1>2, <1>3, <1>4

\* There are such sums.
LEMMA SumExists ==
    ASSUME NEW S, IsFiniteSet(S), NEW f, \A s \in S : f[s] \in Nat
    PROVE  \E g : IsSum(S, f, g)
<1> DEFINE n == Cardinality(S)
           V == [SUBSET S -> Nat]
           next(g) == [s \in SUBSET S |-> IF s = {} THEN 0 ELSE f[Chosen(s)] + g[s \ {Chosen(s)}]]
           zero == [s \in SUBSET S |-> 0]
           step == [k \in 1..(n + 1) |-> [g \in V |-> next(g)]]
<1>1. n \in Nat /\ n + 1 \in Nat
  BY FS_CardinalityType
<1>2. \A s \in SUBSET S : s # {} => Chosen(s) \in s
  BY DEF Chosen
<1>3. \A g \in V : next(g) \in V
  <2> SUFFICES ASSUME NEW g \in V, NEW s \in SUBSET S, s # {}
               PROVE  f[Chosen(s)] + g[s \ {Chosen(s)}] \in Nat
    OBVIOUS
  <2>1. f[Chosen(s)] \in Nat
    BY <1>2
  <2>2. g[s \ {Chosen(s)}] \in Nat
    OBVIOUS
  <2> QED BY <2>1, <2>2
<1>4. zero \in V /\ \A s \in SUBSET S : zero[s] = 0
  OBVIOUS
<1>5. \A g : \A s \in SUBSET S : next(g)[s] = IF s = {} THEN 0 ELSE f[Chosen(s)] + g[s \ {Chosen(s)}]
  OBVIOUS
<1> HIDE DEF zero, next
<1>6. Steps(V, n + 1, step)
  BY <1>3 DEF Steps
<1>7. \A k \in 1..(n + 1) : \A g \in V : step[k][g] = next(g)
  OBVIOUS
<1> HIDE DEF step, V
<1>8. PICK h : Follows(V, zero, n + 1, step, h)
  BY <1>1, <1>4, <1>6, Recursion, Zenon
<1>9. h[0] = zero /\ \A k \in 0..(n + 1) : h[k] \in V
  BY <1>8 DEF Follows
<1> HIDE DEF n
<1>10. ASSUME NEW k \in 0..n
       PROVE  h[k + 1] = next(h[k])
  <2>1. k + 1 \in 1..(n + 1) /\ (k + 1) - 1 = k /\ k \in 0..(n + 1)
    BY <1>1
  <2>2. h[k + 1] = step[k + 1][h[k]]
    BY <1>8, <2>1 DEF Follows
  <2> QED BY <1>7, <1>9, <2>1, <2>2
<1> DEFINE Settled == {k \in 0..n : \A s \in SUBSET S : Cardinality(s) <= k => h[k + 1][s] = h[k][s]}
<1>11. 0 \in Settled
  <2> SUFFICES ASSUME NEW s \in SUBSET S, Cardinality(s) <= 0
               PROVE  h[0 + 1][s] = h[0][s]
    BY <1>1
  <2>1. IsFiniteSet(s)
    BY FS_Subset
  <2>2. s = {}
    BY <2>1, FS_CardinalityType, FS_EmptySet
  <2>3. h[0 + 1] = next(h[0])
    BY <1>1, <1>10
  <2>4. next(h[0])[{}] = 0 /\ h[0][{}] = 0
    BY <1>4, <1>5, <1>9
  <2> QED BY <2>2, <2>3, <2>4
<1>12. ASSUME NEW k \in 0..(n - 1), k \in Settled
       PROVE  k + 1 \in Settled
  <2>1. k \in 0..n /\ k + 1 \in 0..n
    BY <1>1
  <2> SUFFICES ASSUME NEW s \in SUBSET S, Cardinality(s) <= k + 1
               PROVE  h[(k + 1) + 1][s] = h[k + 1][s]
    BY <2>1
  <2>2. h[k + 1] = next(h[k]) /\ h[(k + 1) + 1] = next(h[k + 1])
    BY <1>10, <2>1
  <2>3. CASE s = {}
    BY <1>5, <2>2, <2>3
  <2>4. CASE s # {}
    <3> DEFINE r == s \ {Chosen(s)}
    <3>1. r \in SUBSET S /\ Cardinality(r) = Cardinality(s) - 1 /\ Cardinality(s) \in 1..n
      BY <1>2, <2>4, OneLess DEF n
    <3>2. Cardinality(r) <= k
      BY <2>1, <3>1
    <3>3. h[k + 1][r] = h[k][r]
      BY <1>12, <3>1, <3>2
    <3>4. /\ next(h[k])[s] = f[Chosen(s)] + h[k][r]
          /\ next(h[k + 1])[s] = f[Chosen(s)] + h[k + 1][r]
      BY <1>5, <2>4
    <3> QED BY <2>2, <3>3, <3>4
  <2> QED BY <2>3, <2>4
<1> HIDE DEF Settled
<1>13. \A k \in 0..n : k \in Settled
  BY <1>1, <1>11, <1>12, SetInduction
<1>14. n \in 0..n /\ n \in 0..(n + 1) /\ n + 1 \in 0..(n + 1)
  BY <1>1
<1>15. \A s \in SUBSET S : h[n + 1][s] = h[n][s]
  <2>1. \A s \in SUBSET S : Cardinality(s) <= n
    BY FS_Subset DEF n
  <2> QED BY <1>13, <1>14, <2>1 DEF Settled
<1>16. h[n] \in V /\ h[n + 1] \in V
  BY <1>9, <1>14
<1>17. h[n + 1] = h[n]
  BY <1>15, <1>16 DEF V
<1>18. h[n] = next(h[n])
  BY <1>10, <1>14, <1>17
<1>19. IsSum(S, f, h[n])
  BY <1>18 DEF IsSum, next
<1> QED BY <1>19

\* They are natural numbers, and the order in which members are added does not matter.
LEMMA SumAdds ==
    ASSUME NEW S, IsFiniteSet(S), NEW f, \A s \in S : f[s] \in Nat, NEW g, IsSum(S, f, g)
    PROVE  /\ g[{}] = 0
           /\ \A s \in SUBSET S : g[s] \in Nat
           /\ \A s \in SUBSET S : \A x \in S \ s : g[s \cup {x}] = f[x] + g[s]
<1> DEFINE n == Cardinality(S)
           Natural == {k \in 0..n : \A s \in SUBSET S : Cardinality(s) = k => g[s] \in Nat}
           Adds == {k \in 0..n : \A s \in SUBSET S : Cardinality(s) <= k =>
                        \A x \in S \ s : g[s \cup {x}] = f[x] + g[s]}
<1>1. n \in Nat
  BY FS_CardinalityType
<1>2. \A s \in SUBSET S : s # {} => Chosen(s) \in s
  BY DEF Chosen
<1>3. \A s \in SUBSET S : g[s] = IF s = {} THEN 0 ELSE f[Chosen(s)] + g[s \ {Chosen(s)}]
  BY DEF IsSum
<1>4. g[{}] = 0
  BY <1>3
<1>5. \A s \in SUBSET S : IsFiniteSet(s) /\ Cardinality(s) \in 0..n
  <2> SUFFICES ASSUME NEW s \in SUBSET S
               PROVE  IsFiniteSet(s) /\ Cardinality(s) \in 0..n
    OBVIOUS
  <2>1. IsFiniteSet(s) /\ Cardinality(s) <= n
    BY FS_Subset
  <2> QED BY <1>1, <2>1, FS_CardinalityType
<1>6. \A s \in SUBSET S : Cardinality(s) = 0 => s = {}
  BY <1>5, FS_EmptySet
<1> HIDE DEF n
<1>7. 0 \in Natural
  BY <1>1, <1>4, <1>6
<1>8. ASSUME NEW k \in 0..(n - 1), k \in Natural
      PROVE  k + 1 \in Natural
  <2>1. k + 1 \in 0..n /\ k + 1 # 0 /\ (k + 1) - 1 = k
    BY <1>1
  <2> SUFFICES ASSUME NEW s \in SUBSET S, Cardinality(s) = k + 1
               PROVE  g[s] \in Nat
    BY <2>1
  <2>2. s # {}
    BY <2>1, FS_EmptySet
  <2>3. /\ s \ {Chosen(s)} \in SUBSET S
        /\ Cardinality(s \ {Chosen(s)}) = k
    BY <1>2, <2>1, <2>2, OneLess
  <2>4. g[s \ {Chosen(s)}] \in Nat
    BY <1>8, <2>3
  <2>5. f[Chosen(s)] \in Nat
    BY <1>2, <2>2
  <2>6. g[s] = f[Chosen(s)] + g[s \ {Chosen(s)}]
    BY <1>3, <2>2
  <2> QED BY <2>4, <2>5, <2>6
<1> HIDE DEF Natural
<1>9. \A k \in 0..n : k \in Natural
  BY <1>1, <1>7, <1>8, SetInduction
<1>10. \A s \in SUBSET S : g[s] \in Nat
  BY <1>5, <1>9 DEF Natural
<1>11. 0 \in Adds
  <2> SUFFICES ASSUME NEW s \in SUBSET S, Cardinality(s) <= 0, NEW x \in S \ s
               PROVE  g[s \cup {x}] = f[x] + g[s]
    BY <1>1
  <2>1. s = {}
    BY <1>5, <1>6
  <2>2. Chosen({x}) = x
    BY DEF Chosen
  <2>3. g[{x}] = f[x] + g[{x} \ {x}]
    BY <1>3, <2>2
  <2>4. {x} \ {x} = {} /\ {} \cup {x} = {x}
    OBVIOUS
  <2> QED BY <2>1, <2>3, <2>4
<1>12. ASSUME NEW k \in 0..(n - 1), k \in Adds
       PROVE  k + 1 \in Adds
  <2>1. k + 1 \in 0..n /\ k \in Nat
    BY <1>1
  <2> SUFFICES ASSUME NEW s \in SUBSET S, Cardinality(s) <= k + 1, NEW x \in S \ s
               PROVE  g[s \cup {x}] = f[x] + g[s]
    BY <2>1
  <2> DEFINE t == s \cup {x}
             c == Chosen(t)
  <2>2. t \in SUBSET S /\ t # {} /\ c \in t
    BY <1>2
  <2>3. g[t] = f[c] + g[t \ {c}]
    BY <1>3, <2>2
  <2>4. CASE c = x
    <3>1. t \ {c} = s
      BY <2>4
    <3> QED BY <2>3, <2>4, <3>1
  <2>5. CASE c # x
    <3> DEFINE r == s \ {c}
    <3> HIDE DEF c
    <3>1. c \in s /\ t \ {c} = r \cup {x} /\ r \cup {c} = s /\ c \in S \ r /\ x \in S \ r
      BY <2>2, <2>5
    <3>2. r \in SUBSET S /\ Cardinality(r) = Cardinality(s) - 1
      BY <3>1, OneLess
    <3>3. Cardinality(r) <= k
      BY <1>1, <1>5, <2>1, <3>2
    <3> HIDE DEF r
    <3>4. g[r \cup {x}] = f[x] + g[r] /\ g[r \cup {c}] = f[c] + g[r]
      BY <1>12, <3>1, <3>2, <3>3
    <3>5. g[r] \in Nat /\ f[x] \in Nat /\ f[c] \in Nat
      BY <1>10, <3>1, <3>2
    <3>6. g[t] = f[c] + (f[x] + g[r])
      BY <2>3, <3>1, <3>4
    <3>7. f[x] + g[s] = f[x] + (f[c] + g[r])
      BY <3>1, <3>4
    <3> QED BY <3>5, <3>6, <3>7
  <2> QED BY <2>4, <2>5
<1> HIDE DEF Adds
<1>13. \A k \in 0..n : k \in Adds
  BY <1>1, <1>11, <1>12, SetInduction
<1>14. n \in 0..n /\ \A s \in SUBSET S : Cardinality(s) <= n
  BY <1>1, <1>5
<1>15. \A s \in SUBSET S : \A x \in S \ s : g[s \cup {x}] = f[x] + g[s]
  BY <1>13, <1>14 DEF Adds
<1> QED BY <1>4, <1>10, <1>15

\* SumFunction is such a sum, over the whole domain.
LEMMA SumFunctionIs ==
    ASSUME NEW S, IsFiniteSet(S), NEW f, DOMAIN f = S, \A s \in S : f[s] \in Nat
    PROVE  \E g : IsSum(S, f, g) /\ SumFunction(f) = g[S]
<1> DEFINE h == CHOOSE g : IsSum(S, f, g)
           i == CHOOSE g : g = [s \in SUBSET S |->
                                   IF s = {} THEN 0 ELSE f[Chosen(s)] + g[s \ {Chosen(s)}]]
<1>1. IsSum(S, f, h)
  BY SumExists
<1>2. i = h
  BY DEF IsSum
<1>3. DOMAIN f = S
  OBVIOUS
<1>4. SumFunction(f) = i[S]
  BY <1>3 DEF SumFunction, SumFunctionOnSet, FoldFunctionOnSet, MapThenFoldSet, Chosen
<1> QED BY <1>1, <1>2, <1>4

\* The places 1..n of a walk meet every member of S once; p adds up what f gives there.
AddsUp(n, S, f, at, p) ==
    /\ \A j, k \in 1..n : at[j] = at[k] => j = k
    /\ \A s \in S : \E k \in 1..n : at[k] = s
    /\ p[0] = 0
    /\ \A k \in 1..n : p[k] = p[k - 1] + (IF at[k] \in S THEN f[at[k]] ELSE 0)
    /\ \A k \in 0..n : p[k] \in Nat

\* Such a walk adds up to the sum over the set.
LEMMA SumAlong ==
    ASSUME NEW S, IsFiniteSet(S), NEW f, DOMAIN f = S, \A s \in S : f[s] \in Nat,
           NEW n \in Nat, NEW at, NEW p, AddsUp(n, S, f, at, p)
    PROVE  SumFunction(f) = p[n]
<1>1. /\ \A j, k \in 1..n : at[j] = at[k] => j = k
      /\ \A s \in S : \E k \in 1..n : at[k] = s
      /\ p[0] = 0
      /\ \A k \in 1..n : p[k] = p[k - 1] + (IF at[k] \in S THEN f[at[k]] ELSE 0)
      /\ \A k \in 0..n : p[k] \in Nat
  BY DEF AddsUp
<1>2. PICK g : IsSum(S, f, g) /\ SumFunction(f) = g[S]
  BY SumFunctionIs
<1>3. /\ g[{}] = 0
      /\ \A s \in SUBSET S : \A x \in S \ s : g[s \cup {x}] = f[x] + g[s]
  BY <1>2, SumAdds
<1> DEFINE met(k) == {x \in S : \E j \in 1..k : at[j] = x}
           Met == {k \in 0..n : g[met(k)] = p[k]}
<1>4. 0 \in Met
  <2>1. met(0) = {} /\ 0 \in 0..n
    OBVIOUS
  <2> HIDE DEF met
  <2>2. g[met(0)] = p[0]
    BY <1>1, <1>3, <2>1
  <2> QED BY <2>1, <2>2
<1>5. ASSUME NEW k \in 0..(n - 1), k \in Met
      PROVE  k + 1 \in Met
  <2>1. k + 1 \in 0..n /\ k + 1 \in 1..n /\ (k + 1) - 1 = k /\ k \in 0..n
    OBVIOUS
  <2>2. g[met(k)] = p[k] /\ p[k] \in Nat
    BY <1>1, <1>5, <2>1
  <2>3. \A j \in 1..(k + 1) : j \in 1..k \/ j = k + 1
    BY <2>1
  <2>4. \A j \in 1..k : j \in 1..(k + 1) /\ j \in 1..n /\ j # k + 1
    BY <2>1
  <2>5. k + 1 \in 1..(k + 1)
    BY <2>1
  <2>6. CASE at[k + 1] \in S
    <3> DEFINE x == at[k + 1]
    <3>1. met(k + 1) = met(k) \cup {x}
      BY <2>3, <2>4, <2>5, <2>6
    <3>2. x \in S \ met(k)
      BY <1>1, <2>1, <2>4, <2>6
    <3>3. met(k) \in SUBSET S
      OBVIOUS
    <3>4. p[k + 1] = p[k] + f[x]
      BY <1>1, <2>1, <2>6
    <3>5. f[x] \in Nat
      BY <2>6
    <3> HIDE DEF met, x
    <3>6. g[met(k + 1)] = f[x] + g[met(k)]
      BY <1>3, <3>1, <3>2, <3>3
    <3>7. g[met(k + 1)] = p[k + 1]
      BY <2>2, <3>4, <3>5, <3>6
    <3> QED BY <2>1, <3>7
  <2>7. CASE at[k + 1] \notin S
    <3>1. met(k + 1) = met(k)
      BY <2>3, <2>4, <2>7
    <3>2. p[k + 1] = p[k] + 0
      BY <1>1, <2>1, <2>7
    <3> HIDE DEF met
    <3>3. p[k + 1] = p[k]
      BY <2>2, <3>2
    <3> QED BY <2>1, <2>2, <3>1, <3>3
  <2> QED BY <2>6, <2>7
<1>6. met(n) = S
  BY <1>1
<1> HIDE DEF Met
<1>7. \A k \in 0..n : k \in Met
  BY <1>4, <1>5, SetInduction
<1>8. g[met(n)] = p[n]
  <2> HIDE DEF met
  <2>1. n \in 0..n
    OBVIOUS
  <2>2. n \in Met
    BY <1>7, <2>1
  <2> QED BY <2>2 DEF Met
<1> QED BY <1>2, <1>6, <1>8

WholeSum(n, size, o, acc, p) ==
    /\ p \in [0..n -> Nat] /\ p[0] = 0
    /\ \A k \in 1..n : p[k] = p[k - 1] + o[k]
    /\ \A k \in 0..n : acc[k] = AtMost(size, p[k])

\* A sum that stops at the size is the whole sum, cut off there.
LEMMA CappedSums ==
    ASSUME NEW n \in Nat, NEW size \in Nat, NEW o \in [1..n -> Nat], NEW acc, Sums(n, size, o, acc)
    PROVE  \E p : WholeSum(n, size, o, acc, p)
<1> DEFINE step == [k \in 1..n |-> [a \in Nat |-> a + o[k]]]
<1>1. Steps(Nat, n, step) /\ 0 \in Nat
  BY DEF Steps
<1>2. \A k \in 1..n : \A a \in Nat : step[k][a] = a + o[k]
  OBVIOUS
<1> HIDE DEF step
<1>3. PICK p : Follows(Nat, 0, n, step, p)
  BY <1>1, Recursion, Zenon
<1>4. p \in [0..n -> Nat] /\ p[0] = 0
  BY <1>3 DEF Follows
<1>5. ASSUME NEW k \in 1..n
      PROVE  p[k] = p[k - 1] + o[k]
  <2>1. k - 1 \in 0..n
    OBVIOUS
  <2>2. p[k] = step[k][p[k - 1]] /\ p[k - 1] \in Nat
    BY <1>3, <1>4, <2>1 DEF Follows
  <2> QED BY <1>2, <2>2
<1>6. acc = [k \in 0..n |-> IF k = 0 THEN 0 ELSE AtMost(size, acc[k - 1] + o[k])]
  BY DEF Sums
<1> DEFINE S == {k \in 0..n : acc[k] = AtMost(size, p[k])}
<1>7. 0 \in S
  <2>1. 0 \in 0..n /\ acc[0] = 0
    BY <1>6
  <2> QED BY <1>4, <2>1 DEF AtMost
<1>8. ASSUME NEW k \in 0..(n - 1), k \in S
      PROVE  k + 1 \in S
  <2>1. k + 1 \in 0..n /\ k + 1 \in 1..n /\ (k + 1) - 1 = k /\ k \in 0..n /\ k + 1 # 0
    OBVIOUS
  <2>2. acc[k] = AtMost(size, p[k]) /\ p[k] \in Nat /\ o[k + 1] \in Nat
    BY <1>4, <1>8, <2>1
  <2>3. acc[k + 1] = AtMost(size, acc[k] + o[k + 1]) /\ p[k + 1] = p[k] + o[k + 1]
    <3>1. acc[k + 1] = AtMost(size, acc[(k + 1) - 1] + o[k + 1])
      BY <1>6, <2>1
    <3>2. p[k + 1] = p[(k + 1) - 1] + o[k + 1]
      BY <1>5, <2>1
    <3> QED BY <2>1, <3>1, <3>2
  <2> DEFINE a == p[k]
             w == o[k + 1]
  <2> HIDE DEF a, w
  <2>4. AtMost(size, AtMost(size, a) + w) = AtMost(size, a + w)
    BY <2>2 DEF AtMost, a, w
  <2> QED BY <2>1, <2>2, <2>3, <2>4 DEF a, w
<1> HIDE DEF S
<1>9. \A k \in 0..n : k \in S
  BY <1>7, <1>8, SetInduction
<1>10. WholeSum(n, size, o, acc, p)
  BY <1>4, <1>5, <1>9 DEF S, WholeSum
<1> QED BY <1>10

\* It stays where it was cut off.
LEMMA StaysFull ==
    ASSUME NEW n \in Nat, NEW size \in Nat, NEW o \in [1..n -> Nat], NEW acc, Sums(n, size, o, acc),
           NEW m \in 0..n, acc[m] = size
    PROVE  acc[n] = size
<1>1. acc = [k \in 0..n |-> IF k = 0 THEN 0 ELSE AtMost(size, acc[k - 1] + o[k])]
  BY DEF Sums
<1> DEFINE S == {k \in 0..n : m <= k => acc[k] = size}
<1>2. 0 \in S
  <2>1. m <= 0 => m = 0
    OBVIOUS
  <2> QED BY <2>1
<1>3. ASSUME NEW k \in 0..(n - 1), k \in S
      PROVE  k + 1 \in S
  <2>1. k + 1 \in 0..n /\ k + 1 \in 1..n /\ (k + 1) - 1 = k /\ k + 1 # 0 /\ k \in Nat
    OBVIOUS
  <2>2. CASE m <= k
    <3>1. acc[k] = size /\ o[k + 1] \in Nat
      BY <1>3, <2>1, <2>2
    <3>2. acc[k + 1] = AtMost(size, acc[(k + 1) - 1] + o[k + 1])
      BY <1>1, <2>1
    <3>3. acc[k + 1] = size
      BY <2>1, <3>1, <3>2 DEF AtMost
    <3> QED BY <2>1, <3>3
  <2>3. CASE ~(m <= k)
    <3>1. m <= k + 1 => m = k + 1
      BY <2>1, <2>3
    <3> QED BY <2>1, <3>1
  <2> QED BY <2>2, <2>3
<1> HIDE DEF S
<1>4. \A k \in 0..n : k \in S
  BY <1>2, <1>3, SetInduction
<1>5. n \in S /\ m <= n
  BY <1>4
<1> QED BY <1>5 DEF S

--------------------------------------------------------------------------------
(* A batch takes all it may *)

\* The shares of a batch add up to its frames.
LEMMA SharesAddUp ==
    ASSUME NEW groups, NEW start, NEW walk, Len(walk) \in Nat, NEW offer, IsOffer(offer),
           IsFiniteSet(DOMAIN offer), NEW size \in Nat, NEW f, NEW acc, NEW last,
           BatchRun(groups, start, walk, offer, size, f, acc, last),
           \A j, k \in 1..Len(walk) :
              SourceAt(groups, walk, j) = SourceAt(groups, walk, k) => j = k
    PROVE  f.acc = SumFunction(f.num)
<1> DEFINE src == [k \in 1..last |-> SourceAt(groups, walk, k)]
           num == f.num
           S == DOMAIN num
<1>1. /\ Fills(groups, walk, offer, size, acc) /\ EndsAt(walk, size, acc, last)
      /\ Result(groups, start, walk, offer, size, acc, last, f) /\ last \in 0..Len(walk)
      /\ \A k \in 1..last : SourceAt(groups, walk, k) \in DOMAIN offer =>
            /\ SourceAt(groups, walk, k) \in S
            /\ num[SourceAt(groups, walk, k)] = acc[k] - acc[k - 1]
  BY DEF BatchRun
<1>2. /\ f.acc = acc[last] /\ S \subseteq DOMAIN offer
      /\ \A s \in S : \E k \in 1..last : SourceAt(groups, walk, k) = s
  BY <1>1 DEF Result
<1>3. \A k \in 1..last : k \in 1..Len(walk)
  BY <1>1
<1>4. \A j, k \in 1..last : src[j] = src[k] => j = k
  BY <1>3
<1>5. \A s \in S : \E k \in 1..last : src[k] = s
  BY <1>2
<1>6. acc \in [0..Len(walk) -> 0..size] /\ acc[0] = 0
  <2> DEFINE n == Len(walk)
             o == [k \in 1..n |-> OfferAt(groups, walk, offer, k)]
  <2>1. Sums(n, size, o, acc)
    BY <1>1 DEF Fills
  <2> HIDE DEF o, n
  <2>2. /\ acc \in [0..n -> 0..size]
        /\ acc = [k \in 0..n |-> IF k = 0 THEN 0 ELSE AtMost(size, acc[k - 1] + o[k])]
    BY <2>1 DEF Sums
  <2>3. 0 \in 0..n
    BY DEF n
  <2> QED BY <2>2, <2>3 DEF n
<1>7. \A k \in 0..last : acc[k] \in Nat
  BY <1>1, <1>6
<1>8. ASSUME NEW k \in 1..last
      PROVE  /\ acc[k] = acc[k - 1] + (IF src[k] \in S THEN num[src[k]] ELSE 0)
             /\ src[k] \in S => num[src[k]] \in Nat
  <2> DEFINE s == SourceAt(groups, walk, k)
             w == OfferAt(groups, walk, offer, k)
             a == acc[k - 1]
  <2>1. src[k] = s
    OBVIOUS
  <2>2. w \in Nat /\ (s \notin DOMAIN offer => w = 0)
    BY DEF OfferAt, IsOffer
  <2>3. Fills(groups, walk, offer, size, acc) /\ EndsAt(walk, size, acc, last)
    BY <1>1
  <2>4. acc[k] = AtMost(size, acc[k - 1] + w) /\ acc[k] \in 0..size /\ acc[k - 1] \in 0..size
    BY <2>2, <2>3, FillsUntilFull, SMTT(30)
  <2> HIDE DEF w, a
  <2>5. acc[k] = AtMost(size, a + w) /\ acc[k] \in Nat /\ a \in Nat /\ a <= size /\ w \in Nat
    BY <2>2, <2>4 DEF a
  <2>6. acc[k] - a \in Nat /\ (w = 0 => acc[k] = a)
    BY <2>5 DEF AtMost
  <2>7. CASE s \in DOMAIN offer
    <3>1. s \in S /\ num[s] = acc[k] - a
      BY <1>1, <2>7 DEF a
    <3> HIDE DEF s, num, S
    <3>2. acc[k] = a + num[s] /\ num[s] \in Nat
      BY <2>5, <2>6, <3>1
    <3> QED BY <2>1, <3>1, <3>2 DEF a
  <2>8. CASE s \notin DOMAIN offer
    <3>1. s \notin S /\ acc[k] = a
      BY <1>2, <2>2, <2>6, <2>8
    <3> HIDE DEF s, num, S
    <3>2. acc[k] = a + 0
      BY <2>5, <3>1
    <3> QED BY <2>1, <3>1, <3>2 DEF a
  <2> QED BY <2>7, <2>8
<1>9. IsFiniteSet(S)
  BY <1>2, FS_Subset
<1>10. \A s \in S : num[s] \in Nat
  BY <1>5, <1>8
<1>11. last \in Nat
  BY <1>1
<1> HIDE DEF src
<1>12. SumFunction(num) = acc[last]
  <2>1. DOMAIN num = S
    OBVIOUS
  <2> HIDE DEF num, S
  <2>2. \A k \in 1..last : acc[k] = acc[k - 1] + (IF src[k] \in S THEN num[src[k]] ELSE 0)
    BY <1>8
  <2>3. AddsUp(last, S, num, src, acc)
    BY <1>4, <1>5, <1>6, <1>7, <2>2 DEF AddsUp
  <2> QED BY <1>9, <1>10, <1>11, <2>1, <2>3, SumAlong
<1> QED BY <1>2, <1>12

\* A walk meets each source that makes an offer, and each one once.
MeetsOnce(groups, walk, offer) ==
    /\ \A j, k \in 1..Len(walk) :
          SourceAt(groups, walk, j) = SourceAt(groups, walk, k) => j = k
    /\ \A s \in DOMAIN offer : \E k \in 1..Len(walk) : SourceAt(groups, walk, k) = s

\* A batch has all that is offered, or as much as it may.
LEMMA TakesAll ==
    ASSUME NEW groups, NEW start, NEW walk, Len(walk) \in Nat, NEW offer, IsOffer(offer),
           IsFiniteSet(DOMAIN offer), NEW size \in Nat, NEW f, NEW acc, NEW last,
           BatchRun(groups, start, walk, offer, size, f, acc, last),
           MeetsOnce(groups, walk, offer)
    PROVE  f.acc = AtMost(size, SumFunction(offer))
<1> DEFINE n == Len(walk)
           S == DOMAIN offer
           src == [k \in 1..n |-> SourceAt(groups, walk, k)]
           o == [k \in 1..n |-> OfferAt(groups, walk, offer, k)]
<1>1. /\ Sums(n, size, o, acc) /\ EndsAt(walk, size, acc, last)
      /\ Result(groups, start, walk, offer, size, acc, last, f) /\ last \in 0..n
  BY DEF BatchRun, Fills
<1>2. f.acc = acc[last]
  BY <1>1 DEF Result
<1>3. o \in [1..n -> Nat]
  BY DEF OfferAt, IsOffer
<1>4. \A k \in 1..n : o[k] = IF src[k] \in S THEN offer[src[k]] ELSE 0
  BY DEF OfferAt
<1>5. \A j, k \in 1..n : src[j] = src[k] => j = k
  BY DEF MeetsOnce
<1>6. \A s \in S : \E k \in 1..n : src[k] = s
  BY DEF MeetsOnce
<1>7. acc[last] = acc[n]
  <2>1. CASE last = n
    BY <2>1
  <2>2. CASE last # n
    <3>1. acc[last] = size
      BY <1>1, <2>2 DEF EndsAt
    <3> HIDE DEF n, o
    <3>2. n \in Nat
      BY DEF n
    <3> QED BY <1>1, <1>3, <3>1, <3>2, StaysFull
  <2> QED BY <2>1, <2>2
<1>8. n \in Nat
  OBVIOUS
<1>9. \A s \in S : offer[s] \in Nat
  BY DEF IsOffer
<1> HIDE DEF n, S, src, o
<1>10. Sums(n, size, o, acc)
  BY <1>1
<1>11. PICK p : WholeSum(n, size, o, acc, p)
  BY <1>3, <1>8, <1>10, CappedSums
<1>12. /\ p \in [0..n -> Nat] /\ p[0] = 0
       /\ \A k \in 1..n : p[k] = p[k - 1] + o[k]
       /\ \A k \in 0..n : acc[k] = AtMost(size, p[k])
  BY <1>11 DEF WholeSum
<1>13. \A k \in 1..n : p[k] = p[k - 1] + (IF src[k] \in S THEN offer[src[k]] ELSE 0)
  BY <1>4, <1>12
<1>14. SumFunction(offer) = p[n]
  <2>1. IsFiniteSet(S) /\ DOMAIN offer = S
    BY DEF S
  <2>2. p[0] = 0 /\ \A k \in 0..n : p[k] \in Nat
    BY <1>12
  <2>3. AddsUp(n, S, offer, src, p)
    BY <1>5, <1>6, <1>13, <2>2 DEF AddsUp
  <2> QED BY <1>8, <1>9, <2>1, <2>3, SumAlong
<1>15. acc[n] = AtMost(size, p[n])
  BY <1>8, <1>12
<1> QED BY <1>2, <1>7, <1>14, <1>15

\* No batch leaves out a frame that is offered and fits.
LEMMA ExhaustiveForm ==
    ASSUME RoundsInv, NEW size \in Sizes, Form(size)
    PROVE  Exhaustive'
<1>1. /\ size \in Nat /\ known # <<>> /\ UNCHANGED <<config, known, attached>>
      /\ \E f \in Batches(size) : FormedWith(size, f)
  BY FormIs
<1>2. PICK f \in Batches(size) : FormedWith(size, f)
  BY <1>1
<1>3. SourcesInv /\ CountsInv /\ position \in [group : Nat, source : Nat]
  BY DEF RoundsInv, PlaceInv
<1> DEFINE offer == Offer(size)
           start == Start(Groups, position, config.roundRobin)
           walk == Walk(Groups, start)
<1>4. /\ formed'.num = f.num /\ formed'.offer = offer
      /\ formed'.size = size /\ formed'.acc = f.acc
  <2> HIDE DEF offer
  <2>1. formed' = [size |-> size, offer |-> offer, num |-> f.num, acc |-> f.acc]
    BY <1>2 DEF FormedWith, offer
  <2> QED BY <2>1
<1>5. Shifted' = Shifted
  BY <1>1, SameGroups
<1>6. /\ IsOffer(offer) /\ DOMAIN offer = attached /\ attached \subseteq Sources
      /\ \A s \in attached : offer[s] \in 0..waiting[s]
  BY <1>1, <1>3, OfferIs
<1>7. \A s \in DOMAIN f.num : f.num[s] <= offer[s]
  <2>1. Sound(f, size)
    BY <1>1, <1>3, BatchesSound
  <2>2. \A s \in DOMAIN f.num : s \in attached /\ f.num[s] \in 0..offer[s]
    BY <2>1 DEF Sound
  <2> HIDE DEF offer
  <2>3. \A s \in attached : offer[s] \in Nat
    BY <1>6 DEF IsOffer
  <2> QED BY <2>2, <2>3
<1>8. ASSUME ~Shifted
      PROVE  f.acc = SumFunction(f.num) /\ f.acc = AtMost(size, SumFunction(offer))
  <2>1. PositionValid
    BY <1>8 DEF RoundsInv, PlaceInv
  <2>2. /\ f = FormBatch(Groups, position, config.roundRobin, offer, size)
        /\ IsPosition(start)
    BY <1>1, <1>3, <2>1, ValidBatch
  <2>3. Grouped(Groups, Sources) /\ Unique(Groups)
    BY <1>1, <1>3, GroupsAreUnique
  <2>4. PICK acc, last : BatchRun(Groups, start, walk, offer, size, f, acc, last)
    BY <1>1, <1>6, <2>2, <2>3, BatchRuns
  <2> HIDE DEF start, offer
  <2>5. /\ Len(walk) \in Nat
        /\ \A k \in 1..Len(walk) : walk[k] \in Places(Groups)
        /\ \A k, m \in 1..Len(walk) : walk[k] = walk[m] => k = m
        /\ \A p \in Places(Groups) : \E k \in 1..Len(walk) : walk[k] = p
    BY <2>2, <2>3, WalkVisitsEachOnce
  <2> HIDE DEF walk
  <2>6. ASSUME NEW j \in 1..Len(walk), NEW k \in 1..Len(walk),
               SourceAt(Groups, walk, j) = SourceAt(Groups, walk, k)
        PROVE  j = k
    <3>1. walk[j] = walk[k]
      BY <2>3, <2>5, <2>6 DEF Unique, SourceAt
    <3> QED BY <2>5, <3>1
  <2>7. ASSUME NEW s \in DOMAIN offer
        PROVE  \E k \in 1..Len(walk) : SourceAt(Groups, walk, k) = s
    <3>1. s \in Range(known)
      BY <1>3, <1>6 DEF SourcesInv
    <3>2. PICK p \in Places(Groups) : At(p) = s
      BY <1>3, <3>1, PlacesHoldSources
    <3>3. PICK k \in 1..Len(walk) : walk[k] = p
      BY <2>5
    <3> QED BY <3>2, <3>3 DEF SourceAt, At
  <2>8. IsFiniteSet(DOMAIN offer)
    BY <1>6, BatchRoundsAssumption, FS_Subset
  <2>9. f.acc = SumFunction(f.num)
    BY <1>1, <1>6, <2>4, <2>5, <2>6, <2>8, SharesAddUp
  <2>10. f.acc = AtMost(size, SumFunction(offer))
    <3>1. MeetsOnce(Groups, walk, offer)
      BY <2>6, <2>7 DEF MeetsOnce
    <3>2. size \in Nat /\ IsOffer(offer) /\ Len(walk) \in Nat
      BY <1>1, <1>6, <2>5
    <3> QED BY <2>4, <2>8, <3>1, <3>2, TakesAll
  <2> QED BY <2>9, <2>10
<1> HIDE DEF offer
<1> QED BY <1>4, <1>5, <1>7, <1>8 DEF Exhaustive

\* A source that becomes known does not undo a shift of the groups.
LEMMA ShiftedStays ==
    ASSUME SourcesInv, NEW s \in Sources, AddSource(s), Shifted
    PROVE  Shifted'
<1>1. config' = config
  BY DEF AddSource
<1>2. CASE s \in Range(known)
  <2>1. known' = known
    BY <1>2 DEF AddSource
  <2> QED BY <1>1, <2>1, SameGroups
<1>3. CASE s \notin Range(known)
  <2>1. known' = Append(known, s)
    BY <1>3 DEF AddSource
  <2>2. Range(known') = Range(known) \cup {s}
    BY <1>1, <1>3, <2>1, SourceListed
  <2>3. DOMAIN config.priority \subseteq Range(known)
    BY DEF SourcesInv
  <2>4. Range(known') # DOMAIN config.priority
    BY <1>3, <2>2, <2>3
  <2> QED BY <1>1, <2>4 DEF Shifted
<1> QED BY <1>2, <1>3

\* A batch holds as many frames as are offered, up to its size, and no source gives more
\* than it has (form_batch visits every source once and wraps around).
THEOREM BatchesExhaustive == Spec => []Exhaustive
<1>1. Init => Exhaustive
  <2> SUFFICES ASSUME Init PROVE Exhaustive
    OBVIOUS
  <2>1. formed = [size |-> 0, offer |-> NoFrames, num |-> NoFrames, acc |-> 0]
    BY DEF Init
  <2>2. DOMAIN NoFrames = {}
    BY DEF NoFrames
  <2>3. SumFunction(NoFrames) = 0
    <3>1. IsFiniteSet({}) /\ \A s \in {} : NoFrames[s] \in Nat
      BY FS_EmptySet
    <3>2. PICK g : IsSum({}, NoFrames, g) /\ SumFunction(NoFrames) = g[{}]
      BY <2>2, <3>1, SumFunctionIs
    <3> QED BY <3>1, <3>2, SumAdds
  <2>4. AtMost(0, 0) = 0
    BY DEF AtMost
  <2>5. /\ formed.acc = 0 /\ formed.size = 0
        /\ formed.num = NoFrames /\ formed.offer = NoFrames
    BY <2>1
  <2> QED BY <2>2, <2>3, <2>4, <2>5 DEF Exhaustive
<1>2. RoundsInv /\ Exhaustive /\ [Next]_vars => Exhaustive'
  <2> SUFFICES ASSUME RoundsInv, Exhaustive, [Next]_vars PROVE Exhaustive'
    OBVIOUS
  <2>1. ASSUME UNCHANGED formed, Shifted => Shifted' PROVE Exhaustive'
    BY <2>1 DEF Exhaustive
  <2>2. ASSUME NEW s \in Sources, AddSource(s) PROVE Exhaustive'
    <3>1. Shifted => Shifted'
      BY <2>2, ShiftedStays DEF RoundsInv
    <3> QED BY <2>1, <2>2, <3>1 DEF AddSource
  <2>3. ASSUME NEW s \in Sources, Arrive(s) PROVE Exhaustive'
    <3>1. Shifted' = Shifted /\ UNCHANGED formed
      BY <2>3, SameGroups DEF Arrive
    <3> QED BY <2>1, <3>1
  <2>4. ASSUME NEW size \in Sizes, Form(size) PROVE Exhaustive'
    BY <2>4, ExhaustiveForm
  <2>5. CASE UNCHANGED vars
    <3>1. Shifted' = Shifted /\ UNCHANGED formed
      BY <2>5, SameGroups DEF vars
    <3> QED BY <2>1, <3>1
  <2> QED BY <2>2, <2>3, <2>4, <2>5 DEF Next
<1> QED BY RoundsInvariant, <1>1, <1>2, PTL DEF Spec
================================================================================
