--------------------------- MODULE BatchPolicyProofs ---------------------------
(***************************************************************************)
(* What form_batch (module BatchPolicy) promises for every configuration   *)
(* of sources, every position and every offer.  FormBatch and Walk are     *)
(* built from recursive functions; that such a function exists and what    *)
(* bounds its values is shown with IntervalRecursion.                      *)
(***************************************************************************)
EXTENDS BatchPolicy, IntervalRecursion

--------------------------------------------------------------------------------
(* The walk over the sources *)

\* A configuration has a group; a position is counted from 0; an offer is a number of frames.
Grouped(groups, S) == groups \in Seq(Seq(S)) /\ Len(groups) # 0
IsPosition(pos) == pos.group \in Nat /\ pos.source \in Nat
IsOffer(offer) == offer \in [DOMAIN offer -> Nat]

\* The places of a configuration: a group and an index in it.
Places(groups) == {p \in (1..Len(groups)) \X Nat : p[2] \in 1..Len(groups[p[1]])}

\* Wrapping around leads to an index again.
LEMMA Remainder ==
    ASSUME NEW a \in Nat, NEW n \in Nat \ {0}
    PROVE  (a % n) + 1 \in 1..n
  OBVIOUS

\* A walk goes from one place of the configuration to another, wherever it starts.
LEMMA WalkVisitsPlaces ==
    ASSUME NEW S, NEW groups, Grouped(groups, S), NEW start, IsPosition(start)
    PROVE  Walk(groups, start) \in Seq(Places(groups))
<1> DEFINE n == Len(groups)
           g(j) == ((start.group + j - 1) % n) + 1
           skip(j) == IF j = 1 THEN start.source ELSE 0
           ss == [j \in 1..n |-> [i \in 1..Len(groups[g(j)]) |->
                      <<g(j), ((i - 1 + skip(j)) % Len(groups[g(j)])) + 1>>]]
<1>1. Walk(groups, start) = FlattenSeq(ss)
  BY DEF Walk
<1>2. n \in Nat \ {0} /\ groups \in [1..n -> Seq(S)]
  BY DEF Grouped
<1>3. ASSUME NEW j \in 1..n
      PROVE  ss[j] \in Seq(Places(groups))
  <2> DEFINE h == g(j)
             s == skip(j)
             m == Len(groups[h])
  <2>1. start.group + j - 1 \in Nat
    BY DEF IsPosition
  <2>2. h \in 1..n
    BY <1>2, <2>1, Remainder
  <2>3. s \in Nat
    BY DEF IsPosition
  <2>4. m \in Nat
    BY <1>2, <2>2
  <2>5. ss[j] = [i \in 1..m |-> <<h, ((i - 1 + s) % m) + 1>>]
    OBVIOUS
  <2> HIDE DEF h, s, ss
  <2>6. ASSUME NEW i \in 1..m
        PROVE  <<h, ((i - 1 + s) % m) + 1>> \in Places(groups)
    <3> DEFINE x == ((i - 1 + s) % m) + 1
    <3>1. i - 1 + s \in Nat /\ m # 0
      BY <2>3, <2>4
    <3>2. x \in 1..m
      BY <2>4, <3>1, Remainder
    <3> HIDE DEF x
    <3>3. <<h, x>> \in (1..n) \X Nat /\ <<h, x>>[1] = h /\ <<h, x>>[2] = x
      BY <2>2, <2>4, <3>2
    <3>4. <<h, x>> \in Places(groups)
      BY <3>2, <3>3 DEF Places
    <3> QED BY <3>4 DEF x
  <2> HIDE DEF m
  <2>7. [i \in 1..m |-> <<h, ((i - 1 + s) % m) + 1>>] \in [1..m -> Places(groups)]
    BY <2>6
  <2> QED BY <2>4, <2>5, <2>7
<1>4. ss = [j \in 1..n |-> ss[j]]
  OBVIOUS
<1> HIDE DEF ss, n
<1>5. ss \in [1..n -> Seq(Places(groups))]
  BY <1>3, <1>4
<1> QED BY <1>1, <1>2, <1>5, FlattenedType

\* A place of a configuration holds a source.
LEMMA PlaceHoldsSource ==
    ASSUME NEW S, NEW groups, Grouped(groups, S), NEW p \in Places(groups)
    PROVE  /\ p[1] \in 1..Len(groups) /\ p[2] \in 1..Len(groups[p[1]])
           /\ groups[p[1]] \in Seq(S) /\ groups[p[1]][p[2]] \in S
<1>1. p[1] \in 1..Len(groups) /\ p[2] \in 1..Len(groups[p[1]])
  BY DEF Places
<1>2. groups[p[1]] \in Seq(S)
  BY <1>1 DEF Grouped
<1> QED BY <1>1, <1>2

--------------------------------------------------------------------------------
(* Filling the batch *)

\* What a recursion that adds up and stops at a size yields.
Sums(n, size, o, g) ==
    /\ g \in [0..n -> 0..size]
    /\ g = [k \in 0..n |-> IF k = 0 THEN 0 ELSE AtMost(size, g[k - 1] + o[k])]

\* Such a sum exists.
LEMMA SumRuns ==
    ASSUME NEW n \in Nat, NEW size \in Nat, NEW o \in [1..n -> Nat]
    PROVE  \E g : Sums(n, size, o, g)
<1> DEFINE step == [k \in 1..n |-> [a \in 0..size |-> AtMost(size, a + o[k])]]
<1>1. \A k \in 1..n : \A a \in 0..size : AtMost(size, a + o[k]) \in 0..size
  BY DEF AtMost
<1>2. Steps(0..size, n, step) /\ 0 \in 0..size
  BY <1>1 DEF Steps
<1>3. \A k \in 1..n : \A a \in 0..size : step[k][a] = AtMost(size, a + o[k])
  OBVIOUS
<1> HIDE DEF step
<1>4. PICK g : Follows(0..size, 0, n, step, g)
  BY <1>2, Recursion, Zenon
<1>5. g \in [0..n -> 0..size] /\ g[0] = 0
  BY <1>4 DEF Follows
<1>6. ASSUME NEW k \in 0..n
      PROVE  g[k] = IF k = 0 THEN 0 ELSE AtMost(size, g[k - 1] + o[k])
  <2>1. CASE k # 0
    <3>1. k \in 1..n /\ k - 1 \in 0..n
      BY <2>1
    <3>2. g[k] = step[k][g[k - 1]] /\ g[k - 1] \in 0..size
      BY <1>4, <1>5, <3>1 DEF Follows
    <3> QED BY <1>3, <2>1, <3>1, <3>2
  <2> QED BY <1>5, <2>1
<1>7. g = [k \in 0..n |-> IF k = 0 THEN 0 ELSE AtMost(size, g[k - 1] + o[k])]
  BY <1>5, <1>6
<1> QED BY <1>5, <1>7 DEF Sums

\* The source at the k-th place of a walk, and what it may contribute.
SourceAt(groups, walk, k) == groups[walk[k][1]][walk[k][2]]

OfferAt(groups, walk, offer, k) ==
    IF SourceAt(groups, walk, k) \in DOMAIN offer THEN offer[SourceAt(groups, walk, k)] ELSE 0

\* acc[k] frames are in the batch after k places of the walk; the batch is
\* complete, or there is no other place, after last of them.
Fills(groups, walk, offer, size, acc) ==
    Sums(Len(walk), size, [k \in 1..Len(walk) |-> OfferAt(groups, walk, offer, k)], acc)

EndsAt(walk, size, acc, last) ==
    /\ last \in 0..Len(walk)
    /\ \/ last = Len(walk) /\ \A k \in 1..Len(walk) : ~(size # 0 /\ acc[k] = size)
       \/ /\ last \in 1..Len(walk) /\ size # 0 /\ acc[last] = size
          /\ \A m \in 1..Len(walk) : size # 0 /\ acc[m] = size => last <= m

\* What form_batch returns then: a share for every source that has a pad, and
\* where to go on.
Result(groups, start, walk, offer, size, acc, last, f) ==
    /\ f.acc = acc[last]
    /\ DOMAIN f.num \subseteq DOMAIN offer
    /\ \A s \in DOMAIN f.num : \E k \in 1..last : /\ SourceAt(groups, walk, k) = s
                                                  /\ f.num[s] = acc[k] - acc[k - 1]
    /\ \A k \in 1..last : SourceAt(groups, walk, k) \in DOMAIN offer
                              => SourceAt(groups, walk, k) \in DOMAIN f.num
    /\ IF \E k \in 1..Len(walk) : size # 0 /\ acc[k] = size
       THEN f.pos = After(groups, walk[last])
       ELSE f.pos = [group |-> start.group,
                     source |-> IF Len(groups) = 1 THEN start.source ELSE 0]

\* form_batch fills the batch along the walk until it ends.
LEMMA FormBatchWalks ==
    ASSUME NEW S, NEW groups, Grouped(groups, S), NEW pos, NEW roundRobin,
           IsPosition(Start(groups, pos, roundRobin)),
           NEW offer, IsOffer(offer), NEW size \in Nat
    PROVE  LET start == Start(groups, pos, roundRobin)
               walk == Walk(groups, start)
               f == FormBatch(groups, pos, roundRobin, offer, size)
           IN \E acc, last : /\ Fills(groups, walk, offer, size, acc)
                             /\ EndsAt(walk, size, acc, last)
                             /\ Result(groups, start, walk, offer, size, acc, last, f)
<1> DEFINE start == Start(groups, pos, roundRobin)
           walk == Walk(groups, start)
           f == FormBatch(groups, pos, roundRobin, offer, size)
           At(k) == groups[walk[k][1]][walk[k][2]]
           Offer(k) == IF At(k) \in DOMAIN offer THEN offer[At(k)] ELSE 0
           acc == CHOOSE a : a = [k \in 0..Len(walk) |->
                                    IF k = 0 THEN 0 ELSE AtMost(size, a[k-1] + Offer(k))]
           full == {k \in 1..Len(walk) : size # 0 /\ acc[k] = size}
           last == IF full = {} THEN Len(walk) ELSE CHOOSE k \in full : \A m \in full : k <= m
           visited == {k \in 1..last : At(k) \in DOMAIN offer}
           num == [s \in {At(k) : k \in visited} |->
                      LET k == CHOOSE v \in visited : At(v) = s IN acc[k] - acc[k-1]]
           next == IF full # {}
                   THEN After(groups, walk[last])
                   ELSE [group |-> start.group,
                         source |-> IF Len(groups) = 1 THEN start.source ELSE 0]
<1>1. f = [num |-> num, acc |-> acc[last], pos |-> next]
  BY DEF FormBatch
<1>2. f.acc = acc[last] /\ f.num = num /\ f.pos = next
  <2> HIDE DEF acc, last, num, next, f
  <2> QED BY <1>1
<1> HIDE DEF f
<1>3. walk \in Seq(Places(groups)) /\ Len(walk) \in Nat
  BY WalkVisitsPlaces
<1> HIDE DEF start, walk
<1> DEFINE o == [k \in 1..Len(walk) |-> OfferAt(groups, walk, offer, k)]
<1>4. o \in [1..Len(walk) -> Nat]
  BY DEF OfferAt, IsOffer
<1>5. PICK g : Sums(Len(walk), size, o, g)
  BY <1>3, <1>4, SumRuns, Zenon
<1>6. \A k \in 1..Len(walk) : Offer(k) = o[k]
  BY DEF OfferAt, SourceAt
<1>7. g = [k \in 0..Len(walk) |-> IF k = 0 THEN 0 ELSE AtMost(size, g[k-1] + Offer(k))]
  <2>1. g = [k \in 0..Len(walk) |-> IF k = 0 THEN 0 ELSE AtMost(size, g[k - 1] + o[k])]
    BY <1>5 DEF Sums
  <2>2. \A k \in 0..Len(walk) : k # 0 => k \in 1..Len(walk)
    BY <1>3
  <2> HIDE DEF o, Offer
  <2> QED BY <1>6, <2>1, <2>2
<1>8. acc = [k \in 0..Len(walk) |-> IF k = 0 THEN 0 ELSE AtMost(size, acc[k-1] + Offer(k))]
  <2> HIDE DEF Offer
  <2> QED BY <1>7
<1>9. \A k \in 0..Len(walk) : acc[k] \in 0..size
  <2> HIDE DEF acc, o, Offer
  <2> DEFINE A == {k \in Nat : k \in 0..Len(walk) => acc[k] \in 0..size}
  <2>1. 0 \in A
    BY <1>3, <1>8
  <2>2. ASSUME NEW k \in 0..(Len(walk) - 1), k \in A
        PROVE  k + 1 \in A
    <3> DEFINE i == k + 1
    <3>1. k \in 0..Len(walk) /\ i \in 1..Len(walk) /\ i \in 0..Len(walk) /\ i # 0 /\ i - 1 = k
      BY <1>3
    <3>2. acc[k] \in 0..size
      BY <2>2, <3>1
    <3> HIDE DEF i
    <3>3. acc[i] = AtMost(size, acc[i - 1] + Offer(i)) /\ Offer(i) \in Nat
      BY <1>4, <1>6, <1>8, <3>1
    <3>4. acc[i] \in 0..size
      BY <3>1, <3>2, <3>3 DEF AtMost
    <3>5. i \in A
      BY <3>1, <3>4
    <3> QED BY <3>5 DEF i
  <2> HIDE DEF A
  <2>3. \A k \in 0..Len(walk) : k \in A
    BY <1>3, <2>1, <2>2, SetInduction
  <2> QED BY <2>3 DEF A
<1>10. Fills(groups, walk, offer, size, acc)
  <2> HIDE DEF acc, Offer
  <2>1. \A k \in 0..Len(walk) : k # 0 => k \in 1..Len(walk)
    BY <1>3
  <2>2. o = [k \in 1..Len(walk) |-> OfferAt(groups, walk, offer, k)]
    OBVIOUS
  <2> HIDE DEF o
  <2>3. acc = [k \in 0..Len(walk) |-> IF k = 0 THEN 0 ELSE AtMost(size, acc[k - 1] + o[k])]
    BY <1>6, <1>8, <2>1
  <2>4. acc \in [0..Len(walk) -> 0..size]
    BY <1>8, <1>9
  <2>5. Sums(Len(walk), size, o, acc)
    BY <2>3, <2>4 DEF Sums
  <2> QED BY <2>2, <2>5 DEF Fills
<1> HIDE DEF acc, o, Offer
<1>11. EndsAt(walk, size, acc, last)
  <2>1. CASE full = {}
    BY <1>3, <2>1 DEF EndsAt
  <2>2. CASE full # {}
    <3>1. full \in SUBSET Nat
      BY <1>3
    <3> DEFINE x == CHOOSE k \in full : \A m \in full : k <= m
    <3>2. x \in full /\ \A m \in full : x <= m
      BY <2>2, <3>1, LeastNatural
    <3>3. last = x
      BY <2>2
    <3> HIDE DEF x, last
    <3>4. last \in 1..Len(walk) /\ last \in 0..Len(walk) /\ size # 0 /\ acc[last] = size
      BY <1>3, <3>2, <3>3
    <3>5. \A m \in 1..Len(walk) : size # 0 /\ acc[m] = size => last <= m
      BY <3>2, <3>3
    <3> QED BY <3>4, <3>5 DEF EndsAt
  <2> QED BY <2>1, <2>2
<1>12. Result(groups, start, walk, offer, size, acc, last, f)
  <2> HIDE DEF last
  <2>2. \A k : At(k) = SourceAt(groups, walk, k)
    BY DEF SourceAt
  <2>3. DOMAIN num = {At(k) : k \in visited}
    OBVIOUS
  <2>4. ASSUME NEW s \in DOMAIN num
        PROVE  \E k \in 1..last : At(k) = s /\ num[s] = acc[k] - acc[k - 1]
    <3> DEFINE k == CHOOSE v \in visited : At(v) = s
    <3>1. num[s] = acc[k] - acc[k - 1]
      OBVIOUS
    <3>2. k \in visited /\ At(k) = s
      BY <2>3
    <3> HIDE DEF k, num, At
    <3> QED BY <3>1, <3>2
  <2>5. full # {} <=> \E k \in 1..Len(walk) : size # 0 /\ acc[k] = size
    OBVIOUS
  <2>6. next = IF \E k \in 1..Len(walk) : size # 0 /\ acc[k] = size
               THEN After(groups, walk[last])
               ELSE [group |-> start.group,
                     source |-> IF Len(groups) = 1 THEN start.source ELSE 0]
    BY <2>5
  <2>7. DOMAIN num \subseteq DOMAIN offer
    BY <2>3
  <2>8. \A k \in 1..last : At(k) \in DOMAIN offer => At(k) \in DOMAIN num
    BY <2>3
  <2> HIDE DEF num, next, At
  <2> QED BY <1>2, <2>2, <2>4, <2>6, <2>7, <2>8 DEF Result
<1> HIDE DEF last
<1> QED BY <1>10, <1>11, <1>12 DEF start, walk, f

\* A place adds no more than its source offers.
LEMMA FillsSlowly ==
    ASSUME NEW groups, NEW walk, Len(walk) \in Nat, NEW offer, NEW size \in Nat, NEW acc,
           Fills(groups, walk, offer, size, acc), NEW k \in 1..Len(walk),
           OfferAt(groups, walk, offer, k) \in Nat
    PROVE  /\ acc[k] \in 0..size /\ acc[k - 1] \in 0..size
           /\ acc[k] - acc[k - 1] \in 0..OfferAt(groups, walk, offer, k)
<1> DEFINE o == [i \in 1..Len(walk) |-> OfferAt(groups, walk, offer, i)]
           w == OfferAt(groups, walk, offer, k)
<1>1. o[k] = w /\ w \in Nat
  OBVIOUS
<1>2. Sums(Len(walk), size, o, acc)
  BY DEF Fills
<1> HIDE DEF o, w
<1>3. acc[k] = AtMost(size, acc[k - 1] + w) /\ acc[k] \in 0..size /\ acc[k - 1] \in 0..size
  <2> DEFINE n == Len(walk)
  <2>1. /\ acc \in [0..n -> 0..size]
        /\ acc = [i \in 0..n |-> IF i = 0 THEN 0 ELSE AtMost(size, acc[i - 1] + o[i])]
    BY <1>2 DEF Sums
  <2>2. k \in 0..n /\ k - 1 \in 0..n /\ k # 0
    OBVIOUS
  <2> HIDE DEF n
  <2> QED BY <1>1, <2>1, <2>2
<1>4. acc[k] - acc[k - 1] \in 0..w
  BY <1>1, <1>3 DEF AtMost
<1> QED BY <1>3, <1>4 DEF w

\* What form_batch promises: at most a batch, from no source more than it
\* offers, and to go on at a source there is, unless it stays where it was or
\* starts anew.
Bounded(groups, start, offer, size, f) ==
    /\ f.acc \in 0..size
    /\ DOMAIN f.num \subseteq DOMAIN offer
    /\ \A s \in DOMAIN f.num : f.num[s] \in 0..offer[s]
    /\ \/ /\ f.pos.group + 1 \in 1..Len(groups)
          /\ f.pos.source \in 0..(Len(groups[f.pos.group + 1]) - 1)
       \/ f.pos.group = start.group /\ f.pos.source \in {start.source, 0}

\* Whatever the groups, the position of a source and the offers are: a batch is not larger
\* than its size, no source gives more frames than update_with_source allows,
\* and the position for the next batch is that of a source.
THEOREM FormBatchBounded ==
    ASSUME NEW S, NEW groups, Grouped(groups, S), NEW pos, NEW roundRobin,
           IsPosition(Start(groups, pos, roundRobin)),
           NEW offer, IsOffer(offer), NEW size \in Nat
    PROVE  Bounded(groups, Start(groups, pos, roundRobin), offer, size,
                   FormBatch(groups, pos, roundRobin, offer, size))
<1> DEFINE start == Start(groups, pos, roundRobin)
           walk == Walk(groups, start)
           f == FormBatch(groups, pos, roundRobin, offer, size)
<1>1. PICK acc, last : /\ Fills(groups, walk, offer, size, acc)
                       /\ EndsAt(walk, size, acc, last)
                       /\ Result(groups, start, walk, offer, size, acc, last, f)
  BY FormBatchWalks
<1>2. walk \in Seq(Places(groups)) /\ Len(walk) \in Nat
  BY WalkVisitsPlaces
<1> HIDE DEF start, walk, f
<1>3. \A k \in 1..Len(walk) : OfferAt(groups, walk, offer, k) \in Nat
  BY DEF OfferAt, IsOffer
<1>4. last \in 0..Len(walk)
  BY <1>1, <1>2 DEF EndsAt
<1>5. f.acc \in 0..size
  BY <1>1, <1>4 DEF Fills, Sums, Result
<1>6. ASSUME NEW s \in DOMAIN f.num
      PROVE  f.num[s] \in 0..offer[s]
  <2>1. PICK k \in 1..last : SourceAt(groups, walk, k) = s /\ f.num[s] = acc[k] - acc[k - 1]
    BY <1>1 DEF Result
  <2>2. k \in 1..Len(walk)
    BY <1>2, <1>4
  <2>3. s \in DOMAIN offer
    BY <1>1 DEF Result
  <2>4. OfferAt(groups, walk, offer, k) = offer[s]
    BY <2>1, <2>3 DEF OfferAt
  <2>5. acc[k] - acc[k - 1] \in 0..OfferAt(groups, walk, offer, k)
    BY <1>1, <1>2, <1>3, <2>2, FillsSlowly
  <2> QED BY <2>1, <2>4, <2>5
<1>7. \/ /\ f.pos.group + 1 \in 1..Len(groups)
         /\ f.pos.source \in 0..(Len(groups[f.pos.group + 1]) - 1)
      \/ f.pos.group = start.group /\ f.pos.source \in {start.source, 0}
  <2>1. CASE \E k \in 1..Len(walk) : size # 0 /\ acc[k] = size
    <3>1. last \in 1..Len(walk) /\ f.pos = After(groups, walk[last])
      BY <1>1, <2>1 DEF EndsAt, Result
    <3> DEFINE p == walk[last]
               m == Len(groups[p[1]])
    <3>2. p \in Places(groups)
      BY <1>2, <3>1
    <3>3. p[1] \in 1..Len(groups) /\ p[2] \in 1..m /\ groups[p[1]] \in Seq(S)
      BY <3>2, PlaceHoldsSource
    <3>4. m \in Nat
      BY <3>3
    <3>5. f.pos.group = p[1] - 1 /\ f.pos.source = p[2] % m
      BY <3>1 DEF After
    <3>6. f.pos.group + 1 = p[1]
      BY <3>3, <3>5
    <3>7. Len(groups[f.pos.group + 1]) = m
      BY <3>6
    <3> HIDE DEF p, m
    <3>8. p[2] % m \in 0..(m - 1)
      BY <3>3, <3>4
    <3> QED BY <3>3, <3>5, <3>6, <3>7, <3>8
  <2>2. CASE ~\E k \in 1..Len(walk) : size # 0 /\ acc[k] = size
    <3>1. f.pos = [group |-> start.group,
                   source |-> IF Len(groups) = 1 THEN start.source ELSE 0]
      BY <1>1, <2>2 DEF Result
    <3> QED BY <3>1
  <2> QED BY <2>1, <2>2
<1>8. DOMAIN f.num \subseteq DOMAIN offer
  BY <1>1 DEF Result
<1>9. Bounded(groups, start, offer, size, f)
  BY <1>5, <1>6, <1>7, <1>8 DEF Bounded
<1> QED BY <1>9 DEF start, f
================================================================================
