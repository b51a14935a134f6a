---------------------------- MODULE InferQueuesProofs ----------------------------
(***************************************************************************)
(* Theorems about InferQueues.  The queues of the element and the batches  *)
(* in the hands of its two threads are seen as one line, in which batches  *)
(* move towards the output; most steps leave the line as it is.            *)
(***************************************************************************)
EXTENDS InferQueues, FiniteSetTheorems, SequenceTheorems, TLAPS

Hand(b) == IF b = NoBatch THEN <<>> ELSE <<b>>

\* What is with the output loop or waits for it, and what is with the input thread or waits for it.
OutputSide == Hand(output.batch) \o processQueue
InputSide == Hand(input.batch) \o inputQueue

\* Everything that is on its way, the next to leave first.
Line == OutputSide \o InputSide

Busy == streamer.at # "idle"

\* Batch b is of an earlier buffer than c, or an earlier batch of the same buffer; markers are
\* left out.
Ahead(b, c) ==
    b.kind # "marker" /\ c.kind # "marker" =>
        \/ b.n < c.n
        \/ b.n = c.n /\ b.kind # "push" /\ (c.kind = "push" \/ b.part < c.part)

InOrder(q) == \A i, j \in DOMAIN q : i < j => Ahead(q[i], q[j])

EndsWithMarker(q) == q = <<>> \/ q[Len(q)].kind = "marker"

Pushes(q) == {b \in Range(q) : b.kind = "push"}

\* q is r without some of its batches.
Thinned(q, r) ==
    /\ Range(q) \subseteq Range(r)
    /\ InOrder(r) => InOrder(q)
    /\ EndsWithMarker(r) => EndsWithMarker(q)

--------------------------------------------------------------------------------
(* Sequences *)

\* What a sequence is, by its length and by its range.
LEMMA SequenceFacts ==
    ASSUME NEW S, NEW q \in Seq(S)
    PROVE  /\ Len(q) \in Nat /\ DOMAIN q = 1 .. Len(q) /\ Range(q) \subseteq S
           /\ \A i \in DOMAIN q : q[i] \in S /\ q[i] \in Range(q)
           /\ q = <<>> <=> Len(q) = 0
           /\ Range(q) = {} <=> q = <<>>
           /\ \A x \in Range(q) : \E i \in DOMAIN q : q[i] = x
<1>1. Len(q) \in Nat /\ DOMAIN q = 1 .. Len(q) /\ (q = <<>> <=> Len(q) = 0)
  OBVIOUS
<1>2. /\ \A i \in DOMAIN q : q[i] \in S /\ q[i] \in Range(q)
      /\ \A x \in Range(q) : \E i \in DOMAIN q : q[i] = x
  BY DEF Range
<1> QED BY <1>1, <1>2

\* The empty sequence has every property that matters here.
LEMMA EmptyIsShort == Range(<<>>) = {} /\ InOrder(<<>>) /\ EndsWithMarker(<<>>) /\ \A S : <<>> \in Seq(S)
  BY DEF Range, InOrder, EndsWithMarker

\* A sequence of one.
LEMMA OneIsSequence ==
    ASSUME NEW S, NEW x \in S
    PROVE  /\ <<x>> \in Seq(S) /\ Len(<<x>>) = 1 /\ <<x>>[1] = x /\ <<x>> # <<>>
           /\ Range(<<x>>) = {x}
  BY DEF Range

\* One more at the end.
LEMMA OneMore ==
    ASSUME NEW S, NEW q \in Seq(S), NEW x \in S
    PROVE  /\ Append(q, x) \in Seq(S) /\ Range(Append(q, x)) = Range(q) \cup {x}
           /\ Append(q, x) # <<>> /\ Len(Append(q, x)) = Len(q) + 1
           /\ DOMAIN Append(q, x) = 1 .. (Len(q) + 1)
           /\ \A i \in DOMAIN q : Append(q, x)[i] = q[i]
           /\ Append(q, x)[Len(q) + 1] = x
           /\ Append(q, x) = q \o <<x>>
           /\ Tail(Append(q, x)) = IF q = <<>> THEN <<>> ELSE Append(Tail(q), x)
<1> DEFINE r == Append(q, x)
<1>1. /\ Len(q) \in Nat /\ DOMAIN q = 1 .. Len(q) /\ r \in Seq(S) /\ r # <<>>
      /\ Len(r) = Len(q) + 1 /\ DOMAIN r = 1 .. (Len(q) + 1)
      /\ \A i \in DOMAIN q : r[i] = q[i]
      /\ r[Len(q) + 1] = x
  OBVIOUS
<1>2. r = q \o <<x>> /\ Tail(r) = IF q = <<>> THEN <<>> ELSE Append(Tail(q), x)
  BY AppendIsConcat, HeadTailAppend
<1> HIDE DEF r
<1>3. ASSUME NEW y \in Range(r) PROVE y \in Range(q) \cup {x}
  BY <1>1, <1>3 DEF Range
<1>4. ASSUME NEW y \in Range(q) \cup {x} PROVE y \in Range(r)
  BY <1>1, <1>4 DEF Range
<1>5. Range(r) = Range(q) \cup {x}
  BY <1>3, <1>4
<1> QED BY <1>1, <1>2, <1>5 DEF r

\* One less at the head.
LEMMA OneLess ==
    ASSUME NEW S, NEW q \in Seq(S), q # <<>>
    PROVE  /\ Tail(q) \in Seq(S) /\ Head(q) \in S /\ Head(q) = q[1] /\ 1 \in DOMAIN q
           /\ Len(Tail(q)) = Len(q) - 1 /\ Len(q) \in Nat \ {0}
           /\ DOMAIN q = 1 .. Len(q) /\ DOMAIN Tail(q) = 1 .. (Len(q) - 1)
           /\ \A i \in DOMAIN Tail(q) : i + 1 \in DOMAIN q /\ Tail(q)[i] = q[i + 1]
           /\ \A i \in DOMAIN q : i # 1 => i - 1 \in DOMAIN Tail(q) /\ Tail(q)[i - 1] = q[i]
           /\ Range(q) = {Head(q)} \cup Range(Tail(q))
           /\ q = <<Head(q)>> \o Tail(q)
<1>1. /\ Len(q) \in Nat \ {0} /\ DOMAIN q = 1 .. Len(q)
      /\ Tail(q) \in Seq(S) /\ Head(q) = q[1] /\ Len(Tail(q)) = Len(q) - 1
      /\ DOMAIN Tail(q) = 1 .. (Len(q) - 1)
      /\ \A i \in 1 .. (Len(q) - 1) : Tail(q)[i] = q[i + 1]
  OBVIOUS
<1>2. /\ 1 \in DOMAIN q /\ Head(q) \in S
      /\ \A i \in DOMAIN Tail(q) : i + 1 \in DOMAIN q /\ Tail(q)[i] = q[i + 1]
      /\ \A i \in DOMAIN q : i # 1 => i - 1 \in DOMAIN Tail(q) /\ Tail(q)[i - 1] = q[i]
  BY <1>1
<1>3. Range(q) = {Head(q)} \cup Range(Tail(q))
  <2>1. ASSUME NEW x \in Range(q) PROVE x \in {Head(q)} \cup Range(Tail(q))
    <3>1. PICK i \in DOMAIN q : q[i] = x
      BY <2>1 DEF Range
    <3>2. CASE i = 1
      BY <1>1, <3>1, <3>2
    <3>3. CASE i # 1
      <4>1. i - 1 \in DOMAIN Tail(q) /\ Tail(q)[i - 1] = x
        BY <1>2, <3>1, <3>3
      <4> QED BY <4>1 DEF Range
    <3> QED BY <3>2, <3>3
  <2>2. \A x \in {Head(q)} \cup Range(Tail(q)) : x \in Range(q)
    BY <1>1, <1>2 DEF Range
  <2> QED BY <2>1, <2>2
<1>4. q = <<Head(q)>> \o Tail(q)
  <2> DEFINE t == <<Head(q)>> \o Tail(q)
  <2>1. <<Head(q)>> \in Seq(S) /\ Len(<<Head(q)>>) = 1 /\ <<Head(q)>>[1] = Head(q)
    BY <1>2
  <2>2. /\ t \in Seq(S) /\ Len(t) = Len(q)
        /\ \A i \in 1 .. Len(t) : t[i] = IF i <= 1 THEN <<Head(q)>>[i] ELSE Tail(q)[i - 1]
    BY <1>1, <2>1, ConcatProperties
  <2> HIDE DEF t
  <2>3. \A i \in 1 .. Len(q) : t[i] = q[i]
    BY <1>1, <1>2, <2>1, <2>2
  <2>4. t = q
    BY <2>2, <2>3, SeqEqual
  <2> QED BY <2>4 DEF t
<1> QED BY <1>1, <1>2, <1>3, <1>4

\* Two sequences, one behind the other.
LEMMA Together ==
    ASSUME NEW S, NEW q \in Seq(S), NEW r \in Seq(S)
    PROVE  /\ q \o r \in Seq(S) /\ Len(q \o r) = Len(q) + Len(r)
           /\ DOMAIN (q \o r) = 1 .. (Len(q) + Len(r))
           /\ \A i \in DOMAIN q : (q \o r)[i] = q[i]
           /\ \A i \in DOMAIN r : (q \o r)[Len(q) + i] = r[i]
           /\ \A i \in DOMAIN (q \o r) : i \notin DOMAIN q =>
                 i - Len(q) \in DOMAIN r /\ (q \o r)[i] = r[i - Len(q)]
           /\ Range(q \o r) = Range(q) \cup Range(r)
           /\ <<>> \o r = r /\ q \o <<>> = q
           /\ q \o r = <<>> <=> q = <<>> /\ r = <<>>
<1> DEFINE t == q \o r
<1>1. /\ Len(q) \in Nat /\ Len(r) \in Nat /\ DOMAIN q = 1 .. Len(q) /\ DOMAIN r = 1 .. Len(r)
      /\ t \in Seq(S) /\ Len(t) = Len(q) + Len(r) /\ DOMAIN t = 1 .. Len(t)
      /\ \A i \in 1 .. Len(q) + Len(r) : t[i] = IF i <= Len(q) THEN q[i] ELSE r[i - Len(q)]
  BY ConcatProperties, LenProperties
<1>2. Range(t) = Range(q) \cup Range(r) /\ <<>> \o r = r /\ q \o <<>> = q
  BY RangeConcatenation, ConcatEmptySeq
<1>3. t = <<>> <=> q = <<>> /\ r = <<>>
  BY ConcatEqualIffEmpty
<1> HIDE DEF t
<1>4. /\ \A i \in DOMAIN q : t[i] = q[i]
      /\ \A i \in DOMAIN r : t[Len(q) + i] = r[i]
      /\ \A i \in DOMAIN t : i \notin DOMAIN q => i - Len(q) \in DOMAIN r /\ t[i] = r[i - Len(q)]
  BY <1>1
<1> QED BY <1>1, <1>2, <1>3, <1>4 DEF t

\* A batch crosses from the first of two sequences to the second.
LEMMA MovesOver ==
    ASSUME NEW S, NEW q \in Seq(S), NEW r \in Seq(S), NEW x \in S
    PROVE  Append(q, x) \o r = q \o (<<x>> \o r)
<1>1. <<x>> \in Seq(S)
  OBVIOUS
<1>2. Append(q, x) = q \o <<x>>
  BY AppendIsConcat
<1> QED BY <1>1, <1>2, ConcatAssociative

\* What joins the second of two sequences joins the whole.
LEMMA JoinsWhole ==
    ASSUME NEW S, NEW q \in Seq(S), NEW r \in Seq(S), NEW x \in S
    PROVE  q \o Append(r, x) = Append(q \o r, x)
<1>1. <<x>> \in Seq(S)
  OBVIOUS
<1>2. Append(r, x) = r \o <<x>> /\ Append(q \o r, x) = (q \o r) \o <<x>>
  BY AppendIsConcat, ConcatProperties
<1> QED BY <1>1, <1>2, ConcatAssociative

\* What leaves the first of two sequences leaves the whole.
LEMMA LeavesWhole ==
    ASSUME NEW S, NEW q \in Seq(S), NEW r \in Seq(S), NEW x \in S
    PROVE  Tail((<<x>> \o q) \o r) = q \o r /\ Head((<<x>> \o q) \o r) = x
<1>1. <<x>> \in Seq(S) /\ Tail(<<x>> \o (q \o r)) = q \o r /\ Head(<<x>> \o (q \o r)) = x
  <2>1. <<x>> \in Seq(S) /\ Len(<<x>>) = 1 /\ <<x>>[1] = x /\ q \o r \in Seq(S)
    BY ConcatProperties
  <2> DEFINE u == q \o r
             t == <<x>> \o u
  <2>2. /\ t \in Seq(S) /\ Len(t) = 1 + Len(u)
        /\ \A i \in 1 .. Len(t) : t[i] = IF i <= 1 THEN <<x>>[i] ELSE u[i - 1]
    BY <2>1, ConcatProperties
  <2>3. u \in Seq(S) /\ Len(u) \in Nat
    BY <2>1
  <2> HIDE DEF t, u
  <2>4. t # <<>>
    BY <2>2, <2>3
  <2>5. /\ Head(t) = t[1] /\ Tail(t) \in Seq(S) /\ Len(Tail(t)) = Len(u)
        /\ \A i \in 1 .. Len(u) : Tail(t)[i] = t[i + 1]
    BY <2>2, <2>3, <2>4, HeadTailProperties
  <2>6. \A i \in 1 .. Len(u) : Tail(t)[i] = u[i]
    BY <2>2, <2>3, <2>5
  <2>7. Tail(t) = u
    BY <2>3, <2>5, <2>6, SeqEqual
  <2>8. Head(t) = x
    BY <2>1, <2>2, <2>3, <2>5
  <2> QED BY <2>1, <2>7, <2>8 DEF t, u
<1>2. (<<x>> \o q) \o r = <<x>> \o (q \o r)
  BY <1>1, ConcatAssociative
<1> QED BY <1>1, <1>2

\* The head of the first of two sequences is the head of the whole.
LEMMA HeadOfWhole ==
    ASSUME NEW S, NEW q \in Seq(S), NEW r \in Seq(S), q # <<>>
    PROVE  Tail(q \o r) = Tail(q) \o r /\ Head(q \o r) = Head(q)
<1> DEFINE t == q \o r
           u == Tail(q) \o r
<1>1. /\ Len(q) \in Nat \ {0} /\ Len(r) \in Nat /\ Tail(q) \in Seq(S) /\ Len(Tail(q)) = Len(q) - 1
      /\ \A i \in 1 .. (Len(q) - 1) : Tail(q)[i] = q[i + 1]
      /\ Head(q) = q[1]
  BY HeadTailProperties, LenProperties, EmptySeq
<1>2. /\ t \in Seq(S) /\ Len(t) = Len(q) + Len(r)
      /\ \A i \in 1 .. Len(t) : t[i] = IF i <= Len(q) THEN q[i] ELSE r[i - Len(q)]
  BY ConcatProperties
<1>3. /\ u \in Seq(S) /\ Len(u) = Len(q) - 1 + Len(r)
      /\ \A i \in 1 .. Len(u) : u[i] = IF i <= Len(q) - 1 THEN Tail(q)[i] ELSE r[i - (Len(q) - 1)]
  BY <1>1, ConcatProperties
<1> HIDE DEF t, u
<1>4. t # <<>>
  BY <1>1, <1>2
<1>5. /\ Head(t) = t[1] /\ Tail(t) \in Seq(S) /\ Len(Tail(t)) = Len(t) - 1
      /\ \A i \in 1 .. Len(Tail(t)) : Tail(t)[i] = t[i + 1]
  BY <1>2, <1>4, HeadTailProperties
<1>6. Len(Tail(t)) = Len(u) /\ \A i \in 1 .. Len(u) : Tail(t)[i] = u[i]
  BY <1>1, <1>2, <1>3, <1>5
<1>7. Tail(t) = u
  BY <1>3, <1>5, <1>6, SeqEqual
<1>8. Head(t) = Head(q)
  BY <1>1, <1>2, <1>5
<1> QED BY <1>7, <1>8 DEF t, u

--------------------------------------------------------------------------------
(* The inductive invariant *)

Batches == BatchType \cup {NoBatch}

StreamerType ==
    [at : {"idle", "part", "convert", "queued", "flush"}, todo : Seq({"infer", "attach"}),
     part : Nat, model : {0} \cup Contexts]

InputType ==
    [at : {"lock", "relock", "loop", "queue", "ended", "none"}, batch : Batches,
     ctx : {0} \cup Contexts]

OutputType ==
    [at : {"lock", "loop", "push", "infer", "dequeue", "attach", "ended", "crashed"},
     batch : Batches, ctx : {0} \cup Contexts, got : Batches]

\* The types; the upper bounds of the pools follow from PoolInv and ConvInv.
Types ==
    /\ config \in Configs
    /\ inputQueue \in Seq(BatchType) /\ processQueue \in Seq(BatchType) /\ stop \in BOOLEAN
    /\ convFree \in Nat /\ asleep \subseteq {"streamer", "input", "output", "app"}
    /\ current \in {0} \cup Contexts /\ next \in {0} \cup Contexts /\ models \in Contexts
    /\ loader \in {"idle", "loading"} /\ (loader = "loading" => models < MaxModels)
    /\ size \in [Contexts -> Nat] /\ free \in [Contexts -> Nat]
    /\ queued \in [Contexts -> Seq(BatchType)]
    /\ streamer \in StreamerType /\ input \in InputType /\ output \in OutputType
    /\ app \in {"play", "drain", "context", "join", "stopped"}
    /\ items \in Seq({"buffer", "event"}) /\ gone \subseteq DOMAIN items /\ left \in Seq(Nat)
    /\ held \subseteq Nat \X Nat \X Contexts

\* Who has a batch in hand and of what kind; who is busy with what.
HandsInv ==
    /\ input.at = "queue" => input.batch # NoBatch
    /\ input.at \notin {"queue", "relock"} => input.batch = NoBatch
    /\ input.batch # NoBatch => input.batch.kind = "infer"
    /\ output.at = "push" => output.batch # NoBatch /\ output.batch.kind = "push"
    /\ output.at \in {"infer", "dequeue", "attach", "crashed"} =>
          output.batch # NoBatch /\ output.batch.kind = "infer"
    /\ output.at \notin {"push", "infer", "dequeue", "attach", "crashed"} => output.batch = NoBatch
    /\ streamer.at \in {"convert", "queued"} => streamer.todo # <<>>
    /\ streamer.at = "convert" => HasInputThread
    /\ streamer.at = "queued" => ~HasInputThread
    /\ HasInputThread <=> input.at # "none"
    /\ ~HasInputThread /\ streamer.at # "flush" => inputQueue = <<>>
    /\ Busy => app = "play" /\ items # <<>>
    /\ stop <=> app \notin {"play", "drain"}
    /\ app \in {"play", "drain", "context"} => current # 0

\* The line is in the order of arrival and of no later batch than the streaming thread is at; it
\* ends with the marker for whose sake the streaming thread waits.
LineInv ==
    /\ InOrder(Line)
    /\ \A b \in Range(Line) :
          /\ b.kind = "marker" => b.n = 0
          /\ b.kind # "marker" =>
                /\ b.n \in 1 .. Current
                /\ Busy /\ b.n = Current => b.kind # "push" /\ b.part < streamer.part
    /\ streamer.at = "flush" => EndsWithMarker(Line)

Waiting(n) == \E b \in Pushes(Line) : b.n = n

\* Every item but the one the streaming thread is busy with left, was refused or waits for its
\* push_buffer batch, and only one of these.
LeaveInv ==
    /\ \A i, j \in DOMAIN left : left[i] = left[j] => i = j
    /\ Range(left) \cap gone = {} /\ Range(left) \subseteq 1 .. Current
    /\ \A n \in 1 .. Current : n \in Range(left) \cup gone \/ Waiting(n) \/ (Busy /\ n = Current)
    /\ \A n \in Range(left) \cup gone : ~Waiting(n) /\ ~(Busy /\ n = Current)
    /\ config.mode = "async" => Pushes(Line) = {}
    /\ config.mode # "async" =>
          \A n \in Range(left) : \A b \in Range(Line) : b.kind # "marker" => n < b.n

\* The batches that were inferred and whose results were not yet taken.
InferredBatches ==
    {b \in Range(processQueue) : b.kind = "infer"}
    \cup (IF output.at \in {"infer", "dequeue", "crashed"} THEN {output.batch} ELSE {})
    \cup (IF input.at = "relock" /\ input.batch # NoBatch THEN {input.batch} ELSE {})
    \cup (IF streamer.at = "queued" THEN {Batch("infer", Current, streamer.part)} ELSE {})

\* All of them are queued in context c, in order, and nobody uses another context.
InUse(c) ==
    /\ current # 0 => c = current
    /\ \A d \in Contexts \ {c} : queued[d] = <<>>
    /\ input.at = "queue" => input.ctx = c
    /\ output.at \in {"dequeue", "attach"} => output.ctx = c
    /\ InOrder(queued[c]) /\ Range(queued[c]) = InferredBatches

ContextInv == OutputsMatch /\ \E c \in Contexts : InUse(c)

\* Metadata keeps only the outputs of batches that went before the line.
HeldInv ==
    \A h \in held :
        /\ h[1] \in 1 .. Current
        /\ Busy /\ h[1] = Current => h[2] < streamer.part
        /\ \A b \in Range(Line) : b.kind = "infer" => h[1] < b.n \/ (h[1] = b.n /\ h[2] < b.part)

PoolInv == IsFiniteSet(held) /\ OutputBuffersAccounted

\* The batches that have a conversion buffer.
Converting ==
    {b \in Range(inputQueue) : b.kind = "infer"}
    \cup (IF input.at = "queue" THEN {input.batch} ELSE {})
    \cup (IF streamer.at = "convert" /\ Head(streamer.todo) = "infer"
          THEN {Batch("infer", Current, streamer.part)} ELSE {})

ConvInv == IsFiniteSet(Converting) /\ convFree + Cardinality(Converting) <= ConvPool

InferInv ==
    /\ Types /\ HandsInv /\ LineInv /\ LeaveInv /\ ContextInv /\ HeldInv /\ PoolInv /\ ConvInv

\* A hand is a sequence of at most one batch.
LEMMA HandType ==
    ASSUME NEW b \in Batches
    PROVE  /\ Hand(b) \in Seq(BatchType)
           /\ b = NoBatch => Hand(b) = <<>>
           /\ b # NoBatch => b \in BatchType /\ Hand(b) = <<b>>
           /\ Range(Hand(b)) = {b} \ {NoBatch}
<1>1. CASE b = NoBatch
  BY <1>1, EmptyIsShort DEF Hand
<1>2. CASE b # NoBatch
  <2>1. b \in BatchType
    BY <1>2 DEF Batches
  <2> QED BY <1>2, <2>1, OneIsSequence DEF Hand
<1> QED BY <1>1, <1>2

\* The line is a sequence of batches; what is in it.
LEMMA LineType ==
    ASSUME Types
    PROVE  /\ OutputSide \in Seq(BatchType) /\ InputSide \in Seq(BatchType) /\ Line \in Seq(BatchType)
           /\ Hand(input.batch) \in Seq(BatchType) /\ Hand(output.batch) \in Seq(BatchType)
           /\ input.batch \in Batches /\ output.batch \in Batches
           /\ Range(OutputSide) = ({output.batch} \ {NoBatch}) \cup Range(processQueue)
           /\ Range(InputSide) = ({input.batch} \ {NoBatch}) \cup Range(inputQueue)
           /\ Range(Line) = Range(OutputSide) \cup Range(InputSide)
<1>1. /\ input.batch \in Batches /\ output.batch \in Batches
      /\ inputQueue \in Seq(BatchType) /\ processQueue \in Seq(BatchType)
  BY DEF Types, InputType, OutputType
<1>2. /\ Hand(input.batch) \in Seq(BatchType) /\ Hand(output.batch) \in Seq(BatchType)
      /\ Range(Hand(input.batch)) = {input.batch} \ {NoBatch}
      /\ Range(Hand(output.batch)) = {output.batch} \ {NoBatch}
  BY <1>1, HandType
<1>3. /\ OutputSide \in Seq(BatchType) /\ InputSide \in Seq(BatchType)
      /\ Range(OutputSide) = ({output.batch} \ {NoBatch}) \cup Range(processQueue)
      /\ Range(InputSide) = ({input.batch} \ {NoBatch}) \cup Range(inputQueue)
  BY <1>1, <1>2, Together DEF OutputSide, InputSide
<1> QED BY <1>1, <1>2, <1>3, Together DEF Line

\* Inside is what is in the line.
LEMMA InsideIsLine == ASSUME Types PROVE Inside = Range(Line)
  BY LineType DEF Inside

--------------------------------------------------------------------------------
(* Order in a sequence *)

\* A batch that every other is ahead of may join at the end.
LEMMA StaysInOrder ==
    ASSUME NEW q \in Seq(BatchType), NEW x \in BatchType, InOrder(q),
           \A b \in Range(q) : Ahead(b, x)
    PROVE  InOrder(Append(q, x))
<1> DEFINE r == Append(q, x)
<1>1. /\ Len(q) \in Nat /\ DOMAIN q = 1 .. Len(q) /\ DOMAIN r = 1 .. (Len(q) + 1)
      /\ \A i \in DOMAIN q : r[i] = q[i] /\ q[i] \in Range(q)
      /\ r[Len(q) + 1] = x
  BY OneMore, SequenceFacts
<1> HIDE DEF r
<1>2. ASSUME NEW i \in DOMAIN r, NEW j \in DOMAIN r, i < j
      PROVE  Ahead(r[i], r[j])
  <2>1. i \in DOMAIN q
    BY <1>1, <1>2
  <2>2. CASE j \in DOMAIN q
    BY <1>1, <1>2, <2>1, <2>2 DEF InOrder
  <2>3. CASE j \notin DOMAIN q
    <3>1. j = Len(q) + 1
      BY <1>1, <1>2, <2>3
    <3>2. r[j] = x /\ r[i] \in Range(q)
      BY <1>1, <2>1, <3>1
    <3> QED BY <3>2
  <2> QED BY <2>2, <2>3
<1> QED BY <1>2 DEF r, InOrder

\* The head is ahead of the rest.
LEMMA HeadFirst ==
    ASSUME NEW q \in Seq(BatchType), q # <<>>, InOrder(q)
    PROVE  \A b \in Range(Tail(q)) : Ahead(Head(q), b)
<1>1. /\ Head(q) = q[1] /\ 1 \in DOMAIN q /\ DOMAIN Tail(q) = 1 .. (Len(q) - 1) /\ Len(q) \in Nat
      /\ Tail(q) \in Seq(BatchType)
      /\ \A i \in DOMAIN Tail(q) : i + 1 \in DOMAIN q /\ Tail(q)[i] = q[i + 1]
  BY OneLess
<1> SUFFICES ASSUME NEW b \in Range(Tail(q)) PROVE Ahead(Head(q), b)
  OBVIOUS
<1>2. PICK i \in DOMAIN Tail(q) : Tail(q)[i] = b
  BY <1>1, SequenceFacts
<1>3. i + 1 \in DOMAIN q /\ q[i + 1] = b /\ 1 < i + 1
  BY <1>1, <1>2
<1> QED BY <1>1, <1>3 DEF InOrder

\* What is in front of a sequence that is in order is ahead of what is behind.
LEMMA FrontFirst ==
    ASSUME NEW q \in Seq(BatchType), NEW r \in Seq(BatchType), InOrder(q \o r)
    PROVE  \A b \in Range(q), c \in Range(r) : Ahead(b, c)
<1> DEFINE t == q \o r
<1>1. /\ Len(q) \in Nat /\ DOMAIN q = 1 .. Len(q) /\ Len(r) \in Nat /\ DOMAIN r = 1 .. Len(r)
      /\ DOMAIN t = 1 .. (Len(q) + Len(r))
      /\ \A i \in DOMAIN q : t[i] = q[i]
      /\ \A i \in DOMAIN r : t[Len(q) + i] = r[i]
      /\ InOrder(t)
  BY Together, SequenceFacts
<1> HIDE DEF t
<1> SUFFICES ASSUME NEW b \in Range(q), NEW c \in Range(r) PROVE Ahead(b, c)
  OBVIOUS
<1>2. PICK i \in DOMAIN q : q[i] = b
  BY SequenceFacts
<1>3. PICK j \in DOMAIN r : r[j] = c
  BY SequenceFacts
<1>4. i \in DOMAIN t /\ Len(q) + j \in DOMAIN t /\ i < Len(q) + j /\ t[i] = b /\ t[Len(q) + j] = c
  BY <1>1, <1>2, <1>3
<1> QED BY <1>1, <1>4 DEF InOrder

\* A batch that leaves, in front or between two parts, leaves the rest as it was.
LEMMA HeadLeaves ==
    ASSUME NEW q \in Seq(BatchType), q # <<>>
    PROVE  Thinned(Tail(q), q)
<1> DEFINE r == Tail(q)
<1>1. /\ r \in Seq(BatchType) /\ Len(q) \in Nat \ {0} /\ Len(r) = Len(q) - 1
      /\ DOMAIN q = 1 .. Len(q) /\ DOMAIN r = 1 .. (Len(q) - 1)
      /\ \A i \in DOMAIN r : i + 1 \in DOMAIN q /\ r[i] = q[i + 1]
      /\ Range(q) = {Head(q)} \cup Range(r)
  BY OneLess
<1> HIDE DEF r
<1>0. r = <<>> <=> Len(r) = 0
  BY <1>1, SequenceFacts
<1>2. ASSUME InOrder(q) PROVE InOrder(r)
  <2> SUFFICES ASSUME NEW i \in DOMAIN r, NEW j \in DOMAIN r, i < j
               PROVE  Ahead(r[i], r[j])
    BY DEF InOrder
  <2>1. i + 1 \in DOMAIN q /\ j + 1 \in DOMAIN q /\ i + 1 < j + 1 /\ r[i] = q[i + 1] /\ r[j] = q[j + 1]
    BY <1>1
  <2> QED BY <1>2, <2>1 DEF InOrder
<1>3. ASSUME EndsWithMarker(q), r # <<>> PROVE r[Len(r)].kind = "marker"
  <2>1. Len(r) \in DOMAIN r /\ r[Len(r)] = q[Len(q)]
    BY <1>0, <1>1, <1>3
  <2> QED BY <1>3, <2>1 DEF EndsWithMarker
<1> QED BY <1>0, <1>1, <1>2, <1>3 DEF Thinned, EndsWithMarker, r

\* So does a batch between two parts, unless it is a marker.
LEMMA MiddleLeaves ==
    ASSUME NEW q \in Seq(BatchType), NEW r \in Seq(BatchType), NEW x \in BatchType, x.kind # "marker"
    PROVE  Thinned(q \o r, q \o (<<x>> \o r))
<1> DEFINE s == <<x>> \o r
           t == q \o r
           u == q \o s
<1>1. /\ s \in Seq(BatchType) /\ Len(s) = Len(r) + 1 /\ Range(s) = {x} \cup Range(r)
      /\ s[1] = x /\ \A i \in DOMAIN r : s[i + 1] = r[i]
  <2>1. /\ <<x>> \in Seq(BatchType) /\ Len(<<x>>) = 1 /\ <<x>>[1] = x /\ Range(<<x>>) = {x}
        /\ DOMAIN <<x>> = {1}
    BY OneIsSequence
  <2> DEFINE o == <<x>>
  <2> HIDE DEF o
  <2>2. /\ o \in Seq(BatchType) /\ Len(o) = 1 /\ o[1] = x /\ Range(o) = {x} /\ DOMAIN o = {1}
    BY <2>1 DEF o
  <2>3. /\ o \o r \in Seq(BatchType) /\ Len(o \o r) = 1 + Len(r)
        /\ Range(o \o r) = {x} \cup Range(r)
        /\ (o \o r)[1] = x /\ \A i \in DOMAIN r : (o \o r)[1 + i] = r[i]
    BY <2>2, Together
  <2>4. Len(r) \in Nat /\ DOMAIN r = 1 .. Len(r)
    OBVIOUS
  <2> QED BY <2>3, <2>4 DEF o
<1> HIDE DEF s
<1>2. /\ Len(q) \in Nat /\ DOMAIN q = 1 .. Len(q) /\ Len(r) \in Nat /\ DOMAIN r = 1 .. Len(r)
      /\ DOMAIN s = 1 .. (Len(r) + 1)
  BY <1>1, SequenceFacts
<1>3. /\ t \in Seq(BatchType) /\ u \in Seq(BatchType)
      /\ Len(t) = Len(q) + Len(r) /\ Len(u) = Len(q) + Len(s)
      /\ DOMAIN t = 1 .. (Len(q) + Len(r)) /\ DOMAIN u = 1 .. (Len(q) + Len(s))
      /\ \A i \in DOMAIN q : t[i] = q[i] /\ u[i] = q[i]
      /\ \A i \in DOMAIN r : t[Len(q) + i] = r[i]
      /\ \A i \in DOMAIN s : u[Len(q) + i] = s[i]
      /\ \A i \in DOMAIN t : i \notin DOMAIN q => i - Len(q) \in DOMAIN r /\ t[i] = r[i - Len(q)]
      /\ Range(t) = Range(q) \cup Range(r) /\ Range(u) = Range(q) \cup Range(s)
  <2>1. /\ t \in Seq(BatchType) /\ Len(t) = Len(q) + Len(r)
        /\ DOMAIN t = 1 .. (Len(q) + Len(r)) /\ Range(t) = Range(q) \cup Range(r)
        /\ \A i \in DOMAIN q : t[i] = q[i]
        /\ \A i \in DOMAIN r : t[Len(q) + i] = r[i]
        /\ \A i \in DOMAIN t : i \notin DOMAIN q => i - Len(q) \in DOMAIN r /\ t[i] = r[i - Len(q)]
    BY Together
  <2>2. /\ u \in Seq(BatchType) /\ Len(u) = Len(q) + Len(s)
        /\ DOMAIN u = 1 .. (Len(q) + Len(s)) /\ Range(u) = Range(q) \cup Range(s)
        /\ \A i \in DOMAIN q : u[i] = q[i]
        /\ \A i \in DOMAIN s : u[Len(q) + i] = s[i]
    <3>1. s \in Seq(BatchType)
      BY <1>1
    <3> QED BY <3>1, Together
  <2> QED BY <2>1, <2>2
<1>4. u # <<>> /\ (t = <<>> <=> Len(t) = 0)
  <2>1. Len(u) # 0
    BY <1>1, <1>2, <1>3
  <2> QED BY <1>3, <2>1
<1> HIDE DEF t, u
<1>5. \A i \in DOMAIN r : i + 1 \in DOMAIN s /\ u[Len(q) + (i + 1)] = r[i]
  BY <1>1, <1>2, <1>3
<1> DEFINE place(i) == IF i \in DOMAIN q THEN i ELSE i + 1
<1>6. \A i \in DOMAIN t : place(i) \in DOMAIN u /\ u[place(i)] = t[i]
  <2> SUFFICES ASSUME NEW i \in DOMAIN t PROVE place(i) \in DOMAIN u /\ u[place(i)] = t[i]
    OBVIOUS
  <2>1. CASE i \in DOMAIN q
    BY <1>1, <1>2, <1>3, <2>1
  <2>2. CASE i \notin DOMAIN q
    <3>1. i - Len(q) \in DOMAIN r /\ t[i] = r[i - Len(q)]
      BY <1>3, <2>2
    <3>2. Len(q) + ((i - Len(q)) + 1) = i + 1
      BY <1>2, <1>3
    <3>3. u[i + 1] = t[i]
      BY <1>5, <3>1, <3>2
    <3>4. i + 1 \in DOMAIN u
      BY <1>1, <1>2, <1>3
    <3> QED BY <2>2, <3>3, <3>4
  <2> QED BY <2>1, <2>2
<1>7. \A i, j \in DOMAIN t : i < j => place(i) < place(j)
  BY <1>2, <1>3
<1> HIDE DEF place
<1>8. ASSUME InOrder(u) PROVE InOrder(t)
  BY <1>6, <1>7, <1>8 DEF InOrder
<1>9. ASSUME EndsWithMarker(u) PROVE EndsWithMarker(t)
  <2>1. u[Len(u)].kind = "marker"
    BY <1>4, <1>9 DEF EndsWithMarker
  <2>2. Len(s) \in DOMAIN s /\ u[Len(u)] = s[Len(s)]
    BY <1>1, <1>2, <1>3
  <2>3. CASE r = <<>>
    <3>1. Len(r) = 0
      BY <2>3
    <3>2. s[Len(s)] = x
      BY <1>1, <3>1
    <3> QED BY <2>1, <2>2, <3>2
  <2>4. CASE r # <<>>
    <3>1. Len(r) \in DOMAIN r
      BY <1>2, <2>4
    <3>2. s[Len(s)] = r[Len(r)] /\ t[Len(t)] = r[Len(r)]
      BY <1>1, <1>3, <3>1
    <3> QED BY <2>1, <2>2, <3>2 DEF EndsWithMarker
  <2> QED BY <2>3, <2>4
<1>10. Range(t) \subseteq Range(u)
  BY <1>1, <1>3
<1> QED BY <1>8, <1>9, <1>10 DEF Thinned, t, u, s

\* Nor does it change anything that nobody leaves.
LEMMA NothingLeaves == \A q : Thinned(q, q)
  BY DEF Thinned

--------------------------------------------------------------------------------
(* What the steps do to the line *)

\* What a full and an empty hand add to a sequence.
LEMMA HandsFull ==
    ASSUME Types
    PROVE  /\ input.batch # NoBatch => input.batch \in BatchType /\ InputSide = <<input.batch>> \o inputQueue
           /\ input.batch = NoBatch => InputSide = inputQueue
           /\ output.batch # NoBatch =>
                 output.batch \in BatchType /\ OutputSide = <<output.batch>> \o processQueue
           /\ output.batch = NoBatch => OutputSide = processQueue
           /\ inputQueue \in Seq(BatchType) /\ processQueue \in Seq(BatchType)
<1>1. /\ input.batch \in Batches /\ output.batch \in Batches
      /\ inputQueue \in Seq(BatchType) /\ processQueue \in Seq(BatchType)
  BY LineType DEF Types
<1>2. <<>> \o inputQueue = inputQueue /\ <<>> \o processQueue = processQueue
  BY <1>1, Together
<1> QED BY <1>1, <1>2, HandType DEF InputSide, OutputSide

\* The line depends on the queues and on what is in the hands.
LEMMA LineUntouched ==
    ASSUME UNCHANGED <<inputQueue, processQueue, input, output>>
    PROVE  UNCHANGED <<Line, OutputSide, InputSide>>
  BY DEF Line, OutputSide, InputSide, Hand

\* So do its two sides.
LEMMA HandsUntouched ==
    ASSUME UNCHANGED <<inputQueue, processQueue>>, input'.batch = input.batch,
           output'.batch = output.batch
    PROVE  UNCHANGED <<Line, OutputSide, InputSide>>
  BY DEF Line, OutputSide, InputSide, Hand

\* What is queued for the input thread is behind everything else.
LEMMA JoinsInput ==
    ASSUME Types, NEW b \in BatchType, inputQueue' = Append(inputQueue, b),
           UNCHANGED <<processQueue, input, output>>
    PROVE  Line' = Append(Line, b)
<1>1. UNCHANGED OutputSide
  BY DEF OutputSide, Hand
<1>2. InputSide' = Append(InputSide, b)
  <2>1. Hand(input.batch) \in Seq(BatchType) /\ inputQueue \in Seq(BatchType)
    BY LineType DEF Types
  <2> DEFINE h == Hand(input.batch)
             w == inputQueue
  <2> HIDE DEF h, w
  <2>2. h \in Seq(BatchType) /\ w \in Seq(BatchType)
    BY <2>1 DEF h, w
  <2>3. h \o Append(w, b) = Append(h \o w, b)
    BY <2>2, JoinsWhole
  <2>4. InputSide = h \o w /\ InputSide' = h \o Append(w, b)
    BY DEF InputSide, Hand, h, w
  <2> QED BY <2>3, <2>4
<1>3. OutputSide \o Append(InputSide, b) = Append(OutputSide \o InputSide, b)
  <2>1. OutputSide \in Seq(BatchType) /\ InputSide \in Seq(BatchType)
    BY LineType
  <2> DEFINE o == OutputSide
             i == InputSide
  <2> HIDE DEF o, i
  <2>2. o \in Seq(BatchType) /\ i \in Seq(BatchType)
    BY <2>1 DEF o, i
  <2>3. o \o Append(i, b) = Append(o \o i, b)
    BY <2>2, JoinsWhole
  <2> QED BY <2>3 DEF o, i
<1> QED BY <1>1, <1>2, <1>3 DEF Line

\* So is what is queued for the output loop, if nothing is with the input thread.
LEMMA JoinsOutput ==
    ASSUME Types, NEW b \in BatchType, processQueue' = Append(processQueue, b),
           UNCHANGED <<inputQueue, input, output>>, input.batch = NoBatch, inputQueue = <<>>
    PROVE  Line' = Append(Line, b)
<1>1. InputSide = <<>> /\ InputSide' = <<>>
  BY HandsFull DEF InputSide, Hand
<1>2. OutputSide' = Append(OutputSide, b)
  <2>1. Hand(output.batch) \in Seq(BatchType) /\ processQueue \in Seq(BatchType)
    BY LineType DEF Types
  <2> DEFINE h == Hand(output.batch)
             w == processQueue
  <2> HIDE DEF h, w
  <2>2. h \in Seq(BatchType) /\ w \in Seq(BatchType)
    BY <2>1 DEF h, w
  <2>3. h \o Append(w, b) = Append(h \o w, b)
    BY <2>2, JoinsWhole
  <2>4. OutputSide = h \o w /\ OutputSide' = h \o Append(w, b)
    BY DEF OutputSide, Hand, h, w
  <2> QED BY <2>3, <2>4
<1>3. Append(OutputSide, b) \o <<>> = Append(OutputSide, b) /\ OutputSide \o <<>> = OutputSide
  <2>1. OutputSide \in Seq(BatchType) /\ Append(OutputSide, b) \in Seq(BatchType)
    BY LineType, OneMore
  <2> QED BY <2>1, ConcatEmptySeq
<1> QED BY <1>1, <1>2, <1>3 DEF Line

\* The head of the input queue is taken in the hand of the input thread.
LEMMA InputTakesHead ==
    ASSUME Types, inputQueue # <<>>, input.batch = NoBatch, inputQueue' = Tail(inputQueue),
           input'.batch = Head(inputQueue), UNCHANGED <<processQueue, output>>
    PROVE  UNCHANGED Line
<1>1. Head(inputQueue) \in BatchType /\ inputQueue = <<Head(inputQueue)>> \o Tail(inputQueue)
  BY OneLess DEF Types
<1>2. Head(inputQueue) # NoBatch
  BY <1>1, NoBatchAssumption
<1>3. InputSide' = InputSide /\ OutputSide' = OutputSide
  BY <1>1, <1>2, HandsFull DEF InputSide, OutputSide, Hand
<1> QED BY <1>3 DEF Line

\* The head of the process queue is taken in the hand of the output loop.
LEMMA OutputTakesHead ==
    ASSUME Types, processQueue # <<>>, output.batch = NoBatch, processQueue' = Tail(processQueue),
           output'.batch = Head(processQueue), UNCHANGED <<inputQueue, input>>
    PROVE  UNCHANGED Line
<1>1. Head(processQueue) \in BatchType /\ processQueue = <<Head(processQueue)>> \o Tail(processQueue)
  BY OneLess DEF Types
<1>2. Head(processQueue) # NoBatch
  BY <1>1, NoBatchAssumption
<1>3. InputSide' = InputSide /\ OutputSide' = OutputSide
  BY <1>1, <1>2, HandsFull DEF InputSide, OutputSide, Hand
<1> QED BY <1>3 DEF Line

\* The input thread moves what it has in hand, or what it finds, to the process queue.
LEMMA InputPasses ==
    ASSUME Types, NEW b \in BatchType, NEW r \in Seq(BatchType), InputSide = <<b>> \o r,
           InputSide' = r, processQueue' = Append(processQueue, b), UNCHANGED output
    PROVE  UNCHANGED Line
<1>1. OutputSide' = Append(OutputSide, b)
  <2>1. Hand(output.batch) \in Seq(BatchType) /\ processQueue \in Seq(BatchType)
    BY LineType DEF Types
  <2> DEFINE h == Hand(output.batch)
             w == processQueue
  <2> HIDE DEF h, w
  <2>2. h \in Seq(BatchType) /\ w \in Seq(BatchType)
    BY <2>1 DEF h, w
  <2>3. h \o Append(w, b) = Append(h \o w, b)
    BY <2>2, JoinsWhole
  <2>4. OutputSide = h \o w /\ OutputSide' = h \o Append(w, b)
    BY DEF OutputSide, Hand, h, w
  <2> QED BY <2>3, <2>4
<1>2. OutputSide \in Seq(BatchType)
  BY LineType
<1>3. Append(OutputSide, b) \o r = OutputSide \o (<<b>> \o r)
  <2> DEFINE o == OutputSide
  <2> HIDE DEF o
  <2>1. o \in Seq(BatchType)
    BY <1>2 DEF o
  <2>2. Append(o, b) \o r = o \o (<<b>> \o r)
    BY <2>1, MovesOver
  <2> QED BY <2>2 DEF o
<1> QED BY <1>1, <1>3 DEF Line

\* What the input thread passes on without inference moves across the line.
LEMMA InputForwardsKeepsLine == ASSUME Types, HandsInv, InputForwards PROVE UNCHANGED Line
<1>1. /\ inputQueue # <<>> /\ inputQueue' = Tail(inputQueue) /\ input'.batch = input.batch
      /\ processQueue' = Append(processQueue, Head(inputQueue)) /\ UNCHANGED output
      /\ input.at \in {"loop", "lock"}
  BY DEF InputForwards, InputHasLock, Types, InputType
<1>2. input.batch = NoBatch
  BY <1>1 DEF HandsInv
<1>3. /\ Head(inputQueue) \in BatchType /\ Tail(inputQueue) \in Seq(BatchType)
      /\ inputQueue = <<Head(inputQueue)>> \o Tail(inputQueue)
  BY <1>1, OneLess DEF Types
<1>4. InputSide = inputQueue
  BY <1>2, HandsFull
<1>5. InputSide' = Tail(inputQueue)
  <2>1. <<>> \o Tail(inputQueue) = Tail(inputQueue)
    BY <1>3, Together
  <2> QED BY <1>1, <1>2, <2>1 DEF InputSide, Hand
<1> QED BY <1>1, <1>3, <1>4, <1>5, InputPasses

\* So does what it has inferred.
LEMMA InputMovesKeepsLine == ASSUME Types, HandsInv, InputMoves PROVE UNCHANGED Line
<1>1. UNCHANGED <<inputQueue, output>> /\ input'.batch = NoBatch
  BY DEF InputMoves, Types, InputType
<1>2. CASE input.batch = NoBatch
  <2>1. UNCHANGED processQueue
    BY <1>2 DEF InputMoves
  <2> QED BY <1>1, <1>2, <2>1, HandsUntouched
<1>3. CASE input.batch # NoBatch
  <2>1. processQueue' = Append(processQueue, input.batch)
    BY <1>3 DEF InputMoves
  <2>2. /\ input.batch \in BatchType /\ InputSide = <<input.batch>> \o inputQueue
        /\ inputQueue \in Seq(BatchType)
    BY <1>3, HandsFull
  <2>3. InputSide' = inputQueue
    <3>1. <<>> \o inputQueue = inputQueue
      BY <2>2, Together
    <3> QED BY <1>1, <3>1 DEF InputSide, Hand
  <2> QED BY <1>1, <2>1, <2>2, <2>3, InputPasses
<1> QED BY <1>2, <1>3

\* What the input thread has in hand is given up.
LEMMA InputDrops ==
    ASSUME Types, HandsInv, input.batch # NoBatch, input'.batch = NoBatch,
           UNCHANGED <<inputQueue, processQueue, output>>
    PROVE  Thinned(Line', Line) /\ Range(Line) = {input.batch} \cup Range(Line')
<1>1. /\ input.batch \in BatchType /\ InputSide = <<input.batch>> \o inputQueue
      /\ inputQueue \in Seq(BatchType)
  BY HandsFull
<1>2. InputSide' = inputQueue /\ UNCHANGED OutputSide
  <2>1. <<>> \o inputQueue = inputQueue
    BY <1>1, Together
  <2> QED BY <2>1 DEF InputSide, OutputSide, Hand
<1>3. input.batch.kind # "marker"
  BY DEF HandsInv
<1>4. OutputSide \in Seq(BatchType)
  BY LineType
<1> DEFINE q == OutputSide
           x == input.batch
           r == inputQueue
<1> HIDE DEF q, x, r
<1>5. q \in Seq(BatchType) /\ r \in Seq(BatchType) /\ x \in BatchType /\ x.kind # "marker"
  BY <1>1, <1>3, <1>4 DEF q, x, r
<1>6. Thinned(q \o r, q \o (<<x>> \o r))
  BY <1>5, MiddleLeaves
<1>7. Range(q \o (<<x>> \o r)) = {x} \cup Range(q \o r)
  <2> DEFINE o == <<x>>
             s == o \o r
  <2>1. o \in Seq(BatchType) /\ Range(o) = {x}
    BY <1>5, OneIsSequence
  <2> HIDE DEF o
  <2>2. s \in Seq(BatchType) /\ Range(s) = {x} \cup Range(r)
    BY <1>5, <2>1, Together
  <2>3. Range(q \o r) = Range(q) \cup Range(r)
    BY <1>5, Together
  <2> HIDE DEF s
  <2>4. Range(q \o s) = Range(q) \cup Range(s)
    BY <1>5, <2>2, Together
  <2> QED BY <2>2, <2>3, <2>4 DEF s, o
<1> QED BY <1>1, <1>2, <1>6, <1>7 DEF Line, q, x, r

\* What the output loop has in hand leaves, or what it finds.
LEMMA OutputGivesAway ==
    ASSUME Types, HandsInv, output.batch # NoBatch, output'.batch = NoBatch,
           UNCHANGED <<inputQueue, processQueue, input>>
    PROVE  /\ Line # <<>> /\ Line' = Tail(Line) /\ Head(Line) = output.batch
           /\ Thinned(Line', Line) /\ Range(Line) = {output.batch} \cup Range(Line')
<1>1. /\ output.batch \in BatchType /\ OutputSide = <<output.batch>> \o processQueue
      /\ processQueue \in Seq(BatchType)
  BY HandsFull
<1>2. OutputSide' = processQueue /\ UNCHANGED InputSide
  <2>1. <<>> \o processQueue = processQueue
    BY <1>1, Together
  <2> QED BY <2>1 DEF InputSide, OutputSide, Hand
<1>3. InputSide \in Seq(BatchType) /\ Line \in Seq(BatchType)
  BY LineType
<1> DEFINE q == processQueue
           x == output.batch
           r == InputSide
<1> HIDE DEF q, x, r
<1>4. q \in Seq(BatchType) /\ r \in Seq(BatchType) /\ x \in BatchType
  BY <1>1, <1>3 DEF q, x, r
<1>5. Tail((<<x>> \o q) \o r) = q \o r /\ Head((<<x>> \o q) \o r) = x
  BY <1>4, LeavesWhole
<1>6. (<<x>> \o q) \o r # <<>>
  <2>1. <<x>> \in Seq(BatchType) /\ <<x>> # <<>>
    BY <1>4, OneIsSequence
  <2>2. <<x>> \o q \in Seq(BatchType) /\ <<x>> \o q # <<>>
    BY <1>4, <2>1, Together
  <2> QED BY <1>4, <2>2, ConcatEqualIffEmpty
<1>7. Line # <<>> /\ Line' = Tail(Line) /\ Head(Line) = output.batch
  BY <1>1, <1>2, <1>5, <1>6 DEF Line, q, x, r
<1> QED BY <1>3, <1>7, HeadLeaves, OneLess

\* The output loop drops the head of the process queue, which is the head of the line.
LEMMA OutputDropsHead ==
    ASSUME Types, HandsInv, processQueue # <<>>, output.batch = NoBatch, output'.batch = NoBatch,
           processQueue' = Tail(processQueue), UNCHANGED <<inputQueue, input>>
    PROVE  /\ Line # <<>> /\ Line' = Tail(Line) /\ Head(Line) = Head(processQueue)
           /\ Thinned(Line', Line) /\ Range(Line) = {Head(processQueue)} \cup Range(Line')
<1>1. OutputSide = processQueue /\ processQueue \in Seq(BatchType) /\ InputSide \in Seq(BatchType)
      /\ Line \in Seq(BatchType)
  BY HandsFull, LineType
<1>2. Tail(processQueue) \in Seq(BatchType)
  BY <1>1, OneLess
<1>3. OutputSide' = Tail(processQueue) /\ UNCHANGED InputSide
  <2>1. <<>> \o Tail(processQueue) = Tail(processQueue)
    BY <1>2, Together
  <2> QED BY <2>1 DEF InputSide, OutputSide, Hand
<1>4. /\ Tail(processQueue \o InputSide) = Tail(processQueue) \o InputSide
      /\ Head(processQueue \o InputSide) = Head(processQueue)
  BY <1>1, HeadOfWhole
<1>5. processQueue \o InputSide # <<>>
  BY <1>1, Together
<1>6. Line # <<>> /\ Line' = Tail(Line) /\ Head(Line) = Head(processQueue)
  BY <1>1, <1>3, <1>4, <1>5 DEF Line
<1> QED BY <1>1, <1>6, HeadLeaves, OneLess

--------------------------------------------------------------------------------
(* Types *)

\* What is a batch.
LEMMA BatchesAre ==
    /\ BatchType \subseteq Batches /\ NoBatch \in Batches /\ Marker \in BatchType
    /\ \A k \in {"infer", "attach", "push", "marker"}, n, p \in Nat : Batch(k, n, p) \in BatchType
  BY DEF Batches, BatchType, Marker, Batch

\* A sequence that grows is still a sequence of the same things.
LEMMA Longer == ASSUME NEW S, NEW q \in Seq(S), NEW b \in S PROVE Append(q, b) \in Seq(S)
  OBVIOUS

\* What is in a queue that grew, and what is last in it.
LEMMA LongerRange ==
    ASSUME NEW q \in Seq(BatchType), NEW b \in BatchType
    PROVE  /\ Range(Append(q, b)) = Range(q) \cup {b}
           /\ Append(q, b)[Len(Append(q, b))] = b
           /\ Range(q) \subseteq BatchType
<1> DEFINE r == Append(q, b)
<1>1. /\ Len(q) \in Nat /\ DOMAIN q = 1 .. Len(q) /\ DOMAIN r = 1 .. (Len(q) + 1)
      /\ Len(r) = Len(q) + 1
      /\ \A i \in DOMAIN q : r[i] = q[i]
      /\ r[Len(q) + 1] = b
  OBVIOUS
<1>2. Range(q) \subseteq BatchType
  BY SequenceFacts
<1> HIDE DEF r
<1>3. \A x \in Range(r) : x \in Range(q) \cup {b}
  BY <1>1 DEF Range
<1>4. \A x \in Range(q) \cup {b} : x \in Range(r)
  BY <1>1 DEF Range
<1>5. Range(r) = Range(q) \cup {b} /\ r[Len(r)] = b
  BY <1>1, <1>3, <1>4
<1> QED BY <1>2, <1>5 DEF r

\* The types of a configuration.
LEMMA ConfigTypes ==
    ASSUME config \in Configs
    PROVE  /\ config.mode \in Modes /\ config.out \in Nat \ {0}
           /\ config.auto \in BOOLEAN /\ config.meta \in BOOLEAN
           /\ config.shapes \subseteq Seq({"infer", "attach"}) /\ GrowBy \in Nat \ {0}
           /\ ConvPool \in Nat \ {0} /\ MaxModels \in Nat \ {0} /\ MaxErrors \in Nat
  BY InferAssumption

\* What inference takes from the pool of its context and puts in its queue.
LEMMA InferredTypes ==
    ASSUME Types, NEW c \in Contexts, NEW b \in BatchType, Inferred(c, b)
    PROVE  /\ size' \in [Contexts -> Nat] /\ free' \in [Contexts -> Nat]
           /\ queued' \in [Contexts -> Seq(BatchType)]
           /\ queued' = [queued EXCEPT ![c] = Append(@, b)]
           /\ \A d \in Contexts : d # c => size'[d] = size[d] /\ free'[d] = free[d] /\ queued'[d] = queued[d]
           /\ size'[c] - free'[c] = size[c] - free[c] + 1
           /\ queued'[c] = Append(queued[c], b)
<1>1. /\ size \in [Contexts -> Nat] /\ free \in [Contexts -> Nat]
      /\ queued \in [Contexts -> Seq(BatchType)] /\ GrowBy \in Nat \ {0}
  BY ConfigTypes DEF Types
<1>2. queued' = [queued EXCEPT ![c] = Append(@, b)]
  BY DEF Inferred
<1>3. Append(queued[c], b) \in Seq(BatchType)
  BY <1>1, OneMore
<1>4. CASE free[c] > 0 /\ free' = [free EXCEPT ![c] = @ - 1] /\ UNCHANGED size
  BY <1>1, <1>2, <1>3, <1>4
<1>5. CASE /\ free[c] = 0 /\ config.auto /\ size[c] = config.out
           /\ free' = [free EXCEPT ![c] = GrowBy - 1]
           /\ size' = [size EXCEPT ![c] = @ + GrowBy]
  BY <1>1, <1>2, <1>3, <1>5
<1> QED BY <1>4, <1>5 DEF Inferred

\* What remains of a buffer to be queued, when its next batch was.
LEMMA RestTypes ==
    ASSUME NEW q \in Seq({"infer", "attach"}), q # <<>>
    PROVE  /\ Head(q) \in {"infer", "attach"} /\ Tail(q) \in Seq({"infer", "attach"})
  BY OneLess

\* The streaming thread is at an item that arrived.
LEMMA CurrentType ==
    ASSUME Types
    PROVE  /\ Current \in Nat /\ DOMAIN items = 1 .. Current /\ (items # <<>> => Current \in Nat \ {0})
           /\ IdleStreamer \in StreamerType
<1>1. items \in Seq({"buffer", "event"}) /\ <<>> \in Seq({"infer", "attach"})
  BY DEF Types
<1>2. IdleStreamer \in StreamerType
  BY <1>1 DEF IdleStreamer, StreamerType
<1> QED BY <1>1, <1>2 DEF Current

\* A buffer that arrives keeps the types.
LEMMA SubmitBufferTypes ==
    ASSUME Types, HandsInv, NEW parts \in config.shapes, SubmitBuffer(parts)
    PROVE  Types'
<1>1. /\ items' = Append(items, "buffer") /\ next' = 0
      /\ UNCHANGED <<config, processQueue, stop, convFree, current, loader, models, free, queued,
                     size, input, output, app, held, gone, left>>
      /\ streamer' = [at |-> streamer'.at, todo |-> parts, part |-> 1, model |-> streamer'.model]
      /\ streamer'.at \in {"part", "flush"} /\ streamer'.model \in {0, next}
      /\ asleep' \in {asleep, {}} /\ inputQueue' \in {inputQueue, Append(inputQueue, Marker)}
  BY DEF SubmitBuffer, contextVars, Broadcast
<1>2. parts \in Seq({"infer", "attach"})
  BY ConfigTypes DEF Types
<1>3. streamer' \in StreamerType
  BY <1>1, <1>2 DEF StreamerType, Types
<1>4. items' \in Seq({"buffer", "event"}) /\ gone \subseteq DOMAIN items'
  BY <1>1 DEF Types
<1>5. inputQueue' \in Seq(BatchType)
  <2>1. inputQueue \in Seq(BatchType) /\ Append(inputQueue, Marker) \in Seq(BatchType)
    BY Longer, BatchesAre DEF Types
  <2> QED BY <1>1, <2>1
<1> QED BY <1>1, <1>3, <1>4, <1>5 DEF Types

\* So does an event.
LEMMA SendEventTypes == ASSUME Types, HandsInv, SendEvent PROVE Types'
<1>1. /\ items' = Append(items, "event") /\ streamer'.at \in {"part", "flush"}
      /\ streamer' = [IdleStreamer EXCEPT !.at = streamer'.at]
      /\ asleep' \in {asleep, {}} /\ inputQueue' \in {inputQueue, Append(inputQueue, Marker)}
      /\ processQueue' \in {processQueue, Append(processQueue, Marker)}
      /\ UNCHANGED <<config, stop, convFree, modelVars, contextVars, input, output, app, held,
                     gone, left>>
  BY DEF SendEvent, Enqueue, Broadcast, IdleStreamer
<1>2. streamer' \in StreamerType
  BY <1>1, CurrentType DEF StreamerType
<1>3. items' \in Seq({"buffer", "event"}) /\ gone \subseteq DOMAIN items'
  BY <1>1 DEF Types
<1>4. inputQueue' \in Seq(BatchType) /\ processQueue' \in Seq(BatchType)
  <2>1. inputQueue \in Seq(BatchType) /\ Append(inputQueue, Marker) \in Seq(BatchType)
    BY Longer, BatchesAre DEF Types
  <2>2. processQueue \in Seq(BatchType) /\ Append(processQueue, Marker) \in Seq(BatchType)
    BY Longer, BatchesAre DEF Types
  <2> QED BY <1>1, <2>1, <2>2
<1> QED BY <1>1, <1>2, <1>3, <1>4 DEF Types, modelVars, contextVars

\* The streaming thread goes to the next batch.
LEMMA NextPartTypes ==
    ASSUME Types, streamer.todo # <<>>,
           streamer' = [streamer EXCEPT !.at = "part", !.todo = Tail(@), !.part = @ + 1]
                \/ streamer' = [streamer EXCEPT !.todo = Tail(@), !.part = @ + 1]
    PROVE  /\ streamer' \in StreamerType /\ streamer'.at \in {"part", streamer.at}
           /\ streamer'.part = streamer.part + 1
           /\ Head(streamer.todo) \in {"infer", "attach"}
<1>1. /\ streamer = [at |-> streamer.at, todo |-> streamer.todo, part |-> streamer.part,
                     model |-> streamer.model]
      /\ streamer \in StreamerType
  BY DEF Types, StreamerType
<1>2. Tail(streamer.todo) \in Seq({"infer", "attach"}) /\ Head(streamer.todo) \in {"infer", "attach"}
  BY RestTypes DEF Types, StreamerType
<1>3. \E a \in {"part", streamer.at} :
         streamer' = [at |-> a, todo |-> Tail(streamer.todo), part |-> streamer.part + 1,
                      model |-> streamer.model]
  BY <1>1
<1> HIDE DEF Types
<1> QED BY <1>1, <1>2, <1>3 DEF StreamerType

\* So does every other step of the streaming thread.
LEMMA StreamerTypes ==
    ASSUME Types, HandsInv, StreamerStep
    PROVE  Types'
<1>1. CASE Acquire
  <2>1. /\ streamer' = [streamer EXCEPT !.at = "convert"] /\ convFree' = ConvBufs /\ convFree > 0
        /\ UNCHANGED <<config, inputQueue, processQueue, stop, asleep, modelVars, contextVars,
                       input, output, app, held, historyVars>>
    BY <1>1 DEF Acquire
  <2>2. streamer' \in StreamerType
    BY <2>1 DEF Types, StreamerType
  <2>3. convFree' \in Nat
    <3>1. convFree' \in {convFree, convFree - 1} /\ convFree \in Nat /\ convFree > 0
      BY <2>1 DEF Types, ConvBufs
    <3> QED BY <3>1
  <2> QED BY <2>1, <2>2, <2>3 DEF Types, modelVars, contextVars, historyVars
<1>2. CASE PushBatch
  <2>1. /\ inputQueue' = Append(inputQueue, Batch(Head(streamer.todo), Current, streamer.part))
        /\ asleep' = {} /\ streamer.at = "convert"
        /\ streamer' = [streamer EXCEPT !.at = "part", !.todo = Tail(@), !.part = @ + 1]
        /\ UNCHANGED <<config, processQueue, stop, convFree, modelVars, contextVars, input,
                       output, app, held, historyVars>>
    BY <1>2 DEF PushBatch, Broadcast
  <2>2. streamer' \in StreamerType /\ Head(streamer.todo) \in {"infer", "attach"}
    BY <2>1, NextPartTypes DEF HandsInv
  <2>3. inputQueue' \in Seq(BatchType)
    <3>1. streamer.part \in Nat
      BY DEF Types, StreamerType
    <3>2. Batch(Head(streamer.todo), Current, streamer.part) \in BatchType
      BY <2>2, <3>1, BatchesAre, CurrentType
    <3> QED BY <2>1, <3>2, Longer DEF Types
  <2> QED BY <2>1, <2>2, <2>3 DEF Types, modelVars, contextVars, historyVars
<1>3. CASE ConvertFails
  <2>1. /\ gone' = gone \cup {Current} /\ streamer' = IdleStreamer /\ streamer.at = "convert"
        /\ UNCHANGED <<config, elementVars, modelVars, contextVars, input, output, app, held,
                       items, left>>
    BY <1>3 DEF ConvertFails
  <2>2. Current \in DOMAIN items /\ streamer' \in StreamerType
    BY <2>1, CurrentType DEF HandsInv, Busy
  <2>3. gone' \subseteq DOMAIN items
    BY <2>1, <2>2 DEF Types
  <2>4. UNCHANGED <<config, inputQueue, processQueue, stop, convFree, asleep, current, next, loader,
                    models, free, queued, size, input, output, app, held, items, left>>
    BY <2>1 DEF elementVars, modelVars, contextVars
  <2> QED BY <2>2, <2>3, <2>4 DEF Types
<1>4. CASE QueueTensor
  <2>1. /\ streamer.at = "part" /\ streamer.todo # <<>>
        /\ UNCHANGED <<config, elementVars, modelVars, input, output, app, held, items, left>>
    BY <1>4 DEF QueueTensor
  <2>2. current \in Contexts /\ Current \in DOMAIN items
    <3>1. current # 0 /\ items # <<>>
      BY <2>1 DEF HandsInv, Busy
    <3>2. current \in {0} \cup Contexts
      BY DEF Types
    <3>3. Current \in Nat \ {0} /\ DOMAIN items = 1 .. Current
      BY <3>1, CurrentType
    <3> HIDE DEF Current
    <3> QED BY <3>1, <3>2, <3>3
  <2>3. CASE /\ Inferred(current, Batch("infer", Current, streamer.part))
             /\ streamer' = [streamer EXCEPT !.at = "queued"]
             /\ UNCHANGED <<errors, gone>>
    <3>1. streamer.part \in Nat /\ streamer' \in StreamerType
      BY <2>3 DEF Types, StreamerType
    <3>2. Batch("infer", Current, streamer.part) \in BatchType
      BY <3>1, BatchesAre, CurrentType
    <3>3. /\ size' \in [Contexts -> Nat] /\ free' \in [Contexts -> Nat]
          /\ queued' \in [Contexts -> Seq(BatchType)]
      BY <2>2, <2>3, <3>2, InferredTypes
    <3> QED BY <2>1, <2>3, <3>1, <3>3 DEF Types, elementVars, modelVars
  <2>4. CASE /\ OutOfMemory(current)
             /\ streamer' = [streamer EXCEPT !.todo = Tail(@), !.part = @ + 1]
             /\ UNCHANGED <<contextVars, errors, gone>>
    <3>1. streamer' \in StreamerType
      BY <2>1, <2>4, NextPartTypes
    <3> QED BY <2>1, <2>4, <3>1 DEF Types, elementVars, modelVars, contextVars
  <2>5. CASE /\ gone' = gone \cup {Current} /\ streamer' = IdleStreamer /\ UNCHANGED contextVars
    BY <2>1, <2>2, <2>5, CurrentType DEF Types, elementVars, modelVars, contextVars
  <2> QED BY <1>4, <2>3, <2>4, <2>5 DEF QueueTensor
<1>5. CASE PushTensor
  <2>1. /\ processQueue' = Append(processQueue, Batch("infer", Current, streamer.part))
        /\ asleep' = {} /\ streamer.at = "queued"
        /\ streamer' = [streamer EXCEPT !.at = "part", !.todo = Tail(@), !.part = @ + 1]
        /\ UNCHANGED <<config, inputQueue, stop, convFree, modelVars, contextVars, input,
                       output, app, held, historyVars>>
    BY <1>5 DEF PushTensor, Broadcast
  <2>2. streamer' \in StreamerType
    BY <2>1, NextPartTypes DEF HandsInv
  <2>3. processQueue' \in Seq(BatchType)
    <3>1. streamer.part \in Nat
      BY DEF Types, StreamerType
    <3>2. Batch("infer", Current, streamer.part) \in BatchType
      BY <3>1, BatchesAre, CurrentType
    <3> QED BY <2>1, <3>2, Longer DEF Types
  <2> QED BY <2>1, <2>2, <2>3 DEF Types, modelVars, contextVars, historyVars
<1>6. CASE PushBuffer
  <2>1. /\ streamer' = IdleStreamer /\ asleep' = {}
        /\ inputQueue' \in {inputQueue, Append(inputQueue, Batch("push", Current, 0))}
        /\ processQueue' \in {processQueue, Append(processQueue, Batch("push", Current, 0))}
        /\ UNCHANGED <<config, stop, convFree, modelVars, contextVars, input, output, app, held,
                       historyVars>>
    BY <1>6 DEF PushBuffer, Enqueue, Broadcast
  <2>2. Batch("push", Current, 0) \in BatchType
    BY BatchesAre, CurrentType
  <2>3. inputQueue' \in Seq(BatchType) /\ processQueue' \in Seq(BatchType)
    <3> DEFINE b == Batch("push", Current, 0)
    <3>1. b \in BatchType
      BY <2>2
    <3> HIDE DEF b
    <3>2. inputQueue \in Seq(BatchType) /\ Append(inputQueue, b) \in Seq(BatchType)
      BY <3>1, Longer DEF Types
    <3>3. processQueue \in Seq(BatchType) /\ Append(processQueue, b) \in Seq(BatchType)
      BY <3>1, Longer DEF Types
    <3> QED BY <2>1, <3>2, <3>3 DEF b
  <2> QED BY <2>1, <2>3, CurrentType DEF Types, modelVars, contextVars, historyVars
<1>7. CASE PushAtOnce
  <2>1. left' \in Seq(Nat)
    BY <1>7, CurrentType, Longer DEF PushAtOnce, Types
  <2> QED BY <1>7, <2>1, CurrentType DEF PushAtOnce, Types, elementVars, modelVars, contextVars
<1>8. CASE FlushWaits
  BY <1>8 DEF FlushWaits, Types, modelVars, contextVars, historyVars
<1>9. CASE Flushed
  <2>1. UNCHANGED <<config, elementVars, next, loader, models, contextVars, input, output, app,
                    held, items, gone>>
    BY <1>9 DEF Flushed
  <2>2. CASE left' = Append(left, Current) /\ streamer' = IdleStreamer /\ UNCHANGED current
    <3>1. left' \in Seq(Nat)
      BY <2>2, CurrentType, Longer DEF Types
    <3> QED BY <2>1, <2>2, <3>1, CurrentType DEF Types, elementVars, contextVars
  <2>3. CASE /\ current' = streamer.model
             /\ streamer' = [streamer EXCEPT !.at = "part", !.model = 0]
             /\ UNCHANGED left
    <3>1. streamer' \in StreamerType /\ current' \in {0} \cup Contexts
      BY <2>3 DEF Types, StreamerType
    <3> QED BY <2>1, <2>3, <3>1 DEF Types, elementVars, contextVars
  <2> QED BY <1>9, <2>2, <2>3 DEF Flushed
<1> QED BY <1>1, <1>2, <1>3, <1>4, <1>5, <1>6, <1>7, <1>8, <1>9 DEF StreamerStep

\* A context is in the hands of the threads that use one.
LEMMA ContextsAre ==
    ASSUME Types, ContextInv
    PROVE  /\ input.at = "queue" => input.ctx \in Contexts
           /\ output.at \in {"dequeue", "attach"} => output.ctx \in Contexts
  BY DEF ContextInv, InUse

\* So does the input thread.
LEMMA InputTypes ==
    ASSUME Types, HandsInv, ContextInv, InputStep
    PROVE  Types'
<1>1. CASE InputEnds
  <2>1. input' \in InputType
    BY <1>1 DEF InputEnds, Types, InputType
  <2> QED BY <1>1, <2>1 DEF InputEnds, Types, elementVars, modelVars, contextVars, historyVars
<1>2. CASE InputWaits
  <2>1. input' \in InputType
    BY <1>2 DEF InputWaits, Types, InputType
  <2> QED BY <1>2, <2>1 DEF InputWaits, Types, modelVars, contextVars, historyVars
<1>3. CASE InputForwards
  <2>1. input' \in InputType
    BY <1>3 DEF InputForwards, Types, InputType
  <2>2. Tail(inputQueue) \in Seq(BatchType) /\ Head(inputQueue) \in BatchType
    BY <1>3, OneLess DEF InputForwards, Types
  <2>3. Append(processQueue, Head(inputQueue)) \in Seq(BatchType)
    BY <2>2, Longer DEF Types
  <2> QED BY <1>3, <2>1, <2>2, <2>3 DEF InputForwards, Broadcast, Types, modelVars, contextVars,
        historyVars
<1>4. CASE InputTakes
  <2>1. Tail(inputQueue) \in Seq(BatchType) /\ Head(inputQueue) \in BatchType
    BY <1>4, OneLess DEF InputTakes, Types
  <2>2. input' \in InputType
    BY <1>4, <2>1, BatchesAre DEF InputTakes, Types, InputType
  <2> QED BY <1>4, <2>1, <2>2 DEF InputTakes, Types, modelVars, contextVars, historyVars
<1>5. CASE InputQueues
  <2>1. /\ input.at = "queue"
        /\ UNCHANGED <<config, inputQueue, processQueue, stop, asleep, modelVars, streamer,
                       output, app, held, historyVars>>
        /\ convFree' \in {convFree, convFree + 1}
        /\ input' \in {[input EXCEPT !.at = "relock"],
                       [input EXCEPT !.at = "relock", !.batch = NoBatch]}
        /\ Inferred(input.ctx, input.batch) \/ UNCHANGED contextVars
    BY <1>5 DEF InputQueues
  <2>2. input' \in InputType
    BY <2>1, BatchesAre DEF Types, InputType
  <2>3. input.ctx \in Contexts /\ input.batch \in BatchType
    BY <2>1, ContextsAre, LineType DEF HandsInv, Batches
  <2>4. /\ size' \in [Contexts -> Nat] /\ free' \in [Contexts -> Nat]
        /\ queued' \in [Contexts -> Seq(BatchType)]
    <3>1. CASE Inferred(input.ctx, input.batch)
      BY <2>3, <3>1, InferredTypes
    <3>2. CASE UNCHANGED contextVars
      BY <3>2 DEF Types, contextVars
    <3> QED BY <2>1, <3>1, <3>2
  <2>5. convFree' \in Nat
    BY <2>1 DEF Types
  <2> QED BY <2>1, <2>2, <2>4, <2>5 DEF Types, modelVars, historyVars
<1>6. CASE InputMoves
  <2>1. input' \in InputType
    BY <1>6, BatchesAre DEF InputMoves, Types, InputType
  <2>2. processQueue' \in Seq(BatchType) /\ asleep' \in {asleep, {}}
    <3>1. CASE input.batch = NoBatch
      BY <1>6, <3>1 DEF InputMoves, Types
    <3>2. CASE input.batch # NoBatch
      <4>1. Append(processQueue, input.batch) \in Seq(BatchType)
        BY <3>2, LineType, Longer DEF Types, Batches
      <4> QED BY <1>6, <3>2, <4>1 DEF InputMoves, Broadcast
    <3> QED BY <3>1, <3>2
  <2> QED BY <1>6, <2>1, <2>2 DEF InputMoves, Types, modelVars, contextVars, historyVars
<1> QED BY <1>1, <1>2, <1>3, <1>4, <1>5, <1>6 DEF InputStep

\* An output buffer that is given back.
LEMMA RecycledTypes ==
    ASSUME Types, NEW c \in Contexts
    PROVE  /\ Recycled(c) \in [Contexts -> Nat] /\ Recycled(c)[c] = free[c] + 1
           /\ \A d \in Contexts : d # c => Recycled(c)[d] = free[d]
<1>1. free \in [Contexts -> Nat]
  BY DEF Types
<1> QED BY <1>1 DEF Recycled

\* The output loop keeps the types.
LEMMA OutputTypes ==
    ASSUME Types, HandsInv, ContextInv, OutputStep
    PROVE  Types'
<1>1. CASE OutputEnds
  <2>1. output' \in OutputType
    BY <1>1 DEF OutputEnds, Types, OutputType
  <2> QED BY <1>1, <2>1 DEF OutputEnds, Types, elementVars, modelVars, contextVars, historyVars
<1>2. CASE OutputWaits
  <2>1. output' \in OutputType
    BY <1>2 DEF OutputWaits, Types, OutputType
  <2> QED BY <1>2, <2>1 DEF OutputWaits, Types, modelVars, contextVars, historyVars
<1>3. CASE OutputSkips
  <2>1. output' \in OutputType
    BY <1>3 DEF OutputSkips, Types, OutputType
  <2>2. Tail(processQueue) \in Seq(BatchType)
    BY <1>3, OneLess DEF OutputSkips, Types
  <2> QED BY <1>3, <2>1, <2>2 DEF OutputSkips, Taken, Broadcast, Types, modelVars, contextVars,
        historyVars
<1>4. CASE OutputTakes
  <2>1. Tail(processQueue) \in Seq(BatchType) /\ Head(processQueue) \in BatchType
    BY <1>4, OneLess DEF OutputTakes, Types
  <2>2. output' \in OutputType
    BY <1>4, <2>1, BatchesAre DEF OutputTakes, Types, OutputType
  <2> QED BY <1>4, <2>1, <2>2 DEF OutputTakes, Taken, Broadcast, Types, modelVars, contextVars,
        historyVars
<1>5. CASE OutputPushes
  <2>1. output' \in OutputType
    BY <1>5, BatchesAre DEF OutputPushes, Types, OutputType
  <2>2. Append(left, output.batch.n) \in Seq(Nat)
    <3>1. output.batch \in BatchType
      BY <1>5, LineType DEF OutputPushes, HandsInv, Batches
    <3>2. output.batch.n \in Nat
      BY <3>1 DEF BatchType
    <3> QED BY <3>2, Longer DEF Types
  <2> QED BY <1>5, <2>1, <2>2 DEF OutputPushes, Types, elementVars, modelVars, contextVars
<1>6. CASE OutputContext
  <2>1. output' \in OutputType
    BY <1>6 DEF OutputContext, Types, OutputType
  <2> QED BY <1>6, <2>1 DEF OutputContext, Types, elementVars, modelVars, contextVars, historyVars
<1>7. CASE OutputDequeues
  <2>1. /\ output.at = "dequeue" /\ queued[output.ctx] # <<>>
        /\ queued' = [queued EXCEPT ![output.ctx] = Tail(@)]
        /\ UNCHANGED <<config, elementVars, modelVars, size, streamer, input, app, held,
                       historyVars>>
        /\ free' \in {free, Recycled(output.ctx)}
        /\ output' \in {[output EXCEPT !.at = "attach", !.got = Head(queued[output.ctx])],
                        [output EXCEPT !.at = "lock", !.batch = NoBatch]}
    BY <1>7 DEF OutputDequeues
  <2>2. output.ctx \in Contexts
    BY <2>1, ContextsAre
  <2>3. queued[output.ctx] \in Seq(BatchType)
    BY <2>2 DEF Types
  <2>4. Tail(queued[output.ctx]) \in Seq(BatchType) /\ Head(queued[output.ctx]) \in BatchType
    BY <2>1, <2>3, OneLess
  <2>5. output' \in OutputType
    BY <2>1, <2>4, BatchesAre DEF Types, OutputType
  <2>6. queued' \in [Contexts -> Seq(BatchType)]
    BY <2>1, <2>2, <2>4 DEF Types
  <2>7. free' \in [Contexts -> Nat]
    <3>1. free \in [Contexts -> Nat] /\ Recycled(output.ctx) \in [Contexts -> Nat]
      BY <2>2, RecycledTypes DEF Types
    <3> QED BY <2>1, <3>1
  <2>8. UNCHANGED <<config, inputQueue, processQueue, stop, convFree, asleep, current, next, loader,
                    models, size, streamer, input, app, held, items, gone, left>>
    BY <2>1 DEF elementVars, modelVars, historyVars
  <2> QED BY <2>5, <2>6, <2>7, <2>8 DEF Types
<1>8. CASE OutputAttaches
  <2>1. /\ output.at = "attach"
        /\ output' = [output EXCEPT !.at = "loop", !.batch = NoBatch, !.got = NoBatch]
        /\ UNCHANGED <<config, elementVars, modelVars, queued, size, streamer, input, app,
                       historyVars>>
        /\ free' \in {free, Recycled(output.ctx)}
        /\ held' \in {held, held \cup {<<output.batch.n, output.batch.part, output.ctx>>}}
    BY <1>8 DEF OutputAttaches
  <2>2. output.ctx \in Contexts /\ output.batch \in BatchType
    BY <2>1, ContextsAre, LineType DEF HandsInv, Batches
  <2>3. output' \in OutputType
    BY <2>1, BatchesAre DEF Types, OutputType
  <2>4. <<output.batch.n, output.batch.part, output.ctx>> \in Nat \X Nat \X Contexts
    BY <2>2 DEF BatchType
  <2>5. held' \subseteq Nat \X Nat \X Contexts
    BY <2>1, <2>4 DEF Types
  <2>6. free' \in [Contexts -> Nat]
    <3>1. free \in [Contexts -> Nat] /\ Recycled(output.ctx) \in [Contexts -> Nat]
      BY <2>2, RecycledTypes DEF Types
    <3> QED BY <2>1, <3>1
  <2>7. UNCHANGED <<config, inputQueue, processQueue, stop, convFree, asleep, current, next, loader,
                    models, queued, size, streamer, input, app, items, gone, left>>
    BY <2>1 DEF elementVars, modelVars, historyVars
  <2> QED BY <2>3, <2>5, <2>6, <2>7 DEF Types
<1> QED BY <1>1, <1>2, <1>3, <1>4, <1>5, <1>6, <1>7, <1>8 DEF OutputStep

\* So do the threads that load models and stop the element, and downstream.
LEMMA OtherTypes ==
    ASSUME Types, HandsInv, PoolInv,
           \/ LoadModel \/ ModelLoaded
           \/ \E n \in DOMAIN items : Released(n)
           \/ Stop \/ AppStep \/ UNCHANGED vars
    PROVE  Types'
<1>1. CASE LoadModel
  BY <1>1 DEF LoadModel, Types, elementVars, contextVars, historyVars
<1>2. CASE ModelLoaded
  <2>1. models + 1 \in Contexts
    BY <1>2, ConfigTypes, SMTT(30) DEF ModelLoaded, Types, Contexts
  <2> QED BY <1>2, <2>1 DEF ModelLoaded, Types, elementVars, contextVars, historyVars
<1>3. ASSUME NEW n \in DOMAIN items, Released(n) PROVE Types'
  <2>1. \A c \in Contexts : Cardinality({h \in held : h[1] = n /\ h[3] = c}) \in Nat
    BY FS_Subset, FS_CardinalityType DEF PoolInv
  <2>2. /\ \A c \in Contexts : free[c] \in Nat
        /\ free' = [c \in Contexts |-> free[c] + Cardinality({h \in held : h[1] = n /\ h[3] = c})]
    BY <1>3 DEF Released, Types
  <2>3. free' \in [Contexts -> Nat]
    BY <2>1, <2>2
  <2> QED BY <1>3, <2>3 DEF Released, Types, elementVars, modelVars, historyVars
<1>4. CASE Stop
  BY <1>4 DEF Stop, Types, elementVars, modelVars, contextVars, historyVars
<1>5. CASE StopWaits \/ StopThreads
  BY <1>5 DEF StopWaits, StopThreads, Broadcast, Types, modelVars, contextVars, historyVars
<1>6. CASE StopContext
  BY <1>6 DEF StopContext, Types, elementVars, contextVars, historyVars
<1>7. CASE Joined \/ UNCHANGED vars
  BY <1>7 DEF Joined, vars, Types, elementVars, modelVars, contextVars, historyVars
<1> QED BY <1>1, <1>2, <1>3, <1>4, <1>5, <1>6, <1>7 DEF AppStep

\* Every step keeps the types.
LEMMA TypesKept ==
    ASSUME Types, HandsInv, ContextInv, PoolInv, [Next]_vars
    PROVE  Types'
  BY SubmitBufferTypes, SendEventTypes, StreamerTypes, InputTypes, OutputTypes, OtherTypes DEF Next

--------------------------------------------------------------------------------
(* Hands *)

\* Every step keeps what is known of the hands.
LEMMA HandsKept ==
    ASSUME Types, HandsInv, LineInv, ContextInv, [Next]_vars
    PROVE  HandsInv'
<1>1. ASSUME NEW parts \in config.shapes, SubmitBuffer(parts) PROVE HandsInv'
  <2>1. /\ items' # <<>> /\ app = "play" /\ streamer'.at \in {"part", "flush"} /\ streamer.at = "idle"
        /\ UNCHANGED <<config, stop, current, input, output, app>>
        /\ streamer'.at # "flush" => UNCHANGED inputQueue
    BY <1>1 DEF SubmitBuffer, Types
  <2> QED BY <2>1 DEF HandsInv, Busy, HasInputThread
<1>2. CASE SendEvent
  <2>1. /\ items' # <<>> /\ app = "play" /\ streamer'.at \in {"part", "flush"} /\ streamer.at = "idle"
        /\ UNCHANGED <<config, stop, current, input, output, app>>
        /\ streamer'.at # "flush" => UNCHANGED inputQueue
    <3>1. /\ items' = Append(items, "event") /\ app = "play" /\ streamer.at = "idle"
          /\ UNCHANGED <<config, stop, current, input, output, app>>
          /\ \/ streamer' = [IdleStreamer EXCEPT !.at = "part"] /\ UNCHANGED inputQueue
             \/ streamer' = [IdleStreamer EXCEPT !.at = "flush"]
      BY <1>2 DEF SendEvent, modelVars
    <3>2. items' # <<>>
      <4>1. items \in Seq({"buffer", "event"})
        BY DEF Types
      <4> QED BY <3>1, <4>1
    <3> QED BY <3>1, <3>2 DEF IdleStreamer
  <2> QED BY <2>1 DEF HandsInv, Busy, HasInputThread
<1>3. CASE StreamerStep
  <2>1. CASE Acquire
    <3>1. /\ streamer'.at = "convert" /\ streamer'.todo = streamer.todo /\ streamer.todo # <<>>
          /\ HasInputThread /\ streamer.at = "part"
          /\ UNCHANGED <<config, inputQueue, items, stop, current, input, output, app>>
      BY <2>1 DEF Acquire, Types, StreamerType, modelVars, historyVars
    <3> QED BY <3>1 DEF HandsInv, Busy, HasInputThread
  <2>2. CASE QueueTensor
    <3>1. /\ streamer'.at = "queued" => streamer'.todo = streamer.todo
          /\ streamer'.at \in {"queued", "part", "idle"}
          /\ streamer.todo # <<>> /\ ~HasInputThread /\ streamer.at = "part"
          /\ UNCHANGED <<config, inputQueue, items, stop, current, input, output, app>>
      <4>1. /\ streamer.todo # <<>> /\ ~HasInputThread /\ streamer.at = "part"
            /\ \/ streamer' = [streamer EXCEPT !.at = "queued"]
               \/ streamer' = [streamer EXCEPT !.todo = Tail(@), !.part = @ + 1]
               \/ streamer' = IdleStreamer
            /\ UNCHANGED <<config, inputQueue, items, stop, current, input, output, app>>
        BY <2>2 DEF QueueTensor, elementVars, modelVars
      <4>2. CASE streamer' = [streamer EXCEPT !.at = "queued"]
        BY <4>1, <4>2 DEF Types, StreamerType
      <4>3. CASE streamer' = [streamer EXCEPT !.todo = Tail(@), !.part = @ + 1]
        BY <4>1, <4>3, NextPartTypes
      <4>4. CASE streamer' = IdleStreamer
        BY <4>1, <4>4 DEF IdleStreamer
      <4> QED BY <4>1, <4>2, <4>3, <4>4
    <3> QED BY <3>1 DEF HandsInv, Busy, HasInputThread
  <2>3. CASE PushBatch \/ PushTensor \/ PushBuffer
    <3>1. /\ streamer'.at \in {"part", "idle"} /\ streamer.at \in {"convert", "queued", "part"}
          /\ ~HasInputThread => UNCHANGED inputQueue
          /\ UNCHANGED <<config, items, stop, current, input, output, app>>
      <4>1. CASE PushBatch \/ PushTensor
        <5>1. /\ streamer.at \in {"convert", "queued"}
              /\ streamer' = [streamer EXCEPT !.at = "part", !.todo = Tail(@), !.part = @ + 1]
              /\ streamer.at = "queued" => UNCHANGED inputQueue
              /\ UNCHANGED <<config, items, stop, current, input, output, app>>
          BY <4>1 DEF PushBatch, PushTensor, modelVars, historyVars
        <5>2. streamer'.at = "part"
          BY <5>1, NextPartTypes DEF HandsInv
        <5> QED BY <5>1, <5>2 DEF HandsInv
      <4>2. CASE PushBuffer
        BY <4>2 DEF PushBuffer, Enqueue, IdleStreamer, modelVars, historyVars
      <4> QED BY <2>3, <4>1, <4>2
    <3> QED BY <3>1 DEF HandsInv, Busy, HasInputThread
  <2>4. CASE ConvertFails \/ PushAtOnce \/ FlushWaits
    <3>1. /\ streamer'.at \in {"idle", streamer.at} /\ (streamer'.at = streamer.at => streamer' = streamer)
          /\ streamer.at # "idle" /\ (streamer.at = "flush" => streamer'.at = "flush")
          /\ UNCHANGED <<config, items, inputQueue, stop, current, input, output, app>>
      BY <2>4 DEF ConvertFails, PushAtOnce, FlushWaits, IdleStreamer, elementVars, modelVars,
         historyVars
    <3> QED BY <3>1 DEF HandsInv, Busy, HasInputThread
  <2>5. CASE Flushed
    <3>1. /\ streamer'.at \in {"part", "idle"} /\ streamer.at = "flush" /\ inputQueue = <<>>
          /\ UNCHANGED <<config, items, inputQueue, stop, input, output, app>>
          /\ current' = current \/ current' # 0
      <4>1. /\ streamer.at = "flush" /\ inputQueue = <<>>
            /\ UNCHANGED <<config, items, inputQueue, stop, input, output, app>>
            /\ \/ streamer' = IdleStreamer /\ UNCHANGED current
               \/ /\ streamer' = [streamer EXCEPT !.at = "part", !.model = 0]
                  /\ current' # 0
        BY <2>5 DEF Flushed, QueuesEmpty, elementVars
      <4>2. [streamer EXCEPT !.at = "part", !.model = 0].at = "part" /\ IdleStreamer.at = "idle"
        BY DEF Types, StreamerType, IdleStreamer
      <4> QED BY <4>1, <4>2
    <3> QED BY <3>1 DEF HandsInv, Busy, HasInputThread
  <2> QED BY <1>3, <2>1, <2>2, <2>3, <2>4, <2>5 DEF StreamerStep
<1>4. CASE InputStep
  <2>1. UNCHANGED <<config, items, stop, current, streamer, output, app>>
    BY <1>4 DEF InputStep, InputEnds, InputWaits, InputForwards, InputTakes, InputQueues,
       InputMoves, elementVars, modelVars, historyVars
  <2>2. ~HasInputThread => FALSE
    BY <1>4 DEF InputStep, InputEnds, InputWaits, InputForwards, InputTakes, InputQueues,
       InputMoves, InputHasLock, HandsInv
  <2>3. /\ input'.at = "queue" => input'.batch # NoBatch
        /\ input'.at \notin {"queue", "relock"} => input'.batch = NoBatch
        /\ input'.batch # NoBatch => input'.batch.kind = "infer"
        /\ input'.at # "none"
    <3>1. CASE InputEnds \/ InputWaits \/ InputForwards
      <4>1. input'.at \in {"ended", "lock", "loop"} /\ input'.batch = input.batch
            /\ input.at \in {"loop", "lock"}
        BY <3>1 DEF InputEnds, InputWaits, InputForwards, InputHasLock, Types, InputType
      <4> QED BY <4>1 DEF HandsInv
    <3>2. CASE InputTakes
      <4>1. Head(inputQueue) \in BatchType
        BY <3>2, OneLess DEF InputTakes, Types
      <4> QED BY <3>2, <4>1, NoBatchAssumption DEF InputTakes
    <3>3. CASE InputQueues
      <4>1. input'.at = "relock" /\ input'.batch \in {input.batch, NoBatch}
        BY <3>3 DEF InputQueues, Types, InputType
      <4> QED BY <4>1 DEF HandsInv
    <3>4. CASE InputMoves
      <4>1. input'.at = "loop" /\ input'.batch = NoBatch
        BY <3>4 DEF InputMoves, Types, InputType
      <4> QED BY <4>1 DEF HandsInv
    <3> QED BY <1>4, <3>1, <3>2, <3>3, <3>4 DEF InputStep
  <2> QED BY <2>1, <2>2, <2>3 DEF HandsInv, Busy, HasInputThread
<1>5. CASE OutputStep
  <2>1. UNCHANGED <<config, items, inputQueue, stop, current, streamer, input, app>>
    BY <1>5 DEF OutputStep, OutputEnds, OutputWaits, OutputSkips, OutputTakes, OutputPushes,
       OutputContext, OutputDequeues, OutputAttaches, elementVars, modelVars, historyVars
  <2>2. /\ output'.at = "push" => output'.batch # NoBatch /\ output'.batch.kind = "push"
        /\ output'.at \in {"infer", "dequeue", "attach", "crashed"} =>
              output'.batch # NoBatch /\ output'.batch.kind = "infer"
        /\ output'.at \notin {"push", "infer", "dequeue", "attach", "crashed"} => output'.batch = NoBatch
    <3>1. CASE OutputEnds \/ OutputWaits \/ OutputSkips
      <4>1. output'.at \in {"ended", "lock", "loop"} /\ output'.batch = output.batch
            /\ output.at \in {"loop", "lock"}
        BY <3>1 DEF OutputEnds, OutputWaits, OutputSkips, OutputHasLock, Types, OutputType
      <4> QED BY <4>1 DEF HandsInv
    <3>2. CASE OutputTakes
      <4>1. Head(processQueue) \in BatchType
        BY <3>2, OneLess DEF OutputTakes, Types
      <4>2. /\ output'.at = Head(processQueue).kind /\ output'.batch = Head(processQueue)
            /\ Head(processQueue).kind \in {"push", "infer"}
        BY <3>2 DEF OutputTakes, Types, OutputType
      <4> QED BY <4>1, <4>2, NoBatchAssumption
    <3>3. CASE OutputPushes \/ OutputAttaches
      <4>1. output'.at \in {"lock", "loop"} /\ output'.batch = NoBatch
        BY <3>3 DEF OutputPushes, OutputAttaches, Types, OutputType
      <4> QED BY <4>1
    <3>4. CASE OutputContext
      <4>1. output'.at \in {"crashed", "dequeue"} /\ output'.batch = output.batch /\ output.at = "infer"
        BY <3>4 DEF OutputContext, Types, OutputType
      <4> QED BY <4>1 DEF HandsInv
    <3>5. CASE OutputDequeues
      <4>1. /\ output.at = "dequeue"
            /\ \/ output'.at = "attach" /\ output'.batch = output.batch
               \/ output'.at = "lock" /\ output'.batch = NoBatch
        BY <3>5 DEF OutputDequeues, Types, OutputType
      <4> QED BY <4>1 DEF HandsInv
    <3> QED BY <1>5, <3>1, <3>2, <3>3, <3>4, <3>5 DEF OutputStep
  <2> QED BY <2>1, <2>2 DEF HandsInv, Busy, HasInputThread
<1>6. CASE \/ LoadModel \/ ModelLoaded \/ (\E n \in DOMAIN items : Released(n)) \/ UNCHANGED vars
  <2>1. UNCHANGED <<config, items, inputQueue, stop, current, streamer, input, output, app>>
    BY <1>6 DEF LoadModel, ModelLoaded, Released, vars, elementVars, modelVars, historyVars
  <2> QED BY <2>1 DEF HandsInv, Busy, HasInputThread
<1>7. CASE Stop \/ AppStep
  <2>1. /\ UNCHANGED <<config, items, inputQueue, streamer, input, output>>
        /\ \/ Stop /\ UNCHANGED <<stop, current>>
           \/ UNCHANGED <<app, stop, current>>
           \/ app = "drain" /\ app' = "context" /\ stop' = TRUE /\ UNCHANGED current
           \/ app = "context" /\ app' = "join" /\ UNCHANGED stop
           \/ app = "join" /\ app' = "stopped" /\ UNCHANGED <<stop, current>>
    BY <1>7 DEF Stop, AppStep, StopWaits, StopThreads, StopContext, Joined, elementVars, modelVars,
       historyVars
  <2> QED BY <2>1 DEF HandsInv, Busy, HasInputThread, Stop
<1> QED BY <1>1, <1>2, <1>3, <1>4, <1>5, <1>6, <1>7 DEF Next

--------------------------------------------------------------------------------
(* The line *)

\* Nothing joins the line; the streaming thread goes on with the same item, or becomes idle.
LEMMA LineThins ==
    ASSUME Types, Types', LineInv, Thinned(Line', Line), Current' = Current,
           Busy' => Busy /\ streamer'.part >= streamer.part,
           streamer'.at = "flush" => streamer.at = "flush"
    PROVE  LineInv'
<1>1. InOrder(Line') /\ (streamer'.at = "flush" => EndsWithMarker(Line'))
  BY DEF LineInv, Thinned
<1>2. ASSUME NEW b \in Range(Line')
      PROVE  /\ b.kind = "marker" => b.n = 0
             /\ b.kind # "marker" =>
                   /\ b.n \in 1 .. Current'
                   /\ Busy' /\ b.n = Current' => b.kind # "push" /\ b.part < streamer'.part
  <2>1. b \in Range(Line)
    BY <1>2 DEF Thinned
  <2>2. b \in BatchType
    BY <2>1, LineType, SequenceFacts
  <2>3. b.part \in Nat /\ streamer.part \in Nat /\ streamer'.part \in Nat
    BY <2>2 DEF BatchType, Types, StreamerType
  <2> QED BY <2>1, <2>3 DEF LineInv
<1> QED BY <1>1, <1>2 DEF LineInv

\* A batch of the item at hand joins the line.
LEMMA LineGrows ==
    ASSUME Types, Types', LineInv, Busy, Current' = Current, NEW b \in BatchType,
           Line' = Append(Line, b), b.n = Current, Current \in Nat \ {0},
           \/ /\ b.kind \in {"infer", "attach"} /\ b.part = streamer.part
              /\ streamer'.at = "part" /\ streamer'.part = streamer.part + 1
           \/ b.kind = "push" /\ ~Busy'
    PROVE  LineInv'
<1>1. Line \in Seq(BatchType)
  BY LineType
<1>2. Range(Line') = Range(Line) \cup {b} /\ Range(Line) \subseteq BatchType
  BY <1>1, LongerRange
<1>3. streamer.part \in Nat /\ \A c \in Range(Line) : c.part \in Nat /\ c.n \in Nat
  BY <1>2 DEF Types, StreamerType, BatchType
<1>4. \A c \in Range(Line) : Ahead(c, b)
  <2> SUFFICES ASSUME NEW c \in Range(Line), c.kind # "marker" PROVE Ahead(c, b)
    BY DEF Ahead
  <2>1. /\ c.n \in 1 .. Current
        /\ c.n = Current => c.kind # "push" /\ c.part < streamer.part
    BY DEF LineInv
  <2> QED BY <1>3, <2>1 DEF Ahead
<1>5. InOrder(Line')
  BY <1>1, <1>4, StaysInOrder DEF LineInv
<1>6. ASSUME NEW c \in Range(Line')
      PROVE  /\ c.kind = "marker" => c.n = 0
             /\ c.kind # "marker" =>
                   /\ c.n \in 1 .. Current
                   /\ Busy' /\ c.n = Current => c.kind # "push" /\ c.part < streamer'.part
  <2>1. CASE c = b
    BY <1>3, <2>1
  <2>2. CASE c \in Range(Line)
    BY <1>3, <2>2 DEF LineInv
  <2> QED BY <1>2, <1>6, <2>1, <2>2
<1>7. streamer'.at # "flush"
  BY DEF Busy
<1> QED BY <1>5, <1>6, <1>7 DEF LineInv

\* A new item arrives, with a marker if the streaming thread is to wait.
LEMMA LineBegins ==
    ASSUME Types, Types', LineInv, ~Busy, Current' = Current + 1,
           Line' = Append(Line, Marker) \/ (Line' = Line /\ streamer'.at # "flush")
    PROVE  LineInv'
<1>1. Line \in Seq(BatchType) /\ Marker \in BatchType /\ Current \in Nat
  BY LineType, BatchesAre, CurrentType
<1>2. Marker.kind = "marker" /\ Marker.n = 0
  BY DEF Marker, Batch
<1>3. /\ Range(Line') \subseteq Range(Line) \cup {Marker} /\ InOrder(Line')
      /\ streamer'.at = "flush" => EndsWithMarker(Line')
  <2>1. CASE Line' = Append(Line, Marker)
    <3>1. \A c \in Range(Line) : Ahead(c, Marker)
      BY <1>2 DEF Ahead
    <3>2. InOrder(Append(Line, Marker))
      BY <1>1, <3>1, StaysInOrder DEF LineInv
    <3>3. /\ Range(Append(Line, Marker)) = Range(Line) \cup {Marker}
          /\ Append(Line, Marker)[Len(Append(Line, Marker))] = Marker
      BY <1>1, LongerRange
    <3> QED BY <1>2, <2>1, <3>2, <3>3 DEF EndsWithMarker
  <2>2. CASE Line' = Line /\ streamer'.at # "flush"
    BY <2>2 DEF LineInv
  <2> QED BY <2>1, <2>2
<1>4. ASSUME NEW c \in Range(Line')
      PROVE  /\ c.kind = "marker" => c.n = 0
             /\ c.kind # "marker" => c.n \in 1 .. Current' /\ c.n # Current'
  <2>1. CASE c = Marker
    BY <1>2, <2>1
  <2>2. CASE c \in Range(Line)
    BY <1>1, <2>2 DEF LineInv
  <2> QED BY <1>3, <1>4, <2>1, <2>2
<1> QED BY <1>3, <1>4 DEF LineInv

\* A buffer or an event arrives: the line is as it was, or a marker joins it at the end.
LEMMA ArrivalEffect ==
    ASSUME Types, HandsInv,
           SendEvent \/ \E parts \in config.shapes : SubmitBuffer(parts)
    PROVE  /\ ~Busy /\ Busy' /\ Current' = Current + 1 /\ Current \in Nat
           /\ \E x \in {"buffer", "event"} : items' = Append(items, x)
           /\ Line' = Append(Line, Marker) \/ (Line' = Line /\ streamer'.at # "flush")
           /\ streamer'.at \in {"part", "flush"}
           /\ UNCHANGED <<config, convFree, queued, free, size, current, input, output, held, gone, left>>
           /\ {b \in Range(processQueue') : b.kind = "infer"} = {b \in Range(processQueue) : b.kind = "infer"}
           /\ {b \in Range(inputQueue') : b.kind = "infer"} = {b \in Range(inputQueue) : b.kind = "infer"}
<1> DEFINE Rest ==
        UNCHANGED <<config, convFree, queued, free, size, current, input, output, held, gone, left>>
<1>1. /\ ~Busy /\ streamer'.at \in {"part", "flush"} /\ Rest
      /\ \E x \in {"buffer", "event"} : items' = Append(items, x)
      /\ \/ UNCHANGED <<inputQueue, processQueue>> /\ streamer'.at # "flush"
         \/ inputQueue' = Append(inputQueue, Marker) /\ UNCHANGED processQueue
         \/ /\ processQueue' = Append(processQueue, Marker) /\ UNCHANGED inputQueue
            /\ ~HasInputThread
  <2>1. CASE SendEvent
    BY <2>1 DEF SendEvent, Enqueue, IdleStreamer, Busy, contextVars, modelVars
  <2>2. CASE \E parts \in config.shapes : SubmitBuffer(parts)
    BY <2>2 DEF SubmitBuffer, Busy, contextVars, modelVars
  <2> QED BY <2>1, <2>2
<1>2. Current' = Current + 1 /\ Current \in Nat
  BY <1>1, CurrentType DEF Current, Types
<1>3. /\ inputQueue \in Seq(BatchType) /\ processQueue \in Seq(BatchType) /\ Marker \in BatchType
      /\ Marker.kind # "infer"
  BY BatchesAre DEF Types, Marker, Batch
<1>4. CASE UNCHANGED <<inputQueue, processQueue>> /\ streamer'.at # "flush"
  BY <1>1, <1>2, <1>4, LineUntouched DEF Busy
<1>5. CASE inputQueue' = Append(inputQueue, Marker) /\ UNCHANGED processQueue
  <2>1. Range(inputQueue') = Range(inputQueue) \cup {Marker}
    BY <1>3, <1>5, LongerRange
  <2>2. Line' = Append(Line, Marker)
    BY <1>1, <1>3, <1>5, JoinsInput
  <2> QED BY <1>1, <1>2, <1>3, <1>5, <2>1, <2>2 DEF Busy
<1>6. CASE /\ processQueue' = Append(processQueue, Marker) /\ UNCHANGED inputQueue
           /\ ~HasInputThread
  <2>1. Range(processQueue') = Range(processQueue) \cup {Marker}
    BY <1>3, <1>6, LongerRange
  <2>2. input.batch = NoBatch /\ inputQueue = <<>>
    BY <1>1, <1>6 DEF HandsInv, Busy
  <2>3. Line' = Append(Line, Marker)
    BY <1>1, <1>3, <1>6, <2>2, JoinsOutput
  <2> QED BY <1>1, <1>2, <1>3, <1>6, <2>1, <2>3 DEF Busy
<1> QED BY <1>1, <1>4, <1>5, <1>6

\* One batch of the item at hand is pushed.
LEMMA JoinEffect ==
    ASSUME Types, HandsInv, PushBatch \/ PushTensor \/ PushBuffer
    PROVE  /\ Busy /\ Current \in Nat \ {0} /\ Current' = Current
           /\ UNCHANGED <<config, items, input, output, held, gone, left>>
           /\ \E b \in BatchType :
                 /\ Line' = Append(Line, b) /\ b.n = Current
                 /\ \/ /\ b.kind \in {"infer", "attach"} /\ b.part = streamer.part
                       /\ streamer'.at = "part" /\ streamer'.part = streamer.part + 1
                    \/ b.kind = "push" /\ ~Busy' /\ config.mode # "async"
<1>1. /\ Busy /\ UNCHANGED <<config, items, input, output, held, gone, left>>
  BY DEF PushBatch, PushTensor, PushBuffer, Busy, historyVars
<1>2. Current \in Nat \ {0} /\ Current' = Current /\ streamer.part \in Nat
  BY <1>1, CurrentType DEF HandsInv, Current, Types, StreamerType
<1>3. CASE PushBatch
  <2> DEFINE b == Batch(Head(streamer.todo), Current, streamer.part)
  <2>1. /\ inputQueue' = Append(inputQueue, b) /\ UNCHANGED processQueue /\ streamer.at = "convert"
        /\ streamer' = [streamer EXCEPT !.at = "part", !.todo = Tail(@), !.part = @ + 1]
    BY <1>3 DEF PushBatch
  <2>2. /\ streamer'.part = streamer.part + 1 /\ streamer'.at = "part"
        /\ Head(streamer.todo) \in {"infer", "attach"}
    <3>1. [streamer EXCEPT !.at = "part", !.todo = Tail(@), !.part = @ + 1].at = "part"
      BY DEF Types, StreamerType
    <3> QED BY <2>1, <3>1, NextPartTypes DEF HandsInv
  <2>3. b \in BatchType
    BY <1>2, <2>2, BatchesAre
  <2>4. b.kind = Head(streamer.todo) /\ b.n = Current /\ b.part = streamer.part
    BY DEF Batch
  <2> HIDE DEF b
  <2>5. Line' = Append(Line, b)
    BY <1>1, <2>1, <2>3, JoinsInput
  <2> QED BY <1>1, <1>2, <2>2, <2>3, <2>4, <2>5
<1>4. CASE PushTensor
  <2> DEFINE b == Batch("infer", Current, streamer.part)
  <2>1. /\ processQueue' = Append(processQueue, b) /\ UNCHANGED inputQueue /\ streamer.at = "queued"
        /\ streamer' = [streamer EXCEPT !.at = "part", !.todo = Tail(@), !.part = @ + 1]
    BY <1>4 DEF PushTensor
  <2>2. streamer'.part = streamer.part + 1 /\ streamer'.at = "part"
    <3>1. [streamer EXCEPT !.at = "part", !.todo = Tail(@), !.part = @ + 1].at = "part"
      BY DEF Types, StreamerType
    <3> QED BY <2>1, <3>1, NextPartTypes DEF HandsInv
  <2>3. b \in BatchType
    BY <1>2, BatchesAre
  <2>4. b.kind = "infer" /\ b.n = Current /\ b.part = streamer.part
    BY DEF Batch
  <2> HIDE DEF b
  <2>5. input.batch = NoBatch /\ inputQueue = <<>>
    BY <2>1 DEF HandsInv
  <2>6. Line' = Append(Line, b)
    BY <1>1, <2>1, <2>3, <2>5, JoinsOutput
  <2> QED BY <1>1, <1>2, <2>2, <2>3, <2>4, <2>6
<1>5. CASE PushBuffer
  <2> DEFINE b == Batch("push", Current, 0)
  <2>1. /\ streamer.at = "part" /\ streamer' = IdleStreamer /\ config.mode # "async"
        /\ \/ HasInputThread /\ inputQueue' = Append(inputQueue, b) /\ UNCHANGED processQueue
           \/ ~HasInputThread /\ processQueue' = Append(processQueue, b) /\ UNCHANGED inputQueue
    BY <1>5 DEF PushBuffer, Enqueue
  <2>2. ~Busy'
    BY <2>1 DEF Busy, IdleStreamer
  <2>3. b \in BatchType
    BY <1>2, BatchesAre
  <2>4. b.kind = "push" /\ b.n = Current
    BY DEF Batch
  <2> HIDE DEF b
  <2>5. ~HasInputThread => input.batch = NoBatch /\ inputQueue = <<>>
    BY <2>1 DEF HandsInv
  <2>6. Line' = Append(Line, b)
    BY <1>1, <2>1, <2>3, <2>5, JoinsInput, JoinsOutput
  <2> QED BY <1>1, <1>2, <2>1, <2>2, <2>3, <2>4, <2>6
<1> QED BY <1>3, <1>4, <1>5

\* The other steps of the streaming thread leave the line as it is.
LEMMA StreamerEffect ==
    ASSUME Types, HandsInv, StreamerStep, ~(PushBatch \/ PushTensor \/ PushBuffer)
    PROVE  /\ UNCHANGED <<config, inputQueue, processQueue, input, output, items, held, Line>>
           /\ Current' = Current /\ Current \in Nat \ {0} /\ Busy
           /\ Busy' => streamer'.part >= streamer.part
           /\ streamer'.at = "flush" => streamer.at = "flush"
           /\ streamer.at = "flush" /\ streamer'.at # "flush" => Flushed
           /\ \/ UNCHANGED <<gone, left>> /\ Busy'
              \/ gone' = gone \cup {Current} /\ UNCHANGED left /\ ~Busy'
              \/ /\ left' = Append(left, Current) /\ UNCHANGED gone /\ ~Busy'
                 /\ config.mode = "async" \/ Flushed
<1>1. UNCHANGED <<config, inputQueue, processQueue, input, output, items, held>> /\ Busy
  BY DEF StreamerStep, Acquire, ConvertFails, QueueTensor, PushAtOnce, FlushWaits, Flushed,
     elementVars, historyVars, Busy
<1>2. Line' = Line /\ Current' = Current
  BY <1>1, LineUntouched DEF Current
<1>3. Current \in Nat \ {0} /\ streamer.part \in Nat
  BY <1>1, CurrentType DEF HandsInv, Types, StreamerType
<1>4. ~Busy' <=> streamer'.at = "idle"
  BY DEF Busy
<1>5. CASE Acquire \/ FlushWaits
  <2>1. /\ streamer'.part = streamer.part /\ streamer'.at # "idle" /\ UNCHANGED <<gone, left>>
        /\ streamer'.at = "flush" <=> streamer.at = "flush"
    BY <1>5 DEF Acquire, FlushWaits, historyVars, Types, StreamerType
  <2> QED BY <1>1, <1>2, <1>3, <1>4, <2>1
<1>6. CASE ConvertFails
  <2>1. /\ streamer.at # "flush" /\ streamer'.at = "idle"
        /\ gone' = gone \cup {Current} /\ UNCHANGED left
    BY <1>6 DEF ConvertFails, IdleStreamer
  <2> QED BY <1>1, <1>2, <1>3, <1>4, <2>1
<1>7. CASE QueueTensor
  <2>1. /\ streamer.at = "part" /\ streamer.todo # <<>> /\ UNCHANGED left
        /\ \/ streamer' = [streamer EXCEPT !.at = "queued"] /\ UNCHANGED gone
           \/ streamer' = [streamer EXCEPT !.todo = Tail(@), !.part = @ + 1] /\ UNCHANGED gone
           \/ streamer' = IdleStreamer /\ gone' = gone \cup {Current}
    BY <1>7 DEF QueueTensor
  <2>2. CASE streamer' = [streamer EXCEPT !.at = "queued"] /\ UNCHANGED gone
    <3>1. streamer'.at = "queued" /\ streamer'.part = streamer.part
      BY <2>2 DEF Types, StreamerType
    <3> QED BY <1>1, <1>2, <1>3, <1>4, <2>1, <2>2, <3>1
  <2>3. CASE streamer' = [streamer EXCEPT !.todo = Tail(@), !.part = @ + 1] /\ UNCHANGED gone
    <3>1. streamer'.at = "part" /\ streamer'.part = streamer.part + 1
      BY <2>1, <2>3, NextPartTypes
    <3> QED BY <1>1, <1>2, <1>3, <1>4, <2>1, <2>3, <3>1
  <2>4. CASE streamer' = IdleStreamer /\ gone' = gone \cup {Current}
    BY <1>1, <1>2, <1>3, <1>4, <2>1, <2>4 DEF IdleStreamer
  <2> QED BY <2>1, <2>2, <2>3, <2>4
<1>8. CASE PushAtOnce
  <2>1. /\ streamer.at # "flush" /\ streamer'.at = "idle" /\ config.mode = "async"
        /\ left' = Append(left, Current) /\ UNCHANGED gone
    BY <1>8 DEF PushAtOnce, IdleStreamer
  <2> QED BY <1>1, <1>2, <1>3, <1>4, <2>1
<1>9. CASE Flushed
  <2>1. /\ streamer.at = "flush" /\ UNCHANGED gone
        /\ \/ left' = Append(left, Current) /\ streamer' = IdleStreamer
           \/ UNCHANGED left /\ streamer' = [streamer EXCEPT !.at = "part", !.model = 0]
    BY <1>9 DEF Flushed
  <2>2. CASE left' = Append(left, Current) /\ streamer' = IdleStreamer
    BY <1>1, <1>2, <1>3, <1>4, <1>9, <2>1, <2>2 DEF IdleStreamer
  <2>3. CASE UNCHANGED left /\ streamer' = [streamer EXCEPT !.at = "part", !.model = 0]
    <3>1. streamer'.at = "part" /\ streamer'.part = streamer.part
      BY <2>3 DEF Types, StreamerType
    <3> QED BY <1>1, <1>2, <1>3, <1>4, <1>9, <2>1, <2>3, <3>1
  <2> QED BY <2>1, <2>2, <2>3
<1> QED BY <1>5, <1>6, <1>7, <1>8, <1>9 DEF StreamerStep

\* Whatever else leaves the line, the push batches stay.
LEMMA SamePushes ==
    ASSUME NEW q, NEW r, NEW x, x.kind # "push", Range(r) = {x} \cup Range(q)
    PROVE  Pushes(q) = Pushes(r)
  BY DEF Pushes

\* What a step of the input thread means to the line: at most, a batch that failed leaves it.
LEMMA InputEffect ==
    ASSUME Types, HandsInv, InputStep
    PROVE  /\ UNCHANGED <<config, current, items, streamer, output, left, gone, held>>
           /\ Thinned(Line', Line) /\ Pushes(Line') = Pushes(Line)
<1>1. UNCHANGED <<config, current, items, streamer, output, left, gone, held>>
  BY DEF InputStep, InputEnds, InputWaits, InputForwards, InputTakes, InputQueues, InputMoves,
     modelVars, historyVars
<1>2. CASE InputEnds \/ InputWaits
  <2>1. UNCHANGED <<inputQueue, processQueue, output>> /\ input'.batch = input.batch
    BY <1>2 DEF InputEnds, InputWaits, elementVars, Types, InputType
  <2> QED BY <1>1, <2>1, HandsUntouched, NothingLeaves
<1>3. CASE InputForwards
  BY <1>1, <1>3, InputForwardsKeepsLine, NothingLeaves
<1>4. CASE InputTakes
  <2>1. /\ inputQueue # <<>> /\ inputQueue' = Tail(inputQueue) /\ input'.batch = Head(inputQueue)
        /\ UNCHANGED <<processQueue, output>> /\ input.at \in {"loop", "lock"}
    BY <1>4 DEF InputTakes, InputHasLock
  <2>2. input.batch = NoBatch
    BY <2>1 DEF HandsInv
  <2> QED BY <1>1, <2>1, <2>2, InputTakesHead, NothingLeaves
<1>5. CASE InputQueues
  <2>1. /\ input.at = "queue" /\ UNCHANGED <<inputQueue, processQueue, output>>
        /\ input'.batch \in {input.batch, NoBatch}
    BY <1>5 DEF InputQueues, Types, InputType
  <2>2. CASE input'.batch = input.batch
    BY <1>1, <2>1, <2>2, HandsUntouched, NothingLeaves
  <2>3. CASE input'.batch = NoBatch
    <3>1. input.batch # NoBatch /\ input.batch.kind = "infer"
      BY <2>1 DEF HandsInv
    <3>2. Thinned(Line', Line) /\ Range(Line) = {input.batch} \cup Range(Line')
      BY <2>1, <2>3, <3>1, InputDrops
    <3> QED BY <1>1, <3>1, <3>2, SamePushes
  <2> QED BY <2>1, <2>2, <2>3
<1>6. CASE InputMoves
  BY <1>1, <1>6, InputMovesKeepsLine, NothingLeaves
<1> QED BY <1>2, <1>3, <1>4, <1>5, <1>6 DEF InputStep

\* What a step of the output loop means to it, but for a push.
LEMMA OutputEffect ==
    ASSUME Types, HandsInv, OutputStep
    PROVE  /\ UNCHANGED <<config, current, items, streamer, input, gone>>
           /\ Thinned(Line', Line)
           /\ ~OutputPushes => Pushes(Line') = Pushes(Line) /\ UNCHANGED left
<1>1. /\ UNCHANGED <<config, current, items, streamer, input, gone>>
      /\ ~OutputPushes => UNCHANGED left
  BY DEF OutputStep, OutputEnds, OutputWaits, OutputSkips, OutputTakes, OutputPushes,
     OutputContext, OutputDequeues, OutputAttaches, modelVars, historyVars
<1>2. CASE OutputEnds \/ OutputWaits \/ OutputContext
  <2>1. UNCHANGED <<inputQueue, processQueue, input>> /\ output'.batch = output.batch
    BY <1>2 DEF OutputEnds, OutputWaits, OutputContext, elementVars, Types, OutputType
  <2> QED BY <1>1, <2>1, HandsUntouched, NothingLeaves
<1>3. CASE OutputSkips
  <2>1. /\ processQueue # <<>> /\ processQueue' = Tail(processQueue)
        /\ Head(processQueue).kind # "push" /\ UNCHANGED <<inputQueue, input>>
        /\ output.at \in {"loop", "lock"} /\ output'.batch = output.batch
    BY <1>3 DEF OutputSkips, OutputHasLock, Taken, Types, OutputType
  <2>2. output.batch = NoBatch
    BY <2>1 DEF HandsInv
  <2>3. Thinned(Line', Line) /\ Range(Line) = {Head(processQueue)} \cup Range(Line')
    BY <2>1, <2>2, OutputDropsHead
  <2> QED BY <1>1, <2>1, <2>3, SamePushes
<1>4. CASE OutputTakes
  <2>1. /\ processQueue # <<>> /\ processQueue' = Tail(processQueue)
        /\ UNCHANGED <<inputQueue, input>>
        /\ output.at \in {"loop", "lock"} /\ output'.batch = Head(processQueue)
    BY <1>4 DEF OutputTakes, OutputHasLock, Taken, Types, OutputType
  <2>2. output.batch = NoBatch
    BY <2>1 DEF HandsInv
  <2> QED BY <1>1, <2>1, <2>2, OutputTakesHead, NothingLeaves
<1>5. CASE OutputPushes \/ OutputDequeues \/ OutputAttaches
  <2>1. /\ output.at \in {"push", "dequeue", "attach"}
        /\ UNCHANGED <<inputQueue, processQueue, input>>
        /\ output'.batch = NoBatch \/ (output'.batch = output.batch /\ ~OutputPushes)
    BY <1>5 DEF OutputPushes, OutputDequeues, OutputAttaches, elementVars, Types, OutputType
  <2>2. output.batch # NoBatch /\ (~OutputPushes => output.batch.kind # "push")
    BY <1>5, <2>1 DEF HandsInv, OutputDequeues, OutputAttaches
  <2>3. CASE output'.batch = NoBatch
    <3>1. Thinned(Line', Line) /\ Range(Line) = {output.batch} \cup Range(Line')
      BY <2>1, <2>2, <2>3, OutputGivesAway
    <3> QED BY <1>1, <2>2, <3>1, SamePushes
  <2>4. CASE output'.batch = output.batch /\ ~OutputPushes
    BY <1>1, <2>1, <2>4, HandsUntouched, NothingLeaves
  <2> QED BY <2>1, <2>3, <2>4
<1> QED BY <1>2, <1>3, <1>4, <1>5 DEF OutputStep

\* The other threads do not touch the line.
LEMMA OtherEffect ==
    ASSUME \/ LoadModel \/ ModelLoaded
           \/ \E n \in DOMAIN items : Released(n)
           \/ Stop \/ AppStep \/ UNCHANGED vars
    PROVE  /\ UNCHANGED <<config, inputQueue, processQueue, input, output, streamer, items, gone,
                          left, Line>>
           /\ held' \subseteq held
<1>1. /\ UNCHANGED <<config, inputQueue, processQueue, input, output, streamer, items, gone, left>>
      /\ held' \subseteq held
  BY DEF LoadModel, ModelLoaded, Released, Stop, AppStep, StopWaits, StopThreads, StopContext,
     Joined, vars, elementVars, historyVars
<1> QED BY <1>1, LineUntouched

\* Every step keeps the line in order.
LEMMA LineKept ==
    ASSUME Types, Types', HandsInv, LineInv, [Next]_vars
    PROVE  LineInv'
<1>1. CASE SendEvent \/ \E parts \in config.shapes : SubmitBuffer(parts)
  BY <1>1, ArrivalEffect, LineBegins
<1>2. CASE PushBatch \/ PushTensor \/ PushBuffer
  <2>1. PICK b \in BatchType :
          /\ Line' = Append(Line, b) /\ b.n = Current
          /\ \/ /\ b.kind \in {"infer", "attach"} /\ b.part = streamer.part
                /\ streamer'.at = "part" /\ streamer'.part = streamer.part + 1
             \/ b.kind = "push" /\ ~Busy'
    BY <1>2, JoinEffect
  <2>2. Busy /\ Current' = Current /\ Current \in Nat \ {0}
    BY <1>2, JoinEffect
  <2> QED BY <2>1, <2>2, LineGrows
<1>3. CASE StreamerStep /\ ~(PushBatch \/ PushTensor \/ PushBuffer)
  BY <1>3, StreamerEffect, NothingLeaves, LineThins
<1>4. CASE InputStep \/ OutputStep
  <2>1. UNCHANGED <<items, streamer>> /\ Thinned(Line', Line) /\ streamer.part \in Nat
    BY <1>4, InputEffect, OutputEffect DEF Types, StreamerType
  <2> QED BY <2>1, LineThins DEF Busy, Current
<1>5. CASE \/ LoadModel \/ ModelLoaded
           \/ \E n \in DOMAIN items : Released(n)
           \/ Stop \/ AppStep \/ UNCHANGED vars
  <2>1. UNCHANGED <<items, streamer, Line>> /\ streamer.part \in Nat
    BY <1>5, OtherEffect DEF Types, StreamerType
  <2> QED BY <2>1, NothingLeaves, LineThins DEF Busy, Current
<1> QED BY <1>1, <1>2, <1>3, <1>4, <1>5 DEF Next, StreamerStep

--------------------------------------------------------------------------------
(* What left *)

\* When the streaming thread finds both queues empty after its marker, nothing is on its way.
LEMMA FlushedLine ==
    ASSUME Types, HandsInv, LineInv, Flushed
    PROVE  Line = <<>> /\ input.batch = NoBatch /\ output.batch = NoBatch
<1>1. /\ streamer.at = "flush" /\ inputQueue = <<>> /\ processQueue = <<>>
  BY DEF Flushed, QueuesEmpty
<1>2. Line \in Seq(BatchType) /\ Range(Line) = {input.batch, output.batch} \ {NoBatch}
  BY <1>1, LineType, EmptyIsShort
<1>3. \A b \in Range(Line) : b.kind # "marker"
  BY <1>2 DEF HandsInv, Types, OutputType
<1>4. Line = <<>>
  <2> SUFFICES ASSUME Line # <<>> PROVE FALSE
    OBVIOUS
  <2>1. Line[Len(Line)].kind = "marker"
    BY <1>1 DEF LineInv, EndsWithMarker
  <2>2. Len(Line) \in DOMAIN Line
    BY <1>2
  <2>3. Line[Len(Line)] \in Range(Line)
    BY <1>2, <2>2, SequenceFacts
  <2> QED BY <1>3, <2>1, <2>3
<1> QED BY <1>2, <1>4, EmptyIsShort

\* What leaves and has not left before leaves once.
LEMMA LeftOnce ==
    ASSUME NEW q \in Seq(Nat), NEW x \in Nat, \A i, j \in DOMAIN q : q[i] = q[j] => i = j,
           x \notin Range(q)
    PROVE  /\ \A i, j \in DOMAIN Append(q, x) : Append(q, x)[i] = Append(q, x)[j] => i = j
           /\ Range(Append(q, x)) = Range(q) \cup {x}
<1> DEFINE r == Append(q, x)
<1>1. /\ Len(q) \in Nat /\ DOMAIN q = 1 .. Len(q) /\ DOMAIN r = 1 .. (Len(q) + 1)
      /\ \A i \in DOMAIN q : r[i] = q[i]
      /\ r[Len(q) + 1] = x
  OBVIOUS
<1> HIDE DEF r
<1>2. \A i \in DOMAIN q : q[i] # x
  BY DEF Range
<1>3. \A i \in DOMAIN r : i \in DOMAIN q \/ i = Len(q) + 1
  BY <1>1
<1>4. \A i, j \in DOMAIN r : r[i] = r[j] => i = j
  BY <1>1, <1>2, <1>3
<1>5. \A y \in Range(r) : y \in Range(q) \cup {x}
  BY <1>1, <1>3 DEF Range
<1>6. \A y \in Range(q) \cup {x} : y \in Range(r)
  BY <1>1 DEF Range
<1>7. Range(r) = Range(q) \cup {x}
  BY <1>5, <1>6
<1> QED BY <1>4, <1>7 DEF r

\* The numbers of what left and of what was refused.
LEMMA LeaveTypes ==
    ASSUME Types
    PROVE  /\ Current \in Nat /\ gone \subseteq 1 .. Current /\ left \in Seq(Nat)
           /\ Pushes(Line) \subseteq Range(Line) /\ Range(Line) \subseteq BatchType
           /\ \A b \in Range(Line) : b.n \in Nat /\ b.part \in Nat
<1>1. Range(Line) \subseteq BatchType
  BY LineType, SequenceFacts
<1>2. Current \in Nat /\ gone \subseteq 1 .. Current /\ left \in Seq(Nat)
  BY CurrentType DEF Types
<1> QED BY <1>1, <1>2 DEF Pushes, BatchType

\* Nothing leaves, no push batch moves.
LEMMA LeaveUntouched ==
    ASSUME Types, LeaveInv, Pushes(Line') = Pushes(Line), Range(Line') \subseteq Range(Line),
           UNCHANGED <<config, left, gone>>, Current' = Current, Busy' <=> Busy
    PROVE  LeaveInv'
<1>1. \A n : Waiting(n)' <=> Waiting(n)
  BY DEF Waiting
<1> QED BY <1>1 DEF LeaveInv

\* An item that arrives is the one the streaming thread is busy with.
LEMMA LeaveArrives ==
    ASSUME Types, LeaveInv, Pushes(Line') = Pushes(Line), Range(Line') \subseteq Range(Line) \cup {Marker},
           UNCHANGED <<config, left, gone>>, Current' = Current + 1, ~Busy, Busy'
    PROVE  LeaveInv'
<1>1. \A n : Waiting(n)' <=> Waiting(n)
  BY DEF Waiting
<1>2. Marker.kind = "marker"
  BY DEF Marker, Batch
<1>3. Current \in Nat /\ gone \subseteq 1 .. Current
  BY LeaveTypes
<1>4. /\ \A i, j \in DOMAIN left' : left'[i] = left'[j] => i = j
      /\ Range(left') \cap gone' = {} /\ Range(left') \subseteq 1 .. Current'
  BY <1>3 DEF LeaveInv
<1>5. \A n \in 1 .. Current' : n \in Range(left') \cup gone' \/ Waiting(n)' \/ (Busy' /\ n = Current')
  BY <1>1, <1>3 DEF LeaveInv
<1>6. \A n \in Range(left') \cup gone' : ~Waiting(n)' /\ ~(Busy' /\ n = Current')
  BY <1>1, <1>3 DEF LeaveInv
<1>7. config'.mode # "async" =>
          \A n \in Range(left') : \A b \in Range(Line') : b.kind # "marker" => n < b.n
  BY <1>2 DEF LeaveInv
<1> QED BY <1>4, <1>5, <1>6, <1>7 DEF LeaveInv

\* A batch of the item at hand joins the line; with its push_buffer batch the item waits.
LEMMA LeaveJoins ==
    ASSUME Types, LeaveInv, LineInv, Busy, Current \in Nat \ {0}, Current' = Current,
           UNCHANGED <<config, left, gone>>,
           NEW b \in BatchType, Line' = Append(Line, b), b.n = Current,
           \/ b.kind \in {"infer", "attach"} /\ Busy'
           \/ b.kind = "push" /\ ~Busy' /\ config.mode # "async"
    PROVE  LeaveInv'
<1>1. Range(Line') = Range(Line) \cup {b}
  BY LineType, LongerRange
<1>2. /\ b.kind # "push" => Pushes(Line') = Pushes(Line)
      /\ b.kind = "push" => Pushes(Line') = Pushes(Line) \cup {b}
  BY <1>1 DEF Pushes
<1>3. \A n : Waiting(n)' <=> (Waiting(n) \/ (b.kind = "push" /\ n = Current))
  BY <1>2 DEF Waiting
<1>4. \A n \in Range(left) \cup gone : n # Current /\ n \in 1 .. Current
  BY LeaveTypes DEF LeaveInv
<1>5. \A n \in 1 .. Current' : n \in Range(left') \cup gone' \/ Waiting(n)' \/ (Busy' /\ n = Current')
  BY <1>3 DEF LeaveInv
<1>6. \A n \in Range(left') \cup gone' : ~Waiting(n)' /\ ~(Busy' /\ n = Current')
  BY <1>3, <1>4 DEF LeaveInv
<1>7. config'.mode # "async" =>
          \A n \in Range(left') : \A c \in Range(Line') : c.kind # "marker" => n < c.n
  BY <1>1, <1>4 DEF LeaveInv
<1>8. config'.mode = "async" => Pushes(Line') = {}
  BY <1>2 DEF LeaveInv
<1> QED BY <1>5, <1>6, <1>7, <1>8 DEF LeaveInv

\* The streaming thread is done with the item at hand: it is refused, or leaves.
LEMMA LeaveEnds ==
    ASSUME Types, LeaveInv, LineInv, Busy, ~Busy', Current \in Nat \ {0}, Current' = Current,
           UNCHANGED <<config, Line>>,
           \/ gone' = gone \cup {Current} /\ UNCHANGED left
           \/ left' = Append(left, Current) /\ UNCHANGED gone /\ (config.mode = "async" \/ Line = <<>>)
    PROVE  LeaveInv'
<1>1. \A n : Waiting(n)' <=> Waiting(n)
  BY DEF Waiting
<1>2. Current \notin Range(left) \cup gone /\ ~Waiting(Current)
  BY DEF LeaveInv, LineInv, Waiting, Pushes
<1>3. /\ Range(left') \cup gone' = Range(left) \cup gone \cup {Current}
      /\ \A i, j \in DOMAIN left' : left'[i] = left'[j] => i = j
      /\ Range(left') \cap gone' = {} /\ Range(left') \subseteq 1 .. Current
  <2>1. CASE gone' = gone \cup {Current} /\ UNCHANGED left
    BY <1>2, <2>1 DEF LeaveInv
  <2>2. CASE left' = Append(left, Current) /\ UNCHANGED gone
    <3>1. /\ \A i, j \in DOMAIN left' : left'[i] = left'[j] => i = j
          /\ Range(left') = Range(left) \cup {Current}
      BY <1>2, <2>2, LeaveTypes, LeftOnce DEF LeaveInv
    <3> QED BY <1>2, <2>2, <3>1 DEF LeaveInv
  <2> QED BY <2>1, <2>2
<1>4. \A n \in 1 .. Current' : n \in Range(left') \cup gone' \/ Waiting(n)' \/ (Busy' /\ n = Current')
  BY <1>1, <1>3 DEF LeaveInv
<1>5. \A n \in Range(left') \cup gone' : ~Waiting(n)' /\ ~(Busy' /\ n = Current')
  BY <1>1, <1>2, <1>3 DEF LeaveInv
<1>6. config'.mode # "async" =>
          \A n \in Range(left') : \A c \in Range(Line') : c.kind # "marker" => n < c.n
  <2>1. CASE gone' = gone \cup {Current} /\ UNCHANGED left
    BY <2>1 DEF LeaveInv
  <2>2. CASE config.mode = "async"
    BY <2>2
  <2>3. CASE Line = <<>>
    BY <2>3, EmptyIsShort
  <2> QED BY <2>1, <2>2, <2>3
<1>7. config'.mode = "async" => Pushes(Line') = {}
  BY DEF LeaveInv
<1> QED BY <1>3, <1>4, <1>5, <1>6, <1>7 DEF LeaveInv

\* The output loop pushes what it has in hand: the head of the line.
LEMMA PushesHead ==
    ASSUME Types, HandsInv, LineInv, OutputPushes
    PROVE  /\ output.batch \in Range(Line) /\ output.batch.kind = "push" /\ output.batch \in BatchType
           /\ Range(Line) = {output.batch} \cup Range(Line')
           /\ \A b \in Range(Line') : b.kind # "marker" => output.batch.n < b.n
           /\ left' = Append(left, output.batch.n)
<1>1. /\ output.at = "push" /\ UNCHANGED <<inputQueue, processQueue, input>>
      /\ output'.batch = NoBatch /\ left' = Append(left, output.batch.n)
  BY DEF OutputPushes, elementVars, Types, OutputType
<1>2. output.batch # NoBatch /\ output.batch.kind = "push"
  BY <1>1 DEF HandsInv
<1>3. /\ Line # <<>> /\ Line' = Tail(Line) /\ Head(Line) = output.batch
      /\ Range(Line) = {output.batch} \cup Range(Line')
  BY <1>1, <1>2, OutputGivesAway
<1>4. \A b \in Range(Line') : Ahead(output.batch, b)
  BY <1>3, LineType, HeadFirst DEF LineInv
<1>5. output.batch \in BatchType
  BY <1>2, LineType DEF Batches
<1> QED BY <1>1, <1>2, <1>3, <1>4, <1>5 DEF Ahead

\* The push batch at the head of the line leaves with its buffer.
LEMMA LeavePushes ==
    ASSUME Types, HandsInv, LineInv, LeaveInv, OutputPushes
    PROVE  LeaveInv'
<1> SUFFICES ASSUME NEW b, b = output.batch, NEW n, n = b.n
             PROVE  LeaveInv'
  OBVIOUS
<1>1. /\ b \in Range(Line) /\ b.kind = "push" /\ Range(Line) = {b} \cup Range(Line')
      /\ \A c \in Range(Line') : c.kind # "marker" => n < c.n
      /\ left' = Append(left, n) /\ n \in Nat
  BY PushesHead DEF BatchType
<1>2. UNCHANGED <<config, gone, items, streamer>>
  BY DEF OutputPushes
<1>3. Current' = Current /\ (Busy' <=> Busy)
  BY <1>2 DEF Current, Busy
<1>4. \A m : Waiting(m) <=> (Waiting(m)' \/ m = n)
  BY <1>1 DEF Waiting, Pushes
<1>5. ~Waiting(n)' /\ n \in 1 .. Current /\ ~(Busy /\ n = Current)
  <2>2. n \in 1 .. Current /\ ~(Busy /\ n = Current)
    BY <1>1 DEF LineInv
  <2>3. \A c \in Range(Line') : c.kind = "push" => c.n # n
    BY <1>1
  <2>4. ~Waiting(n)'
    BY <2>3 DEF Waiting, Pushes
  <2> QED BY <2>2, <2>4
<1>6. n \notin Range(left) \cup gone
  BY <1>4 DEF LeaveInv
<1>7. /\ \A i, j \in DOMAIN left' : left'[i] = left'[j] => i = j
      /\ Range(left') = Range(left) \cup {n}
  BY <1>1, <1>6, LeaveTypes, LeftOnce DEF LeaveInv
<1>8. Range(left') \cap gone' = {} /\ Range(left') \subseteq 1 .. Current'
  BY <1>2, <1>3, <1>5, <1>6, <1>7 DEF LeaveInv
<1>9. \A m \in 1 .. Current' : m \in Range(left') \cup gone' \/ Waiting(m)' \/ (Busy' /\ m = Current')
  BY <1>2, <1>3, <1>4, <1>7 DEF LeaveInv
<1>10. \A m \in Range(left') \cup gone' : ~Waiting(m)' /\ ~(Busy' /\ m = Current')
  <2>1. \A m \in Range(left) \cup gone : ~Waiting(m)' /\ ~(Busy' /\ m = Current')
    BY <1>3, <1>4 DEF LeaveInv
  <2>2. ~(Busy' /\ n = Current')
    BY <1>3, <1>5
  <2> QED BY <1>2, <1>5, <1>7, <2>1, <2>2
<1>11. config'.mode = "async" => Pushes(Line') = {}
  BY <1>1, <1>2 DEF LeaveInv, Pushes
<1>12. config'.mode # "async" =>
           \A m \in Range(left') : \A c \in Range(Line') : c.kind # "marker" => m < c.n
  BY <1>1, <1>2, <1>7 DEF LeaveInv
<1> QED BY <1>7, <1>8, <1>9, <1>10, <1>11, <1>12 DEF LeaveInv

\* Every step keeps what is known of the items that left.
LEMMA LeaveKept ==
    ASSUME Types, HandsInv, LineInv, LeaveInv, [Next]_vars
    PROVE  LeaveInv'
<1>1. CASE SendEvent \/ \E parts \in config.shapes : SubmitBuffer(parts)
  <2>1. /\ ~Busy /\ Busy' /\ Current' = Current + 1 /\ UNCHANGED <<config, left, gone>>
        /\ Line' = Append(Line, Marker) \/ Line' = Line
    BY <1>1, ArrivalEffect
  <2>2. Range(Line') \subseteq Range(Line) \cup {Marker} /\ Pushes(Line') = Pushes(Line)
    <3>1. Range(Append(Line, Marker)) = Range(Line) \cup {Marker}
      BY LineType, BatchesAre, LongerRange
    <3>2. Marker.kind # "push"
      BY DEF Marker, Batch
    <3> QED BY <2>1, <3>1, <3>2 DEF Pushes
  <2> QED BY <2>1, <2>2, LeaveArrives
<1>2. CASE PushBatch \/ PushTensor \/ PushBuffer
  <2>1. PICK b \in BatchType :
          /\ Line' = Append(Line, b) /\ b.n = Current
          /\ \/ b.kind \in {"infer", "attach"} /\ streamer'.at = "part"
             \/ b.kind = "push" /\ ~Busy' /\ config.mode # "async"
    BY <1>2, JoinEffect
  <2>2. Busy /\ Current' = Current /\ Current \in Nat \ {0} /\ UNCHANGED <<config, left, gone>>
    BY <1>2, JoinEffect
  <2> QED BY <2>1, <2>2, LeaveJoins DEF Busy
<1>3. CASE StreamerStep /\ ~(PushBatch \/ PushTensor \/ PushBuffer)
  <2>1. /\ UNCHANGED <<config, Line>> /\ Current' = Current /\ Current \in Nat \ {0} /\ Busy
        /\ \/ UNCHANGED <<gone, left>> /\ Busy'
           \/ gone' = gone \cup {Current} /\ UNCHANGED left /\ ~Busy'
           \/ /\ left' = Append(left, Current) /\ UNCHANGED gone /\ ~Busy'
              /\ config.mode = "async" \/ Flushed
    BY <1>3, StreamerEffect
  <2>2. CASE UNCHANGED <<gone, left>> /\ Busy'
    BY <2>1, <2>2, LeaveUntouched
  <2>3. CASE ~Busy'
    BY <2>1, <2>3, LeaveEnds, FlushedLine
  <2> QED BY <2>1, <2>2, <2>3
<1>4. CASE InputStep \/ (OutputStep /\ ~OutputPushes)
  <2>1. /\ UNCHANGED <<config, items, streamer, left, gone>> /\ Pushes(Line') = Pushes(Line)
        /\ Range(Line') \subseteq Range(Line)
    BY <1>4, InputEffect, OutputEffect DEF Thinned
  <2> QED BY <2>1, LeaveUntouched DEF Busy, Current
<1>5. CASE OutputPushes
  BY <1>5, LeavePushes
<1>6. CASE \/ LoadModel \/ ModelLoaded
           \/ \E n \in DOMAIN items : Released(n)
           \/ Stop \/ AppStep \/ UNCHANGED vars
  <2>1. UNCHANGED <<config, items, streamer, left, gone, Line>>
    BY <1>6, OtherEffect
  <2> QED BY <2>1, LeaveUntouched DEF Busy, Current
<1> QED BY <1>1, <1>2, <1>3, <1>4, <1>5, <1>6 DEF Next, StreamerStep

--------------------------------------------------------------------------------
(* What metadata keeps *)

\* Nothing new is kept by metadata, nothing new is in the line.
LEMMA HeldThins ==
    ASSUME Types, Types', HeldInv, held' \subseteq held, Range(Line') \subseteq Range(Line) \cup {Marker},
           \/ Current' = Current /\ (Busy' => Busy /\ streamer'.part >= streamer.part)
           \/ Current' = Current + 1
    PROVE  HeldInv'
<1>1. Marker.kind # "infer"
  BY DEF Marker, Batch
<1> SUFFICES ASSUME NEW h \in held'
             PROVE  /\ h[1] \in 1 .. Current'
                    /\ Busy' /\ h[1] = Current' => h[2] < streamer'.part
                    /\ \A b \in Range(Line') : b.kind = "infer" =>
                          h[1] < b.n \/ (h[1] = b.n /\ h[2] < b.part)
  BY DEF HeldInv
<1>2. h \in held /\ h[2] \in Nat /\ streamer.part \in Nat /\ streamer'.part \in Nat /\ Current \in Nat
  BY CurrentType DEF Types, StreamerType
<1>3. /\ h[1] \in 1 .. Current
      /\ Busy /\ h[1] = Current => h[2] < streamer.part
      /\ \A b \in Range(Line) : b.kind = "infer" => h[1] < b.n \/ (h[1] = b.n /\ h[2] < b.part)
  BY <1>2 DEF HeldInv
<1> QED BY <1>1, <1>2, <1>3

\* Every step keeps what is known of the metadata.
LEMMA HeldKept ==
    ASSUME Types, Types', HandsInv, LineInv, HeldInv, [Next]_vars
    PROVE  HeldInv'
<1>1. CASE SendEvent \/ \E parts \in config.shapes : SubmitBuffer(parts)
  <2>1. UNCHANGED held /\ Current' = Current + 1 /\ (Line' = Append(Line, Marker) \/ Line' = Line)
    BY <1>1, ArrivalEffect
  <2>2. Range(Append(Line, Marker)) = Range(Line) \cup {Marker}
    BY LineType, BatchesAre, LongerRange
  <2> QED BY <2>1, <2>2, HeldThins
<1>2. CASE PushBatch \/ PushTensor \/ PushBuffer
  <2>1. PICK b \in BatchType :
          /\ Line' = Append(Line, b) /\ b.n = Current
          /\ \/ /\ b.kind \in {"infer", "attach"} /\ b.part = streamer.part
                /\ streamer'.at = "part" /\ streamer'.part = streamer.part + 1
             \/ b.kind = "push" /\ ~Busy'
    BY <1>2, JoinEffect
  <2>2. Busy /\ Current' = Current /\ Current \in Nat \ {0} /\ UNCHANGED held
    BY <1>2, JoinEffect
  <2>3. Range(Line') = Range(Line) \cup {b}
    BY <2>1, LineType, LongerRange
  <2> SUFFICES ASSUME NEW h \in held
               PROVE  /\ h[1] \in 1 .. Current'
                      /\ Busy' /\ h[1] = Current' => h[2] < streamer'.part
                      /\ \A x \in Range(Line') : x.kind = "infer" =>
                            h[1] < x.n \/ (h[1] = x.n /\ h[2] < x.part)
    BY <2>2 DEF HeldInv
  <2>4. h[2] \in Nat /\ streamer.part \in Nat
    BY DEF Types, StreamerType
  <2>5. /\ h[1] \in 1 .. Current
        /\ h[1] = Current => h[2] < streamer.part
        /\ \A x \in Range(Line) : x.kind = "infer" => h[1] < x.n \/ (h[1] = x.n /\ h[2] < x.part)
    BY <2>2 DEF HeldInv
  <2>6. b.kind = "infer" => h[1] < b.n \/ (h[1] = b.n /\ h[2] < b.part)
    BY <2>1, <2>2, <2>5
  <2>7. Busy' /\ h[1] = Current' => h[2] < streamer'.part
    BY <2>1, <2>2, <2>4, <2>5
  <2> QED BY <2>2, <2>3, <2>5, <2>6, <2>7
<1>3. CASE StreamerStep /\ ~(PushBatch \/ PushTensor \/ PushBuffer)
  <2>1. UNCHANGED <<held, Line>> /\ Current' = Current /\ Busy /\ (Busy' => streamer'.part >= streamer.part)
    BY <1>3, StreamerEffect
  <2> QED BY <2>1, HeldThins
<1>4. CASE InputStep \/ (OutputStep /\ ~OutputAttaches)
  <2>1. UNCHANGED <<items, streamer>> /\ Range(Line') \subseteq Range(Line) /\ streamer.part \in Nat
    BY <1>4, InputEffect, OutputEffect DEF Thinned, Types, StreamerType
  <2>2. UNCHANGED held
    BY <1>4, InputEffect DEF OutputStep, OutputEnds, OutputWaits, OutputSkips, OutputTakes,
       OutputPushes, OutputContext, OutputDequeues
  <2> QED BY <2>1, <2>2, HeldThins DEF Busy, Current
<1>5. CASE OutputAttaches
  <2>1. /\ output.at = "attach" /\ UNCHANGED <<inputQueue, processQueue, input, streamer, items>>
        /\ held' \subseteq held \cup {<<output.batch.n, output.batch.part, output.ctx>>}
        /\ output'.batch = NoBatch
    BY <1>5 DEF OutputAttaches, elementVars, historyVars, Types, OutputType
  <2>2. output.batch # NoBatch /\ output.batch.kind = "infer"
    BY <2>1 DEF HandsInv
  <2>3. /\ Line # <<>> /\ Line' = Tail(Line) /\ Head(Line) = output.batch
        /\ Range(Line) = {output.batch} \cup Range(Line')
    BY <2>1, <2>2, OutputGivesAway
  <2>4. \A b \in Range(Line') : Ahead(output.batch, b)
    BY <2>3, LineType, HeadFirst DEF LineInv
  <2>5. /\ output.batch.n \in 1 .. Current
        /\ Busy /\ output.batch.n = Current => output.batch.part < streamer.part
    BY <2>2, <2>3 DEF LineInv
  <2>6. Current' = Current /\ (Busy' <=> Busy)
    BY <2>1 DEF Current, Busy
  <2> SUFFICES ASSUME NEW h \in held'
               PROVE  /\ h[1] \in 1 .. Current
                      /\ Busy /\ h[1] = Current => h[2] < streamer.part
                      /\ \A b \in Range(Line') : b.kind = "infer" =>
                            h[1] < b.n \/ (h[1] = b.n /\ h[2] < b.part)
    BY <2>1, <2>6 DEF HeldInv
  <2>7. CASE h \in held
    BY <2>3, <2>7 DEF HeldInv
  <2>8. CASE h = <<output.batch.n, output.batch.part, output.ctx>>
    <3>1. h[1] = output.batch.n /\ h[2] = output.batch.part
      BY <2>8
    <3>2. \A b \in Range(Line') : b.kind = "infer" =>
              output.batch.n < b.n \/ (output.batch.n = b.n /\ output.batch.part < b.part)
      BY <2>2, <2>4 DEF Ahead
    <3> QED BY <2>5, <3>1, <3>2
  <2> QED BY <2>1, <2>7, <2>8
<1>6. CASE \/ LoadModel \/ ModelLoaded
           \/ \E n \in DOMAIN items : Released(n)
           \/ Stop \/ AppStep \/ UNCHANGED vars
  <2>1. UNCHANGED <<items, streamer, Line>> /\ held' \subseteq held /\ streamer.part \in Nat
    BY <1>6, OtherEffect DEF Types, StreamerType
  <2> QED BY <2>1, HeldThins DEF Busy, Current
<1> QED BY <1>1, <1>2, <1>3, <1>4, <1>5, <1>6 DEF Next, StreamerStep

--------------------------------------------------------------------------------
(* Conversion buffers *)

\* No batch more needs a conversion buffer than before.
LEMMA ConvertingThins ==
    ASSUME Types, Types', ConvInv, Converting' \subseteq Converting, convFree' = convFree
    PROVE  ConvInv'
<1>1. /\ IsFiniteSet(Converting) /\ convFree + Cardinality(Converting) <= ConvPool
  BY DEF ConvInv
<1>2. /\ IsFiniteSet(Converting') /\ Cardinality(Converting') <= Cardinality(Converting)
      /\ Cardinality(Converting') \in Nat /\ Cardinality(Converting) \in Nat
  BY <1>1, FS_Subset, FS_CardinalityType
<1>3. convFree \in Nat /\ ConvPool \in Nat
  BY ConfigTypes DEF Types
<1> QED BY <1>1, <1>2, <1>3 DEF ConvInv

\* The output loop has no conversion buffers.
LEMMA OutputKeepsConverting ==
    ASSUME UNCHANGED <<inputQueue, input, streamer, items>>
    PROVE  Converting' = Converting
  BY DEF Converting, Current

\* No other batch that has a conversion buffer is the one the input thread has in hand.
LEMMA OneConverted ==
    ASSUME Types, HandsInv, LineInv, input.at = "queue"
    PROVE  /\ input.batch \in Converting
           /\ input.batch \notin {b \in Range(inputQueue) : b.kind = "infer"}
           /\ streamer.at = "convert" => input.batch # Batch("infer", Current, streamer.part)
<1>1. input.batch # NoBatch /\ input.batch.kind = "infer"
  BY DEF HandsInv
<1>2. /\ input.batch \in BatchType /\ Hand(input.batch) = <<input.batch>>
      /\ inputQueue \in Seq(BatchType) /\ OutputSide \in Seq(BatchType)
      /\ Range(Hand(input.batch)) = {input.batch} /\ Hand(input.batch) \in Seq(BatchType)
      /\ input.batch \in Range(Line)
  BY <1>1, HandType, LineType DEF Types
<1> DEFINE h == Hand(input.batch)
           q == OutputSide \o h
<1>3. Line = q \o inputQueue /\ q \in Seq(BatchType) /\ Range(q) = Range(OutputSide) \cup {input.batch}
  <2>1. h \in Seq(BatchType) /\ Range(h) = {input.batch} /\ Line = OutputSide \o (h \o inputQueue)
    BY <1>2 DEF Line, InputSide
  <2> HIDE DEF h
  <2>2. q \in Seq(BatchType) /\ Range(q) = Range(OutputSide) \cup Range(h)
    BY <1>2, <2>1, Together
  <2>3. OutputSide \o (h \o inputQueue) = q \o inputQueue
    BY <1>2, <2>1, ConcatAssociative
  <2> QED BY <2>1, <2>2, <2>3
<1> HIDE DEF q, h
<1>4. \A b \in Range(q), c \in Range(inputQueue) : Ahead(b, c)
  <2>1. InOrder(q \o inputQueue)
    BY <1>3 DEF LineInv
  <2> QED BY <1>2, <1>3, <2>1, FrontFirst
<1>5. \A c \in Range(inputQueue) : Ahead(input.batch, c)
  BY <1>3, <1>4
<1>6. ~Ahead(input.batch, input.batch)
  BY <1>1, <1>2 DEF Ahead, BatchType
<1>7. streamer.at = "convert" => input.batch # Batch("infer", Current, streamer.part)
  <2> SUFFICES ASSUME streamer.at = "convert" PROVE input.batch # Batch("infer", Current, streamer.part)
    OBVIOUS
  <2>1. input.batch.n = Current => input.batch.part < streamer.part
    BY <1>1, <1>2 DEF LineInv, Busy
  <2>2. streamer.part \in Nat
    BY DEF Types, StreamerType
  <2> QED BY <2>1, <2>2 DEF Batch
<1> QED BY <1>5, <1>6, <1>7 DEF Converting

\* Every step keeps the account of the conversion buffers.
LEMMA ConvKept ==
    ASSUME Types, Types', HandsInv, HandsInv', LineInv, ConvInv, [Next]_vars
    PROVE  ConvInv'
<1>1. CASE SendEvent \/ \E parts \in config.shapes : SubmitBuffer(parts)
  <2>1. /\ UNCHANGED <<convFree, input>> /\ streamer'.at \in {"part", "flush"}
        /\ {b \in Range(inputQueue') : b.kind = "infer"} = {b \in Range(inputQueue) : b.kind = "infer"}
    BY <1>1, ArrivalEffect
  <2>2. Converting' \subseteq Converting
    BY <2>1 DEF Converting
  <2> QED BY <2>1, <2>2, ConvertingThins
<1>2. CASE Acquire
  <2>1. /\ streamer.at = "part" /\ streamer.todo # <<>> /\ convFree > 0 /\ convFree' = ConvBufs
        /\ streamer'.at = "convert" /\ streamer'.todo = streamer.todo
        /\ streamer'.part = streamer.part /\ UNCHANGED <<inputQueue, input, items>>
    BY <1>2 DEF Acquire, historyVars, Types, StreamerType
  <2>2. Current' = Current
    BY <2>1 DEF Current
  <2>3. CASE Head(streamer.todo) = "infer"
    <3> DEFINE b == Batch("infer", Current, streamer.part)
    <3>1. Converting' \subseteq Converting \cup {b}
      BY <2>1, <2>2 DEF Converting
    <3> HIDE DEF b
    <3>2. IsFiniteSet(Converting) /\ convFree + Cardinality(Converting) <= ConvPool
      BY DEF ConvInv
    <3>3. /\ IsFiniteSet(Converting \cup {b}) /\ Cardinality(Converting) \in Nat
          /\ Cardinality(Converting \cup {b}) \in {Cardinality(Converting), Cardinality(Converting) + 1}
      BY <3>2, FS_AddElement, FS_CardinalityType
    <3>4. IsFiniteSet(Converting') /\ Cardinality(Converting') <= Cardinality(Converting \cup {b})
          /\ Cardinality(Converting') \in Nat
      BY <3>1, <3>3, FS_Subset, FS_CardinalityType
    <3>5. convFree' = convFree - 1 /\ convFree \in Nat /\ ConvPool \in Nat
      BY <2>1, <2>3, ConfigTypes DEF ConvBufs, Types
    <3> QED BY <3>2, <3>3, <3>4, <3>5 DEF ConvInv
  <2>4. CASE Head(streamer.todo) # "infer"
    <3>1. Converting' \subseteq Converting /\ convFree' = convFree
      BY <2>1, <2>2, <2>4 DEF Converting, ConvBufs
    <3> QED BY <3>1, ConvertingThins
  <2> QED BY <2>3, <2>4
<1>3. CASE PushBatch
  <2> DEFINE b == Batch(Head(streamer.todo), Current, streamer.part)
  <2>1. /\ inputQueue' = Append(inputQueue, b) /\ streamer.at = "convert"
        /\ UNCHANGED <<convFree, input>>
        /\ streamer' = [streamer EXCEPT !.at = "part", !.todo = Tail(@), !.part = @ + 1]
    BY <1>3 DEF PushBatch
  <2>2. streamer'.at = "part" /\ Head(streamer.todo) \in {"infer", "attach"}
    <3>1. [streamer EXCEPT !.at = "part", !.todo = Tail(@), !.part = @ + 1].at = "part"
      BY DEF Types, StreamerType
    <3> QED BY <2>1, <3>1, NextPartTypes DEF HandsInv
  <2>3. b \in BatchType
    <3>1. streamer.part \in Nat
      BY DEF Types, StreamerType
    <3> QED BY <2>2, <3>1, CurrentType, BatchesAre
  <2>4. b.kind = "infer" => Head(streamer.todo) = "infer" /\ b = Batch("infer", Current, streamer.part)
    BY DEF Batch
  <2> HIDE DEF b
  <2>5. Range(inputQueue') = Range(inputQueue) \cup {b}
    BY <2>1, <2>3, LongerRange DEF Types
  <2>6. Converting' \subseteq Converting
    BY <2>1, <2>2, <2>4, <2>5 DEF Converting
  <2> QED BY <2>1, <2>6, ConvertingThins
<1>4. CASE PushBuffer
  <2>1. /\ UNCHANGED <<convFree, input>> /\ streamer'.at = "idle"
        /\ inputQueue' \in {inputQueue, Append(inputQueue, Batch("push", Current, 0))}
    BY <1>4 DEF PushBuffer, Enqueue, IdleStreamer
  <2>2. Batch("push", Current, 0) \in BatchType /\ Batch("push", Current, 0).kind # "infer"
    BY CurrentType, BatchesAre DEF Batch
  <2>3. Range(inputQueue') \subseteq Range(inputQueue) \cup {Batch("push", Current, 0)}
    <3> DEFINE b == Batch("push", Current, 0)
    <3>1. b \in BatchType
      BY <2>2
    <3> HIDE DEF b
    <3>2. Range(Append(inputQueue, b)) = Range(inputQueue) \cup {b}
      BY <3>1, LongerRange DEF Types
    <3> QED BY <2>1, <3>2 DEF b
  <2>4. Converting' \subseteq Converting
    BY <2>1, <2>2, <2>3 DEF Converting
  <2> QED BY <2>1, <2>4, ConvertingThins
<1>5. CASE ConvertFails \/ QueueTensor \/ PushTensor \/ PushAtOnce \/ FlushWaits \/ Flushed
  <2>1. UNCHANGED <<convFree, inputQueue, input>>
    BY <1>5 DEF ConvertFails, QueueTensor, PushTensor, PushAtOnce, FlushWaits, Flushed, elementVars
  <2>2. streamer'.at # "convert"
    <3>1. CASE ConvertFails \/ PushAtOnce
      BY <3>1 DEF ConvertFails, PushAtOnce, IdleStreamer
    <3>2. CASE QueueTensor \/ PushTensor
      <4>1. ~HasInputThread /\ UNCHANGED config
        BY <3>2 DEF QueueTensor, PushTensor, HandsInv
      <4> QED BY <4>1 DEF HandsInv, HasInputThread
    <3>3. CASE FlushWaits
      BY <3>3 DEF FlushWaits
    <3>4. CASE Flushed
      <4>1. [streamer EXCEPT !.at = "part", !.model = 0].at = "part"
        BY DEF Types, StreamerType
      <4>2. \/ streamer' = IdleStreamer
            \/ streamer' = [streamer EXCEPT !.at = "part", !.model = 0]
        BY <3>4 DEF Flushed
      <4>3. IdleStreamer.at = "idle"
        BY DEF IdleStreamer
      <4> QED BY <4>1, <4>2, <4>3
    <3> QED BY <1>5, <3>1, <3>2, <3>3, <3>4
  <2>3. Converting' \subseteq Converting
    BY <2>1, <2>2 DEF Converting
  <2> QED BY <2>1, <2>3, ConvertingThins
<1>6. CASE InputEnds \/ InputWaits \/ InputForwards \/ InputTakes \/ InputMoves
  <2>1. UNCHANGED <<convFree, streamer, items>>
    BY <1>6 DEF InputEnds, InputWaits, InputForwards, InputTakes, InputMoves, elementVars, historyVars
  <2>2. Current' = Current
    BY <2>1 DEF Current
  <2>3. CASE InputEnds \/ InputWaits \/ InputMoves
    <3>1. UNCHANGED inputQueue /\ input'.at # "queue"
      BY <2>3 DEF InputEnds, InputWaits, InputMoves, elementVars, Types, InputType
    <3> QED BY <2>1, <2>2, <3>1, ConvertingThins DEF Converting
  <2>4. CASE InputForwards \/ InputTakes
    <3>1. /\ inputQueue # <<>> /\ inputQueue' = Tail(inputQueue)
          /\ \/ input'.at # "queue"
             \/ input'.batch = Head(inputQueue) /\ Head(inputQueue).kind = "infer"
      <4>1. CASE InputForwards
        BY <4>1 DEF InputForwards, Types, InputType
      <4>2. CASE InputTakes
        BY <4>2 DEF InputTakes
      <4> QED BY <2>4, <4>1, <4>2
    <3>2. Range(inputQueue) = {Head(inputQueue)} \cup Range(inputQueue')
      BY <3>1, OneLess DEF Types
    <3>3. Converting' \subseteq Converting
      BY <2>1, <2>2, <3>1, <3>2 DEF Converting
    <3> QED BY <2>1, <3>3, ConvertingThins
  <2> QED BY <1>6, <2>3, <2>4
<1>7. CASE InputQueues
  <2>1. /\ input.at = "queue" /\ input'.at = "relock" /\ convFree' \in {convFree, convFree + 1}
        /\ UNCHANGED <<inputQueue, streamer, items>>
    BY <1>7 DEF InputQueues, historyVars, Types, InputType
  <2>2. Current' = Current
    BY <2>1 DEF Current
  <2> SUFFICES ASSUME NEW b, b = input.batch PROVE ConvInv'
    OBVIOUS
  <2>3. Converting' \subseteq Converting \ {b} /\ b \in Converting
    BY <2>1, <2>2, OneConverted DEF Converting
  <2>4. IsFiniteSet(Converting) /\ convFree + Cardinality(Converting) <= ConvPool
    BY DEF ConvInv
  <2>5. /\ IsFiniteSet(Converting \ {b}) /\ Cardinality(Converting) \in Nat
        /\ Cardinality(Converting \ {b}) = Cardinality(Converting) - 1
    BY <2>3, <2>4, FS_RemoveElement, FS_CardinalityType
  <2>6. IsFiniteSet(Converting') /\ Cardinality(Converting') <= Cardinality(Converting \ {b})
        /\ Cardinality(Converting') \in Nat
    BY <2>3, <2>5, FS_Subset, FS_CardinalityType
  <2>7. convFree \in Nat /\ ConvPool \in Nat
    BY ConfigTypes DEF Types
  <2> QED BY <2>1, <2>4, <2>5, <2>6, <2>7 DEF ConvInv
<1>8. CASE OutputStep
  <2>1. UNCHANGED <<convFree, inputQueue, input, streamer, items>>
    BY <1>8 DEF OutputStep, OutputEnds, OutputWaits, OutputSkips, OutputTakes, OutputPushes,
       OutputContext, OutputDequeues, OutputAttaches, elementVars, historyVars
  <2> QED BY <2>1, OutputKeepsConverting, ConvertingThins
<1>9. CASE \/ LoadModel \/ ModelLoaded
           \/ \E n \in DOMAIN items : Released(n)
           \/ Stop \/ AppStep \/ UNCHANGED vars
  <2>1. UNCHANGED <<convFree, inputQueue, input, streamer, items>>
    BY <1>9 DEF LoadModel, ModelLoaded, Released, Stop, AppStep, StopWaits, StopThreads, StopContext,
       Joined, vars, elementVars, historyVars
  <2> QED BY <2>1, OutputKeepsConverting, ConvertingThins
<1> QED BY <1>1, <1>2, <1>3, <1>4, <1>5, <1>6, <1>7, <1>8, <1>9 DEF Next, StreamerStep, InputStep

--------------------------------------------------------------------------------
(* Contexts *)

\* The batches that were inferred, without the one that the output loop has in hand.
Following ==
    {b \in Range(processQueue) : b.kind = "infer"}
    \cup (IF input.at = "relock" /\ input.batch # NoBatch THEN {input.batch} ELSE {})
    \cup (IF streamer.at = "queued" THEN {Batch("infer", Current, streamer.part)} ELSE {})

\* What was inferred is with the output loop or follows it, and is behind it in the line.
LEMMA FollowingTypes ==
    ASSUME Types, HandsInv, LineInv
    PROVE  /\ Following \subseteq BatchType /\ \A b \in Following : b.kind = "infer"
           /\ output.at \in {"infer", "dequeue", "attach"} =>
                 \A b \in Following : Ahead(output.batch, b)
           /\ InferredBatches = Following \cup
                 (IF output.at \in {"infer", "dequeue", "crashed"} THEN {output.batch} ELSE {})
<1>1. /\ processQueue \in Seq(BatchType) /\ InputSide \in Seq(BatchType) /\ input.batch \in Batches
      /\ streamer.part \in Nat /\ Current \in Nat
  BY LineType, CurrentType DEF Types, StreamerType
<1>2. Range(processQueue) \subseteq BatchType
  BY <1>1, SequenceFacts
<1>3. Batch("infer", Current, streamer.part) \in BatchType
  BY <1>1, BatchesAre
<1>4. Following \subseteq BatchType
  BY <1>1, <1>2, <1>3 DEF Following, Batches
<1>5. \A b \in Following : b.kind = "infer"
  BY DEF Following, HandsInv, Batch
<1>6. ASSUME output.at \in {"infer", "dequeue", "attach"}, NEW b \in Following
      PROVE  Ahead(output.batch, b)
  <2>1. output.batch # NoBatch /\ output.batch.kind = "infer"
    BY <1>6 DEF HandsInv
  <2>2. output.batch \in BatchType /\ OutputSide = <<output.batch>> \o processQueue
    BY <2>1, HandsFull
  <2> DEFINE h == <<output.batch>>
             q == processQueue \o InputSide
  <2>3. h \in Seq(BatchType) /\ Range(h) = {output.batch}
    BY <2>2, OneIsSequence
  <2>4. Line = (h \o processQueue) \o InputSide
    BY <2>2 DEF Line
  <2> HIDE DEF h
  <2>5. q \in Seq(BatchType) /\ Range(q) = Range(processQueue) \cup Range(InputSide)
    BY <1>1, Together
  <2>6. Line = h \o q
    BY <1>1, <2>3, <2>4, ConcatAssociative, SMTT(30)
  <2> HIDE DEF q
  <2>7. \A c \in Range(q) : Ahead(output.batch, c)
    <3>1. InOrder(h \o q)
      BY <2>6 DEF LineInv
    <3> QED BY <2>3, <2>5, <3>1, FrontFirst
  <2>8. CASE b \in Range(processQueue)
    BY <2>5, <2>7, <2>8
  <2>9. CASE b = input.batch /\ input.batch # NoBatch
    <3>1. b \in Range(InputSide)
      BY <2>9, LineType
    <3> QED BY <2>5, <2>7, <3>1
  <2>10. CASE streamer.at = "queued" /\ b = Batch("infer", Current, streamer.part)
    <3>1. output.batch \in Range(Line)
      BY <2>1, LineType
    <3>2. /\ output.batch.n \in 1 .. Current
          /\ output.batch.n = Current => output.batch.part < streamer.part
      BY <2>1, <2>10, <3>1 DEF LineInv, Busy
    <3>3. b.n = Current /\ b.part = streamer.part /\ b.kind = "infer"
      BY <2>10 DEF Batch
    <3> QED BY <1>1, <2>1, <3>2, <3>3 DEF Ahead
  <2> QED BY <1>6, <2>8, <2>9, <2>10 DEF Following
<1>7. InferredBatches = Following \cup
         (IF output.at \in {"infer", "dequeue", "crashed"} THEN {output.batch} ELSE {})
  BY DEF InferredBatches, Following
<1> QED BY <1>4, <1>5, <1>6, <1>7

\* Nothing is queued in a context or taken from it.
LEMMA ContextStands ==
    ASSUME ContextInv, InferredBatches' = InferredBatches, UNCHANGED queued,
           current' \in {current, 0},
           input'.at = "queue" =>
               \/ input.at = "queue" /\ input'.ctx = input.ctx
               \/ input'.ctx = current /\ current # 0,
           output'.at \in {"dequeue", "attach"} =>
               \/ output.at \in {"dequeue", "attach"} /\ output'.ctx = output.ctx
               \/ output'.ctx = current /\ current # 0,
           output'.at = "attach" => output.at = "attach" /\ UNCHANGED output
    PROVE  ContextInv'
<1>1. PICK c \in Contexts : InUse(c)
  BY DEF ContextInv
<1>2. InUse(c)'
  BY <1>1 DEF InUse
<1>3. OutputsMatch'
  BY DEF OutputsMatch, ContextInv
<1> QED BY <1>2, <1>3 DEF ContextInv

\* A batch is inferred in the context that is in use.
LEMMA ContextGrows ==
    ASSUME Types, LineInv, HandsInv, ContextInv, NEW b \in BatchType, NEW c \in Contexts, Inferred(c, b),
           InferredBatches' = InferredBatches \cup {b},
           \A x \in InferredBatches : Ahead(x, b),
           c = current \/ (input.at = "queue" /\ c = input.ctx),
           current # 0 => current' = current, current = 0 => current' = 0,
           input'.at # "queue" \/ UNCHANGED input, UNCHANGED output
    PROVE  ContextInv'
<1>1. PICK d \in Contexts : InUse(d)
  BY DEF ContextInv
<1>2. c = d
  <2>1. c # 0
    BY DEF Contexts
  <2> QED BY <1>1, <2>1 DEF InUse
<1>3. /\ \A x \in Contexts : x # c => queued'[x] = queued[x]
      /\ queued'[c] = Append(queued[c], b)
  BY InferredTypes
<1>4. queued[c] \in Seq(BatchType)
  BY DEF Types
<1>5. InOrder(queued[c]) /\ Range(queued[c]) = InferredBatches
  BY <1>1, <1>2 DEF InUse
<1>6. InOrder(queued'[c])
  BY <1>3, <1>4, <1>5, StaysInOrder
<1>7. Range(queued'[c]) = InferredBatches'
  BY <1>3, <1>4, <1>5, LongerRange
<1>8. InUse(c)'
  BY <1>1, <1>2, <1>3, <1>6, <1>7 DEF InUse
<1>9. OutputsMatch'
  BY DEF OutputsMatch, ContextInv
<1> QED BY <1>8, <1>9 DEF ContextInv

\* The output loop takes the results of the batch it has in hand: they are the first of its context.
LEMMA ContextShrinks ==
    ASSUME Types, HandsInv, LineInv, ContextInv, OutputDequeues
    PROVE  ContextInv'
<1>1. /\ output.at = "dequeue" /\ queued[output.ctx] # <<>>
      /\ queued' = [queued EXCEPT ![output.ctx] = Tail(@)]
      /\ UNCHANGED <<processQueue, input, streamer, items, current>>
      /\ \/ /\ output'.at = "attach" /\ output'.got = Head(queued[output.ctx])
            /\ output'.batch = output.batch /\ output'.ctx = output.ctx
         \/ output'.at = "lock"
  BY DEF OutputDequeues, elementVars, modelVars, historyVars, Types, OutputType
<1>2. PICK c \in Contexts : InUse(c)
  BY DEF ContextInv
<1>3. output.ctx = c /\ InOrder(queued[c]) /\ Range(queued[c]) = InferredBatches
  BY <1>1, <1>2 DEF InUse
<1>4. output.batch # NoBatch /\ output.batch.kind = "infer" /\ output.batch \in BatchType
  BY <1>1, LineType DEF HandsInv, Batches
<1>5. /\ Following \subseteq BatchType /\ \A b \in Following : b.kind = "infer" /\ Ahead(output.batch, b)
      /\ InferredBatches = Following \cup {output.batch}
  BY <1>1, FollowingTypes
<1> SUFFICES ASSUME NEW q, q = queued[c] PROVE ContextInv'
  OBVIOUS
<1>6. q \in Seq(BatchType) /\ q # <<>>
  BY <1>1, <1>3 DEF Types
<1>7. Range(q) = {Head(q)} \cup Range(Tail(q)) /\ Head(q) \in BatchType
  BY <1>6, OneLess
<1>8. \A b \in Range(Tail(q)) : Ahead(Head(q), b)
  BY <1>3, <1>6, HeadFirst
<1>9. \A b, d \in BatchType : b.kind = "infer" /\ d.kind = "infer" => ~(Ahead(b, d) /\ Ahead(d, b))
  BY DEF Ahead, BatchType
<1>10. Head(q) = output.batch
  <2> SUFFICES ASSUME Head(q) # output.batch PROVE FALSE
    OBVIOUS
  <2>1. Head(q) \in Following /\ output.batch \in Range(Tail(q))
    BY <1>3, <1>5, <1>7
  <2>2. Ahead(output.batch, Head(q)) /\ Ahead(Head(q), output.batch) /\ Head(q).kind = "infer"
    BY <1>5, <1>8, <2>1
  <2> QED BY <1>4, <1>7, <1>9, <2>2
<1>11. output.batch \notin Range(Tail(q)) /\ output.batch \notin Following
  BY <1>4, <1>5, <1>8, <1>9, <1>10
<1>12. Range(Tail(q)) = Following
  BY <1>3, <1>5, <1>7, <1>10, <1>11
<1>13. InferredBatches' = Following
  <2>1. Current' = Current /\ output'.at \in {"attach", "lock"}
    BY <1>1 DEF Current
  <2> QED BY <1>1, <2>1 DEF InferredBatches, Following
<1>14. InOrder(Tail(q))
  BY <1>3, <1>6, HeadLeaves DEF Thinned
<1>15. queued'[c] = Tail(q) /\ \A d \in Contexts : d # c => queued'[d] = queued[d]
  BY <1>1, <1>3 DEF Types
<1>16. InUse(c)'
  BY <1>1, <1>2, <1>12, <1>13, <1>14, <1>15 DEF InUse
<1>17. OutputsMatch'
  BY <1>1, <1>3, <1>10 DEF OutputsMatch
<1> QED BY <1>16, <1>17 DEF ContextInv

\* A context is replaced when nothing is queued in it.
LEMMA ContextChanges ==
    ASSUME Types, Types', HandsInv, LineInv, ContextInv, Flushed
    PROVE  ContextInv'
<1>1. Line = <<>> /\ input.batch = NoBatch /\ output.batch = NoBatch
  BY FlushedLine
<1>2. /\ streamer.at = "flush" /\ processQueue = <<>> /\ UNCHANGED <<processQueue, input, output, queued, items>>
      /\ \/ UNCHANGED current
         \/ current' # 0
      /\ streamer'.at \in {"idle", "part"}
  <2>1. /\ streamer.at = "flush" /\ processQueue = <<>>
        /\ UNCHANGED <<processQueue, input, output, queued, items>>
        /\ \/ UNCHANGED current /\ streamer' = IdleStreamer
           \/ current' # 0 /\ streamer' = [streamer EXCEPT !.at = "part", !.model = 0]
    BY DEF Flushed, QueuesEmpty, elementVars, contextVars
  <2>2. [streamer EXCEPT !.at = "part", !.model = 0].at = "part" /\ IdleStreamer.at = "idle"
    BY DEF Types, StreamerType, IdleStreamer
  <2> QED BY <2>1, <2>2
<1>3. input.at # "queue" /\ output.at \notin {"infer", "dequeue", "attach", "crashed"}
  BY <1>1 DEF HandsInv
<1>4. InferredBatches = {} /\ InferredBatches' = {}
  BY <1>1, <1>2, <1>3, EmptyIsShort DEF InferredBatches
<1>5. CASE UNCHANGED current
  BY <1>2, <1>3, <1>4, <1>5, ContextStands
<1>6. CASE current' # 0
  <2>1. PICK c \in Contexts : InUse(c)
    BY DEF ContextInv
  <2>2. \A d \in Contexts : queued[d] = <<>>
    <3>1. queued[c] = <<>>
      BY <1>4, <2>1, SequenceFacts DEF InUse, Types
    <3> QED BY <2>1, <3>1 DEF InUse
  <2> SUFFICES ASSUME NEW e, e = current' PROVE ContextInv'
    OBVIOUS
  <2>3. e \in Contexts
    BY <1>6 DEF Types
  <2>4. InUse(e)'
    BY <1>2, <1>3, <1>4, <2>2, <2>3, EmptyIsShort DEF InUse
  <2>5. OutputsMatch'
    BY <1>2, <1>3 DEF OutputsMatch
  <2> QED BY <2>3, <2>4, <2>5 DEF ContextInv
<1> QED BY <1>2, <1>5, <1>6

\* The inferred batches depend on the process queue and the three hands.
LEMMA SameInferred ==
    ASSUME UNCHANGED <<processQueue, input, output, items>>,
           (streamer.at # "queued" /\ streamer'.at # "queued") \/ UNCHANGED streamer
    PROVE  InferredBatches' = InferredBatches
  BY DEF InferredBatches, Current

\* The streaming thread keeps the context in step with process_queue.
LEMMA StreamerContext ==
    ASSUME Types, Types', HandsInv, LineInv, ContextInv, StreamerStep
    PROVE  ContextInv'
<1>1. CASE Acquire \/ PushBatch \/ ConvertFails \/ PushAtOnce \/ FlushWaits
  <2>1. /\ UNCHANGED <<processQueue, input, output, items, queued, current>>
        /\ streamer.at # "queued"
    BY <1>1 DEF Acquire, PushBatch, ConvertFails, PushAtOnce, FlushWaits, elementVars, modelVars,
       contextVars, historyVars
  <2>2. streamer'.at # "queued"
    <3>1. CASE Acquire
      BY <3>1 DEF Acquire, Types, StreamerType
    <3>2. CASE PushBatch
      <4>1. [streamer EXCEPT !.at = "part", !.todo = Tail(@), !.part = @ + 1].at = "part"
        BY DEF Types, StreamerType
      <4> QED BY <3>2, <4>1 DEF PushBatch
    <3>3. CASE ConvertFails \/ PushAtOnce
      BY <3>3 DEF ConvertFails, PushAtOnce, IdleStreamer
    <3>4. CASE FlushWaits
      BY <2>1, <3>4 DEF FlushWaits
    <3> QED BY <1>1, <3>1, <3>2, <3>3, <3>4
  <2> QED BY <2>1, <2>2, SameInferred, ContextStands
<1>2. CASE QueueTensor
  <2>1. /\ streamer.at = "part" /\ streamer.todo # <<>> /\ ~HasInputThread
        /\ UNCHANGED <<processQueue, input, output, items, current>>
    BY <1>2 DEF QueueTensor, elementVars, modelVars
  <2>2. current \in Contexts
    BY <2>1 DEF HandsInv, Busy, Types
  <2>3. CASE /\ Inferred(current, Batch("infer", Current, streamer.part))
             /\ streamer' = [streamer EXCEPT !.at = "queued"]
    <3>1. streamer'.at = "queued" /\ streamer'.part = streamer.part /\ streamer.part \in Nat
      BY <2>3 DEF Types, StreamerType
    <3>2. Current' = Current /\ Current \in Nat
      BY <2>1, CurrentType DEF Current
    <3> SUFFICES ASSUME NEW b, b = Batch("infer", Current, streamer.part) PROVE ContextInv'
      OBVIOUS
    <3>3. b \in BatchType /\ b.kind = "infer" /\ b.n = Current /\ b.part = streamer.part
      BY <3>1, <3>2, BatchesAre DEF Batch
    <3>4. InferredBatches' = InferredBatches \cup {b}
      BY <2>1, <3>1, <3>2 DEF InferredBatches
    <3>5. InferredBatches \subseteq Range(Line)
      <4>1. input.at # "relock"
        BY <2>1 DEF HandsInv
      <4>2. output.at \in {"infer", "dequeue", "crashed"} => output.batch # NoBatch
        BY DEF HandsInv
      <4> QED BY <2>1, <4>1, <4>2, LineType DEF InferredBatches
    <3>6. \A x \in InferredBatches : Ahead(x, b)
      <4> SUFFICES ASSUME NEW x \in InferredBatches, x.kind # "marker" PROVE Ahead(x, b)
        BY DEF Ahead
      <4>1. /\ x.n \in 1 .. Current
            /\ x.n = Current => x.kind # "push" /\ x.part < streamer.part
        BY <2>1, <3>5 DEF LineInv, Busy
      <4> QED BY <3>2, <3>3, <4>1 DEF Ahead
    <3>7. input'.at # "queue"
      BY <2>1 DEF HandsInv
    <3> QED BY <2>1, <2>2, <2>3, <3>3, <3>4, <3>6, <3>7, ContextGrows
  <2>4. CASE /\ UNCHANGED contextVars
             /\ \/ streamer' = [streamer EXCEPT !.todo = Tail(@), !.part = @ + 1]
                \/ streamer' = IdleStreamer
    <3>1. streamer'.at # "queued"
      BY <2>1, <2>4, NextPartTypes DEF IdleStreamer
    <3> QED BY <2>1, <2>4, <3>1, SameInferred, ContextStands DEF contextVars
  <2> QED BY <1>2, <2>3, <2>4 DEF QueueTensor
<1>3. CASE PushTensor
  <2>1. /\ streamer.at = "queued" /\ UNCHANGED <<input, output, items, queued, current>>
        /\ processQueue' = Append(processQueue, Batch("infer", Current, streamer.part))
        /\ streamer' = [streamer EXCEPT !.at = "part", !.todo = Tail(@), !.part = @ + 1]
    BY <1>3 DEF PushTensor, modelVars, contextVars, historyVars
  <2>2. streamer'.at = "part"
    BY <2>1 DEF Types, StreamerType
  <2>3. Batch("infer", Current, streamer.part) \in BatchType
    <3>1. streamer.part \in Nat
      BY DEF Types, StreamerType
    <3> QED BY <3>1, CurrentType, BatchesAre
  <2> SUFFICES ASSUME NEW b, b = Batch("infer", Current, streamer.part) PROVE ContextInv'
    OBVIOUS
  <2>4. Range(processQueue') = Range(processQueue) \cup {b} /\ b.kind = "infer"
    <3>1. processQueue' = Append(processQueue, b) /\ b \in BatchType /\ processQueue \in Seq(BatchType)
      BY <2>1, <2>3 DEF Types
    <3>2. b.kind = "infer"
      BY DEF Batch
    <3> QED BY <3>1, <3>2, LongerRange
  <2>5. InferredBatches' = InferredBatches
    BY <2>1, <2>2, <2>4 DEF InferredBatches
  <2> QED BY <2>1, <2>5, ContextStands
<1>4. CASE PushBuffer
  <2>1. /\ streamer.at = "part" /\ streamer'.at = "idle"
        /\ UNCHANGED <<input, output, items, queued, current>>
        /\ processQueue' \in {processQueue, Append(processQueue, Batch("push", Current, 0))}
    BY <1>4 DEF PushBuffer, Enqueue, IdleStreamer, modelVars, contextVars, historyVars
  <2> SUFFICES ASSUME NEW b, b = Batch("push", Current, 0) PROVE ContextInv'
    OBVIOUS
  <2>2. b \in BatchType /\ b.kind # "infer"
    BY CurrentType, BatchesAre DEF Batch
  <2>3. Range(processQueue') = Range(processQueue) \/ Range(processQueue') = Range(processQueue) \cup {b}
    <3>1. Range(Append(processQueue, b)) = Range(processQueue) \cup {b}
      BY <2>2, LongerRange DEF Types
    <3> QED BY <2>1, <3>1
  <2>4. InferredBatches' = InferredBatches
    BY <2>1, <2>2, <2>3 DEF InferredBatches
  <2> QED BY <2>1, <2>4, ContextStands
<1>5. CASE Flushed
  BY <1>5, ContextChanges
<1> QED BY <1>1, <1>2, <1>3, <1>4, <1>5 DEF StreamerStep

\* So does the input thread.
LEMMA InputContext ==
    ASSUME Types, Types', HandsInv, LineInv, ContextInv, InputStep
    PROVE  ContextInv'
<1>1. UNCHANGED <<output, streamer, items, current>> /\ Current' = Current
  <2>1. UNCHANGED <<output, streamer, items, current>>
    BY DEF InputStep, InputEnds, InputWaits, InputForwards, InputTakes, InputQueues, InputMoves,
       modelVars, historyVars
  <2> QED BY <2>1 DEF Current
<1>2. CASE InputEnds \/ InputWaits
  <2>1. /\ UNCHANGED <<processQueue, queued>> /\ input'.at \in {"ended", "lock"}
        /\ input.at \in {"loop", "lock"}
    BY <1>2 DEF InputEnds, InputWaits, InputHasLock, elementVars, contextVars, Types, InputType
  <2>2. InferredBatches' = InferredBatches
    BY <1>1, <2>1 DEF InferredBatches
  <2> QED BY <1>1, <2>1, <2>2, ContextStands
<1>3. CASE InputForwards
  <2>1. /\ input.at \in {"loop", "lock"} /\ input'.at = "loop" /\ UNCHANGED queued
        /\ inputQueue # <<>> /\ Head(inputQueue).kind # "infer"
        /\ processQueue' = Append(processQueue, Head(inputQueue))
    BY <1>3 DEF InputForwards, InputHasLock, contextVars, Types, InputType
  <2>2. Range(processQueue') = Range(processQueue) \cup {Head(inputQueue)}
    <3>1. Head(inputQueue) \in BatchType
      BY <2>1, OneLess DEF Types
    <3> QED BY <2>1, <3>1, LongerRange DEF Types
  <2>3. InferredBatches' = InferredBatches
    BY <1>1, <2>1, <2>2 DEF InferredBatches
  <2> QED BY <1>1, <2>1, <2>3, ContextStands
<1>4. CASE InputTakes
  <2>1. /\ UNCHANGED <<processQueue, queued>> /\ input'.at = "queue" /\ input'.ctx = current
        /\ input.at \in {"loop", "lock"} /\ ~stop
    BY <1>4 DEF InputTakes, InputHasLock, contextVars
  <2>2. InferredBatches' = InferredBatches
    BY <1>1, <2>1 DEF InferredBatches
  <2>3. current # 0
    BY <2>1 DEF HandsInv, Types
  <2> QED BY <1>1, <2>1, <2>2, <2>3, ContextStands
<1>5. CASE InputQueues
  <2>1. input.at = "queue" /\ UNCHANGED processQueue
    BY <1>5 DEF InputQueues
  <2>2. input.ctx \in Contexts /\ input.batch \in BatchType /\ input.batch # NoBatch
    BY <2>1, ContextsAre, LineType DEF HandsInv, Batches
  <2>3. streamer.at # "queued"
    BY <2>1 DEF HandsInv
  <2>4. CASE Inferred(input.ctx, input.batch) /\ input' = [input EXCEPT !.at = "relock"]
    <3>1. input'.at = "relock" /\ input'.batch = input.batch
      BY <2>4 DEF Types, InputType
    <3>2. InferredBatches' = InferredBatches \cup {input.batch}
      BY <1>1, <2>1, <2>2, <3>1 DEF InferredBatches
    <3>3. InferredBatches \subseteq Range(OutputSide)
      <4>1. output.at \in {"infer", "dequeue", "crashed"} => output.batch # NoBatch
        BY DEF HandsInv
      <4> QED BY <2>1, <2>3, <4>1, LineType DEF InferredBatches
    <3>4. \A x \in InferredBatches : Ahead(x, input.batch)
      <4>1. input.batch \in Range(InputSide) /\ InOrder(OutputSide \o InputSide)
        BY <2>2, LineType DEF LineInv, Line
      <4>2. OutputSide \in Seq(BatchType) /\ InputSide \in Seq(BatchType)
        BY LineType
      <4>3. \A x \in Range(OutputSide), y \in Range(InputSide) : Ahead(x, y)
        BY <4>1, <4>2, FrontFirst
      <4> QED BY <3>3, <4>1, <4>3
    <3> SUFFICES ASSUME NEW b, b = input.batch, NEW c, c = input.ctx PROVE ContextInv'
      OBVIOUS
    <3>5. InferredBatches' = InferredBatches \cup {b} /\ input'.at # "queue"
      BY <3>1, <3>2
    <3> QED BY <1>1, <2>1, <2>2, <2>4, <3>4, <3>5, ContextGrows
  <2>5. CASE UNCHANGED contextVars /\ input' = [input EXCEPT !.at = "relock", !.batch = NoBatch]
    <3>1. input'.at = "relock" /\ input'.batch = NoBatch
      BY <2>5 DEF Types, InputType
    <3>2. InferredBatches' = InferredBatches
      BY <1>1, <2>1, <3>1 DEF InferredBatches
    <3> QED BY <1>1, <2>5, <3>1, <3>2, ContextStands DEF contextVars
  <2> QED BY <1>5, <2>4, <2>5 DEF InputQueues
<1>6. CASE InputMoves
  <2>1. input.at = "relock" /\ input'.at = "loop" /\ UNCHANGED queued
    BY <1>6 DEF InputMoves, contextVars, Types, InputType
  <2>2. InferredBatches' = InferredBatches
    <3>1. CASE input.batch = NoBatch
      <4>1. UNCHANGED processQueue
        BY <1>6, <3>1 DEF InputMoves
      <4> QED BY <1>1, <2>1, <3>1, <4>1 DEF InferredBatches
    <3>2. CASE input.batch # NoBatch
      <4>1. processQueue' = Append(processQueue, input.batch) /\ input.batch \in BatchType
        BY <1>6, <3>2, LineType DEF InputMoves, Batches
      <4>2. Range(processQueue') = Range(processQueue) \cup {input.batch}
        BY <4>1, LongerRange DEF Types
      <4>3. input.batch.kind = "infer"
        BY <3>2 DEF HandsInv
      <4> QED BY <1>1, <2>1, <3>2, <4>2, <4>3 DEF InferredBatches
    <3> QED BY <3>1, <3>2
  <2> QED BY <1>1, <2>1, <2>2, ContextStands
<1> QED BY <1>2, <1>3, <1>4, <1>5, <1>6 DEF InputStep

\* So does the output loop.
LEMMA OutputsContext ==
    ASSUME Types, Types', HandsInv, LineInv, ContextInv, OutputStep
    PROVE  ContextInv'
<1>1. UNCHANGED <<input, streamer, items, current>> /\ Current' = Current
  <2>1. UNCHANGED <<input, streamer, items, current>>
    BY DEF OutputStep, OutputEnds, OutputWaits, OutputSkips, OutputTakes, OutputPushes,
       OutputContext, OutputDequeues, OutputAttaches, elementVars, modelVars, historyVars
  <2> QED BY <2>1 DEF Current
<1>2. CASE OutputEnds \/ OutputWaits \/ OutputPushes \/ OutputAttaches
  <2>1. /\ UNCHANGED <<processQueue, queued>> /\ output'.at \in {"ended", "lock", "loop"}
        /\ output.at \in {"loop", "lock", "push", "attach"}
    BY <1>2 DEF OutputEnds, OutputWaits, OutputPushes, OutputAttaches, OutputHasLock, elementVars,
       contextVars, Types, OutputType
  <2>2. InferredBatches' = InferredBatches
    BY <1>1, <2>1 DEF InferredBatches
  <2> QED BY <1>1, <2>1, <2>2, ContextStands
<1>3. CASE OutputSkips
  <2>1. /\ UNCHANGED queued /\ output'.at = "loop" /\ output.at \in {"loop", "lock"}
        /\ processQueue # <<>> /\ processQueue' = Tail(processQueue)
        /\ Head(processQueue).kind # "infer"
    BY <1>3 DEF OutputSkips, OutputHasLock, Taken, contextVars, Types, OutputType
  <2>2. Range(processQueue) = {Head(processQueue)} \cup Range(processQueue')
    BY <2>1, OneLess DEF Types
  <2>3. InferredBatches' = InferredBatches
    BY <1>1, <2>1, <2>2 DEF InferredBatches
  <2> QED BY <1>1, <2>1, <2>3, ContextStands
<1>4. CASE OutputTakes
  <2>1. /\ UNCHANGED queued /\ output.at \in {"loop", "lock"}
        /\ processQueue # <<>> /\ processQueue' = Tail(processQueue)
        /\ output'.at = Head(processQueue).kind /\ output'.batch = Head(processQueue)
        /\ Head(processQueue).kind \in {"push", "infer"}
    BY <1>4 DEF OutputTakes, OutputHasLock, Taken, contextVars, Types, OutputType
  <2>2. Range(processQueue) = {Head(processQueue)} \cup Range(processQueue')
    BY <2>1, OneLess DEF Types
  <2>3. InferredBatches' = InferredBatches
    BY <1>1, <2>1, <2>2 DEF InferredBatches
  <2> QED BY <1>1, <2>1, <2>3, ContextStands
<1>5. CASE OutputContext
  <2>1. /\ UNCHANGED <<processQueue, queued>> /\ output.at = "infer" /\ output'.batch = output.batch
        /\ output'.at = IF current = 0 THEN "crashed" ELSE "dequeue"
        /\ output'.ctx = current
    BY <1>5 DEF OutputContext, elementVars, contextVars, Types, OutputType
  <2>2. InferredBatches' = InferredBatches
    BY <1>1, <2>1 DEF InferredBatches
  <2> QED BY <1>1, <2>1, <2>2, ContextStands
<1>6. CASE OutputDequeues
  BY <1>6, ContextShrinks
<1> QED BY <1>2, <1>3, <1>4, <1>5, <1>6 DEF OutputStep

\* So does every step.
LEMMA ContextKept ==
    ASSUME Types, Types', HandsInv, LineInv, ContextInv, [Next]_vars
    PROVE  ContextInv'
<1>1. CASE SendEvent \/ \E parts \in config.shapes : SubmitBuffer(parts)
  <2>1. /\ UNCHANGED <<queued, current, input, output>> /\ ~Busy /\ streamer'.at \in {"part", "flush"}
        /\ {b \in Range(processQueue') : b.kind = "infer"} = {b \in Range(processQueue) : b.kind = "infer"}
    BY <1>1, ArrivalEffect
  <2>2. InferredBatches' = InferredBatches
    BY <2>1 DEF InferredBatches, Busy
  <2> QED BY <2>1, <2>2, ContextStands
<1>2. CASE \/ LoadModel \/ ModelLoaded
           \/ \E n \in DOMAIN items : Released(n)
           \/ Stop \/ AppStep \/ UNCHANGED vars
  <2>1. UNCHANGED <<processQueue, input, output, items, streamer>>
    BY <1>2, OtherEffect
  <2>2. UNCHANGED queued /\ current' \in {current, 0}
    BY <1>2 DEF LoadModel, ModelLoaded, Released, Stop, AppStep, StopWaits, StopThreads, StopContext,
       Joined, vars, modelVars, contextVars
  <2> QED BY <2>1, <2>2, SameInferred, ContextStands
<1> QED BY <1>1, <1>2, StreamerContext, InputContext, OutputsContext DEF Next

--------------------------------------------------------------------------------
(* Output buffers *)

Kept(c) == {h \in held : h[3] = c}
InHand(c) == IF output.at = "attach" /\ output.ctx = c THEN 1 ELSE 0

\* The numbers in the account of the output buffers.
LEMMA PoolTypes ==
    ASSUME Types, PoolInv
    PROVE  /\ IsFiniteSet(held)
           /\ \A c \in Contexts :
                 /\ size[c] \in Nat /\ free[c] \in Nat /\ Len(queued[c]) \in Nat
                 /\ IsFiniteSet(Kept(c)) /\ Cardinality(Kept(c)) \in Nat /\ InHand(c) \in Nat
                 /\ size[c] = free[c] + Len(queued[c]) + Cardinality(Kept(c)) + InHand(c)
<1>1. IsFiniteSet(held)
  BY DEF PoolInv
<1>2. \A c \in Contexts : IsFiniteSet(Kept(c)) /\ Cardinality(Kept(c)) \in Nat
  BY <1>1, FS_Subset, FS_CardinalityType DEF Kept
<1>3. \A c \in Contexts : size[c] \in Nat /\ free[c] \in Nat /\ Len(queued[c]) \in Nat
  BY DEF Types
<1>4. \A c \in Contexts : size[c] = free[c] + Len(queued[c]) + Cardinality(Kept(c)) + InHand(c)
  BY DEF PoolInv, OutputBuffersAccounted, Kept, InHand
<1> QED BY <1>1, <1>2, <1>3, <1>4 DEF InHand

\* The account of the output buffers, context by context.
LEMMA PoolFrom ==
    ASSUME IsFiniteSet(held)',
           \A c \in Contexts :
               size'[c] = free'[c] + Len(queued'[c]) + Cardinality(Kept(c)') + InHand(c)'
    PROVE  PoolInv'
  BY DEF PoolInv, OutputBuffersAccounted, Kept, InHand

\* It depends on the pools, the queues, the metadata and the hand of the output loop.
LEMMA PoolStands ==
    ASSUME PoolInv, UNCHANGED <<size, free, queued, held>>,
           output'.at = "attach" \/ output.at = "attach" => UNCHANGED output
    PROVE  PoolInv'
  BY DEF PoolInv, OutputBuffersAccounted

\* Inference takes an output buffer, from an enlarged pool if need be.
LEMMA PoolInferred ==
    ASSUME Types, PoolInv, NEW c \in Contexts, NEW b \in BatchType, Inferred(c, b),
           UNCHANGED <<held, output>>
    PROVE  PoolInv'
<1>1. /\ size' \in [Contexts -> Nat] /\ free' \in [Contexts -> Nat]
      /\ \A d \in Contexts : d # c => size'[d] = size[d] /\ free'[d] = free[d] /\ queued'[d] = queued[d]
      /\ size'[c] - free'[c] = size[c] - free[c] + 1
      /\ queued'[c] = Append(queued[c], b)
  BY InferredTypes
<1>2. queued[c] \in Seq(BatchType)
  BY DEF Types
<1>3. Len(queued'[c]) = Len(queued[c]) + 1 /\ Len(queued[c]) \in Nat
  BY <1>1, <1>2
<1>4. \A d : Kept(d)' = Kept(d) /\ InHand(d)' = InHand(d)
  BY DEF Kept, InHand
<1> SUFFICES ASSUME NEW d \in Contexts
             PROVE  size'[d] = free'[d] + Len(queued'[d]) + Cardinality(Kept(d)') + InHand(d)'
  BY PoolTypes, PoolFrom
<1>5. CASE d = c
  <2>1. size'[c] \in Nat /\ free'[c] \in Nat
    BY <1>1
  <2>2. /\ size[c] = free[c] + Len(queued[c]) + Cardinality(Kept(c)) + InHand(c)
        /\ size[c] \in Nat /\ free[c] \in Nat /\ Cardinality(Kept(c)) \in Nat /\ InHand(c) \in Nat
    BY PoolTypes
  <2>3. size'[c] - free'[c] = size[c] - free[c] + 1
    BY <1>1
  <2> DEFINE s == size[c]  f == free[c]  ss == size'[c]  ff == free'[c]
             l == Len(queued[c])  k == Cardinality(Kept(c))  h == InHand(c)
  <2>4. {s, f, ss, ff, l, k, h} \subseteq Nat /\ s = f + l + k + h /\ ss - ff = s - f + 1
    BY <1>3, <2>1, <2>2, <2>3
  <2>5. ss = ff + (l + 1) + k + h
    <3> HIDE DEF s, f, ss, ff, l, k, h
    <3> QED BY <2>4
  <2> QED BY <1>3, <1>4, <1>5, <2>5
<1>6. CASE d # c
  BY <1>1, <1>4, <1>6, PoolTypes
<1> QED BY <1>5, <1>6

\* The output loop takes the results in its hand, or gives the buffer back at once.
LEMMA PoolDequeues ==
    ASSUME Types, ContextInv, PoolInv, OutputDequeues
    PROVE  PoolInv'
<1>1. /\ output.at = "dequeue" /\ queued[output.ctx] # <<>>
      /\ queued' = [queued EXCEPT ![output.ctx] = Tail(@)]
      /\ UNCHANGED <<size, held>>
      /\ \/ output'.at = "attach" /\ output'.ctx = output.ctx /\ UNCHANGED free
         \/ output'.at = "lock" /\ free' = Recycled(output.ctx)
  BY DEF OutputDequeues, Types, OutputType
<1> SUFFICES ASSUME NEW c, c = output.ctx PROVE PoolInv'
  OBVIOUS
<1>2. c \in Contexts
  BY <1>1, ContextsAre
<1>3. queued[c] \in Seq(BatchType) /\ queued[c] # <<>>
  BY <1>1, <1>2 DEF Types
<1>4. /\ queued'[c] = Tail(queued[c]) /\ \A d \in Contexts : d # c => queued'[d] = queued[d]
      /\ Len(Tail(queued[c])) = Len(queued[c]) - 1
  BY <1>1, <1>2, <1>3, OneLess DEF Types
<1>5. \A d : Kept(d)' = Kept(d)
  BY <1>1 DEF Kept
<1>6. \A d \in Contexts : free'[d] + InHand(d)' = free[d] + (IF d = c THEN 1 ELSE 0)
  <2>1. CASE output'.at = "attach" /\ output'.ctx = output.ctx /\ UNCHANGED free
    BY <2>1, PoolTypes DEF InHand
  <2>2. CASE output'.at = "lock" /\ free' = Recycled(output.ctx)
    BY <1>2, <2>2, PoolTypes, RecycledTypes DEF InHand
  <2> QED BY <1>1, <2>1, <2>2
<1>7. \A d \in Contexts : free'[d] \in Nat /\ InHand(d)' \in Nat
  <2>1. CASE UNCHANGED free
    BY <2>1, PoolTypes DEF InHand
  <2>2. CASE free' = Recycled(output.ctx)
    BY <1>2, <2>2, RecycledTypes DEF InHand
  <2> QED BY <1>1, <2>1, <2>2
<1> SUFFICES ASSUME NEW d \in Contexts
             PROVE  size'[d] = free'[d] + Len(queued'[d]) + Cardinality(Kept(d)') + InHand(d)'
  BY <1>1, PoolTypes, PoolFrom
<1>8. InHand(d) = 0
  BY <1>1 DEF InHand
<1>9. CASE d = c
  <2>1. /\ size[c] = free[c] + Len(queued[c]) + Cardinality(Kept(c)) + InHand(c)
        /\ free[c] \in Nat /\ Cardinality(Kept(c)) \in Nat /\ Len(queued[c]) \in Nat
    BY <1>2, PoolTypes
  <2>2. /\ Len(queued'[c]) = Len(queued[c]) - 1 /\ size'[c] = size[c] /\ InHand(c) = 0
        /\ free'[c] \in Nat /\ InHand(c)' \in Nat /\ free'[c] + InHand(c)' = free[c] + 1
    BY <1>1, <1>2, <1>4, <1>6, <1>7, <1>8, <1>9
  <2> DEFINE s == size[c]  f == free[c]  ff == free'[c]  hh == InHand(c)'
             l == Len(queued[c])  k == Cardinality(Kept(c))
  <2>3. {s, f, ff, hh, l, k} \subseteq Nat /\ ff + hh = f + 1
    BY <1>2, <2>1, <2>2, PoolTypes
  <2>4. s = f + l + k
    BY <2>1, <2>2
  <2>5. s = ff + (l - 1) + k + hh
    <3> HIDE DEF s, f, ff, hh, l, k
    <3> QED BY <2>3, <2>4
  <2> QED BY <1>5, <1>9, <2>2, <2>5
<1>10. CASE d # c
  <2>1. /\ size'[d] = size[d] /\ queued'[d] = queued[d] /\ Kept(d)' = Kept(d)
        /\ free'[d] + InHand(d)' = free[d] /\ free'[d] \in Nat /\ InHand(d)' \in Nat
    BY <1>1, <1>4, <1>5, <1>6, <1>7, <1>10, PoolTypes
  <2>2. /\ size[d] = free[d] + Len(queued[d]) + Cardinality(Kept(d)) + InHand(d)
        /\ free[d] \in Nat /\ Cardinality(Kept(d)) \in Nat /\ Len(queued[d]) \in Nat
    BY PoolTypes
  <2> DEFINE f == free[d]  ff == free'[d]  hh == InHand(d)'
             l == Len(queued[d])  k == Cardinality(Kept(d))
  <2>3. /\ {f, ff, hh, l, k} \subseteq Nat /\ ff + hh = f /\ size[d] = f + l + k
    BY <1>8, <2>1, <2>2
  <2>4. size[d] = ff + l + k + hh
    <3> HIDE DEF f, ff, hh, l, k
    <3> QED BY <2>3
  <2> QED BY <2>1, <2>4
<1> QED BY <1>9, <1>10

\* It gives it to the metadata, or back.
LEMMA PoolAttaches ==
    ASSUME Types, HandsInv, ContextInv, HeldInv, PoolInv, OutputAttaches
    PROVE  PoolInv'
<1>1. /\ output.at = "attach" /\ UNCHANGED <<size, queued>> /\ output'.at = "loop"
      /\ \/ /\ held' = held \cup {<<output.batch.n, output.batch.part, output.ctx>>}
            /\ UNCHANGED free
         \/ free' = Recycled(output.ctx) /\ UNCHANGED held
  BY DEF OutputAttaches, Types, OutputType
<1> SUFFICES ASSUME NEW c, c = output.ctx PROVE PoolInv'
  OBVIOUS
<1>2. c \in Contexts
  BY <1>1, ContextsAre
<1>3. \A d \in Contexts : InHand(d)' = 0 /\ InHand(d) = IF d = c THEN 1 ELSE 0
  BY <1>1 DEF InHand
<1>4. CASE free' = Recycled(output.ctx) /\ UNCHANGED held
  <2>1. \A d \in Contexts : free'[d] = free[d] + (IF d = c THEN 1 ELSE 0) /\ Kept(d)' = Kept(d)
    BY <1>2, <1>4, PoolTypes, RecycledTypes DEF Kept
  <2>2. \A d \in Contexts :
            size'[d] = free'[d] + Len(queued'[d]) + Cardinality(Kept(d)') + InHand(d)'
    BY <1>1, <1>3, <2>1, PoolTypes
  <2> QED BY <1>4, <2>2, PoolTypes, PoolFrom
<1>5. CASE /\ held' = held \cup {<<output.batch.n, output.batch.part, output.ctx>>}
           /\ UNCHANGED free
  <2> SUFFICES ASSUME NEW h, h = <<output.batch.n, output.batch.part, output.ctx>> PROVE PoolInv'
    OBVIOUS
  <2>1. output.batch # NoBatch /\ output.batch.kind = "infer"
    BY <1>1 DEF HandsInv
  <2>2. output.batch \in BatchType /\ output.batch \in Range(Line)
    BY <2>1, LineType DEF Batches
  <2>3. h \notin held
    <3>1. h[1] = output.batch.n /\ h[2] = output.batch.part /\ h[1] \in Nat /\ h[2] \in Nat
      BY <2>2 DEF BatchType
    <3> QED BY <2>1, <2>2, <3>1 DEF HeldInv
  <2>4. held' = held \cup {h} /\ h[3] = c
    BY <1>5
  <2>5. IsFiniteSet(held')
    BY <2>4, PoolTypes, FS_AddElement
  <2>6. \A d \in Contexts : Cardinality(Kept(d)') = Cardinality(Kept(d)) + (IF d = c THEN 1 ELSE 0)
    <3> SUFFICES ASSUME NEW d \in Contexts
                 PROVE  Cardinality(Kept(d)') = Cardinality(Kept(d)) + (IF d = c THEN 1 ELSE 0)
      OBVIOUS
    <3>1. IsFiniteSet(Kept(d)) /\ Cardinality(Kept(d)) \in Nat /\ h \notin Kept(d)
      BY <2>3, PoolTypes DEF Kept
    <3>2. CASE d = c
      <4>1. Kept(d)' = Kept(d) \cup {h}
        BY <2>4, <3>2 DEF Kept
      <4>2. Cardinality(Kept(d) \cup {h}) = Cardinality(Kept(d)) + 1
        BY <3>1, FS_AddElement
      <4> QED BY <3>2, <4>1, <4>2
    <3>3. CASE d # c
      <4>1. Kept(d)' = Kept(d)
        BY <2>4, <3>3 DEF Kept
      <4> QED BY <3>1, <3>3, <4>1
    <3> QED BY <3>2, <3>3
  <2>7. \A d \in Contexts :
            size'[d] = free'[d] + Len(queued'[d]) + Cardinality(Kept(d)') + InHand(d)'
    BY <1>1, <1>3, <1>5, <2>6, PoolTypes
  <2> QED BY <2>5, <2>7, PoolFrom
<1> QED BY <1>1, <1>4, <1>5

\* Downstream gives back all that the metadata of a buffer kept.
LEMMA PoolReleased ==
    ASSUME Types, PoolInv, NEW n, Released(n)
    PROVE  PoolInv'
<1>1. /\ held' = {h \in held : h[1] # n}
      /\ free' = [c \in Contexts |-> free[c] + Cardinality({h \in held : h[1] = n /\ h[3] = c})]
      /\ UNCHANGED <<queued, size, output>>
  BY DEF Released
<1>2. IsFiniteSet(held')
  BY <1>1, PoolTypes, FS_Subset
<1> SUFFICES ASSUME NEW c \in Contexts
             PROVE  size'[c] = free'[c] + Len(queued'[c]) + Cardinality(Kept(c)') + InHand(c)'
  BY <1>2, PoolFrom
<1> DEFINE T == {h \in held : h[1] = n /\ h[3] = c}
<1>3. Kept(c) = Kept(c)' \cup T /\ Kept(c)' \cap T = {}
  BY <1>1 DEF Kept
<1>4. free'[c] = free[c] + Cardinality(T) /\ InHand(c)' = InHand(c)
  BY <1>1 DEF InHand
<1>5. IsFiniteSet(Kept(c)') /\ IsFiniteSet(T) /\ Cardinality(Kept(c)') \in Nat /\ Cardinality(T) \in Nat
  <2>1. T \subseteq held /\ Kept(c)' \subseteq held
    BY <1>1 DEF Kept
  <2> QED BY <2>1, PoolTypes, FS_Subset, FS_CardinalityType
<1> HIDE DEF T
<1>6. Cardinality(Kept(c)) = Cardinality(Kept(c)') + Cardinality(T)
  <2>1. Cardinality(Kept(c)' \cup T) =
            Cardinality(Kept(c)') + Cardinality(T) - Cardinality(Kept(c)' \cap T)
    BY <1>5, FS_Union
  <2> QED BY <1>3, <1>5, <2>1, FS_EmptySet
<1> QED BY <1>1, <1>4, <1>5, <1>6, PoolTypes

\* Every step keeps the account of the output buffers.
LEMMA PoolKept ==
    ASSUME Types, HandsInv, ContextInv, HeldInv, PoolInv, [Next]_vars
    PROVE  PoolInv'
<1>1. CASE SendEvent \/ \E parts \in config.shapes : SubmitBuffer(parts)
  <2>1. UNCHANGED <<size, free, queued, held, output>>
    BY <1>1, ArrivalEffect
  <2> QED BY <2>1, PoolStands
<1>2. CASE StreamerStep
  <2>1. UNCHANGED <<held, output>>
    BY <1>2, JoinEffect, StreamerEffect
  <2>2. CASE QueueTensor
    <3>1. CASE Inferred(current, Batch("infer", Current, streamer.part))
      <4>1. current \in Contexts
        BY <2>2 DEF QueueTensor, HandsInv, Busy, Types
      <4>2. Batch("infer", Current, streamer.part) \in BatchType
        <5>1. streamer.part \in Nat
          BY DEF Types, StreamerType
        <5> QED BY <5>1, CurrentType, BatchesAre
      <4> QED BY <2>1, <3>1, <4>1, <4>2, PoolInferred
    <3>2. CASE UNCHANGED contextVars
      BY <2>1, <3>2, PoolStands DEF contextVars
    <3> QED BY <2>2, <3>1, <3>2 DEF QueueTensor
  <2>3. CASE ~QueueTensor
    <3>1. UNCHANGED contextVars
      BY <1>2, <2>3 DEF StreamerStep, Acquire, PushBatch, ConvertFails, PushTensor, PushBuffer, PushAtOnce,
         FlushWaits, Flushed
    <3> QED BY <2>1, <3>1, PoolStands DEF contextVars
  <2> QED BY <2>2, <2>3
<1>3. CASE InputStep
  <2>1. UNCHANGED <<held, output>>
    BY <1>3, InputEffect
  <2>2. CASE InputQueues
    <3>1. CASE Inferred(input.ctx, input.batch)
      <4>1. input.ctx \in Contexts /\ input.batch \in BatchType
        BY <2>2, ContextsAre, LineType DEF InputQueues, HandsInv, Batches
      <4> QED BY <2>1, <3>1, <4>1, PoolInferred
    <3>2. CASE UNCHANGED contextVars
      BY <2>1, <3>2, PoolStands DEF contextVars
    <3> QED BY <2>2, <3>1, <3>2 DEF InputQueues
  <2>3. CASE ~InputQueues
    <3>1. UNCHANGED contextVars
      BY <1>3, <2>3 DEF InputStep, InputEnds, InputWaits, InputForwards, InputTakes, InputMoves
    <3> QED BY <2>1, <3>1, PoolStands DEF contextVars
  <2> QED BY <2>2, <2>3
<1>4. CASE OutputStep /\ ~OutputDequeues /\ ~OutputAttaches
  <2>1. UNCHANGED <<size, free, queued, held>>
    BY <1>4 DEF OutputStep, OutputEnds, OutputWaits, OutputSkips, OutputTakes, OutputPushes,
       OutputContext, contextVars
  <2>2. output'.at # "attach" /\ output.at # "attach"
    <3>1. CASE OutputEnds \/ OutputWaits \/ OutputSkips \/ OutputPushes \/ OutputContext
      BY <3>1 DEF OutputEnds, OutputWaits, OutputSkips, OutputPushes, OutputContext, OutputHasLock,
         Types, OutputType
    <3>2. CASE OutputTakes
      BY <3>2 DEF OutputTakes, OutputHasLock, Types, OutputType
    <3> QED BY <1>4, <3>1, <3>2 DEF OutputStep
  <2> QED BY <2>1, <2>2, PoolStands
<1>5. CASE OutputDequeues \/ OutputAttaches
  BY <1>5, PoolDequeues, PoolAttaches
<1>6. CASE \E n \in DOMAIN items : Released(n)
  BY <1>6, PoolReleased
<1>7. CASE LoadModel \/ ModelLoaded \/ Stop \/ AppStep \/ UNCHANGED vars
  <2>1. UNCHANGED <<size, free, queued, held, output>>
    BY <1>7 DEF LoadModel, ModelLoaded, Stop, AppStep, StopWaits, StopThreads, StopContext, Joined,
       vars, contextVars
  <2> QED BY <2>1, PoolStands
<1> QED BY <1>1, <1>2, <1>3, <1>4, <1>5, <1>6, <1>7 DEF Next, OutputStep

--------------------------------------------------------------------------------
(* The theorems *)

\* The invariant holds at first.
LEMMA InferInit == Init => InferInv
<1> SUFFICES ASSUME Init PROVE InferInv
  OBVIOUS
<1>1. /\ config.mode \in Modes /\ config.out \in Nat \ {0} /\ ConvPool \in Nat \ {0} /\ MaxModels \in Nat \ {0}
  BY ConfigTypes DEF Init
<1>2. 1 \in Contexts /\ 0 \notin Contexts
  BY <1>1 DEF Contexts
<1>3. Types
  <2>1. <<>> \in Seq(BatchType) /\ <<>> \in Seq({"infer", "attach"}) /\ <<>> \in Seq(Nat)
        /\ <<>> \in Seq({"buffer", "event"})
    OBVIOUS
  <2>2. streamer \in StreamerType /\ input \in InputType /\ output \in OutputType
    BY <2>1 DEF Init, IdleStreamer, StreamerType, InputType, OutputType, Batches
  <2> QED BY <1>1, <1>2, <2>1, <2>2 DEF Init, Types
<1>4. HandsInv
  BY DEF Init, HandsInv, IdleStreamer, Busy, HasInputThread
<1>5. Line = <<>>
  <2>1. <<>> \o <<>> = <<>>
    BY ConcatEmptySeq
  <2> QED BY <2>1 DEF Init, Line, OutputSide, InputSide, Hand
<1>6. LineInv
  BY <1>5, EmptyIsShort DEF LineInv, Init, IdleStreamer
<1>7. LeaveInv
  <2>1. Current = 0 /\ left = <<>> /\ gone = {}
    BY DEF Init, Current
  <2> QED BY <1>5, <2>1, EmptyIsShort DEF LeaveInv, Waiting, Pushes
<1>8. ContextInv
  <2>1. InferredBatches = {}
    BY EmptyIsShort DEF InferredBatches, Init, IdleStreamer
  <2>2. InUse(1)
    BY <1>2, <2>1, EmptyIsShort DEF InUse, Init
  <2> QED BY <1>2, <2>2 DEF ContextInv, OutputsMatch, Init
<1>9. HeldInv
  BY DEF HeldInv, Init
<1>10. PoolInv
  <2>1. IsFiniteSet({}) /\ Cardinality({}) = 0
    BY FS_EmptySet
  <2>2. held = {} /\ \A c \in Contexts : {h \in held : h[3] = c} = {}
    BY DEF Init
  <2>3. \A c \in Contexts : size[c] = config.out /\ free[c] = config.out /\ Len(queued[c]) = 0
    BY DEF Init
  <2>4. output.at # "attach"
    BY DEF Init
  <2> QED BY <1>1, <2>1, <2>2, <2>3, <2>4 DEF PoolInv, OutputBuffersAccounted
<1>11. ConvInv
  <2>1. Converting = {} /\ convFree = ConvPool
    BY EmptyIsShort DEF Converting, Init, IdleStreamer
  <2> QED BY <1>1, <2>1, FS_EmptySet DEF ConvInv
<1> QED BY <1>3, <1>4, <1>6, <1>7, <1>8, <1>9, <1>10, <1>11 DEF InferInv

\* Every step keeps it.
LEMMA InferStep == InferInv /\ [Next]_vars => InferInv'
<1> SUFFICES ASSUME InferInv, [Next]_vars PROVE InferInv'
  OBVIOUS
<1>1. Types /\ HandsInv /\ LineInv /\ LeaveInv /\ ContextInv /\ HeldInv /\ PoolInv /\ ConvInv
  BY DEF InferInv
<1>2. Types'
  BY <1>1, TypesKept
<1>3. HandsInv'
  BY <1>1, HandsKept
<1>4. LineInv'
  BY <1>1, <1>2, LineKept
<1>5. LeaveInv'
  BY <1>1, LeaveKept
<1>6. ContextInv'
  BY <1>1, <1>2, ContextKept
<1>7. HeldInv'
  BY <1>1, <1>2, HeldKept
<1>8. PoolInv'
  BY <1>1, PoolKept
<1>9. ConvInv'
  BY <1>1, <1>2, <1>3, ConvKept
<1> QED BY <1>2, <1>3, <1>4, <1>5, <1>6, <1>7, <1>8, <1>9 DEF InferInv

\* The inductive invariant: the queues and the hands of the threads are one line in the order of
\* arrival, and the context in use has queued what was inferred and not yet taken.
THEOREM InferInvariant == Spec => []InferInv
<1> QED BY InferInit, InferStep, PTL DEF Spec

\* Every variable is of its type, no pool has more free buffers than it has, and no output
\* buffer is lost when a batch fails: each is free, queued, in the output loop's hands or kept by
\* metadata (NvDsInferContextImpl's m_FreeBatchQueue, gst_nvinfer_output_loop).
THEOREM AccountsBuffers == Spec => []BuffersAccounted
<1>1. InferInv => BuffersAccounted
  <2> SUFFICES ASSUME InferInv PROVE BuffersAccounted
    OBVIOUS
  <2>1. Types /\ PoolInv /\ ConvInv
    BY DEF InferInv
  <2>2. convFree \in 0 .. ConvPool
    <3>1. convFree \in Nat /\ ConvPool \in Nat /\ Cardinality(Converting) \in Nat
      BY <2>1, ConfigTypes, FS_CardinalityType DEF Types, ConvInv
    <3> QED BY <2>1, <3>1 DEF ConvInv
  <2>3. \A c \in Contexts : free[c] \in 0 .. size[c]
    <3> SUFFICES ASSUME NEW c \in Contexts PROVE free[c] \in 0 .. size[c]
      OBVIOUS
    <3>1. /\ size[c] \in Nat /\ free[c] \in Nat /\ Len(queued[c]) \in Nat
          /\ Cardinality(Kept(c)) \in Nat /\ InHand(c) \in Nat
          /\ size[c] = free[c] + Len(queued[c]) + Cardinality(Kept(c)) + InHand(c)
      BY <2>1, PoolTypes
    <3> QED BY <3>1
  <2>4. TypeOK
    BY <2>1, <2>2, <2>3 DEF Types, TypeOK, StreamerType, InputType, OutputType, Batches
  <2> QED BY <2>1, <2>4 DEF BuffersAccounted, PoolInv
<1> QED BY <1>1, InferInvariant, PTL

\* A buffer goes downstream only after every batch of it was inferred and attached, so with its
\* results (submit_input_buffer on the push_buffer batch), in every mode but the asynchronous.
THEOREM ResultsFirst == Spec => []ResultsComeFirst
<1>1. InferInv => ResultsComeFirst
  <2> SUFFICES ASSUME InferInv, config.mode # "async", NEW n \in Range(left), NEW b \in Inside, b.n = n
               PROVE  b = output.batch /\ b.kind = "push"
    BY DEF ResultsComeFirst
  <2>1. Types /\ LineInv /\ LeaveInv
    BY DEF InferInv
  <2>2. b \in Range(Line)
    BY <2>1, InsideIsLine
  <2>3. n \in 1 .. Current
    BY <2>1 DEF LeaveInv
  <2>4. b.kind # "marker"
    BY <2>1, <2>2, <2>3 DEF LineInv
  <2>5. n < b.n
    BY <2>1, <2>2, <2>4 DEF LeaveInv
  <2> QED BY <2>3, <2>5
<1> QED BY <1>1, InferInvariant, PTL

\* The results that the output loop attaches are those of the batch it has in hand, also after
\* batches failed: process_queue and the queue of the context stay in step (dequeueOutputBatch).
THEOREM MatchesOutputs == Spec => []OutputsMatch
<1>1. InferInv => OutputsMatch
  BY DEF InferInv, ContextInv
<1> QED BY <1>1, InferInvariant, PTL

\* A context is replaced only when nothing is queued in the old one and neither thread is using
\* it (ensureReplaceNextContext, flushDataUnlock, resetContextUnlock).
THEOREM ReplacesIdle == Spec => []ReplacedWhenIdle
<1>1. InferInv => ReplacedWhenIdle
  BY DEF InferInv, ContextInv, InUse, ReplacedWhenIdle
<1> QED BY <1>1, InferInvariant, PTL

\* Every step is a step of the abstract stage, or none.
LEMMA StageStep == InferInv /\ InferInv' /\ [Next]_vars => [Stage!Next]_Stage!vars
<1> SUFFICES ASSUME InferInv, InferInv', [Next]_vars PROVE [Stage!Next]_Stage!vars
  OBVIOUS
<1>1. Types /\ HandsInv /\ LineInv /\ LeaveInv
  BY DEF InferInv
<1>2. Stage!Left = Range(left)
  BY DEF Stage!Left, Range
<1>3. Current \in Nat /\ gone \subseteq 1 .. Current /\ Current = Len(items) /\ Current' = Len(items')
  BY <1>1, LeaveTypes DEF Current
<1>4. CASE UNCHANGED <<items, gone, left>>
  BY <1>4 DEF Stage!vars
<1>5. CASE SendEvent \/ \E parts \in config.shapes : SubmitBuffer(parts)
  <2>1. Current' = Current + 1 /\ UNCHANGED <<gone, left>>
    BY <1>1, <1>5, ArrivalEffect
  <2> QED BY <1>3, <2>1 DEF Stage!Next, Stage!Enter
<1>6. ASSUME NEW n \in 1 .. Current, left' = Append(left, n), UNCHANGED <<items, gone>>,
             n \notin Range(left) \cup gone, \A m \in 1 .. (n - 1) : m \in Range(left) \cup gone
      PROVE  [Stage!Next]_Stage!vars
  <2>1. Stage!Leave(n)
    BY <1>2, <1>3, <1>6 DEF Stage!Leave
  <2> QED BY <1>3, <2>1 DEF Stage!Next
<1>7. CASE StreamerStep /\ ~(PushBatch \/ PushTensor \/ PushBuffer)
  <2>1. /\ UNCHANGED items /\ Current \in Nat \ {0} /\ Busy
        /\ \/ UNCHANGED <<gone, left>>
           \/ gone' = gone \cup {Current} /\ UNCHANGED left
           \/ /\ left' = Append(left, Current) /\ UNCHANGED gone
              /\ config.mode = "async" \/ Flushed
    BY <1>1, <1>7, StreamerEffect
  <2>2. Current \notin Range(left) \cup gone
    BY <1>1, <2>1 DEF LeaveInv
  <2>3. CASE gone' = gone \cup {Current} /\ UNCHANGED left
    <3>1. Stage!Drop
      BY <1>2, <1>3, <2>1, <2>2, <2>3 DEF Stage!Drop
    <3> QED BY <3>1 DEF Stage!Next
  <2>4. CASE /\ left' = Append(left, Current) /\ UNCHANGED gone
             /\ config.mode = "async" \/ Flushed
    <3>1. Pushes(Line) = {}
      BY <1>1, <2>4, FlushedLine, EmptyIsShort DEF LeaveInv, Pushes
    <3>2. \A m \in 1 .. (Current - 1) : m \in Range(left) \cup gone
      BY <1>1, <2>1, <3>1 DEF LeaveInv, Waiting
    <3> QED BY <1>6, <2>1, <2>2, <2>4, <3>2
  <2> QED BY <1>4, <2>1, <2>3, <2>4
<1>8. CASE PushBatch \/ PushTensor \/ PushBuffer
  BY <1>1, <1>4, <1>8, JoinEffect
<1>9. CASE InputStep
  BY <1>1, <1>4, <1>9, InputEffect
<1>10. CASE OutputStep /\ ~OutputPushes
  BY <1>1, <1>4, <1>10, OutputEffect DEF OutputStep
<1>11. CASE OutputPushes
  <2>1. UNCHANGED <<items, gone>>
    BY <1>11 DEF OutputPushes
  <2> SUFFICES ASSUME NEW b, b = output.batch PROVE [Stage!Next]_Stage!vars
    OBVIOUS
  <2>2. /\ b \in Range(Line) /\ b.kind = "push" /\ b \in BatchType
        /\ Range(Line) = {b} \cup Range(Line')
        /\ \A c \in Range(Line') : c.kind # "marker" => b.n < c.n
        /\ left' = Append(left, b.n)
    BY <1>1, <1>11, PushesHead
  <2>3. b.n \in 1 .. Current /\ ~(Busy /\ b.n = Current)
    BY <1>1, <2>2 DEF LineInv
  <2>4. b.n \notin Range(left) \cup gone
    BY <1>1, <2>2 DEF LeaveInv, Waiting, Pushes
  <2>5. \A m \in 1 .. (b.n - 1) : m \in Range(left) \cup gone
    <3> SUFFICES ASSUME NEW m \in 1 .. (b.n - 1), m \notin Range(left) \cup gone PROVE FALSE
      OBVIOUS
    <3>1. m \in 1 .. Current /\ m < b.n /\ b.n <= Current /\ m \in Nat /\ b.n \in Nat
      <4>1. Current \in Nat
        BY <1>1 DEF Types, Current
      <4>2. b.n \in 1 .. Current
        BY <2>3
      <4> HIDE DEF Current
      <4> QED BY <4>1, <4>2
    <3>2. m # Current
      BY <3>1
    <3>3. Waiting(m)
      BY <1>1, <3>1, <3>2 DEF LeaveInv
    <3>4. PICK c \in Range(Line) : c.kind = "push" /\ c.n = m
      BY <3>3 DEF Waiting, Pushes
    <3>5. CASE c = b
      BY <3>1, <3>4, <3>5
    <3>6. CASE c \in Range(Line')
      <4>1. b.n < m
        BY <2>2, <3>4, <3>6
      <4> QED BY <3>1, <4>1
    <3> QED BY <2>2, <3>4, <3>5, <3>6
  <2> QED BY <1>6, <2>1, <2>2, <2>3, <2>4, <2>5
<1>12. CASE \/ LoadModel \/ ModelLoaded
            \/ \E n \in DOMAIN items : Released(n)
            \/ Stop \/ AppStep \/ UNCHANGED vars
  BY <1>4, <1>12, OtherEffect
<1> QED BY <1>5, <1>7, <1>8, <1>9, <1>10, <1>11, <1>12 DEF Next

\* The element is a stage that keeps the order: buffers and events leave at most once, in the
\* order in which they came, and one that was refused does not leave.
THEOREM OrderedInference == Spec => IsOrderedStage
<1>1. Init => Stage!Init
  BY DEF Init, Stage!Init
<1>2. InferInv /\ InferInv' /\ [Next]_vars => [Stage!Next]_Stage!vars
  BY StageStep
<1> QED BY <1>1, <1>2, InferInvariant, PTL DEF Spec, IsOrderedStage, Stage!Spec
================================================================================
