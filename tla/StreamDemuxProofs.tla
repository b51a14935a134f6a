---------------------------- MODULE StreamDemuxProofs ----------------------------
(***************************************************************************)
(* Theorems about StreamDemux: the frames of every stream, the tables, and *)
(* what the pads announce.                                                 *)
(***************************************************************************)
EXTENDS StreamDemux, FiniteSetTheorems, TLAPS

Arrivals == [s : Streams, n : Nat]
Frames == [pad : Nat, s : Streams, n : Nat]
Reasons == {"unwanted", "refused", "abandoned"}

\* What the streaming thread may have in its hands.
Hands == [at : {"idle", "frame", "push", "start", "segment", "flagged", "eos"},
          s : Streams \cup {0}, pad : Nat, todo : Seq(Arrivals), data : Seq(Frames)]

\* The types of what the frames depend on.
FrameTypes ==
    /\ config \in Configs
    /\ pad_indexes \in [Streams -> Nat] /\ owner \in Seq(Streams)
    /\ streamer \in Hands
    /\ streamer.at = "flagged" => streamer.s \in Streams
    /\ arrived \in [Streams -> Nat] /\ left \in [Streams -> Seq(Nat)]
    /\ gone \subseteq Streams \X Nat \X Reasons

\* The frames of stream s that did not go out.
Gone(s) == {f[2] : f \in {g \in gone : g[1] = s}}

Finished(s) == Range(left[s]) \cup Gone(s)

\* The frames of stream s that are in the hands of the streaming thread.
Held(s) == {n \in Nat : \E f \in Range(streamer.todo) \cup Range(streamer.data) :
                            f.s = s /\ f.n = n}

\* What the streaming thread has in its hands: the frames of a stream in their order, those to
\* be pushed before those to look at.
HandsInv ==
    /\ streamer.at \notin {"frame", "push"} => streamer.todo = <<>> /\ streamer.data = <<>>
    /\ streamer.at = "push" => streamer.data # <<>>
    /\ streamer.at = "push" /\ config.isAudio => streamer.todo = <<>>
    /\ streamer.at = "frame" /\ ~config.isAudio => streamer.data = <<>>
    /\ ~config.isAudio => Len(streamer.data) <= 1
    /\ InOrder(streamer.todo) /\ InOrder(streamer.data)
    /\ \A f \in Range(streamer.data), g \in Range(streamer.todo) : f.s = g.s => f.n < g.n

\* Every frame that came is either finished or in the thread's hands.
FinishedInv ==
    \A s \in Streams :
        Finished(s) \cup Held(s) = 1 .. arrived[s] /\ Finished(s) \cap Held(s) = {}

FrameInv == FrameTypes /\ HandsInv /\ FinishedInv

--------------------------------------------------------------------------------
(* Sequences *)

LEMMA EmptyIsShort == Range(<<>>) = {} /\ InOrder(<<>>) /\ \A S : <<>> \in Seq(S)
  BY DEF Range, InOrder

LEMMA EmptyByLength == ASSUME NEW S, NEW q \in Seq(S) PROVE q = <<>> <=> Len(q) = 0
  OBVIOUS

\* The first element of a queue and the rest.
LEMMA FirstAndRest ==
    ASSUME NEW S, NEW q \in Seq(S), q # <<>>
    PROVE  /\ Tail(q) \in Seq(S) /\ Head(q) \in S /\ Head(q) = q[1] /\ 1 \in DOMAIN q
           /\ Len(Tail(q)) = Len(q) - 1 /\ Len(q) \in Nat /\ DOMAIN q = 1 .. Len(q)
           /\ DOMAIN Tail(q) = 1 .. (Len(q) - 1)
           /\ \A i \in DOMAIN Tail(q) : i + 1 \in DOMAIN q /\ Tail(q)[i] = q[i + 1]
           /\ \A i \in DOMAIN q : i # 1 => i - 1 \in DOMAIN Tail(q) /\ Tail(q)[i - 1] = q[i]
<1>1. /\ Len(q) \in Nat /\ DOMAIN q = 1 .. Len(q) /\ Len(q) > 0
      /\ Tail(q) \in Seq(S) /\ Head(q) = q[1] /\ Len(Tail(q)) = Len(q) - 1
      /\ DOMAIN Tail(q) = 1 .. (Len(q) - 1)
      /\ \A i \in 1 .. (Len(q) - 1) : Tail(q)[i] = q[i + 1]
  OBVIOUS
<1> QED BY <1>1

\* The first frame of a queue in order comes before the others of its stream.
LEMMA RestInOrder ==
    ASSUME NEW S, NEW q \in Seq(S), q # <<>>
    PROVE  /\ Range(q) = {Head(q)} \cup Range(Tail(q))
           /\ InOrder(q) => /\ InOrder(Tail(q))
                            /\ \A g \in Range(Tail(q)) : g.s = Head(q).s => Head(q).n < g.n
<1>1. ASSUME NEW x \in Range(q) PROVE x \in {Head(q)} \cup Range(Tail(q))
  <2>1. PICK i \in DOMAIN q : q[i] = x
    BY <1>1 DEF Range
  <2>2. CASE i = 1
    BY <2>1, <2>2, FirstAndRest
  <2>3. CASE i # 1
    <3>1. i - 1 \in DOMAIN Tail(q) /\ Tail(q)[i - 1] = x
      BY <2>1, <2>3, FirstAndRest
    <3> QED BY <3>1 DEF Range
  <2> QED BY <2>2, <2>3
<1>2. \A x \in {Head(q)} \cup Range(Tail(q)) : x \in Range(q)
  BY FirstAndRest DEF Range
<1>3. ASSUME InOrder(q)
      PROVE  /\ InOrder(Tail(q))
             /\ \A g \in Range(Tail(q)) : g.s = Head(q).s => Head(q).n < g.n
  <2>1. ASSUME NEW i \in DOMAIN Tail(q), NEW j \in DOMAIN Tail(q), i < j,
               Tail(q)[i].s = Tail(q)[j].s
        PROVE  Tail(q)[i].n < Tail(q)[j].n
    <3>1. /\ i + 1 \in DOMAIN q /\ j + 1 \in DOMAIN q /\ i + 1 < j + 1
          /\ Tail(q)[i] = q[i + 1] /\ Tail(q)[j] = q[j + 1]
      BY <2>1, FirstAndRest
    <3> QED BY <1>3, <2>1, <3>1 DEF InOrder
  <2>2. ASSUME NEW g \in Range(Tail(q)), g.s = Head(q).s PROVE Head(q).n < g.n
    <3>1. PICK i \in DOMAIN Tail(q) : Tail(q)[i] = g
      BY DEF Range
    <3>2. i + 1 \in DOMAIN q /\ q[i + 1] = g /\ 1 \in DOMAIN q /\ Head(q) = q[1] /\ 1 < i + 1
      BY <3>1, FirstAndRest
    <3> QED BY <1>3, <2>2, <3>2 DEF InOrder
  <2> QED BY <2>1, <2>2 DEF InOrder
<1> QED BY <1>1, <1>2, <1>3

LEMMA OneMore ==
    ASSUME NEW S, NEW q \in Seq(S), NEW x \in S
    PROVE  /\ Append(q, x) \in Seq(S) /\ Range(Append(q, x)) = Range(q) \cup {x}
           /\ Len(Append(q, x)) = Len(q) + 1 /\ Len(q) \in Nat
           /\ DOMAIN q = 1 .. Len(q) /\ DOMAIN Append(q, x) = 1 .. (Len(q) + 1)
           /\ \A i \in DOMAIN q : Append(q, x)[i] = q[i]
           /\ Append(q, x)[Len(q) + 1] = x
<1>1. /\ Len(q) \in Nat /\ DOMAIN q = 1 .. Len(q)
      /\ Append(q, x) \in Seq(S) /\ DOMAIN Append(q, x) = 1 .. (Len(q) + 1)
      /\ Len(Append(q, x)) = Len(q) + 1
      /\ \A i \in 1 .. Len(q) : Append(q, x)[i] = q[i]
      /\ Append(q, x)[Len(q) + 1] = x
  OBVIOUS
<1>2. \A y \in Range(Append(q, x)) : y \in Range(q) \cup {x}
  BY <1>1 DEF Range
<1>3. \A y \in Range(q) \cup {x} : y \in Range(Append(q, x))
  BY <1>1 DEF Range
<1> QED BY <1>1, <1>2, <1>3

\* A frame is added after the others of its stream.
LEMMA OneMoreInOrder ==
    ASSUME NEW S, NEW q \in Seq(S), NEW x \in S, InOrder(q),
           \A g \in Range(q) : g.s = x.s => g.n < x.n
    PROVE  InOrder(Append(q, x))
<1> DEFINE r == Append(q, x)
           k == Len(q)
<1>1. /\ k \in Nat /\ DOMAIN q = 1 .. k /\ DOMAIN r = 1 .. (k + 1)
      /\ \A i \in DOMAIN q : r[i] = q[i] /\ r[i] \in Range(q)
      /\ r[k + 1] = x
  BY OneMore DEF Range
<1> HIDE DEF r, k
<1> SUFFICES ASSUME NEW i \in DOMAIN r, NEW j \in DOMAIN r, i < j, r[i].s = r[j].s
             PROVE  r[i].n < r[j].n
  BY DEF InOrder, r
<1>2. CASE j = k + 1
  BY <1>1, <1>2
<1>3. CASE j # k + 1
  BY <1>1, <1>3 DEF InOrder
<1> QED BY <1>2, <1>3

--------------------------------------------------------------------------------
(* Frames that did not go out *)

\* The numbers of the frames of stream s in a set of <<stream, number>>.
Of(D, s) == {d[2] : d \in {e \in D : e[1] = s}}

\* Frames are given up.
LEMMA GivenUp ==
    ASSUME NEW s \in Streams, NEW D, D \subseteq Streams \X Nat, gone \subseteq gone',
           \A g \in gone' \ gone : \E d \in D, r \in Reasons : g = <<d[1], d[2], r>>,
           \A d \in D : \E r \in Reasons : <<d[1], d[2], r>> \in gone'
    PROVE  Gone(s)' = Gone(s) \cup Of(D, s)
<1>1. ASSUME NEW x \in Gone(s)' PROVE x \in Gone(s) \cup Of(D, s)
  <2>1. PICK g \in gone' : g[1] = s /\ g[2] = x
    BY DEF Gone
  <2>2. CASE g \in gone
    BY <2>1, <2>2 DEF Gone
  <2>3. CASE g \notin gone
    <3>1. PICK d \in D, r \in Reasons : g = <<d[1], d[2], r>>
      BY <2>3
    <3> QED BY <2>1, <3>1 DEF Of
  <2> QED BY <2>2, <2>3
<1>2. ASSUME NEW x \in Gone(s) PROVE x \in Gone(s)'
  BY DEF Gone
<1>3. ASSUME NEW x \in Of(D, s) PROVE x \in Gone(s)'
  <2>1. PICK d \in D : d[1] = s /\ d[2] = x
    BY DEF Of
  <2>2. PICK r \in Reasons : <<d[1], d[2], r>> \in gone'
    OBVIOUS
  <2>3. PICK g \in gone' : g = <<s, x, r>>
    BY <2>1, <2>2
  <2>4. g[1] = s /\ g[2] = x
    BY <2>3
  <2> QED BY <2>4 DEF Gone
<1> QED BY <1>1, <1>2, <1>3

\* What the abstract specification means by the frames that left and those that are gone.
LEMMA StageVariables ==
    ASSUME NEW s \in Streams
    PROVE  /\ Stage(s)!Left = Range(left[s])
           /\ {f[2] : f \in {g \in gone : g[1] = s}} = Gone(s)
  BY DEF Stage!Left, Gone, Range

--------------------------------------------------------------------------------
(* Steps that do not concern frames *)

LEMMA IdleType ==
    /\ Idle.at = "idle"
    /\ Idle \in Hands
  BY EmptyIsShort DEF Idle, Hands

LEMMA OtherStepsTypes ==
    ASSUME FrameTypes, UNCHANGED <<config, frameVars>>,
           \/ SinkCaps \/ PushStart \/ FindEosPad \/ PushEvent \/ ReleasePad
           \/ \E s \in Streams : \/ UpdateCaps(s) \/ ReceiveEvent(s, "start")
                                 \/ ReceiveEvent(s, "segment") \/ FlagEos(s)
                                 \/ RequestPad(s) \/ RequestTwice(s) \/ BeginRelease(s)
    PROVE  FrameTypes'
<1> USE DEF FrameTypes, frameVars, padVars, tableVars
<1>1. CASE SinkCaps \/ \E s \in Streams : UpdateCaps(s) \/ RequestTwice(s) \/ BeginRelease(s)
  BY <1>1 DEF SinkCaps, UpdateCaps, RequestTwice, BeginRelease
<1>2. CASE PushStart \/ PushEvent
  BY <1>2, IdleType DEF PushStart, PushEvent
<1>3. CASE FindEosPad
  <2>1. CASE pad_indexes[streamer.s] = 0
    BY <1>3, <2>1, IdleType DEF FindEosPad
  <2>2. CASE pad_indexes[streamer.s] # 0
    <3>1. streamer.s \in Streams
      BY <1>3 DEF FindEosPad
    <3> QED BY <1>3, <2>2, <3>1 DEF FindEosPad, Hands
  <2> QED BY <2>1, <2>2
<1>4. ASSUME NEW s \in Streams, NEW kind \in {"start", "segment"}, ReceiveEvent(s, kind)
      PROVE  FrameTypes'
  <2>1. streamer' \in Hands
    BY <1>4, IdleType DEF ReceiveEvent, Hands
  <2>2. streamer'.at # "flagged"
    BY <1>4 DEF ReceiveEvent, Idle
  <2> QED BY <1>4, <2>1, <2>2 DEF ReceiveEvent
<1>5. ASSUME NEW s \in Streams, FlagEos(s) PROVE FrameTypes'
  BY <1>5, IdleType DEF FlagEos, Hands
<1>6. ASSUME NEW s \in Streams, RequestPad(s) PROVE FrameTypes'
  <2>1. owner' \in Seq(Streams) /\ Len(owner') \in Nat
    BY <1>6 DEF RequestPad
  <2> QED BY <1>6, <2>1 DEF RequestPad
<1>7. CASE ReleasePad
  BY <1>7 DEF ReleasePad
<1> QED BY <1>1, <1>2, <1>3, <1>4, <1>5, <1>6, <1>7

LEMMA OtherSteps ==
    ASSUME FrameInv, UNCHANGED config,
           \/ SinkCaps \/ PushStart \/ FindEosPad \/ PushEvent \/ ReleasePad
           \/ \E s \in Streams : \/ UpdateCaps(s) \/ ReceiveEvent(s, "start")
                                 \/ ReceiveEvent(s, "segment") \/ FlagEos(s)
                                 \/ RequestPad(s) \/ RequestTwice(s) \/ BeginRelease(s)
    PROVE  FrameInv' /\ UNCHANGED frameVars
<1>1. /\ UNCHANGED frameVars /\ streamer'.todo = streamer.todo /\ streamer'.data = streamer.data
      /\ streamer'.at \in {"frame", "push"} => streamer' = streamer
      /\ streamer.at \in {"frame", "push"} => streamer' = streamer
  <2>1. CASE \/ SinkCaps \/ ReleasePad
             \/ \E s \in Streams : UpdateCaps(s) \/ RequestPad(s) \/ RequestTwice(s) \/ BeginRelease(s)
    <3>1. streamer' = streamer /\ UNCHANGED frameVars
      BY <2>1 DEF SinkCaps, UpdateCaps, RequestPad, RequestTwice, BeginRelease, ReleasePad
    <3> QED BY <3>1
  <2>2. CASE PushStart \/ PushEvent
    <3>1. /\ streamer.at \notin {"frame", "push"} /\ streamer' = Idle /\ UNCHANGED frameVars
      BY <2>2 DEF PushStart, PushEvent
    <3>2. streamer.todo = <<>> /\ streamer.data = <<>>
      BY <3>1 DEF FrameInv, HandsInv
    <3> QED BY <3>1, <3>2 DEF Idle
  <2>3. CASE FindEosPad
    <3>1. /\ streamer.at = "flagged" /\ streamer.todo = <<>> /\ streamer.data = <<>>
          /\ UNCHANGED frameVars
      BY <2>3 DEF FindEosPad, FrameInv, HandsInv
    <3>2. /\ streamer'.todo = <<>> /\ streamer'.data = <<>>
          /\ streamer'.at \notin {"frame", "push"}
      <4>1. CASE pad_indexes[streamer.s] = 0
        BY <2>3, <4>1 DEF FindEosPad, Idle
      <4>2. CASE pad_indexes[streamer.s] # 0
        BY <2>3, <3>1, <4>2 DEF FindEosPad, FrameInv, FrameTypes, Hands
      <4> QED BY <4>1, <4>2
    <3> QED BY <3>1, <3>2
  <2>4. ASSUME NEW s \in Streams, NEW kind \in {"start", "segment"}, ReceiveEvent(s, kind)
        PROVE  /\ UNCHANGED frameVars
               /\ streamer.todo = <<>> /\ streamer.data = <<>> /\ streamer.at = "idle"
               /\ streamer'.todo = <<>> /\ streamer'.data = <<>>
               /\ streamer'.at \notin {"frame", "push"}
    <3>1. /\ streamer.at = "idle" /\ streamer.todo = <<>> /\ streamer.data = <<>>
          /\ UNCHANGED frameVars
      BY <2>4 DEF ReceiveEvent, FrameInv, HandsInv
    <3>2. /\ streamer'.todo = <<>> /\ streamer'.data = <<>>
          /\ streamer'.at \notin {"frame", "push"}
      <4>1. CASE pad_indexes[s] = 0
        BY <2>4, <4>1 DEF ReceiveEvent, Idle
      <4>2. CASE pad_indexes[s] # 0
        <5>1. streamer' = [Idle EXCEPT !.at = kind, !.s = s, !.pad = pad_indexes[s]]
          BY <2>4, <4>2 DEF ReceiveEvent
        <5> QED BY <5>1 DEF Idle
      <4> QED BY <4>1, <4>2
    <3> QED BY <3>1, <3>2
  <2>5. ASSUME NEW s \in Streams, FlagEos(s)
        PROVE  /\ UNCHANGED frameVars
               /\ streamer.todo = <<>> /\ streamer.data = <<>> /\ streamer.at = "idle"
               /\ streamer'.todo = <<>> /\ streamer'.data = <<>>
               /\ streamer'.at \notin {"frame", "push"}
    <3>1. /\ streamer.at = "idle" /\ streamer.todo = <<>> /\ streamer.data = <<>>
          /\ UNCHANGED frameVars
      BY <2>5 DEF FlagEos, FrameInv, HandsInv
    <3>2. /\ streamer'.todo = <<>> /\ streamer'.data = <<>>
          /\ streamer'.at \notin {"frame", "push"}
      BY <2>5 DEF FlagEos, Idle
    <3> QED BY <3>1, <3>2
  <2> QED BY <2>1, <2>2, <2>3, <2>4, <2>5
<1>2. \A s \in Streams : Held(s)' = Held(s) /\ Finished(s)' = Finished(s)
  BY <1>1 DEF Held, Finished, Gone, frameVars
<1>3. HandsInv'
  BY <1>1 DEF FrameInv, HandsInv, frameVars
<1>4. FinishedInv'
  BY <1>1, <1>2 DEF FrameInv, FinishedInv, frameVars
<1>5. FrameTypes'
  BY <1>1, OtherStepsTypes DEF FrameInv
<1> QED BY <1>1, <1>3, <1>4, <1>5 DEF FrameInv

--------------------------------------------------------------------------------
(* A batch comes *)

LEMMA BatchComes ==
    ASSUME FrameInv, UNCHANGED config, NEW upTo \in [Streams -> 0 .. MaxFrames], Batch(upTo)
    PROVE  /\ FrameInv'
           /\ \A s \in Streams : Stage(s)!EnterTogether \/ UNCHANGED Stage(s)!vars
<1> USE DEF FrameInv
<1>1. /\ streamer.at = "idle" /\ streamer.todo = <<>> /\ streamer.data = <<>>
      /\ arrived' = upTo /\ UNCHANGED <<left, gone, pad_indexes, owner>>
      /\ \A s \in Streams : upTo[s] # arrived[s] => upTo[s] > arrived[s]
  BY DEF Batch, HandsInv, tableVars, padVars
<1>2. PICK b \in SeqOf(NewFrames(upTo), MaxBatch) :
          /\ Range(b) = NewFrames(upTo) /\ InOrder(b)
          /\ streamer' = [Idle EXCEPT !.at = "frame", !.todo = b]
  BY DEF Batch
<1>3. b \in Seq(NewFrames(upTo)) /\ NewFrames(upTo) \subseteq Arrivals
  <2>1. PICK k \in 0 .. MaxBatch : b \in [1 .. k -> NewFrames(upTo)]
    BY <1>2 DEF SeqOf
  <2>2. b \in Seq(NewFrames(upTo))
    BY <2>1, DemuxAssumption
  <2>3. NewFrames(upTo) \subseteq Arrivals
    BY DemuxAssumption DEF NewFrames, Arrivals
  <2> QED BY <2>2, <2>3
<1>4. b \in Seq(Arrivals)
  BY <1>3
<1>5. streamer'.at = "frame" /\ streamer'.todo = b /\ streamer'.data = <<>>
  BY <1>2 DEF Idle
<1>6. FrameTypes'
  <2>1. streamer' \in Hands
    BY <1>2, <1>4, IdleType DEF Hands
  <2>2. arrived' \in [Streams -> Nat]
    BY <1>1, DemuxAssumption
  <2> QED BY <1>1, <1>5, <2>1, <2>2 DEF FrameTypes
<1>7. HandsInv'
  BY <1>2, <1>5, EmptyIsShort DEF HandsInv
<1>8. ASSUME NEW s \in Streams
      PROVE  /\ arrived[s] \in Nat /\ upTo[s] \in 0 .. MaxFrames /\ arrived[s] <= upTo[s]
             /\ Held(s) = {} /\ Held(s)' = (arrived[s] + 1) .. upTo[s]
             /\ Finished(s) = 1 .. arrived[s] /\ Finished(s)' = Finished(s)
  <2>1. arrived[s] \in Nat /\ upTo[s] \in 0 .. MaxFrames
    BY DEF FrameTypes
  <2>2. arrived[s] <= upTo[s]
    BY <1>1, <2>1, DemuxAssumption
  <2>3. Held(s) = {}
    BY <1>1, EmptyIsShort DEF Held
  <2>4. Held(s)' = {n \in Nat : \E f \in NewFrames(upTo) : f.s = s /\ f.n = n}
    BY <1>2, <1>5, EmptyIsShort DEF Held
  <2>5. ASSUME NEW n \in Nat, NEW f \in NewFrames(upTo), f.s = s, f.n = n
        PROVE  n \in (arrived[s] + 1) .. upTo[s]
    BY <2>5 DEF NewFrames
  <2>6. ASSUME NEW n \in (arrived[s] + 1) .. upTo[s]
        PROVE  n \in Nat /\ \E f \in NewFrames(upTo) : f.s = s /\ f.n = n
    <3>1. n \in 1 .. MaxFrames
      BY <2>1, DemuxAssumption
    <3>2. [s |-> s, n |-> n] \in NewFrames(upTo)
      BY <3>1 DEF NewFrames
    <3> QED BY <3>1, <3>2
  <2>7. Held(s)' = (arrived[s] + 1) .. upTo[s]
    BY <2>4, <2>5, <2>6
  <2>8. Finished(s) = 1 .. arrived[s]
    BY <2>3 DEF FinishedInv
  <2>9. Finished(s)' = Finished(s)
    BY <1>1 DEF Finished, Gone
  <2> QED BY <2>1, <2>2, <2>3, <2>7, <2>8, <2>9
<1>9. FinishedInv'
  <2> SUFFICES ASSUME NEW s \in Streams
               PROVE  /\ Finished(s)' \cup Held(s)' = 1 .. arrived'[s]
                      /\ Finished(s)' \cap Held(s)' = {}
    BY DEF FinishedInv
  <2>1. /\ arrived[s] \in Nat /\ upTo[s] \in Nat /\ arrived[s] <= upTo[s]
        /\ Held(s)' = (arrived[s] + 1) .. upTo[s] /\ Finished(s)' = 1 .. arrived[s]
        /\ arrived'[s] = upTo[s]
    BY <1>1, <1>8, DemuxAssumption
  <2> QED BY <2>1
<1>10. ASSUME NEW s \in Streams PROVE Stage(s)!EnterTogether \/ UNCHANGED Stage(s)!vars
  <2>1. /\ UNCHANGED left[s] /\ arrived'[s] \in Nat
        /\ arrived'[s] = arrived[s] \/ arrived'[s] > arrived[s]
    BY <1>1, DemuxAssumption
  <2> QED BY <1>1, <2>1 DEF Stage!EnterTogether, Stage!vars
<1> QED BY <1>6, <1>7, <1>9, <1>10

--------------------------------------------------------------------------------
(* Frames leave the hands of the streaming thread *)

\* The frames of D, which the thread had in its hands, are finished.
LEMMA FramesFinish ==
    ASSUME FrameTypes, FinishedInv, UNCHANGED arrived, NEW D,
           \A s \in Streams : /\ Of(D, s) \subseteq Held(s) /\ Held(s)' = Held(s) \ Of(D, s)
                              /\ Finished(s)' = Finished(s) \cup Of(D, s)
    PROVE  FinishedInv'
<1> SUFFICES ASSUME NEW s \in Streams
             PROVE  /\ Finished(s)' \cup Held(s)' = 1 .. arrived[s]
                    /\ Finished(s)' \cap Held(s)' = {}
  BY DEF FinishedInv
<1>1. Finished(s) \cup Held(s) = 1 .. arrived[s] /\ Finished(s) \cap Held(s) = {}
  BY DEF FinishedInv
<1> QED BY <1>1

\* What is given up at such a step is dropped, as the abstract specification means it.
LEMMA FramesDrop ==
    ASSUME FinishedInv, UNCHANGED <<arrived, left>>, NEW s \in Streams, NEW N \in SUBSET Held(s),
           Gone(s)' = Gone(s) \cup N
    PROVE  Stage(s)!Drop
<1>1. N \subseteq (1 .. arrived[s]) \ Range(left[s])
  <2>1. Finished(s) \cup Held(s) = 1 .. arrived[s] /\ Finished(s) \cap Held(s) = {}
    BY DEF FinishedInv
  <2>2. Range(left[s]) \subseteq Finished(s)
    BY DEF Finished
  <2> QED BY <2>1, <2>2
<1>2. Gone(s) \subseteq Gone(s)' /\ (Gone(s)' \ Gone(s)) \subseteq (1 .. arrived[s]) \ Range(left[s])
  BY <1>1
<1> QED BY <1>2, StageVariables DEF Stage!Drop, Gone

\* A frame leaves, as the abstract specification means it.
LEMMA FrameLeaves ==
    ASSUME NEW s \in Streams, NEW n, n \notin Range(left[s]) \cup Gone(s),
           \A m \in 1 .. (n - 1) : m \in Range(left[s]) \cup Gone(s),
           left'[s] = Append(left[s], n), UNCHANGED <<arrived, gone>>
    PROVE  Stage(s)!Leave(n)
<1> DEFINE lost == {f[2] : f \in {g \in gone : g[1] = s}}
<1>1. lost = Gone(s) /\ Stage(s)!Left = Range(left[s])
  BY StageVariables
<1>2. lost' = lost /\ arrived'[s] = arrived[s]
  OBVIOUS
<1> HIDE DEF lost
<1>3. /\ n \notin Stage(s)!Left \cup lost
      /\ \A m \in 1 .. (n - 1) : m \in Stage(s)!Left \cup lost \/ <<n, m>> \in {}
  BY <1>1
<1> QED BY <1>2, <1>3 DEF Stage!Leave, lost

LEMMA OneOf ==
    ASSUME NEW s, NEW n, NEW t
    PROVE  Of({<<s, n>>}, t) = IF t = s THEN {n} ELSE {}
<1>1. {e \in {<<s, n>>} : e[1] = t} = IF t = s THEN {<<s, n>>} ELSE {}
  OBVIOUS
<1>2. {d[2] : d \in {<<s, n>>}} = {n}
  OBVIOUS
<1> QED BY <1>1, <1>2 DEF Of

\* One frame leaves the hands, in which there is no other of its number.
LEMMA OneFewer ==
    ASSUME FrameTypes, NEW f \in Range(streamer.todo) \cup Range(streamer.data),
           NEW rest, Range(streamer.todo) \cup Range(streamer.data) = {f} \cup rest,
           Range(streamer'.todo) \cup Range(streamer'.data) = rest,
           f.s \in Streams, f.n \in Nat, \A g \in rest : g.s = f.s => f.n < g.n \/ g.n < f.n
    PROVE  \A t \in Streams : /\ Of({<<f.s, f.n>>}, t) \subseteq Held(t)
                              /\ Held(t)' = Held(t) \ Of({<<f.s, f.n>>}, t)
<1> SUFFICES ASSUME NEW t \in Streams
             PROVE  /\ Of({<<f.s, f.n>>}, t) \subseteq Held(t)
                    /\ Held(t)' = Held(t) \ Of({<<f.s, f.n>>}, t)
  OBVIOUS
<1>1. /\ Held(t) = {n \in Nat : \E g \in {f} \cup rest : g.s = t /\ g.n = n}
      /\ Held(t)' = {n \in Nat : \E g \in rest : g.s = t /\ g.n = n}
  BY DEF Held
<1>2. CASE t = f.s
  <2>1. Of({<<f.s, f.n>>}, t) = {f.n} /\ f.n \in Held(t)
    BY <1>1, <1>2, OneOf
  <2>2. \A g \in rest : g.s = t => g.n # f.n
    BY <1>2
  <2>3. Held(t)' = Held(t) \ {f.n}
    BY <1>1, <1>2, <2>2
  <2> QED BY <2>1, <2>3
<1>3. CASE t # f.s
  <2>1. Of({<<f.s, f.n>>}, t) = {}
    BY <1>3, OneOf
  <2>2. Held(t)' = Held(t)
    BY <1>1, <1>3
  <2> QED BY <2>1, <2>2
<1> QED BY <1>2, <1>3

\* One frame is given up.
LEMMA OneGivenUp ==
    ASSUME FrameTypes, NEW s \in Streams, NEW n \in Nat, NEW r \in Reasons,
           gone' = gone \cup {<<s, n, r>>}
    PROVE  /\ \A t \in Streams : Gone(t)' = Gone(t) \cup Of({<<s, n>>}, t)
           /\ gone' \subseteq Streams \X Nat \X Reasons
<1> DEFINE D == {<<s, n>>}
<1>1. /\ D \subseteq Streams \X Nat /\ gone \subseteq gone'
      /\ \A g \in gone' \ gone : \E d \in D, q \in Reasons : g = <<d[1], d[2], q>>
      /\ \A d \in D : \E q \in Reasons : <<d[1], d[2], q>> \in gone'
  OBVIOUS
<1> HIDE DEF D
<1>2. \A t \in Streams : Gone(t)' = Gone(t) \cup Of(D, t)
  BY <1>1, GivenUp
<1>3. gone' \subseteq Streams \X Nat \X Reasons
  BY DEF FrameTypes
<1> QED BY <1>2, <1>3 DEF D

\* The pad of the next frame is looked for.
LEMMA PadLookedFor ==
    ASSUME FrameInv, UNCHANGED config, FindPad
    PROVE  /\ FrameInv'
           /\ \A s \in Streams : Stage(s)!Drop \/ UNCHANGED Stage(s)!vars
<1> DEFINE t == Head(streamer.todo)
           p == pad_indexes[t.s]
           f == [pad |-> p, s |-> t.s, n |-> t.n]
           others == Range(Tail(streamer.todo)) \cup Range(streamer.data)
<1> USE DEF FrameInv
<1>1. /\ streamer.at = "frame" /\ streamer.todo # <<>> /\ streamer.todo \in Seq(Arrivals)
      /\ streamer.data \in Seq(Frames) /\ UNCHANGED <<arrived, left, pad_indexes, owner>>
  BY DEF FindPad, FrameTypes, Hands, tableVars, padVars
<1>2. /\ t \in Arrivals /\ t.s \in Streams /\ t.n \in Nat /\ Tail(streamer.todo) \in Seq(Arrivals)
      /\ Range(streamer.todo) = {t} \cup Range(Tail(streamer.todo))
      /\ InOrder(Tail(streamer.todo))
      /\ \A g \in Range(Tail(streamer.todo)) : g.s = t.s => t.n < g.n
  <2>1. t \in Arrivals /\ Tail(streamer.todo) \in Seq(Arrivals)
    BY <1>1, FirstAndRest
  <2>2. /\ Range(streamer.todo) = {t} \cup Range(Tail(streamer.todo))
        /\ InOrder(Tail(streamer.todo))
        /\ \A g \in Range(Tail(streamer.todo)) : g.s = t.s => t.n < g.n
    BY <1>1, RestInOrder DEF HandsInv
  <2> QED BY <2>1, <2>2 DEF Arrivals
<1>3. \A g \in Range(streamer.data) : g.s = t.s => g.n < t.n
  BY <1>2 DEF HandsInv
<1> HIDE DEF t
<1>4. CASE Wanted(p)
  <2>1. /\ streamer' = [streamer EXCEPT !.todo = Tail(@), !.data = Append(streamer.data, f),
                                        !.at = IF config.isAudio THEN "frame" ELSE "push"]
        /\ UNCHANGED gone
    BY <1>4 DEF FindPad, Emplaced, t
  <2>2. f \in Frames
    BY <1>2 DEF Frames, FrameTypes
  <2>3. f.s = t.s /\ f.n = t.n
    OBVIOUS
  <2> HIDE DEF f
  <2>4. /\ Append(streamer.data, f) \in Seq(Frames)
        /\ Range(Append(streamer.data, f)) = Range(streamer.data) \cup {f}
        /\ Len(Append(streamer.data, f)) = Len(streamer.data) + 1 /\ Len(streamer.data) \in Nat
    BY <1>1, <2>2, OneMore
  <2>5. InOrder(Append(streamer.data, f))
    BY <1>1, <1>3, <2>2, <2>3, OneMoreInOrder DEF HandsInv
  <2>6. /\ streamer'.todo = Tail(streamer.todo) /\ streamer'.data = Append(streamer.data, f)
        /\ streamer'.at = IF config.isAudio THEN "frame" ELSE "push"
    BY <2>1 DEF FrameTypes, Hands
  <2>7. FrameTypes'
    <3>1. streamer' \in Hands
      BY <1>2, <2>1, <2>4 DEF FrameTypes, Hands
    <3> QED BY <1>1, <2>1, <2>6, <3>1 DEF FrameTypes
  <2>8. HandsInv'
    <3>1. streamer'.data # <<>> /\ (~config.isAudio => Len(streamer'.data) <= 1)
      BY <1>1, <2>4, <2>6 DEF HandsInv
    <3>2. \A g \in Range(streamer'.data), h \in Range(streamer'.todo) : g.s = h.s => g.n < h.n
      BY <1>2, <2>3, <2>4, <2>6 DEF HandsInv
    <3> QED BY <1>2, <2>5, <2>6, <3>1, <3>2 DEF HandsInv
  <2>9. \A s \in Streams : Held(s)' = Held(s)
    <3>1. Range(streamer.todo) \cup Range(streamer.data) = {t} \cup others
      BY <1>2
    <3>2. Range(streamer'.todo) \cup Range(streamer'.data) = {f} \cup others
      BY <2>4, <2>6
    <3> QED BY <2>3, <3>1, <3>2 DEF Held
  <2>10. FinishedInv'
    BY <1>1, <2>1, <2>9 DEF FinishedInv, Finished, Gone
  <2>11. \A s \in Streams : UNCHANGED Stage(s)!vars
    BY <1>1, <2>1 DEF Stage!vars
  <2> QED BY <2>7, <2>8, <2>10, <2>11
<1>5. CASE ~Wanted(p)
  <2>1. /\ streamer' = [streamer EXCEPT !.todo = Tail(@)]
        /\ gone' = gone \cup {<<t.s, t.n, "unwanted">>}
    BY <1>5 DEF FindPad, Skipped, t
  <2>2. /\ streamer'.todo = Tail(streamer.todo) /\ streamer'.data = streamer.data
        /\ streamer'.at = streamer.at
    BY <2>1 DEF FrameTypes, Hands
  <2> DEFINE D == {<<t.s, t.n>>}
  <2>3. /\ \A s \in Streams : Gone(s)' = Gone(s) \cup Of(D, s)
        /\ gone' \subseteq Streams \X Nat \X Reasons
    BY <1>2, <2>1, OneGivenUp DEF Reasons
  <2>4. FrameTypes'
    <3>1. streamer' \in Hands
      BY <1>2, <2>1 DEF FrameTypes, Hands
    <3> QED BY <1>1, <2>2, <2>3, <3>1 DEF FrameTypes
  <2>5. HandsInv'
    BY <1>1, <1>2, <2>2 DEF HandsInv
  <2>6. \A s \in Streams : Of(D, s) \subseteq Held(s) /\ Held(s)' = Held(s) \ Of(D, s)
    <3>1. /\ t \in Range(streamer.todo) \cup Range(streamer.data)
          /\ Range(streamer.todo) \cup Range(streamer.data) = {t} \cup others
          /\ Range(streamer'.todo) \cup Range(streamer'.data) = others
      BY <1>2, <2>2
    <3>2. \A g \in others : g.s = t.s => t.n < g.n \/ g.n < t.n
      BY <1>2, <1>3
    <3> QED BY <1>2, <3>1, <3>2, OneFewer
  <2> HIDE DEF D
  <2>7. \A s \in Streams : Finished(s)' = Finished(s) \cup Of(D, s)
    BY <1>1, <2>3 DEF Finished
  <2>8. FinishedInv'
    BY <1>1, <2>6, <2>7, FramesFinish
  <2>9. \A s \in Streams : Stage(s)!Drop
    BY <1>1, <2>3, <2>6, FramesDrop
  <2> QED BY <2>4, <2>5, <2>8, <2>9
<1> QED BY <1>4, <1>5

\* All pads were looked for.
LEMMA PadsAreFound ==
    ASSUME FrameInv, UNCHANGED config, PadsFound
    PROVE  FrameInv' /\ UNCHANGED frameVars
<1> USE DEF FrameInv
<1>1. /\ streamer.at = "frame" /\ streamer.todo = <<>> /\ UNCHANGED frameVars
      /\ UNCHANGED <<pad_indexes, owner>>
  BY DEF PadsFound, tableVars, padVars
<1>2. /\ streamer'.todo = streamer.todo /\ streamer'.data = streamer.data
      /\ streamer'.at = IF streamer.data = <<>> THEN "idle" ELSE "push"
      /\ streamer' \in Hands
  <2>1. CASE streamer.data = <<>>
    BY <1>1, <2>1, IdleType DEF PadsFound, Collected, Idle
  <2>2. CASE streamer.data # <<>>
    BY <1>1, <2>2 DEF PadsFound, Collected, FrameTypes, Hands
  <2> QED BY <2>1, <2>2
<1>3. FrameTypes'
  BY <1>1, <1>2 DEF FrameTypes, frameVars
<1>4. HandsInv'
  BY <1>1, <1>2 DEF HandsInv, frameVars
<1>5. FinishedInv'
  BY <1>1, <1>2 DEF FinishedInv, Held, Finished, Gone, frameVars
<1> QED BY <1>1, <1>3, <1>4, <1>5

\* The first frame that waits to be pushed.
LEMMA FirstFrame ==
    ASSUME FrameInv, streamer.at = "push"
    PROVE  LET f == Head(streamer.data) rest == Tail(streamer.data) IN
           /\ f \in Frames /\ f = streamer.data[1] /\ f \in Range(streamer.data)
           /\ rest \in Seq(Frames) /\ Range(streamer.data) = {f} \cup Range(rest)
           /\ InOrder(rest) /\ \A g \in Range(rest) : g.s = f.s => f.n < g.n
           /\ \A g \in Range(streamer.todo) : g.s = f.s => f.n < g.n
           /\ Len(streamer.data) \in Nat /\ Len(rest) = Len(streamer.data) - 1
           /\ Len(streamer.data) = 1 <=> rest = <<>>
<1> DEFINE f == Head(streamer.data)
           rest == Tail(streamer.data)
<1> USE DEF FrameInv
<1>1. streamer.data \in Seq(Frames) /\ streamer.data # <<>>
  BY DEF FrameTypes, Hands, HandsInv
<1>2. /\ rest \in Seq(Frames) /\ f \in Frames /\ f = streamer.data[1]
      /\ Len(rest) = Len(streamer.data) - 1 /\ Len(streamer.data) \in Nat
      /\ Range(streamer.data) = {f} \cup Range(rest)
      /\ InOrder(rest) /\ \A g \in Range(rest) : g.s = f.s => f.n < g.n
  BY <1>1, FirstAndRest, RestInOrder DEF HandsInv
<1>3. \A g \in Range(streamer.todo) : g.s = f.s => f.n < g.n
  BY <1>2 DEF HandsInv
<1>4. Len(streamer.data) = 1 <=> rest = <<>>
  <2> HIDE DEF rest
  <2>1. rest = <<>> <=> Len(rest) = 0
    BY <1>2, EmptyByLength
  <2> QED BY <1>2, <2>1
<1> QED BY <1>2, <1>3, <1>4

\* The first frame was pushed or refused: the thread has the others in its hands.
LEMMA AfterPush ==
    ASSUME FrameInv, streamer.at = "push", streamer' = Pushed,
           UNCHANGED <<config, arrived, pad_indexes, owner>>
    PROVE  LET f == Head(streamer.data) IN
           /\ HandsInv' /\ streamer'.at # "flagged" /\ streamer' \in Hands
           /\ \A s \in Streams : /\ Of({<<f.s, f.n>>}, s) \subseteq Held(s)
                                 /\ Held(s)' = Held(s) \ Of({<<f.s, f.n>>}, s)
           /\ \A m \in Held(f.s) : f.n <= m
<1> DEFINE f == Head(streamer.data)
           rest == Tail(streamer.data)
<1>1. /\ rest \in Seq(Frames) /\ f \in Frames /\ f \in Range(streamer.data)
      /\ Range(streamer.data) = {f} \cup Range(rest)
      /\ InOrder(rest) /\ \A g \in Range(rest) : g.s = f.s => f.n < g.n
      /\ \A g \in Range(streamer.todo) : g.s = f.s => f.n < g.n
      /\ Len(streamer.data) \in Nat /\ Len(rest) = Len(streamer.data) - 1
      /\ Len(streamer.data) = 1 <=> rest = <<>>
  BY FirstFrame
<1>2. /\ streamer'.todo = streamer.todo /\ streamer'.data = rest
      /\ streamer'.at = IF ~config.isAudio \/ Len(streamer.data) = 1 THEN "frame" ELSE "push"
  BY DEF Pushed, FrameInv, FrameTypes, Hands
<1>3. ~config.isAudio => Len(streamer.data) = 1
  <2>1. Len(streamer.data) # 0
    BY <1>1 DEF FrameInv, HandsInv, FrameTypes, Hands
  <2> QED BY <1>1, <2>1 DEF FrameInv, HandsInv
<1>4. streamer' \in Hands
  BY <1>1 DEF Pushed, FrameInv, FrameTypes, Hands
<1>5. f.s \in Streams /\ f.n \in Nat
  BY <1>1 DEF Frames
<1> HIDE DEF rest, f
<1>6. HandsInv'
  BY <1>1, <1>2, <1>3 DEF FrameInv, HandsInv
<1> DEFINE others == Range(streamer.todo) \cup Range(rest)
<1>7. /\ f \in Range(streamer.todo) \cup Range(streamer.data)
      /\ Range(streamer.todo) \cup Range(streamer.data) = {f} \cup others
      /\ Range(streamer'.todo) \cup Range(streamer'.data) = others
      /\ \A g \in others : g.s = f.s => f.n < g.n
  BY <1>1, <1>2
<1> HIDE DEF others
<1>8. \A s \in Streams : /\ Of({<<f.s, f.n>>}, s) \subseteq Held(s)
                         /\ Held(s)' = Held(s) \ Of({<<f.s, f.n>>}, s)
  BY <1>5, <1>7, OneFewer DEF FrameInv
<1>9. \A m \in Held(f.s) : f.n <= m
  BY <1>5, <1>7 DEF Held
<1> QED BY <1>2, <1>4, <1>6, <1>8, <1>9 DEF f

\* The first frame is pushed, or refused by its pad.
LEMMA FrameIsPushed ==
    ASSUME FrameInv, UNCHANGED config, PushFrame
    PROVE  /\ FrameInv'
           /\ \A s \in Streams : \/ Stage(s)!Drop \/ UNCHANGED Stage(s)!vars
                                 \/ \E n \in 1 .. arrived[s] : Stage(s)!Leave(n)
<1> DEFINE f == Head(streamer.data)
           D == {<<f.s, f.n>>}
<1> USE DEF FrameInv
<1>1. /\ streamer.at = "push" /\ streamer' = Pushed /\ UNCHANGED <<arrived, pad_indexes, owner>>
  BY DEF PushFrame, tableVars
<1>2. f \in Frames /\ f.s \in Streams /\ f.n \in Nat
  BY <1>1, FirstFrame DEF Frames
<1>3. /\ HandsInv' /\ streamer'.at # "flagged" /\ streamer' \in Hands
      /\ \A s \in Streams : Of(D, s) \subseteq Held(s) /\ Held(s)' = Held(s) \ Of(D, s)
      /\ \A m \in Held(f.s) : f.n <= m
  BY <1>1, AfterPush
<1>4. CASE f.pad \in removed \/ PadEos(f.pad)
  <2>1. gone' = gone \cup {<<f.s, f.n, "refused">>} /\ UNCHANGED left
    BY <1>2, <1>4 DEF PushFrame
  <2> HIDE DEF f
  <2>2. /\ \A s \in Streams : Gone(s)' = Gone(s) \cup Of(D, s)
        /\ gone' \subseteq Streams \X Nat \X Reasons
    BY <1>2, <2>1, OneGivenUp DEF Reasons
  <2> HIDE DEF D
  <2>3. \A s \in Streams : Finished(s)' = Finished(s) \cup Of(D, s)
    BY <2>1, <2>2 DEF Finished
  <2>4. FinishedInv'
    BY <1>1, <1>3, <2>3, FramesFinish
  <2>5. \A s \in Streams : Stage(s)!Drop
    BY <1>1, <1>3, <2>1, <2>2, FramesDrop
  <2>6. FrameTypes'
    BY <1>1, <1>3, <2>1, <2>2 DEF FrameTypes
  <2> QED BY <1>3, <2>4, <2>5, <2>6
<1>5. CASE ~(f.pad \in removed \/ PadEos(f.pad))
  <2>1. left' = [left EXCEPT ![f.s] = Append(@, f.n)] /\ UNCHANGED gone
    BY <1>2, <1>5 DEF PushFrame
  <2> HIDE DEF f
  <2>2. left[f.s] \in Seq(Nat)
    BY <1>2 DEF FrameTypes
  <2>3. /\ Append(left[f.s], f.n) \in Seq(Nat)
        /\ Range(Append(left[f.s], f.n)) = Range(left[f.s]) \cup {f.n}
    BY <1>2, <2>2, OneMore
  <2>4. left' \in [Streams -> Seq(Nat)]
    BY <1>2, <2>1, <2>3 DEF FrameTypes
  <2>5. ASSUME NEW s \in Streams PROVE Finished(s)' = Finished(s) \cup Of(D, s)
    <3>1. Finished(s)' = Range(left'[s]) \cup Gone(s)
      BY <2>1 DEF Finished, Gone
    <3>2. CASE s = f.s
      <4>1. Range(left'[s]) = Range(left[s]) \cup {f.n} /\ Of(D, s) = {f.n}
        BY <1>2, <2>1, <2>3, <3>2, OneOf DEF FrameTypes
      <4> QED BY <3>1, <4>1 DEF Finished
    <3>3. CASE s # f.s
      <4>1. left'[s] = left[s] /\ Of(D, s) = {}
        BY <2>1, <3>3, OneOf DEF FrameTypes
      <4> QED BY <3>1, <4>1 DEF Finished
    <3> QED BY <3>2, <3>3
  <2>6. FrameTypes'
    BY <1>1, <1>3, <2>1, <2>4 DEF FrameTypes
  <2>7. f.n \in Held(f.s)
    <3>1. Of(D, f.s) = {f.n}
      BY OneOf
    <3> HIDE DEF D
    <3> QED BY <1>2, <1>3, <3>1
  <2> HIDE DEF D
  <2>8. FinishedInv'
    BY <1>1, <1>3, <2>5, FramesFinish
  <2>9. ASSUME NEW s \in Streams, s # f.s PROVE UNCHANGED Stage(s)!vars
    <3>1. left'[s] = left[s]
      BY <2>1, <2>9 DEF FrameTypes
    <3> QED BY <1>1, <2>1, <3>1 DEF Stage!vars
  <2>10. ASSUME NEW s \in Streams, s = f.s PROVE \E n \in 1 .. arrived[s] : Stage(s)!Leave(n)
    <3>1. PICK n \in Nat : n = f.n
      BY <1>2
    <3>2. /\ Finished(s) \cup Held(s) = 1 .. arrived[s] /\ Finished(s) \cap Held(s) = {}
          /\ n \in Held(s) /\ \A m \in Held(s) : n <= m
      BY <1>3, <2>7, <2>10, <3>1 DEF FinishedInv
    <3>3. n \in 1 .. arrived[s] /\ n \notin Finished(s)
      BY <3>2
    <3>4. ASSUME NEW m \in 1 .. (n - 1) PROVE m \in Finished(s)
      <4>1. m \in 1 .. arrived[s] /\ m < n
        <5>1. arrived[s] \in Nat
          BY DEF FrameTypes
        <5> QED BY <3>3, <5>1
      <4> QED BY <3>2, <4>1
    <3>5. left'[s] = Append(left[s], n)
      BY <2>1, <2>10, <3>1 DEF FrameTypes
    <3>6. Stage(s)!Leave(n)
      BY <1>1, <2>1, <3>3, <3>4, <3>5, FrameLeaves DEF Finished
    <3> QED BY <3>3, <3>6
  <2>11. FrameInv'
    BY <1>3, <2>6, <2>8
  <2> QED BY <2>9, <2>10, <2>11
<1> QED BY <1>4, <1>5

\* A peer refuses the first frame, and for audio the others are given up with it.
LEMMA PushIsRefused ==
    ASSUME FrameInv, UNCHANGED config, PushFails
    PROVE  /\ FrameInv'
           /\ \A s \in Streams : Stage(s)!Drop
<1> DEFINE f == Head(streamer.data)
           others == Range(Tail(streamer.data)) \cup Range(streamer.todo)
           lost == IF config.isAudio THEN others ELSE {}
           D == {<<g.s, g.n>> : g \in {f} \cup lost}
<1> USE DEF FrameInv
<1>1. /\ streamer.at = "push" /\ streamer' = AfterError
      /\ UNCHANGED <<arrived, left, pad_indexes, owner>>
      /\ gone' = gone \cup {<<streamer.data[1].s, streamer.data[1].n, "refused">>}
                      \cup Abandoned
  BY DEF PushFails, tableVars, padVars
<1>2. /\ f = streamer.data[1] /\ f \in Frames /\ f.s \in Streams /\ f.n \in Nat
      /\ Range(streamer.data) = {f} \cup Range(Tail(streamer.data))
  BY <1>1, FirstFrame DEF Frames
<1>3. Abandoned = {<<g.s, g.n, "abandoned">> : g \in lost}
  <2>1. Pushed # Idle
    <3>1. Pushed.at # "idle" /\ Idle.at = "idle"
      BY <1>1 DEF Pushed, FrameTypes, Hands, Idle
    <3> QED BY <3>1
  <2>2. CASE config.isAudio
    BY <2>2 DEF Abandoned, AfterError
  <2>3. CASE ~config.isAudio
    BY <2>1, <2>3 DEF Abandoned, AfterError
  <2> QED BY <2>2, <2>3
<1>4. \A g \in {f} \cup lost : g.s \in Streams /\ g.n \in Nat
  <2>1. streamer.todo \in Seq(Arrivals) /\ streamer.data \in Seq(Frames)
    BY DEF FrameTypes, Hands
  <2>2. \A g \in Range(streamer.todo) : g \in Arrivals
    BY <2>1 DEF Range
  <2>3. \A g \in Range(streamer.data) : g \in Frames
    BY <2>1 DEF Range
  <2> QED BY <1>2, <2>2, <2>3 DEF Arrivals, Frames
<1>5. gone' = gone \cup {<<f.s, f.n, "refused">>} \cup {<<g.s, g.n, "abandoned">> : g \in lost}
  BY <1>1, <1>2, <1>3
<1>6. /\ HandsInv' /\ streamer'.at # "flagged" /\ streamer' \in Hands
      /\ \A s \in Streams : Of(D, s) \subseteq Held(s) /\ Held(s)' = Held(s) \ Of(D, s)
  <2>1. CASE config.isAudio
    <3>1. streamer'.at = "idle" /\ streamer'.todo = <<>> /\ streamer'.data = <<>>
      BY <1>1, <2>1 DEF AfterError, Idle
    <3>2. HandsInv'
      BY <3>1, EmptyIsShort DEF HandsInv
    <3>3. streamer' \in Hands
      BY <1>1, <2>1, IdleType DEF AfterError
    <3>4. ASSUME NEW s \in Streams PROVE Of(D, s) = Held(s) /\ Held(s)' = {}
      <4>1. Held(s)' = {}
        BY <3>1, EmptyIsShort DEF Held
      <4>2. {f} \cup lost = Range(streamer.todo) \cup Range(streamer.data)
        BY <1>2, <2>1
      <4> HIDE DEF f, lost
      <4>3. ASSUME NEW n \in Of(D, s) PROVE n \in Held(s)
        <5>1. PICK d \in D : d[1] = s /\ d[2] = n
          BY DEF Of
        <5>2. PICK g \in {f} \cup lost : d = <<g.s, g.n>>
          OBVIOUS
        <5> QED BY <1>4, <4>2, <5>1, <5>2 DEF Held
      <4>4. ASSUME NEW n \in Held(s) PROVE n \in Of(D, s)
        <5>1. PICK g \in {f} \cup lost : g.s = s /\ g.n = n
          BY <4>2 DEF Held
        <5>2. PICK d \in D : d = <<s, n>>
          BY <5>1
        <5> QED BY <5>2 DEF Of
      <4> QED BY <4>1, <4>3, <4>4
    <3> QED BY <3>1, <3>2, <3>3, <3>4
  <2>2. CASE ~config.isAudio
    <3>1. D = {<<f.s, f.n>>} /\ streamer' = Pushed
      BY <1>1, <2>2 DEF AfterError
    <3> QED BY <1>1, <3>1, AfterPush
  <2> QED BY <2>1, <2>2
<1>7. \A s \in Streams : Gone(s)' = Gone(s) \cup Of(D, s)
  <2> HIDE DEF f, lost
  <2>1. D \subseteq Streams \X Nat /\ gone \subseteq gone'
    BY <1>4, <1>5
  <2>2. ASSUME NEW x \in gone' \ gone PROVE \E d \in D, r \in Reasons : x = <<d[1], d[2], r>>
    <3>1. \E g \in {f} \cup lost, r \in Reasons : x = <<g.s, g.n, r>>
      BY <1>5 DEF Reasons
    <3>2. PICK g \in {f} \cup lost, r \in Reasons : x = <<g.s, g.n, r>>
      BY <3>1
    <3>3. PICK d \in D : d = <<g.s, g.n>>
      OBVIOUS
    <3> QED BY <3>2, <3>3
  <2>3. ASSUME NEW d \in D PROVE \E r \in Reasons : <<d[1], d[2], r>> \in gone'
    <3>1. PICK g \in {f} \cup lost : d = <<g.s, g.n>>
      OBVIOUS
    <3> QED BY <1>5, <3>1 DEF Reasons
  <2> HIDE DEF D
  <2> QED BY <2>1, <2>2, <2>3, GivenUp
<1>8. gone' \subseteq Streams \X Nat \X Reasons
  <2> HIDE DEF f, lost
  <2> QED BY <1>4, <1>5 DEF FrameTypes, Reasons
<1> HIDE DEF D
<1>9. FrameTypes'
  BY <1>1, <1>6, <1>8 DEF FrameTypes
<1>10. FinishedInv'
  <2>1. \A s \in Streams : Finished(s)' = Finished(s) \cup Of(D, s)
    BY <1>1, <1>7 DEF Finished
  <2> QED BY <1>1, <1>6, <2>1, FramesFinish
<1>11. \A s \in Streams : Stage(s)!Drop
  BY <1>1, <1>6, <1>7, FramesDrop
<1> QED BY <1>6, <1>9, <1>10, <1>11

--------------------------------------------------------------------------------
(* The theorems *)

LEMMA FrameInvInit == ASSUME Init PROVE FrameInv
<1>1. /\ pad_indexes = [s \in Streams |-> 0] /\ owner = <<>> /\ streamer = Idle
      /\ arrived = [s \in Streams |-> 0] /\ left = [s \in Streams |-> <<>>] /\ gone = {}
  BY DEF Init
<1>2. streamer.at = "idle" /\ streamer.todo = <<>> /\ streamer.data = <<>>
  BY <1>1 DEF Idle
<1>3. FrameTypes
  BY <1>1, <1>2, IdleType, EmptyIsShort DEF FrameTypes, Init
<1>4. HandsInv
  BY <1>2, EmptyIsShort DEF HandsInv
<1>5. ASSUME NEW s \in Streams
      PROVE  Finished(s) = {} /\ Held(s) = {} /\ arrived[s] = 0
  <2>1. left[s] = <<>> /\ arrived[s] = 0 /\ Gone(s) = {}
    BY <1>1 DEF Gone
  <2>2. Finished(s) = {}
    BY <2>1, EmptyIsShort DEF Finished
  <2>3. Held(s) = {}
    BY <1>2, EmptyIsShort DEF Held
  <2> QED BY <2>1, <2>2, <2>3
<1>6. FinishedInv
  BY <1>5 DEF FinishedInv
<1> QED BY <1>3, <1>4, <1>6 DEF FrameInv

\* What a step may be.
LEMMA EveryStep ==
    ASSUME FrameTypes, [Next]_vars
    PROVE  /\ UNCHANGED config
           /\ \/ UNCHANGED vars
              \/ FindPad \/ PadsFound \/ PushFrame \/ PushFails
              \/ PushStart \/ FindEosPad \/ PushEvent \/ SinkCaps \/ ReleasePad
              \/ \E upTo \in [Streams -> 0 .. MaxFrames] : Batch(upTo)
              \/ \E s \in Streams : \/ UpdateCaps(s) \/ ReceiveEvent(s, "start")
                                    \/ ReceiveEvent(s, "segment") \/ FlagEos(s)
                                    \/ RequestPad(s) \/ RequestTwice(s) \/ BeginRelease(s)
<1>1. \A s \in config.streams : s \in Streams
  BY DemuxAssumption DEF FrameTypes
<1>2. \/ UNCHANGED vars
      \/ FindPad \/ PadsFound \/ PushFrame \/ PushFails
      \/ PushStart \/ FindEosPad \/ PushEvent \/ SinkCaps \/ ReleasePad
      \/ \E upTo \in [Streams -> 0 .. MaxFrames] : Batch(upTo)
      \/ \E s \in Streams : \/ UpdateCaps(s) \/ ReceiveEvent(s, "start")
                            \/ ReceiveEvent(s, "segment") \/ FlagEos(s)
                            \/ RequestPad(s) \/ RequestTwice(s) \/ BeginRelease(s)
  BY <1>1 DEF Next, StreamerStep, Upstream, Application
<1>3. UNCHANGED config
  BY <1>2 DEF vars, FindPad, PadsFound, PushFrame, PushFails, PushStart, FindEosPad, PushEvent,
              SinkCaps, ReleasePad, Batch, UpdateCaps, ReceiveEvent, FlagEos, RequestPad,
              RequestTwice, BeginRelease
<1> QED BY <1>2, <1>3

\* A step keeps the invariant, and is a step of the abstract specification for every stream.
LEMMA FrameInvStep ==
    ASSUME FrameInv, [Next]_vars
    PROVE  /\ FrameInv'
           /\ \/ UNCHANGED frameVars
              \/ \A s \in Streams : Stage(s)!Next \/ UNCHANGED Stage(s)!vars
<1>1. CASE UNCHANGED vars
  <2>1. UNCHANGED <<config, pad_indexes, owner, streamer, arrived, left, gone>> /\ UNCHANGED frameVars
    BY <1>1 DEF vars, tableVars, padVars, frameVars
  <2>2. FrameTypes'
    BY <2>1 DEF FrameInv, FrameTypes
  <2>3. HandsInv'
    BY <2>1 DEF FrameInv, HandsInv
  <2>4. FinishedInv'
    BY <2>1 DEF FrameInv, FinishedInv, Finished, Gone, Held
  <2> QED BY <2>1, <2>2, <2>3, <2>4 DEF FrameInv
<1>2. UNCHANGED config
  BY EveryStep DEF FrameInv
<1>3. CASE \/ SinkCaps \/ PushStart \/ FindEosPad \/ PushEvent \/ ReleasePad
           \/ \E s \in Streams : \/ UpdateCaps(s) \/ ReceiveEvent(s, "start")
                                 \/ ReceiveEvent(s, "segment") \/ FlagEos(s)
                                 \/ RequestPad(s) \/ RequestTwice(s) \/ BeginRelease(s)
  BY <1>2, <1>3, OtherSteps
<1>4. ASSUME NEW upTo \in [Streams -> 0 .. MaxFrames], Batch(upTo)
      PROVE  FrameInv' /\ \A s \in Streams : Stage(s)!Next \/ UNCHANGED Stage(s)!vars
  <2>1. FrameInv' /\ \A s \in Streams : Stage(s)!EnterTogether \/ UNCHANGED Stage(s)!vars
    BY <1>2, <1>4, BatchComes
  <2> QED BY <2>1 DEF Stage!Next
<1>5. CASE FindPad
  <2>1. FrameInv' /\ \A s \in Streams : Stage(s)!Drop \/ UNCHANGED Stage(s)!vars
    BY <1>2, <1>5, PadLookedFor
  <2> QED BY <2>1 DEF Stage!Next
<1>6. CASE PadsFound
  BY <1>2, <1>6, PadsAreFound
<1>7. CASE PushFrame
  <2>1. FrameInv' /\ \A s \in Streams : \/ Stage(s)!Drop \/ UNCHANGED Stage(s)!vars
                                        \/ \E n \in 1 .. arrived[s] : Stage(s)!Leave(n)
    BY <1>2, <1>7, FrameIsPushed
  <2> QED BY <2>1 DEF Stage!Next
<1>8. CASE PushFails
  <2>1. FrameInv' /\ \A s \in Streams : Stage(s)!Drop
    BY <1>2, <1>8, PushIsRefused
  <2> QED BY <2>1 DEF Stage!Next
<1> QED BY <1>1, <1>3, <1>4, <1>5, <1>6, <1>7, <1>8, EveryStep DEF FrameInv

LEMMA FramesKept == Spec => []FrameInv
  BY FrameInvInit, FrameInvStep, PTL DEF Spec

\* When the streaming thread is back, every frame that came has gone out by its pad or was
\* given up for a reason (gst_nvstreamdemux_sink_chain_cuda_batch and its _audio_ counterpart).
THEOREM FramesAccountedFor == Spec => []NothingForgotten
<1>1. FrameInv => NothingForgotten
  <2> SUFFICES ASSUME FrameInv, streamer.at = "idle", NEW s \in Streams
               PROVE  Range(left[s]) \cup {f[2] : f \in {g \in gone : g[1] = s}} = 1 .. arrived[s]
    BY DEF NothingForgotten
  <2>1. streamer.todo = <<>> /\ streamer.data = <<>>
    BY DEF FrameInv, HandsInv
  <2>2. Held(s) = {}
    BY <2>1, EmptyIsShort DEF Held
  <2> QED BY <2>2 DEF FrameInv, FinishedInv, Finished, Gone
<1> QED BY <1>1, FramesKept, PTL

\* The frames of every stream leave the demuxer at most once and in the order in which they
\* came: the loops over a batch, in which a stream may have several frames, keep their order,
\* whatever pads are requested and released meanwhile and whatever pushes fail.
THEOREM FramesInOrder == Spec => IsOrderedStage
<1>1. Init => \A s \in Streams : Stage(s)!Init
  BY DEF Init, Stage!Init
<1>2. FrameInv /\ [Next]_vars =>
          [\A s \in Streams : Stage(s)!Next \/ UNCHANGED Stage(s)!vars]_frameVars
  BY FrameInvStep
<1> QED BY <1>1, <1>2, FramesKept, PTL DEF Spec, IsOrderedStage

\* A step gives frames up with "abandoned" only for audio.
LEMMA OnlyAudioAbandons ==
    ASSUME FrameInv, OthersUnharmed, [Next]_vars
    PROVE  OthersUnharmed'
<1>1. config' = config
  BY EveryStep DEF FrameInv
<1> SUFFICES ASSUME ~config.isAudio, NEW g \in gone' \ gone
             PROVE  g[3] # "abandoned"
  BY <1>1 DEF OthersUnharmed
<1>2. FindPad \/ PushFrame \/ PushFails
  BY EveryStep DEF FrameInv, vars, frameVars, SinkCaps, PushStart, FindEosPad, PushEvent,
                   UpdateCaps, ReceiveEvent, FlagEos, RequestPad, RequestTwice, BeginRelease,
                   ReleasePad, Batch, PadsFound
<1>3. CASE FindPad
  BY <1>3 DEF FindPad
<1>4. CASE PushFrame
  <2>1. \/ gone' = gone
        \/ gone' = gone \cup {<<Head(streamer.data).s, Head(streamer.data).n, "refused">>}
    BY <1>4 DEF PushFrame
  <2> QED BY <2>1
<1>5. CASE PushFails
  <2>1. Pushed.at # "idle"
    BY <1>5 DEF PushFails, Pushed, FrameInv, FrameTypes, Hands
  <2>2. Abandoned = {}
    <3>1. AfterError # Idle
      BY <2>1, IdleType DEF AfterError
    <3> QED BY <3>1 DEF Abandoned
  <2> QED BY <1>5, <2>2 DEF PushFails
<1> QED BY <1>2, <1>3, <1>4, <1>5

\* A peer that refuses a frame of video costs no other stream its frame: only the function for
\* audio, gst_nvstreamdemux_sink_chain_audio_batch, leaves the batch at the first error.
THEOREM RefusalHarmsNoOther == Spec => []OthersUnharmed
<1>1. Init => OthersUnharmed
  BY DEF Init, OthersUnharmed
<1> QED BY <1>1, OnlyAudioAbandons, FramesKept, PTL DEF Spec

--------------------------------------------------------------------------------
(* The pads *)

\* A stream has one pad at most, what the streaming thread holds is a pad of the stream it
\* holds, and what the application releases is still there.
PadsInv ==
    /\ removed \subseteq DOMAIN owner /\ linked \subseteq DOMAIN owner
    /\ \A s \in Streams : pad_indexes[s] # 0 =>
           pad_indexes[s] \in DOMAIN owner \ removed /\ owner[pad_indexes[s]] = s
    /\ \A p \in DOMAIN owner \ removed : pad_indexes[owner[p]] = p
    /\ streamer.at \in {"start", "segment", "eos"} =>
           streamer.s \in Streams /\ streamer.pad \in DOMAIN owner
               /\ owner[streamer.pad] = streamer.s
    /\ \A f \in Range(streamer.data) : f.pad \in DOMAIN owner /\ owner[f.pad] = f.s
    /\ releasing # 0 => releasing \in DOMAIN owner \ removed
    /\ premature \subseteq DOMAIN owner

\* The steps of an event: what the thread finds for it.
LEMMA EventSteps ==
    ASSUME FrameInv,
           \/ PushStart \/ FindEosPad \/ PushEvent
           \/ \E s \in Streams : \/ ReceiveEvent(s, "start") \/ ReceiveEvent(s, "segment")
                                 \/ FlagEos(s)
    PROVE  /\ UNCHANGED <<owner, removed, linked, pad_indexes, config, appVars>>
           /\ streamer'.todo = <<>> /\ streamer'.data = <<>>
           /\ streamer'.at \in {"start", "segment", "eos"} =>
                 /\ streamer'.s \in Streams /\ pad_indexes[streamer'.s] # 0
                 /\ streamer'.pad = pad_indexes[streamer'.s]
           /\ streamer'.at = "flagged" => \E s \in Streams : FlagEos(s) /\ streamer'.s = s
           /\ streamer'.at = "eos" => /\ FindEosPad /\ streamer.at = "flagged"
                                      /\ streamer'.s = streamer.s
<1> USE DEF FrameInv, FrameTypes, padVars, tableVars, Hands
<1>1. CASE PushStart \/ PushEvent
  BY <1>1 DEF PushStart, PushEvent, Idle
<1>2. CASE FindEosPad
  <2>1. /\ streamer.at = "flagged" /\ streamer.s \in Streams
        /\ streamer.todo = <<>> /\ streamer.data = <<>>
        /\ UNCHANGED <<owner, removed, linked, pad_indexes, config, appVars>>
    BY <1>2 DEF FindEosPad, HandsInv
  <2>2. CASE pad_indexes[streamer.s] = 0
    BY <1>2, <2>1, <2>2 DEF FindEosPad, Idle
  <2>3. CASE pad_indexes[streamer.s] # 0
    <3>1. streamer' = [streamer EXCEPT !.at = "eos", !.pad = pad_indexes[streamer.s]]
      BY <1>2, <2>3 DEF FindEosPad
    <3> QED BY <1>2, <2>1, <2>3, <3>1
  <2> QED BY <2>2, <2>3
<1>3. ASSUME NEW s \in Streams, NEW kind \in {"start", "segment"}, ReceiveEvent(s, kind)
      PROVE  /\ UNCHANGED <<owner, removed, linked, pad_indexes, config, appVars>>
             /\ streamer'.todo = <<>> /\ streamer'.data = <<>>
             /\ streamer'.at # "idle" => /\ pad_indexes[s] # 0 /\ streamer'.s = s
                                         /\ streamer'.pad = pad_indexes[s]
                                         /\ streamer'.at = kind
  <2>1. CASE pad_indexes[s] = 0
    BY <1>3, <2>1 DEF ReceiveEvent, Idle
  <2>2. CASE pad_indexes[s] # 0
    <3>1. streamer' = [Idle EXCEPT !.at = kind, !.s = s, !.pad = pad_indexes[s]]
      BY <1>3, <2>2 DEF ReceiveEvent
    <3> QED BY <1>3, <2>2, <3>1 DEF ReceiveEvent, Idle
  <2> QED BY <2>1, <2>2
<1>4. ASSUME NEW s \in Streams, FlagEos(s)
      PROVE  /\ UNCHANGED <<owner, removed, linked, pad_indexes, config, appVars>>
             /\ streamer'.todo = <<>> /\ streamer'.data = <<>>
             /\ streamer'.at = "flagged" /\ streamer'.s = s
  BY <1>4 DEF FlagEos, Idle
<1> QED BY <1>1, <1>2, <1>3, <1>4

\* The steps of a batch: frames are taken to the pads of their streams and leave the hands.
LEMMA BatchSteps ==
    ASSUME FrameInv, FindPad \/ PadsFound \/ PushFrame \/ PushFails
    PROVE  /\ UNCHANGED <<owner, removed, linked, pad_indexes, tableVars, phase, updated, appVars>>
           /\ streamer'.at \in {"idle", "frame", "push"} /\ streamer.at \in {"frame", "push"}
           /\ Range(streamer'.todo) \subseteq Range(streamer.todo)
           /\ \A f \in Range(streamer'.data) \ Range(streamer.data) :
                 LET p == pad_indexes[f.s] IN
                 /\ FindPad /\ f.s \in Streams /\ f.pad = p /\ Wanted(p)
                 /\ \E g \in Range(streamer.todo) : g.s = f.s
<1> USE DEF FrameInv
<1>1. UNCHANGED <<owner, removed, linked, pad_indexes, tableVars, phase, updated, appVars>>
      /\ streamer.at \in {"frame", "push"}
  BY DEF FindPad, PadsFound, PushFrame, PushFails, padVars, tableVars
<1>2. streamer.todo \in Seq(Arrivals) /\ streamer.data \in Seq(Frames)
  BY DEF FrameTypes, Hands
<1>3. CASE FindPad
  <2> DEFINE t == Head(streamer.todo)
             p == pad_indexes[t.s]
             f == [pad |-> p, s |-> t.s, n |-> t.n]
  <2>1. streamer.todo # <<>> /\ streamer.at = "frame"
    BY <1>3 DEF FindPad
  <2>2. t \in Arrivals /\ Range(streamer.todo) = {t} \cup Range(Tail(streamer.todo))
    BY <1>2, <2>1, FirstAndRest, RestInOrder
  <2>3. CASE Wanted(p)
    <3>1. /\ streamer'.todo = Tail(streamer.todo) /\ streamer'.data = Append(streamer.data, f)
          /\ streamer'.at \in {"frame", "push"}
      BY <1>3, <2>3 DEF FindPad, FrameTypes, Hands, Emplaced
    <3>2. f \in Frames /\ f.s = t.s /\ f.pad = p /\ t.s \in Streams
      BY <2>2 DEF Arrivals, Frames, FrameTypes
    <3> HIDE DEF f
    <3>3. Range(streamer'.data) = Range(streamer.data) \cup {f}
      BY <1>2, <3>1, <3>2, OneMore
    <3>4. \A g \in Range(streamer'.data) \ Range(streamer.data) :
             /\ g.s \in Streams /\ g.pad = pad_indexes[g.s] /\ Wanted(pad_indexes[g.s])
             /\ \E h \in Range(streamer.todo) : h.s = g.s
      BY <2>2, <2>3, <3>2, <3>3
    <3> QED BY <1>1, <1>3, <2>2, <3>1, <3>4
  <2>4. CASE ~Wanted(p)
    <3>1. /\ streamer'.todo = Tail(streamer.todo) /\ streamer'.data = streamer.data
          /\ streamer'.at = streamer.at
      BY <1>3, <2>4 DEF FindPad, Skipped, FrameTypes, Hands
    <3> QED BY <1>1, <2>1, <2>2, <3>1
  <2> QED BY <2>3, <2>4
<1>4. CASE PadsFound
  <2>1. CASE streamer.data = <<>>
    BY <1>1, <1>4, <2>1, EmptyIsShort DEF PadsFound, Collected, Idle
  <2>2. CASE streamer.data # <<>>
    BY <1>1, <1>4, <2>2 DEF PadsFound, Collected, FrameTypes, Hands
  <2> QED BY <2>1, <2>2
<1>5. ASSUME streamer.at = "push", streamer' = Pushed
      PROVE  /\ streamer'.at \in {"frame", "push"} /\ streamer'.todo = streamer.todo
             /\ Range(streamer'.data) \subseteq Range(streamer.data)
  <2>1. /\ streamer'.todo = streamer.todo /\ streamer'.data = Tail(streamer.data)
        /\ streamer'.at \in {"frame", "push"}
    BY <1>5 DEF Pushed, FrameTypes, Hands
  <2>2. streamer.data # <<>>
    BY <1>5 DEF HandsInv
  <2> QED BY <1>2, <2>1, <2>2, RestInOrder
<1>6. CASE PushFrame
  BY <1>1, <1>5, <1>6 DEF PushFrame
<1>7. CASE PushFails
  <2>1. CASE config.isAudio
    BY <1>1, <1>7, <2>1, EmptyIsShort DEF PushFails, AfterError, Idle
  <2>2. CASE ~config.isAudio
    BY <1>1, <1>5, <1>7, <2>2 DEF PushFails, AfterError
  <2> QED BY <2>1, <2>2
<1> QED BY <1>3, <1>4, <1>6, <1>7

\* The other steps leave the thread alone, or begin a batch.
LEMMA PadsStep ==
    ASSUME FrameInv, FrameInv', PadsInv, [Next]_vars
    PROVE  PadsInv'
<1> USE DEF padVars, tableVars
<1>0. /\ owner \in Seq(Streams) /\ pad_indexes \in [Streams -> Nat]
      /\ \A p \in DOMAIN owner : owner[p] \in Streams
  BY DEF FrameInv, FrameTypes
<1>1. CASE \/ PushStart \/ FindEosPad \/ PushEvent
           \/ \E s \in Streams : \/ ReceiveEvent(s, "start") \/ ReceiveEvent(s, "segment")
                                 \/ FlagEos(s)
  <2>1. /\ UNCHANGED <<owner, removed, linked, pad_indexes, appVars>>
        /\ streamer'.data = <<>>
        /\ streamer'.at \in {"start", "segment", "eos"} =>
              /\ streamer'.s \in Streams /\ pad_indexes[streamer'.s] # 0
              /\ streamer'.pad = pad_indexes[streamer'.s]
    BY <1>1, EventSteps
  <2> QED BY <2>1, EmptyIsShort DEF PadsInv, appVars
<1>2. CASE FindPad \/ PadsFound \/ PushFrame \/ PushFails
  <2>1. /\ UNCHANGED <<owner, removed, linked, pad_indexes, appVars>>
        /\ streamer'.at \in {"idle", "frame", "push"}
        /\ \A f \in Range(streamer'.data) \ Range(streamer.data) :
              f.s \in Streams /\ f.pad = pad_indexes[f.s] /\ Wanted(pad_indexes[f.s])
    BY <1>2, BatchSteps
  <2>2. \A f \in Range(streamer'.data) : f.pad \in DOMAIN owner /\ owner[f.pad] = f.s
    BY <2>1 DEF PadsInv, Wanted
  <2> QED BY <2>1, <2>2 DEF PadsInv, appVars
<1>3. ASSUME NEW upTo, Batch(upTo) PROVE PadsInv'
  <2>1. /\ UNCHANGED <<owner, removed, linked, pad_indexes, appVars>>
        /\ streamer'.data = <<>> /\ streamer'.at = "frame"
    BY <1>3 DEF Batch, Idle
  <2> QED BY <2>1, EmptyIsShort DEF PadsInv, appVars
<1>4. CASE SinkCaps \/ (\E s \in Streams : UpdateCaps(s) \/ RequestTwice(s)) \/ UNCHANGED vars
  <2>1. UNCHANGED <<owner, removed, linked, pad_indexes, streamer, appVars>>
    BY <1>4 DEF SinkCaps, UpdateCaps, RequestTwice, vars
  <2> QED BY <2>1 DEF PadsInv, appVars
<1>5. CASE ReleasePad
  <2>1. /\ releasing # 0 /\ releasing' = 0 /\ UNCHANGED <<owner, linked, streamer, premature>>
        /\ removed' = removed \cup {releasing}
        /\ pad_indexes' = [pad_indexes EXCEPT ![owner[releasing]] = 0]
    BY <1>5 DEF ReleasePad
  <2>2. releasing \in DOMAIN owner \ removed /\ pad_indexes[owner[releasing]] = releasing
    BY <2>1 DEF PadsInv
  <2>3. \A s \in Streams \ {owner[releasing]} : pad_indexes[s] # releasing
    BY <2>1 DEF PadsInv
  <2>4. \A s \in Streams : pad_indexes'[s] # 0 =>
             pad_indexes'[s] \in DOMAIN owner' \ removed' /\ owner'[pad_indexes'[s]] = s
    <3> SUFFICES ASSUME NEW s \in Streams, pad_indexes'[s] # 0
                 PROVE  /\ pad_indexes'[s] \in DOMAIN owner \ removed'
                        /\ owner[pad_indexes'[s]] = s
      BY <2>1
    <3>1. s # owner[releasing] /\ pad_indexes'[s] = pad_indexes[s]
      BY <1>0, <2>1
    <3> QED BY <2>1, <2>3, <3>1 DEF PadsInv
  <2>5. \A p \in DOMAIN owner' \ removed' : pad_indexes'[owner'[p]] = p
    BY <1>0, <2>1, <2>2 DEF PadsInv
  <2> QED BY <2>1, <2>2, <2>4, <2>5 DEF PadsInv
<1>6. ASSUME NEW s \in Streams, BeginRelease(s) PROVE PadsInv'
  <2>1. /\ pad_indexes[s] # 0 /\ releasing' = pad_indexes[s]
        /\ premature' \subseteq premature \cup {pad_indexes[s]}
        /\ UNCHANGED <<owner, removed, linked, pad_indexes, streamer>>
    BY <1>6 DEF BeginRelease
  <2> QED BY <2>1 DEF PadsInv
<1>7. ASSUME NEW s \in Streams, RequestPad(s) PROVE PadsInv'
  <2>1. /\ pad_indexes[s] = 0 /\ UNCHANGED <<removed, streamer, appVars>>
        /\ owner' = Append(owner, s)
        /\ pad_indexes' = [pad_indexes EXCEPT ![s] = Len(owner')]
        /\ linked' \subseteq linked \cup {Len(owner')}
    BY <1>7 DEF RequestPad
  <2>2. /\ Len(owner) \in Nat /\ DOMAIN owner = 1 .. Len(owner) /\ Len(owner') = Len(owner) + 1
        /\ DOMAIN owner' = 1 .. (Len(owner) + 1) /\ owner'[Len(owner) + 1] = s
        /\ \A p \in DOMAIN owner : owner'[p] = owner[p] /\ owner[p] \in Streams
    BY <1>0, <2>1, OneMore
  <2>3. \A p \in DOMAIN owner \ removed : owner[p] # s
    BY <2>1, <2>2 DEF PadsInv
  <2>4. /\ removed' \subseteq DOMAIN owner' /\ linked' \subseteq DOMAIN owner'
        /\ \A f \in Range(streamer'.data) : f.pad \in DOMAIN owner' /\ owner'[f.pad] = f.s
        /\ streamer'.at \in {"start", "segment", "eos"} =>
              streamer'.s \in Streams /\ streamer'.pad \in DOMAIN owner'
                  /\ owner'[streamer'.pad] = streamer'.s
        /\ releasing' # 0 => releasing' \in DOMAIN owner' \ removed'
        /\ premature' \subseteq DOMAIN owner'
    BY <2>1, <2>2 DEF PadsInv, appVars
  <2>5. Len(owner) + 1 \notin removed
    BY <2>2 DEF PadsInv
  <2>6. \A t \in Streams : pad_indexes'[t] # 0 =>
             pad_indexes'[t] \in DOMAIN owner' \ removed' /\ owner'[pad_indexes'[t]] = t
    BY <1>0, <2>1, <2>2, <2>5 DEF PadsInv
  <2>7. \A p \in DOMAIN owner' \ removed' : pad_indexes'[owner'[p]] = p
    BY <1>0, <2>1, <2>2, <2>3 DEF PadsInv
  <2> QED BY <2>4, <2>6, <2>7 DEF PadsInv
<1> QED BY <1>1, <1>2, <1>3, <1>4, <1>5, <1>6, <1>7, EveryStep DEF FrameInv

\* Entries that are added to a log.
LEMMA Added ==
    ASSUME NEW S, NEW q \in Seq(S), NEW x \in S, NEW y \in S
    PROVE  /\ q \o <<>> = q /\ q \o <<x>> = Append(q, x)
           /\ q \o (<<>> \o <<y>>) = Append(q, y)
           /\ q \o (<<x>> \o <<y>>) = Append(Append(q, x), y)
           /\ DOMAIN <<x>> = {1} /\ <<x>>[1] = x
           /\ 1 \in DOMAIN (<<x>> \o <<y>>) /\ (<<x>> \o <<y>>)[1] = x
<1>1. q \o <<>> = q
  OBVIOUS
<1>2. q \o <<x>> = Append(q, x) 
  OBVIOUS
<1>3. <<>> \o <<y>> = <<y>>
  OBVIOUS
<1>4. <<x>> \o <<y>> = <<x, y>>
  <2> DEFINE r == <<x>> \o <<y>>
  <2>1. r \in Seq(S) /\ Len(r) = 2 /\ r[1] = x /\ r[2] = y
    OBVIOUS
  <2>2. <<x, y>> \in Seq(S) /\ Len(<<x, y>>) = 2
    OBVIOUS
  <2> HIDE DEF r
  <2>3. r = <<x, y>>
    BY <2>1, <2>2
  <2> QED BY <2>3 DEF r
<1>5. q \o <<x, y>> = Append(Append(q, x), y)
  OBVIOUS
<1>6. DOMAIN <<x>> = {1} /\ <<x>>[1] = x /\ 1 \in DOMAIN <<x, y>> /\ <<x, y>>[1] = x
  OBVIOUS
<1> QED BY <1>1, <1>2, <1>3, <1>4, <1>5, <1>6

--------------------------------------------------------------------------------
(* What goes out by a pad *)

\* Every pad has a log of entries.
LogTypes ==
    /\ log \in Seq(Seq(Entries)) /\ Len(log) = Len(owner)
    /\ arrived \in [Streams -> 0 .. MaxFrames]

\* Ways in which a log grows.
StartAdded(p) ==
    /\ PushStart /\ owner[p] \notin pad_stream_start_sent
    /\ log'[p] = Append(log[p], Event("start", owner[p]))

CapsAdded(p) ==
    /\ SinkCaps \/ UpdateCaps(owner[p])
    /\ log'[p] = Append(IF owner[p] \in pad_stream_start_sent THEN log[p]
                        ELSE Append(log[p], Event("start", owner[p])),
                        Event("caps", owner[p]))

FrameAdded(p) ==
    /\ PushFrame
    /\ \E f \in Range(streamer.data) :
           f.pad = p /\ log'[p] = Append(log[p], <<"frame", f.s, f.n>>)

EventAdded(p) ==
    /\ PushEvent /\ p = streamer.pad
    /\ log'[p] = Append(log[p], Event(streamer.at, owner[p]))

LogGrows(p) ==
    \/ log'[p] = log[p]
    \/ p \notin removed /\ (StartAdded(p) \/ CapsAdded(p) \/ FrameAdded(p) \/ EventAdded(p))

LEMMA LogDomain ==
    ASSUME FrameInv, LogTypes
    PROVE  /\ DOMAIN log = DOMAIN owner /\ DOMAIN owner = 1 .. Len(owner) /\ Len(owner) \in Nat
           /\ \A p \in DOMAIN owner : log[p] \in Seq(Entries) /\ owner[p] \in Streams
           /\ log = [r \in DOMAIN log |-> log[r]]
  BY DEF LogTypes, FrameInv, FrameTypes

LEMMA EventIsEntry ==
    ASSUME NEW s \in Streams, NEW kind \in {"start", "caps", "segment", "frame", "eos"}
    PROVE  Event(kind, s) \in Entries /\ Event(kind, s)[1] = kind
  BY DemuxAssumption DEF Event, Entries

\* STREAM_START of a stream.
LEMMA PushStartAdds ==
    ASSUME FrameInv, PadsInv, LogTypes, PushStart
    PROVE  /\ \A p \in DOMAIN log : LogGrows(p)
           /\ \A p \in DOMAIN log \ removed : owner[p] \in pad_stream_start_sent' =>
                  owner[p] \in pad_stream_start_sent \/ StartAdded(p)
           /\ log' = [r \in DOMAIN log |-> log'[r]] /\ UNCHANGED owner
           /\ pad_stream_start_sent \subseteq pad_stream_start_sent'
           /\ pad_stream_start_sent' \subseteq pad_stream_start_sent \cup Range(owner)
<1> DEFINE p == streamer.pad
           s == streamer.s
<1>1. s \in Streams /\ p \in DOMAIN owner /\ owner[p] = s /\ streamer.at = "start" /\ UNCHANGED owner
  BY DEF PushStart, PadsInv
<1>2. /\ DOMAIN log = DOMAIN owner /\ log[p] \in Seq(Entries)
      /\ Event("start", s) \in Entries
  BY <1>1, LogDomain, EventIsEntry
<1>3. CASE p \in removed
  <2>1. log' = log /\ pad_stream_start_sent' = pad_stream_start_sent
    BY <1>3 DEF PushStart, Out, Recorded, StartTaken
  <2> QED BY <1>1, <2>1, LogDomain DEF LogGrows
<1>4. CASE p \notin removed
  <2>1. /\ log' = Out(p, StartIfNotSent(s))
        /\ pad_stream_start_sent' = pad_stream_start_sent \cup {s}
    BY <1>4 DEF PushStart, Recorded, StartTaken
  <2>2. CASE s \in pad_stream_start_sent
    <3>1. log[p] \o StartIfNotSent(s) = log[p]
      BY <1>2, <2>2, Added DEF StartIfNotSent
    <3>2. log' = log \/ log' = [log EXCEPT ![p] = @ \o StartIfNotSent(s)]
      BY <2>1 DEF Out
    <3>3. /\ log' = [r \in DOMAIN log |-> log'[r]] /\ \A r \in DOMAIN log : log'[r] = log[r]
      BY <1>2, <3>1, <3>2, LogDomain
    <3> QED BY <1>1, <2>1, <2>2, <3>3 DEF LogGrows
  <2>3. CASE s \notin pad_stream_start_sent
    <3>1. log[p] \o StartIfNotSent(s) = Append(log[p], Event("start", s))
      BY <1>2, <2>3, Added DEF StartIfNotSent
    <3>2. log' = [log EXCEPT ![p] = @ \o StartIfNotSent(s)]
      <4>1. StartIfNotSent(s)[1][1] = "start" /\ 1 \in DOMAIN StartIfNotSent(s)
        <5>1. Event("start", s)[1] = "start"
          BY <1>1, EventIsEntry
        <5> QED BY <1>2, <2>3, <5>1, Added DEF StartIfNotSent
      <4> QED BY <1>4, <2>1, <4>1 DEF Out
    <3>3. /\ log' = [r \in DOMAIN log |-> log'[r]] /\ \A r \in DOMAIN log \ {p} : log'[r] = log[r]
          /\ log'[p] = Append(log[p], Event("start", s))
      BY <1>1, <1>2, <3>1, <3>2
    <3>4. StartAdded(p)
      BY <1>1, <2>3, <3>3 DEF StartAdded
    <3>5. \A r \in DOMAIN log : LogGrows(r)
      BY <1>4, <3>3, <3>4 DEF LogGrows
    <3>6. ASSUME NEW r \in DOMAIN log \ removed, owner[r] = s PROVE r = p
      BY <1>1, <1>2, <1>4, <3>6 DEF PadsInv
    <3>7. s \in Range(owner)
      BY <1>1 DEF Range
    <3> QED BY <1>1, <2>1, <3>3, <3>4, <3>5, <3>6, <3>7
  <2> QED BY <2>2, <2>3
<1> QED BY <1>3, <1>4

\* The caps of the batches: for audio they go out by every pad.
LEMMA SinkCapsAdds ==
    ASSUME FrameInv, PadsInv, LogTypes, SinkCaps
    PROVE  /\ \A p \in DOMAIN log : LogGrows(p)
           /\ \A p \in DOMAIN log \ removed : owner[p] \in pad_stream_start_sent' =>
                  owner[p] \in pad_stream_start_sent \/ CapsAdded(p)
           /\ log' = [r \in DOMAIN log |-> log'[r]] /\ UNCHANGED owner
           /\ pad_stream_start_sent \subseteq pad_stream_start_sent'
           /\ pad_stream_start_sent' \subseteq pad_stream_start_sent \cup Range(owner)
<1>1. UNCHANGED owner
  BY DEF SinkCaps
<1>2. CASE ~config.isAudio
  BY <1>1, <1>2, LogDomain DEF SinkCaps, LogGrows
<1>3. CASE config.isAudio
  <2>1. /\ log' = [p \in DOMAIN log |->
                      IF p \in removed THEN log[p]
                      ELSE log[p] \o StartIfNotSent(owner[p]) \o <<Event("caps", owner[p])>>]
        /\ \E T \in SUBSET {s \in Streams : pad_indexes[s] # 0} :
              pad_stream_start_sent' = pad_stream_start_sent \cup T
    <3> DEFINE known == {s \in Streams : pad_indexes[s] # 0}
               T == UNION {Recorded(s, pad_indexes[s]) : s \in known}
    <3>1. T \in SUBSET known
      BY DEF Recorded
    <3> QED BY <1>3, <3>1 DEF SinkCaps
  <2>2. ASSUME NEW p \in DOMAIN log \ removed PROVE CapsAdded(p)
    <3>1. /\ log[p] \in Seq(Entries) /\ owner[p] \in Streams
          /\ Event("start", owner[p]) \in Entries /\ Event("caps", owner[p]) \in Entries
      BY LogDomain, EventIsEntry
    <3>2. log'[p] = log[p] \o StartIfNotSent(owner[p]) \o <<Event("caps", owner[p])>>
      BY <2>1
    <3>3. CASE owner[p] \in pad_stream_start_sent
      BY <3>1, <3>2, <3>3, Added DEF StartIfNotSent, CapsAdded
    <3>4. CASE owner[p] \notin pad_stream_start_sent
      <4>1. log[p] \o StartIfNotSent(owner[p]) = Append(log[p], Event("start", owner[p]))
        BY <3>1, <3>4, Added DEF StartIfNotSent
      <4>2. Append(log[p], Event("start", owner[p])) \in Seq(Entries)
        BY <3>1, OneMore
      <4>3. log'[p] = Append(Append(log[p], Event("start", owner[p])), Event("caps", owner[p]))
        BY <3>1, <3>2, <4>1, <4>2, Added
      <4> QED BY <3>4, <4>3 DEF CapsAdded
    <3> QED BY <3>3, <3>4
  <2>3. \A s \in Streams : pad_indexes[s] # 0 => s \in Range(owner)
    BY DEF PadsInv, Range
  <2> QED BY <1>1, <2>1, <2>2, <2>3 DEF LogGrows
<1> QED BY <1>2, <1>3

\* The caps of one stream.
LEMMA UpdateCapsAdds ==
    ASSUME FrameInv, PadsInv, LogTypes, NEW s \in Streams, UpdateCaps(s)
    PROVE  /\ \A p \in DOMAIN log : LogGrows(p)
           /\ \A p \in DOMAIN log \ removed : owner[p] \in pad_stream_start_sent' =>
                  owner[p] \in pad_stream_start_sent \/ CapsAdded(p)
           /\ log' = [r \in DOMAIN log |-> log'[r]] /\ UNCHANGED owner
           /\ pad_stream_start_sent \subseteq pad_stream_start_sent'
           /\ pad_stream_start_sent' \subseteq pad_stream_start_sent \cup Range(owner)
<1> DEFINE p == pad_indexes[s]
           entries == StartIfNotSent(s) \o <<Event("caps", s)>>
<1>1. UNCHANGED owner
  BY DEF UpdateCaps
<1>2. CASE p = 0
  BY <1>1, <1>2, LogDomain DEF UpdateCaps, LogGrows
<1>3. CASE p # 0
  <2>1. log' = Out(p, entries) /\ pad_stream_start_sent' = pad_stream_start_sent \cup {s}
    BY <1>3 DEF UpdateCaps, PadsInv, Recorded, StartTaken
  <2>2. /\ p \in DOMAIN owner \ removed /\ owner[p] = s /\ DOMAIN log = DOMAIN owner
        /\ log[p] \in Seq(Entries) /\ Event("start", s) \in Entries /\ Event("caps", s) \in Entries
        /\ Event("start", s)[1] = "start"
    BY <1>3, LogDomain, EventIsEntry DEF PadsInv
  <2>3. ASSUME NEW r \in DOMAIN log \ removed, owner[r] = s PROVE r = p
    BY <2>2, <2>3 DEF PadsInv
  <2>4. s \in Range(owner)
    BY <2>2 DEF Range
  <2>5. CASE s \in pad_stream_start_sent
    <3>1. log[p] \o entries = Append(log[p], Event("caps", s))
      BY <2>2, <2>5, Added DEF StartIfNotSent
    <3>2. log' = log \/ log' = [log EXCEPT ![p] = @ \o entries]
      BY <2>1 DEF Out
    <3> HIDE DEF entries
    <3>3. CASE log' = log
      BY <1>1, <2>1, <2>5, <3>3, LogDomain DEF LogGrows
    <3>4. CASE log' = [log EXCEPT ![p] = @ \o entries]
      <4>1. /\ log' = [r \in DOMAIN log |-> log'[r]] /\ \A r \in DOMAIN log \ {p} : log'[r] = log[r]
            /\ log'[p] = Append(log[p], Event("caps", s))
        BY <2>2, <3>1, <3>4
      <4>2. CapsAdded(p)
        BY <2>2, <2>5, <4>1 DEF CapsAdded
      <4> QED BY <1>1, <2>1, <2>2, <2>5, <4>1, <4>2 DEF LogGrows
    <3> QED BY <3>2, <3>3, <3>4
  <2>6. CASE s \notin pad_stream_start_sent
    <3>1. /\ log[p] \o entries = Append(Append(log[p], Event("start", s)), Event("caps", s))
          /\ entries[1] = Event("start", s) /\ 1 \in DOMAIN entries
      BY <2>2, <2>6, Added DEF StartIfNotSent
    <3>2. log' = [log EXCEPT ![p] = @ \o entries]
      BY <2>1, <2>2, <3>1 DEF Out
    <3> HIDE DEF entries
    <3>3. /\ log' = [r \in DOMAIN log |-> log'[r]] /\ \A r \in DOMAIN log \ {p} : log'[r] = log[r]
          /\ log'[p] = Append(Append(log[p], Event("start", s)), Event("caps", s))
      BY <2>2, <3>1, <3>2
    <3>4. CapsAdded(p)
      BY <2>2, <2>6, <3>3 DEF CapsAdded
    <3> QED BY <1>1, <2>1, <2>2, <2>3, <2>4, <3>3, <3>4 DEF LogGrows
  <2> QED BY <2>5, <2>6
<1> QED BY <1>2, <1>3

\* A frame.
LEMMA PushFrameAdds ==
    ASSUME FrameInv, PadsInv, LogTypes, PushFrame
    PROVE  /\ \A p \in DOMAIN log : LogGrows(p)
           /\ log' = [r \in DOMAIN log |-> log'[r]]
<1> DEFINE f == Head(streamer.data)
<1>1. f \in Range(streamer.data)
  <2>1. streamer.data \in Seq(Frames) /\ streamer.data # <<>>
    BY DEF PushFrame, FrameInv, FrameTypes, HandsInv, Hands
  <2> QED BY <2>1, RestInOrder
<1>2. f.pad \in DOMAIN log
  BY <1>1, LogDomain DEF PadsInv
<1>3. CASE log' = log
  BY <1>3, LogDomain DEF LogGrows
<1>4. CASE log' # log
  <2>1. /\ f.pad \notin removed
        /\ log' = [log EXCEPT ![f.pad] = Append(@, <<"frame", f.s, f.n>>)]
    BY <1>4 DEF PushFrame
  <2> HIDE DEF f
  <2>2. /\ log' = [r \in DOMAIN log |-> log'[r]] /\ \A r \in DOMAIN log \ {f.pad} : log'[r] = log[r]
        /\ log'[f.pad] = Append(log[f.pad], <<"frame", f.s, f.n>>)
    BY <1>2, <2>1
  <2>3. FrameAdded(f.pad)
    BY <1>1, <2>2 DEF FrameAdded
  <2> QED BY <2>1, <2>2, <2>3 DEF LogGrows
<1> QED BY <1>3, <1>4

\* A segment or EOS.
LEMMA PushEventAdds ==
    ASSUME FrameInv, PadsInv, LogTypes, PushEvent
    PROVE  /\ \A p \in DOMAIN log : LogGrows(p)
           /\ log' = [r \in DOMAIN log |-> log'[r]]
<1> DEFINE p == streamer.pad
           s == streamer.s
           x == Event(streamer.at, s)
<1>1. streamer.at \in {"segment", "eos"} /\ s \in Streams /\ p \in DOMAIN owner /\ owner[p] = s
  BY DEF PushEvent, PadsInv
<1>2. /\ DOMAIN log = DOMAIN owner /\ log[p] \in Seq(Entries) /\ x \in Entries
      /\ x[1] = streamer.at
  BY <1>1, LogDomain, EventIsEntry
<1>3. log' = Out(p, <<x>>)
  BY DEF PushEvent
<1> HIDE DEF x
<1>4. log[p] \o <<x>> = Append(log[p], x)
  BY <1>2, Added
<1>5. CASE log' = log
  BY <1>5, LogDomain DEF LogGrows
<1>6. CASE log' # log
  <2>1. p \notin removed /\ log' = [log EXCEPT ![p] = @ \o <<x>>]
    BY <1>3, <1>6 DEF Out
  <2>2. /\ log' = [r \in DOMAIN log |-> log'[r]] /\ \A r \in DOMAIN log \ {p} : log'[r] = log[r]
        /\ log'[p] = Append(log[p], x)
    BY <1>1, <1>2, <1>4, <2>1
  <2>3. EventAdded(p)
    BY <1>1, <2>2 DEF EventAdded, x
  <2> QED BY <2>1, <2>2, <2>3 DEF LogGrows
<1> QED BY <1>5, <1>6

\* The other steps leave the logs alone, except that a new pad begins one.
LEMMA OthersAddNothing ==
    ASSUME FrameInv, [Next]_vars,
           ~PushStart, ~SinkCaps, ~PushFrame, ~PushEvent, \A s \in Streams : ~UpdateCaps(s)
    PROVE  /\ UNCHANGED pad_stream_start_sent
           /\ \/ UNCHANGED <<log, owner>>
              \/ \E s \in Streams : RequestPad(s)
<1>1. CASE UNCHANGED vars
  BY <1>1 DEF vars, tableVars, padVars
<1>2. CASE FindPad \/ PadsFound \/ PushFails \/ FindEosPad
  BY <1>2 DEF FindPad, PadsFound, PushFails, FindEosPad, tableVars, padVars
<1>3. ASSUME NEW upTo, Batch(upTo)
      PROVE  UNCHANGED <<pad_stream_start_sent, log, owner>>
  BY <1>3 DEF Batch, tableVars, padVars
<1>4. ASSUME NEW s \in Streams,
             ReceiveEvent(s, "start") \/ ReceiveEvent(s, "segment") \/ FlagEos(s)
               \/ RequestTwice(s) \/ BeginRelease(s)
      PROVE  UNCHANGED <<pad_stream_start_sent, log, owner>>
  BY <1>4 DEF ReceiveEvent, FlagEos, RequestTwice, BeginRelease, tableVars, padVars
<1>5. CASE ReleasePad
  BY <1>5 DEF ReleasePad
<1>6. ASSUME NEW s \in Streams, RequestPad(s)
      PROVE  UNCHANGED pad_stream_start_sent
  BY <1>6 DEF RequestPad
<1> QED BY <1>1, <1>2, <1>3, <1>4, <1>5, <1>6, EveryStep DEF FrameInv

\* What a step does to the logs and to pad_stream_start_sent.
LEMMA LogSteps ==
    ASSUME FrameInv, PadsInv, LogTypes, [Next]_vars
    PROVE  /\ \A p \in DOMAIN log : p \in DOMAIN log' /\ LogGrows(p) /\ owner'[p] = owner[p]
           /\ \A p \in DOMAIN log \ removed : owner[p] \in pad_stream_start_sent' =>
                  owner[p] \in pad_stream_start_sent \/ StartAdded(p) \/ CapsAdded(p)
           /\ pad_stream_start_sent \subseteq pad_stream_start_sent'
           /\ pad_stream_start_sent' \subseteq pad_stream_start_sent \cup Range(owner)
           /\ \/ log' = [r \in DOMAIN log |-> log'[r]] /\ UNCHANGED owner
              \/ \E s \in Streams : RequestPad(s)
<1>1. CASE PushStart
  BY <1>1, PushStartAdds
<1>2. CASE SinkCaps
  BY <1>2, SinkCapsAdds
<1>3. ASSUME NEW s \in Streams, UpdateCaps(s)
      PROVE  /\ \A p \in DOMAIN log : LogGrows(p)
             /\ \A p \in DOMAIN log \ removed : owner[p] \in pad_stream_start_sent' =>
                    owner[p] \in pad_stream_start_sent \/ CapsAdded(p)
             /\ log' = [r \in DOMAIN log |-> log'[r]] /\ UNCHANGED owner
             /\ pad_stream_start_sent \subseteq pad_stream_start_sent'
             /\ pad_stream_start_sent' \subseteq pad_stream_start_sent \cup Range(owner)
  BY <1>3, UpdateCapsAdds
<1>4. CASE PushFrame
  <2>1. UNCHANGED <<owner, pad_stream_start_sent>>
    BY <1>4 DEF PushFrame, tableVars
  <2> QED BY <1>4, <2>1, PushFrameAdds
<1>5. CASE PushEvent
  <2>1. UNCHANGED <<owner, pad_stream_start_sent>>
    BY <1>5 DEF PushEvent, tableVars
  <2> QED BY <1>5, <2>1, PushEventAdds
<1>6. CASE /\ ~PushStart /\ ~SinkCaps /\ ~PushFrame /\ ~PushEvent
           /\ \A s \in Streams : ~UpdateCaps(s)
  <2>1. UNCHANGED pad_stream_start_sent
    BY <1>6, OthersAddNothing
  <2>2. CASE UNCHANGED <<log, owner>>
    BY <2>1, <2>2, LogDomain DEF LogGrows
  <2>3. ASSUME NEW s \in Streams, RequestPad(s)
        PROVE  \A p \in DOMAIN log : p \in DOMAIN log' /\ log'[p] = log[p] /\ owner'[p] = owner[p]
    <3>1. owner' = Append(owner, s) /\ log' = Append(log, <<>>)
      BY <2>3 DEF RequestPad
    <3>2. owner \in Seq(Streams) /\ log \in Seq(Seq(Entries)) /\ <<>> \in Seq(Entries)
      BY EmptyIsShort DEF FrameInv, FrameTypes, LogTypes
    <3>3. /\ DOMAIN log = DOMAIN owner
          /\ \A p \in DOMAIN owner : owner'[p] = owner[p]
      BY <3>1, <3>2, LogDomain, OneMore
    <3>4. /\ \A p \in DOMAIN log : log'[p] = log[p] /\ p \in DOMAIN log'
      BY <3>1, <3>2, OneMore
    <3> QED BY <3>3, <3>4
  <2>4. ASSUME NEW s \in Streams, RequestPad(s)
        PROVE  \A p \in DOMAIN log : p \in DOMAIN log' /\ LogGrows(p) /\ owner'[p] = owner[p]
    BY <2>3, <2>4 DEF LogGrows
  <2> QED BY <1>6, <2>1, <2>2, <2>4, OthersAddNothing
<1> QED BY <1>1, <1>2, <1>3, <1>4, <1>5, <1>6

\* The number of frames stays within the bound.
LEMMA ArrivedBounded ==
    ASSUME FrameInv, LogTypes, [Next]_vars
    PROVE  arrived' \in [Streams -> 0 .. MaxFrames]
<1>1. CASE UNCHANGED arrived
  BY <1>1 DEF LogTypes
<1>2. ASSUME NEW upTo \in [Streams -> 0 .. MaxFrames], Batch(upTo)
      PROVE  arrived' \in [Streams -> 0 .. MaxFrames]
  BY <1>2 DEF Batch
<1> QED BY <1>1, <1>2, EveryStep DEF FrameInv, vars, frameVars, SinkCaps, UpdateCaps, FindPad,
        PadsFound, PushFrame, PushFails, PushStart, ReceiveEvent, FindEosPad, FlagEos, PushEvent,
        RequestPad, RequestTwice, BeginRelease, ReleasePad

LEMMA ListIsSequence ==
    ASSUME NEW S, NEW n \in Nat, NEW q, q = [r \in 1 .. n |-> q[r]], \A r \in 1 .. n : q[r] \in S
    PROVE  q \in Seq(S) /\ Len(q) = n
<1>1. q \in [1 .. n -> S]
  <2>1. [r \in 1 .. n |-> q[r]] \in [1 .. n -> S]
    OBVIOUS
  <2> QED BY <2>1
<1> QED BY <1>1

LEMMA LogTypesStep ==
    ASSUME FrameInv, PadsInv, LogTypes, [Next]_vars
    PROVE  LogTypes'
<1>1. arrived' \in [Streams -> 0 .. MaxFrames]
  BY ArrivedBounded
<1>2. ASSUME NEW p \in DOMAIN log PROVE log'[p] \in Seq(Entries)
  <2>1. /\ log[p] \in Seq(Entries) /\ owner[p] \in Streams /\ LogGrows(p)
        /\ Event("start", owner[p]) \in Entries /\ Event("caps", owner[p]) \in Entries
        /\ Event("segment", owner[p]) \in Entries /\ Event("eos", owner[p]) \in Entries
    BY LogDomain, LogSteps, EventIsEntry
  <2>2. CASE log'[p] = log[p]
    BY <2>1, <2>2
  <2>3. CASE StartAdded(p)
    BY <2>1, <2>3, OneMore DEF StartAdded
  <2>4. CASE CapsAdded(p)
    <3>1. Append(log[p], Event("start", owner[p])) \in Seq(Entries)
      BY <2>1, OneMore
    <3> QED BY <2>1, <2>4, <3>1, OneMore DEF CapsAdded
  <2>5. CASE FrameAdded(p)
    <3>1. PICK f \in Range(streamer.data) : log'[p] = Append(log[p], <<"frame", f.s, f.n>>)
      BY <2>5 DEF FrameAdded
    <3>2. PICK i \in DOMAIN streamer.data : f = streamer.data[i]
      BY DEF Range
    <3>3. f.s \in Streams /\ f.n \in 0 .. arrived[f.s]
      <4>1. f \in Frames
        BY <3>2 DEF FrameInv, FrameTypes, Hands
      <4>2. f.s \in Streams /\ f.n \in Held(f.s)
        BY <4>1 DEF Frames, Held
      <4>3. f.n \in 1 .. arrived[f.s]
        BY <4>2 DEF FrameInv, FinishedInv
      <4>4. arrived[f.s] \in Nat
        BY <4>2 DEF FrameInv, FrameTypes
      <4> QED BY <4>2, <4>3, <4>4
    <3>4. <<"frame", f.s, f.n>> \in Entries
      BY <3>3, DemuxAssumption DEF LogTypes, Entries
    <3> QED BY <2>1, <3>1, <3>4, OneMore
  <2>6. CASE EventAdded(p)
    <3>1. streamer.at \in {"segment", "eos"}
      BY <2>6 DEF EventAdded, PushEvent
    <3> QED BY <2>1, <2>6, <3>1, OneMore DEF EventAdded
  <2> QED BY <2>1, <2>2, <2>3, <2>4, <2>5, <2>6 DEF LogGrows
<1>3. CASE log' = [r \in DOMAIN log |-> log'[r]] /\ UNCHANGED owner
  <2>1. DOMAIN log' = 1 .. Len(owner) /\ Len(owner) \in Nat
    BY <1>3, LogDomain
  <2> DEFINE T == Seq(Entries)
             n == Len(owner)
  <2>2. n \in Nat /\ log' = [r \in 1 .. n |-> log'[r]] /\ \A r \in 1 .. n : log'[r] \in T
    BY <1>2, <1>3, <2>1, LogDomain
  <2> HIDE DEF T, n
  <2>3. log' \in Seq(T) /\ Len(log') = n
    BY <2>2, ListIsSequence
  <2> QED BY <1>1, <1>3, <2>3 DEF LogTypes, T, n
<1>4. ASSUME NEW s \in Streams, RequestPad(s) PROVE LogTypes'
  <2>1. owner' = Append(owner, s) /\ log' = Append(log, <<>>)
    BY <1>4 DEF RequestPad
  <2>2. owner \in Seq(Streams) /\ log \in Seq(Seq(Entries)) /\ <<>> \in Seq(Entries)
    BY EmptyIsShort DEF FrameInv, FrameTypes, LogTypes
  <2>3. Len(owner') = Len(owner) + 1
    BY <2>1, <2>2, OneMore
  <2>4. log' \in Seq(Seq(Entries)) /\ Len(log') = Len(log) + 1
    BY <2>1, <2>2, OneMore
  <2> QED BY <1>1, <2>3, <2>4 DEF LogTypes
<1> QED BY <1>3, <1>4, LogSteps

--------------------------------------------------------------------------------
(* The tables *)

Phases == {"off", "begun", "flowing", "ended"}

\* The types of the tables, and the streams whose start was sent are streams that had a pad.
TableTypes ==
    /\ pad_stream_start_sent \subseteq Range(owner)
    /\ eos_flag \subseteq Streams /\ updated \subseteq Streams
    /\ sink_caps \in BOOLEAN /\ ctx_lock \in {"free", "lost"}
    /\ phase \in [Streams -> Phases]

LEMMA TableTypesStep ==
    ASSUME FrameInv, PadsInv, LogTypes, TableTypes, [Next]_vars
    PROVE  TableTypes'
<1>1. pad_stream_start_sent' \subseteq Range(owner)
  BY LogSteps DEF TableTypes
<1>2. Range(owner) \subseteq Range(owner')
  <2>1. CASE UNCHANGED owner
    BY <2>1
  <2>2. ASSUME NEW s \in Streams, RequestPad(s) PROVE Range(owner) \subseteq Range(owner')
    BY <2>2, OneMore DEF RequestPad, FrameInv, FrameTypes
  <2> QED BY <2>1, <2>2, LogSteps
<1>3. eos_flag' \subseteq Streams
  BY EveryStep DEF FrameInv, TableTypes, vars, tableVars, FindPad, PadsFound, PushFrame,
     PushFails, PushStart, FindEosPad, PushEvent, SinkCaps, Batch, UpdateCaps, ReceiveEvent,
     FlagEos, RequestPad, RequestTwice, BeginRelease, ReleasePad, Flagged
<1>4. updated' \subseteq Streams
  BY EveryStep DEF FrameInv, TableTypes, vars, FindPad, PadsFound, PushFrame, PushFails,
     PushStart, FindEosPad, PushEvent, SinkCaps, Batch, UpdateCaps, ReceiveEvent, FlagEos,
     RequestPad, RequestTwice, BeginRelease, ReleasePad
<1>5. sink_caps' \in BOOLEAN /\ ctx_lock' \in {"free", "lost"}
  BY EveryStep DEF FrameInv, TableTypes, vars, tableVars, FindPad, PadsFound, PushFrame,
     PushFails, PushStart, FindEosPad, PushEvent, SinkCaps, Batch, UpdateCaps, ReceiveEvent,
     FlagEos, RequestPad, RequestTwice, BeginRelease, ReleasePad
<1>6. phase' \in [Streams -> Phases]
  <2>1. \/ UNCHANGED phase
        \/ \E s \in Streams, k \in Phases : phase' = [phase EXCEPT ![s] = k]
    <3>1. ASSUME NEW s \in Streams, ReceiveEvent(s, "start") \/ ReceiveEvent(s, "segment")
          PROVE  \E k \in Phases : phase' = [phase EXCEPT ![s] = k]
      BY <3>1 DEF ReceiveEvent, Phases
    <3>2. ASSUME NEW s \in Streams, FlagEos(s)
          PROVE  \E k \in Phases : phase' = [phase EXCEPT ![s] = k]
      BY <3>2 DEF FlagEos, Phases
    <3>3. ASSUME \A s \in Streams : /\ ~ReceiveEvent(s, "start") /\ ~ReceiveEvent(s, "segment")
                                    /\ ~FlagEos(s)
          PROVE  UNCHANGED phase
      BY <3>3, EveryStep DEF FrameInv, vars, FindPad, PadsFound, PushFrame, PushFails,
         PushStart, FindEosPad, PushEvent, SinkCaps, Batch, UpdateCaps, RequestPad,
         RequestTwice, BeginRelease, ReleasePad
    <3> QED BY <3>1, <3>2, <3>3
  <2> QED BY <2>1 DEF TableTypes
<1> QED BY <1>1, <1>2, <1>3, <1>4, <1>5, <1>6 DEF TableTypes

\* A frame that did not go out is one of those that came.
LEMMA GoneHaveCome ==
    ASSUME FrameInv, LogTypes
    PROVE  gone \subseteq Streams \X (1 .. MaxFrames) \X Reasons
<1> SUFFICES ASSUME NEW g \in gone PROVE g \in Streams \X (1 .. MaxFrames) \X Reasons
  OBVIOUS
<1>1. g \in Streams \X Nat \X Reasons /\ g[1] \in Streams
  BY DEF FrameInv, FrameTypes
<1>2. g[2] \in Finished(g[1])
  BY DEF Finished, Gone
<1>3. arrived[g[1]] \in 0 .. MaxFrames
  BY <1>1 DEF LogTypes
<1>4. g[2] \in 1 .. MaxFrames
  <2>1. Finished(g[1]) \subseteq 1 .. arrived[g[1]]
    BY <1>1 DEF FrameInv, FinishedInv
  <2> QED BY <1>2, <1>3, <2>1, DemuxAssumption
<1> QED BY <1>1, <1>4

LEMMA TypesTrue ==
    ASSUME FrameInv, PadsInv, LogTypes, TableTypes
    PROVE  TypeOK
<1>1. gone \subseteq Streams \X (1 .. MaxFrames) \X {"unwanted", "refused", "abandoned"}
  BY GoneHaveCome DEF Reasons
<1>2. pad_stream_start_sent \subseteq Streams
  BY DEF TableTypes, FrameInv, FrameTypes, Range
<1>3. streamer.at \in {"idle", "frame", "push", "start", "segment", "flagged", "eos"}
  BY DEF FrameInv, FrameTypes, Hands
<1> QED BY <1>1, <1>2, <1>3
        DEF TypeOK, FrameInv, FrameTypes, PadsInv, LogTypes, TableTypes, Phases

\* The frames that the streaming thread has in its hands are of streams that flow.
FlowInv == \A f \in Range(streamer.todo) \cup Range(streamer.data) : phase[f.s] = "flowing"

LEMMA FlowStep ==
    ASSUME FrameInv, FlowInv, [Next]_vars
    PROVE  FlowInv'
<1>1. CASE \/ SinkCaps \/ ReleasePad \/ UNCHANGED vars
           \/ \E s \in Streams : \/ UpdateCaps(s) \/ RequestPad(s) \/ RequestTwice(s)
                                 \/ BeginRelease(s)
  <2>1. UNCHANGED <<phase, streamer>>
    BY <1>1 DEF SinkCaps, UpdateCaps, RequestPad, RequestTwice, BeginRelease, ReleasePad, vars
  <2> QED BY <2>1 DEF FlowInv
<1>2. CASE FindPad \/ PadsFound \/ PushFrame \/ PushFails
  <2>1. /\ UNCHANGED phase /\ Range(streamer'.todo) \subseteq Range(streamer.todo)
        /\ \A f \in Range(streamer'.data) \ Range(streamer.data) :
              \E g \in Range(streamer.todo) : g.s = f.s
    BY <1>2, BatchSteps
  <2> QED BY <2>1 DEF FlowInv
<1>3. CASE \/ PushStart \/ FindEosPad \/ PushEvent
           \/ \E s \in Streams : \/ ReceiveEvent(s, "start") \/ ReceiveEvent(s, "segment")
                                 \/ FlagEos(s)
  <2>1. streamer'.todo = <<>> /\ streamer'.data = <<>>
    BY <1>3, EventSteps
  <2> QED BY <2>1, EmptyIsShort DEF FlowInv
<1>4. ASSUME NEW upTo \in [Streams -> 0 .. MaxFrames], Batch(upTo) PROVE FlowInv'
  <2>1. PICK b : Range(b) = NewFrames(upTo) /\ streamer' = [Idle EXCEPT !.at = "frame", !.todo = b]
    BY <1>4 DEF Batch
  <2>2. streamer'.todo = b /\ streamer'.data = <<>>
    BY <2>1 DEF Idle
  <2>3. ASSUME NEW f \in NewFrames(upTo) PROVE phase[f.s] = "flowing"
    <3>1. f.s \in Streams /\ f.n \in (arrived[f.s] + 1) .. upTo[f.s]
      BY DEF NewFrames
    <3>2. arrived[f.s] \in Nat
      BY <3>1 DEF FrameInv, FrameTypes
    <3>3. upTo[f.s] # arrived[f.s]
      BY <3>1, <3>2
    <3> QED BY <1>4, <3>1, <3>3 DEF Batch
  <2>4. UNCHANGED phase
    BY <1>4 DEF Batch
  <2> QED BY <2>1, <2>2, <2>3, <2>4, EmptyIsShort DEF FlowInv
<1> QED BY <1>1, <1>2, <1>3, <1>4, EveryStep DEF FrameInv

\* What holds of the tables in every configuration.
TablesInv == FrameInv /\ PadsInv /\ LogTypes /\ TableTypes /\ FlowInv

LEMMA TablesInvInit == ASSUME Init PROVE TablesInv
<1>1. FrameInv
  BY FrameInvInit
<1>2. /\ owner = <<>> /\ log = <<>> /\ removed = {} /\ linked = {} /\ streamer = Idle
      /\ \A s \in Streams : pad_indexes[s] = 0
      /\ DOMAIN owner = {} /\ Len(owner) = 0 /\ releasing = 0 /\ premature = {}
  BY DEF Init
<1>3. PadsInv
  BY <1>2, EmptyIsShort DEF PadsInv, Idle
<1>4. LogTypes
  BY <1>2, EmptyIsShort, DemuxAssumption DEF Init, LogTypes
<1>5. TableTypes
  BY DEF Init, TableTypes, Phases
<1>6. FlowInv
  BY <1>2, EmptyIsShort DEF FlowInv, Idle
<1> QED BY <1>1, <1>3, <1>4, <1>5, <1>6 DEF TablesInv

LEMMA TablesKept == Spec => []TablesInv
<1>1. Init => TablesInv
  BY TablesInvInit
<1>2. TablesInv /\ [Next]_vars => TablesInv'
  BY FrameInvStep, PadsStep, LogTypesStep, TableTypesStep, FlowStep DEF TablesInv
<1> QED BY <1>1, <1>2, PTL DEF Spec

--------------------------------------------------------------------------------
(* eos_flag *)

\* A stream that does not begin again stays at its end.
LEMMA EndedStays ==
    ASSUME TablesInv, [Next]_vars, ~Allowed("reopen"), NEW s \in Streams, phase[s] = "ended"
    PROVE  phase'[s] = "ended"
<1>0. phase \in [Streams -> Phases]
  BY DEF TablesInv, TableTypes
<1>1. CASE \E t \in Streams : ReceiveEvent(t, "start") \/ ReceiveEvent(t, "segment")
  <2>1. PICK t \in Streams : ReceiveEvent(t, "start") \/ ReceiveEvent(t, "segment")
    BY <1>1
  <2>2. t # s /\ \E k \in Phases : phase' = [phase EXCEPT ![t] = k]
    BY <2>1 DEF ReceiveEvent, Phases
  <2> QED BY <1>0, <2>2
<1>2. CASE \E t \in Streams : FlagEos(t)
  <2>1. PICK t \in Streams : FlagEos(t)
    BY <1>2
  <2>2. t # s /\ phase' = [phase EXCEPT ![t] = "ended"]
    BY <2>1 DEF FlagEos
  <2> QED BY <1>0, <2>2
<1>3. CASE UNCHANGED phase
  BY <1>3
<1> QED BY <1>1, <1>2, <1>3, EveryStep
        DEF TablesInv, FrameInv, vars, FindPad, PadsFound, PushFrame, PushFails, PushStart,
            FindEosPad, PushEvent, SinkCaps, Batch, UpdateCaps, RequestPad, RequestTwice,
            BeginRelease, ReleasePad

\* A pad that is released, or being released, with the flag is one of a stream that ended.
QuietInv ==
    ~Allowed("reopen") =>
        /\ \A s \in eos_flag : phase[s] = "ended"
        /\ \A p \in DOMAIN owner :
              (p \in removed \/ p = releasing) /\ p \notin premature => phase[owner[p]] = "ended"

\* The flag is set when the EOS of a stream comes.
LEMMA FlagsStep ==
    ASSUME TablesInv, QuietInv, [Next]_vars, ~Allowed("reopen")
    PROVE  \A s \in eos_flag' : phase'[s] = "ended"
<1> SUFFICES ASSUME NEW s \in eos_flag' PROVE phase'[s] = "ended"
  OBVIOUS
<1>0. eos_flag' \subseteq Streams /\ phase \in [Streams -> Phases]
  BY TableTypesStep DEF TablesInv, TableTypes
<1>1. CASE s \in eos_flag
  BY <1>0, <1>1, EndedStays DEF QuietInv
<1>2. CASE s \notin eos_flag
  <2>1. \E t \in Streams : FlagEos(t)
    BY <1>2, EveryStep DEF TablesInv, FrameInv, vars, tableVars, FindPad, PadsFound, PushFrame,
       PushFails, PushStart, FindEosPad, PushEvent, SinkCaps, Batch, UpdateCaps, ReceiveEvent,
       RequestPad, RequestTwice, BeginRelease, ReleasePad
  <2>2. PICK t \in Streams : eos_flag' = eos_flag \cup {t} /\ phase' = [phase EXCEPT ![t] = "ended"]
    BY <2>1 DEF FlagEos, Flagged
  <2> QED BY <1>0, <1>2, <2>2
<1> QED BY <1>1, <1>2

\* A pad that goes, or is about to, without having been premature.
LEMMA QuietPadsStep ==
    ASSUME TablesInv, QuietInv, [Next]_vars, ~Allowed("reopen"), NEW p \in DOMAIN owner',
           p \in removed' \/ p = releasing', p \notin premature'
    PROVE  phase'[owner'[p]] = "ended"
<1>0. /\ removed \subseteq DOMAIN owner /\ (releasing # 0 => releasing \in DOMAIN owner)
      /\ owner \in Seq(Streams) /\ \A q \in DOMAIN owner : owner[q] \in Streams
      /\ DOMAIN owner = 1 .. Len(owner) /\ Len(owner) \in Nat
  BY DEF TablesInv, PadsInv, FrameInv, FrameTypes
<1>1. CASE p \in DOMAIN owner /\ owner'[p] = owner[p] /\ (p \in removed \/ p = releasing)
           /\ p \notin premature
  BY <1>0, <1>1, EndedStays DEF QuietInv
<1>2. CASE \E s \in Streams : BeginRelease(s)
  <2>1. PICK s \in Streams : BeginRelease(s)
    BY <1>2
  <2>2. /\ releasing' = pad_indexes[s] /\ pad_indexes[s] # 0 /\ UNCHANGED <<owner, removed>>
        /\ premature' = IF s \in eos_flag THEN premature ELSE premature \cup {pad_indexes[s]}
    BY <2>1 DEF BeginRelease, padVars
  <2>3. CASE p = pad_indexes[s]
    <3>1. owner[p] = s /\ s \in eos_flag
      BY <2>2, <2>3 DEF TablesInv, PadsInv
    <3> QED BY <2>2, <3>1, EndedStays DEF QuietInv
  <2>4. CASE p # pad_indexes[s]
    BY <1>1, <2>2, <2>4
  <2> QED BY <2>3, <2>4
<1>3. CASE ReleasePad
  BY <1>0, <1>1, <1>3 DEF ReleasePad
<1>4. CASE \E s \in Streams : RequestPad(s)
  <2>1. PICK s \in Streams : RequestPad(s)
    BY <1>4
  <2>2. owner' = Append(owner, s) /\ releasing = 0 /\ UNCHANGED <<removed, releasing, premature>>
    BY <2>1 DEF RequestPad, appVars
  <2>3. \A q \in DOMAIN owner : owner'[q] = owner[q]
    BY <1>0, <2>2, OneMore
  <2>4. p \in DOMAIN owner
    <3>1. p # 0
      BY <1>0, <2>2, OneMore
    <3> QED BY <1>0, <2>2, <3>1
  <2> QED BY <1>1, <2>2, <2>3, <2>4
<1>5. CASE UNCHANGED <<owner, removed, releasing, premature>>
  BY <1>1, <1>5
<1> QED BY <1>2, <1>3, <1>4, <1>5, EveryStep
        DEF TablesInv, FrameInv, vars, padVars, appVars, FindPad, PadsFound, PushFrame, PushFails,
            PushStart, FindEosPad, PushEvent, SinkCaps, Batch, UpdateCaps, ReceiveEvent, FlagEos,
            RequestTwice

\* The tables of the demuxer are of their types, and a pad that is released with its eos_flag
\* set is released late: its stream has ended and the streaming thread has no frame of it
\* between lookup and push, although gst_nvstreamdemux_release_pad reads the flag without
\* ctx_lock and takes the pad away later.
THEOREM QuietReleaseIsSafe == Spec => []TablesTrue
<1>1. Init => TablesInv /\ QuietInv
  <2> SUFFICES ASSUME Init PROVE QuietInv
    BY TablesInvInit
  <2>1. eos_flag = {} /\ owner = <<>> /\ DOMAIN owner = {}
    BY DEF Init
  <2> QED BY <2>1 DEF QuietInv
<1>2. TablesInv /\ QuietInv /\ [Next]_vars => QuietInv'
  <2> SUFFICES ASSUME TablesInv, QuietInv, [Next]_vars PROVE QuietInv'
    OBVIOUS
  <2>1. Allowed("reopen")' <=> Allowed("reopen")
    BY EveryStep DEF TablesInv, FrameInv, Allowed
  <2> QED BY <2>1, FlagsStep, QuietPadsStep DEF QuietInv
<1>3. TablesInv /\ QuietInv => TablesTrue
  <2> SUFFICES ASSUME TablesInv, QuietInv PROVE QuietReleaseIsLate
    BY TypesTrue DEF TablesInv, TablesTrue
  <2>1. ASSUME ~Allowed("reopen"), NEW p \in removed \ premature
        PROVE  /\ phase[owner[p]] = "ended"
               /\ \A f \in Range(streamer.todo) \cup Range(streamer.data) : f.s # owner[p]
    <3>1. phase[owner[p]] = "ended"
      BY <2>1 DEF QuietInv, TablesInv, PadsInv
    <3> QED BY <3>1 DEF TablesInv, FlowInv
  <2> QED BY <2>1 DEF QuietReleaseIsLate
<1> QED BY <1>1, <1>2, <1>3, TablesKept, PTL DEF Spec

--------------------------------------------------------------------------------
(* Announcements *)

HasStart(q) == \E i \in DOMAIN q : q[i][1] = "start"

OneStart(q) == \A i, j \in DOMAIN q : q[i][1] = "start" /\ q[j][1] = "start" => i = j

\* Caps and frames come after STREAM_START.
StartLeads(q) ==
    \A i \in DOMAIN q : q[i][1] \in {"caps", "frame"} => \E j \in DOMAIN q : q[j][1] = "start" /\ j < i

LEMMA OneMoreEntry ==
    ASSUME NEW q \in Seq(Entries), NEW x \in Entries
    PROVE  /\ HasStart(Append(q, x)) <=> HasStart(q) \/ x[1] = "start"
           /\ OneStart(q) /\ (x[1] = "start" => ~HasStart(q)) => OneStart(Append(q, x))
           /\ StartLeads(q) /\ (x[1] \in {"caps", "frame"} => HasStart(q)) =>
                 StartLeads(Append(q, x))
<1> DEFINE r == Append(q, x)
           n == Len(q)
<1>1. /\ n \in Nat /\ DOMAIN q = 1 .. n /\ DOMAIN r = 1 .. (n + 1)
      /\ \A i \in DOMAIN q : r[i] = q[i]
      /\ r[n + 1] = x
  BY OneMore
<1> HIDE DEF r, n
<1>2. HasStart(r) <=> HasStart(q) \/ x[1] = "start"
  BY <1>1 DEF HasStart
<1>3. OneStart(q) /\ (x[1] = "start" => ~HasStart(q)) => OneStart(r)
  BY <1>1 DEF OneStart, HasStart
<1>4. ASSUME StartLeads(q), x[1] \in {"caps", "frame"} => HasStart(q) PROVE StartLeads(r)
  <2> SUFFICES ASSUME NEW i \in DOMAIN r, r[i][1] \in {"caps", "frame"}
               PROVE  \E j \in DOMAIN r : r[j][1] = "start" /\ j < i
    BY DEF StartLeads
  <2>1. CASE i \in DOMAIN q
    BY <1>1, <1>4, <2>1 DEF StartLeads
  <2>2. CASE i = n + 1
    BY <1>1, <1>4, <2>2 DEF HasStart
  <2> QED BY <1>1, <2>1, <2>2
<1> QED BY <1>2, <1>3, <1>4 DEF r

\* The pad is the first its stream has had.
First(p) == \A q \in 1 .. (p - 1) : owner[q] # owner[p]

\* pad_stream_start_sent is true of the first pad of a stream, which has its STREAM_START before
\* a frame is taken to it: for video that is so when it has its caps, for audio when the caps of
\* the stream have come.
AnnouncedInv ==
    /\ \A p \in DOMAIN log :
           /\ OneStart(log[p])
           /\ First(p) => StartLeads(log[p])
           /\ HasStart(log[p]) => owner[p] \in pad_stream_start_sent
    /\ \A p \in DOMAIN log \ removed : First(p) =>
           /\ owner[p] \in pad_stream_start_sent => HasStart(log[p])
           /\ config.isAudio /\ owner[p] \in updated => HasStart(log[p])
    /\ updated # {} => sink_caps
    /\ \A s \in Streams : phase[s] = "flowing" => s \in updated
    /\ \A f \in Range(streamer.data) : f.pad \notin removed /\ First(f.pad) => HasStart(log[f.pad])

\* The application asks for the first audio pad of a stream before data come: the caps of the
\* batches, which announce the audio pads, come once.
AudioPadsInTime == \A c \in Configs : c.isAudio => "late-request" \notin c.env

LEMMA FrameIsEntry ==
    ASSUME FrameInv, LogTypes, NEW f \in Range(streamer.data)
    PROVE  <<"frame", f.s, f.n>> \in Entries /\ <<"frame", f.s, f.n>>[1] = "frame"
<1>1. PICK i \in DOMAIN streamer.data : f = streamer.data[i]
  BY DEF Range
<1>2. f \in Frames
  BY <1>1 DEF FrameInv, FrameTypes, Hands
<1>3. f.s \in Streams /\ f.n \in Held(f.s)
  BY <1>2 DEF Frames, Held
<1>4. f.n \in 1 .. arrived[f.s] /\ arrived[f.s] \in 0 .. MaxFrames
  BY <1>3 DEF FrameInv, FinishedInv, LogTypes
<1> QED BY <1>3, <1>4, DemuxAssumption DEF Entries

\* What a step adds to a log is announced.
LEMMA LogStaysAnnounced ==
    ASSUME TablesInv, AnnouncedInv, [Next]_vars, NEW p \in DOMAIN log
    PROVE  /\ OneStart(log'[p])
           /\ First(p) => StartLeads(log'[p])
           /\ HasStart(log[p]) => HasStart(log'[p])
           /\ HasStart(log'[p]) => \/ HasStart(log[p]) \/ StartAdded(p)
                                   \/ CapsAdded(p) /\ owner[p] \notin pad_stream_start_sent
           /\ p \notin removed /\ First(p) /\ (StartAdded(p) \/ CapsAdded(p)) => HasStart(log'[p])
<1>1. /\ log[p] \in Seq(Entries) /\ owner[p] \in Streams /\ LogGrows(p)
      /\ \A k \in {"start", "caps", "segment", "frame", "eos"} :
            Event(k, owner[p]) \in Entries /\ Event(k, owner[p])[1] = k
  BY LogDomain, LogSteps, EventIsEntry DEF TablesInv
<1>2. /\ OneStart(log[p]) /\ (First(p) => StartLeads(log[p]))
      /\ HasStart(log[p]) => owner[p] \in pad_stream_start_sent
      /\ p \notin removed /\ First(p) /\ owner[p] \in pad_stream_start_sent => HasStart(log[p])
  BY DEF AnnouncedInv
<1> DEFINE q == Append(log[p], Event("start", owner[p]))
<1>3. ASSUME owner[p] \notin pad_stream_start_sent
      PROVE  /\ q \in Seq(Entries) /\ OneStart(q) /\ HasStart(q)
             /\ First(p) => StartLeads(q)
  BY <1>1, <1>2, <1>3, OneMore, OneMoreEntry
<1>4. CASE StartAdded(p)
  <2>1. owner[p] \notin pad_stream_start_sent /\ log'[p] = q
    BY <1>4 DEF StartAdded
  <2> QED BY <1>3, <1>4, <2>1
<1>5. CASE CapsAdded(p) /\ p \notin removed
  <2>1. CASE owner[p] \in pad_stream_start_sent
    <3>1. log'[p] = Append(log[p], Event("caps", owner[p]))
      BY <1>5, <2>1 DEF CapsAdded
    <3>2. /\ HasStart(log'[p]) <=> HasStart(log[p])
          /\ OneStart(log'[p])
          /\ StartLeads(log[p]) /\ HasStart(log[p]) => StartLeads(log'[p])
      BY <1>1, <1>2, <3>1, OneMoreEntry
    <3> QED BY <1>2, <1>5, <2>1, <3>2
  <2>2. CASE owner[p] \notin pad_stream_start_sent
    <3>1. log'[p] = Append(q, Event("caps", owner[p]))
      BY <1>5, <2>2 DEF CapsAdded
    <3> HIDE DEF q
    <3>2. /\ HasStart(log'[p]) /\ OneStart(log'[p])
          /\ StartLeads(q) => StartLeads(log'[p])
      BY <1>1, <1>3, <2>2, <3>1, OneMoreEntry
    <3> QED BY <1>3, <1>5, <2>2, <3>2
  <2> QED BY <2>1, <2>2
<1>6. CASE FrameAdded(p) /\ p \notin removed
  <2>1. PICK f \in Range(streamer.data) :
           f.pad = p /\ log'[p] = Append(log[p], <<"frame", f.s, f.n>>)
    BY <1>6 DEF FrameAdded
  <2>2. <<"frame", f.s, f.n>> \in Entries /\ <<"frame", f.s, f.n>>[1] = "frame"
    BY FrameIsEntry DEF TablesInv
  <2>3. First(p) => HasStart(log[p])
    BY <1>6, <2>1 DEF AnnouncedInv
  <2>4. /\ HasStart(log'[p]) <=> HasStart(log[p])
        /\ OneStart(log'[p])
        /\ StartLeads(log[p]) /\ HasStart(log[p]) => StartLeads(log'[p])
    BY <1>1, <1>2, <2>1, <2>2, OneMoreEntry
  <2>5. ~StartAdded(p) /\ ~CapsAdded(p)
    BY <1>6 DEF FrameAdded, StartAdded, CapsAdded, PushFrame, PushStart, SinkCaps, UpdateCaps
  <2> QED BY <1>2, <2>3, <2>4, <2>5
<1>7. CASE EventAdded(p)
  <2>1. streamer.at \in {"segment", "eos"} /\ log'[p] = Append(log[p], Event(streamer.at, owner[p]))
    BY <1>7 DEF EventAdded, PushEvent
  <2>2. /\ HasStart(log'[p]) <=> HasStart(log[p])
        /\ OneStart(log'[p])
        /\ StartLeads(log[p]) => StartLeads(log'[p])
    BY <1>1, <1>2, <2>1, OneMoreEntry
  <2>3. ~StartAdded(p) /\ ~CapsAdded(p)
    BY <2>1 DEF StartAdded, CapsAdded, PushStart, SinkCaps, UpdateCaps
  <2> QED BY <1>2, <2>2, <2>3
<1>8. CASE log'[p] = log[p] /\ ~StartAdded(p) /\ ~CapsAdded(p)
  BY <1>2, <1>8
<1>9. CASE log'[p] = log[p] /\ CapsAdded(p)
  <2>1. log'[p] # log[p]
    <3>1. CASE owner[p] \in pad_stream_start_sent
      <4>1. Len(log'[p]) = Len(log[p]) + 1 /\ Len(log[p]) \in Nat
        BY <1>1, <1>9, <3>1, OneMore DEF CapsAdded
      <4> QED BY <4>1
    <3>2. CASE owner[p] \notin pad_stream_start_sent
      <4>1. Len(log'[p]) = Len(q) + 1 /\ Len(q) = Len(log[p]) + 1 /\ Len(log[p]) \in Nat
        BY <1>1, <1>3, <1>9, <3>2, OneMore DEF CapsAdded
      <4> QED BY <4>1
    <3> QED BY <3>1, <3>2
  <2> QED BY <1>9, <2>1
<1> QED BY <1>1, <1>4, <1>5, <1>6, <1>7, <1>8, <1>9 DEF LogGrows

\* A stream whose STREAM_START has gone out is in pad_stream_start_sent.
LEMMA StartIsRecorded ==
    ASSUME TablesInv, [Next]_vars, NEW p \in DOMAIN log, HasStart(log'[p]), ~HasStart(log[p]),
           StartAdded(p) \/ CapsAdded(p)
    PROVE  owner[p] \in pad_stream_start_sent'
<1>1. p \notin removed /\ log'[p] # log[p]
  BY LogSteps DEF TablesInv, LogGrows
<1>2. pad_indexes[owner[p]] = p /\ p # 0 /\ DOMAIN log = DOMAIN owner /\ owner[p] \in Streams
  BY <1>1, LogDomain DEF TablesInv, PadsInv
<1>3. CASE StartAdded(p)
  <2>1. PushStart /\ streamer.pad \in DOMAIN owner /\ owner[streamer.pad] = streamer.s
    BY <1>3 DEF StartAdded, PushStart, TablesInv, PadsInv
  <2>2. /\ streamer.pad \notin removed
        /\ log' = [log EXCEPT ![streamer.pad] = @ \o StartIfNotSent(streamer.s)]
    BY <1>1, <2>1 DEF PushStart, Out
  <2>3. p = streamer.pad
    BY <1>1, <2>2
  <2> QED BY <2>1, <2>2, <2>3 DEF PushStart, Recorded, StartTaken
<1>4. CASE CapsAdded(p)
  <2>1. CASE SinkCaps
    <3>1. config.isAudio
      BY <1>1, <2>1 DEF SinkCaps
    <3>2. owner[p] \in Recorded(owner[p], pad_indexes[owner[p]])
      BY <1>1, <1>2 DEF Recorded, StartTaken
    <3> QED BY <1>2, <2>1, <3>1, <3>2 DEF SinkCaps
  <2>2. CASE UpdateCaps(owner[p])
    BY <1>1, <1>2, <2>2 DEF UpdateCaps, Recorded, StartTaken
  <2> QED BY <1>4, <2>1, <2>2 DEF CapsAdded
<1> QED BY <1>3, <1>4

\* What a step does to the tables the announcements depend on.
LEMMA TablesGrow ==
    ASSUME TablesInv, [Next]_vars
    PROVE  /\ config' = config /\ removed \subseteq removed' /\ (sink_caps => sink_caps')
           /\ \A s \in updated' \ updated : UpdateCaps(s)
<1>1. config' = config
  BY EveryStep DEF TablesInv, FrameInv
<1>2. removed \subseteq removed'
  BY EveryStep DEF TablesInv, FrameInv, vars, padVars, FindPad, PadsFound, PushFrame, PushFails,
     PushStart, FindEosPad, PushEvent, SinkCaps, Batch, UpdateCaps, ReceiveEvent, FlagEos,
     RequestPad, RequestTwice, BeginRelease, ReleasePad
<1>3. sink_caps => sink_caps'
  BY EveryStep DEF TablesInv, FrameInv, vars, tableVars, FindPad, PadsFound, PushFrame, PushFails,
     PushStart, FindEosPad, PushEvent, SinkCaps, Batch, UpdateCaps, ReceiveEvent, FlagEos,
     RequestPad, RequestTwice, BeginRelease, ReleasePad
<1>4. ASSUME NEW s \in updated' \ updated PROVE UpdateCaps(s)
  BY <1>4, EveryStep DEF TablesInv, FrameInv, vars, FindPad, PadsFound, PushFrame, PushFails,
     PushStart, FindEosPad, PushEvent, SinkCaps, Batch, UpdateCaps, ReceiveEvent, FlagEos,
     RequestPad, RequestTwice, BeginRelease, ReleasePad
<1> QED BY <1>1, <1>2, <1>3, <1>4

\* First is about the pads before, which stay.
LEMMA FirstStays ==
    ASSUME TablesInv, [Next]_vars, NEW p \in DOMAIN log
    PROVE  First(p)' <=> First(p)
<1>1. \A q \in 1 .. p : owner'[q] = owner[q]
  <2>1. DOMAIN log = 1 .. Len(owner) /\ Len(owner) \in Nat
    BY LogDomain DEF TablesInv
  <2> QED BY <2>1, LogSteps DEF TablesInv
<1>2. p \in 1 .. p /\ 1 .. (p - 1) \subseteq 1 .. p
  BY LogDomain DEF TablesInv
<1> QED BY <1>1, <1>2 DEF First

\* The pads that were there stay announced.
LEMMA PadsStayAnnounced ==
    ASSUME TablesInv, AnnouncedInv, [Next]_vars, NEW p \in DOMAIN log
    PROVE  /\ OneStart(log'[p])
           /\ First(p)' => StartLeads(log'[p])
           /\ HasStart(log'[p]) => owner'[p] \in pad_stream_start_sent'
           /\ p \notin removed' /\ First(p)' =>
                 /\ owner'[p] \in pad_stream_start_sent' => HasStart(log'[p])
                 /\ config'.isAudio /\ owner'[p] \in updated' => HasStart(log'[p])
<1>1. owner'[p] = owner[p] /\ (First(p)' <=> First(p))
  BY LogSteps, FirstStays DEF TablesInv
<1>2. OneStart(log'[p]) /\ (First(p) => StartLeads(log'[p]))
  BY LogStaysAnnounced
<1>3. HasStart(log'[p]) => owner[p] \in pad_stream_start_sent'
  <2>1. CASE HasStart(log[p])
    BY <2>1, LogSteps DEF TablesInv, AnnouncedInv
  <2>2. CASE HasStart(log'[p]) /\ ~HasStart(log[p])
    BY <2>2, LogStaysAnnounced, StartIsRecorded
  <2> QED BY <2>1, <2>2
<1>4. ASSUME p \notin removed, First(p), owner[p] \in pad_stream_start_sent' PROVE HasStart(log'[p])
  <2>1. owner[p] \in pad_stream_start_sent \/ StartAdded(p) \/ CapsAdded(p)
    BY <1>4, LogSteps DEF TablesInv
  <2>2. owner[p] \in pad_stream_start_sent => HasStart(log[p])
    BY <1>4 DEF AnnouncedInv
  <2> QED BY <1>4, <2>1, <2>2, LogStaysAnnounced
<1>5. ASSUME p \notin removed, First(p), config.isAudio, owner[p] \in updated' PROVE HasStart(log'[p])
  <2>1. CASE owner[p] \in updated
    <3>1. HasStart(log[p])
      BY <1>5, <2>1 DEF AnnouncedInv
    <3> QED BY <3>1, LogStaysAnnounced
  <2>2. CASE owner[p] \notin updated
    <3>1. UpdateCaps(owner[p])
      BY <1>5, <2>2, TablesGrow
    <3>2. pad_indexes[owner[p]] = p /\ p # 0
      BY <1>5, LogDomain DEF TablesInv, PadsInv
    <3>3. owner[p] \in pad_stream_start_sent'
      BY <1>5, <3>1, <3>2 DEF UpdateCaps, Recorded, StartTaken
    <3> QED BY <1>4, <1>5, <3>3
  <2> QED BY <2>1, <2>2
<1> QED BY <1>1, <1>2, <1>3, <1>4, <1>5, TablesGrow

\* A pad that is new, and the first of its stream, has a stream that was not announced.
LEMMA NewPadUnannounced ==
    ASSUME AudioPadsInTime, TablesInv, AnnouncedInv, NEW s \in Streams, RequestPad(s)
    PROVE  \A p \in DOMAIN log' \ DOMAIN log :
               /\ log'[p] = <<>>
               /\ First(p)' => /\ owner'[p] \notin pad_stream_start_sent'
                               /\ config'.isAudio => owner'[p] \notin updated'
<1>1. /\ owner' = Append(owner, s) /\ log' = Append(log, <<>>) /\ MayRequest(s)
      /\ UNCHANGED <<config, pad_stream_start_sent, updated>>
  BY DEF RequestPad
<1>2. /\ owner \in Seq(Streams) /\ log \in Seq(Seq(Entries)) /\ <<>> \in Seq(Entries)
      /\ Len(log) = Len(owner) /\ config \in Configs
      /\ pad_stream_start_sent \subseteq Range(owner)
  BY EmptyIsShort DEF TablesInv, FrameInv, FrameTypes, LogTypes, TableTypes
<1> DEFINE n == Len(owner)
<1>3. /\ n \in Nat /\ DOMAIN log = 1 .. n /\ DOMAIN log' = 1 .. (n + 1) /\ log'[n + 1] = <<>>
      /\ DOMAIN owner = 1 .. n /\ owner'[n + 1] = s /\ \A p \in 1 .. n : owner'[p] = owner[p]
  BY <1>1, <1>2, OneMore
<1> HIDE DEF n
<1>4. \A p \in DOMAIN log' \ DOMAIN log : p = n + 1
  BY <1>3
<1>5. ASSUME NEW p \in DOMAIN log' \ DOMAIN log, First(p)' PROVE s \notin Range(owner)
  <2> SUFFICES ASSUME s \in Range(owner) PROVE FALSE
    OBVIOUS
  <2>1. PICK q \in DOMAIN owner : owner[q] = s
    BY DEF Range
  <2>2. q \in 1 .. (p - 1) /\ owner'[q] = s /\ owner'[p] = s
    BY <1>3, <1>4, <2>1
  <2> QED BY <1>5, <2>2 DEF First
<1>6. s \notin Range(owner) => s \notin pad_stream_start_sent
  BY <1>2
<1>7. s \notin Range(owner) /\ config.isAudio => s \notin updated
  <2> SUFFICES ASSUME s \notin Range(owner), config.isAudio PROVE s \notin updated
    OBVIOUS
  <2>1. ~sink_caps
    BY <1>1, <1>2 DEF MayRequest, AudioPadsInTime, Allowed
  <2> QED BY <2>1 DEF AnnouncedInv
<1> QED BY <1>1, <1>3, <1>4, <1>5, <1>6, <1>7

\* A stream that flows has its caps.
LEMMA StreamsFlow ==
    ASSUME TablesInv, AnnouncedInv, [Next]_vars
    PROVE  /\ \A s \in Streams : phase'[s] = "flowing" => s \in updated'
           /\ updated' # {} => sink_caps'
<1>0. /\ phase \in [Streams -> Phases]
      /\ \A s \in Streams : phase[s] = "flowing" => s \in updated
  BY DEF TablesInv, TableTypes, AnnouncedInv
<1>1. updated' # {} => sink_caps'
  <2>1. \A s \in updated' \ updated : sink_caps
    BY TablesGrow DEF UpdateCaps
  <2> QED BY <2>1, TablesGrow DEF AnnouncedInv
<1>2. ASSUME NEW s \in Streams, ReceiveEvent(s, "start") \/ ReceiveEvent(s, "segment")
      PROVE  \A t \in Streams : phase'[t] = "flowing" => t \in updated'
  <2>1. UNCHANGED updated
    BY <1>2 DEF ReceiveEvent
  <2>2. \/ phase' = [phase EXCEPT ![s] = "begun"]
        \/ phase' = [phase EXCEPT ![s] = "flowing"] /\ s \in updated
    <3>1. CASE ReceiveEvent(s, "start")
      BY <3>1 DEF ReceiveEvent
    <3>2. CASE ReceiveEvent(s, "segment")
      BY <3>2 DEF ReceiveEvent
    <3> QED BY <1>2, <3>1, <3>2
  <2> QED BY <1>0, <2>1, <2>2
<1>3. ASSUME NEW s \in Streams, FlagEos(s)
      PROVE  \A t \in Streams : phase'[t] = "flowing" => t \in updated'
  <2>1. phase' = [phase EXCEPT ![s] = "ended"] /\ updated \ {s} \subseteq updated'
    BY <1>3 DEF FlagEos
  <2> QED BY <1>0, <2>1
<1>4. ASSUME UNCHANGED phase, updated \subseteq updated'
      PROVE  \A t \in Streams : phase'[t] = "flowing" => t \in updated'
  BY <1>0, <1>4
<1> QED BY <1>1, <1>2, <1>3, <1>4, EveryStep
        DEF TablesInv, FrameInv, vars, FindPad, PadsFound, PushFrame, PushFails, PushStart,
            FindEosPad, PushEvent, SinkCaps, Batch, UpdateCaps, RequestPad, RequestTwice,
            BeginRelease, ReleasePad

\* A frame is taken to a pad that has announced its stream.
LEMMA FramesAnnounced ==
    ASSUME TablesInv, AnnouncedInv, [Next]_vars
    PROVE  \A f \in Range(streamer'.data) :
               f.pad \notin removed' /\ First(f.pad)' => HasStart(log'[f.pad])
<1> SUFFICES ASSUME NEW f \in Range(streamer'.data), NEW p, p = f.pad, p \notin removed', First(p)'
             PROVE  HasStart(log'[p])
  OBVIOUS
<1>1. removed \subseteq removed' /\ config' = config /\ DOMAIN log = DOMAIN owner
  BY TablesGrow, LogDomain DEF TablesInv
<1>2. CASE f \in Range(streamer.data)
  <2>1. p \in DOMAIN log
    BY <1>1, <1>2 DEF TablesInv, PadsInv
  <2>2. HasStart(log[p])
    BY <1>1, <1>2, <2>1, FirstStays DEF AnnouncedInv
  <2> QED BY <2>1, <2>2, LogStaysAnnounced
<1>3. CASE f \notin Range(streamer.data)
  <2>1. CASE FindPad \/ PadsFound \/ PushFrame \/ PushFails
    <3>1. /\ FindPad /\ p = pad_indexes[f.s] /\ Wanted(p) /\ f.s \in Streams
          /\ \E g \in Range(streamer.todo) : g.s = f.s
      BY <1>3, <2>1, BatchSteps DEF TablesInv
    <3>2. f.s \in Streams /\ phase[f.s] = "flowing"
      BY <3>1 DEF TablesInv, FlowInv
    <3>3. p \in DOMAIN log \ removed /\ owner[p] = f.s
      BY <1>1, <3>1, <3>2 DEF Wanted, TablesInv, PadsInv
    <3>4. First(p)
      BY <3>3, FirstStays
    <3>5. CASE config.isAudio
      <4>1. f.s \in updated
        BY <3>2 DEF AnnouncedInv
      <4>2. HasStart(log[p])
        BY <3>3, <3>4, <3>5, <4>1 DEF AnnouncedInv
      <4> QED BY <3>3, <4>2, LogStaysAnnounced
    <3>6. CASE ~config.isAudio
      <4>1. "caps" \in Kinds(p) /\ StartLeads(log[p])
        BY <3>1, <3>3, <3>4, <3>6 DEF Wanted, AnnouncedInv
      <4>2. HasStart(log[p])
        BY <4>1 DEF Kinds, StartLeads, HasStart
      <4> QED BY <3>3, <4>2, LogStaysAnnounced
    <3> QED BY <3>5, <3>6
  <2>2. CASE \/ PushStart \/ FindEosPad \/ PushEvent
             \/ \E s \in Streams : \/ ReceiveEvent(s, "start") \/ ReceiveEvent(s, "segment")
                                   \/ FlagEos(s)
    <3>1. streamer'.data = <<>>
      BY <2>2, EventSteps DEF TablesInv
    <3> QED BY <3>1, EmptyIsShort
  <2>3. CASE \E upTo \in [Streams -> 0 .. MaxFrames] : Batch(upTo)
    <3>1. streamer'.data = <<>>
      BY <2>3 DEF Batch, Idle
    <3> QED BY <3>1, EmptyIsShort
  <2>4. CASE \/ SinkCaps \/ ReleasePad \/ UNCHANGED vars
             \/ \E s \in Streams : \/ UpdateCaps(s) \/ RequestPad(s) \/ RequestTwice(s)
                                   \/ BeginRelease(s)
    <3>1. UNCHANGED streamer
      BY <2>4 DEF SinkCaps, UpdateCaps, RequestPad, RequestTwice, BeginRelease, ReleasePad, vars
    <3> QED BY <1>3, <3>1
  <2> QED BY <2>1, <2>2, <2>3, <2>4, EveryStep DEF TablesInv, FrameInv
<1> QED BY <1>2, <1>3

LEMMA AnnouncedInvStep ==
    ASSUME AudioPadsInTime, TablesInv, AnnouncedInv, [Next]_vars
    PROVE  AnnouncedInv'
<1>1. HasStart(<<>>) = FALSE /\ OneStart(<<>>) /\ StartLeads(<<>>)
  BY DEF HasStart, OneStart, StartLeads
<1>2. ASSUME NEW p \in DOMAIN log'
      PROVE  /\ OneStart(log'[p])
             /\ First(p)' => StartLeads(log'[p])
             /\ HasStart(log'[p]) => owner'[p] \in pad_stream_start_sent'
             /\ p \notin removed' /\ First(p)' =>
                   /\ owner'[p] \in pad_stream_start_sent' => HasStart(log'[p])
                   /\ config'.isAudio /\ owner'[p] \in updated' => HasStart(log'[p])
  <2>1. CASE p \in DOMAIN log
    BY <2>1, PadsStayAnnounced
  <2>2. CASE p \notin DOMAIN log
    <3>1. PICK s \in Streams : RequestPad(s)
      BY <2>2, LogSteps DEF TablesInv
    <3>2. /\ log'[p] = <<>>
          /\ First(p)' => /\ owner'[p] \notin pad_stream_start_sent'
                          /\ config'.isAudio => owner'[p] \notin updated'
      BY <2>2, <3>1, NewPadUnannounced
    <3> QED BY <1>1, <3>2
  <2> QED BY <2>1, <2>2
<1>3. /\ \A s \in Streams : phase'[s] = "flowing" => s \in updated'
      /\ updated' # {} => sink_caps'
  BY StreamsFlow
<1>4. \A f \in Range(streamer'.data) :
          f.pad \notin removed' /\ First(f.pad)' => HasStart(log'[f.pad])
  BY FramesAnnounced
<1> QED BY <1>2, <1>3, <1>4 DEF AnnouncedInv

LEMMA AnnouncedInvInit == ASSUME Init PROVE AnnouncedInv
<1>1. /\ log = <<>> /\ DOMAIN log = {} /\ updated = {} /\ Range(streamer.todo) = {}
      /\ Range(streamer.data) = {} /\ \A s \in Streams : phase[s] = "off"
  BY EmptyIsShort DEF Init, Idle
<1> QED BY <1>1 DEF AnnouncedInv

\* A pad announces its stream once, and before caps and frames, whichever of the caps and
\* STREAM_START comes first and whatever the application does between (set_src_pad_caps,
\* send_stream_start_if_not_already_sent and the events of the streaming thread).
THEOREM AnnouncedFirst ==
    ASSUME AudioPadsInTime
    PROVE  Spec => []AnnouncedOnce
<1>1. Init => AnnouncedInv
  BY AnnouncedInvInit
<1>2. TablesInv /\ AnnouncedInv /\ [Next]_vars => AnnouncedInv'
  BY AnnouncedInvStep
<1>3. TablesInv /\ AnnouncedInv => AnnouncedOnce
  <2> SUFFICES ASSUME TablesInv, AnnouncedInv, NEW p \in DOMAIN log
               PROVE  /\ Cardinality(Positions(p, "start")) <= 1
                      /\ (\A q \in 1 .. (p - 1) : owner[q] # owner[p]) =>
                            \A i \in Positions(p, "caps") \cup Positions(p, "frame") :
                                \E j \in Positions(p, "start") : j < i
    BY DEF AnnouncedOnce
  <2>1. OneStart(log[p]) /\ (First(p) => StartLeads(log[p]))
    BY DEF AnnouncedInv
  <2>2. Cardinality(Positions(p, "start")) <= 1
    <3>1. CASE Positions(p, "start") = {}
      BY <3>1, FS_EmptySet
    <3>2. CASE Positions(p, "start") # {}
      <4>1. PICK i : i \in Positions(p, "start")
        BY <3>2
      <4>2. Positions(p, "start") = {i}
        BY <2>1, <4>1 DEF Positions, OneStart
      <4>3. Cardinality({i}) = 1
        BY FS_Singleton
      <4> QED BY <4>2, <4>3
    <3> QED BY <3>1, <3>2
  <2> QED BY <2>1, <2>2 DEF First, StartLeads, Positions
<1> QED BY <1>1, <1>2, <1>3, TablesKept, PTL DEF Spec
================================================================================
