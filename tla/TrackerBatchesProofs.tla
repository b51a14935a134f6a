-------------------------- MODULE TrackerBatchesProofs --------------------------
(***************************************************************************)
(* Theorems about TrackerBatches, for every configuration, whole batches   *)
(* or sub-batches.                                                         *)
(***************************************************************************)
EXTENDS TrackerBatches, IntervalRecursion

WorkerPlaces == {"test", "lock", "waiting", "woken", "remove", "batch", "complete", "recover",
                 "ending", "ended"}
WithBatch == {"process", "erase", "complete", "return"}
ProcessorPlaces == WithBatch \cup {"test", "ended"}
WorkerState ==
    [at : WorkerPlaces, req : Request \cup {NoItem}, trials : Nat, failed : BOOLEAN]
ProcessorState == [at : ProcessorPlaces, n : Nat \cup {NoItem}, id : Nat \cup {NoItem}]
OutputState ==
    [at : {"test", "lock", "waiting", "woken", "push", "ended"}, n : Nat \cup {NoItem}]

\* What the output loop was given.
HandedOver == Range(completions) \cup Range(left) \cup {output.n}

\* The frames sub-batch b has still to be done with: those in the queue of its thread and those
\* the thread works on.
Busy(b) == worker[b].at \in {"batch", "complete"}
Queued(b) == {k \in DOMAIN reqQueue[b] : reqQueue[b][k].kind = "batch"}
OpenIn(b) == {reqQueue[b][k] : k \in Queued(b)} \cup {r \in {worker[b].req} : Busy(b)}

\* How many of them are of the batch with id i.
WithId(b, i) == {k \in Queued(b) : reqQueue[b][k].id = i}
InHand(b, i) == IF Busy(b) /\ worker[b].req.id = i THEN 1 ELSE 0

CoreTypes ==
    /\ config \in Configs
    /\ freeBufs \in Nat /\ nextId \in Nat
    /\ procQueue \in Seq([n : Nat, id : Nat])
    /\ ~Whole => \A i \in DOMAIN pending : i \in Nat /\ pending[i] \in [Subs -> Nat]
    /\ completions \in Seq(Nat \cup {NoItem}) /\ left \in Seq(Nat)
    /\ reqQueue \in [Subs -> Seq(Request)]
    /\ worker \in [Subs -> WorkerState]
    /\ processor \in ProcessorState
    /\ output \in OutputState
    /\ offsets \subseteq Streams
    /\ items \in Seq(Events \cup [kind : {"batch"}, lists : config.lists])
    /\ holders \subseteq DOMAIN items

\* Which thread is at work when.
PhasesInv ==
    /\ ~Whole => procQueue = <<>> /\ processor.at = "test" /\ streamer # "queue"
    /\ streamer # "idle" => app = "play"
    /\ app = "join" => Whole
    /\ app \in {"clear", "join-output", "stopped"} => \A b \in Subs : worker[b].at = "ended"

\* A batch holds its buffer, when frames are transformed.
Holds(n) == config.pool > 0 => n \in holders

\* The batch the streaming thread is about to queue is nowhere else.
StreamerInv ==
    /\ streamer \in {"convert", "register", "queue"} =>
        /\ Current \in Batches \ HandedOver
        /\ \A k \in DOMAIN procQueue : procQueue[k].n # Current
        /\ processor.at \in WithBatch => processor.n # Current
        /\ \A b \in Subs : \A r \in OpenIn(b) : r.n # Current
    /\ streamer = "convert" => config.pool > 0 /\ Current \notin holders
    /\ streamer \in {"register", "queue"} => Holds(Current)
    /\ streamer = "queue" => nextId > 0
    /\ streamer \in {"flush", "mark", "wait", "handle"} => Current \in DOMAIN items \ Batches

\* A batch is in the queue of the process thread or in its hands, not both, and once.
ProcessorInv ==
    /\ \A k \in DOMAIN procQueue :
        /\ procQueue[k].n \in Batches \ HandedOver /\ Holds(procQueue[k].n)
        /\ \A l \in DOMAIN procQueue : procQueue[k].n = procQueue[l].n => k = l
        /\ processor.at \in WithBatch => processor.n # procQueue[k].n
    /\ processor.at \in WithBatch => processor.n \in Batches /\ Holds(processor.n)
    /\ processor.at = "process" => processor.n \notin HandedOver

\* The threads work on requests of the kind their place says; a removal is of no batch.
RequestForms ==
    \A b \in Subs :
        /\ Busy(b) => worker[b].req \in Request /\ worker[b].req.kind = "batch"
        /\ worker[b].at = "remove" => worker[b].req \in Request
        /\ \A k \in DOMAIN reqQueue[b] : reqQueue[b][k].kind = "remove" => reqQueue[b][k].n = 0

\* Requests with the same id are of the same batch, which was not handed over.
RequestsInv ==
    /\ \A b \in Subs : \A r \in OpenIn(b) : r.n \in Batches \ HandedOver /\ Holds(r.n)
    /\ \A b, c \in Subs : \A r \in OpenIn(b), q \in OpenIn(c) : r.id = q.id <=> r.n = q.n

\* m_PendingBatch has as many entries of a sub-batch as it has open requests, until it is
\* cleared.
CountsInv ==
    ~Whole /\ app \notin {"join-output", "stopped"} => \A b \in Subs :
        /\ \A r \in OpenIn(b) : r.id \in DOMAIN pending
        /\ \A i \in DOMAIN pending : pending[i][b] = Cardinality(WithId(b, i)) + InHand(b, i)

\* Only what arrived is handed over.
HandedOverInv == HandedOver \subseteq DOMAIN items \cup {NoItem}

\* A buffer is free or a batch holds it.
BuffersInv == config.pool > 0 => freeBufs + Cardinality(holders) = config.pool

TrackerInv ==
    /\ CoreTypes /\ PhasesInv /\ StreamerInv /\ ProcessorInv
    /\ RequestForms /\ RequestsInv /\ CountsInv /\ HandedOverInv /\ BuffersInv

--------------------------------------------------------------------------------
\* The invariant says that the parts of a batch are finished before it is handed over.
LEMMA InvImpliesParts == TrackerInv => PartsFinishedFirst
<1> SUFFICES ASSUME TrackerInv PROVE PartsFinishedFirst
  OBVIOUS
<1> USE TrackerAssumption DEF TrackerInv
<1>1. ASSUME NEW n \in Batches, Open(n) PROVE n \notin HandedOver /\ Holds(n)
  <2>1. n # 0
    BY DEF Batches, CoreTypes
  <2>2. CASE \E k \in DOMAIN procQueue : procQueue[k].n = n
    BY <2>2 DEF ProcessorInv
  <2>3. CASE processor.at = "process" /\ processor.n = n
    BY <2>3 DEF ProcessorInv, WithBatch
  <2>4. ASSUME NEW b \in Subs, NEW k \in DOMAIN reqQueue[b], reqQueue[b][k].n = n
        PROVE  n \notin HandedOver /\ Holds(n)
    <3>1. reqQueue[b][k] \in Request
      BY DEF CoreTypes
    <3>2. reqQueue[b][k] \in OpenIn(b)
      BY <2>1, <2>4, <3>1 DEF OpenIn, Queued, RequestForms, Request
    <3> QED BY <2>4, <3>2 DEF RequestsInv
  <2>5. ASSUME NEW b \in Subs, Busy(b), worker[b].req.n = n
        PROVE  n \notin HandedOver /\ Holds(n)
    <3>1. worker[b].req \in OpenIn(b)
      BY <2>5 DEF OpenIn
    <3> QED BY <2>5, <3>1 DEF RequestsInv
  <2> QED BY <1>1, <2>2, <2>3, <2>4, <2>5 DEF Open, Busy
<1> QED BY <1>1 DEF PartsFinishedFirst, HandedOver, Holds, BuffersInv

--------------------------------------------------------------------------------
\* Taking the first element of a queue.
LEMMA HeadAndTail ==
    ASSUME NEW S, NEW q \in Seq(S), q # <<>>
    PROVE  /\ Head(q) = q[1] /\ 1 \in DOMAIN q /\ Head(q) \in S
           /\ Tail(q) \in Seq(S) /\ DOMAIN Tail(q) = 1 .. (Len(q) - 1)
           /\ \A k \in DOMAIN Tail(q) : k + 1 \in DOMAIN q /\ Tail(q)[k] = q[k + 1]
  OBVIOUS

\* What waking threads up leaves alone.
LEMMA WakingOutput ==
    ASSUME CoreTypes
    PROVE  /\ NotifyOutput.n = output.n
           /\ NotifyOutput \in OutputState
  BY DEF CoreTypes, NotifyOutput, OutputState

\* Notified threads keep their requests and are not at work.
LEMMA WakingWorkers ==
    ASSUME CoreTypes, NEW bs
    PROVE  /\ NotifyWorkers(bs) \in [Subs -> WorkerState]
           /\ \A b \in Subs :
               /\ NotifyWorkers(bs)[b].req = worker[b].req
               /\ NotifyWorkers(bs)[b].at # worker[b].at =>
                      worker[b].at = "waiting" /\ NotifyWorkers(bs)[b].at = "woken"
<1>1. ASSUME NEW b \in Subs
      PROVE  LET w == NotifyWorkers(bs)[b]
             IN  /\ w \in WorkerState
                 /\ w.req = worker[b].req
                 /\ w.at # worker[b].at => worker[b].at = "waiting" /\ w.at = "woken"
  <2>1. worker[b] \in WorkerState
    BY DEF CoreTypes
  <2>2. NotifyWorkers(bs)[b] = IF b \in bs /\ worker[b].at = "waiting"
                               THEN [worker[b] EXCEPT !.at = "woken"] ELSE worker[b]
    BY DEF NotifyWorkers
  <2>3. "woken" \in WorkerPlaces
    BY DEF WorkerPlaces
  <2> QED BY <2>1, <2>2, <2>3 DEF WorkerState
<1>2. NotifyWorkers(bs) = [b \in Subs |-> NotifyWorkers(bs)[b]]
  BY DEF NotifyWorkers
<1> QED BY <1>1, <1>2

\* The lists of a batch are lists of sets of streams.
LEMMA ListsTypes ==
    ASSUME CoreTypes, NEW n \in Batches
    PROVE  items[n].lists \in Seq(SUBSET Streams)
<1>1. n \in DOMAIN items /\ items[n].kind = "batch"
  BY DEF Batches
<1>2. items[n] \in Events \cup [kind : {"batch"}, lists : config.lists]
  BY <1>1 DEF CoreTypes
<1>3. items[n].lists \in config.lists
  BY <1>1, <1>2 DEF Events
<1> QED BY <1>3, TrackerAssumption DEF CoreTypes

\* A set of n numbers has for each j below n a member with j lower ones.
LEMMA MemberOfRank ==
    ASSUME NEW S \in SUBSET Nat, IsFiniteSet(S), NEW j \in 1 .. Cardinality(S)
    PROVE  \E k \in S : Cardinality({i \in S : i < k}) = j - 1
<1> DEFINE n == Cardinality(S)
           lower(k) == {i \in S : i < k}
           T == 0 .. (n - 1)
           rank == [k \in S |-> Cardinality(lower(k))]
<1>1. n \in Nat
  BY FS_CardinalityType
<1>2. IsFiniteSet(T) /\ Cardinality(T) = n
  <2>1. 0 \in Int /\ n - 1 \in Int
    BY <1>1
  <2>2. IsFiniteSet(T) /\ Cardinality(T) = IF 0 > n - 1 THEN 0 ELSE n - 1 - 0 + 1
    BY <2>1, FS_Interval
  <2> QED BY <1>1, <2>2
<1>3. ASSUME NEW k \in S
      PROVE  IsFiniteSet(lower(k)) /\ rank[k] \in T
  <2>1. IsFiniteSet(lower(k)) /\ Cardinality(lower(k)) \in Nat
    BY FS_Subset, FS_CardinalityType
  <2>2. lower(k) \subseteq S /\ lower(k) # S
    OBVIOUS
  <2>3. Cardinality(lower(k)) < n
    BY <1>1, <2>1, <2>2, FS_Subset
  <2> QED BY <1>1, <2>1, <2>3
<1>4. ASSUME NEW k \in S, NEW l \in S, k < l
      PROVE  rank[k] # rank[l]
  <2>1. k \in Nat /\ l \in Nat /\ \A i \in S : i \in Nat
    OBVIOUS
  <2>2. \A i \in S : i < k => i < l
    BY <1>4, <2>1
  <2>3. k \in lower(l) /\ k \notin lower(k)
    BY <1>4, <2>1
  <2>4. lower(k) \subseteq lower(l) /\ lower(k) # lower(l)
    BY <2>2, <2>3
  <2>5. Cardinality(lower(k)) # Cardinality(lower(l))
    BY <1>3, <2>4, FS_Subset
  <2> QED BY <2>5
<1>5. rank \in Injection(S, T)
  <2>1. \A k, l \in S : k # l => rank[k] # rank[l]
    <3>1. \A k, l \in S : k < l \/ l < k \/ k = l
      OBVIOUS
    <3> QED BY <1>4, <3>1
  <2>2. rank \in [S -> T]
    BY <1>3
  <2> QED BY <2>1, <2>2 DEF Injection, IsInjective
<1>6. rank \in Surjection(S, T)
  BY <1>2, <1>5, FS_Injection
<1>7. j - 1 \in T
  BY <1>1
<1>8. \E k \in S : rank[k] = j - 1
  BY <1>6, <1>7 DEF Surjection
<1> QED BY <1>8

\* Its members in ascending order are its members.
LEMMA AscendingMembers ==
    ASSUME NEW S \in SUBSET Nat, IsFiniteSet(S)
    PROVE  /\ Cardinality(S) \in Nat
           /\ Ascending(S) \in [1 .. Cardinality(S) -> S]
<1> DEFINE nth(j) == CHOOSE k \in S : Cardinality({i \in S : i < k}) = j - 1
<1>1. ASSUME NEW j \in 1 .. Cardinality(S) PROVE nth(j) \in S
  <2>1. \E k \in S : Cardinality({i \in S : i < k}) = j - 1
    BY MemberOfRank
  <2> QED BY <2>1
<1>2. Ascending(S) = [j \in 1 .. Cardinality(S) |-> nth(j)]
  BY DEF Ascending
<1> HIDE DEF nth
<1> QED BY <1>1, <1>2, FS_CardinalityType

\* The requests of a batch.
LEMMA RequestsTypes ==
    ASSUME CoreTypes, Current \in Batches, NEW map, NEW b \in Subs
    PROVE  LET reqs == Requests(map, items[Current].lists, b)
           IN  /\ reqs \in Seq(Request)
               /\ \A k \in DOMAIN reqs :
                   /\ reqs[k].kind = "batch" /\ reqs[k].n = Current /\ reqs[k].id = nextId
                   /\ reqs[k].frames \subseteq {s \in DOMAIN map.of : map.of[s] = b}
<1> DEFINE lists == items[Current].lists
           part(k) == {s \in lists[k] : map.of[s] = b}
           placed(k) == \A j \in 1 .. k : lists[j] \subseteq DOMAIN map.of
           of == {k \in DOMAIN lists : placed(k) /\ part(k) # {}}
           ks == Ascending(of)
           reqs == Requests(map, lists, b)
<1>1. lists \in Seq(SUBSET Streams)
  BY ListsTypes
<1>2. of \in SUBSET Nat /\ IsFiniteSet(of)
  <2>1. IsFiniteSet(1 .. Len(lists))
    BY <1>1, FS_Interval
  <2> QED BY <1>1, <2>1, FS_Subset
<1>3. ks \in [1 .. Cardinality(of) -> of] /\ Cardinality(of) \in Nat
  <2> HIDE DEF of
  <2> QED BY <1>2, AscendingMembers
<1>4. reqs = [j \in DOMAIN ks |->
                 [kind |-> "batch", n |-> Current, id |-> nextId, frames |-> part(ks[j])]]
  BY DEF Requests
<1> HIDE DEF reqs, ks
<1>5. ASSUME NEW k \in of
      PROVE  part(k) \in SUBSET Streams /\ part(k) \subseteq {s \in DOMAIN map.of : map.of[s] = b}
  <2>1. k \in DOMAIN lists /\ k \in 1 .. k /\ lists[k] \in SUBSET Streams
    BY <1>1
  <2> QED BY <2>1
<1>6. nextId \in Nat /\ Current \in Nat
  BY DEF CoreTypes, Current
<1> HIDE DEF part, of
<1>7. ASSUME NEW j \in 1 .. Cardinality(of)
      PROVE  [kind |-> "batch", n |-> Current, id |-> nextId, frames |-> part(ks[j])] \in Request
  BY <1>3, <1>5, <1>6 DEF Request
<1>8. reqs \in Seq(Request) /\ DOMAIN reqs = 1 .. Cardinality(of)
  BY <1>3, <1>4, <1>7
<1>9. \A k \in DOMAIN reqs :
        /\ reqs[k].kind = "batch" /\ reqs[k].n = Current /\ reqs[k].id = nextId
        /\ reqs[k].frames \subseteq {s \in DOMAIN map.of : map.of[s] = b}
  BY <1>3, <1>4, <1>5, <1>8
<1> HIDE DEF lists
<1> QED BY <1>8, <1>9 DEF reqs, lists

\* What Dispatch queues: requests for the batch, with one new id, for the streams that are
\* assigned to the sub-batch.
LEMMA DispatchQueues ==
    ASSUME CoreTypes, Current \in Batches, Dispatch
    PROVE  \E reqs \in [Subs -> Seq(Request)] :
               /\ \A b \in Subs : \A k \in DOMAIN reqs[b] :
                   /\ reqs[b][k].kind = "batch" /\ reqs[b][k].n = Current /\ reqs[b][k].id = nextId
                   /\ reqs[b][k].frames \subseteq {s \in DOMAIN subBatchOf' : subBatchOf'[s] = b}
               /\ reqQueue' = [b \in Subs |-> reqQueue[b] \o reqs[b]]
               /\ pending' = Entered(pending, nextId, [b \in Subs |-> Len(reqs[b])])
               /\ worker' = NotifyWorkers({b \in Subs : reqs[b] # <<>>})
               /\ nextId' \in {nextId, nextId + 1}
<1>1. PICK map \in MapStreams(items[Current].lists) :
      \E reqs \in {[b \in Subs |-> Requests(map, items[Current].lists, b)]} :
         /\ subBatchOf' = map.of
         /\ reqQueue' = [b \in Subs |-> reqQueue[b] \o reqs[b]]
         /\ pending' = Entered(pending, nextId, [b \in Subs |-> Len(reqs[b])])
         /\ worker' = NotifyWorkers({b \in Subs : reqs[b] # <<>>})
         /\ nextId' = IF map.ok THEN nextId + 1 ELSE nextId
  BY DEF Dispatch
<1> DEFINE reqs == [b \in Subs |-> Requests(map, items[Current].lists, b)]
<1>2. reqs \in [Subs -> Seq(Request)]
  BY RequestsTypes
<1>3. \A b \in Subs : \A k \in DOMAIN reqs[b] :
        /\ reqs[b][k].kind = "batch" /\ reqs[b][k].n = Current /\ reqs[b][k].id = nextId
        /\ reqs[b][k].frames \subseteq {s \in DOMAIN subBatchOf' : subBatchOf'[s] = b}
  <2>1. subBatchOf' = map.of
    BY <1>1
  <2> QED BY <2>1, RequestsTypes
<1>4. /\ reqQueue' = [b \in Subs |-> reqQueue[b] \o reqs[b]]
      /\ pending' = Entered(pending, nextId, [b \in Subs |-> Len(reqs[b])])
      /\ worker' = NotifyWorkers({b \in Subs : reqs[b] # <<>>})
      /\ nextId' \in {nextId, nextId + 1}
  BY <1>1
<1> HIDE DEF reqs
<1> QED BY <1>2, <1>3, <1>4

\* What an event queues: at most the request to remove its stream.
LEMMA EventQueues ==
    ASSUME CoreTypes, Current \in DOMAIN items \ Batches, HandleEvent
    PROVE  \/ UNCHANGED <<reqQueue, worker>>
           \/ \E b \in Range(subBatchOf), s \in Streams :
                  reqQueue' = RemovalRequest(b, s) /\ worker' = NotifyWorkers({b})
<1> DEFINE e == items[Current]
<1>1. e.what \in Removal => e.stream \in Streams
  <2>1. e \in Events
    BY DEF CoreTypes, Batches
  <2> QED BY <2>1 DEF Events, Removal
<1>2. CASE UNCHANGED <<reqQueue, worker>>
  BY <1>2
<1>3. CASE /\ e.what \in Removal /\ e.stream \in DOMAIN subBatchOf
           /\ reqQueue' = RemovalRequest(subBatchOf[e.stream], e.stream)
           /\ worker' = NotifyWorkers({subBatchOf[e.stream]})
  BY <1>1, <1>3 DEF Range
<1> QED BY <1>2, <1>3 DEF HandleEvent, RemoveWhole, RemoveFromSub, RemovalFails, dispatchVars

--------------------------------------------------------------------------------
(* The types *)

\* The streaming thread.
LEMMA SubmissionTypes ==
    ASSUME TrackerInv, \/ \E lists \in config.lists : SubmitBatch(lists)
                       \/ \E e \in Events : SendEvent(e)
                       \/ Submission \/ EventStep
    PROVE  CoreTypes'
<1> USE TrackerAssumption DEF TrackerInv
<1>1. ASSUME NEW lists \in config.lists, SubmitBatch(lists) PROVE CoreTypes'
  <2>1. [kind |-> "batch", lists |-> lists] \in [kind : {"batch"}, lists : config.lists]
    OBVIOUS
  <2>2. /\ items' \in Seq(Events \cup [kind : {"batch"}, lists : config.lists])
        /\ DOMAIN items \subseteq DOMAIN items'
    BY <1>1, <2>1 DEF SubmitBatch, CoreTypes
  <2> QED BY <1>1, <2>2 DEF SubmitBatch, CoreTypes, procVars, libVars, dispatchVars, Whole, Subs
<1>2. ASSUME NEW e \in Events, SendEvent(e) PROVE CoreTypes'
  BY <1>2 DEF SendEvent, CoreTypes, procVars, libVars, dispatchVars, Whole, Subs
<1>3. ASSUME Convert PROVE CoreTypes'
  <2>1. Current \in DOMAIN items
    BY <1>3 DEF Convert, StreamerInv, Batches
  <2>2. freeBufs' \in Nat /\ holders' \subseteq DOMAIN items
    BY <1>3, <2>1 DEF Convert, CoreTypes
  <2>3. UNCHANGED <<config, nextId, procQueue, pending, completions, left, reqQueue, worker,
                    processor, output, offsets, items>>
    BY <1>3 DEF Convert, dispatchVars
  <2> QED BY <2>2, <2>3 DEF CoreTypes, Whole, Subs
<1>4. ASSUME ConvertFails PROVE CoreTypes'
  <2>1. Current \in DOMAIN items
    BY <1>4 DEF ConvertFails, StreamerInv, Batches
  <2>2. freeBufs' \in Nat /\ holders' \subseteq DOMAIN items
    BY <1>4, <2>1 DEF ConvertFails, CoreTypes
  <2>3. UNCHANGED <<config, nextId, procQueue, pending, completions, left, reqQueue, worker,
                    processor, output, offsets, items>>
    BY <1>4 DEF ConvertFails, dispatchVars
  <2> QED BY <2>2, <2>3 DEF CoreTypes, Whole, Subs
<1>5. ASSUME AlreadyActive PROVE CoreTypes'
  BY <1>5 DEF AlreadyActive, CoreTypes, procVars, dispatchVars, libVars, Whole, Subs
<1>6. ASSUME Register PROVE CoreTypes'
  <2>1. Whole' /\ nextId' \in Nat
    BY <1>6 DEF Register, CoreTypes, Whole
  <2>2. UNCHANGED <<config, freeBufs, procQueue, completions, left, reqQueue, worker, processor,
                    output, offsets, items, holders>>
    BY <1>6 DEF Register, dispatchVars
  <2> QED BY <2>1, <2>2 DEF CoreTypes, Subs
<1>7. ASSUME Enqueue PROVE CoreTypes'
  <2>1. Current \in Nat
    BY DEF Current, CoreTypes
  <2>2. procQueue' \in Seq([n : Nat, id : Nat])
    <3>1. nextId - 1 \in Nat
      BY <1>7 DEF Enqueue, StreamerInv, CoreTypes
    <3> QED BY <1>7, <2>1, <3>1 DEF Enqueue, CoreTypes
  <2> QED BY <1>7, <2>2 DEF Enqueue, CoreTypes, dispatchVars, libVars, historyVars, Whole, Subs
<1>8. ASSUME Dispatch PROVE CoreTypes'
  <2>1. ~Whole /\ Current \in Batches
    BY <1>8 DEF Dispatch, StreamerInv
  <2>2. PICK reqs \in [Subs -> Seq(Request)] :
            /\ reqQueue' = [b \in Subs |-> reqQueue[b] \o reqs[b]]
            /\ pending' = Entered(pending, nextId, [b \in Subs |-> Len(reqs[b])])
            /\ worker' = NotifyWorkers({b \in Subs : reqs[b] # <<>>})
            /\ nextId' \in {nextId, nextId + 1}
    BY <1>8, <2>1, DispatchQueues
  <2>3. reqQueue' \in [Subs -> Seq(Request)]
    <3>1. ASSUME NEW b \in Subs PROVE reqQueue[b] \o reqs[b] \in Seq(Request)
      BY <2>2 DEF CoreTypes
    <3> QED BY <2>2, <3>1
  <2>4. nextId' \in Nat
    BY <2>2 DEF CoreTypes
  <2>5. worker' \in [Subs -> WorkerState]
    BY <2>2, WakingWorkers
  <2>6. \A i \in DOMAIN pending' : i \in Nat /\ pending'[i] \in [Subs -> Nat]
    <3>1. nextId \in Nat /\ [b \in Subs |-> Len(reqs[b])] \in [Subs -> Nat]
      BY <2>2 DEF CoreTypes
    <3>2. \A i \in DOMAIN pending : i \in Nat /\ pending[i] \in [Subs -> Nat]
      BY <2>1 DEF CoreTypes
    <3> QED BY <2>2, <3>1, <3>2 DEF Entered
  <2>7. UNCHANGED <<config, freeBufs, procQueue, completions, left, processor, output, offsets,
                    items, holders>>
    BY <1>8 DEF Dispatch
  <2> QED BY <2>3, <2>4, <2>5, <2>6, <2>7 DEF CoreTypes, Whole, Subs
<1>9. ASSUME Flushed \/ PushMarker PROVE CoreTypes'
  <2>1. completions' \in Seq(Nat \cup {NoItem})
    <3>1. completions' = completions \/ completions' = Append(completions, NoItem)
      BY <1>9 DEF Flushed, PushMarker
    <3>2. completions \in Seq(Nat \cup {NoItem})
      BY DEF CoreTypes
    <3> QED BY <3>1, <3>2
  <2>2. output' = output \/ output' = NotifyOutput
    BY <1>9 DEF Flushed, PushMarker
  <2>3. output' \in OutputState
    BY <2>2, WakingOutput DEF CoreTypes
  <2> QED BY <1>9, <2>1, <2>3 DEF Flushed, PushMarker, CoreTypes, procVars, dispatchVars, libVars,
                          historyVars, Whole, Subs
<1>10. ASSUME HandleEvent PROVE CoreTypes'
  <2>1. Current \in DOMAIN items \ Batches
    BY <1>10 DEF HandleEvent, StreamerInv
  <2>2. reqQueue' \in [Subs -> Seq(Request)] /\ worker' \in [Subs -> WorkerState]
    <3>1. CASE UNCHANGED <<reqQueue, worker>>
      BY <3>1 DEF CoreTypes
    <3>2. ASSUME NEW b, NEW s \in Streams, reqQueue' = RemovalRequest(b, s),
                 worker' = NotifyWorkers({b})
          PROVE  reqQueue' \in [Subs -> Seq(Request)] /\ worker' \in [Subs -> WorkerState]
      <4>1. worker' \in [Subs -> WorkerState]
        BY <3>2, WakingWorkers
      <4>2. [kind |-> "remove", n |-> 0, id |-> 0, frames |-> {s}] \in Request
        BY DEF Request
      <4>3. \A c \in Subs : Append(reqQueue[c],
                [kind |-> "remove", n |-> 0, id |-> 0, frames |-> {s}]) \in Seq(Request)
        BY <4>2 DEF CoreTypes
      <4>4. reqQueue' \in [Subs -> Seq(Request)]
        BY <3>2, <4>3 DEF CoreTypes, RemovalRequest
      <4> QED BY <4>1, <4>4
    <3> QED BY <1>10, <2>1, <3>1, <3>2, EventQueues
  <2>3. left' \in Seq(Nat)
    BY <1>10 DEF HandleEvent, CoreTypes, Current
  <2>4. offsets' \subseteq Streams
    BY <1>10 DEF HandleEvent, RemoveWhole, RemoveFromSub, CoreTypes
  <2>5. UNCHANGED <<config, freeBufs, nextId, procQueue, pending, completions, processor, output,
                    items, holders>>
    BY <1>10 DEF HandleEvent
  <2> QED BY <2>2, <2>3, <2>4, <2>5 DEF CoreTypes, Whole, Subs
<1>11. ASSUME EventDropped \/ RemovalError PROVE CoreTypes'
  BY <1>11 DEF EventDropped, RemovalError, CoreTypes, procVars, dispatchVars, libVars, Whole, Subs
<1> QED BY <1>1, <1>2, <1>3, <1>4, <1>5, <1>6, <1>7, <1>8, <1>9, <1>10, <1>11
     DEF Submission, EventStep

\* A sub-batch thread changes its own state.
LEMMA WorkerSteps ==
    ASSUME CoreTypes, NEW b \in Subs, SubStep(b)
    PROVE  /\ worker' \in [Subs -> WorkerState]
           /\ \A c \in Subs \ {b} : worker'[c] = worker[c]
<1> DEFINE Own == /\ worker' \in [Subs -> WorkerState]
                  /\ \A c \in Subs \ {b} : worker'[c] = worker[c]
<1>1. worker \in [Subs -> WorkerState]
  BY DEF CoreTypes
<1>2. ASSUME SubTest(b) PROVE Own
  BY <1>1, <1>2 DEF SubTest, WorkerState, WorkerPlaces
<1>3. ASSUME SubWaits(b) PROVE Own
  BY <1>1, <1>3 DEF SubWaits, WorkerState, WorkerPlaces
<1>4. ASSUME SubWoken(b) PROVE Own
  BY <1>1, <1>4 DEF SubWoken, WorkerState, WorkerPlaces
<1>5. ASSUME SubTake(b) PROVE Own
  <2>1. reqQueue[b] \in Seq(Request)
    BY DEF CoreTypes
  <2>2. Head(reqQueue[b]) \in Request
    BY <1>5, <2>1, HeadAndTail DEF SubTake
  <2>3. Head(reqQueue[b]).kind \in WorkerPlaces
    BY <2>2 DEF Request, WorkerPlaces
  <2> QED BY <1>1, <1>5, <2>2, <2>3 DEF SubTake, WorkerState
<1>6. ASSUME SubRemove(b) PROVE Own
  BY <1>1, <1>6 DEF SubRemove, WorkerState, WorkerPlaces
<1>7. ASSUME SubLibrary(b) PROVE Own
  BY <1>1, <1>7 DEF SubLibrary, WorkerState, WorkerPlaces
<1>8. ASSUME SubComplete(b) PROVE Own
  <2>1. PICK p \in {"recover", "test"} :
            worker' = [worker EXCEPT ![b].at = p, ![b].req = NoItem]
    BY <1>8 DEF SubComplete
  <2>2. worker[b] \in WorkerState /\ p \in WorkerPlaces
    BY <1>1 DEF WorkerPlaces
  <2>3. [worker[b] EXCEPT !.at = p, !.req = NoItem] \in WorkerState
    BY <2>2 DEF WorkerState
  <2> QED BY <1>1, <2>1, <2>3
<1>9. ASSUME SubRecover(b) PROVE Own
  BY <1>1, <1>9 DEF SubRecover, WorkerState, WorkerPlaces
<1>10. ASSUME SubEnds(b) PROVE Own
  BY <1>1, <1>10 DEF SubEnds, WorkerState, WorkerPlaces
<1> HIDE DEF Own
<1>11. Own
  BY <1>2, <1>3, <1>4, <1>5, <1>6, <1>7, <1>8, <1>9, <1>10 DEF SubStep
<1> QED BY <1>11 DEF Own

\* The process thread and the sub-batch threads.
LEMMA ProcessingTypes ==
    ASSUME TrackerInv, ProcStep \/ \E b \in Subs : SubStep(b)
    PROVE  CoreTypes'
<1> USE TrackerAssumption DEF TrackerInv
<1>1. ASSUME ProcTake PROVE CoreTypes'
  <2>1. procQueue \in Seq([n : Nat, id : Nat]) /\ procQueue # <<>>
    BY <1>1 DEF CoreTypes, ProcTake
  <2>2. Tail(procQueue) \in Seq([n : Nat, id : Nat]) /\ Head(procQueue) \in [n : Nat, id : Nat]
    BY <2>1, HeadAndTail
  <2>3. processor' \in ProcessorState
    BY <1>1, <2>2 DEF ProcTake, ProcessorState, ProcessorPlaces, WithBatch
  <2> QED BY <1>1, <2>2, <2>3 DEF ProcTake, CoreTypes, dispatchVars, libVars, historyVars, Whole,
                                 Subs
<1>2. ASSUME ProcLibrary PROVE CoreTypes'
  <2>1. offsets' \subseteq Streams
    <3>1. CASE offsets' = offsets
      BY <3>1 DEF CoreTypes
    <3>2. CASE \E known \in WithObjects(UNION Range(items[processor.n].lists)) :
                   offsets' = offsets \cup known
      <4>1. processor.n \in Batches
        BY <1>2 DEF ProcLibrary, ProcessorInv, WithBatch
      <4>2. UNION Range(items[processor.n].lists) \subseteq Streams
        BY <4>1, ListsTypes DEF Range
      <4> QED BY <3>2, <4>2 DEF WithObjects, CoreTypes
    <3> QED BY <1>2, <3>1, <3>2 DEF ProcLibrary
  <2>2. processor' \in ProcessorState
    BY <1>2 DEF ProcLibrary, CoreTypes, ProcessorState, ProcessorPlaces, WithBatch
  <2>3. UNCHANGED <<config, freeBufs, nextId, procQueue, pending, completions, left, reqQueue,
                    worker, output, items, holders>>
    BY <1>2 DEF ProcLibrary, dispatchVars, historyVars
  <2> QED BY <2>1, <2>2, <2>3 DEF CoreTypes, Whole, Subs
<1>3. ASSUME ProcErase PROVE CoreTypes'
  <2>1. processor' \in ProcessorState
    BY <1>3 DEF ProcErase, CoreTypes, ProcessorState, ProcessorPlaces, WithBatch
  <2>2. Whole
    BY <1>3 DEF ProcErase, PhasesInv
  <2> QED BY <1>3, <2>1, <2>2 DEF ProcErase, CoreTypes, procVars, dispatchVars, libVars,
                                 historyVars, Whole, Subs
<1>4. ASSUME ProcComplete PROVE CoreTypes'
  <2>1. completions \in Seq(Nat \cup {NoItem}) /\ processor.n \in Nat \cup {NoItem}
    BY DEF CoreTypes, ProcessorState
  <2>2. completions' \in Seq(Nat \cup {NoItem})
    BY <1>4, <2>1 DEF ProcComplete
  <2>3. processor' \in ProcessorState
    BY <1>4 DEF ProcComplete, CoreTypes, ProcessorState, ProcessorPlaces, WithBatch
  <2>4. output' \in OutputState
    BY <1>4, WakingOutput DEF ProcComplete
  <2>5. UNCHANGED <<config, freeBufs, nextId, procQueue, pending, left, reqQueue, worker, offsets,
                    items, holders>>
    BY <1>4 DEF ProcComplete, procVars, dispatchVars, historyVars
  <2> QED BY <2>2, <2>3, <2>4, <2>5 DEF CoreTypes, Whole, Subs
<1>5. ASSUME ProcReturnBuffer PROVE CoreTypes'
  <2>1. processor' \in ProcessorState
    BY <1>5 DEF ProcReturnBuffer, IdleProcessor, ProcessorState, ProcessorPlaces
  <2> QED BY <1>5, <2>1 DEF ProcReturnBuffer, Returned, CoreTypes, dispatchVars, libVars, Whole,
                           Subs
<1>6. ASSUME ProcEnds PROVE CoreTypes'
  <2>1. processor' \in ProcessorState
    BY <1>6 DEF ProcEnds, CoreTypes, ProcessorState, ProcessorPlaces
  <2>2. output' \in OutputState
    BY <1>6, WakingOutput DEF ProcEnds
  <2> QED BY <1>6, <2>1, <2>2 DEF ProcEnds, CoreTypes, procVars, dispatchVars, libVars,
                                 historyVars, Whole, Subs
<1>7. ASSUME NEW b \in Subs, SubStep(b) PROVE CoreTypes'
  <2>1. reqQueue[b] \in Seq(Request)
    BY DEF CoreTypes
  <2>2. worker' \in [Subs -> WorkerState]
    BY <1>7, WorkerSteps
  <2>3. CASE SubTest(b) \/ SubWaits(b) \/ SubWoken(b) \/ SubEnds(b)
    BY <2>2, <2>3 DEF SubTest, SubWaits, SubWoken, SubEnds, CoreTypes, procVars, dispatchVars,
                      libVars, historyVars, Whole, Subs
  <2>4. CASE SubTake(b)
    <3>1. reqQueue' \in [Subs -> Seq(Request)]
      <4>1. Tail(reqQueue[b]) \in Seq(Request)
        BY <2>1, <2>4, HeadAndTail DEF SubTake
      <4> QED BY <2>4, <4>1 DEF SubTake, CoreTypes
    <3> QED BY <2>2, <2>4, <3>1 DEF SubTake, CoreTypes, procVars, libVars, historyVars, Whole, Subs
  <2>5. CASE SubRemove(b) \/ SubRecover(b)
    BY <2>2, <2>5 DEF SubRemove, SubRecover, CoreTypes, dispatchVars, libVars, historyVars, Whole,
                      Subs
  <2>6. CASE SubLibrary(b)
    <3>1. offsets' \subseteq Streams
      <4>1. worker[b].req.frames \subseteq Streams
        BY <2>6 DEF SubLibrary, RequestForms, Busy, Request
      <4> QED BY <2>6, <4>1 DEF SubLibrary, WithObjects, CoreTypes
    <3>2. UNCHANGED <<config, freeBufs, nextId, procQueue, pending, completions, left, reqQueue,
                      processor, output, items, holders>>
      BY <2>6 DEF SubLibrary, dispatchVars, historyVars
    <3> QED BY <2>2, <3>1, <3>2 DEF CoreTypes, Whole, Subs
  <2>7. CASE SubComplete(b)
    <3>1. completions' \in Seq(Nat \cup {NoItem})
      <4>1. worker[b].req.n \in Nat
        BY <2>7 DEF SubComplete, RequestForms, Busy, Request
      <4>2. completions \in Seq(Nat \cup {NoItem})
        BY DEF CoreTypes
      <4>3. completions' = completions \/ completions' = Append(completions, worker[b].req.n)
        BY <2>7 DEF SubComplete
      <4> QED BY <4>1, <4>2, <4>3
    <3>2. output' \in OutputState
      <4>1. output' = output \/ output' = NotifyOutput
        BY <2>7 DEF SubComplete
      <4> QED BY <4>1, WakingOutput DEF CoreTypes
    <3>3. ~Whole => \A i \in DOMAIN pending' : i \in Nat /\ pending'[i] \in [Subs -> Nat]
      <4> DEFINE id == worker[b].req.id
                 rest == [pending[id] EXCEPT ![b] = @ - 1]
      <4>1. \/ pending' = pending
            \/ pending' = [i \in DOMAIN pending \ {id} |-> pending[i]]
            \/ /\ pending' = [pending EXCEPT ![id] = rest]
               /\ id \in DOMAIN pending /\ pending[id][b] > 0
        BY <2>7 DEF SubComplete
      <4>2. ~Whole => \A i \in DOMAIN pending : i \in Nat /\ pending[i] \in [Subs -> Nat]
        BY DEF CoreTypes
      <4>3. ~Whole /\ id \in DOMAIN pending /\ pending[id][b] > 0 => rest \in [Subs -> Nat]
        BY <4>2
      <4> HIDE DEF id, rest
      <4> QED BY <4>1, <4>2, <4>3
    <3>4. freeBufs' \in Nat /\ holders' \subseteq holders
      BY <2>7 DEF SubComplete, Returned, CoreTypes
    <3>5. UNCHANGED <<config, nextId, procQueue, left, reqQueue, processor, offsets, items>>
      BY <2>7 DEF SubComplete, dispatchVars
    <3> QED BY <2>2, <3>1, <3>2, <3>3, <3>4, <3>5 DEF CoreTypes, Whole, Subs
  <2> QED BY <1>7, <2>3, <2>4, <2>5, <2>6, <2>7 DEF SubStep
<1> QED BY <1>1, <1>2, <1>3, <1>4, <1>5, <1>6, <1>7 DEF ProcStep

\* The output loop, downstream and the application thread.
LEMMA OutputTypes ==
    ASSUME TrackerInv, OutStep \/ (\E n \in DOMAIN items : Released(n)) \/ Stop \/ AppStep
    PROVE  CoreTypes'
<1> USE DEF TrackerInv
<1>1. ASSUME OutTest \/ OutWaits \/ OutWokenInVain \/ OutSignal PROVE CoreTypes'
  <2>1. output' \in OutputState
    <3>1. output \in OutputState
      BY DEF CoreTypes
    <3> QED BY <1>1, <3>1 DEF OutTest, OutWaits, OutWokenInVain, OutSignal, OutputState
  <2>2. UNCHANGED <<config, freeBufs, nextId, procQueue, pending, completions, left, reqQueue,
                    worker, processor, offsets, items, holders>>
    BY <1>1 DEF OutTest, OutWaits, OutWokenInVain, OutSignal, procVars, dispatchVars, historyVars
  <2> QED BY <2>1, <2>2 DEF CoreTypes, Whole, Subs
<1>2. ASSUME OutTake PROVE CoreTypes'
  <2>1. completions \in Seq(Nat \cup {NoItem}) /\ completions # <<>>
    BY <1>2 DEF OutTake, CoreTypes
  <2>2. completions' \in Seq(Nat \cup {NoItem}) /\ Head(completions) \in Nat \cup {NoItem}
    BY <1>2, <2>1, HeadAndTail DEF OutTake
  <2>3. output' \in OutputState
    BY <1>2, <2>2 DEF OutTake, OutputState
  <2>4. UNCHANGED <<config, freeBufs, nextId, procQueue, pending, left, reqQueue, worker,
                    processor, offsets, items, holders>>
    BY <1>2 DEF OutTake, procVars, dispatchVars, historyVars
  <2> QED BY <2>2, <2>3, <2>4 DEF CoreTypes, Whole, Subs
<1>3. ASSUME OutPush PROVE CoreTypes'
  <2>1. output' \in OutputState
    BY <1>3 DEF OutPush, OutputState
  <2>2. left' \in Seq(Nat)
    <3>1. left \in Seq(Nat) /\ output.n \in Nat
      BY <1>3 DEF OutPush, CoreTypes, OutputState
    <3>2. left' = left \/ left' = Append(left, output.n)
      BY <1>3 DEF OutPush
    <3> QED BY <3>1, <3>2
  <2>3. UNCHANGED <<config, freeBufs, nextId, procQueue, pending, completions, reqQueue, worker,
                    processor, offsets, items, holders>>
    BY <1>3 DEF OutPush, procVars, dispatchVars
  <2> QED BY <2>1, <2>2, <2>3 DEF CoreTypes, Whole, Subs
<1>4. ASSUME (\E n \in DOMAIN items : Released(n)) \/ Stop \/ DestroyPool \/ Joined \/ EndLoop
             \/ Stopped
      PROVE  CoreTypes'
  <2>1. UNCHANGED <<config, freeBufs, nextId, procQueue, pending, completions, left, reqQueue,
                    worker, processor, output, offsets, items, holders>>
    BY <1>4 DEF Released, Stop, DestroyPool, Joined, EndLoop, Stopped, procVars, dispatchVars,
                threadVars, historyVars
  <2> QED BY <2>1 DEF CoreTypes, Whole, Subs
<1>5. ASSUME NEW b \in Subs, StopSub(b) PROVE CoreTypes'
  <2>1. worker' \in [Subs -> WorkerState]
    BY <1>5, WakingWorkers DEF StopSub
  <2>2. UNCHANGED <<config, freeBufs, nextId, procQueue, pending, completions, left, reqQueue,
                    processor, output, offsets, items, holders>>
    BY <1>5 DEF StopSub, procVars, historyVars
  <2> QED BY <2>1, <2>2 DEF CoreTypes, Whole, Subs
<1>6. ASSUME ClearQueues PROVE CoreTypes'
  <2>1. output' \in OutputState
    BY <1>6, WakingOutput DEF ClearQueues
  <2>2. /\ completions' = <<>> /\ pending' = <<>>
        /\ UNCHANGED <<config, freeBufs, nextId, procQueue, left, reqQueue, worker, processor,
                       offsets, items, holders>>
    BY <1>6 DEF ClearQueues, procVars
  <2>3. completions' \in Seq(Nat \cup {NoItem})
    BY <2>2
  <2> QED BY <2>1, <2>2, <2>3 DEF CoreTypes, Whole, Subs
<1> QED BY <1>1, <1>2, <1>3, <1>4, <1>5, <1>6 DEF OutStep, AppStep

\* Every step keeps the types.
LEMMA StepTypes == ASSUME TrackerInv, Next PROVE CoreTypes'
<1>1. CASE \E lists \in config.lists : SubmitBatch(lists)
  BY <1>1, SubmissionTypes
<1>2. CASE \E e \in Events : SendEvent(e)
  BY <1>2, SubmissionTypes
<1>3. CASE Submission \/ EventStep
  BY <1>3, SubmissionTypes
<1>4. CASE ProcStep \/ \E b \in Subs : SubStep(b)
  BY <1>4, ProcessingTypes
<1>5. CASE OutStep \/ (\E n \in DOMAIN items : Released(n)) \/ Stop \/ AppStep
  BY <1>5, OutputTypes
<1> QED BY <1>1, <1>2, <1>3, <1>4, <1>5 DEF Next

--------------------------------------------------------------------------------
\* Which thread is at work when.
LEMMA StepPhases == ASSUME TrackerInv, Next PROVE PhasesInv'
<1> USE DEF TrackerInv, PhasesInv, vars, procVars, dispatchVars, libVars, threadVars, historyVars
<1>1. ASSUME NEW lists \in config.lists, SubmitBatch(lists) PROVE PhasesInv'
  BY <1>1 DEF SubmitBatch, Whole, Subs
<1>2. ASSUME NEW e \in Events, SendEvent(e) PROVE PhasesInv'
  BY <1>2 DEF SendEvent, Whole, Subs
<1>3. ASSUME Submission PROVE PhasesInv'
  <2>1. CASE Convert \/ ConvertFails \/ AlreadyActive \/ Register \/ Enqueue
    BY <2>1 DEF Convert, ConvertFails, AlreadyActive, Register, Enqueue, Whole, Subs
  <2>2. CASE Dispatch
    <3>1. app = "play"
      BY <2>2 DEF Dispatch
    <3>2. UNCHANGED <<config, procQueue, processor, app>> /\ streamer' = "idle"
      BY <2>2 DEF Dispatch
    <3> QED BY <3>1, <3>2 DEF Whole
  <2> QED BY <1>3, <2>1, <2>2 DEF Submission
<1>4. ASSUME EventStep PROVE PhasesInv'
  <2>1. app = "play"
    BY <1>4 DEF EventStep, Flushed, PushMarker, HandleEvent, EventDropped, RemovalError
  <2>2. UNCHANGED <<config, procQueue, processor, app>> /\ streamer' # "queue"
    BY <1>4 DEF EventStep, Flushed, PushMarker, HandleEvent, EventDropped, RemovalError
  <2> QED BY <2>1, <2>2 DEF Whole
<1>5. ASSUME ProcStep PROVE PhasesInv'
  <2>1. Whole
    BY <1>5 DEF ProcStep, ProcTake, ProcLibrary, ProcErase, ProcComplete, ProcReturnBuffer, ProcEnds
  <2>2. UNCHANGED <<config, streamer, worker, app>>
    BY <1>5 DEF ProcStep, ProcTake, ProcLibrary, ProcErase, ProcComplete, ProcReturnBuffer, ProcEnds
  <2> QED BY <2>1, <2>2 DEF Whole, Subs
<1>6. ASSUME NEW b \in Subs, SubStep(b) PROVE PhasesInv'
  <2>1. UNCHANGED <<config, procQueue, processor, streamer, app>>
    BY <1>6 DEF SubStep, SubTest, SubWaits, SubWoken, SubTake, SubRemove, SubLibrary, SubComplete,
                SubRecover, SubEnds
  <2>2. worker[b].at # "ended"
    BY <1>6 DEF SubStep, SubTest, SubWaits, SubWoken, SubTake, SubRemove, SubLibrary, SubComplete,
                SubRecover, SubEnds
  <2> QED BY <2>1, <2>2 DEF Whole, Subs
<1>7. ASSUME OutStep \/ (\E n \in DOMAIN items : Released(n)) \/ Stop PROVE PhasesInv'
  BY <1>7 DEF OutStep, OutTest, OutWaits, OutWokenInVain, OutTake, OutPush, OutSignal, Released,
              Stop, Whole, Subs
<1>8. ASSUME NEW b \in Subs, StopSub(b) PROVE PhasesInv'
  BY <1>8 DEF StopSub, Whole
<1>9. ASSUME Joined PROVE PhasesInv'
  <2>1. Whole => Subs = {}
    BY DEF Whole, Subs
  <2> QED BY <1>9, <2>1 DEF Joined, Whole, Subs
<1>10. ASSUME DestroyPool \/ ClearQueues \/ EndLoop \/ Stopped PROVE PhasesInv'
  BY <1>10 DEF DestroyPool, ClearQueues, EndLoop, Stopped, Whole, Subs
<1> QED BY <1>1, <1>2, <1>3, <1>4, <1>5, <1>6, <1>7, <1>8, <1>9, <1>10 DEF Next, AppStep

--------------------------------------------------------------------------------
(* Steps that carry the invariant over *)

\* No batch is newly handed over, and none lets go of its buffer.
NoneHandedOver == HandedOver' \subseteq HandedOver \cup {NoItem} \cup (DOMAIN items \ Batches)
BuffersKept == \A n \in Batches : Holds(n) => Holds(n)'

\* A step that hands nothing over hands no batch over: the event marker is none.
LEMMA NotHandedOver ==
    ASSUME CoreTypes, NoneHandedOver
    PROVE  \A n \in Batches : n \in HandedOver' => n \in HandedOver
<1>1. NoItem \notin Batches
  BY TrackerAssumption DEF Batches, CoreTypes
<1> QED BY <1>1 DEF NoneHandedOver

\* A step after which no request is open that was not.
LEMMA RequestsCarried ==
    ASSUME CoreTypes, RequestsInv, UNCHANGED config, Batches \subseteq Batches', NoneHandedOver,
           BuffersKept, \A b \in Subs : OpenIn(b)' \subseteq OpenIn(b)
    PROVE  RequestsInv'
<1>1. Subs' = Subs
  BY DEF Subs
<1>2. \A b \in Subs : \A r \in OpenIn(b)' : r.n \in Batches' \ HandedOver' /\ Holds(r.n)'
  BY NotHandedOver DEF RequestsInv, BuffersKept
<1>3. \A b, c \in Subs : \A r \in OpenIn(b)', q \in OpenIn(c)' : r.id = q.id <=> r.n = q.n
  BY DEF RequestsInv
<1> QED BY <1>1, <1>2, <1>3 DEF RequestsInv

\* A step that leaves the queue of the process thread as it is, and the thread busy with the
\* same batch or with none.
LEMMA ProcessorCarried ==
    ASSUME CoreTypes, ProcessorInv, UNCHANGED <<config, procQueue>>, Batches \subseteq Batches',
           NoneHandedOver, BuffersKept,
           processor'.at \in WithBatch => processor.at \in WithBatch /\ processor'.n = processor.n,
           processor'.at = "process" => processor.at = "process"
    PROVE  ProcessorInv'
<1>1. ASSUME NEW k \in DOMAIN procQueue
      PROVE  procQueue[k].n \in Batches' \ HandedOver' /\ Holds(procQueue[k].n)'
  BY NotHandedOver DEF ProcessorInv, BuffersKept
<1>2. processor'.at \in WithBatch => processor'.n \in Batches' /\ Holds(processor.n)'
  BY DEF ProcessorInv, BuffersKept
<1>3. processor'.at = "process" => processor'.n \notin HandedOver'
  BY NotHandedOver DEF ProcessorInv, WithBatch
<1>4. /\ \A k, l \in DOMAIN procQueue : procQueue[k].n = procQueue[l].n => k = l
      /\ \A k \in DOMAIN procQueue : processor'.at \in WithBatch => processor'.n # procQueue[k].n
  BY DEF ProcessorInv
<1> QED BY <1>1, <1>2, <1>3, <1>4 DEF ProcessorInv

\* A step during which the batch of the streaming thread, if it has one, stays where it is.
Undisturbed ==
    /\ UNCHANGED <<config, items, streamer, nextId>>
    /\ streamer \in {"convert", "register", "queue"} =>
        /\ Current \in HandedOver' => Current \in HandedOver
        /\ Current \in holders' <=> Current \in holders
    /\ \A k \in DOMAIN procQueue' : \E l \in DOMAIN procQueue : procQueue'[k].n = procQueue[l].n
    /\ processor'.at \in WithBatch =>
        \/ processor.at \in WithBatch /\ processor'.n = processor.n
        \/ \E l \in DOMAIN procQueue : processor'.n = procQueue[l].n

\* Such a step keeps what is said of that batch.
LEMMA StreamerCarried ==
    ASSUME StreamerInv, Undisturbed, \A b \in Subs : OpenIn(b)' \subseteq OpenIn(b)
    PROVE  StreamerInv'
<1>1. Subs' = Subs /\ Batches' = Batches /\ Current' = Current
  BY DEF Undisturbed, Subs, Batches, Current
<1>2. streamer \in {"convert", "register", "queue"} =>
        /\ Current \in Batches \ HandedOver'
        /\ \A k \in DOMAIN procQueue' : procQueue'[k].n # Current
        /\ processor'.at \in WithBatch => processor'.n # Current
        /\ \A b \in Subs : \A r \in OpenIn(b)' : r.n # Current
  BY DEF StreamerInv, Undisturbed
<1>3. /\ streamer = "convert" => config.pool > 0 /\ Current \notin holders'
      /\ streamer \in {"register", "queue"} => (config.pool > 0 => Current \in holders')
  BY DEF StreamerInv, Undisturbed, Holds
<1> QED BY <1>1, <1>2, <1>3 DEF StreamerInv, Undisturbed, Holds

\* A thread that got no request has no more open ones.
LEMMA OpenCarried ==
    ASSUME NEW b, UNCHANGED reqQueue,
           Busy(b)' => Busy(b) /\ worker'[b].req = worker[b].req
    PROVE  OpenIn(b)' \subseteq OpenIn(b)
  BY DEF OpenIn, Queued

\* The steps of a sub-batch thread that give it no request.
WorkerQuiet(b) ==
    \/ SubTest(b) \/ SubWaits(b) \/ SubWoken(b) \/ SubRemove(b) \/ SubLibrary(b) \/ SubRecover(b)
    \/ SubEnds(b)

\* Their effects: the thread is at work after them when it was before, on the same request.
LEMMA QuietWorker ==
    ASSUME CoreTypes, NEW b \in Subs, WorkerQuiet(b)
    PROVE  /\ Busy(b)' <=> Busy(b)
           /\ Busy(b) => worker'[b].req = worker[b].req
           /\ worker'[b].at # "remove"
           /\ UNCHANGED <<config, reqQueue, procQueue, freeBufs, pending, nextId, completions,
                          streamer, processor, output, app, items, holders, left>>
<1>1. worker[b] \in WorkerState /\ b \in DOMAIN worker
  BY DEF CoreTypes
<1> USE DEF dispatchVars, historyVars, procVars, libVars, WorkerState, Busy
<1>2. CASE SubTest(b)
  BY <1>1, <1>2 DEF SubTest
<1>3. CASE SubWaits(b) \/ SubWoken(b)
  BY <1>1, <1>3 DEF SubWaits, SubWoken
<1>4. CASE SubRemove(b)
  BY <1>1, <1>4 DEF SubRemove
<1>5. CASE SubLibrary(b)
  BY <1>1, <1>5 DEF SubLibrary
<1>6. CASE SubRecover(b) \/ SubEnds(b)
  BY <1>1, <1>6 DEF SubRecover, SubEnds
<1> QED BY <1>2, <1>3, <1>4, <1>5, <1>6 DEF WorkerQuiet

\* Threads work on requests of their kind.
LEMMA StepForms == ASSUME TrackerInv, Next PROVE RequestForms'
<1> USE DEF TrackerInv
<1>1. CASE UNCHANGED <<config, reqQueue, worker>>
  BY <1>1 DEF RequestForms, Busy, Subs
<1>2. ASSUME NEW bs, UNCHANGED <<config, reqQueue>>, worker' = NotifyWorkers(bs)
      PROVE  RequestForms'
  <2>1. \A b \in Subs : /\ worker'[b].req = worker[b].req
                        /\ Busy(b)' => Busy(b)
                        /\ worker'[b].at = "remove" => worker[b].at = "remove"
    BY <1>2, WakingWorkers DEF Busy
  <2> QED BY <1>2, <2>1 DEF RequestForms, Subs
<1>3. CASE Dispatch
  <2>1. Current \in Batches
    BY <1>3 DEF Dispatch, StreamerInv
  <2>2. PICK reqs \in [Subs -> Seq(Request)] :
            /\ \A b \in Subs : \A k \in DOMAIN reqs[b] : reqs[b][k].kind = "batch"
            /\ reqQueue' = [b \in Subs |-> reqQueue[b] \o reqs[b]]
            /\ worker' = NotifyWorkers({b \in Subs : reqs[b] # <<>>})
    BY <1>3, <2>1, DispatchQueues
  <2>3. \A b \in Subs : /\ worker'[b].req = worker[b].req
                        /\ Busy(b)' => Busy(b)
                        /\ worker'[b].at = "remove" => worker[b].at = "remove"
    BY <2>2, WakingWorkers DEF Busy
  <2>4. ASSUME NEW b \in Subs, NEW k \in DOMAIN reqQueue'[b], reqQueue'[b][k].kind = "remove"
        PROVE  reqQueue'[b][k].n = 0
    <3>1. reqQueue[b] \in Seq(Request) /\ reqs[b] \in Seq(Request)
      BY DEF CoreTypes
    <3>2. \/ k \in DOMAIN reqQueue[b] /\ reqQueue'[b][k] = reqQueue[b][k]
          \/ k - Len(reqQueue[b]) \in DOMAIN reqs[b]
             /\ reqQueue'[b][k] = reqs[b][k - Len(reqQueue[b])]
      BY <2>2, <3>1
    <3> QED BY <2>2, <2>4, <3>2 DEF RequestForms
  <2>5. UNCHANGED config
    BY <1>3 DEF Dispatch
  <2> QED BY <2>3, <2>4, <2>5 DEF RequestForms, Subs
<1>4. CASE HandleEvent
  <2>1. Current \in DOMAIN items \ Batches /\ UNCHANGED config
    BY <1>4 DEF HandleEvent, StreamerInv
  <2>2. ASSUME NEW b, NEW s \in Streams, reqQueue' = RemovalRequest(b, s),
               worker' = NotifyWorkers({b})
        PROVE  RequestForms'
    <3>1. \A c \in Subs : /\ worker'[c].req = worker[c].req
                          /\ Busy(c)' => Busy(c)
                          /\ worker'[c].at = "remove" => worker[c].at = "remove"
      BY <2>2, WakingWorkers DEF Busy
    <3>2. ASSUME NEW c \in Subs, NEW k \in DOMAIN reqQueue'[c], reqQueue'[c][k].kind = "remove"
          PROVE  reqQueue'[c][k].n = 0
      <4>1. reqQueue[c] \in Seq(Request) /\ c \in DOMAIN reqQueue
        BY DEF CoreTypes
      <4>2. \/ k \in DOMAIN reqQueue[c] /\ reqQueue'[c][k] = reqQueue[c][k]
            \/ reqQueue'[c][k] = [kind |-> "remove", n |-> 0, id |-> 0, frames |-> {s}]
        BY <2>2, <4>1 DEF RemovalRequest
      <4> QED BY <3>2, <4>2 DEF RequestForms
    <3> QED BY <2>1, <3>1, <3>2 DEF RequestForms, Subs
  <2> QED BY <1>1, <1>4, <2>1, <2>2, EventQueues
<1>5. ASSUME NEW b \in Subs, WorkerQuiet(b) PROVE RequestForms'
  <2>1. \A c \in Subs \ {b} : worker'[c] = worker[c]
    BY <1>5, WorkerSteps DEF SubStep, WorkerQuiet
  <2> QED BY <1>5, <2>1, QuietWorker DEF RequestForms, Subs, Busy
<1>6. ASSUME NEW b \in Subs, SubTake(b) PROVE RequestForms'
  <2>1. \A c \in Subs \ {b} : worker'[c] = worker[c]
    BY <1>6, WorkerSteps DEF SubStep
  <2>2. reqQueue[b] \in Seq(Request) /\ b \in DOMAIN reqQueue /\ reqQueue[b] # <<>>
    BY <1>6 DEF CoreTypes, SubTake
  <2>3. Head(reqQueue[b]) \in Request
    BY <2>2, HeadAndTail
  <2>4. worker[b] \in WorkerState /\ b \in DOMAIN worker
    BY DEF CoreTypes
  <2>5. /\ worker'[b].at = Head(reqQueue[b]).kind /\ worker'[b].req = Head(reqQueue[b])
        /\ reqQueue'[b] = Tail(reqQueue[b])
        /\ \A c \in Subs \ {b} : reqQueue'[c] = reqQueue[c]
    BY <1>6, <2>2, <2>4 DEF SubTake, WorkerState, CoreTypes
  <2>6. \A k \in DOMAIN reqQueue'[b] : reqQueue'[b][k].kind = "remove" => reqQueue'[b][k].n = 0
    BY <2>2, <2>5, HeadAndTail DEF RequestForms
  <2>7. /\ Busy(b)' => worker'[b].req \in Request /\ worker'[b].req.kind = "batch"
        /\ worker'[b].at = "remove" => worker'[b].req \in Request
    BY <2>3, <2>5 DEF Busy, Request
  <2>8. UNCHANGED config
    BY <1>6 DEF SubTake
  <2>9. ASSUME NEW c \in Subs \ {b}
        PROVE  /\ Busy(c)' => worker'[c].req \in Request /\ worker'[c].req.kind = "batch"
               /\ worker'[c].at = "remove" => worker'[c].req \in Request
               /\ \A k \in DOMAIN reqQueue'[c] :
                      reqQueue'[c][k].kind = "remove" => reqQueue'[c][k].n = 0
    <3>1. worker'[c] = worker[c] /\ reqQueue'[c] = reqQueue[c]
      BY <2>1, <2>5
    <3> QED BY <3>1 DEF RequestForms, Busy
  <2> QED BY <2>6, <2>7, <2>8, <2>9 DEF RequestForms, Subs
<1>7. ASSUME NEW b \in Subs, SubComplete(b) PROVE RequestForms'
  <2>1. \A c \in Subs \ {b} : worker'[c] = worker[c]
    BY <1>7, WorkerSteps DEF SubStep
  <2>2. worker[b] \in WorkerState /\ b \in DOMAIN worker
    BY DEF CoreTypes
  <2>3. worker'[b].at \in {"recover", "test"}
    BY <1>7, <2>2 DEF SubComplete, WorkerState
  <2>4. UNCHANGED <<config, reqQueue>>
    BY <1>7 DEF SubComplete, dispatchVars
  <2> QED BY <2>1, <2>3, <2>4 DEF RequestForms, Subs, Busy
<1>8. CASE \E lists \in config.lists : SubmitBatch(lists)
  BY <1>1, <1>8 DEF SubmitBatch, dispatchVars
<1>9. CASE \E e \in Events : SendEvent(e)
  BY <1>1, <1>9 DEF SendEvent, dispatchVars
<1>10. CASE Submission
  BY <1>1, <1>3, <1>10 DEF Submission, Convert, ConvertFails, AlreadyActive, Register, Enqueue,
                           dispatchVars
<1>11. CASE EventStep
  BY <1>1, <1>4, <1>11 DEF EventStep, Flushed, PushMarker, EventDropped, RemovalError, dispatchVars
<1>12. CASE ProcStep
  BY <1>1, <1>12 DEF ProcStep, ProcTake, ProcLibrary, ProcErase, ProcComplete, ProcReturnBuffer,
                     ProcEnds, dispatchVars
<1>13. CASE OutStep \/ (\E n \in DOMAIN items : Released(n)) \/ Stop
  BY <1>1, <1>13 DEF OutStep, OutTest, OutWaits, OutWokenInVain, OutTake, OutPush, OutSignal,
                     Released, Stop, dispatchVars, threadVars
<1>14. CASE AppStep
  BY <1>1, <1>2, <1>14 DEF AppStep, DestroyPool, StopSub, Joined, ClearQueues, EndLoop, Stopped,
                           dispatchVars, threadVars
<1> QED BY <1>5, <1>6, <1>7, <1>8, <1>9, <1>10, <1>11, <1>12, <1>13, <1>14
     DEF Next, SubStep, WorkerQuiet

--------------------------------------------------------------------------------
(* What the steps do to requests, batches handed over and buffers *)

\* Only Dispatch opens requests.
LEMMA StepOpen ==
    ASSUME TrackerInv, Next, ~Dispatch
    PROVE  \A b \in Subs : OpenIn(b)' \subseteq OpenIn(b)
<1> USE DEF TrackerInv
<1> DEFINE Fewer == \A b \in Subs : OpenIn(b)' \subseteq OpenIn(b)
<1>1. ASSUME UNCHANGED <<reqQueue, worker>> PROVE Fewer
  BY <1>1, OpenCarried DEF Busy
<1>2. ASSUME NEW bs, worker' = NotifyWorkers(bs)
      PROVE  \A b \in Subs : Busy(b)' => Busy(b) /\ worker'[b].req = worker[b].req
  BY <1>2, WakingWorkers DEF Busy
<1>3. ASSUME HandleEvent PROVE Fewer
  <2>1. Current \in DOMAIN items \ Batches
    BY <1>3 DEF HandleEvent, StreamerInv
  <2>2. ASSUME NEW b, NEW s \in Streams, reqQueue' = RemovalRequest(b, s),
               worker' = NotifyWorkers({b}), NEW c \in Subs
        PROVE  OpenIn(c)' \subseteq OpenIn(c)
    <3>1. reqQueue[c] \in Seq(Request) /\ c \in DOMAIN reqQueue
      BY DEF CoreTypes
    <3>2. \A k \in DOMAIN reqQueue'[c] :
            \/ k \in DOMAIN reqQueue[c] /\ reqQueue'[c][k] = reqQueue[c][k]
            \/ reqQueue'[c][k].kind = "remove"
      BY <2>2, <3>1 DEF RemovalRequest
    <3> QED BY <1>2, <2>2, <3>2 DEF OpenIn, Queued
  <2> QED BY <1>1, <1>3, <2>1, <2>2, EventQueues
<1>4. ASSUME NEW b \in Subs, WorkerQuiet(b) PROVE Fewer
  <2>1. \A c \in Subs \ {b} : worker'[c] = worker[c]
    BY <1>4, WorkerSteps DEF SubStep, WorkerQuiet
  <2> QED BY <1>4, <2>1, QuietWorker, OpenCarried DEF Busy
<1>5. ASSUME NEW b \in Subs, SubTake(b) PROVE Fewer
  <2>1. \A c \in Subs \ {b} : worker'[c] = worker[c]
    BY <1>5, WorkerSteps DEF SubStep
  <2>2. reqQueue[b] \in Seq(Request) /\ b \in DOMAIN reqQueue /\ reqQueue[b] # <<>>
    BY <1>5 DEF CoreTypes, SubTake
  <2>3. worker[b] \in WorkerState /\ b \in DOMAIN worker
    BY DEF CoreTypes
  <2>4. /\ worker'[b].at = Head(reqQueue[b]).kind /\ worker'[b].req = Head(reqQueue[b])
        /\ reqQueue'[b] = Tail(reqQueue[b])
        /\ \A c \in Subs \ {b} : reqQueue'[c] = reqQueue[c]
    BY <1>5, <2>2, <2>3 DEF SubTake, WorkerState, CoreTypes
  <2>5. OpenIn(b)' \subseteq OpenIn(b)
    <3>1. \A k \in DOMAIN reqQueue'[b] :
              k + 1 \in DOMAIN reqQueue[b] /\ reqQueue'[b][k] = reqQueue[b][k + 1]
      BY <2>2, <2>4, HeadAndTail
    <3>2. {reqQueue'[b][k] : k \in Queued(b)'} \subseteq OpenIn(b)
      BY <3>1 DEF OpenIn, Queued
    <3>3. worker'[b].req = reqQueue[b][1] /\ 1 \in DOMAIN reqQueue[b]
      BY <2>2, <2>4, HeadAndTail
    <3>4. Head(reqQueue[b]) \in Request
      BY <2>2, HeadAndTail
    <3>5. Busy(b)' => reqQueue[b][1].kind = "batch"
      BY <2>2, <2>4, <3>4, HeadAndTail DEF Busy, Request
    <3>6. Busy(b)' => worker'[b].req \in OpenIn(b)
      BY <3>3, <3>5 DEF OpenIn, Queued
    <3> QED BY <3>2, <3>6 DEF OpenIn
  <2>6. ASSUME NEW c \in Subs \ {b} PROVE OpenIn(c)' \subseteq OpenIn(c)
    <3>1. worker'[c] = worker[c] /\ reqQueue'[c] = reqQueue[c]
      BY <2>1, <2>4
    <3> QED BY <3>1 DEF OpenIn, Queued, Busy
  <2> QED BY <2>5, <2>6
<1>6. ASSUME NEW b \in Subs, SubComplete(b) PROVE Fewer
  <2>1. \A c \in Subs \ {b} : worker'[c] = worker[c]
    BY <1>6, WorkerSteps DEF SubStep
  <2>2. worker[b] \in WorkerState /\ b \in DOMAIN worker
    BY DEF CoreTypes
  <2>3. ~Busy(b)' /\ UNCHANGED reqQueue
    BY <1>6, <2>2 DEF SubComplete, WorkerState, Busy, dispatchVars
  <2> QED BY <2>1, <2>3, OpenCarried DEF Busy
<1>7. ASSUME NEW b \in Subs, StopSub(b) PROVE Fewer
  <2>1. worker' = NotifyWorkers({b}) /\ UNCHANGED reqQueue
    BY <1>7 DEF StopSub
  <2> QED BY <1>2, <2>1, OpenCarried
<1> HIDE DEF Fewer
<1>8. ASSUME (\E lists \in config.lists : SubmitBatch(lists)) \/ \E e \in Events : SendEvent(e)
      PROVE  Fewer
  BY <1>1, <1>8 DEF SubmitBatch, SendEvent, dispatchVars
<1>9. ASSUME Submission
      PROVE  Fewer
  BY <1>1, <1>9 DEF Submission, Convert, ConvertFails, AlreadyActive, Register, Enqueue,
                    dispatchVars
<1>10. ASSUME EventStep
      PROVE  Fewer
  BY <1>1, <1>3, <1>10 DEF EventStep, Flushed, PushMarker, EventDropped, RemovalError, dispatchVars
<1>11. ASSUME ProcStep
      PROVE  Fewer
  BY <1>1, <1>11 DEF ProcStep, ProcTake, ProcLibrary, ProcErase, ProcComplete, ProcReturnBuffer,
                     ProcEnds, dispatchVars
<1>12. ASSUME OutStep \/ (\E n \in DOMAIN items : Released(n)) \/ Stop
      PROVE  Fewer
  BY <1>1, <1>12 DEF OutStep, OutTest, OutWaits, OutWokenInVain, OutTake, OutPush, OutSignal,
                     Released, Stop, dispatchVars, threadVars
<1>13. ASSUME AppStep
      PROVE  Fewer
  BY <1>1, <1>7, <1>13 DEF AppStep, DestroyPool, Joined, ClearQueues, EndLoop, Stopped,
                           dispatchVars, threadVars
<1>14. Fewer
  BY <1>4, <1>5, <1>6, <1>8, <1>9, <1>10, <1>11, <1>12, <1>13 DEF Next, SubStep, WorkerQuiet
<1> QED BY <1>14 DEF Fewer

\* Appending adds one element.
LEMMA RangeOfAppend ==
    ASSUME NEW S, NEW q \in Seq(S), NEW x
    PROVE  Range(Append(q, x)) = Range(q) \cup {x}
<1>1. DOMAIN Append(q, x) = DOMAIN q \cup {Len(q) + 1} /\ Append(q, x)[Len(q) + 1] = x
  OBVIOUS
<1>2. \A k \in DOMAIN q : Append(q, x)[k] = q[k]
  OBVIOUS
<1> QED BY <1>1, <1>2 DEF Range

\* Only the two steps that complete a batch hand one over.
LEMMA StepHandedOver ==
    ASSUME TrackerInv, Next, ~ProcComplete, \A b \in Subs : ~SubComplete(b)
    PROVE  NoneHandedOver
<1> USE TrackerAssumption DEF TrackerInv
<1>1. ASSUME UNCHANGED <<completions, left>>, output'.n = output.n PROVE NoneHandedOver
  BY <1>1 DEF NoneHandedOver, HandedOver
<1>2. ASSUME UNCHANGED <<completions, left, output>> PROVE NoneHandedOver
  BY <1>2 DEF NoneHandedOver, HandedOver
<1>3. \A n \in Batches : n # NoItem
  BY DEF Batches, CoreTypes
<1>4. completions \in Seq(Nat \cup {NoItem}) /\ left \in Seq(Nat) /\ output \in OutputState
  BY DEF CoreTypes
<1>5. NotifyOutput.n = output.n
  BY WakingOutput
<1>6. ASSUME PushMarker PROVE NoneHandedOver
  <2>1. Range(completions') = Range(completions) \cup {NoItem}
    BY <1>4, <1>6, RangeOfAppend DEF PushMarker
  <2>2. output'.n = output.n /\ UNCHANGED left
    BY <1>5, <1>6 DEF PushMarker, historyVars
  <2> QED BY <1>3, <2>1, <2>2 DEF NoneHandedOver, HandedOver
<1>7. ASSUME HandleEvent PROVE NoneHandedOver
  <2>1. Range(left') = Range(left) \cup {Current} /\ UNCHANGED <<completions, output>>
    BY <1>4, <1>7, RangeOfAppend DEF HandleEvent
  <2>2. Current \in DOMAIN items \ Batches
    BY <1>7 DEF HandleEvent, StreamerInv
  <2> QED BY <2>1, <2>2 DEF NoneHandedOver, HandedOver
<1>8. ASSUME OutTake PROVE NoneHandedOver
  <2>1. completions # <<>> /\ completions' = Tail(completions) /\ UNCHANGED left
        /\ output'.n = Head(completions)
    BY <1>8 DEF OutTake, historyVars
  <2>2. Range(completions') \subseteq Range(completions) /\ output'.n \in Range(completions)
    BY <1>4, <2>1, HeadAndTail DEF Range
  <2> QED BY <2>1, <2>2 DEF NoneHandedOver, HandedOver
<1>9. ASSUME OutPush PROVE NoneHandedOver
  <2>1. left' = left \/ left' = Append(left, output.n)
    BY <1>9 DEF OutPush
  <2>2. Range(left') \subseteq Range(left) \cup {output.n}
    BY <1>4, <2>1, RangeOfAppend
  <2>3. UNCHANGED completions /\ output'.n = NoItem
    BY <1>9 DEF OutPush
  <2> QED BY <1>3, <2>2, <2>3 DEF NoneHandedOver, HandedOver
<1>10. ASSUME ClearQueues PROVE NoneHandedOver
  <2>1. completions' = <<>> /\ UNCHANGED left /\ output'.n = output.n
    BY <1>5, <1>10 DEF ClearQueues
  <2>2. Range(completions') = {}
    BY <2>1 DEF Range
  <2> QED BY <2>1, <2>2 DEF NoneHandedOver, HandedOver
<1>11. ASSUME OutTest \/ OutWaits \/ OutWokenInVain \/ OutSignal PROVE NoneHandedOver
  <2>1. UNCHANGED <<completions, left>> /\ (output'.n = output.n \/ output'.n = NoItem)
    BY <1>4, <1>11 DEF OutTest, OutWaits, OutWokenInVain, OutSignal, OutputState, historyVars
  <2> QED BY <1>3, <2>1 DEF NoneHandedOver, HandedOver
<1>12. ASSUME ProcEnds PROVE NoneHandedOver
  BY <1>1, <1>5, <1>12 DEF ProcEnds, historyVars
<1>13. ASSUME (\E lists \in config.lists : SubmitBatch(lists)) \/ \E e \in Events : SendEvent(e)
       PROVE  NoneHandedOver
  <2>1. Batches \subseteq DOMAIN items
    BY DEF Batches
  <2> QED BY <1>2, <1>13 DEF SubmitBatch, SendEvent
<1>14. ASSUME Submission PROVE NoneHandedOver
  BY <1>2, <1>14 DEF Submission, Convert, ConvertFails, AlreadyActive, Register, Enqueue, Dispatch,
                     historyVars
<1>15. ASSUME EventStep PROVE NoneHandedOver
  BY <1>2, <1>6, <1>7, <1>15 DEF EventStep, Flushed, EventDropped, RemovalError, historyVars
<1>16. ASSUME ProcStep PROVE NoneHandedOver
  BY <1>2, <1>12, <1>16 DEF ProcStep, ProcTake, ProcLibrary, ProcErase, ProcReturnBuffer,
                            historyVars
<1>17. ASSUME NEW b \in Subs, SubStep(b) PROVE NoneHandedOver
  <2>1. CASE WorkerQuiet(b)
    BY <1>2, <2>1, QuietWorker
  <2>2. CASE SubTake(b)
    BY <1>2, <2>2 DEF SubTake, historyVars
  <2> QED BY <1>17, <2>1, <2>2 DEF SubStep, WorkerQuiet
<1>18. ASSUME (\E n \in DOMAIN items : Released(n)) \/ Stop \/ AppStep PROVE NoneHandedOver
  BY <1>2, <1>10, <1>18 DEF Released, Stop, AppStep, DestroyPool, StopSub, Joined, EndLoop, Stopped,
                            threadVars, historyVars
<1> QED BY <1>8, <1>9, <1>11, <1>13, <1>14, <1>15, <1>16, <1>17, <1>18 DEF Next, OutStep

\* Only the steps that end a batch give its buffer back.
LEMMA StepBuffers ==
    ASSUME TrackerInv, Next, ~ProcReturnBuffer, \A b \in Subs : ~SubComplete(b)
    PROVE  holders \subseteq holders' /\ BuffersKept
<1> DEFINE Kept == holders \subseteq holders' /\ UNCHANGED config
<1> USE DEF TrackerInv, historyVars
<1>1. ASSUME (\E lists \in config.lists : SubmitBatch(lists)) \/ \E e \in Events : SendEvent(e)
      PROVE  Kept
  BY <1>1 DEF SubmitBatch, SendEvent
<1>2. ASSUME Submission PROVE Kept
  BY <1>2 DEF Submission, Convert, ConvertFails, AlreadyActive, Register, Enqueue, Dispatch
<1>3. ASSUME EventStep PROVE Kept
  BY <1>3 DEF EventStep, Flushed, PushMarker, HandleEvent, EventDropped, RemovalError
<1>4. ASSUME ProcStep PROVE Kept
  BY <1>4 DEF ProcStep, ProcTake, ProcLibrary, ProcErase, ProcComplete, ProcEnds
<1>5. ASSUME NEW b \in Subs, SubStep(b) PROVE Kept
  <2>1. CASE WorkerQuiet(b)
    BY <2>1, QuietWorker
  <2>2. CASE SubTake(b)
    BY <2>2 DEF SubTake
  <2> QED BY <1>5, <2>1, <2>2 DEF SubStep, WorkerQuiet
<1>6. ASSUME OutStep \/ (\E n \in DOMAIN items : Released(n)) \/ Stop \/ AppStep PROVE Kept
  BY <1>6 DEF OutStep, OutTest, OutWaits, OutWokenInVain, OutTake, OutPush, OutSignal, Released,
              Stop, AppStep, DestroyPool, StopSub, Joined, ClearQueues, EndLoop, Stopped, threadVars
<1> HIDE DEF Kept
<1>7. Kept
  BY <1>1, <1>2, <1>3, <1>4, <1>5, <1>6 DEF Next
<1> QED BY <1>7 DEF Kept, BuffersKept, Holds

\* No batch ceases to be one.
LEMMA StepItems ==
    ASSUME TrackerInv, Next
    PROVE  /\ UNCHANGED config /\ Batches \subseteq Batches'
           /\ DOMAIN items \subseteq DOMAIN items'
<1> DEFINE Grown == /\ UNCHANGED config /\ Batches \subseteq Batches'
                    /\ DOMAIN items \subseteq DOMAIN items'
<1> USE DEF TrackerInv, historyVars, dispatchVars
<1>1. ASSUME NEW i, items' = Append(items, i), UNCHANGED config PROVE Grown
  <2>1. items \in Seq(Events \cup [kind : {"batch"}, lists : config.lists])
    BY DEF CoreTypes
  <2>2. \A n \in DOMAIN items : n \in DOMAIN items' /\ items'[n] = items[n]
    BY <1>1, <2>1
  <2> QED BY <1>1, <2>2 DEF Batches
<1>2. ASSUME UNCHANGED <<config, items>> PROVE Grown
  BY <1>2 DEF Batches
<1> HIDE DEF Grown
<1>3. ASSUME (\E lists \in config.lists : SubmitBatch(lists)) \/ \E e \in Events : SendEvent(e)
      PROVE  Grown
  BY <1>1, <1>3 DEF SubmitBatch, SendEvent
<1>4. ASSUME Submission PROVE Grown
  BY <1>2, <1>4 DEF Submission, Convert, ConvertFails, AlreadyActive, Register, Enqueue, Dispatch
<1>5. ASSUME EventStep PROVE Grown
  BY <1>2, <1>5 DEF EventStep, Flushed, PushMarker, HandleEvent, EventDropped, RemovalError
<1>6. ASSUME ProcStep PROVE Grown
  BY <1>2, <1>6 DEF ProcStep, ProcTake, ProcLibrary, ProcErase, ProcComplete, ProcReturnBuffer,
                    ProcEnds
<1>7. ASSUME NEW b \in Subs, SubStep(b) PROVE Grown
  <2>1. CASE WorkerQuiet(b)
    BY <1>2, <2>1, QuietWorker
  <2>2. CASE SubTake(b) \/ SubComplete(b)
    BY <1>2, <2>2 DEF SubTake, SubComplete
  <2> QED BY <1>7, <2>1, <2>2 DEF SubStep, WorkerQuiet
<1>8. ASSUME OutStep \/ (\E n \in DOMAIN items : Released(n)) \/ Stop \/ AppStep PROVE Grown
  BY <1>2, <1>8 DEF OutStep, OutTest, OutWaits, OutWokenInVain, OutTake, OutPush, OutSignal,
              Released, Stop, AppStep, DestroyPool, StopSub, Joined, ClearQueues, EndLoop, Stopped
<1>9. Grown
  BY <1>3, <1>4, <1>5, <1>6, <1>7, <1>8 DEF Next
<1> QED BY <1>9 DEF Grown

--------------------------------------------------------------------------------
(* The counts of a batch's requests *)

\* Where a sub-batch has no request with an id ...
NoneOpen(b, i) == \A r \in OpenIn(b) : r.id # i
Number(b, i) == Cardinality(WithId(b, i)) + InHand(b, i)

\* ... the count is zero.
CountsMean ==
    \A b \in Subs : \A i \in Nat :
        /\ Number(b, i) \in Nat /\ Cardinality(WithId(b, i)) \in Nat /\ IsFiniteSet(WithId(b, i))
        /\ Number(b, i) = 0 <=> NoneOpen(b, i)

\* Counts of requests are numbers, and zero where there is no request.
LEMMA CountsAreNumbers == CoreTypes => CountsMean
<1> SUFFICES ASSUME CoreTypes, NEW b \in Subs, NEW i \in Nat
             PROVE  /\ Number(b, i) \in Nat /\ Cardinality(WithId(b, i)) \in Nat
                    /\ IsFiniteSet(WithId(b, i))
                    /\ Number(b, i) = 0 <=> NoneOpen(b, i)
  BY DEF CountsMean
<1>1. IsFiniteSet(WithId(b, i))
  <2>1. IsFiniteSet(1 .. Len(reqQueue[b])) /\ DOMAIN reqQueue[b] = 1 .. Len(reqQueue[b])
    BY FS_Interval DEF CoreTypes
  <2> QED BY <2>1, FS_Subset DEF WithId, Queued
<1>2. Cardinality(WithId(b, i)) \in Nat
  BY <1>1, FS_CardinalityType
<1>3. Number(b, i) \in Nat
  BY <1>2 DEF Number, InHand
<1>4. Number(b, i) = 0 <=> WithId(b, i) = {} /\ InHand(b, i) = 0
  <2>1. Cardinality(WithId(b, i)) = 0 <=> WithId(b, i) = {}
    BY <1>1, FS_EmptySet
  <2> QED BY <1>2, <2>1 DEF Number, InHand
<1>5. WithId(b, i) = {} /\ InHand(b, i) = 0 <=> NoneOpen(b, i)
  BY DEF NoneOpen, OpenIn, WithId, Queued, InHand
<1> QED BY <1>1, <1>2, <1>3, <1>4, <1>5

\* The same after a step.
LEMMA CountsAreNumbersNext == CoreTypes' => CountsMean'
  BY CountsAreNumbers, PTL

\* What a step does not touch of the requests, it does not count anew.
LEMMA NumberKept ==
    ASSUME NEW b, NEW i, reqQueue'[b] = reqQueue[b], Busy(b)' <=> Busy(b),
           Busy(b) => worker'[b].req = worker[b].req
    PROVE  Number(b, i)' = Number(b, i)
<1>1. WithId(b, i)' = WithId(b, i)
  BY DEF WithId, Queued
<1>2. InHand(b, i)' = InHand(b, i)
  BY DEF InHand
<1> QED BY <1>1, <1>2 DEF Number

\* Completing a request: the last one of its batch leaves no request of the batch open.
LastDone(b) ==
    /\ \A c \in Subs : \A q \in OpenIn(c)' : q.n # worker[b].req.n
    /\ HandedOver' \subseteq HandedOver \cup {worker[b].req.n}
    /\ holders' = holders \ {worker[b].req.n} /\ freeBufs' = Returned

\* The entry that is taken out of m_PendingBatch is that of the request; when the vector is
\* empty, no other request of the batch is open.
LEMMA CompleteCounts ==
    ASSUME TrackerInv, CoreTypes', NEW b \in Subs, SubComplete(b)
    PROVE  /\ CountsInv'
           /\ \/ NoneHandedOver /\ UNCHANGED <<holders, freeBufs>>
              \/ LastDone(b)
<1> USE DEF TrackerInv
<1> DEFINE r == worker[b].req
           rest == [pending[r.id] EXCEPT ![b] = @ - 1]
           last == NonePending(rest)
<1>1. worker[b] \in WorkerState /\ b \in DOMAIN worker /\ worker[b].at = "complete"
  BY DEF CoreTypes, SubComplete
<1>2. r \in Request /\ r \in OpenIn(b)
  BY <1>1 DEF RequestForms, Busy, OpenIn
<1>3. r.id \in Nat /\ r.n \in Nat
  BY <1>2 DEF Request
<1>4. ~Whole /\ app \notin {"join-output", "stopped"}
  <2>1. Whole => Subs = {}
    BY DEF Whole, Subs
  <2> QED BY <1>1, <2>1 DEF PhasesInv
<1>5. /\ \A c \in Subs : \A q \in OpenIn(c) : q.id \in DOMAIN pending
      /\ \A c \in Subs : \A i \in DOMAIN pending : pending[i][c] = Number(c, i)
      /\ \A i \in DOMAIN pending : i \in Nat /\ pending[i] \in [Subs -> Nat]
  BY <1>4 DEF CountsInv, Number, CoreTypes
<1>6. UNCHANGED <<config, reqQueue, app, left>>
  BY DEF SubComplete, dispatchVars
<1>7. Subs' = Subs /\ (~Whole)'
  BY <1>4, <1>6 DEF Subs, Whole
<1>8. \A c \in Subs \ {b} : worker'[c] = worker[c]
  BY WorkerSteps DEF SubStep
<1>9. ~Busy(b)'
  BY <1>1 DEF SubComplete, WorkerState, Busy
<1>10. \A c \in Subs \ {b}, i \in Nat : Number(c, i)' = Number(c, i)
  BY <1>6, <1>8, NumberKept DEF Busy
<1>11. \A i \in Nat : Number(b, i)' = IF i = r.id THEN Number(b, i) - 1 ELSE Number(b, i)
  <2>1. \A i \in Nat : WithId(b, i)' = WithId(b, i)
    BY <1>6 DEF WithId, Queued
  <2>2. \A i \in Nat : InHand(b, i)' = 0 /\ InHand(b, i) = IF i = r.id THEN 1 ELSE 0
    BY <1>1, <1>9 DEF InHand, Busy
  <2>3. \A i \in Nat : Cardinality(WithId(b, i)) \in Nat
    BY CountsAreNumbers DEF CountsMean
  <2> QED BY <2>1, <2>2, <2>3 DEF Number
<1>12. r.id \in DOMAIN pending /\ pending[r.id][b] > 0
  <2>1. r.id \in DOMAIN pending /\ pending[r.id][b] = Number(b, r.id)
    BY <1>2, <1>5
  <2>2. Number(b, r.id) \in Nat /\ Number(b, r.id) # 0
    BY <1>2, <1>3, CountsAreNumbers DEF CountsMean, NoneOpen
  <2> QED BY <2>1, <2>2
<1>13. PICK id \in Nat : id = r.id
  BY <1>3
<1>14. \A c \in Subs : rest[c] = Number(c, id)'
  <2>1. pending[r.id] \in [Subs -> Nat] /\ pending[r.id][b] = Number(b, r.id)
    BY <1>5, <1>12
  <2>2. rest[b] = pending[r.id][b] - 1 /\ \A c \in Subs \ {b} : rest[c] = pending[r.id][c]
    BY <2>1
  <2> QED BY <1>5, <1>10, <1>11, <1>12, <1>13, <2>1, <2>2
<1>15. /\ pending' = IF last THEN [i \in DOMAIN pending \ {r.id} |-> pending[i]]
                     ELSE [pending EXCEPT ![r.id] = rest]
       /\ freeBufs' = IF last THEN Returned ELSE freeBufs
       /\ holders' = IF last THEN holders \ {r.n} ELSE holders
       /\ completions' = IF last THEN Append(completions, r.n) ELSE completions
       /\ output' = IF last THEN NotifyOutput ELSE output
  BY <1>12 DEF SubComplete
<1>16. \A c \in Subs : OpenIn(c)' \subseteq OpenIn(c)
  BY <1>6, <1>8, <1>9, OpenCarried DEF Busy
<1> HIDE DEF rest, last
<1>17. CASE ~last
  <2>1. NoneHandedOver /\ UNCHANGED <<holders, freeBufs>>
    BY <1>6, <1>15, <1>17 DEF NoneHandedOver, HandedOver
  <2>2. pending' = [pending EXCEPT ![r.id] = rest]
    BY <1>15, <1>17
  <2>3. \A c \in Subs : \A i \in DOMAIN pending' : pending'[i][c] = Number(c, i)'
    <3>1. \A c \in Subs : \A i \in DOMAIN pending \ {id} : pending'[i][c] = Number(c, i)'
      BY <1>5, <1>10, <1>11, <1>13, <2>2
    <3>2. pending'[id] = rest
      BY <1>12, <1>13, <2>2
    <3> QED BY <1>14, <2>2, <3>1, <3>2
  <2>4. \A c \in Subs : \A q \in OpenIn(c)' : q.id \in DOMAIN pending'
    BY <1>5, <1>16, <2>2
  <2> QED BY <1>7, <2>1, <2>3, <2>4 DEF CountsInv, Number
<1>18. CASE last
  <2>1. \A c \in Subs : \A q \in OpenIn(c)' : q.id # r.id
    <3>1. \A c \in Subs : Number(c, id)' = 0
      BY <1>14, <1>18 DEF last, NonePending
    <3>2. \A c \in Subs : NoneOpen(c, id)'
      BY <1>7, <3>1, CountsAreNumbersNext DEF CountsMean
    <3> QED BY <1>13, <3>2 DEF NoneOpen
  <2>2. \A c \in Subs : \A q \in OpenIn(c)' : q.n # r.n
    BY <1>2, <1>16, <2>1 DEF RequestsInv
  <2>3. HandedOver' \subseteq HandedOver \cup {r.n}
    <3>1. output'.n = output.n
      BY <1>15, <1>18, WakingOutput
    <3>2. Range(completions') = Range(completions) \cup {r.n}
      BY <1>15, <1>18, RangeOfAppend DEF CoreTypes
    <3> QED BY <1>6, <3>1, <3>2 DEF HandedOver
  <2>4. LastDone(b)
    BY <1>15, <1>18, <2>2, <2>3 DEF LastDone
  <2>5. pending' = [i \in DOMAIN pending \ {r.id} |-> pending[i]]
    BY <1>15, <1>18
  <2>6. \A c \in Subs : \A i \in DOMAIN pending' : pending'[i][c] = Number(c, i)'
    BY <1>5, <1>10, <1>11, <2>5
  <2>7. \A c \in Subs : \A q \in OpenIn(c)' : q.id \in DOMAIN pending'
    BY <1>5, <1>16, <2>1, <2>5
  <2> QED BY <1>7, <2>4, <2>6, <2>7 DEF CountsInv, Number
<1> QED BY <1>17, <1>18

\* A step that neither counts nor opens requests.
LEMMA CountsCarried ==
    ASSUME CoreTypes, CountsInv, UNCHANGED <<config, pending>>,
           app' \notin {"join-output", "stopped"} => app \notin {"join-output", "stopped"},
           \A b \in Subs : OpenIn(b)' \subseteq OpenIn(b),
           \A b \in Subs : \A i \in Nat : Number(b, i)' = Number(b, i)
    PROVE  CountsInv'
<1>1. Subs' = Subs /\ Whole' = Whole
  BY DEF Subs, Whole
<1>2. ~Whole => \A i \in DOMAIN pending : i \in Nat
  BY DEF CoreTypes
<1> QED BY <1>1, <1>2 DEF CountsInv, Number

\* A request that is taken is in the hands of the thread.
LEMMA TakenCounts ==
    ASSUME CoreTypes, NEW b \in Subs, SubTake(b)
    PROVE  \A c \in Subs : \A i \in Nat : Number(c, i)' = Number(c, i)
<1>1. \A c \in Subs \ {b} : worker'[c] = worker[c]
  BY WorkerSteps DEF SubStep
<1>2. reqQueue[b] \in Seq(Request) /\ b \in DOMAIN reqQueue /\ reqQueue[b] # <<>>
  BY DEF CoreTypes, SubTake
<1>3. worker[b] \in WorkerState /\ b \in DOMAIN worker
  BY DEF CoreTypes
<1>4. /\ worker'[b].at = Head(reqQueue[b]).kind /\ worker'[b].req = Head(reqQueue[b])
      /\ reqQueue'[b] = Tail(reqQueue[b]) /\ ~Busy(b)
      /\ \A c \in Subs \ {b} : reqQueue'[c] = reqQueue[c]
  BY <1>2, <1>3 DEF SubTake, WorkerState, Busy, CoreTypes
<1>5. \A c \in Subs \ {b}, i \in Nat : Number(c, i)' = Number(c, i)
  BY <1>1, <1>4, NumberKept DEF Busy
<1>6. ASSUME NEW i \in Nat PROVE Number(b, i)' = Number(b, i)
  <2> DEFINE q == reqQueue[b]
             old == WithId(b, i)
             new == WithId(b, i)'
             first == {k \in {1} : q[k].kind = "batch" /\ q[k].id = i}
             prev == [k \in old \ first |-> k - 1]
  <2>1. /\ Head(q) = q[1] /\ 1 \in DOMAIN q /\ q[1] \in Request /\ Len(q) \in Nat
        /\ DOMAIN q = 1 .. Len(q) /\ DOMAIN reqQueue'[b] = 1 .. (Len(q) - 1)
        /\ \A k \in DOMAIN reqQueue'[b] : reqQueue'[b][k] = q[k + 1]
    BY <1>2, <1>4, HeadAndTail
  <2>2. new = {k \in 1 .. (Len(q) - 1) : q[k + 1].kind = "batch" /\ q[k + 1].id = i}
    BY <2>1 DEF WithId, Queued
  <2>3. old = {k \in 1 .. Len(q) : q[k].kind = "batch" /\ q[k].id = i}
    BY <2>1 DEF WithId, Queued
  <2> HIDE DEF old, new, q
  <2>4. first \subseteq old /\ old \ first = {k \in old : k > 1}
    BY <2>1, <2>3
  <2>5. prev \in Bijection(old \ first, new)
    <3>1. ASSUME NEW l \in old \ first PROVE l - 1 \in new /\ l \in Nat
      <4>1. l \in 1 .. Len(q) /\ l > 1 /\ q[l].kind = "batch" /\ q[l].id = i
        BY <2>3, <2>4
      <4>2. l - 1 \in 1 .. (Len(q) - 1) /\ (l - 1) + 1 = l
        BY <2>1, <4>1
      <4> QED BY <2>2, <4>1, <4>2
    <3>2. prev \in [old \ first -> new]
      BY <3>1
    <3>3. \A j, l \in old \ first : prev[j] = prev[l] => j = l
      BY <3>1
    <3>4. \A k \in new : k + 1 \in old \ first /\ prev[k + 1] = k
      BY <2>1, <2>2, <2>3, <2>4
    <3> QED BY <3>2, <3>3, <3>4 DEF Bijection, Injection, Surjection, IsInjective
  <2>6. IsFiniteSet(old) /\ Cardinality(old) \in Nat
    BY CountsAreNumbers DEF CountsMean, old
  <2>7. IsFiniteSet(old \ first)
    BY <2>6, FS_Subset
  <2>8. Cardinality(old) = Cardinality(new) + (IF first = {} THEN 0 ELSE 1)
    <3>1. IsFiniteSet(new) /\ Cardinality(new) = Cardinality(old \ first)
      <4>1. ExistsBijection(old \ first, new)
        BY <2>5 DEF ExistsBijection
      <4> QED BY <2>7, <4>1, FS_Bijection
    <3>2. CASE first = {}
      <4>1. old \ first = old
        BY <3>2
      <4> QED BY <2>6, <3>1, <3>2, <4>1
    <3>3. CASE first # {}
      <4>1. first = {1} /\ 1 \in old
        BY <2>4, <3>3
      <4>2. Cardinality(old \ {1}) = Cardinality(old) - 1
        BY <2>6, <4>1, FS_RemoveElement
      <4> QED BY <2>6, <3>1, <3>3, <4>1, <4>2
    <3> QED BY <3>2, <3>3
  <2>9. InHand(b, i)' = IF first = {} THEN 0 ELSE 1
    <3>1. worker'[b].at = q[1].kind /\ worker'[b].req = q[1]
      BY <1>4, <2>1 DEF q
    <3>2. q[1].kind \in {"batch", "remove"}
      BY <2>1 DEF Request
    <3> QED BY <3>1, <3>2 DEF InHand, Busy
  <2>10. InHand(b, i) = 0
    BY <1>4 DEF InHand
  <2> QED BY <2>6, <2>8, <2>9, <2>10 DEF Number, old, new
<1> QED BY <1>5, <1>6

\* The requests Dispatch queues are those it counts.
LEMMA DispatchCounts ==
    ASSUME TrackerInv, CoreTypes', Dispatch
    PROVE  CountsInv' /\ \A b \in Subs : \A r \in OpenIn(b)' :
                             r \in OpenIn(b) \/ (r.n = Current /\ r.id = nextId)
<1> USE DEF TrackerInv
<1>1. Current \in Batches /\ ~Whole /\ nextId \notin DOMAIN pending /\ app = "play"
  BY DEF Dispatch, StreamerInv, PhasesInv
<1>2. PICK reqs \in [Subs -> Seq(Request)] :
          /\ \A b \in Subs : \A k \in DOMAIN reqs[b] :
              /\ reqs[b][k].kind = "batch" /\ reqs[b][k].n = Current /\ reqs[b][k].id = nextId
              /\ reqs[b][k].frames \subseteq {s \in DOMAIN subBatchOf' : subBatchOf'[s] = b}
          /\ reqQueue' = [b \in Subs |-> reqQueue[b] \o reqs[b]]
          /\ pending' = Entered(pending, nextId, [b \in Subs |-> Len(reqs[b])])
          /\ worker' = NotifyWorkers({b \in Subs : reqs[b] # <<>>})
          /\ nextId' \in {nextId, nextId + 1}
  BY <1>1, DispatchQueues, Zenon
<1>3. PICK id \in Nat : id = nextId
  BY DEF CoreTypes
<1>4. UNCHANGED <<config, app>>
  BY DEF Dispatch
<1>5. \A b \in Subs : worker'[b].req = worker[b].req /\ (Busy(b)' <=> Busy(b))
  BY <1>2, WakingWorkers DEF Busy
<1>6. /\ \A b \in Subs : \A r \in OpenIn(b) : r.id \in DOMAIN pending
      /\ \A b \in Subs : \A i \in DOMAIN pending : i \in Nat /\ pending[i][b] = Number(b, i)
  BY <1>1 DEF CountsInv, Number, CoreTypes
<1>7. ASSUME NEW b \in Subs
      PROVE  /\ \A r \in OpenIn(b)' : r \in OpenIn(b) \/ (r.n = Current /\ r.id = nextId)
             /\ \A i \in Nat : Number(b, i)' = IF i = id THEN Len(reqs[b]) ELSE Number(b, i)
  <2> DEFINE q == reqQueue[b]
             new == (Len(q) + 1) .. (Len(q) + Len(reqs[b]))
  <2>1. q \in Seq(Request) /\ reqs[b] \in Seq(Request) /\ reqQueue'[b] = q \o reqs[b]
    BY <1>2 DEF CoreTypes
  <2>2. /\ DOMAIN reqQueue'[b] = DOMAIN q \cup new /\ DOMAIN q \cap new = {}
        /\ \A k \in DOMAIN q : reqQueue'[b][k] = q[k]
        /\ \A k \in new : k - Len(q) \in DOMAIN reqs[b] /\ reqQueue'[b][k] = reqs[b][k - Len(q)]
    BY <2>1
  <2> HIDE DEF new, q
  <2>3. \A k \in new : /\ reqQueue'[b][k].kind = "batch" /\ reqQueue'[b][k].id = id
                       /\ reqQueue'[b][k].n = Current
    <3>1. \A k \in DOMAIN reqs[b] :
              reqs[b][k].kind = "batch" /\ reqs[b][k].id = id /\ reqs[b][k].n = Current
      BY <1>2, <1>3
    <3> QED BY <2>2, <3>1
  <2>4. Queued(b)' = Queued(b) \cup new
    BY <2>2, <2>3 DEF Queued, q
  <2>5. \A r \in OpenIn(b)' : r \in OpenIn(b) \/ (r.n = Current /\ r.id = nextId)
    <3>1. \A k \in Queued(b)' : \/ k \in Queued(b) /\ reqQueue'[b][k] = reqQueue[b][k]
                                \/ reqQueue'[b][k].n = Current /\ reqQueue'[b][k].id = nextId
      BY <1>3, <2>2, <2>3, <2>4 DEF Queued, q
    <3> QED BY <1>5, <3>1 DEF OpenIn
  <2>6. ASSUME NEW i \in Nat, i # id PROVE Number(b, i)' = Number(b, i)
    <3>1. WithId(b, i)' = WithId(b, i)
      BY <2>2, <2>3, <2>4, <2>6 DEF WithId, Queued, q
    <3>2. InHand(b, i)' = InHand(b, i)
      BY <1>5 DEF InHand
    <3> QED BY <3>1, <3>2 DEF Number
  <2>7. Number(b, id)' = Len(reqs[b])
    <3>1. NoneOpen(b, id)
      BY <1>1, <1>3, <1>6 DEF NoneOpen
    <3>2. WithId(b, id) = {} /\ InHand(b, id) = 0
      BY <3>1 DEF NoneOpen, OpenIn, WithId, Queued, InHand
    <3>3. WithId(b, id)' = new
      BY <2>2, <2>3, <2>4, <3>2 DEF WithId, Queued, q
    <3>4. Cardinality(new) = Len(reqs[b])
      <4>1. Len(q) \in Nat /\ Len(reqs[b]) \in Nat
        BY <2>1 DEF q
      <4>2. Len(q) + 1 \in Int /\ Len(q) + Len(reqs[b]) \in Int
        BY <4>1
      <4>3. Cardinality(new) = IF Len(q) + 1 > Len(q) + Len(reqs[b]) THEN 0
                               ELSE Len(q) + Len(reqs[b]) - (Len(q) + 1) + 1
        BY <4>2, FS_Interval DEF new
      <4> QED BY <4>1, <4>3
    <3>5. InHand(b, id)' = 0
      BY <1>5, <3>2 DEF InHand
    <3>6. Len(reqs[b]) \in Nat
      BY <2>1
    <3> QED BY <3>3, <3>4, <3>5, <3>6 DEF Number
  <2> QED BY <2>5, <2>6, <2>7
<1>8. Subs' = Subs
  BY <1>4 DEF Subs
<1>9. \A b \in Subs : \A r \in OpenIn(b)' : r.id \in DOMAIN pending'
  BY <1>2, <1>6, <1>7 DEF Entered
<1>10. ASSUME NEW b \in Subs, NEW i \in DOMAIN pending' PROVE pending'[i][b] = Number(b, i)'
  <2>1. CASE i = id
    BY <1>2, <1>3, <1>7, <2>1 DEF Entered
  <2>2. CASE i # id
    <3>1. i \in DOMAIN pending /\ pending'[i] = pending[i]
      BY <1>2, <1>3, <2>2 DEF Entered
    <3> QED BY <1>6, <1>7, <2>2, <3>1
  <2> QED BY <2>1, <2>2
<1> QED BY <1>7, <1>8, <1>9, <1>10 DEF CountsInv, Number

\* The counts are right after each step.
LEMMA StepCounts == ASSUME TrackerInv, CoreTypes', Next PROVE CountsInv'
<1> USE DEF TrackerInv
<1>1. UNCHANGED config
  BY StepItems
<1>2. ASSUME Whole PROVE CountsInv'
  BY <1>1, <1>2 DEF CountsInv, Whole
<1>3. ASSUME app' \in {"join-output", "stopped"} PROVE CountsInv'
  BY <1>3 DEF CountsInv
<1>4. ASSUME UNCHANGED <<pending, reqQueue, worker>>,
             app' \notin {"join-output", "stopped"} => app \notin {"join-output", "stopped"}
      PROVE  CountsInv'
  <2>1. \A b \in Subs : OpenIn(b)' \subseteq OpenIn(b)
    BY <1>4, OpenCarried DEF Busy
  <2>2. \A b \in Subs : \A i \in Nat : Number(b, i)' = Number(b, i)
    BY <1>4, NumberKept DEF Busy
  <2> QED BY <1>1, <1>4, <2>1, <2>2, CountsCarried
<1>5. ASSUME Dispatch PROVE CountsInv'
  BY <1>5, DispatchCounts
<1>6. ASSUME HandleEvent PROVE CountsInv'
  <2>1. Current \in DOMAIN items \ Batches /\ UNCHANGED <<pending, app>>
    BY <1>6 DEF HandleEvent, StreamerInv
  <2>2. ASSUME NEW b, NEW s \in Streams, reqQueue' = RemovalRequest(b, s),
               worker' = NotifyWorkers({b})
        PROVE  CountsInv'
    <3>1. \A c \in Subs : worker'[c].req = worker[c].req /\ (Busy(c)' <=> Busy(c))
      BY <2>2, WakingWorkers DEF Busy
    <3>2. \A c \in Subs : \A i \in Nat : Number(c, i)' = Number(c, i)
      <4>1. ASSUME NEW c \in Subs, NEW i \in Nat PROVE WithId(c, i)' = WithId(c, i)
        <5>1. reqQueue[c] \in Seq(Request) /\ c \in DOMAIN reqQueue
          BY DEF CoreTypes
        <5>2. /\ DOMAIN reqQueue[c] \subseteq DOMAIN reqQueue'[c]
              /\ \A k \in DOMAIN reqQueue'[c] :
                  \/ k \in DOMAIN reqQueue[c] /\ reqQueue'[c][k] = reqQueue[c][k]
                  \/ reqQueue'[c][k].kind = "remove" /\ k \notin DOMAIN reqQueue[c]
          BY <2>2, <5>1 DEF RemovalRequest
        <5> QED BY <5>2 DEF WithId, Queued
      <4>2. \A c \in Subs : \A i \in Nat : InHand(c, i)' = InHand(c, i)
        BY <3>1 DEF InHand
      <4> QED BY <4>1, <4>2 DEF Number
    <3>3. ~Dispatch
      BY <1>6 DEF HandleEvent, Dispatch
    <3> QED BY <1>1, <2>1, <3>2, <3>3, StepOpen, CountsCarried
  <2> QED BY <1>4, <1>6, <2>1, <2>2, EventQueues
<1>7. ASSUME NEW b \in Subs, SubStep(b) PROVE CountsInv'
  <2>1. ~Dispatch
    BY <1>7 DEF SubStep, SubTest, SubWaits, SubWoken, SubTake, SubRemove, SubLibrary, SubComplete,
                SubRecover, SubEnds, Dispatch
  <2>2. CASE WorkerQuiet(b)
    <3>1. /\ UNCHANGED <<pending, app, reqQueue>> /\ (Busy(b)' <=> Busy(b))
          /\ Busy(b) => worker'[b].req = worker[b].req
      BY <2>2, QuietWorker
    <3>2. \A c \in Subs \ {b} : worker'[c] = worker[c]
      BY <1>7, WorkerSteps
    <3>3. \A c \in Subs : \A i \in Nat : Number(c, i)' = Number(c, i)
      BY <3>1, <3>2, NumberKept DEF Busy
    <3> QED BY <1>1, <2>1, <3>1, <3>3, StepOpen, CountsCarried
  <2>3. CASE SubTake(b)
    <3>1. UNCHANGED <<pending, app>>
      BY <2>3 DEF SubTake
    <3> QED BY <1>1, <2>1, <2>3, <3>1, TakenCounts, StepOpen, CountsCarried
  <2>4. CASE SubComplete(b)
    BY <2>4, CompleteCounts
  <2> QED BY <1>7, <2>2, <2>3, <2>4 DEF SubStep, WorkerQuiet
<1>8. ASSUME NEW b \in Subs, StopSub(b) PROVE CountsInv'
  <2>1. worker' = NotifyWorkers({b}) /\ UNCHANGED <<reqQueue, pending, app>>
    BY <1>8 DEF StopSub
  <2>2. \A c \in Subs : worker'[c].req = worker[c].req /\ (Busy(c)' <=> Busy(c))
    BY <2>1, WakingWorkers DEF Busy
  <2>3. \A c \in Subs : \A i \in Nat : Number(c, i)' = Number(c, i)
    BY <2>1, <2>2, NumberKept
  <2>4. \A c \in Subs : OpenIn(c)' \subseteq OpenIn(c)
    BY <2>1, <2>2, OpenCarried
  <2> QED BY <1>1, <2>1, <2>3, <2>4, CountsCarried
<1>9. ASSUME (\E lists \in config.lists : SubmitBatch(lists)) \/ \E e \in Events : SendEvent(e)
      PROVE  CountsInv'
  BY <1>4, <1>9 DEF SubmitBatch, SendEvent, dispatchVars
<1>10. ASSUME Submission PROVE CountsInv'
  BY <1>2, <1>4, <1>5, <1>10 DEF Submission, Convert, ConvertFails, AlreadyActive, Register,
                                 Enqueue, dispatchVars, PhasesInv
<1>11. ASSUME EventStep PROVE CountsInv'
  BY <1>4, <1>6, <1>11 DEF EventStep, Flushed, PushMarker, EventDropped, RemovalError, dispatchVars
<1>12. ASSUME ProcStep PROVE CountsInv'
  <2>1. Whole
    BY <1>12 DEF ProcStep, ProcTake, ProcLibrary, ProcErase, ProcComplete, ProcReturnBuffer,
                 ProcEnds, PhasesInv
  <2> QED BY <1>2, <2>1
<1>13. ASSUME OutStep \/ (\E n \in DOMAIN items : Released(n)) \/ Stop PROVE CountsInv'
  BY <1>4, <1>13 DEF OutStep, OutTest, OutWaits, OutWokenInVain, OutTake, OutPush, OutSignal,
                     Released, Stop, dispatchVars, threadVars
<1>14. ASSUME DestroyPool \/ Joined \/ EndLoop \/ Stopped PROVE CountsInv'
  BY <1>3, <1>4, <1>14 DEF DestroyPool, Joined, EndLoop, Stopped, dispatchVars, threadVars
<1>15. ASSUME ClearQueues PROVE CountsInv'
  BY <1>3, <1>15 DEF ClearQueues
<1> QED BY <1>7, <1>8, <1>9, <1>10, <1>11, <1>12, <1>13, <1>14, <1>15 DEF Next, AppStep

--------------------------------------------------------------------------------
(* Every step keeps the invariant *)

\* The open requests are of batches that were not handed over, with an id for each batch.
LEMMA StepRequests == ASSUME TrackerInv, CoreTypes', Next PROVE RequestsInv'
<1> USE DEF TrackerInv
<1>1. UNCHANGED config /\ Batches \subseteq Batches'
  BY StepItems
<1>2. CASE Whole
  <2>1. Subs' = {}
    BY <1>1, <1>2 DEF Whole, Subs
  <2> QED BY <2>1 DEF RequestsInv
<1>3. CASE Dispatch
  <2>1. NoneHandedOver
    BY <1>3 DEF Dispatch, NoneHandedOver, HandedOver
  <2>2. BuffersKept
    BY <1>1, <1>3 DEF Dispatch, BuffersKept, Holds
  <2>3. /\ Current \in Batches \ HandedOver /\ Holds(Current)
        /\ \A b \in Subs : \A r \in OpenIn(b) : r.n # Current
        /\ ~Whole /\ app = "play" /\ nextId \notin DOMAIN pending
    BY <1>3 DEF Dispatch, StreamerInv, PhasesInv
  <2>4. PICK n \in Batches : n = Current
    BY <2>3
  <2>5. n \notin HandedOver' /\ Holds(n)'
    BY <2>1, <2>2, <2>3, <2>4, NotHandedOver DEF BuffersKept
  <2>6. \A b \in Subs : \A r \in OpenIn(b)' : r \in OpenIn(b) \/ (r.n = n /\ r.id = nextId)
    BY <1>3, <2>4, DispatchCounts
  <2>7. \A b \in Subs : \A r \in OpenIn(b) : r.n # n /\ r.id # nextId
    BY <2>3, <2>4 DEF CountsInv
  <2>8. \A b \in Subs : \A r \in OpenIn(b)' : r.n \in Batches' \ HandedOver' /\ Holds(r.n)'
    <3>1. \A b \in Subs : \A r \in OpenIn(b) : r.n \in Batches' \ HandedOver' /\ Holds(r.n)'
      BY <1>1, <2>1, <2>2, NotHandedOver DEF RequestsInv, BuffersKept
    <3> QED BY <1>1, <2>5, <2>6, <3>1
  <2>9. \A b, c \in Subs : \A r \in OpenIn(b)', q \in OpenIn(c)' : r.id = q.id <=> r.n = q.n
    BY <2>6, <2>7 DEF RequestsInv
  <2>10. Subs' = Subs
    BY <1>1 DEF Subs
  <2> QED BY <2>8, <2>9, <2>10 DEF RequestsInv
<1>4. ASSUME NEW b \in Subs, SubComplete(b) PROVE RequestsInv'
  <2>1. ~Dispatch
    BY <1>4 DEF SubComplete, Dispatch
  <2>2. \A c \in Subs : OpenIn(c)' \subseteq OpenIn(c)
    BY <2>1, StepOpen
  <2>3. CASE NoneHandedOver /\ UNCHANGED <<holders, freeBufs>>
    <3>1. BuffersKept
      BY <1>1, <2>3 DEF BuffersKept, Holds
    <3> QED BY <1>1, <2>2, <2>3, <3>1, RequestsCarried
  <2>4. CASE LastDone(b)
    <3>1. PICK n : n = worker[b].req.n
      OBVIOUS
    <3>2. /\ \A c \in Subs : \A q \in OpenIn(c)' : q.n # n
          /\ HandedOver' \subseteq HandedOver \cup {n} /\ holders' = holders \ {n}
      BY <2>4, <3>1 DEF LastDone
    <3>3. \A c \in Subs : \A q \in OpenIn(c)' : q.n \in Batches' \ HandedOver' /\ Holds(q.n)'
      BY <1>1, <2>2, <3>2 DEF RequestsInv, Holds
    <3>4. \A c, d \in Subs : \A r \in OpenIn(c)', q \in OpenIn(d)' : r.id = q.id <=> r.n = q.n
      BY <2>2 DEF RequestsInv
    <3> QED BY <1>1, <3>3, <3>4 DEF RequestsInv, Subs
  <2> QED BY <1>4, <2>3, <2>4, CompleteCounts
<1>5. CASE ~Whole /\ ~Dispatch /\ \A b \in Subs : ~SubComplete(b)
  <2>1. ~ProcComplete /\ ~ProcReturnBuffer
    BY <1>5 DEF ProcComplete, ProcReturnBuffer, PhasesInv
  <2> QED BY <1>1, <1>5, <2>1, StepOpen, StepHandedOver, StepBuffers, RequestsCarried
<1> QED BY <1>2, <1>3, <1>4, <1>5

\* The process thread has each batch once.
LEMMA StepProcessor == ASSUME TrackerInv, CoreTypes', PhasesInv', Next PROVE ProcessorInv'
<1> USE DEF TrackerInv, WithBatch
<1>1. UNCHANGED config /\ Batches \subseteq Batches'
  BY StepItems
<1>2. CASE ~Whole
  <2>1. (~Whole)'
    BY <1>1, <1>2 DEF Whole
  <2> QED BY <2>1 DEF PhasesInv, ProcessorInv
<1>3. \A b \in Subs : ~Whole
  BY DEF Subs, Whole
<1>4. ASSUME Enqueue PROVE ProcessorInv'
  <2>1. PICK n \in Batches : n = Current
    BY <1>4 DEF Enqueue, StreamerInv
  <2>2. /\ n \notin HandedOver /\ Holds(n) /\ \A k \in DOMAIN procQueue : procQueue[k].n # n
        /\ processor.at \in WithBatch => processor.n # n
    BY <1>4, <2>1 DEF Enqueue, StreamerInv
  <2>3. UNCHANGED <<processor, HandedOver, holders, Batches>>
    BY <1>4 DEF Enqueue, historyVars, HandedOver, Batches
  <2>4. /\ DOMAIN procQueue' = DOMAIN procQueue \cup {Len(procQueue) + 1}
        /\ Len(procQueue) + 1 \notin DOMAIN procQueue
        /\ \A k \in DOMAIN procQueue : procQueue'[k] = procQueue[k]
        /\ procQueue'[Len(procQueue) + 1].n = n
    BY <1>4, <2>1 DEF Enqueue, CoreTypes
  <2>5. \A m : Holds(m)' <=> Holds(m)
    BY <1>1, <2>3 DEF Holds
  <2>6. ASSUME NEW k \in DOMAIN procQueue'
        PROVE  /\ procQueue'[k].n \in Batches \ HandedOver /\ Holds(procQueue'[k].n)
               /\ processor.at \in WithBatch => processor.n # procQueue'[k].n
               /\ \A l \in DOMAIN procQueue' : procQueue'[k].n = procQueue'[l].n => k = l
    BY <2>2, <2>4 DEF ProcessorInv
  <2>7. /\ processor.at \in WithBatch => processor.n \in Batches /\ Holds(processor.n)
        /\ processor.at = "process" => processor.n \notin HandedOver
    BY DEF ProcessorInv
  <2> QED BY <1>1, <2>3, <2>6, <2>7 DEF ProcessorInv, Holds
<1>5. ASSUME ProcTake PROVE ProcessorInv'
  <2>1. procQueue \in Seq([n : Nat, id : Nat]) /\ procQueue # <<>>
    BY <1>5 DEF CoreTypes, ProcTake
  <2>2. /\ procQueue' = Tail(procQueue) /\ processor'.n = Head(procQueue).n
        /\ processor'.at = "process" /\ UNCHANGED <<HandedOver, holders, Batches>>
    BY <1>5 DEF ProcTake, historyVars, HandedOver, Batches
  <2>3. /\ \A k \in DOMAIN procQueue' : k \in Nat /\ k + 1 \in DOMAIN procQueue
                                        /\ procQueue'[k] = procQueue[k + 1]
        /\ processor'.n = procQueue[1].n /\ 1 \in DOMAIN procQueue
        /\ \A k \in DOMAIN procQueue' : k # 0
    BY <2>1, <2>2, HeadAndTail
  <2>4. ASSUME NEW k \in DOMAIN procQueue'
        PROVE  /\ procQueue'[k].n \in Batches \ HandedOver /\ Holds(procQueue'[k].n)
               /\ procQueue[1].n # procQueue'[k].n
               /\ \A l \in DOMAIN procQueue' : procQueue'[k].n = procQueue'[l].n => k = l
    BY <2>3 DEF ProcessorInv
  <2>5. procQueue[1].n \in Batches \ HandedOver /\ Holds(procQueue[1].n)
    BY <2>3 DEF ProcessorInv
  <2> QED BY <1>1, <2>2, <2>3, <2>4, <2>5 DEF ProcessorInv, Holds
<1>6. ASSUME ProcComplete PROVE ProcessorInv'
  <2>1. Range(completions') = Range(completions) \cup {processor.n}
    BY <1>6, RangeOfAppend DEF ProcComplete, CoreTypes
  <2>2. HandedOver' \subseteq HandedOver \cup {processor.n}
    BY <1>6, <2>1, WakingOutput DEF ProcComplete, HandedOver, historyVars
  <2>3. /\ processor.at = "complete" /\ processor'.at = "return" /\ processor'.n = processor.n
        /\ UNCHANGED <<procQueue, holders>>
    BY <1>6 DEF ProcComplete, CoreTypes, ProcessorState, procVars, historyVars
  <2>4. \A k \in DOMAIN procQueue : procQueue[k].n \in Batches' \ HandedOver'
    BY <1>1, <2>2, <2>3 DEF ProcessorInv
  <2>5. processor.n \in Batches' /\ Holds(processor.n)
    BY <1>1, <2>3 DEF ProcessorInv
  <2> QED BY <1>1, <2>3, <2>4, <2>5 DEF ProcessorInv, Holds
<1>7. ASSUME ProcReturnBuffer PROVE ProcessorInv'
  <2>1. /\ processor.at = "return" /\ processor'.at = "test" /\ holders' = holders \ {processor.n}
        /\ UNCHANGED <<procQueue, HandedOver>>
    BY <1>7 DEF ProcReturnBuffer, IdleProcessor, HandedOver
  <2> QED BY <1>1, <2>1 DEF ProcessorInv, Holds
<1>8. CASE /\ Whole /\ ~Enqueue /\ ~ProcTake /\ ~ProcComplete /\ ~ProcReturnBuffer
  <2>1. \A b \in Subs : ~SubComplete(b)
    BY <1>3, <1>8
  <2>2. NoneHandedOver /\ BuffersKept
    BY <1>8, <2>1, StepHandedOver, StepBuffers
  <2> DEFINE Same == /\ UNCHANGED procQueue
                     /\ processor'.at \in WithBatch =>
                            processor.at \in WithBatch /\ processor'.n = processor.n
                     /\ processor'.at = "process" => processor.at = "process"
  <2>3. ASSUME UNCHANGED <<procQueue, processor>> PROVE Same
    BY <2>3
  <2>4. ASSUME ProcLibrary \/ ProcErase \/ ProcEnds PROVE Same
    <3>1. processor \in ProcessorState
      BY DEF CoreTypes
    <3> QED BY <2>4, <3>1 DEF ProcLibrary, ProcErase, ProcEnds, ProcessorState, procVars
  <2> HIDE DEF Same
  <2> USE DEF procVars, threadVars
  <2>5. ASSUME (\E lists \in config.lists : SubmitBatch(lists)) \/ \E e \in Events : SendEvent(e)
        PROVE  Same
    BY <2>3, <2>5 DEF SubmitBatch, SendEvent
  <2>6. ASSUME Submission PROVE Same
    BY <1>8, <2>3, <2>6 DEF Submission, Convert, ConvertFails, AlreadyActive, Register, Dispatch
  <2>7. ASSUME EventStep PROVE Same
    BY <2>3, <2>7 DEF EventStep, Flushed, PushMarker, HandleEvent, EventDropped, RemovalError
  <2>8. ASSUME OutStep \/ (\E n \in DOMAIN items : Released(n)) \/ Stop \/ AppStep PROVE Same
    BY <2>3, <2>8 DEF OutStep, OutTest, OutWaits, OutWokenInVain, OutTake, OutPush, OutSignal,
              Released, Stop, AppStep, DestroyPool, StopSub, Joined, ClearQueues, EndLoop, Stopped
  <2>9. Same
    BY <1>3, <1>8, <2>4, <2>5, <2>6, <2>7, <2>8 DEF Next, ProcStep
  <2> QED BY <1>1, <2>2, <2>9, ProcessorCarried DEF Same
<1> QED BY <1>2, <1>4, <1>5, <1>6, <1>7, <1>8

\* What is handed over has arrived.
LEMMA StepHandedOverInv == ASSUME TrackerInv, Next PROVE HandedOverInv'
<1> USE DEF TrackerInv
<1>1. DOMAIN items \subseteq DOMAIN items'
  BY StepItems
<1>2. CASE NoneHandedOver
  BY <1>1, <1>2 DEF NoneHandedOver, HandedOverInv
<1>3. CASE ProcComplete
  <2>1. Range(completions') = Range(completions) \cup {processor.n}
    BY <1>3, RangeOfAppend DEF ProcComplete, CoreTypes
  <2>2. HandedOver' \subseteq HandedOver \cup {processor.n}
    BY <1>3, <2>1, WakingOutput DEF ProcComplete, HandedOver, historyVars
  <2>3. processor.n \in DOMAIN items
    BY <1>3 DEF ProcComplete, ProcessorInv, WithBatch, Batches
  <2> QED BY <1>1, <2>2, <2>3 DEF HandedOverInv
<1>4. ASSUME NEW b \in Subs, SubComplete(b) PROVE HandedOverInv'
  <2>1. worker[b].req \in OpenIn(b)
    BY <1>4 DEF SubComplete, OpenIn, Busy
  <2>2. worker[b].req.n \in DOMAIN items
    BY <2>1 DEF RequestsInv, Batches
  <2>3. NoneHandedOver \/ HandedOver' \subseteq HandedOver \cup {worker[b].req.n}
    BY <1>4, StepTypes, CompleteCounts DEF LastDone
  <2> QED BY <1>1, <1>2, <2>2, <2>3 DEF HandedOverInv
<1> QED BY <1>2, <1>3, <1>4, StepHandedOver

\* The buffers are counted when they are taken and given back.
LEMMA StepBuffersInv == ASSUME TrackerInv, CoreTypes', Next PROVE BuffersInv'
<1> USE DEF TrackerInv
<1>1. UNCHANGED config
  BY StepItems
<1>2. IsFiniteSet(holders) /\ Cardinality(holders) \in Nat
  <2>1. IsFiniteSet(1 .. Len(items)) /\ DOMAIN items = 1 .. Len(items)
    BY FS_Interval DEF CoreTypes
  <2>2. IsFiniteSet(holders)
    BY <2>1, FS_Subset DEF CoreTypes
  <2> QED BY <2>2, FS_CardinalityType
<1>3. freeBufs \in Nat
  BY DEF CoreTypes
<1>4. ASSUME UNCHANGED <<freeBufs, holders>> PROVE BuffersInv'
  BY <1>1, <1>4 DEF BuffersInv
<1>5. ASSUME Convert \/ ConvertFails PROVE BuffersInv'
  <2>1. Current \notin holders /\ freeBufs > 0
    BY <1>5 DEF Convert, ConvertFails, StreamerInv
  <2>2. \/ UNCHANGED <<freeBufs, holders>>
        \/ freeBufs' = freeBufs - 1 /\ holders' = holders \cup {Current}
    BY <1>5 DEF Convert, ConvertFails
  <2>3. Cardinality(holders \cup {Current}) = Cardinality(holders) + 1
    BY <1>2, <2>1, FS_AddElement
  <2> QED BY <1>1, <1>2, <1>3, <1>4, <2>2, <2>3 DEF BuffersInv
<1>6. ASSUME NEW n, config.pool > 0 => n \in holders, holders' = holders \ {n},
             freeBufs' = Returned
      PROVE  BuffersInv'
  <2>1. n \in holders => Cardinality(holders \ {n}) = Cardinality(holders) - 1
    BY <1>2, FS_RemoveElement
  <2> QED BY <1>1, <1>2, <1>3, <1>6, <2>1 DEF BuffersInv, Returned
<1>7. ASSUME ProcReturnBuffer PROVE BuffersInv'
  <2>1. config.pool > 0 => processor.n \in holders
    BY <1>7 DEF ProcReturnBuffer, ProcessorInv, WithBatch, Holds
  <2>2. holders' = holders \ {processor.n} /\ freeBufs' = Returned
    BY <1>7 DEF ProcReturnBuffer
  <2> QED BY <1>6, <2>1, <2>2
<1>8. ASSUME NEW b \in Subs, SubComplete(b) PROVE BuffersInv'
  <2>1. worker[b].req \in OpenIn(b)
    BY <1>8 DEF SubComplete, OpenIn, Busy
  <2>2. config.pool > 0 => worker[b].req.n \in holders
    BY <2>1 DEF RequestsInv, Holds
  <2>3. \/ UNCHANGED <<freeBufs, holders>>
        \/ holders' = holders \ {worker[b].req.n} /\ freeBufs' = Returned
    BY <1>8, CompleteCounts DEF LastDone
  <2> QED BY <1>4, <1>6, <2>2, <2>3
<1> USE DEF procVars, historyVars
<1>9. ASSUME (\E lists \in config.lists : SubmitBatch(lists)) \/ \E e \in Events : SendEvent(e)
      PROVE  BuffersInv'
  BY <1>4, <1>9 DEF SubmitBatch, SendEvent
<1>10. ASSUME Submission PROVE BuffersInv'
  BY <1>4, <1>5, <1>10 DEF Submission, AlreadyActive, Register, Enqueue, Dispatch
<1>11. ASSUME EventStep PROVE BuffersInv'
  BY <1>4, <1>11 DEF EventStep, Flushed, PushMarker, HandleEvent, EventDropped, RemovalError
<1>12. ASSUME ProcStep PROVE BuffersInv'
  BY <1>4, <1>7, <1>12 DEF ProcStep, ProcTake, ProcLibrary, ProcErase, ProcComplete, ProcEnds
<1>13. ASSUME NEW b \in Subs, SubStep(b) PROVE BuffersInv'
  <2>1. CASE WorkerQuiet(b)
    BY <1>4, <2>1, QuietWorker
  <2>2. CASE SubTake(b)
    BY <1>4, <2>2 DEF SubTake
  <2> QED BY <1>8, <1>13, <2>1, <2>2 DEF SubStep, WorkerQuiet
<1>14. ASSUME OutStep \/ (\E n \in DOMAIN items : Released(n)) \/ Stop \/ AppStep PROVE BuffersInv'
  BY <1>4, <1>14 DEF OutStep, OutTest, OutWaits, OutWokenInVain, OutTake, OutPush, OutSignal,
          Released, Stop, AppStep, DestroyPool, StopSub, Joined, ClearQueues, EndLoop, Stopped
<1> QED BY <1>9, <1>10, <1>11, <1>12, <1>13, <1>14 DEF Next

\* What arrives is new: nothing inside the element is about it.
LEMMA Arrival ==
    ASSUME TrackerInv, NEW i, items' = Append(items, i), ~Dispatch, Next,
           UNCHANGED <<config, procQueue, processor, completions, left, output, holders>>
    PROVE  /\ Current' \in DOMAIN items' /\ items'[Current'] = i
           /\ Current' \notin HandedOver' \cup holders'
           /\ \A k \in DOMAIN procQueue' : procQueue'[k].n # Current'
           /\ processor'.at \in WithBatch => processor'.n # Current'
           /\ \A b \in Subs' : \A r \in OpenIn(b)' : r.n # Current'
<1> USE TrackerAssumption DEF TrackerInv
<1>1. PICK m : m = Current'
  OBVIOUS
<1>2. items \in Seq(Events \cup [kind : {"batch"}, lists : config.lists])
  BY DEF CoreTypes
<1>3. m \in DOMAIN items' /\ items'[m] = i /\ m \notin DOMAIN items /\ m \in Nat
  BY <1>1, <1>2 DEF Current
<1>4. Batches \subseteq DOMAIN items
  BY DEF Batches
<1>5. m \notin HandedOver /\ m \notin holders
  BY <1>3 DEF HandedOverInv, CoreTypes
<1>6. HandedOver' = HandedOver
  BY DEF HandedOver
<1>7. \A k \in DOMAIN procQueue : procQueue[k].n # m
  BY <1>3, <1>4 DEF ProcessorInv
<1>8. processor.at \in WithBatch => processor.n # m
  BY <1>3, <1>4 DEF ProcessorInv
<1>9. \A b \in Subs : \A r \in OpenIn(b)' : r.n # m
  BY <1>3, <1>4, StepOpen DEF RequestsInv
<1> QED BY <1>1, <1>3, <1>5, <1>6, <1>7, <1>8, <1>9 DEF Subs

\* The batch the streaming thread is about to queue stays out of all queues.
LEMMA StepStreamer == ASSUME TrackerInv, CoreTypes', Next PROVE StreamerInv'
<1> USE DEF TrackerInv
<1> DEFINE AboutToQueue == streamer \in {"convert", "register", "queue"}
           OneBatch ==
               /\ \A k \in DOMAIN procQueue' :
                      \E l \in DOMAIN procQueue : procQueue'[k].n = procQueue[l].n
               /\ processor'.at \in WithBatch =>
                      \/ processor.at \in WithBatch /\ processor'.n = processor.n
                      \/ \E l \in DOMAIN procQueue : processor'.n = procQueue[l].n
<1>1. UNCHANGED config /\ Batches \subseteq Batches'
  BY StepItems
<1>2. ASSUME streamer' = "idle" PROVE StreamerInv'
  BY <1>2 DEF StreamerInv
<1>3. ASSUME streamer' \in {"flush", "mark", "wait", "handle"},
             Current' \in (DOMAIN items \ Batches)'
      PROVE  StreamerInv'
  BY <1>3 DEF StreamerInv
<1>4. ASSUME NEW lists \in config.lists, SubmitBatch(lists) PROVE StreamerInv'
  <2>1. ~Dispatch
    BY <1>4 DEF SubmitBatch, Dispatch
  <2>2. /\ items' = Append(items, [kind |-> "batch", lists |-> lists])
        /\ UNCHANGED <<config, procQueue, processor, completions, left, output, holders>>
    BY <1>4 DEF SubmitBatch, procVars
  <2>3. /\ Current' \in DOMAIN items' /\ items'[Current'] = [kind |-> "batch", lists |-> lists]
        /\ Current' \notin HandedOver' \cup holders'
        /\ \A k \in DOMAIN procQueue' : procQueue'[k].n # Current'
        /\ processor'.at \in WithBatch => processor'.n # Current'
        /\ \A b \in Subs' : \A r \in OpenIn(b)' : r.n # Current'
    BY <2>1, <2>2, Arrival
  <2>4. Current' \in Batches'
    BY <2>3 DEF Batches
  <2>5. \/ streamer' = "idle"
        \/ streamer' = "convert" /\ config.pool > 0
        \/ streamer' = "register" /\ ~(config.pool > 0)
    BY <1>4 DEF SubmitBatch
  <2> QED BY <1>1, <2>3, <2>4, <2>5 DEF StreamerInv, Holds
<1>5. ASSUME NEW e \in Events, SendEvent(e) PROVE StreamerInv'
  <2>1. ~Dispatch
    BY <1>5 DEF SendEvent, Dispatch
  <2>2. /\ items' = Append(items, e)
        /\ UNCHANGED <<config, procQueue, processor, completions, left, output, holders>>
    BY <1>5 DEF SendEvent, procVars
  <2>3. Current' \in DOMAIN items' /\ items'[Current'] = e
    BY <2>1, <2>2, Arrival
  <2>4. Current' \in (DOMAIN items \ Batches)'
    BY <2>3 DEF Batches, Events
  <2> QED BY <1>3, <1>5, <2>4 DEF SendEvent
<1>6. ASSUME Convert PROVE StreamerInv'
  <2>1. UNCHANGED <<HandedOver, Current, Batches, procQueue, processor, Subs>>
    BY <1>6 DEF Convert, HandedOver, Current, Batches, Subs
  <2>2. /\ streamer = "convert" /\ streamer' = "register" /\ Current \in holders'
        /\ UNCHANGED <<reqQueue, worker>>
    BY <1>6 DEF Convert, dispatchVars
  <2>3. \A b \in Subs : OpenIn(b)' = OpenIn(b)
    BY <2>2 DEF OpenIn, Queued, Busy
  <2> QED BY <2>1, <2>2, <2>3 DEF StreamerInv, Holds
<1>7. ASSUME Register PROVE StreamerInv'
  <2>1. UNCHANGED <<HandedOver, Current, Batches, procQueue, processor, holders, config>>
    BY <1>7 DEF Register, HandedOver, Current, Batches
  <2>2. streamer = "register" /\ streamer' = "queue" /\ nextId' > 0 /\ Subs' = {}
    BY <1>7 DEF Register, CoreTypes, Subs, Whole
  <2> QED BY <2>1, <2>2 DEF StreamerInv, Holds
<1>8. ASSUME Submission PROVE StreamerInv'
  BY <1>2, <1>6, <1>7, <1>8 DEF Submission, ConvertFails, AlreadyActive, Enqueue, Dispatch
<1>9. ASSUME EventStep \/ OutSignal PROVE StreamerInv'
  <2>1. UNCHANGED items
    BY <1>9 DEF EventStep, Flushed, PushMarker, HandleEvent, EventDropped, RemovalError, OutSignal,
                historyVars
  <2>2. UNCHANGED <<Current, Batches>>
    BY <2>1 DEF Current, Batches
  <2>3. /\ streamer \in {"flush", "mark", "wait", "handle"}
        /\ streamer' \in {"idle", "mark", "wait", "handle"}
    BY <1>9 DEF EventStep, Flushed, PushMarker, HandleEvent, EventDropped, RemovalError, OutSignal
  <2> QED BY <1>2, <1>3, <2>1, <2>2, <2>3 DEF StreamerInv
<1>10. ASSUME UNCHANGED <<items, streamer, nextId>>, ~Dispatch, OneBatch,
              AboutToQueue => /\ Current \in HandedOver' => Current \in HandedOver
                              /\ Current \in holders' <=> Current \in holders
       PROVE  StreamerInv'
  <2>1. Undisturbed
    BY <1>1, <1>10 DEF Undisturbed
  <2> QED BY <1>10, <2>1, StepOpen, StreamerCarried
<1>11. AboutToQueue =>
           /\ Current \in Batches /\ \A k \in DOMAIN procQueue : procQueue[k].n # Current
           /\ processor.at \in WithBatch => processor.n # Current
           /\ \A b \in Subs : \A r \in OpenIn(b) : r.n # Current
  BY DEF StreamerInv
<1>12. ASSUME UNCHANGED <<items, streamer, nextId, holders>>, ~Dispatch, OneBatch, ~ProcComplete,
              \A b \in Subs : ~SubComplete(b)
       PROVE  StreamerInv'
  <2>1. NoneHandedOver
    BY <1>12, StepHandedOver
  <2>2. ASSUME AboutToQueue PROVE Current \in HandedOver' => Current \in HandedOver
    <3>1. PICK n \in Batches : n = Current
      BY <1>11, <2>2
    <3> QED BY <2>1, <3>1, NotHandedOver
  <2> HIDE DEF OneBatch
  <2> QED BY <1>10, <1>12, <2>2
<1>13. ASSUME UNCHANGED <<procQueue, processor>> PROVE OneBatch
  BY <1>13
<1> HIDE DEF AboutToQueue
<1>14. ASSUME NEW b \in Subs, SubComplete(b) PROVE StreamerInv'
  <2>1. UNCHANGED <<items, streamer, nextId, procQueue, processor>> /\ ~Dispatch
    BY <1>14 DEF SubComplete, Dispatch
  <2>2. worker[b].req \in OpenIn(b)
    BY <1>14 DEF SubComplete, OpenIn, Busy
  <2>3. AboutToQueue => worker[b].req.n # Current
    BY <1>11, <2>2
  <2>4. CASE NoneHandedOver /\ UNCHANGED <<holders, freeBufs>>
    <3>1. ASSUME AboutToQueue PROVE Current \in HandedOver' => Current \in HandedOver
      <4>1. PICK n \in Batches : n = Current
        BY <1>11, <3>1
      <4> QED BY <2>4, <4>1, NotHandedOver
    <3> QED BY <1>10, <1>13, <2>1, <2>4, <3>1
  <2>5. CASE LastDone(b)
    <3>1. PICK n : n = worker[b].req.n
      OBVIOUS
    <3>2. HandedOver' \subseteq HandedOver \cup {n} /\ holders' = holders \ {n}
      BY <2>5, <3>1 DEF LastDone
    <3>3. AboutToQueue => /\ Current \in HandedOver' => Current \in HandedOver
                          /\ Current \in holders' <=> Current \in holders
      BY <2>3, <3>1, <3>2
    <3> QED BY <1>10, <1>13, <2>1, <3>3
  <2> QED BY <1>14, <2>4, <2>5, CompleteCounts
<1>15. ASSUME ProcComplete PROVE StreamerInv'
  <2>1. Range(completions') = Range(completions) \cup {processor.n}
    BY <1>15, RangeOfAppend DEF ProcComplete, CoreTypes
  <2>2. HandedOver' \subseteq HandedOver \cup {processor.n}
    BY <1>15, <2>1, WakingOutput DEF ProcComplete, HandedOver, historyVars
  <2>3. /\ processor.at = "complete" /\ processor'.at = "return" /\ processor'.n = processor.n
        /\ UNCHANGED <<procQueue, holders, items, streamer, nextId>> /\ streamer' = streamer
    BY <1>15 DEF ProcComplete, CoreTypes, ProcessorState, procVars, historyVars
  <2>4. processor.at \in WithBatch
    BY <2>3 DEF WithBatch
  <2>5. OneBatch
    BY <2>3, <2>4
  <2>6. ~Dispatch
    BY <1>15 DEF ProcComplete, PhasesInv, Dispatch
  <2>7. AboutToQueue => (Current \in HandedOver' => Current \in HandedOver)
    BY <1>11, <2>2, <2>4
  <2> HIDE DEF OneBatch
  <2> QED BY <1>10, <2>3, <2>5, <2>6, <2>7
<1>16. ASSUME ProcReturnBuffer PROVE StreamerInv'
  <2>1. /\ processor.at = "return" /\ processor'.at = "test" /\ holders' = holders \ {processor.n}
        /\ UNCHANGED <<procQueue, HandedOver, items, streamer, nextId>>
    BY <1>16 DEF ProcReturnBuffer, IdleProcessor, HandedOver
  <2>2. processor.at \in WithBatch /\ ~(processor'.at \in WithBatch)
    BY <2>1 DEF WithBatch
  <2>3. OneBatch
    BY <2>1, <2>2
  <2>4. ~Dispatch
    BY <1>16 DEF ProcReturnBuffer, PhasesInv, Dispatch
  <2>5. AboutToQueue => (Current \in holders' <=> Current \in holders)
    BY <1>11, <2>1, <2>2
  <2> HIDE DEF OneBatch
  <2> QED BY <1>10, <2>1, <2>3, <2>4, <2>5
<1>17. ASSUME ProcStep, ~ProcComplete, ~ProcReturnBuffer PROVE StreamerInv'
  <2>1. Whole /\ ~Dispatch /\ \A b \in Subs : ~SubComplete(b)
    <3>1. Whole
      BY <1>17 DEF ProcStep, ProcTake, ProcLibrary, ProcErase, ProcEnds, PhasesInv
    <3>2. Subs = {}
      BY <3>1 DEF Whole, Subs
    <3> QED BY <3>1, <3>2 DEF Dispatch
  <2>2. UNCHANGED <<items, streamer, nextId, holders>>
    BY <1>17 DEF ProcStep, ProcTake, ProcLibrary, ProcErase, ProcEnds, procVars, historyVars
  <2>3. CASE ProcTake
    <3>1. procQueue \in Seq([n : Nat, id : Nat]) /\ procQueue # <<>>
      BY <2>3 DEF CoreTypes, ProcTake
    <3>2. procQueue' = Tail(procQueue) /\ processor'.n = Head(procQueue).n
      BY <2>3 DEF ProcTake
    <3>3. OneBatch
      BY <3>1, <3>2, HeadAndTail
    <3> HIDE DEF OneBatch
    <3> QED BY <1>12, <1>17, <2>1, <2>2, <3>3
  <2>4. CASE ProcLibrary \/ ProcErase \/ ProcEnds
    <3>1. processor \in ProcessorState
      BY DEF CoreTypes
    <3>2. /\ UNCHANGED procQueue
          /\ processor'.at \in WithBatch => processor.at \in WithBatch /\ processor'.n = processor.n
      BY <2>4, <3>1 DEF ProcLibrary, ProcErase, ProcEnds, ProcessorState, procVars, WithBatch
    <3>3. OneBatch
      BY <3>2
    <3> HIDE DEF OneBatch
    <3> QED BY <1>12, <1>17, <2>1, <2>2, <3>3
  <2> QED BY <1>17, <2>3, <2>4 DEF ProcStep
<1> HIDE DEF OneBatch
<1>18. ASSUME NEW b \in Subs, SubStep(b), ~ProcComplete, \A c \in Subs : ~SubComplete(c)
       PROVE  StreamerInv'
  <2>1. ~Dispatch
    BY <1>18 DEF SubStep, SubTest, SubWaits, SubWoken, SubTake, SubRemove, SubLibrary,
                 SubRecover, SubEnds, Dispatch
  <2>2. CASE WorkerQuiet(b)
    BY <1>12, <1>13, <1>18, <2>1, <2>2, QuietWorker
  <2>3. CASE SubTake(b)
    <3>1. UNCHANGED <<items, streamer, nextId, holders, procQueue, processor>>
      BY <2>3 DEF SubTake, procVars, historyVars
    <3> QED BY <1>12, <1>13, <1>18, <2>1, <3>1
  <2> QED BY <1>18, <2>2, <2>3 DEF SubStep, WorkerQuiet
<1>19. ASSUME (OutStep /\ ~OutSignal) \/ (\E n \in DOMAIN items : Released(n)) \/ Stop \/ AppStep,
              ~ProcComplete, \A c \in Subs : ~SubComplete(c)
       PROVE  StreamerInv'
  <2>1. UNCHANGED <<items, streamer, nextId, holders, procQueue, processor>>
    BY <1>19 DEF OutStep, OutTest, OutWaits, OutWokenInVain, OutTake, OutPush,
          Released, Stop, AppStep, DestroyPool, StopSub, Joined, ClearQueues, EndLoop, Stopped,
          procVars, threadVars, historyVars
  <2>2. CASE ~Dispatch
    BY <1>12, <1>13, <1>19, <2>1, <2>2
  <2>3. CASE Dispatch
    BY <1>2, <2>3 DEF Dispatch
  <2> QED BY <2>2, <2>3
<1> QED BY <1>4, <1>5, <1>8, <1>9, <1>14, <1>15, <1>16, <1>17, <1>18, <1>19 DEF Next

--------------------------------------------------------------------------------
(* The invariant *)

\* It holds when the element starts ...
LEMMA InitTracker == Init => TrackerInv
<1> SUFFICES ASSUME Init PROVE TrackerInv
  OBVIOUS
<1> USE TrackerAssumption
<1>1. CoreTypes
  <2>1. <<>> \in Seq(Nat) /\ <<>> \in Seq(Nat \cup {NoItem}) /\ <<>> \in Seq(Request)
        /\ <<>> \in Seq([n : Nat, id : Nat])
        /\ <<>> \in Seq(Events \cup [kind : {"batch"}, lists : config.lists])
    OBVIOUS
  <2>2. IdleWorker \in WorkerState /\ IdleProcessor \in ProcessorState
    BY DEF IdleWorker, IdleProcessor, WorkerState, ProcessorState, WorkerPlaces, ProcessorPlaces
  <2>3. [at |-> "test", n |-> NoItem] \in OutputState
    BY DEF OutputState
  <2>4. config \in Configs /\ config.pool \in Nat
    BY DEF Init
  <2> QED BY <2>1, <2>2, <2>3, <2>4 DEF Init, CoreTypes
<1>2. PhasesInv /\ StreamerInv /\ ProcessorInv
  BY DEF Init, PhasesInv, StreamerInv, ProcessorInv, IdleProcessor, WithBatch
<1>3. \A b \in Subs : Queued(b) = {} /\ ~Busy(b) /\ worker[b].at = "test" /\ reqQueue[b] = <<>>
  BY DEF Init, Queued, Busy, IdleWorker
<1>4. \A b \in Subs : OpenIn(b) = {}
  BY <1>3 DEF OpenIn
<1>5. RequestForms /\ RequestsInv
  BY <1>3, <1>4 DEF RequestForms, RequestsInv
<1>6. CountsInv
  BY <1>4 DEF CountsInv, Init
<1>7. HandedOver = {NoItem}
  BY DEF HandedOver, Init, Range
<1>8. BuffersInv
  <2>1. config.pool \in Nat /\ freeBufs = config.pool /\ holders = {}
    BY DEF Init
  <2>2. Cardinality(holders) = 0
    BY <2>1, FS_EmptySet
  <2> QED BY <2>1, <2>2 DEF BuffersInv
<1> QED BY <1>1, <1>2, <1>5, <1>6, <1>7, <1>8 DEF TrackerInv, HandedOverInv

\* ... and every step keeps it.
LEMMA StepTracker == TrackerInv /\ [Next]_vars => TrackerInv'
<1>1. ASSUME TrackerInv, Next PROVE TrackerInv'
  <2>1. CoreTypes' /\ PhasesInv'
    BY <1>1, StepTypes, StepPhases
  <2> QED BY <1>1, <2>1, StepStreamer, StepProcessor, StepForms, StepRequests, StepCounts,
             StepHandedOverInv, StepBuffersInv DEF TrackerInv
<1>2. ASSUME TrackerInv, UNCHANGED vars PROVE TrackerInv'
  <2> USE <1>2 DEF TrackerInv, vars, procVars, dispatchVars, threadVars, historyVars
  <2>1. UNCHANGED <<Whole, Subs, Batches, HandedOver, Current>>
    BY DEF Whole, Subs, Batches, HandedOver, Current
  <2>2. \A b : UNCHANGED <<OpenIn(b), Busy(b)>> /\ \A i : UNCHANGED <<WithId(b, i), InHand(b, i)>>
    BY DEF OpenIn, Queued, Busy, WithId, InHand
  <2>3. \A n : Holds(n)' <=> Holds(n)
    BY DEF Holds
  <2>4. CoreTypes' /\ PhasesInv' /\ BuffersInv' /\ HandedOverInv'
    BY <2>1 DEF CoreTypes, PhasesInv, BuffersInv, HandedOverInv
  <2>5. RequestForms'
    BY <2>1 DEF RequestForms, Busy
  <2>6. StreamerInv' /\ ProcessorInv'
    BY <2>1, <2>2, <2>3 DEF StreamerInv, ProcessorInv, Holds
  <2>7. RequestsInv' /\ CountsInv'
    BY <2>1, <2>2, <2>3 DEF RequestsInv, CountsInv, Holds
  <2> QED BY <2>4, <2>5, <2>6, <2>7
<1> QED BY <1>1, <1>2

\* The invariant holds in every state of the tracker.
LEMMA TrackerInvariant == Spec => []TrackerInv
  BY InitTracker, StepTracker, PTL DEF Spec

\* No batch is handed to the output loop while a thread has a part of it to do, and no conversion
\* buffer is lost or doubled: m_PendingBatch has, for each sub-batch, as many entries of a batch
\* as its thread has requests for it, so that processSubBatch finds the vector empty, returns the
\* buffer and completes the batch with the last part and not before.
THEOREM PartsAreFinishedFirst == Spec => []PartsFinishedFirst
  BY TrackerInvariant, InvImpliesParts, PTL

--------------------------------------------------------------------------------
(* The invariant behind StreamsAgree *)

AssignedTo(b) == {s \in DOMAIN subBatchOf : subBatchOf[s] = b}

\* What m_SsidSubBatchMap and m_SubBatchAllocationMap are declared to be.
OfMaps == UNION {[D -> Subs] : D \in SUBSET Streams}
SlotMaps == [Subs -> UNION {[D -> Streams] : D \in SUBSET Nat}]

\* Every place of sub-batch b has a stream of b, another one each.
PlacesOf(of, places, b) ==
    /\ DOMAIN places \subseteq 0 .. (config.sizes[b] - 1)
    /\ \A i \in DOMAIN places : places[i] \in DOMAIN of /\ of[places[i]] = b
    /\ \A i, j \in DOMAIN places : places[i] = places[j] => i = j

\* A stream is assigned to a sub-batch it may be in and has its place there, alone.
Assignment(of, alloc) ==
    /\ of \in OfMaps /\ alloc \in SlotMaps
    /\ config.fixed # <<>> => \A s \in DOMAIN of : s \in config.fixed[of[s]]
    /\ config.fixed = <<>> =>
        /\ \A b \in Subs : PlacesOf(of, alloc[b], b)
        /\ \A s \in DOMAIN of : \E i \in DOMAIN alloc[of[s]] : alloc[of[s]][i] = s

\* The streams the context of sub-batch b keeps when its thread is done with what it has in
\* hand, and what is left of the streams L after the first k requests of queue q.
Loaded(b) ==
    CASE worker[b].at = "batch" -> lib[b] \cup worker[b].req.frames
      [] worker[b].at = "remove" -> lib[b] \ worker[b].req.frames
      [] OTHER -> lib[b]

Adds(r, s) == r.kind = "batch" /\ s \in r.frames
Removes(r, s) == r.kind = "remove" /\ s \in r.frames

After(L, q, k) ==
    {s \in Streams :
        \/ s \in L /\ \A j \in 1 .. k : ~Removes(q[j], s)
        \/ \E j \in 1 .. k : Adds(q[j], s) /\ \A i \in (j + 1) .. k : ~Removes(q[i], s)}

LoadedAfter(b, k) == After(Loaded(b), reqQueue[b], k)

\* Unless the library failed, no context has to keep more streams than it can at any time,
\* and in the end it keeps streams that are assigned to it.
ContextInv(b) ==
    /\ Cardinality(lib[b]) <= config.sizes[b]
    /\ ~libError =>
        /\ \A k \in 0 .. Len(reqQueue[b]) : Cardinality(LoadedAfter(b, k)) <= config.sizes[b]
        /\ app \notin {"join-output", "stopped"} =>
               LoadedAfter(b, Len(reqQueue[b])) \subseteq AssignedTo(b)

ContextsInv == lib \in [{0} \cup Subs -> SUBSET Streams] /\ \A b \in Subs : ContextInv(b)

\* The library failed only when it returned an error.
ErrorsInv ==
    /\ errors \in Nat /\ libError \in BOOLEAN
    /\ libError => errors > 0
    /\ \A b \in Subs : worker[b].at = "recover" \/ worker[b].failed => errors > 0

\* What TypeOK says of what the other parts do not speak of: flags and the streaming thread,
\* m_PendingBatch, where batches are kept, and buffers when there is no pool.
FlagsInv ==
    /\ running \in BOOLEAN /\ looping \in BOOLEAN
    /\ running => app \in {"play", "drain"}
    /\ subRunning \in [Subs -> BOOLEAN]
    /\ streamer \in {"idle", "convert", "register", "queue", "flush", "mark", "wait", "handle"}
    /\ active \subseteq Streams

PendingInv == \A i \in DOMAIN pending : i \in Nat /\ pending[i] \in [Subs -> Nat]

BatchesInv ==
    /\ Range(completions) \subseteq Batches \cup {NoItem}
    /\ miscOut \subseteq ({0} \cup Subs) \X Batches
    /\ holders \subseteq Batches

NoPoolInv == config.pool = 0 => freeBufs = 0

RestInv == FlagsInv /\ PendingInv /\ BatchesInv /\ NoPoolInv

AssignmentInv == Assignment(subBatchOf, slots)

AgreeInv == AssignmentInv /\ ContextsInv /\ ErrorsInv /\ RestInv

--------------------------------------------------------------------------------
(* The assignment of streams to sub-batches *)

\* The sub-batches of a configuration, their sizes and what is fixed.
LEMMA Sizes ==
    ASSUME config \in Configs
    PROVE  /\ Subs \subseteq Nat /\ IsFiniteSet(Subs) /\ 0 \notin Subs
           /\ \A b \in Subs : config.sizes[b] \in Nat
           /\ \A b \in Subs : /\ IsFiniteSet(0 .. (config.sizes[b] - 1))
                              /\ Cardinality(0 .. (config.sizes[b] - 1)) = config.sizes[b]
           /\ config.fixed # <<>> =>
                /\ DOMAIN config.fixed = Subs
                /\ \A b \in Subs : /\ config.fixed[b] \subseteq Streams
                                   /\ Cardinality(config.fixed[b]) <= config.sizes[b]
<1>1. /\ config.sizes \in Seq(Nat) /\ config.fixed \in Seq(SUBSET Streams)
      /\ config.fixed # <<>> =>
             /\ DOMAIN config.fixed = DOMAIN config.sizes
             /\ \A b \in DOMAIN config.sizes : Cardinality(config.fixed[b]) <= config.sizes[b]
  BY TrackerAssumption
<1>2. Len(config.sizes) \in Nat /\ Subs = 1 .. Len(config.sizes)
  BY <1>1 DEF Subs
<1>3. IsFiniteSet(1 .. Len(config.sizes))
  BY <1>2, FS_Interval
<1>4. ASSUME NEW b \in Subs
      PROVE  /\ config.sizes[b] \in Nat
             /\ IsFiniteSet(0 .. (config.sizes[b] - 1))
             /\ Cardinality(0 .. (config.sizes[b] - 1)) = config.sizes[b]
  <2>1. config.sizes[b] \in Nat
    BY <1>1 DEF Subs
  <2> DEFINE n == config.sizes[b]
  <2>2. n \in Nat /\ 0 \in Int /\ n - 1 \in Int
    BY <2>1
  <2> HIDE DEF n
  <2>3. /\ IsFiniteSet(0 .. (n - 1))
        /\ Cardinality(0 .. (n - 1)) = IF 0 > n - 1 THEN 0 ELSE n - 1 - 0 + 1
    BY <2>2, FS_Interval
  <2>4. Cardinality(0 .. (n - 1)) = n
    BY <2>2, <2>3
  <2> QED BY <2>2, <2>3, <2>4 DEF n
<1>5. ASSUME config.fixed # <<>>, NEW b \in Subs PROVE config.fixed[b] \subseteq Streams
  BY <1>1, <1>5 DEF Subs
<1> QED BY <1>1, <1>2, <1>3, <1>4, <1>5 DEF Subs

\* No more streams are assigned to a sub-batch than it is made for.
LEMMA AssignmentFits ==
    ASSUME config \in Configs, NEW of, NEW alloc, Assignment(of, alloc), NEW b \in Subs
    PROVE  LET a == {s \in DOMAIN of : of[s] = b}
           IN  a \subseteq Streams /\ IsFiniteSet(a) /\ Cardinality(a) <= config.sizes[b]
<1> DEFINE a == {s \in DOMAIN of : of[s] = b}
           n == config.sizes[b]
<1>1. a \subseteq Streams /\ IsFiniteSet(a) /\ Cardinality(a) \in Nat /\ n \in Nat
  <2>1. a \subseteq Streams
    BY DEF Assignment, OfMaps
  <2> QED BY <2>1, Sizes, TrackerAssumption, FS_Subset, FS_CardinalityType
<1>2. CASE config.fixed # <<>>
  <2>1. a \subseteq config.fixed[b]
    BY <1>2 DEF Assignment
  <2>2. config.fixed[b] \subseteq Streams /\ Cardinality(config.fixed[b]) <= n
    BY <1>2, Sizes
  <2>3. IsFiniteSet(config.fixed[b])
    BY <2>2, TrackerAssumption, FS_Subset
  <2>4. Cardinality(config.fixed[b]) \in Nat /\ Cardinality(a) <= Cardinality(config.fixed[b])
    BY <2>1, <2>3, FS_Subset, FS_CardinalityType
  <2> HIDE DEF a, n
  <2> QED BY <1>1, <2>2, <2>4 DEF a, n
<1>3. CASE config.fixed = <<>>
  <2> DEFINE D == DOMAIN alloc[b]
             I == 0 .. (n - 1)
             stream == [i \in D |-> alloc[b][i]]
  <2>1. /\ D \subseteq I
        /\ \A i \in D : alloc[b][i] \in a
        /\ \A s \in a : \E i \in D : alloc[b][i] = s
    BY <1>3 DEF Assignment, PlacesOf
  <2>2. IsFiniteSet(I) /\ Cardinality(I) = n
    BY Sizes
  <2>3. IsFiniteSet(D) /\ Cardinality(D) \in Nat /\ Cardinality(D) <= n
    BY <2>1, <2>2, FS_Subset, FS_CardinalityType
  <2>4. stream \in Surjection(D, a)
    BY <2>1 DEF Surjection
  <2> HIDE DEF D, a, stream, n
  <2>5. Cardinality(a) <= Cardinality(D)
    BY <2>3, <2>4, FS_Surjection
  <2> QED BY <1>1, <2>3, <2>5 DEF a, n
<1> QED BY <1>1, <1>2, <1>3

\* What is known of the sub-batch a stream that has no place yet is assigned to.
LEMMA LeastLoadedHasRoom ==
    ASSUME config \in Configs, NEW alloc, WithRoom(alloc) # {},
           \A b \in Subs : DOMAIN alloc[b] \subseteq 0 .. (config.sizes[b] - 1)
    PROVE  LeastLoaded(alloc) \in WithRoom(alloc)
<1> DEFINE load(d) == Cardinality(DOMAIN alloc[d])
           W == WithRoom(alloc)
           loads == {load(d) : d \in W}
<1>1. W \subseteq Subs /\ W \subseteq Nat /\ W # {}
  BY Sizes DEF WithRoom
<1>2. \A d \in W : load(d) \in Nat
  <2> SUFFICES ASSUME NEW d \in W PROVE load(d) \in Nat
    OBVIOUS
  <2>1. d \in Subs
    BY <1>1
  <2>2. IsFiniteSet(0 .. (config.sizes[d] - 1))
    BY <2>1, Sizes
  <2>3. IsFiniteSet(DOMAIN alloc[d])
    BY <2>1, <2>2, FS_Subset
  <2> QED BY <2>3, FS_CardinalityType
<1>3. PICK m \in loads : \A l \in loads : m <= l
  <2>1. loads \in SUBSET Nat /\ loads # {}
    BY <1>1, <1>2
  <2> HIDE DEF loads
  <2> QED BY <2>1, LeastNatural
<1> DEFINE T == {d \in W : load(d) = m}
<1>4. PICK b \in T : \A c \in T : b <= c
  <2>1. T \in SUBSET Nat /\ T # {}
    BY <1>1, <1>3
  <2> HIDE DEF T
  <2> QED BY <2>1, LeastNatural
<1>5. b \in W /\ \A c \in W : load(b) < load(c) \/ (load(b) = load(c) /\ b <= c)
  <2> SUFFICES ASSUME NEW c \in W PROVE load(b) < load(c) \/ (load(b) = load(c) /\ b <= c)
    BY <1>4
  <2>1. load(b) = m /\ m \in Nat /\ load(c) \in Nat /\ m <= load(c) /\ (load(c) = m => b <= c)
    BY <1>2, <1>3, <1>4
  <2> HIDE DEF load
  <2> QED BY <2>1
<1> HIDE DEF load, W
<1>6. LeastLoaded(alloc) =
        CHOOSE d \in W : \A c \in W : load(d) < load(c) \/ (load(d) = load(c) /\ d <= c)
  BY DEF LeastLoaded, W, load
<1>7. LeastLoaded(alloc) \in W
  BY <1>5, <1>6
<1> QED BY <1>7 DEF W

\* ... and of the place it gets there.
LEMMA FreeIndexIsFree ==
    ASSUME config \in Configs, NEW alloc, NEW b \in WithRoom(alloc),
           DOMAIN alloc[b] \subseteq 0 .. (config.sizes[b] - 1)
    PROVE  FreeIndex(alloc, b) \in 0 .. (config.sizes[b] - 1) \ DOMAIN alloc[b]
<1> DEFINE n == config.sizes[b]
           D == DOMAIN alloc[b]
           I == 0 .. (n - 1)
           free == I \ D
<1>1. b \in Subs /\ Cardinality(D) < n
  BY DEF WithRoom
<1>2. n \in Nat /\ IsFiniteSet(I) /\ Cardinality(I) = n /\ D \subseteq I
  BY <1>1, Sizes
<1>3. free \in SUBSET Nat /\ free # {}
  <2>1. D # I
    BY <1>1, <1>2
  <2>2. I \subseteq Nat
    OBVIOUS
  <2> HIDE DEF I, D
  <2> QED BY <1>2, <2>1, <2>2
<1>4. PICK i \in free : \A j \in free : i <= j
  <2> HIDE DEF free
  <2> QED BY <1>3, LeastNatural
<1>5. i \in I /\ i \notin D /\ \A j \in 0 .. (i - 1) : j \in D
  BY <1>2, <1>4
<1>6. FreeIndex(alloc, b) = CHOOSE k \in I : k \notin D /\ \A j \in 0 .. (k - 1) : j \in D
  BY DEF FreeIndex
<1> HIDE DEF I, D
<1>7. FreeIndex(alloc, b) \in I \ D
  BY <1>5, <1>6
<1> QED BY <1>7 DEF I, D

\* What the mapping of a batch's streams starts from and gets to: the assignments there are
\* already stay.
Mappings ==
    {m \in [ok : BOOLEAN, of : OfMaps, slots : SlotMaps] :
        /\ Assignment(m.of, m.slots)
        /\ \A s \in DOMAIN subBatchOf : s \in DOMAIN m.of /\ m.of[s] = subBatchOf[s]}

\* Entering a stream in a map of streams.
LEMMA EnteredOf ==
    ASSUME NEW of \in OfMaps, NEW s \in Streams, NEW b \in Subs
    PROVE  /\ Entered(of, s, b) \in OfMaps
           /\ DOMAIN Entered(of, s, b) = DOMAIN of \cup {s}
           /\ Entered(of, s, b)[s] = b
           /\ \A t \in DOMAIN of \ {s} : Entered(of, s, b)[t] = of[t]
<1>1. PICK D \in SUBSET Streams : of \in [D -> Subs]
  BY DEF OfMaps
<1>2. D \cup {s} \in SUBSET Streams
  OBVIOUS
<1>3. Entered(of, s, b) \in [D \cup {s} -> Subs]
  BY <1>1 DEF Entered
<1> QED BY <1>1, <1>2, <1>3 DEF Entered, OfMaps

\* Mapping one stream keeps the assignment in order.
LEMMA MapStreamKeeps ==
    ASSUME config \in Configs, NEW m \in Mappings, NEW s \in Streams
    PROVE  MapStream(m, s) \in Mappings
<1>1. /\ m \in [ok : BOOLEAN, of : OfMaps, slots : SlotMaps]
      /\ Assignment(m.of, m.slots)
      /\ \A t \in DOMAIN subBatchOf : t \in DOMAIN m.of /\ m.of[t] = subBatchOf[t]
  BY DEF Mappings
<1>2. CASE ~m.ok \/ s \in DOMAIN m.of
  BY <1>2 DEF MapStream
<1>3. CASE MapStream(m, s) = [m EXCEPT !.ok = FALSE]
  <2>1. /\ MapStream(m, s) \in [ok : BOOLEAN, of : OfMaps, slots : SlotMaps]
        /\ MapStream(m, s).of = m.of /\ MapStream(m, s).slots = m.slots
    BY <1>1, <1>3
  <2> QED BY <1>1, <2>1 DEF Mappings
<1>4. ASSUME m.ok, s \notin DOMAIN m.of, config.fixed # <<>>, \E b \in Subs : s \in config.fixed[b]
      PROVE  MapStream(m, s) \in Mappings
  <2> DEFINE b == CHOOSE c \in Subs : s \in config.fixed[c]
  <2>1. b \in Subs /\ s \in config.fixed[b]
    BY <1>4
  <2>2. MapStream(m, s) = [m EXCEPT !.of = Entered(@, s, b)]
    BY <1>4 DEF MapStream
  <2> HIDE DEF b
  <2> DEFINE of == Entered(m.of, s, b)
  <2>3. /\ of \in OfMaps /\ DOMAIN of = DOMAIN m.of \cup {s} /\ of[s] = b
        /\ \A t \in DOMAIN m.of \ {s} : of[t] = m.of[t]
    <3>1. m.of \in OfMaps
      BY <1>1
    <3> QED BY <2>1, <3>1, EnteredOf
  <2>4. MapStream(m, s) = [ok |-> m.ok, of |-> of, slots |-> m.slots]
    BY <1>1, <2>2
  <2> HIDE DEF of
  <2>5. Assignment(of, m.slots)
    BY <1>1, <1>4, <2>1, <2>3 DEF Assignment
  <2>6. \A t \in DOMAIN subBatchOf : t \in DOMAIN of /\ of[t] = subBatchOf[t]
    BY <1>1, <1>4, <2>3
  <2> QED BY <1>1, <2>3, <2>4, <2>5, <2>6 DEF Mappings
<1>5. ASSUME m.ok, s \notin DOMAIN m.of, config.fixed = <<>>, WithRoom(m.slots) # {}
      PROVE  MapStream(m, s) \in Mappings
  <2> DEFINE b == LeastLoaded(m.slots)
             i == FreeIndex(m.slots, b)
             of == Entered(m.of, s, b)
             places == Entered(m.slots[b], i, s)
             alloc == [m.slots EXCEPT ![b] = places]
  <2>1. \A c \in Subs : PlacesOf(m.of, m.slots[c], c)
    BY <1>1, <1>5 DEF Assignment
  <2>2. \A c \in Subs : DOMAIN m.slots[c] \subseteq 0 .. (config.sizes[c] - 1)
    BY <2>1 DEF PlacesOf
  <2>3. b \in WithRoom(m.slots)
    BY <1>5, <2>2, LeastLoadedHasRoom
  <2>4. b \in Subs
    BY <2>3 DEF WithRoom
  <2> HIDE DEF b
  <2>5. i \in 0 .. (config.sizes[b] - 1) \ DOMAIN m.slots[b]
    BY <2>2, <2>3, <2>4, FreeIndexIsFree
  <2>6. MapStream(m, s) = [m EXCEPT !.of = of, !.slots[b] = places]
    BY <1>1, <1>5 DEF MapStream, b
  <2> HIDE DEF i
  <2>7. /\ of \in OfMaps /\ DOMAIN of = DOMAIN m.of \cup {s} /\ of[s] = b
        /\ \A t \in DOMAIN m.of \ {s} : of[t] = m.of[t]
    BY <1>1, <2>4, EnteredOf
  <2>8. MapStream(m, s) = [ok |-> m.ok, of |-> of, slots |-> alloc]
    BY <1>1, <2>6
  <2> HIDE DEF of
  <2>9. m.slots \in SlotMaps
    BY <1>1
  <2>10. /\ DOMAIN places = DOMAIN m.slots[b] \cup {i} /\ places[i] = s
         /\ \A j \in DOMAIN m.slots[b] : j # i /\ places[j] = m.slots[b][j]
    BY <2>5 DEF Entered
  <2>11. places \in UNION {[D -> Streams] : D \in SUBSET Nat}
    <3>1. m.slots[b] \in UNION {[D -> Streams] : D \in SUBSET Nat}
      BY <2>4, <2>9 DEF SlotMaps
    <3>2. PICK D \in SUBSET Nat : m.slots[b] \in [D -> Streams]
      BY <3>1
    <3>3. D \cup {i} \in SUBSET Nat
      BY <2>5
    <3>4. places \in [D \cup {i} -> Streams]
      BY <3>2 DEF Entered
    <3> QED BY <3>3, <3>4
  <2> HIDE DEF places
  <2>12. alloc \in SlotMaps /\ alloc[b] = places /\ \A c \in Subs \ {b} : alloc[c] = m.slots[c]
    BY <2>4, <2>9, <2>11 DEF SlotMaps
  <2> HIDE DEF alloc
  <2>13. ASSUME NEW c \in Subs PROVE PlacesOf(of, alloc[c], c)
    <3>1. CASE c # b
      <4>1. alloc[c] = m.slots[c]
        BY <2>12, <3>1
      <4>2. \A j \in DOMAIN m.slots[c] : m.slots[c][j] \in DOMAIN m.of \ {s}
        BY <1>5, <2>1 DEF PlacesOf
      <4> QED BY <2>1, <2>7, <4>1, <4>2 DEF PlacesOf
    <3>2. CASE c = b
      <4>1. \A j \in DOMAIN m.slots[b] : m.slots[b][j] \in DOMAIN m.of \ {s}
        BY <1>5, <2>1, <2>4 DEF PlacesOf
      <4>2. DOMAIN places \subseteq 0 .. (config.sizes[b] - 1)
        BY <2>2, <2>4, <2>5, <2>10
      <4>3. \A j \in DOMAIN places : places[j] \in DOMAIN of /\ of[places[j]] = b
        BY <2>1, <2>4, <2>7, <2>10, <4>1 DEF PlacesOf
      <4>4. \A j, k \in DOMAIN places : places[j] = places[k] => j = k
        BY <2>1, <2>4, <2>10, <4>1 DEF PlacesOf
      <4> QED BY <2>12, <3>2, <4>2, <4>3, <4>4 DEF PlacesOf
    <3> QED BY <3>1, <3>2
  <2>14. ASSUME NEW t \in DOMAIN of PROVE \E j \in DOMAIN alloc[of[t]] : alloc[of[t]][j] = t
    <3>1. CASE t = s
      BY <2>7, <2>10, <2>12, <3>1
    <3>2. CASE t # s
      <4>1. t \in DOMAIN m.of /\ of[t] = m.of[t]
        BY <2>7, <3>2
      <4>2. PICK j \in DOMAIN m.slots[of[t]] : m.slots[of[t]][j] = t
        BY <1>1, <1>5, <4>1 DEF Assignment
      <4>3. of[t] \in Subs
        BY <2>7 DEF OfMaps
      <4>4. CASE of[t] = b
        BY <2>10, <2>12, <4>2, <4>4
      <4>5. CASE of[t] # b
        BY <2>12, <4>2, <4>3, <4>5
      <4> QED BY <4>4, <4>5
    <3> QED BY <3>1, <3>2
  <2>15. Assignment(of, alloc)
    BY <1>5, <2>7, <2>12, <2>13, <2>14 DEF Assignment
  <2>16. \A t \in DOMAIN subBatchOf : t \in DOMAIN of /\ of[t] = subBatchOf[t]
    BY <1>1, <1>5, <2>7
  <2> QED BY <1>1, <2>7, <2>8, <2>12, <2>15, <2>16 DEF Mappings
<1> QED BY <1>2, <1>3, <1>4, <1>5 DEF MapStream

\* ... and so does mapping all streams of a batch.
LEMMA MapStreamsKeeps ==
    ASSUME config \in Configs, AssignmentInv, NEW lists \in Seq(SUBSET Streams)
    PROVE  MapStreams(lists) \subseteq Mappings
<1> DEFINE ss == [k \in DOMAIN lists |-> Ascending(lists[k])]
           order == FlattenSeq(ss)
           n == Len(order)
           first == [ok |-> TRUE, of |-> subBatchOf, slots |-> slots]
           V == SUBSET Mappings
           step == [k \in 1 .. n |-> [M \in V |-> {MapStream(m, order[k]) : m \in M}]]
           values(f) == [k \in 0 .. n |-> IF k = 0 THEN {first}
                                          ELSE {MapStream(m, order[k]) : m \in f[k - 1]}]
           maps == CHOOSE f : f = values(f)
<1>1. order \in Seq(Streams) /\ n \in Nat
  <2>1. ASSUME NEW k \in DOMAIN lists PROVE Ascending(lists[k]) \in Seq(Streams)
    <3>1. lists[k] \in SUBSET Streams /\ lists[k] \in SUBSET Nat /\ IsFiniteSet(lists[k])
      <4> DEFINE l == lists[k]
      <4>1. l \in SUBSET Streams
        OBVIOUS
      <4> HIDE DEF l
      <4>2. l \in SUBSET Nat /\ IsFiniteSet(l)
        BY <4>1, TrackerAssumption, FS_Subset
      <4> QED BY <4>1, <4>2 DEF l
    <3>2. /\ Cardinality(lists[k]) \in Nat
          /\ Ascending(lists[k]) \in [1 .. Cardinality(lists[k]) -> lists[k]]
      BY <3>1, AscendingMembers
    <3> QED BY <3>1, <3>2
  <2>2. Len(lists) \in Nat /\ ss \in [1 .. Len(lists) -> Seq(Streams)]
    BY <2>1
  <2> HIDE DEF ss
  <2>3. order \in Seq(Streams)
    BY <2>2, FlattenedType
  <2> QED BY <2>3
<1>2. MapStreams(lists) = maps[n]
  BY DEF MapStreams
<1> HIDE DEF order
<1>3. first \in Mappings
  BY DEF AssignmentInv, Assignment, Mappings
<1>4. ASSUME NEW k \in 1 .. n, NEW M \in V
      PROVE  {MapStream(m, order[k]) : m \in M} \in V
  <2>1. order[k] \in Streams
    BY <1>1
  <2> QED BY <2>1, MapStreamKeeps
<1>5. Steps(V, n, step)
  BY <1>4 DEF Steps
<1>6. {first} \in V
  BY <1>3
<1>7. \A k \in 1 .. n, M \in V : step[k][M] = {MapStream(m, order[k]) : m \in M}
  OBVIOUS
<1> HIDE DEF step, V, n, first
<1>8. PICK g : Follows(V, {first}, n, step, g)
  BY <1>1, <1>5, <1>6, Recursion
<1>9. g = values(g)
  <2>1. g \in [0 .. n -> V] /\ g[0] = {first}
    BY <1>8 DEF Follows
  <2>2. ASSUME NEW k \in 0 .. n, k # 0
        PROVE  g[k] = {MapStream(m, order[k]) : m \in g[k - 1]}
    <3>1. k \in 1 .. n /\ k - 1 \in 0 .. n
      BY <1>1, <2>2
    <3>2. g[k] = step[k][g[k - 1]] /\ g[k - 1] \in V
      BY <1>8, <3>1 DEF Follows
    <3> QED BY <1>7, <3>1, <3>2
  <2> QED BY <2>1, <2>2
<1>10. maps = values(maps)
  BY <1>9
<1> HIDE DEF maps
<1> DEFINE S == {k \in Nat : k \in 0 .. n => maps[k] \in V}
<1>11. 0 \in S
  BY <1>1, <1>6, <1>10
<1>12. ASSUME NEW k \in 0 .. (n - 1), k \in S PROVE k + 1 \in S
  <2>1. k + 1 \in 1 .. n /\ k + 1 \in 0 .. n /\ k + 1 # 0 /\ (k + 1) - 1 = k /\ k \in 0 .. n
        /\ k + 1 \in Nat
    BY <1>1
  <2>2. maps[k + 1] = {MapStream(m, order[k + 1]) : m \in maps[k]}
    BY <1>10, <2>1
  <2>3. maps[k + 1] \in V
    BY <1>4, <1>12, <2>1, <2>2
  <2> QED BY <2>1, <2>3
<1> HIDE DEF S
<1>13. \A k \in 0 .. n : k \in S
  BY <1>1, <1>11, <1>12, SetInduction
<1>14. n \in S /\ n \in 0 .. n
  BY <1>1, <1>13
<1> QED BY <1>2, <1>14 DEF S, V

\* An assignment that is in order for the configuration stays in order with it.
LEMMA AssignmentCarried ==
    ASSUME UNCHANGED config, Assignment(subBatchOf', slots') PROVE AssignmentInv'
  BY DEF AssignmentInv, Assignment, PlacesOf, OfMaps, SlotMaps, Subs

\* What Dispatch does to the assignment.
LEMMA DispatchAssigns ==
    ASSUME CoreTypes, Current \in Batches, AssignmentInv, Dispatch
    PROVE  /\ AssignmentInv'
           /\ \A b \in Subs : /\ AssignedTo(b) \subseteq AssignedTo(b)'
                              /\ IsFiniteSet(AssignedTo(b)')
                              /\ Cardinality(AssignedTo(b)') <= config.sizes[b]
<1>1. items[Current].lists \in Seq(SUBSET Streams)
  BY ListsTypes
<1>2. PICK map \in MapStreams(items[Current].lists) : subBatchOf' = map.of /\ slots' = map.slots
  BY DEF Dispatch
<1>3. config \in Configs /\ UNCHANGED config
  BY DEF CoreTypes, Dispatch
<1>4. map \in Mappings
  BY <1>1, <1>2, <1>3, MapStreamsKeeps
<1>5. /\ Assignment(map.of, map.slots)
      /\ \A s \in DOMAIN subBatchOf : s \in DOMAIN map.of /\ map.of[s] = subBatchOf[s]
  BY <1>4 DEF Mappings
<1>6. AssignmentInv'
  BY <1>2, <1>3, <1>5, AssignmentCarried
<1>7. ASSUME NEW b \in Subs
      PROVE  /\ AssignedTo(b) \subseteq AssignedTo(b)'
             /\ IsFiniteSet(AssignedTo(b)')
             /\ Cardinality(AssignedTo(b)') <= config.sizes[b]
  <2>1. AssignedTo(b)' = {s \in DOMAIN map.of : map.of[s] = b}
    BY <1>2 DEF AssignedTo
  <2>2. AssignedTo(b) \subseteq AssignedTo(b)'
    BY <1>5, <2>1 DEF AssignedTo
  <2> QED BY <1>3, <1>5, <2>1, <2>2, AssignmentFits
<1> QED BY <1>6, <1>7

\* What removeSource does to stream s in sub-batch b.
GivesUp(s, b) ==
    /\ s \in DOMAIN subBatchOf /\ b = subBatchOf[s]
    /\ subBatchOf' = [t \in DOMAIN subBatchOf \ {s} |-> subBatchOf[t]]
    /\ slots' = [slots EXCEPT ![b] = [i \in {j \in DOMAIN @ : @[j] # s} |-> @[i]]]
    /\ reqQueue' = RemovalRequest(b, s)
    /\ worker' = NotifyWorkers({b})
    /\ UNCHANGED lib

\* What an event does to the assignment.
LEMMA EventAssigns ==
    ASSUME HandleEvent
    PROVE  \/ UNCHANGED <<subBatchOf, slots, reqQueue, worker>> /\ (Whole \/ UNCHANGED lib)
           \/ \E s \in DOMAIN subBatchOf : GivesUp(s, subBatchOf[s])
<1> DEFINE e == items[Current]
<1>1. CASE e.what \notin Removal \/ Whole
  BY <1>1 DEF HandleEvent, RemoveWhole, dispatchVars
<1>2. ASSUME e.what \in Removal, ~Whole
      PROVE  \/ UNCHANGED <<subBatchOf, slots, reqQueue, worker>> /\ UNCHANGED lib
             \/ \E s \in DOMAIN subBatchOf : GivesUp(s, subBatchOf[s])
  <2> DEFINE s == e.stream
  <2>1. RemoveFromSub(s, e.what # "stream-reset") /\ (s \in offsets => s \in DOMAIN subBatchOf)
    BY <1>2 DEF HandleEvent, RemovalFails
  <2> HIDE DEF e
  <2>2. CASE s \notin offsets
    BY <2>1, <2>2 DEF RemoveFromSub
  <2>3. CASE s \in offsets
    <3>1. s \in DOMAIN subBatchOf
      BY <2>1, <2>3
    <3>2. GivesUp(s, subBatchOf[s])
      BY <2>1, <2>3, <3>1 DEF RemoveFromSub, GivesUp
    <3> QED BY <3>1, <3>2
  <2> QED BY <2>2, <2>3
<1> QED BY <1>1, <1>2

\* A stream that gives up its place leaves the assignment in order.
LEMMA GivingUpAssigns ==
    ASSUME AssignmentInv, NEW s \in DOMAIN subBatchOf, GivesUp(s, subBatchOf[s]), UNCHANGED config
    PROVE  AssignmentInv'
<1> DEFINE b == subBatchOf[s]
           of == [t \in DOMAIN subBatchOf \ {s} |-> subBatchOf[t]]
           others == {j \in DOMAIN slots[b] : slots[b][j] # s}
           places == [i \in others |-> slots[b][i]]
           alloc == [slots EXCEPT ![b] = places]
<1>1. subBatchOf \in OfMaps /\ slots \in SlotMaps
  BY DEF AssignmentInv, Assignment
<1>2. b \in Subs
  BY <1>1 DEF OfMaps
<1>3. subBatchOf' = of /\ slots' = alloc
  BY DEF GivesUp
<1>4. of \in OfMaps
  <2>1. PICK D \in SUBSET Streams : subBatchOf \in [D -> Subs]
    BY <1>1 DEF OfMaps
  <2>2. D \ {s} \in SUBSET Streams /\ of \in [D \ {s} -> Subs]
    BY <2>1
  <2> QED BY <2>2 DEF OfMaps
<1>5. places \in UNION {[D -> Streams] : D \in SUBSET Nat}
  <2>1. slots[b] \in UNION {[D -> Streams] : D \in SUBSET Nat}
    BY <1>1, <1>2 DEF SlotMaps
  <2>2. PICK D \in SUBSET Nat : slots[b] \in [D -> Streams]
    BY <2>1
  <2>3. others \in SUBSET Nat /\ places \in [others -> Streams]
    BY <2>2
  <2> QED BY <2>3
<1>6. /\ DOMAIN of = DOMAIN subBatchOf \ {s}
      /\ \A t \in DOMAIN of : of[t] = subBatchOf[t]
  OBVIOUS
<1>7. /\ DOMAIN places = others
      /\ \A i \in others : places[i] = slots[b][i]
  OBVIOUS
<1> HIDE DEF of, places
<1>8. alloc \in SlotMaps /\ alloc[b] = places /\ \A c \in Subs \ {b} : alloc[c] = slots[c]
  BY <1>1, <1>2, <1>5 DEF SlotMaps
<1> HIDE DEF alloc, b
<1>9. config.fixed # <<>> => \A t \in DOMAIN of : t \in config.fixed[of[t]]
  BY <1>6 DEF AssignmentInv, Assignment
<1>10. ASSUME config.fixed = <<>>, NEW c \in Subs PROVE PlacesOf(of, alloc[c], c)
  <2>1. PlacesOf(subBatchOf, slots[c], c)
    BY <1>10 DEF AssignmentInv, Assignment
  <2>2. CASE c # b
    BY <1>6, <1>8, <2>1, <2>2 DEF PlacesOf, b
  <2>3. CASE c = b
    BY <1>6, <1>7, <1>8, <2>1, <2>3 DEF PlacesOf
  <2> QED BY <2>2, <2>3
<1>11. ASSUME config.fixed = <<>>, NEW t \in DOMAIN of
       PROVE  \E j \in DOMAIN alloc[of[t]] : alloc[of[t]][j] = t
  <2>1. t \in DOMAIN subBatchOf /\ t # s /\ of[t] = subBatchOf[t]
    BY <1>6
  <2>2. PICK j \in DOMAIN slots[of[t]] : slots[of[t]][j] = t
    BY <1>11, <2>1 DEF AssignmentInv, Assignment
  <2>3. of[t] \in Subs
    BY <1>4 DEF OfMaps
  <2>4. CASE of[t] = b
    BY <1>7, <1>8, <2>1, <2>2, <2>4
  <2>5. CASE of[t] # b
    BY <1>8, <2>2, <2>3, <2>5
  <2> QED BY <2>4, <2>5
<1>12. Assignment(of, alloc)
  BY <1>4, <1>8, <1>9, <1>10, <1>11 DEF Assignment
<1> QED BY <1>3, <1>12, AssignmentCarried

\* No stream is assigned at the start and after the maps were cleared.
LEMMA NothingAssigned == Assignment(<<>>, [b \in Subs |-> <<>>])
<1>1. <<>> \in [{} -> Subs] /\ <<>> \in [{} -> Streams] /\ DOMAIN <<>> = {}
  OBVIOUS
<1>2. <<>> \in OfMaps
  BY <1>1 DEF OfMaps
<1>3. <<>> \in UNION {[D -> Streams] : D \in SUBSET Nat}
  BY <1>1
<1>4. [b \in Subs |-> <<>>] \in SlotMaps
  BY <1>3 DEF SlotMaps
<1>5. \A b \in Subs : PlacesOf(<<>>, <<>>, b)
  BY <1>1 DEF PlacesOf
<1> QED BY <1>1, <1>2, <1>4, <1>5 DEF Assignment

\* Every step keeps the assignment in order.
LEMMA StepAssignment == ASSUME TrackerInv, AssignmentInv, Next PROVE AssignmentInv'
<1> USE DEF TrackerInv
<1>1. CASE UNCHANGED <<config, subBatchOf, slots>>
  BY <1>1 DEF AssignmentInv, Assignment, PlacesOf, OfMaps, SlotMaps, Subs
<1>2. CASE Dispatch
  <2>1. Current \in Batches
    BY <1>2 DEF Dispatch, StreamerInv
  <2> QED BY <1>2, <2>1, DispatchAssigns
<1>3. CASE HandleEvent
  <2>1. UNCHANGED config
    BY <1>3 DEF HandleEvent
  <2> QED BY <1>1, <1>3, <2>1, EventAssigns, GivingUpAssigns
<1>4. CASE ClearQueues
  <2>1. UNCHANGED config /\ subBatchOf' = <<>> /\ slots' = [b \in Subs |-> <<>>]
    BY <1>4 DEF ClearQueues
  <2> QED BY <2>1, NothingAssigned, AssignmentCarried
<1>5. CASE \E lists \in config.lists : SubmitBatch(lists)
  BY <1>1, <1>5 DEF SubmitBatch, dispatchVars
<1>6. CASE \E e \in Events : SendEvent(e)
  BY <1>1, <1>6 DEF SendEvent, dispatchVars
<1>7. CASE Submission
  BY <1>1, <1>2, <1>7 DEF Submission, Convert, ConvertFails, AlreadyActive, Register, Enqueue,
                          dispatchVars
<1>8. CASE EventStep
  BY <1>1, <1>3, <1>8 DEF EventStep, Flushed, PushMarker, EventDropped, RemovalError, dispatchVars
<1>9. CASE ProcStep
  BY <1>1, <1>9 DEF ProcStep, ProcTake, ProcLibrary, ProcErase, ProcComplete, ProcReturnBuffer,
                    ProcEnds, dispatchVars
<1>10. CASE OutStep \/ (\E n \in DOMAIN items : Released(n)) \/ Stop
  BY <1>1, <1>10 DEF OutStep, OutTest, OutWaits, OutWokenInVain, OutTake, OutPush, OutSignal,
                     Released, Stop, dispatchVars, threadVars
<1>11. CASE \E b \in Subs : SubStep(b)
  BY <1>1, <1>11 DEF SubStep, SubTest, SubWaits, SubWoken, SubTake, SubRemove, SubLibrary,
                     SubComplete, SubRecover, SubEnds, dispatchVars
<1>12. CASE AppStep
  BY <1>1, <1>4, <1>12 DEF AppStep, DestroyPool, StopSub, Joined, EndLoop, Stopped, dispatchVars,
                           threadVars
<1> QED BY <1>5, <1>6, <1>7, <1>8, <1>9, <1>10, <1>11, <1>12 DEF Next

--------------------------------------------------------------------------------
(* The streams a context keeps *)

\* Before any request it keeps what it keeps.
LEMMA AfterNone == ASSUME NEW L \in SUBSET Streams, NEW q PROVE After(L, q, 0) = L
<1>1. \A j \in 1 .. 0 : FALSE
  OBVIOUS
<1> QED BY <1>1 DEF After

\* Only the requests up to the k-th count.
LEMMA AfterSame ==
    ASSUME NEW L, NEW q, NEW r, NEW k \in Nat, \A j \in 1 .. k : q[j] = r[j]
    PROVE  After(L, q, k) = After(L, r, k)
<1>1. \A j \in 1 .. k : \A i \in (j + 1) .. k : i \in 1 .. k
  OBVIOUS
<1> QED BY <1>1 DEF After

\* A context that keeps less at first keeps no more later.
LEMMA AfterFewer ==
    ASSUME NEW L, NEW M, L \subseteq M, NEW q, NEW k
    PROVE  After(L, q, k) \subseteq After(M, q, k)
  BY DEF After

\* When the thread has taken the first request, that one is no longer in the queue.
LEMMA AfterTake ==
    ASSUME NEW q \in Seq(Request), q # <<>>, NEW L, NEW M, NEW k \in 0 .. (Len(q) - 1),
           M = IF Head(q).kind = "batch" THEN L \cup Head(q).frames ELSE L \ Head(q).frames
    PROVE  After(M, Tail(q), k) \subseteq After(L, q, k + 1)
<1> SUFFICES ASSUME NEW s \in After(M, Tail(q), k)
             PROVE  s \in After(L, q, k + 1)
  OBVIOUS
<1> DEFINE t == Tail(q)
           r == q[1]
<1>1. /\ r \in Request /\ Head(q) = r /\ k \in Nat
      /\ \A j \in 1 .. k : t[j] = q[j + 1]
  <2>1. Len(q) \in Nat /\ DOMAIN t = 1 .. (Len(q) - 1) /\ r \in Request /\ Head(q) = r
        /\ \A j \in DOMAIN t : t[j] = q[j + 1]
    BY HeadAndTail
  <2>2. \A j \in 1 .. k : j \in DOMAIN t
    BY <2>1
  <2> QED BY <2>1, <2>2
<1>2. r.kind \in {"batch", "remove"} /\ s \in Streams
  BY <1>1 DEF Request, After
<1> HIDE DEF t, r
<1>3. \A j \in 2 .. (k + 1) : j - 1 \in 1 .. k /\ q[j] = t[j - 1]
  <2> SUFFICES ASSUME NEW j \in 2 .. (k + 1) PROVE j - 1 \in 1 .. k /\ q[j] = t[j - 1]
    OBVIOUS
  <2>1. j - 1 \in 1 .. k /\ (j - 1) + 1 = j
    BY <1>1
  <2> QED BY <1>1, <2>1
<1>4. CASE s \in M /\ \A j \in 1 .. k : ~Removes(t[j], s)
  <2>1. \A j \in 2 .. (k + 1) : ~Removes(q[j], s)
    BY <1>3, <1>4
  <2>2. CASE s \in L /\ ~Removes(r, s)
    <3>1. \A j \in 1 .. (k + 1) : j = 1 \/ j \in 2 .. (k + 1)
      BY <1>1
    <3>2. \A j \in 1 .. (k + 1) : ~Removes(q[j], s)
      BY <2>1, <2>2, <3>1 DEF r
    <3> QED BY <1>2, <2>2, <3>2 DEF After
  <2>3. CASE Adds(r, s)
    <3>1. 1 \in 1 .. (k + 1) /\ 1 + 1 = 2
      BY <1>1
    <3> QED BY <1>2, <2>1, <2>3, <3>1 DEF After, r
  <2>4. (s \in L /\ ~Removes(r, s)) \/ Adds(r, s)
    BY <1>1, <1>2, <1>4 DEF Adds, Removes
  <2> QED BY <2>2, <2>3, <2>4
<1>5. ASSUME NEW j \in 1 .. k, Adds(t[j], s), \A i \in (j + 1) .. k : ~Removes(t[i], s)
      PROVE  s \in After(L, q, k + 1)
  <2>1. j + 1 \in 1 .. (k + 1) /\ q[j + 1] = t[j]
    BY <1>1
  <2>2. ASSUME NEW i \in ((j + 1) + 1) .. (k + 1) PROVE ~Removes(q[i], s)
    <3>1. i \in 2 .. (k + 1) /\ i - 1 \in (j + 1) .. k
      BY <1>1
    <3> QED BY <1>3, <1>5, <3>1
  <2> QED BY <1>2, <1>5, <2>1, <2>2 DEF After
<1> QED BY <1>4, <1>5 DEF After, t

\* Requests for frames of the streams A, queued behind q.
LEMMA AfterQueued ==
    ASSUME NEW q \in Seq(Request), NEW r \in Seq(Request), NEW L, NEW A,
           \A j \in DOMAIN r : r[j].frames \subseteq A,
           After(L, q, Len(q)) \subseteq A,
           NEW k \in 0 .. Len(q \o r), k > Len(q)
    PROVE  After(L, q \o r, k) \subseteq A
<1> SUFFICES ASSUME NEW s \in After(L, q \o r, k) PROVE s \in A
  OBVIOUS
<1> DEFINE m == Len(q)
           a == q \o r
<1>1. /\ m \in Nat /\ k \in Nat /\ Len(r) \in Nat /\ Len(a) = m + Len(r)
      /\ \A j \in 1 .. m : a[j] = q[j]
      /\ \A j \in (m + 1) .. k : j - m \in DOMAIN r /\ a[j] = r[j - m]
  BY ConcatProperties
<1>2. s \in Streams /\ k > m
  BY DEF After
<1> HIDE DEF a, m
<1>3. CASE s \in L /\ \A j \in 1 .. k : ~Removes(a[j], s)
  <2>1. \A j \in 1 .. m : ~Removes(q[j], s)
    BY <1>1, <1>2, <1>3
  <2> QED BY <1>2, <1>3, <2>1 DEF After, m
<1>4. ASSUME NEW j \in 1 .. k, Adds(a[j], s), \A i \in (j + 1) .. k : ~Removes(a[i], s)
      PROVE  s \in A
  <2>1. CASE j <= m
    <3>1. j \in 1 .. m /\ Adds(q[j], s)
      BY <1>1, <1>4, <2>1
    <3>2. ASSUME NEW i \in (j + 1) .. m PROVE ~Removes(q[i], s)
      <4>1. i \in (j + 1) .. k /\ i \in 1 .. m
        BY <1>1, <1>2
      <4> QED BY <1>1, <1>4, <4>1
    <3>3. s \in After(L, q, m)
      BY <1>2, <3>1, <3>2 DEF After
    <3> QED BY <3>3 DEF m
  <2>2. CASE ~(j <= m)
    <3>1. j - m \in DOMAIN r /\ Adds(r[j - m], s)
      BY <1>1, <1>4, <2>2
    <3> QED BY <3>1 DEF Adds
  <2> QED BY <2>1, <2>2
<1> QED BY <1>3, <1>4 DEF After, a

\* The request to remove s, queued behind q.
LEMMA AfterRemoval ==
    ASSUME NEW q \in Seq(Request), NEW L, NEW s,
           NEW r \in Request, r.kind = "remove", s \in r.frames
    PROVE  After(L, Append(q, r), Len(q) + 1) \subseteq After(L, q, Len(q)) \ {s}
<1> SUFFICES ASSUME NEW t \in After(L, Append(q, r), Len(q) + 1)
             PROVE  t \in After(L, q, Len(q)) /\ t # s
  OBVIOUS
<1> DEFINE m == Len(q)
           a == Append(q, r)
<1>1. m \in Nat /\ a[m + 1] = r /\ \A j \in 1 .. m : a[j] = q[j]
  OBVIOUS
<1>2. t \in Streams
  BY DEF After
<1>3. Removes(a[m + 1], s) /\ ~Adds(a[m + 1], t)
  BY <1>1 DEF Removes, Adds
<1> HIDE DEF a, m
<1>4. CASE t \in L /\ \A j \in 1 .. (m + 1) : ~Removes(a[j], t)
  <2>1. m + 1 \in 1 .. (m + 1) /\ \A j \in 1 .. m : j \in 1 .. (m + 1)
    BY <1>1
  <2>2. t # s /\ \A j \in 1 .. m : ~Removes(q[j], t)
    BY <1>1, <1>3, <1>4, <2>1
  <2> QED BY <1>2, <1>4, <2>2 DEF After, m
<1>5. ASSUME NEW j \in 1 .. (m + 1), Adds(a[j], t), \A i \in (j + 1) .. (m + 1) : ~Removes(a[i], t)
      PROVE  t \in After(L, q, m) /\ t # s
  <2>1. j # m + 1
    BY <1>3, <1>5
  <2>2. j \in 1 .. m /\ m + 1 \in (j + 1) .. (m + 1)
        /\ \A i \in (j + 1) .. m : i \in 1 .. m /\ i \in (j + 1) .. (m + 1)
    BY <1>1, <2>1
  <2>3. t # s
    BY <1>3, <1>5, <2>2
  <2>4. Adds(q[j], t) /\ \A i \in (j + 1) .. m : ~Removes(q[i], t)
    BY <1>1, <1>5, <2>2
  <2> QED BY <1>2, <2>2, <2>3, <2>4 DEF After
<1> QED BY <1>4, <1>5 DEF After, a, m

\* What is known of the streams a context keeps, and of those in the hands of its thread.
LEMMA LoadedTypes ==
    ASSUME CoreTypes, RequestForms, ContextsInv, NEW b \in Subs
    PROVE  /\ lib[b] \in SUBSET Streams /\ Loaded(b) \in SUBSET Streams
           /\ LoadedAfter(b, 0) = Loaded(b)
           /\ \A S \in SUBSET Streams : IsFiniteSet(S) /\ Cardinality(S) \in Nat
           /\ \A k : LoadedAfter(b, k) \in SUBSET Streams
           /\ reqQueue[b] \in Seq(Request) /\ config.sizes[b] \in Nat
           /\ ContextInv(b)
<1>1. lib[b] \in SUBSET Streams
  BY DEF ContextsInv
<1>2. worker[b].at \in {"batch", "remove"} => worker[b].req.frames \in SUBSET Streams
  BY DEF RequestForms, Busy, Request
<1>3. Loaded(b) \in SUBSET Streams
  BY <1>1, <1>2 DEF Loaded
<1>4. \A S \in SUBSET Streams : IsFiniteSet(S) /\ Cardinality(S) \in Nat
  BY TrackerAssumption, FS_Subset, FS_CardinalityType
<1>5. \A k : LoadedAfter(b, k) \in SUBSET Streams
  BY DEF LoadedAfter, After
<1>6. LoadedAfter(b, 0) = Loaded(b)
  BY <1>3, AfterNone DEF LoadedAfter
<1>7. reqQueue[b] \in Seq(Request) /\ config.sizes[b] \in Nat
  BY Sizes DEF CoreTypes
<1> QED BY <1>1, <1>3, <1>4, <1>5, <1>6, <1>7 DEF ContextsInv

\* Of two sets of streams the smaller one has no more members.
LEMMA Smaller ==
    ASSUME NEW T \in SUBSET Streams, NEW S \in SUBSET T, NEW n \in Nat, Cardinality(T) <= n
    PROVE  Cardinality(S) <= n
<1>1. IsFiniteSet(T)
  BY TrackerAssumption, FS_Subset
<1>2. /\ Cardinality(S) \in Nat /\ Cardinality(T) \in Nat
      /\ Cardinality(S) <= Cardinality(T)
  BY <1>1, FS_Subset, FS_CardinalityType
<1> QED BY <1>2

\* The maps are in use.
InUse == app \notin {"join-output", "stopped"}

\* The thread of sub-batch b brings no new streams, the library works on what it was given.
Settles(b) ==
    /\ libError' \/ Loaded(b)' \subseteq Loaded(b)
    /\ reqQueue'[b] = reqQueue[b]
    /\ lib'[b] \subseteq lib[b] \/ (~libError /\ lib'[b] \subseteq Loaded(b))
    /\ libError => libError'
    /\ InUse' => InUse /\ AssignedTo(b) \subseteq AssignedTo(b)'

\* Such a step keeps the context in order.
LEMMA SettlesKeeps ==
    ASSUME CoreTypes, RequestForms, ContextsInv, UNCHANGED config, NEW b \in Subs, Settles(b)
    PROVE  ContextInv(b)'
<1>1. PICK n \in Nat : n = config.sizes[b]
  BY LoadedTypes
<1>2. Cardinality(lib'[b]) <= n
  <2>1. CASE lib'[b] \subseteq lib[b]
    BY <1>1, <2>1, LoadedTypes, Smaller DEF ContextInv
  <2>2. CASE ~libError /\ lib'[b] \subseteq Loaded(b)
    <3>1. 0 \in 0 .. Len(reqQueue[b])
      BY LoadedTypes
    <3>2. Cardinality(Loaded(b)) <= n
      BY <1>1, <2>2, <3>1, LoadedTypes DEF ContextInv
    <3> QED BY <2>2, <3>2, LoadedTypes, Smaller
  <2> QED BY <2>1, <2>2 DEF Settles
<1>3. ASSUME ~libError', NEW k \in 0 .. Len(reqQueue[b])
      PROVE  /\ LoadedAfter(b, k)' \subseteq LoadedAfter(b, k)
             /\ Cardinality(LoadedAfter(b, k)') <= n
  <2>1. LoadedAfter(b, k)' = After(Loaded(b)', reqQueue[b], k)
    BY DEF LoadedAfter, Settles
  <2>2. LoadedAfter(b, k)' \subseteq LoadedAfter(b, k)
    BY <1>3, <2>1, AfterFewer DEF LoadedAfter, Settles
  <2>3. Cardinality(LoadedAfter(b, k)) <= n
    BY <1>1, <1>3, LoadedTypes DEF ContextInv, Settles
  <2> QED BY <2>2, <2>3, LoadedTypes, Smaller
<1>4. ASSUME ~libError', InUse'
      PROVE  LoadedAfter(b, Len(reqQueue[b]))' \subseteq AssignedTo(b)'
  <2>1. PICK m \in 0 .. Len(reqQueue[b]) : m = Len(reqQueue[b])
    BY LoadedTypes
  <2>2. LoadedAfter(b, m)' \subseteq LoadedAfter(b, m)
    BY <1>3, <1>4
  <2>3. LoadedAfter(b, m) \subseteq AssignedTo(b)
    BY <1>4, <2>1, LoadedTypes DEF ContextInv, Settles, InUse
  <2>4. LoadedAfter(b, Len(reqQueue[b]))' = LoadedAfter(b, m)'
    BY <2>1 DEF Settles
  <2> QED BY <1>4, <2>2, <2>3, <2>4 DEF Settles
<1> QED BY <1>1, <1>2, <1>3, <1>4 DEF ContextInv, Settles, InUse

\* What is in the hands of a thread that does not move, or is only notified.
LEMMA LoadedSame ==
    ASSUME NEW b, lib'[b] = lib[b], worker'[b].req = worker[b].req,
           worker'[b].at # worker[b].at =>
               {worker[b].at, worker'[b].at} \cap {"batch", "remove"} = {}
    PROVE  Loaded(b)' = Loaded(b)
  BY DEF Loaded

\* Dispatch queues frames of the streams that are assigned by then.
LEMMA DispatchContexts ==
    ASSUME TrackerInv, AssignmentInv, ContextsInv, Dispatch
    PROVE  ContextsInv'
<1> USE DEF TrackerInv
<1>1. Current \in Batches /\ app = "play"
  BY DEF Dispatch, StreamerInv, PhasesInv
<1>2. PICK reqs \in [Subs -> Seq(Request)] :
          /\ \A b \in Subs : \A k \in DOMAIN reqs[b] :
              /\ reqs[b][k].kind = "batch" /\ reqs[b][k].n = Current /\ reqs[b][k].id = nextId
              /\ reqs[b][k].frames \subseteq {s \in DOMAIN subBatchOf' : subBatchOf'[s] = b}
          /\ reqQueue' = [b \in Subs |-> reqQueue[b] \o reqs[b]]
          /\ pending' = Entered(pending, nextId, [b \in Subs |-> Len(reqs[b])])
          /\ worker' = NotifyWorkers({b \in Subs : reqs[b] # <<>>})
          /\ nextId' \in {nextId, nextId + 1}
  BY <1>1, DispatchQueues, Zenon
<1>3. UNCHANGED <<config, lib, libError, app>>
  BY DEF Dispatch, libVars
<1>4. ASSUME NEW b \in Subs PROVE ContextInv(b)'
  <2>1. Loaded(b)' = Loaded(b)
    <3>1. /\ worker'[b].req = worker[b].req
          /\ worker'[b].at # worker[b].at => worker[b].at = "waiting" /\ worker'[b].at = "woken"
      BY <1>2, WakingWorkers
    <3> QED BY <1>3, <3>1, LoadedSame
  <2>2. /\ reqQueue[b] \in Seq(Request) /\ reqs[b] \in Seq(Request)
        /\ reqQueue'[b] = reqQueue[b] \o reqs[b]
        /\ Len(reqQueue'[b]) = Len(reqQueue[b]) + Len(reqs[b])
        /\ Len(reqQueue[b]) \in Nat /\ Len(reqs[b]) \in Nat
    BY <1>2, LoadedTypes, ConcatProperties
  <2>3. PICK A : A = AssignedTo(b)'
    OBVIOUS
  <2>4. AssignedTo(b) \subseteq A /\ IsFiniteSet(A) /\ Cardinality(A) <= config.sizes[b]
    BY <1>1, <2>3, DispatchAssigns
  <2>5. \A j \in DOMAIN reqs[b] : reqs[b][j].frames \subseteq A
    BY <1>2, <2>3 DEF AssignedTo
  <2>6. ASSUME ~libError, NEW k \in 0 .. Len(reqQueue'[b])
        PROVE  /\ Cardinality(LoadedAfter(b, k)') <= config.sizes[b]
               /\ k = Len(reqQueue'[b]) => LoadedAfter(b, k)' \subseteq A
    <3>1. LoadedAfter(b, k)' = After(Loaded(b), reqQueue'[b], k)
      BY <2>1 DEF LoadedAfter
    <3>2. LoadedAfter(b, Len(reqQueue[b])) \subseteq A
      BY <1>1, <2>4, <2>6, LoadedTypes DEF ContextInv
    <3>3. CASE k <= Len(reqQueue[b])
      <4>1. k \in 0 .. Len(reqQueue[b]) /\ k \in Nat
        BY <2>2, <3>3
      <4>2. \A j \in 1 .. k : reqQueue'[b][j] = reqQueue[b][j]
        BY <2>2, <3>3
      <4>3. LoadedAfter(b, k)' = LoadedAfter(b, k)
        BY <3>1, <4>1, <4>2, AfterSame DEF LoadedAfter
      <4>4. Cardinality(LoadedAfter(b, k)) <= config.sizes[b]
        BY <2>6, <4>1, LoadedTypes DEF ContextInv
      <4>5. k = Len(reqQueue'[b]) => k = Len(reqQueue[b])
        BY <2>2, <3>3
      <4> QED BY <3>2, <4>3, <4>4, <4>5
    <3>4. CASE k > Len(reqQueue[b])
      <4>1. LoadedAfter(b, k)' \subseteq A
        <5>1. After(Loaded(b), reqQueue[b], Len(reqQueue[b])) \subseteq A
          BY <3>2 DEF LoadedAfter
        <5>2. k \in 0 .. Len(reqQueue[b] \o reqs[b])
          BY <2>2
        <5>3. After(Loaded(b), reqQueue[b] \o reqs[b], k) \subseteq A
          BY <2>2, <2>5, <3>4, <5>1, <5>2, AfterQueued
        <5> QED BY <2>2, <3>1, <5>3
      <4>2. /\ Cardinality(LoadedAfter(b, k)') \in Nat /\ Cardinality(A) \in Nat
            /\ Cardinality(LoadedAfter(b, k)') <= Cardinality(A)
        BY <2>4, <4>1, FS_Subset, FS_CardinalityType
      <4>3. config.sizes[b] \in Nat
        BY LoadedTypes
      <4> QED BY <2>4, <4>1, <4>2, <4>3
    <3> QED BY <2>2, <3>3, <3>4
  <2>7. ~libError => LoadedAfter(b, Len(reqQueue[b]))' \subseteq A
    <3>1. PICK m \in 0 .. Len(reqQueue'[b]) : m = Len(reqQueue'[b])
      BY <2>2
    <3>2. LoadedAfter(b, Len(reqQueue[b]))' = LoadedAfter(b, m)'
      BY <3>1
    <3> QED BY <2>6, <3>1, <3>2
  <2>8. Cardinality(lib'[b]) <= config.sizes[b]
    BY <1>3, LoadedTypes DEF ContextInv
  <2> QED BY <1>3, <2>3, <2>6, <2>7, <2>8 DEF ContextInv
<1> QED BY <1>3, <1>4 DEF ContextsInv, Subs

\* A stream gives up its place and its thread is told behind what it was told before.
LEMMA GivingUpContexts ==
    ASSUME TrackerInv, AssignmentInv, ContextsInv, InUse, UNCHANGED <<config, libError, app>>,
           NEW s \in DOMAIN subBatchOf, GivesUp(s, subBatchOf[s])
    PROVE  ContextsInv'
<1> USE DEF TrackerInv
<1> DEFINE b == subBatchOf[s]
           r == [kind |-> "remove", n |-> 0, id |-> 0, frames |-> {s}]
<1>1. b \in Subs /\ s \in Streams
  BY DEF AssignmentInv, Assignment, OfMaps
<1>2. /\ reqQueue' = RemovalRequest(b, s) /\ worker' = NotifyWorkers({b}) /\ lib' = lib
      /\ subBatchOf' = [t \in DOMAIN subBatchOf \ {s} |-> subBatchOf[t]]
  BY DEF GivesUp
<1>3. PICK a \in Subs : a = b
  BY <1>1
<1> HIDE DEF b
<1>4. \A c \in Subs : Loaded(c)' = Loaded(c)
  <2> SUFFICES ASSUME NEW c \in Subs PROVE Loaded(c)' = Loaded(c)
    OBVIOUS
  <2>1. /\ worker'[c].req = worker[c].req
        /\ worker'[c].at # worker[c].at => worker[c].at = "waiting" /\ worker'[c].at = "woken"
    BY <1>2, WakingWorkers
  <2> QED BY <1>2, <2>1, LoadedSame
<1>5. /\ \A c \in Subs \ {a} : AssignedTo(c)' = AssignedTo(c) /\ reqQueue'[c] = reqQueue[c]
      /\ AssignedTo(a)' = AssignedTo(a) \ {s}
      /\ reqQueue'[a] = Append(reqQueue[a], r)
  BY <1>2, <1>3 DEF AssignedTo, RemovalRequest, CoreTypes, b
<1>6. ASSUME NEW c \in Subs \ {a} PROVE ContextInv(c)'
  <2>1. Settles(c)
    BY <1>2, <1>4, <1>5, <1>6 DEF Settles, InUse
  <2> QED BY <2>1, SettlesKeeps
<1>7. ContextInv(a)'
  <2>1. /\ reqQueue[a] \in Seq(Request) /\ Len(reqQueue[a]) \in Nat
        /\ Len(reqQueue'[a]) = Len(reqQueue[a]) + 1
        /\ \A j \in 1 .. Len(reqQueue[a]) : reqQueue'[a][j] = reqQueue[a][j]
    BY <1>5, LoadedTypes
  <2>2. PICK m \in Nat : m = Len(reqQueue[a])
    BY <2>1
  <2>3. ASSUME NEW k \in 0 .. m PROVE LoadedAfter(a, k)' = LoadedAfter(a, k)
    <3>1. k \in Nat /\ \A j \in 1 .. k : reqQueue'[a][j] = reqQueue[a][j]
      BY <2>1, <2>2
    <3> QED BY <1>4, <3>1, AfterSame DEF LoadedAfter
  <2>4. LoadedAfter(a, m + 1)' \subseteq LoadedAfter(a, m) \ {s}
    <3>1. r \in Request /\ r.kind = "remove" /\ s \in r.frames
      BY <1>1 DEF Request
    <3>2. After(Loaded(a), Append(reqQueue[a], r), Len(reqQueue[a]) + 1)
              \subseteq After(Loaded(a), reqQueue[a], Len(reqQueue[a])) \ {s}
      <4> HIDE DEF r
      <4> QED BY <2>1, <3>1, AfterRemoval
    <3> QED BY <1>4, <1>5, <2>2, <3>2 DEF LoadedAfter
  <2>5. ASSUME ~libError, NEW k \in 0 .. (m + 1)
        PROVE  Cardinality(LoadedAfter(a, k)') <= config.sizes[a]
    <3>1. \A l \in 0 .. m : Cardinality(LoadedAfter(a, l)) <= config.sizes[a]
      BY <2>2, <2>5, LoadedTypes DEF ContextInv
    <3>2. CASE k \in 0 .. m
      BY <2>3, <3>1, <3>2
    <3>3. CASE k = m + 1
      <4>1. LoadedAfter(a, k)' \subseteq LoadedAfter(a, m)
        BY <2>4, <3>3
      <4>2. Cardinality(LoadedAfter(a, m)) <= config.sizes[a]
        BY <3>1
      <4> QED BY <4>1, <4>2, LoadedTypes, Smaller
    <3> QED BY <2>2, <3>2, <3>3
  <2>6. ~libError => LoadedAfter(a, m + 1)' \subseteq AssignedTo(a)'
    <3>1. ~libError => LoadedAfter(a, m) \subseteq AssignedTo(a)
      BY <2>2, LoadedTypes DEF ContextInv, InUse
    <3> QED BY <1>5, <2>4, <3>1
  <2>7. LoadedAfter(a, Len(reqQueue[a]))' = LoadedAfter(a, m + 1)'
    <3>1. PICK l \in Nat : l = m + 1
      BY <2>2
    <3>2. Len(reqQueue'[a]) = l
      BY <2>1, <2>2, <3>1
    <3>3. LoadedAfter(a, l)' = LoadedAfter(a, m + 1)'
      BY <3>1
    <3> QED BY <3>2, <3>3
  <2>8. Cardinality(lib'[a]) <= config.sizes[a]
    BY <1>2, LoadedTypes DEF ContextInv
  <2> QED BY <2>1, <2>2, <2>5, <2>6, <2>7, <2>8 DEF ContextInv, InUse
<1> QED BY <1>2, <1>6, <1>7 DEF ContextsInv, Subs

\* The thread takes its next request in hand.
LEMMA TakenContexts ==
    ASSUME TrackerInv, ContextsInv, NEW b \in Subs, SubTake(b)
    PROVE  ContextsInv'
<1> USE DEF TrackerInv
<1>1. /\ UNCHANGED <<config, lib, libError, app, subBatchOf>>
      /\ worker[b].at \in {"lock", "woken"} /\ reqQueue[b] # <<>>
  BY DEF SubTake, libVars, procVars
<1>2. \A c \in Subs \ {b} : worker'[c] = worker[c] /\ reqQueue'[c] = reqQueue[c]
  BY WorkerSteps DEF SubStep, SubTake, CoreTypes
<1>3. \A c \in Subs : AssignedTo(c)' = AssignedTo(c)
  BY <1>1 DEF AssignedTo
<1>4. ASSUME NEW c \in Subs \ {b} PROVE ContextInv(c)'
  <2>1. Loaded(c)' = Loaded(c)
    BY <1>1, <1>2, LoadedSame
  <2>2. Settles(c)
    BY <1>1, <1>2, <1>3, <2>1 DEF Settles, InUse
  <2> QED BY <1>1, <2>2, SettlesKeeps
<1>5. ContextInv(b)'
  <2> DEFINE q == reqQueue[b]
  <2>1. q \in Seq(Request) /\ q # <<>> /\ Head(q) \in Request /\ reqQueue'[b] = Tail(q)
    <3>1. q \in Seq(Request)
      BY LoadedTypes
    <3>2. Head(q) \in Request
      BY <1>1, <3>1, HeadAndTail
    <3> QED BY <1>1, <3>1, <3>2 DEF SubTake, CoreTypes
  <2>2. worker'[b].at = Head(q).kind /\ worker'[b].req = Head(q)
    <3>1. worker[b] \in WorkerState /\ b \in DOMAIN worker
      BY DEF CoreTypes
    <3> QED BY <3>1 DEF SubTake, WorkerState
  <2>3. Head(q).kind \in {"batch", "remove"}
    BY <2>1 DEF Request
  <2>4. Loaded(b) = lib[b]
    BY <1>1 DEF Loaded
  <2>5. Loaded(b)' = IF Head(q).kind = "batch" THEN Loaded(b) \cup Head(q).frames
                     ELSE Loaded(b) \ Head(q).frames
    BY <1>1, <2>2, <2>3, <2>4 DEF Loaded
  <2>6. Len(q) \in Nat /\ Len(q) > 0 /\ Len(Tail(q)) = Len(q) - 1
    BY <2>1
  <2>7. ASSUME NEW k \in 0 .. (Len(q) - 1)
        PROVE  LoadedAfter(b, k)' \subseteq LoadedAfter(b, k + 1)
    <3>1. After(Loaded(b)', Tail(q), k) \subseteq After(Loaded(b), q, k + 1)
      <4>1. PICK M : M = Loaded(b)'
        OBVIOUS
      <4>2. After(M, Tail(q), k) \subseteq After(Loaded(b), q, k + 1)
        BY <2>1, <2>5, <4>1, AfterTake
      <4> QED BY <4>1, <4>2
    <3> QED BY <2>1, <3>1 DEF LoadedAfter
  <2>8. ASSUME ~libError, NEW k \in 0 .. (Len(q) - 1)
        PROVE  Cardinality(LoadedAfter(b, k)') <= config.sizes[b]
    <3>1. k + 1 \in 0 .. Len(q)
      BY <2>6
    <3>2. Cardinality(LoadedAfter(b, k + 1)) <= config.sizes[b]
      BY <2>8, <3>1, LoadedTypes DEF ContextInv
    <3> QED BY <2>7, <3>2, LoadedTypes, Smaller
  <2>9. ASSUME ~libError, InUse
        PROVE  LoadedAfter(b, Len(reqQueue[b]))' \subseteq AssignedTo(b)
    <3>1. PICK m \in 0 .. (Len(q) - 1) : m = Len(Tail(q)) /\ m + 1 = Len(q)
      <4> DEFINE l == Len(q)
      <4> HIDE DEF q, l
      <4>1. l \in Nat /\ l > 0 /\ Len(Tail(q)) = l - 1
        BY <2>6 DEF l
      <4>2. l - 1 \in 0 .. (l - 1) /\ (l - 1) + 1 = l
        BY <4>1
      <4> QED BY <4>1, <4>2 DEF l
    <3>2. LoadedAfter(b, Len(reqQueue[b]))' = LoadedAfter(b, m)'
      BY <2>1, <3>1
    <3>3. LoadedAfter(b, m + 1) \subseteq AssignedTo(b)
      BY <2>9, <3>1, LoadedTypes DEF ContextInv, InUse
    <3> QED BY <2>7, <3>2, <3>3
  <2>10. Cardinality(lib'[b]) <= config.sizes[b]
    BY <1>1, LoadedTypes DEF ContextInv
  <2> QED BY <1>1, <1>3, <2>1, <2>6, <2>8, <2>9, <2>10 DEF ContextInv, InUse
<1> QED BY <1>1, <1>4, <1>5 DEF ContextsInv, Subs

\* The other steps of a sub-batch thread.
LEMMA WorkerContexts ==
    ASSUME TrackerInv, ContextsInv, NEW b \in Subs, WorkerQuiet(b) \/ SubComplete(b)
    PROVE  ContextsInv'
<1> USE DEF TrackerInv
<1>1. worker[b] \in WorkerState /\ b \in DOMAIN worker /\ lib[b] \in SUBSET Streams
      /\ lib \in [{0} \cup Subs -> SUBSET Streams] /\ b \in {0} \cup Subs
  BY DEF CoreTypes, ContextsInv
<1>2. worker[b].at \in {"batch", "remove"} => worker[b].req.frames \in SUBSET Streams
  BY DEF RequestForms, Busy, Request
<1>3. UNCHANGED <<config, reqQueue, subBatchOf, app>>
  BY DEF WorkerQuiet, SubTest, SubWaits, SubWoken, SubRemove, SubLibrary, SubRecover, SubEnds,
         SubComplete, dispatchVars, historyVars
<1>4. \A c \in Subs \ {b} : worker'[c] = worker[c]
  BY WorkerSteps DEF SubStep, WorkerQuiet
<1> DEFINE Own ==
             /\ libError' \/ Loaded(b)' \subseteq Loaded(b)
             /\ lib'[b] \subseteq lib[b] \/ (~libError /\ lib'[b] \subseteq Loaded(b))
             /\ libError => libError'
             /\ lib' \in [{0} \cup Subs -> SUBSET Streams]
             /\ \A c \in Subs \ {b} : lib'[c] = lib[c]
<1> USE DEF WorkerState, Loaded
<1>5. ASSUME SubTest(b) \/ SubWaits(b) \/ SubWoken(b) \/ SubEnds(b) PROVE Own
  <2>1. UNCHANGED <<lib, libError>>
    BY <1>5 DEF SubTest, SubWaits, SubWoken, SubEnds, procVars, libVars
  <2>2. {worker[b].at, worker'[b].at} \cap {"batch", "remove"} = {}
    BY <1>1, <1>5 DEF SubTest, SubWaits, SubWoken, SubEnds
  <2>3. Loaded(b)' = Loaded(b)
    BY <2>1, <2>2
  <2> QED BY <1>1, <2>1, <2>3
<1>6. ASSUME SubComplete(b) PROVE Own
  <2>1. UNCHANGED lib /\ libError' = (libError \/ ~(/\ worker[b].req.id \in DOMAIN pending
                                                     /\ pending[worker[b].req.id][b] > 0))
    BY <1>6 DEF SubComplete, libVars
  <2>2. {worker[b].at, worker'[b].at} \cap {"batch", "remove"} = {}
    BY <1>1, <1>6 DEF SubComplete
  <2>3. Loaded(b)' = Loaded(b)
    BY <2>1, <2>2
  <2> QED BY <1>1, <2>1, <2>3
<1>7. ASSUME SubRemove(b) PROVE Own
  <2>1. worker[b].at = "remove" /\ worker'[b].at = "test"
    BY <1>1, <1>7 DEF SubRemove
  <2>2. Loaded(b) = lib[b] \ worker[b].req.frames /\ Loaded(b)' = lib'[b]
    BY <2>1
  <2>3. CASE /\ lib' = [lib EXCEPT ![b] = @ \ worker[b].req.frames]
             /\ UNCHANGED <<libError, errors>>
    BY <1>1, <2>2, <2>3
  <2>4. CASE libError' = TRUE /\ UNCHANGED lib
    BY <1>1, <2>4
  <2> QED BY <1>7, <2>3, <2>4 DEF SubRemove
<1>8. ASSUME SubLibrary(b) PROVE Own
  <2>1. worker[b].at = "batch" /\ worker'[b].at = "complete"
    BY <1>1, <1>8 DEF SubLibrary
  <2>2. Loaded(b) = lib[b] \cup worker[b].req.frames /\ Loaded(b)' = lib'[b]
    BY <2>1
  <2>3. CASE UNCHANGED <<lib, libError>>
    BY <1>1, <2>2, <2>3
  <2>4. CASE ~libError /\ lib' = [lib EXCEPT ![b] = @ \cup worker[b].req.frames]
    BY <1>1, <1>2, <2>1, <2>2, <2>4
  <2> QED BY <1>8, <2>3, <2>4 DEF SubLibrary
<1>9. ASSUME SubRecover(b) PROVE Own
  <2>1. worker[b].at = "recover" /\ worker'[b].at = "test"
    BY <1>1, <1>9 DEF SubRecover
  <2>2. Loaded(b) = lib[b] /\ Loaded(b)' = lib'[b]
    BY <2>1
  <2>3. libError => libError'
    BY <1>9 DEF SubRecover
  <2>4. CASE UNCHANGED lib
    BY <1>1, <2>2, <2>3, <2>4
  <2>5. CASE lib' = [lib EXCEPT ![b] = {}]
    BY <1>1, <2>2, <2>3, <2>5
  <2> QED BY <1>9, <2>4, <2>5 DEF SubRecover, libVars
<1> HIDE DEF Own, Loaded, WorkerState
<1>10. Own
  BY <1>5, <1>6, <1>7, <1>8, <1>9 DEF WorkerQuiet
<1> USE DEF Own
<1>11. \A c \in Subs : AssignedTo(c)' = AssignedTo(c)
  BY <1>3 DEF AssignedTo
<1>12. Settles(b)
  BY <1>3, <1>10, <1>11 DEF Settles, InUse
<1>13. ASSUME NEW c \in Subs \ {b} PROVE Settles(c)
  <2>1. Loaded(c)' = Loaded(c)
    <3>1. lib'[c] = lib[c] /\ worker'[c] = worker[c]
      BY <1>4, <1>10
    <3> QED BY <3>1, LoadedSame
  <2> QED BY <1>3, <1>10, <1>11, <2>1 DEF Settles, InUse
<1>14. \A c \in Subs : ContextInv(c)'
  BY <1>3, <1>12, <1>13, SettlesKeeps
<1> QED BY <1>3, <1>10, <1>14 DEF ContextsInv, Subs

\* The context for whole batches keeps streams.
LEMMA WholeContext ==
    ASSUME ContextsInv, UNCHANGED config, Whole, NEW S \in SUBSET Streams,
           lib' = lib \/ lib' = [lib EXCEPT ![0] = S]
    PROVE  ContextsInv'
<1>1. Subs = {} /\ Subs' = {}
  BY DEF Whole, Subs
<1> QED BY <1>1 DEF ContextsInv

\* The thread of sub-batch b stays where it is, or is woken up.
Notified(b) ==
    /\ worker'[b].req = worker[b].req
    /\ worker'[b].at # worker[b].at => worker[b].at = "waiting" /\ worker'[b].at = "woken"

\* Every step keeps the contexts in order.
LEMMA StepContexts == ASSUME TrackerInv, AssignmentInv, ContextsInv, Next PROVE ContextsInv'
<1> USE DEF TrackerInv
<1>1. ASSUME UNCHANGED <<config, reqQueue, lib>>, libError => libError',
             InUse' => InUse /\ UNCHANGED subBatchOf, \A b \in Subs : Notified(b)
      PROVE  ContextsInv'
  <2>1. ASSUME NEW b \in Subs PROVE ContextInv(b)'
    <3>1. Loaded(b)' = Loaded(b)
      <4>1. lib'[b] = lib[b] /\ Notified(b)
        BY <1>1
      <4> QED BY <4>1, LoadedSame DEF Notified
    <3>2. Settles(b)
      BY <1>1, <3>1 DEF Settles, AssignedTo
    <3> QED BY <1>1, <3>2, SettlesKeeps
  <2> QED BY <1>1, <2>1 DEF ContextsInv, Subs
<1>2. ASSUME UNCHANGED <<config, reqQueue, lib, worker, subBatchOf>>, libError => libError',
             InUse' => InUse
      PROVE  ContextsInv'
  <2>1. \A b \in Subs : Notified(b)
    BY <1>2 DEF Notified
  <2> QED BY <1>1, <1>2, <2>1
<1>3. CASE \E lists \in config.lists : SubmitBatch(lists)
  BY <1>2, <1>3 DEF SubmitBatch, dispatchVars, libVars, procVars, InUse
<1>4. CASE \E e \in Events : SendEvent(e)
  BY <1>2, <1>4 DEF SendEvent, dispatchVars, libVars, procVars, InUse
<1>5. CASE Submission
  BY <1>2, <1>5, DispatchContexts
     DEF Submission, Convert, ConvertFails, AlreadyActive, Register, Enqueue, dispatchVars, libVars,
         procVars, historyVars, InUse
<1>6. CASE HandleEvent
  <2>1. UNCHANGED <<config, libError, app>> /\ InUse
    BY <1>6 DEF HandleEvent, PhasesInv, InUse
  <2>2. CASE UNCHANGED <<subBatchOf, slots, reqQueue, worker>> /\ UNCHANGED lib
    BY <1>2, <2>1, <2>2 DEF InUse
  <2>3. CASE \E s \in DOMAIN subBatchOf : GivesUp(s, subBatchOf[s])
    BY <2>1, <2>3, GivingUpContexts
  <2>4. CASE Whole
    <3>1. lib' = lib \/ \E s : lib' = [lib EXCEPT ![0] = @ \ {s}]
      BY <1>6, <2>4 DEF HandleEvent, RemoveWhole
    <3>2. \A s : lib[0] \ {s} \in SUBSET Streams
      BY DEF ContextsInv
    <3> QED BY <2>1, <2>4, <3>1, <3>2, WholeContext
  <2> QED BY <1>6, <2>2, <2>3, <2>4, EventAssigns
<1>7. CASE EventStep
  BY <1>2, <1>6, <1>7 DEF EventStep, Flushed, PushMarker, EventDropped, RemovalError, dispatchVars,
                          libVars, procVars, InUse
<1>8. CASE ProcLibrary
  <2>1. Whole /\ UNCHANGED config
    BY <1>8 DEF ProcLibrary, PhasesInv
  <2> DEFINE fs == UNION Range(items[processor.n].lists)
  <2>2. fs \in SUBSET Streams
    <3>1. processor.n \in Batches
      BY <1>8 DEF ProcLibrary, ProcessorInv, WithBatch
    <3>2. items[processor.n].lists \in Seq(SUBSET Streams)
      BY <3>1, ListsTypes
    <3> QED BY <3>2 DEF Range
  <2>3. lib' = lib \/ lib' = [lib EXCEPT ![0] = @ \cup fs]
    BY <1>8 DEF ProcLibrary
  <2> HIDE DEF fs
  <2>4. lib[0] \cup fs \in SUBSET Streams
    BY <2>2 DEF ContextsInv
  <2> QED BY <2>1, <2>3, <2>4, WholeContext
<1>9. CASE ProcStep
  BY <1>2, <1>8, <1>9 DEF ProcStep, ProcTake, ProcErase, ProcComplete, ProcReturnBuffer,
                          ProcEnds, dispatchVars, libVars, procVars, historyVars, InUse
<1>10. CASE OutStep \/ (\E n \in DOMAIN items : Released(n)) \/ Stop
  BY <1>2, <1>10 DEF OutStep, OutTest, OutWaits, OutWokenInVain, OutTake, OutPush, OutSignal,
                     Released, Stop, dispatchVars, threadVars, libVars, procVars, InUse
<1>11. CASE \E b \in Subs : SubStep(b)
  BY <1>11, TakenContexts, WorkerContexts DEF SubStep, WorkerQuiet
<1>12. ASSUME NEW b \in Subs, StopSub(b) PROVE ContextsInv'
  <2>1. worker' = NotifyWorkers({b})
    BY <1>12 DEF StopSub
  <2>2. \A c \in Subs : Notified(c)
    BY <2>1, WakingWorkers DEF Notified
  <2> QED BY <1>1, <1>12, <2>2 DEF StopSub, libVars, procVars, InUse
<1>13. CASE ClearQueues
  <2>1. \A b \in Subs : Notified(b)
    BY <1>13 DEF ClearQueues, Notified
  <2> QED BY <1>1, <1>13, <2>1 DEF ClearQueues, libVars, procVars, InUse
<1>14. CASE AppStep
  BY <1>2, <1>12, <1>13, <1>14 DEF AppStep, DestroyPool, Joined, EndLoop, Stopped, dispatchVars,
                                   threadVars, libVars, procVars, InUse
<1> QED BY <1>3, <1>4, <1>5, <1>7, <1>9, <1>10, <1>11, <1>14 DEF Next

--------------------------------------------------------------------------------
(* Errors *)

\* Errors make a thread recover, nothing else does.
NoNewFault ==
    \A b \in Subs : worker'[b].at = "recover" \/ worker'[b].failed =>
                        worker[b].at = "recover" \/ worker[b].failed

\* What a step may do to the errors.
LEMMA ErrorsKept ==
    ASSUME ErrorsInv, UNCHANGED config, errors' \in {errors, errors + 1}, libError' \in BOOLEAN,
           libError' => libError \/ errors' > 0, NoNewFault \/ errors' > 0
    PROVE  ErrorsInv'
<1>1. errors \in Nat
  BY DEF ErrorsInv
<1>2. errors' \in Nat /\ errors' >= errors
  BY <1>1
<1>3. errors > 0 => errors' > 0
  BY <1>1, <1>2
<1>4. ASSUME NEW b \in Subs, worker'[b].at = "recover" \/ worker'[b].failed PROVE errors' > 0
  BY <1>3, <1>4 DEF NoNewFault, ErrorsInv
<1> QED BY <1>2, <1>3, <1>4 DEF ErrorsInv, Subs

\* Threads that are notified do not fail.
LEMMA NotifiedFaultless ==
    ASSUME CoreTypes, NEW bs, worker' = NotifyWorkers(bs) PROVE NoNewFault
<1> SUFFICES ASSUME NEW b \in Subs, worker'[b].at = "recover" \/ worker'[b].failed
             PROVE  worker[b].at = "recover" \/ worker[b].failed
  BY DEF NoNewFault
<1>1. worker[b] \in WorkerState
  BY DEF CoreTypes
<1>2. worker'[b] = worker[b] \/ worker'[b] = [worker[b] EXCEPT !.at = "woken"]
  BY DEF NotifyWorkers
<1> QED BY <1>1, <1>2 DEF WorkerState

\* The entry of a request is found in m_PendingBatch.
LEMMA RequestKnown ==
    ASSUME TrackerInv, NEW b \in Subs, worker[b].at = "complete"
    PROVE  worker[b].req.id \in DOMAIN pending /\ pending[worker[b].req.id][b] > 0
<1> USE DEF TrackerInv
<1> DEFINE r == worker[b].req
<1>1. r \in OpenIn(b) /\ r \in Request
  BY DEF OpenIn, Busy, RequestForms
<1>2. ~Whole
  BY DEF Whole, Subs
<1>3. app \notin {"join-output", "stopped"}
  BY DEF PhasesInv
<1>4. PICK i \in Nat : i = r.id
  BY <1>1 DEF Request
<1>5. i \in DOMAIN pending /\ pending[i][b] = Cardinality(WithId(b, i)) + InHand(b, i)
  BY <1>1, <1>2, <1>3, <1>4 DEF CountsInv
<1>6. InHand(b, i) = 1
  BY <1>4 DEF InHand, Busy
<1>7. Cardinality(WithId(b, i)) \in Nat
  BY CountsAreNumbers DEF CountsMean
<1> QED BY <1>4, <1>5, <1>6, <1>7

\* Every step keeps the errors in order.
LEMMA StepErrors == ASSUME TrackerInv, ErrorsInv, Next PROVE ErrorsInv'
<1> USE DEF TrackerInv
<1> DEFINE Kept == /\ errors' \in {errors, errors + 1} /\ libError' \in BOOLEAN
                   /\ libError' => libError \/ errors' > 0
                   /\ NoNewFault \/ errors' > 0
<1>1. errors \in Nat /\ libError \in BOOLEAN
  BY DEF ErrorsInv
<1>2. ASSUME UNCHANGED <<libError, errors>>, UNCHANGED worker \/ \E bs : worker' = NotifyWorkers(bs)
      PROVE  Kept
  <2>1. UNCHANGED worker => NoNewFault
    BY DEF NoNewFault
  <2> QED BY <1>1, <1>2, <2>1, NotifiedFaultless
<1>3. ASSUME LibraryFails \/ (errors' = errors + 1 /\ libError' \in {libError, TRUE}) PROVE Kept
  <2>1. errors' = errors + 1 /\ libError' \in BOOLEAN
    BY <1>1, <1>3 DEF LibraryFails
  <2>2. errors' > 0
    BY <1>1, <2>1
  <2> QED BY <2>1, <2>2
<1>4. ASSUME (\E lists \in config.lists : SubmitBatch(lists)) \/ \E e \in Events : SendEvent(e)
      PROVE  Kept
  BY <1>2, <1>4 DEF SubmitBatch, SendEvent, procVars, libVars
<1>5. ASSUME Submission PROVE Kept
  BY <1>2, <1>5 DEF Submission, Convert, ConvertFails, AlreadyActive, Register, Enqueue, Dispatch,
                    procVars, libVars
<1>6. ASSUME HandleEvent PROVE Kept
  <2>1. UNCHANGED worker \/ \E bs : worker' = NotifyWorkers(bs)
    BY <1>6 DEF HandleEvent, RemoveWhole, RemoveFromSub
  <2> QED BY <1>2, <1>6, <2>1 DEF HandleEvent
<1>7. ASSUME EventStep PROVE Kept
  BY <1>2, <1>3, <1>6, <1>7
     DEF EventStep, Flushed, PushMarker, EventDropped, RemovalError, procVars, libVars
<1>8. ASSUME ProcStep PROVE Kept
  BY <1>2, <1>3, <1>8
     DEF ProcStep, ProcTake, ProcLibrary, ProcErase, ProcComplete, ProcReturnBuffer, ProcEnds,
         procVars, libVars
<1>9. ASSUME OutStep \/ (\E n \in DOMAIN items : Released(n)) \/ Stop \/ AppStep PROVE Kept
  BY <1>2, <1>9 DEF OutStep, OutTest, OutWaits, OutWokenInVain, OutTake, OutPush, OutSignal,
              Released, Stop, AppStep, DestroyPool, StopSub, Joined, ClearQueues, EndLoop, Stopped,
              procVars, libVars, threadVars
<1>10. ASSUME NEW b \in Subs, SubStep(b) PROVE Kept
  <2>1. worker[b] \in WorkerState /\ b \in DOMAIN worker
    BY DEF CoreTypes
  <2>2. \A c \in Subs \ {b} : worker'[c] = worker[c]
    BY <1>10, WorkerSteps
  <2>3. ASSUME worker'[b].at = "recover" \/ worker'[b].failed =>
                   worker[b].at = "recover" \/ worker[b].failed
        PROVE  NoNewFault
    BY <2>2, <2>3 DEF NoNewFault
  <2> USE <2>1 DEF WorkerState
  <2>4. CASE SubTest(b) \/ SubWaits(b) \/ SubWoken(b) \/ SubEnds(b)
    <3>1. NoNewFault
      BY <2>3, <2>4 DEF SubTest, SubWaits, SubWoken, SubEnds
    <3> QED BY <1>1, <2>4, <3>1 DEF SubTest, SubWaits, SubWoken, SubEnds, procVars, libVars
  <2>5. CASE SubTake(b)
    <3>1. Head(reqQueue[b]).kind # "recover"
      <4>1. reqQueue[b] \in Seq(Request) /\ reqQueue[b] # <<>>
        BY <2>5 DEF SubTake, CoreTypes
      <4>2. Head(reqQueue[b]) \in Request
        BY <4>1, HeadAndTail
      <4> QED BY <4>2 DEF Request
    <3>2. NoNewFault
      BY <2>3, <2>5, <3>1 DEF SubTake
    <3> QED BY <1>1, <2>5, <3>2 DEF SubTake, procVars, libVars
  <2>6. CASE SubRemove(b)
    <3>1. NoNewFault
      BY <2>3, <2>6 DEF SubRemove
    <3>2. CASE UNCHANGED <<libError, errors>>
      BY <1>1, <3>1, <3>2
    <3>3. CASE errors' = errors + 1 /\ libError' \in {libError, TRUE}
      BY <1>3, <3>3
    <3> QED BY <2>6, <3>2, <3>3 DEF SubRemove
  <2>7. CASE SubLibrary(b)
    <3>1. CASE errors' = errors + 1
      BY <1>3, <2>7, <3>1 DEF SubLibrary, LibraryFails
    <3>2. CASE errors' = errors
      <4>1. UNCHANGED libError
        BY <1>1, <2>7, <3>2 DEF SubLibrary, LibraryFails
      <4>2. NoNewFault
        BY <1>1, <2>3, <2>7, <3>2 DEF SubLibrary, LibraryFails
      <4> QED BY <1>1, <3>2, <4>1, <4>2
    <3> QED BY <2>7, <3>1, <3>2 DEF SubLibrary, LibraryFails
  <2>8. CASE SubComplete(b)
    <3>1. UNCHANGED <<libError, errors>>
      BY <1>1, <2>8, RequestKnown DEF SubComplete, libVars
    <3>2. NoNewFault
      BY <2>3, <2>8 DEF SubComplete
    <3> QED BY <1>1, <3>1, <3>2
  <2>9. CASE SubRecover(b)
    <3>1. errors > 0
      BY <2>9 DEF SubRecover, ErrorsInv
    <3>2. errors' \in {errors, errors + 1} /\ libError' \in {libError, TRUE}
      BY <2>9 DEF SubRecover, libVars
    <3>3. errors' > 0
      BY <1>1, <3>1, <3>2
    <3>4. libError' \in BOOLEAN
      BY <1>1, <3>2
    <3> QED BY <3>2, <3>3, <3>4
  <2> QED BY <1>10, <2>4, <2>5, <2>6, <2>7, <2>8, <2>9 DEF SubStep
<1> HIDE DEF Kept
<1>11. Kept
  BY <1>4, <1>5, <1>7, <1>8, <1>9, <1>10 DEF Next
<1> QED BY <1>11, StepItems, ErrorsKept DEF Kept

--------------------------------------------------------------------------------
(* The other types *)

\* Every step keeps the flags, the places of the streaming thread and the connected streams.
LEMMA StepFlags == ASSUME TrackerInv, FlagsInv, Next PROVE FlagsInv'
<1> USE TrackerAssumption DEF TrackerInv
<1> DEFINE Kept == /\ running' \in BOOLEAN /\ looping' \in BOOLEAN
                   /\ running' => app' \in {"play", "drain"}
                   /\ subRunning' \in [Subs -> BOOLEAN]
                   /\ streamer' \in {"idle", "convert", "register", "queue", "flush", "mark",
                                     "wait", "handle"}
                   /\ active' \subseteq Streams
<1>1. /\ running \in BOOLEAN /\ looping \in BOOLEAN
      /\ running => app \in {"play", "drain"}
      /\ subRunning \in [Subs -> BOOLEAN]
      /\ streamer \in {"idle", "convert", "register", "queue", "flush", "mark", "wait", "handle"}
      /\ active \subseteq Streams
  BY DEF FlagsInv
<1>2. ASSUME NEW lists \in config.lists, SubmitBatch(lists) PROVE Kept
  BY <1>1, <1>2 DEF SubmitBatch, procVars, dispatchVars
<1>3. ASSUME NEW e \in Events, SendEvent(e) PROVE Kept
  <2>1. e.what = "pad-added" => e.stream \in Streams
    BY DEF Events
  <2> QED BY <1>1, <1>3, <2>1 DEF SendEvent, procVars, dispatchVars
<1>4. ASSUME Submission PROVE Kept
  <2>1. /\ UNCHANGED <<running, looping, app, subRunning, active>>
        /\ streamer' \in {"idle", "register", "queue"}
    BY <1>4 DEF Submission, Convert, ConvertFails, AlreadyActive, Register, Enqueue, Dispatch,
                procVars, dispatchVars, historyVars
  <2> QED BY <1>1, <2>1
<1>5. ASSUME EventStep PROVE Kept
  BY <1>1, <1>5 DEF EventStep, Flushed, PushMarker, HandleEvent, EventDropped, RemovalError,
                    RemoveWhole, RemoveFromSub, procVars, dispatchVars, historyVars
<1>6. ASSUME ProcStep PROVE Kept
  BY <1>1, <1>6 DEF ProcStep, ProcTake, ProcLibrary, ProcErase, ProcComplete, ProcReturnBuffer,
                    ProcEnds, procVars, dispatchVars, historyVars
<1>7. ASSUME OutStep PROVE Kept
  BY <1>1, <1>7 DEF OutStep, OutTest, OutWaits, OutWokenInVain, OutTake, OutPush, OutSignal,
                    procVars, dispatchVars, historyVars
<1>8. ASSUME (\E n \in DOMAIN items : Released(n)) \/ Stop PROVE Kept
  BY <1>1, <1>8 DEF Released, Stop, procVars, dispatchVars, historyVars, threadVars
<1>9. ASSUME NEW b \in Subs, SubStep(b) PROVE Kept
  <2>1. UNCHANGED <<running, looping, app, subRunning, streamer, active>>
    BY <1>9 DEF SubStep, SubTest, SubWaits, SubWoken, SubTake, SubRemove, SubLibrary, SubComplete,
                SubRecover, SubEnds, procVars, dispatchVars, historyVars
  <2> QED BY <1>1, <2>1
<1>10. ASSUME AppStep PROVE Kept
  <2>1. CASE \E b \in Subs : StopSub(b)
    <3>1. PICK b \in Subs : StopSub(b)
      BY <2>1
    <3>2. subRunning' \in [Subs -> BOOLEAN]
      BY <1>1, <3>1 DEF StopSub
    <3>3. UNCHANGED <<running, looping, app, streamer, active>>
      BY <3>1 DEF StopSub, procVars, historyVars
    <3> QED BY <1>1, <3>2, <3>3
  <2>2. CASE ~\E b \in Subs : StopSub(b)
    <3>1. UNCHANGED <<subRunning, streamer, active>>
      BY <1>10, <2>2 DEF AppStep, DestroyPool, Joined, ClearQueues, EndLoop, Stopped, dispatchVars,
                         historyVars, threadVars
    <3>2. running' \in {FALSE, running} /\ looping' \in {FALSE, looping}
      BY <1>10, <2>2 DEF AppStep, DestroyPool, Joined, ClearQueues, EndLoop, Stopped, procVars
    <3>3. running' => app' = app /\ running
      <4>1. app \in {"join", "join-subs", "clear", "join-output"} => ~running
        BY <1>1
      <4> QED BY <1>10, <2>2, <4>1
              DEF AppStep, DestroyPool, Joined, ClearQueues, EndLoop, Stopped, procVars, threadVars
    <3> QED BY <1>1, <3>1, <3>2, <3>3
  <2> QED BY <2>1, <2>2
<1> HIDE DEF Kept
<1>11. Kept
  BY <1>2, <1>3, <1>4, <1>5, <1>6, <1>7, <1>8, <1>9, <1>10 DEF Next
<1>12. Subs' = Subs
  BY StepItems DEF Subs
<1> QED BY <1>11, <1>12 DEF FlagsInv, Kept

\* ... the entries of m_PendingBatch, ...
LEMMA StepPending == ASSUME TrackerInv, CoreTypes', PendingInv, Next PROVE PendingInv'
<1> USE DEF TrackerInv
<1>1. CASE ~Whole'
  BY <1>1 DEF CoreTypes, PendingInv
<1>2. CASE Whole'
  <2>1. Whole /\ Subs = {} /\ Subs' = {}
    BY <1>2, StepItems DEF Whole, Subs
  <2>2. ASSUME NEW i \in DOMAIN pending', DOMAIN pending' \subseteq DOMAIN pending,
               pending'[i] = pending[i]
        PROVE  i \in Nat /\ pending'[i] \in [Subs -> Nat]
    BY <2>2 DEF PendingInv
  <2>3. CASE UNCHANGED pending
    BY <2>1, <2>3 DEF PendingInv
  <2>4. CASE Register
    <3>1. pending' = Entered(pending, nextId, <<>>) /\ nextId \in Nat
      BY <2>4 DEF Register, CoreTypes
    <3>2. <<>> \in [Subs -> Nat]
      BY <2>1
    <3> QED BY <2>1, <3>1, <3>2 DEF PendingInv, Entered
  <2>5. CASE ProcErase
    BY <2>1, <2>5 DEF ProcErase, PendingInv
  <2>6. CASE ClearQueues
    <3>1. pending' = <<>>
      BY <2>6 DEF ClearQueues
    <3> QED BY <3>1 DEF PendingInv
  <2>7. CASE (\E lists \in config.lists : SubmitBatch(lists)) \/ \E e \in Events : SendEvent(e)
    BY <2>3, <2>7 DEF SubmitBatch, SendEvent
  <2>8. CASE Submission
    BY <2>1, <2>3, <2>4, <2>8 DEF Submission, Convert, ConvertFails, AlreadyActive, Enqueue,
                                  Dispatch
  <2>9. CASE EventStep
    BY <2>3, <2>9 DEF EventStep, Flushed, PushMarker, HandleEvent, EventDropped, RemovalError
  <2>10. CASE ProcStep
    BY <2>3, <2>5, <2>10 DEF ProcStep, ProcTake, ProcLibrary, ProcComplete, ProcReturnBuffer,
                             ProcEnds
  <2>11. CASE OutStep \/ (\E n \in DOMAIN items : Released(n)) \/ Stop \/ AppStep
    BY <2>3, <2>6, <2>11
       DEF OutStep, OutTest, OutWaits, OutWokenInVain, OutTake, OutPush, OutSignal, Released, Stop,
           AppStep, DestroyPool, StopSub, Joined, EndLoop, Stopped
  <2> QED BY <2>1, <2>7, <2>8, <2>9, <2>10, <2>11 DEF Next
<1> QED BY <1>1, <1>2

\* ... no buffers when there is no pool, ...
LEMMA StepNoPool == ASSUME TrackerInv, NoPoolInv, Next PROVE NoPoolInv'
<1> USE DEF TrackerInv
<1>1. SUFFICES ASSUME config.pool = 0 PROVE freeBufs' = freeBufs
  BY StepItems DEF NoPoolInv
<1>2. Returned = freeBufs /\ ~(freeBufs > 0)
  BY <1>1 DEF Returned, NoPoolInv
<1>3. CASE (\E lists \in config.lists : SubmitBatch(lists)) \/ \E e \in Events : SendEvent(e)
  BY <1>3 DEF SubmitBatch, SendEvent, procVars
<1>4. CASE Submission
  BY <1>2, <1>4 DEF Submission, Convert, ConvertFails, AlreadyActive, Register, Enqueue, Dispatch,
                    procVars
<1>5. CASE EventStep
  BY <1>5 DEF EventStep, Flushed, PushMarker, HandleEvent, EventDropped, RemovalError, procVars
<1>6. CASE ProcStep
  BY <1>2, <1>6 DEF ProcStep, ProcTake, ProcLibrary, ProcErase, ProcComplete, ProcReturnBuffer,
                    ProcEnds, procVars
<1>7. CASE OutStep \/ (\E n \in DOMAIN items : Released(n)) \/ Stop \/ AppStep
  BY <1>7 DEF OutStep, OutTest, OutWaits, OutWokenInVain, OutTake, OutPush, OutSignal, Released,
              Stop, AppStep, DestroyPool, StopSub, Joined, ClearQueues, EndLoop, Stopped, procVars
<1>8. CASE \E b \in Subs : SubStep(b)
  <2>1. CASE \E b \in Subs : SubComplete(b)
    BY <1>2, <2>1 DEF SubComplete
  <2>2. CASE ~\E b \in Subs : SubComplete(b)
    BY <1>8, <2>2 DEF SubStep, SubTest, SubWaits, SubWoken, SubTake, SubRemove, SubLibrary,
                      SubRecover, SubEnds, procVars
  <2> QED BY <2>1, <2>2
<1> QED BY <1>3, <1>4, <1>5, <1>6, <1>7, <1>8 DEF Next

\* A user-meta buffer that is taken is taken for the batch.
LEMMA MiscTakenFor ==
    ASSUME NEW c, NEW n PROVE MiscTaken(c, n) \subseteq miscOut \cup {<<c, n>>}
  BY DEF MiscTaken

\* ... and batches where batches are kept.
LEMMA StepBatches == ASSUME TrackerInv, CoreTypes', BatchesInv, Next PROVE BatchesInv'
<1> USE DEF TrackerInv
<1> DEFINE Kept == /\ Range(completions') \subseteq Batches \cup {NoItem}
                   /\ miscOut' \subseteq ({0} \cup Subs) \X Batches
                   /\ holders' \subseteq Batches
<1>1. /\ Range(completions) \subseteq Batches \cup {NoItem}
      /\ miscOut \subseteq ({0} \cup Subs) \X Batches
      /\ holders \subseteq Batches
  BY DEF BatchesInv
<1>2. ASSUME NEW n \in Batches \cup {NoItem}, completions' = Append(completions, n)
      PROVE  Range(completions') \subseteq Batches \cup {NoItem}
  <2>1. Range(completions') = Range(completions) \cup {n}
    BY <1>2, RangeOfAppend DEF CoreTypes
  <2> QED BY <1>1, <2>1
<1>3. ASSUME (\E lists \in config.lists : SubmitBatch(lists)) \/ \E e \in Events : SendEvent(e)
      PROVE  Kept
  BY <1>1, <1>3 DEF SubmitBatch, SendEvent, procVars
<1>4. ASSUME Submission PROVE Kept
  <2>1. streamer = "convert" => Current \in Batches
    BY DEF StreamerInv
  <2> QED BY <1>1, <1>4, <2>1
          DEF Submission, Convert, ConvertFails, AlreadyActive, Register, Enqueue, Dispatch,
              procVars, historyVars
<1>5. ASSUME EventStep PROVE Kept
  BY <1>1, <1>2, <1>5 DEF EventStep, Flushed, PushMarker, HandleEvent, EventDropped, RemovalError,
                          procVars, historyVars
<1>6. ASSUME ProcStep PROVE Kept
  <2>1. processor.at \in WithBatch => processor.n \in Batches
    BY DEF ProcessorInv
  <2>2. CASE ProcLibrary
    <3>1. UNCHANGED <<completions, holders>>
      BY <2>2 DEF ProcLibrary, historyVars
    <3>2. miscOut' = miscOut \/ miscOut' = MiscTaken(0, processor.n)
      BY <2>2 DEF ProcLibrary
    <3>3. <<0, processor.n>> \in ({0} \cup Subs) \X Batches
      BY <2>1, <2>2 DEF ProcLibrary, WithBatch
    <3> QED BY <1>1, <3>1, <3>2, <3>3, MiscTakenFor
  <2>3. CASE ProcComplete
    <3>1. processor.n \in Batches
      BY <2>1, <2>3 DEF ProcComplete, WithBatch
    <3> QED BY <1>1, <1>2, <2>3, <3>1 DEF ProcComplete, procVars, historyVars
  <2> QED BY <1>1, <1>6, <2>2, <2>3 DEF ProcStep, ProcTake, ProcErase, ProcReturnBuffer, ProcEnds,
                                        procVars, historyVars
<1>7. ASSUME OutStep PROVE Kept
  <2>1. CASE OutTake
    <3>1. Range(completions') \subseteq Range(completions)
      <4>1. completions \in Seq(Nat \cup {NoItem}) /\ completions # <<>>
        BY <2>1 DEF OutTake, CoreTypes
      <4>2. \A k \in DOMAIN Tail(completions) :
                k + 1 \in DOMAIN completions /\ Tail(completions)[k] = completions[k + 1]
        BY <4>1, HeadAndTail
      <4> QED BY <2>1, <4>2 DEF OutTake, Range
    <3> QED BY <1>1, <2>1, <3>1 DEF OutTake, procVars, historyVars
  <2> QED BY <1>1, <1>7, <2>1 DEF OutStep, OutTest, OutWaits, OutWokenInVain, OutPush, OutSignal,
                                  procVars, historyVars
<1>8. ASSUME (\E n \in DOMAIN items : Released(n)) \/ Stop PROVE Kept
  BY <1>1, <1>8 DEF Released, Stop, procVars, historyVars
<1>9. ASSUME NEW b \in Subs, SubStep(b) PROVE Kept
  <2>1. worker[b].at \in {"batch", "complete"} => worker[b].req.n \in Batches
    BY DEF RequestsInv, OpenIn, Busy
  <2>2. CASE SubLibrary(b)
    <3>1. UNCHANGED <<completions, holders>>
      BY <2>2 DEF SubLibrary, historyVars
    <3>2. miscOut' = miscOut \/ miscOut' = MiscTaken(b, worker[b].req.n)
      BY <2>2 DEF SubLibrary
    <3>3. <<b, worker[b].req.n>> \in ({0} \cup Subs) \X Batches
      BY <2>1, <2>2 DEF SubLibrary
    <3> QED BY <1>1, <3>1, <3>2, <3>3, MiscTakenFor
  <2>3. CASE SubComplete(b)
    <3>1. worker[b].req.n \in Batches
      BY <2>1, <2>3 DEF SubComplete
    <3>2. \/ completions' = completions
          \/ completions' = Append(completions, worker[b].req.n)
      BY <2>3 DEF SubComplete
    <3>3. UNCHANGED miscOut /\ holders' \subseteq holders
      BY <2>3 DEF SubComplete
    <3> QED BY <1>1, <1>2, <3>1, <3>2, <3>3
  <2> QED BY <1>1, <1>9, <2>2, <2>3 DEF SubStep, SubTest, SubWaits, SubWoken, SubTake, SubRemove,
                                        SubRecover, SubEnds, procVars, historyVars
<1>10. ASSUME AppStep PROVE Kept
  <2>1. Range(<<>>) = {}
    BY DEF Range
  <2> QED BY <1>1, <1>10, <2>1
          DEF AppStep, DestroyPool, StopSub, Joined, ClearQueues, EndLoop, Stopped, procVars,
              historyVars, threadVars
<1> HIDE DEF Kept
<1>11. Kept
  BY <1>3, <1>4, <1>5, <1>6, <1>7, <1>8, <1>9, <1>10 DEF Next
<1>12. Subs' = Subs /\ Batches \subseteq Batches'
  BY StepItems DEF Subs
<1>13. ({0} \cup Subs) \X Batches \subseteq ({0} \cup Subs') \X Batches'
  BY <1>12
<1> QED BY <1>11, <1>12, <1>13 DEF BatchesInv, Kept

--------------------------------------------------------------------------------
(* The streams agree *)

\* The invariant holds at the start ...
LEMMA InitAgree == Init => AgreeInv
<1> SUFFICES ASSUME Init PROVE AgreeInv
  OBVIOUS
<1> USE TrackerAssumption
<1>1. /\ config \in Configs /\ config.pool \in Nat /\ config.initial \subseteq Streams
  BY DEF Init
<1>2. AssignmentInv
  BY NothingAssigned DEF Init, AssignmentInv
<1>3. ContextsInv
  <2>1. lib \in [{0} \cup Subs -> SUBSET Streams]
    BY DEF Init
  <2>2. ASSUME NEW b \in Subs PROVE ContextInv(b)
    <3>1. reqQueue[b] = <<>> /\ lib[b] = {} /\ Loaded(b) = {}
      BY <2>2 DEF Init, Loaded, IdleWorker
    <3>2. Len(reqQueue[b]) = 0
      BY <3>1
    <3>3. LoadedAfter(b, 0) = {}
      BY <3>1, AfterNone DEF LoadedAfter
    <3>4. Cardinality({}) = 0 /\ config.sizes[b] \in Nat
      BY <1>1, FS_EmptySet, Sizes
    <3>5. \A k \in 0 .. Len(reqQueue[b]) : LoadedAfter(b, k) = {}
      BY <3>2, <3>3
    <3>6. LoadedAfter(b, Len(reqQueue[b])) = {}
      BY <3>2, <3>3
    <3>7. Cardinality(lib[b]) <= config.sizes[b]
      BY <3>1, <3>4
    <3>8. ASSUME NEW k \in 0 .. Len(reqQueue[b])
          PROVE  Cardinality(LoadedAfter(b, k)) <= config.sizes[b]
      <4>1. Cardinality(LoadedAfter(b, k)) = 0
        BY <3>4, <3>5
      <4> QED BY <3>4, <4>1
    <3> QED BY <3>6, <3>7, <3>8 DEF ContextInv
  <2> QED BY <2>1, <2>2 DEF ContextsInv
<1>4. ErrorsInv
  BY DEF Init, ErrorsInv, IdleWorker
<1>5. RestInv
  BY <1>1 DEF Init, RestInv, FlagsInv, PendingInv, BatchesInv, NoPoolInv, Range
<1> QED BY <1>2, <1>3, <1>4, <1>5 DEF AgreeInv

\* ... and every step keeps it.
LEMMA StepAgree == TrackerInv /\ TrackerInv' /\ AgreeInv /\ [Next]_vars => AgreeInv'
<1>1. ASSUME TrackerInv, TrackerInv', AgreeInv, Next PROVE AgreeInv'
  <2>1. CoreTypes'
    BY <1>1 DEF TrackerInv
  <2>2. AssignmentInv' /\ ContextsInv' /\ ErrorsInv'
    BY <1>1, StepAssignment, StepContexts, StepErrors DEF AgreeInv
  <2>3. RestInv'
    BY <1>1, <2>1, StepFlags, StepPending, StepBatches, StepNoPool DEF AgreeInv, RestInv
  <2> QED BY <2>2, <2>3 DEF AgreeInv
<1>2. ASSUME AgreeInv, UNCHANGED vars PROVE AgreeInv'
  <2> USE <1>2 DEF AgreeInv, vars, procVars, dispatchVars, libVars, threadVars, historyVars
  <2>1. UNCHANGED <<Subs, Batches>>
    BY DEF Subs, Batches
  <2>2. AssignmentInv'
    BY AssignmentCarried DEF AssignmentInv
  <2>3. ContextsInv'
    <3>1. \A b : UNCHANGED <<Loaded(b), AssignedTo(b)>> /\ \A k : UNCHANGED LoadedAfter(b, k)
      BY DEF Loaded, AssignedTo, LoadedAfter
    <3>2. \A b : UNCHANGED LoadedAfter(b, Len(reqQueue[b]))
      BY <3>1 DEF LoadedAfter
    <3> QED BY <2>1, <3>1, <3>2 DEF ContextsInv, ContextInv
  <2>4. ErrorsInv'
    BY <2>1 DEF ErrorsInv
  <2>5. RestInv'
    BY <2>1 DEF RestInv, FlagsInv, PendingInv, BatchesInv, NoPoolInv
  <2> QED BY <2>2, <2>3, <2>4, <2>5
<1> QED BY <1>1, <1>2

\* A sequence is one over the set its elements are in.
LEMMA NarrowerSequence ==
    ASSUME NEW S, NEW T, NEW q \in Seq(S), \A k \in DOMAIN q : q[k] \in T
    PROVE  q \in Seq(T)
  OBVIOUS

\* The types follow from the two invariants.
LEMMA InvImpliesTypes == TrackerInv /\ AgreeInv => TypeOK
<1> SUFFICES ASSUME TrackerInv, AgreeInv PROVE TypeOK
  OBVIOUS
<1> USE TrackerAssumption DEF TrackerInv, AgreeInv, RestInv
<1>1. config \in Configs /\ {running, libError, looping} \subseteq BOOLEAN /\ nextId \in Nat
  BY DEF CoreTypes, FlagsInv, ErrorsInv
<1>2. freeBufs \in 0 .. config.pool
  <2>1. freeBufs \in Nat /\ config.pool \in Nat
    BY DEF CoreTypes
  <2>2. config.pool > 0 => Cardinality(holders) \in Nat
    <3>1. IsFiniteSet(DOMAIN items)
      <4>1. DOMAIN items = 1 .. Len(items) /\ Len(items) \in Nat
        BY DEF CoreTypes
      <4> QED BY <4>1, FS_Interval
    <3> QED BY <3>1, FS_Subset, FS_CardinalityType DEF CoreTypes
  <2> QED BY <2>1, <2>2 DEF BuffersInv, NoPoolInv
<1>3. procQueue \in Seq([n : Batches, id : Nat])
  <2>1. /\ procQueue \in Seq([n : Nat, id : Nat])
        /\ \A k \in DOMAIN procQueue : procQueue[k].n \in Batches
    BY DEF CoreTypes, ProcessorInv
  <2>2. ASSUME NEW k \in DOMAIN procQueue PROVE procQueue[k] \in [n : Batches, id : Nat]
    <3>1. PICK r \in [n : Nat, id : Nat] : r = procQueue[k]
      <4> DEFINE S == [n : Nat, id : Nat]
      <4>1. procQueue \in Seq(S)
        BY <2>1
      <4> HIDE DEF S
      <4>2. procQueue[k] \in S
        BY <4>1
      <4> QED BY <4>2 DEF S
    <3>2. r.n \in Batches
      BY <2>1, <3>1
    <3> QED BY <3>1, <3>2
  <2> DEFINE S == [n : Nat, id : Nat]
             T == [n : Batches, id : Nat]
  <2>3. procQueue \in Seq(S) /\ \A k \in DOMAIN procQueue : procQueue[k] \in T
    BY <2>1, <2>2
  <2> HIDE DEF S, T
  <2>4. procQueue \in Seq(T)
    BY <2>3, NarrowerSequence
  <2> QED BY <2>4 DEF T
<1>4. completions \in Seq(Batches \cup {NoItem})
  <2>1. completions \in Seq(Nat \cup {NoItem}) /\ Range(completions) \subseteq Batches \cup {NoItem}
    BY DEF CoreTypes, BatchesInv
  <2>2. \A k \in DOMAIN completions : completions[k] \in Batches \cup {NoItem}
    BY <2>1 DEF Range
  <2> QED BY <2>1, <2>2, NarrowerSequence
<1>5. DOMAIN subBatchOf \subseteq Streams /\ Range(subBatchOf) \subseteq Subs
  BY DEF AssignmentInv, Assignment, OfMaps, Range
<1>6. processor.at \in {"test", "process", "erase", "complete", "return", "ended"}
  BY DEF CoreTypes, ProcessorState, ProcessorPlaces, WithBatch
<1>7. \A b \in Subs : worker[b].at \in {"test", "lock", "waiting", "woken", "remove", "batch",
                                       "complete", "recover", "ending", "ended"}
  BY DEF CoreTypes, WorkerState, WorkerPlaces
<1>8. output.at \in {"test", "lock", "waiting", "woken", "push", "ended"}
  BY DEF CoreTypes, OutputState
<1>9. /\ reqQueue \in [Subs -> Seq(Request)] /\ subRunning \in [Subs -> BOOLEAN]
      /\ offsets \subseteq Streams
  BY DEF CoreTypes, FlagsInv
<1>10. /\ miscOut \subseteq ({0} \cup Subs) \X Batches /\ holders \subseteq Batches
       /\ active \subseteq Streams
       /\ streamer \in {"idle", "convert", "register", "queue", "flush", "mark", "wait", "handle"}
  BY DEF FlagsInv, BatchesInv
<1>11. lib \in [{0} \cup Subs -> SUBSET Streams]
  BY DEF ContextsInv
<1>12. \A i \in DOMAIN pending : i \in Nat /\ pending[i] \in [Subs -> Nat]
  BY DEF PendingInv
<1> QED BY <1>1, <1>2, <1>3, <1>4, <1>5, <1>6, <1>7, <1>8, <1>9, <1>10, <1>11, <1>12 DEF TypeOK

\* An assignment that is in order is the same in both maps.
LEMMA InvImpliesPlaces == AssignmentInv => PlacesAgree
<1> SUFFICES ASSUME AssignmentInv, config.fixed = <<>>, NEW b \in Subs
             PROVE  /\ DOMAIN slots[b] \subseteq 0 .. (config.sizes[b] - 1)
                    /\ \A s \in Streams :
                        Cardinality({i \in DOMAIN slots[b] : slots[b][i] = s})
                            = IF s \in DOMAIN subBatchOf /\ subBatchOf[s] = b THEN 1 ELSE 0
  BY DEF PlacesAgree
<1>1. /\ PlacesOf(subBatchOf, slots[b], b)
      /\ \A s \in DOMAIN subBatchOf :
             \E i \in DOMAIN slots[subBatchOf[s]] : slots[subBatchOf[s]][i] = s
  BY DEF AssignmentInv, Assignment
<1>2. ASSUME NEW s \in Streams
      PROVE  Cardinality({i \in DOMAIN slots[b] : slots[b][i] = s})
                 = IF s \in DOMAIN subBatchOf /\ subBatchOf[s] = b THEN 1 ELSE 0
  <2> DEFINE at == {i \in DOMAIN slots[b] : slots[b][i] = s}
  <2>1. CASE s \in DOMAIN subBatchOf /\ subBatchOf[s] = b
    <3>1. PICK i \in DOMAIN slots[b] : slots[b][i] = s
      BY <1>1, <2>1
    <3>2. at = {i}
      BY <1>1, <3>1 DEF PlacesOf
    <3> QED BY <2>1, <3>2, FS_Singleton
  <2>2. CASE ~(s \in DOMAIN subBatchOf /\ subBatchOf[s] = b)
    <3>1. at = {}
      BY <1>1, <2>2 DEF PlacesOf
    <3> QED BY <2>2, <3>1, FS_EmptySet
  <2> QED BY <2>1, <2>2
<1> QED BY <1>1, <1>2 DEF PlacesOf

\* What a context keeps and no request removes is there in the end.
LEMMA InvImpliesState == TrackerInv /\ AgreeInv => StateFollowsAssignment
<1> SUFFICES ASSUME TrackerInv, AgreeInv, running, errors = 0, NEW b \in Subs, NEW s \in lib[b],
                    ~(worker[b].at = "remove" /\ s \in worker[b].req.frames),
                    ~\E k \in DOMAIN reqQueue[b] : Removes(reqQueue[b][k], s)
             PROVE  s \in DOMAIN subBatchOf /\ subBatchOf[s] = b
  BY DEF StateFollowsAssignment, Removes
<1> USE DEF TrackerInv, AgreeInv
<1>1. ~libError /\ app \notin {"join-output", "stopped"}
  BY DEF ErrorsInv, RestInv, FlagsInv
<1>2. /\ reqQueue[b] \in Seq(Request) /\ lib[b] \in SUBSET Streams
      /\ LoadedAfter(b, Len(reqQueue[b])) \subseteq AssignedTo(b)
  BY <1>1, LoadedTypes DEF ContextInv
<1>3. s \in Loaded(b) /\ s \in Streams
  BY <1>2 DEF Loaded
<1>4. \A j \in 1 .. Len(reqQueue[b]) : ~Removes(reqQueue[b][j], s)
  BY <1>2
<1>5. s \in LoadedAfter(b, Len(reqQueue[b]))
  BY <1>3, <1>4 DEF LoadedAfter, After
<1> QED BY <1>2, <1>5 DEF AssignedTo

\* Together they say that the streams agree.
LEMMA InvImpliesAgree == TrackerInv /\ AgreeInv => StreamsAgree
<1> SUFFICES ASSUME TrackerInv, AgreeInv PROVE StreamsAgree
  OBVIOUS
<1>1. ContextsSuffice
  BY DEF AgreeInv, ContextsInv, ContextInv, ContextsSuffice
<1> QED BY <1>1, InvImpliesTypes, InvImpliesPlaces, InvImpliesState DEF AgreeInv, StreamsAgree

\* The invariant holds in every state of the tracker.
LEMMA AgreeInvariant == Spec => []AgreeInv
  BY TrackerInvariant, InitAgree, StepAgree, PTL DEF Spec

\* A stream mapped to a sub-batch has one place there, a place belongs to a mapped stream, no
\* library context has to keep more streams than it was created for, and what it keeps of a
\* stream that moved it has a request to remove: removeSource queues the removal behind the
\* frames of the stream and ahead of those of the stream that gets its place.
THEOREM StreamsDoAgree == Spec => []StreamsAgree
  BY TrackerInvariant, AgreeInvariant, InvImpliesAgree, PTL
================================================================================
