---------------------------- MODULE StreamMuxProofs ----------------------------
(***************************************************************************)
(* Theorems about StreamMux.                                               *)
(***************************************************************************)
EXTENDS StreamMux, BatchPolicyProofs, FiniteSetTheorems, TLAPS

\* The counters stay unsigned, and 0 is one of their values.
LEMMA WordModulus ==
    /\ 0 \in 0..(Word - 1)
    /\ \A a \in Int : a % Word \in 0..(Word - 1)
<1>1. Word \in Nat /\ Word > 0
  BY StreamMuxAssumption, FS_CardinalityType
<1> QED BY <1>1

\* The oldest k buffers are a downward closed part of the queue.
LEMMA FirstBuffersAreFirst ==
    ASSUME NEW q \in SUBSET Entry, IsFiniteSet(q), NEW k \in Nat
    PROVE  Before(FirstBuffers(q, k), Buffers(q \ FirstBuffers(q, k)))
<1> DEFINE UpTo(b) == {c \in Buffers(q) : c.n <= b.n}
<1> SUFFICES ASSUME NEW b \in FirstBuffers(q, k), NEW d \in Buffers(q \ FirstBuffers(q, k)),
                    ~(b.n < d.n)
             PROVE  FALSE
  BY DEF Before
<1>1. b \in Buffers(q) /\ d \in Buffers(q) /\ b.n \in Nat /\ d.n \in Nat
  BY DEF FirstBuffers, Buffers, Entry
<1>2. UpTo(d) \subseteq UpTo(b)
  BY <1>1 DEF Buffers, Entry
<1>3. IsFiniteSet(UpTo(b)) /\ IsFiniteSet(UpTo(d))
  BY FS_Subset DEF Buffers
<1>4. Cardinality(UpTo(d)) <= Cardinality(UpTo(b))
  BY <1>2, <1>3, FS_Subset
<1>5. Cardinality(UpTo(b)) \in Nat /\ Cardinality(UpTo(d)) \in Nat
  BY <1>3, FS_CardinalityType
<1>6. Cardinality(UpTo(b)) <= k
  BY DEF FirstBuffers
<1>7. d \in FirstBuffers(q, k)
  BY <1>1, <1>4, <1>5, <1>6 DEF FirstBuffers
<1> QED BY <1>7 DEF Buffers

--------------------------------------------------------------------------------
(* Types *)

\* push_events keeps the types, whatever its caller does to the threads.
LEMMA PushEventsTypes ==
    ASSUME CoreTypeOK, PushEvents,
           stream' \in [Pads -> StreamStates], task' \in TaskStates
    PROVE  CoreTypeOK'
<1> DEFINE left == [p \in Pads |-> IF p \in Live THEN queue[p] \ LeadingEvents(queue[p])
                                                 ELSE queue[p]]
           drained == {p \in Live : BecomesIdle(p, left[p])}
           ended == {p \in drained : eos[p]}
<1>1. Cardinality(ended) \in Nat
  BY StreamMuxAssumption, FS_Subset, FS_CardinalityType DEF Live
<1>2. /\ pads_got_eos' = (pads_got_eos + Cardinality(ended)) % Word
      /\ num_sources_eos' = (num_sources_eos + Cardinality(ended)) % Word
  BY DEF PushEvents
<1>3. pads_got_eos' \in 0..(Word - 1) /\ num_sources_eos' \in 0..(Word - 1)
  BY <1>1, <1>2, WordModulus DEF CoreTypeOK
<1>4. all_pads_eos' \in BOOLEAN
  BY DEF PushEvents, CoreTypeOK, AllPadsEos
<1>5. queue' \in [Pads -> SUBSET Entry]
  BY DEF PushEvents, CoreTypeOK, LeadingEvents
<1>6. delivered' \in [Pads -> SUBSET Entry]
  BY DEF PushEvents, CoreTypeOK, LeadingEvents
<1>7. idle' \in [Pads -> BOOLEAN] /\ switched_to_idle' \in [Pads -> BOOLEAN]
  BY DEF PushEvents, CoreTypeOK
<1>8. UNCHANGED <<inputs, eos_sent, pad_task_created, eos, out_batch, app, arrived>>
  BY DEF PushEvents, elementVars
<1> QED BY <1>3, <1>4, <1>5, <1>6, <1>7, <1>8 DEF CoreTypeOK

\* An entry that is queued has the type of an entry.
LEMMA EnqueueTypes ==
    ASSUME CoreTypeOK, NEW p \in Pads, NEW kind \in EventKinds \cup {"buffer"},
           Enqueue(p, kind)
    PROVE  queue' \in [Pads -> SUBSET Entry] /\ arrived' \in [Pads -> Nat]
<1>1. [n |-> arrived[p] + 1, kind |-> kind] \in Entry
  BY DEF CoreTypeOK, Entry
<1> QED BY <1>1 DEF CoreTypeOK, Enqueue

\* Each step of a streaming thread keeps the types.
LEMMA StreamStepTypes ==
    ASSUME CoreTypeOK, NEW p \in Pads, Arrival(p) \/ Handler(p)
    PROVE  CoreTypeOK'
<1> USE DEF CoreTypeOK, helperVars, policyVars, padVars, elementVars, historyVars
<1>1. CASE StreamStart(p)
  BY <1>1 DEF StreamStart, StreamStates
<1>2. CASE QueueStreamStart(p)
  BY <1>2, EnqueueTypes DEF QueueStreamStart, StreamGoes, StreamStates, EventKinds
<1>3. CASE PushStreamStart(p)
  <2>1. PushEvents /\ UNCHANGED task /\ stream' \in [Pads -> StreamStates]
    BY <1>3 DEF PushStreamStart, StreamGoes, StreamStates
  <2> QED BY <2>1, PushEventsTypes
<1>4. CASE Caps(p)
  BY <1>4 DEF Caps, StreamGoes, StreamStates, TaskStates
<1>5. CASE CapsNotAllEos(p)
  BY <1>5 DEF CapsNotAllEos, StreamGoes, StreamStates
<1>6. CASE ResetPad(p)
  <2>1. pads_got_eos' \in 0..(Word - 1) /\ num_sources_eos' \in 0..(Word - 1)
    <3>1. CASE eos[p] /\ num_sources_eos > 0
      <4>1. /\ pads_got_eos' = (pads_got_eos - 1) % Word
            /\ num_sources_eos' = num_sources_eos - 1
        BY <1>6, <3>1 DEF ResetPad
      <4>2. (pads_got_eos - 1) % Word \in 0..(Word - 1)
        BY WordModulus
      <4> QED BY <3>1, <4>1, <4>2, StreamMuxAssumption
    <3>2. CASE ~(eos[p] /\ num_sources_eos > 0)
      BY <1>6, <3>2 DEF ResetPad
    <3> QED BY <3>1, <3>2
  <2>2. all_pads_eos' \in BOOLEAN /\ eos' \in [Pads -> BOOLEAN]
    BY <1>6 DEF ResetPad
  <2>3. stream' \in [Pads -> StreamStates]
    BY <1>6 DEF ResetPad, StreamGoes, StreamStates
  <2> QED BY <1>6, <2>1, <2>2, <2>3 DEF ResetPad
<1>7. CASE Segment(p)
  BY <1>7, EnqueueTypes DEF Segment, StreamStates, EventKinds
<1>8. CASE PushSegment(p)
  <2>1. PushEvents /\ UNCHANGED task /\ stream' \in [Pads -> StreamStates]
    BY <1>8 DEF PushSegment, StreamGoes, StreamStates
  <2> QED BY <2>1, PushEventsTypes
<1>9. CASE AdmitBuffer(p)
  BY <1>9 DEF AdmitBuffer, StreamGoes, StreamStates
<1>10. CASE AddBuffer(p)
  BY <1>10, EnqueueTypes DEF AddBuffer, StreamGoes, StreamStates, EventKinds
<1>11. CASE Eos(p)
  <2>1. stream' \in [Pads -> StreamStates]
    BY <1>11 DEF Eos, StreamStates
  <2>2. CASE eos[p]
    BY <1>11, <2>1, <2>2 DEF Eos
  <2>3. CASE ~eos[p]
    <3>1. queue' \in [Pads -> SUBSET Entry] /\ arrived' \in [Pads -> Nat]
      BY <1>11, <2>3, EnqueueTypes DEF Eos, EventKinds
    <3> QED BY <1>11, <2>1, <2>3, <3>1 DEF Eos
  <2> QED BY <2>2, <2>3
<1>12. CASE PushEos(p)
  <2>1. PushEvents /\ UNCHANGED task /\ stream' \in [Pads -> StreamStates]
    BY <1>12 DEF PushEos, StreamGoes, StreamStates
  <2> QED BY <2>1, PushEventsTypes
<1>13. CASE FlushStop(p)
  BY <1>13 DEF FlushStop, StreamStates
<1>14. CASE FlushStopEosNotSent(p)
  BY <1>14 DEF FlushStopEosNotSent, StreamGoes, StreamStates
<1>15. CASE Configure(p)
  BY <1>15, WordModulus DEF Configure, StreamGoes, StreamStates
<1>16. CASE CapsEosNotSent(p)
  BY <1>16 DEF CapsEosNotSent, StreamGoes, StreamStates
<1> QED BY <1>1, <1>2, <1>3, <1>4, <1>5, <1>6, <1>7, <1>8, <1>9, <1>10, <1>11, <1>12,
        <1>13, <1>14, <1>15, <1>16 DEF Arrival, Handler

\* Each step of the source task keeps the types.
LEMMA TaskStepTypes ==
    ASSUME CoreTypeOK, Task
    PROVE  CoreTypeOK'
<1> USE DEF CoreTypeOK, taskOnly, helperVars, policyVars, padVars, elementVars, historyVars
<1>1. CASE TaskTop
  BY <1>1 DEF TaskTop, TaskGoes, TaskStates
<1>2. CASE TaskDrain
  <2>1. PushEvents /\ UNCHANGED stream /\ task' \in TaskStates
    BY <1>2 DEF TaskDrain, TaskGoes, TaskStates
  <2> QED BY <2>1, PushEventsTypes
<1>3. CASE TaskAllocate
  BY <1>3 DEF TaskAllocate, TaskGoes, TaskStates
<1>4. CASE TaskTest
  BY <1>4 DEF TaskTest, TaskGoes, TaskStates
<1>5. CASE TaskEventsFirst
  <2>1. PushEvents /\ UNCHANGED stream /\ task' \in TaskStates
    BY <1>5 DEF TaskEventsFirst, TaskGoes, TaskStates
  <2> QED BY <2>1, PushEventsTypes
<1>6. CASE TaskForm
  BY <1>6 DEF TaskForm, TaskGoes, TaskStates
<1>7. CASE TaskLoopEnds
  BY <1>7 DEF TaskLoopEnds, TaskGoes, TaskStates
<1>8. CASE TaskWakeEmpty
  BY <1>8 DEF TaskWakeEmpty, TaskGoes, TaskStates
<1>9. CASE TaskEventsWaited
  <2>1. PushEvents /\ UNCHANGED stream /\ task' \in TaskStates
    BY <1>9 DEF TaskEventsWaited, TaskGoes, TaskStates
  <2> QED BY <2>1, PushEventsTypes
<1>10. CASE TaskDecide
  BY <1>10 DEF TaskDecide, TaskGoes, TaskStates
<1>11. CASE TaskEvents
  <2>1. PushEvents /\ UNCHANGED stream /\ task' \in TaskStates
    BY <1>11 DEF TaskEvents, TaskGoes, TaskStates
  <2> QED BY <2>1, PushEventsTypes
<1>12. CASE TaskCopy
  <2> DEFINE taken(c) == [p \in Pads |-> IF p \in DOMAIN c THEN FirstBuffers(queue[p], c[p])
                                                          ELSE {}]
             left(c) == [p \in Pads |-> CountAfter(buffer_count[p],
                Cardinality(taken(c)[p]))]
  <2>1. PICK c \in Copies :
            /\ out_batch' = taken(c)
            /\ queue' = [p \in Pads |-> queue[p] \ taken(c)[p]]
            /\ stream' = [p \in Pads |->
                   IF /\ stream[p] = "blocked" /\ taken(c)[p] # {}
                      /\ HasRoom(left(c)[p], max_buffer_count[p])
                   THEN "admitted" ELSE stream[p]]
    BY <1>12 DEF TaskCopy
  <2>2. out_batch' \in [Pads -> SUBSET Entry] /\ queue' \in [Pads -> SUBSET Entry]
    BY <2>1 DEF FirstBuffers, Buffers
  <2>3. stream' \in [Pads -> StreamStates]
    BY <2>1 DEF StreamStates
  <2>4. inputs' \in [Pads -> {"none", "null", "pad"}]
    BY <1>12 DEF TaskCopy
  <2> QED BY <1>12, <2>2, <2>3, <2>4 DEF TaskCopy, TaskGoes, TaskStates
<1>13. CASE TaskPush
  BY <1>13 DEF TaskPush, TaskGoes, TaskStates
<1>14. CASE TaskTail
  <2>1. PushEvents /\ UNCHANGED stream /\ task' \in TaskStates
    BY <1>14 DEF TaskTail, TaskGoes, TaskStates
  <2> QED BY <2>1, PushEventsTypes
<1>15. CASE TaskReadEos
  BY <1>15 DEF TaskReadEos, TaskGoes, TaskStates
<1>16. CASE TaskPushEos
  BY <1>16 DEF TaskPushEos, TaskGoes, TaskStates
<1>17. CASE TaskSkipEos
  BY <1>17 DEF TaskSkipEos, TaskGoes, TaskStates
<1>18. ASSUME NEW accepted \in BOOLEAN, TaskEosReturned(accepted)
      PROVE  CoreTypeOK'
  BY <1>18 DEF TaskEosReturned, TaskGoes, TaskStates
<1> QED BY <1>1, <1>2, <1>3, <1>4, <1>5, <1>6, <1>7, <1>8, <1>9, <1>10, <1>11, <1>12,
        <1>13, <1>14, <1>15, <1>16, <1>17, <1>18 DEF Task

\* The pad leaves the map; only the counters remain to be looked at.
LEMMA ErasePadTypes ==
    ASSUME CoreTypeOK, NEW p \in Pads, ErasePad(p)
    PROVE  /\ inputs' \in [Pads -> {"none", "null", "pad"}]
           /\ queue' \in [Pads -> SUBSET Entry]
           /\ all_pads_eos' \in BOOLEAN
           /\ app' \in [op : AppStates, pad : Pads \cup {"none"}]
  BY DEF ErasePad, CoreTypeOK, AppStates

\* Each step of the application thread keeps the types.
LEMMA AppStepTypes ==
    ASSUME CoreTypeOK, AppContinues \/ AppStarts
    PROVE  CoreTypeOK'
<1> USE DEF CoreTypeOK, AppStates, helperVars, policyVars, padVars, elementVars,
            threadVars, historyVars
<1>1. CASE Requested
  BY <1>1 DEF Requested, Idle
<1>2. CASE HandleStop
  BY <1>2 DEF HandleStop, AppGoes, StopOps
<1>3. CASE JoinTask
  BY <1>3 DEF JoinTask, AppGoes, StopOps, TaskStates
<1>4. CASE ResetStop
  BY <1>4 DEF ResetStop, AppGoes, StopOps
<1>5. CASE Restart
  BY <1>5 DEF Restart, Idle, StreamStates
<1>6. CASE Stop
  BY <1>6 DEF Stop, AppGoes, StopOps
<1>7. ASSUME NEW p \in Pads, AddPad(p)
      PROVE  CoreTypeOK'
  BY <1>7 DEF AddPad, StreamStates
<1>8. ASSUME NEW p \in Pads, RemovePad(p)
      PROVE  CoreTypeOK'
  <2>1. pads_got_eos' \in 0..(Word - 1) /\ num_sources_eos' \in 0..(Word - 1)
    <3>1. /\ (num_sources_eos - 1) % Word \in 0..(Word - 1)
          /\ (pads_got_eos - 1) % Word \in 0..(Word - 1)
      BY WordModulus
    <3> QED BY <1>8, <3>1 DEF RemovePad
  <2>2. CASE eos[p]
    BY <1>8, <2>1, <2>2, ErasePadTypes DEF RemovePad
  <2>3. CASE ~eos[p]
    BY <1>8, <2>1, <2>3 DEF RemovePad
  <2> QED BY <2>2, <2>3
<1>9. ASSUME NEW p \in Pads, RemovePadTimeout(p)
      PROVE  CoreTypeOK'
  <2>1. (pads_got_eos + 1) % Word \in 0..(Word - 1)
    BY WordModulus
  <2> QED BY <1>9, <2>1, ErasePadTypes DEF RemovePadTimeout
<1>10. ASSUME NEW p \in Pads, Released(p)
      PROVE  CoreTypeOK'
  BY <1>10 DEF Released, Idle, StreamStates
<1>11. ASSUME NEW p \in Pads, Deactivate(p)
      PROVE  CoreTypeOK'
  BY <1>11 DEF Deactivate, StreamStates
<1>12. ASSUME NEW p \in Pads, Request(p)
      PROVE  CoreTypeOK'
  BY <1>12 DEF Request, AppGoes
<1>13. ASSUME NEW p \in Pads, Release(p)
      PROVE  CoreTypeOK'
  BY <1>13 DEF Release, AppGoes, StreamStates
<1> QED BY <1>1, <1>2, <1>3, <1>4, <1>5, <1>6, <1>7, <1>8, <1>9, <1>10, <1>11, <1>12,
        <1>13 DEF AppContinues, AppStarts

\* The variables of the queues, the EOS accounting and the threads keep their
\* types in every behaviour: the counters stay unsigned although the code
\* decrements them unconditionally (remove_pad, reset_pad).
THEOREM TypeCorrect == Spec => []CoreTypeOK
<1>1. Init => CoreTypeOK
  <2> SUFFICES ASSUME Init PROVE CoreTypeOK
    OBVIOUS
  <2> QED BY WordModulus DEF Init, CoreTypeOK, Idle, AppStates, StreamStates, TaskStates
<1>2. CoreTypeOK /\ [Next]_vars => CoreTypeOK'
  <2> SUFFICES ASSUME CoreTypeOK, [Next]_vars PROVE CoreTypeOK'
    OBVIOUS
  <2>1. CASE \E p \in Pads : Arrival(p) \/ Handler(p)
    BY <2>1, StreamStepTypes
  <2>2. CASE Task
    BY <2>2, TaskStepTypes
  <2>3. CASE Timeout
    BY <2>3 DEF Timeout, CoreTypeOK, helperVars, padVars, elementVars, threadVars,
       historyVars
  <2>4. CASE AppContinues \/ AppStarts
    BY <2>4, AppStepTypes
  <2>5. CASE UNCHANGED vars
    BY <2>5 DEF vars, CoreTypeOK, helperVars, policyVars, padVars, elementVars, threadVars,
                historyVars
  <2> QED BY <2>1, <2>2, <2>3, <2>4, <2>5 DEF Next
<1> QED BY <1>1, <1>2, PTL DEF Spec

--------------------------------------------------------------------------------
(* The order of the buffers *)

\* BuffersInOrder is not inductive: a batch must not be in flight while the
\* next one is copied, and a new entry is younger than all before it only if
\* arrived bounds the numbers given so far.  Finite queues make "the first k"
\* well defined.
OrderInv ==
    /\ task # "push" => \A p \in Pads : out_batch[p] = {}
    /\ \A p \in Pads : IsFiniteSet(queue[p])
    /\ \A p \in Pads : \A e \in queue[p] \cup out_batch[p] \cup delivered[p] :
           e.n <= arrived[p]
    /\ BuffersInOrder

\* Entries may leave the queues as long as the batch in flight stays.
LEMMA ShrinkingKeepsOrder ==
    ASSUME CoreTypeOK, OrderInv,
           \A p \in Pads : queue'[p] \subseteq queue[p],
           UNCHANGED <<out_batch, delivered, arrived>>,
           task' = "push" <=> task = "push"
    PROVE  OrderInv'
<1>1. \A p \in Pads : IsFiniteSet(queue'[p])
  BY FS_Subset DEF OrderInv
<1>2. BuffersInOrder'
  BY DEF OrderInv, BuffersInOrder, Before, Buffers, InFlight
<1> QED BY <1>1, <1>2 DEF OrderInv

\* push_events moves events only.
LEMMA PushEventsKeepsOrder ==
    ASSUME CoreTypeOK, OrderInv, PushEvents, task' = "push" <=> task = "push"
    PROVE  OrderInv'
<1>1. \A p \in Pads : /\ queue'[p] \subseteq queue[p]
                      /\ delivered'[p] \subseteq delivered[p] \cup queue[p]
                      /\ Buffers(delivered'[p]) = Buffers(delivered[p])
  BY DEF PushEvents, LeadingEvents, Buffers, CoreTypeOK
<1>2. UNCHANGED <<out_batch, arrived>>
  BY DEF PushEvents, elementVars
<1>3. \A p \in Pads : IsFiniteSet(queue'[p])
  BY <1>1, FS_Subset DEF OrderInv
<1>4. BuffersInOrder'
  BY <1>1, <1>2 DEF OrderInv, BuffersInOrder, Before, Buffers, InFlight
<1>5. \A p \in Pads : \A e \in queue'[p] \cup out_batch'[p] \cup delivered'[p] :
         e.n <= arrived'[p]
  BY <1>1, <1>2 DEF OrderInv
<1>6. task' # "push" => \A p \in Pads : out_batch'[p] = {}
  BY <1>2 DEF OrderInv
<1> QED BY <1>3, <1>4, <1>5, <1>6 DEF OrderInv

\* queue_entry gives the new entry the greatest number so far.
LEMMA EnqueueKeepsOrder ==
    ASSUME CoreTypeOK, OrderInv, NEW p \in Pads, NEW kind \in EventKinds \cup {"buffer"},
           Enqueue(p, kind), UNCHANGED <<out_batch, delivered, task>>
    PROVE  OrderInv'
<1> DEFINE new == [n |-> arrived[p] + 1, kind |-> kind]
<1>1. /\ queue'[p] = queue[p] \cup {new}
      /\ arrived'[p] = arrived[p] + 1
      /\ \A r \in Pads \ {p} : queue'[r] = queue[r] /\ arrived'[r] = arrived[r]
  BY DEF Enqueue, CoreTypeOK
<1>2. new.n = arrived[p] + 1 /\ arrived[p] \in Nat
  BY DEF CoreTypeOK
<1>3. \A r \in Pads : \A e \in queue[r] \cup out_batch[r] \cup delivered[r] : e.n \in Nat
  BY DEF CoreTypeOK, Entry
<1>4. \A r \in Pads : IsFiniteSet(queue'[r])
  <2>1. IsFiniteSet(queue[p] \cup {new})
    BY FS_AddElement DEF OrderInv
  <2> QED BY <1>1, <2>1 DEF OrderInv
<1>5. \A r \in Pads : \A e \in queue'[r] \cup out_batch'[r] \cup delivered'[r] :
         e.n <= arrived'[r]
  BY <1>1, <1>2, <1>3 DEF OrderInv
<1>6. \A e \in out_batch[p] \cup delivered[p] : e.n < new.n
  BY <1>2, <1>3 DEF OrderInv
<1>7. BuffersInOrder'
  BY <1>1, <1>6 DEF OrderInv, BuffersInOrder, Before, Buffers, InFlight
<1>8. task' # "push" => \A r \in Pads : out_batch'[r] = {}
  BY DEF OrderInv
<1> QED BY <1>4, <1>5, <1>7, <1>8 DEF OrderInv

\* copy_batch takes the oldest buffers of each queue.
LEMMA CopyKeepsOrder ==
    ASSUME CoreTypeOK, OrderInv, TaskCopy
    PROVE  OrderInv'
<1> DEFINE taken(c) == [p \in Pads |-> IF p \in DOMAIN c THEN FirstBuffers(queue[p], c[p])
                                                        ELSE {}]
<1>1. PICK c \in Copies : /\ out_batch' = taken(c)
                         /\ queue' = [p \in Pads |-> queue[p] \ taken(c)[p]]
  BY DEF TaskCopy
<1>2. /\ UNCHANGED <<delivered, arrived>> /\ task' = "push"
      /\ \A p \in Pads : out_batch[p] = {}
  BY DEF TaskCopy, TaskGoes, historyVars, OrderInv
<1>3. c \in [DOMAIN c -> 0..MaxSame]
  BY DEF Copies
<1>4. ASSUME NEW p \in Pads
      PROVE  /\ out_batch'[p] \subseteq Buffers(queue[p])
             /\ queue'[p] \subseteq queue[p]
             /\ IsFiniteSet(queue'[p])
             /\ Before(Buffers(out_batch'[p]), Buffers(queue'[p]))
  <2>1. queue[p] \in SUBSET Entry /\ IsFiniteSet(queue[p])
    BY DEF CoreTypeOK, OrderInv
  <2>2. out_batch'[p] \subseteq Buffers(queue[p]) /\ queue'[p] = queue[p] \ out_batch'[p]
    BY <1>1 DEF FirstBuffers
  <2>3. CASE p \in DOMAIN c
    <3>1. c[p] \in Nat
      BY <1>3, <2>3, StreamMuxAssumption
    <3>2. out_batch'[p] = FirstBuffers(queue[p], c[p])
      BY <1>1, <2>3
    <3> QED BY <2>1, <2>2, <3>1, <3>2, FirstBuffersAreFirst, FS_Subset DEF Before, Buffers
  <2>4. CASE p \notin DOMAIN c
    BY <1>1, <2>1, <2>2, <2>4, FS_Subset DEF Before, Buffers
  <2> QED BY <2>3, <2>4
<1>5. BuffersInOrder'
  BY <1>2, <1>4 DEF OrderInv, BuffersInOrder, Before, Buffers, InFlight
<1>6. \A p \in Pads : \A e \in queue'[p] \cup out_batch'[p] \cup delivered'[p] :
         e.n <= arrived'[p]
  BY <1>2, <1>4 DEF OrderInv, Buffers
<1> QED BY <1>2, <1>4, <1>5, <1>6 DEF OrderInv

\* push_batch sends what is older than everything that waits.
LEMMA PushKeepsOrder ==
    ASSUME CoreTypeOK, OrderInv, TaskPush
    PROVE  OrderInv'
<1>1. /\ UNCHANGED <<queue, arrived>>
      /\ \A p \in Pads : /\ out_batch'[p] = {}
                         /\ delivered'[p] = delivered[p] \cup out_batch[p]
  BY DEF TaskPush, padVars, CoreTypeOK
<1>2. BuffersInOrder'
  BY <1>1 DEF OrderInv, BuffersInOrder, Before, Buffers, InFlight
<1> QED BY <1>1, <1>2 DEF OrderInv

\* Each step of a streaming thread keeps the order.
LEMMA StreamStepOrder ==
    ASSUME CoreTypeOK, OrderInv, NEW p \in Pads, Arrival(p) \/ Handler(p)
    PROVE  OrderInv'
<1> USE DEF helperVars, policyVars, padVars, elementVars, historyVars
<1>1. CASE StreamStart(p)
  BY <1>1, ShrinkingKeepsOrder DEF StreamStart
<1>2. CASE Caps(p)
  BY <1>2, ShrinkingKeepsOrder DEF Caps
<1>3. CASE CapsNotAllEos(p)
  BY <1>3, ShrinkingKeepsOrder DEF CapsNotAllEos
<1>4. CASE ResetPad(p)
  BY <1>4, ShrinkingKeepsOrder DEF ResetPad
<1>5. CASE AdmitBuffer(p)
  BY <1>5, ShrinkingKeepsOrder DEF AdmitBuffer
<1>6. CASE FlushStop(p)
  BY <1>6, ShrinkingKeepsOrder DEF FlushStop
<1>7. CASE FlushStopEosNotSent(p)
  BY <1>7, ShrinkingKeepsOrder DEF FlushStopEosNotSent
<1>8. CASE PushStreamStart(p)
  BY <1>8, PushEventsKeepsOrder DEF PushStreamStart
<1>9. CASE PushSegment(p)
  BY <1>9, PushEventsKeepsOrder DEF PushSegment
<1>10. CASE PushEos(p)
  BY <1>10, PushEventsKeepsOrder DEF PushEos
<1>11. CASE QueueStreamStart(p)
  BY <1>11, EnqueueKeepsOrder DEF QueueStreamStart, EventKinds
<1>12. CASE Segment(p)
  BY <1>12, EnqueueKeepsOrder DEF Segment, EventKinds
<1>13. CASE AddBuffer(p)
  BY <1>13, EnqueueKeepsOrder DEF AddBuffer, EventKinds
<1>14. CASE Eos(p)
  <2>1. CASE eos[p]
    BY <1>14, <2>1, ShrinkingKeepsOrder DEF Eos
  <2>2. CASE ~eos[p]
    BY <1>14, <2>2, EnqueueKeepsOrder DEF Eos, EventKinds
  <2> QED BY <2>1, <2>2
<1>15. CASE Configure(p)
  BY <1>15, ShrinkingKeepsOrder DEF Configure
<1>16. CASE CapsEosNotSent(p)
  BY <1>16, ShrinkingKeepsOrder DEF CapsEosNotSent
<1> QED BY <1>1, <1>2, <1>3, <1>4, <1>5, <1>6, <1>7, <1>8, <1>9, <1>10, <1>11, <1>12,
        <1>13, <1>14, <1>15, <1>16 DEF Arrival, Handler

\* Each step of the source task keeps the order.
LEMMA TaskStepOrder ==
    ASSUME CoreTypeOK, OrderInv, Task
    PROVE  OrderInv'
<1> USE DEF taskOnly, helperVars, policyVars, padVars, elementVars, historyVars, TaskGoes
<1>1. CASE TaskTop
  BY <1>1, ShrinkingKeepsOrder DEF TaskTop
<1>2. CASE TaskAllocate
  BY <1>2, ShrinkingKeepsOrder DEF TaskAllocate
<1>3. CASE TaskTest
  BY <1>3, ShrinkingKeepsOrder DEF TaskTest
<1>4. CASE TaskForm
  BY <1>4, ShrinkingKeepsOrder DEF TaskForm
<1>5. CASE TaskLoopEnds
  BY <1>5, ShrinkingKeepsOrder DEF TaskLoopEnds
<1>6. CASE TaskWakeEmpty
  BY <1>6, ShrinkingKeepsOrder DEF TaskWakeEmpty
<1>7. CASE TaskDecide
  BY <1>7, ShrinkingKeepsOrder DEF TaskDecide
<1>8. CASE TaskReadEos
  BY <1>8, ShrinkingKeepsOrder DEF TaskReadEos
<1>9. CASE TaskPushEos
  BY <1>9, ShrinkingKeepsOrder DEF TaskPushEos
<1>10. CASE TaskSkipEos
  BY <1>10, ShrinkingKeepsOrder DEF TaskSkipEos
<1>11. CASE TaskDrain
  BY <1>11, PushEventsKeepsOrder DEF TaskDrain
<1>12. CASE TaskEventsFirst
  BY <1>12, PushEventsKeepsOrder DEF TaskEventsFirst
<1>13. CASE TaskEventsWaited
  BY <1>13, PushEventsKeepsOrder DEF TaskEventsWaited
<1>14. CASE TaskEvents
  BY <1>14, PushEventsKeepsOrder DEF TaskEvents
<1>15. CASE TaskTail
  BY <1>15, PushEventsKeepsOrder DEF TaskTail
<1>16. ASSUME NEW accepted \in BOOLEAN, TaskEosReturned(accepted)
      PROVE  OrderInv'
  BY <1>16, ShrinkingKeepsOrder DEF TaskEosReturned
<1> QED BY CopyKeepsOrder, PushKeepsOrder, <1>1, <1>2, <1>3, <1>4, <1>5, <1>6, <1>7,
        <1>8, <1>9, <1>10, <1>11, <1>12, <1>13, <1>14, <1>15, <1>16 DEF Task

\* Each step of the application thread keeps the order: queues are at most
\* emptied.
LEMMA AppStepOrder ==
    ASSUME CoreTypeOK, OrderInv, AppContinues \/ AppStarts
    PROVE  OrderInv'
<1> USE ShrinkingKeepsOrder DEF helperVars, policyVars, padVars, elementVars, threadVars,
                                historyVars
<1>1. CASE Requested
  BY <1>1 DEF Requested
<1>2. CASE HandleStop
  BY <1>2 DEF HandleStop, CoreTypeOK
<1>3. CASE JoinTask
  BY <1>3 DEF JoinTask
<1>4. CASE ResetStop
  BY <1>4 DEF ResetStop
<1>5. CASE Restart
  BY <1>5 DEF Restart
<1>6. CASE Stop
  BY <1>6 DEF Stop
<1>7. ASSUME NEW p \in Pads, AddPad(p)
      PROVE  OrderInv'
  BY <1>7 DEF AddPad
<1>8. ASSUME NEW p \in Pads, RemovePad(p)
      PROVE  OrderInv'
  <2>1. /\ \A r \in Pads : queue'[r] \subseteq queue[r]
        /\ UNCHANGED <<out_batch, delivered, arrived, task>>
    BY <1>8 DEF RemovePad, ErasePad, CoreTypeOK
  <2> QED BY <2>1
<1>9. ASSUME NEW p \in Pads, RemovePadTimeout(p)
      PROVE  OrderInv'
  <2>1. \A r \in Pads : queue'[r] \subseteq queue[r]
    BY <1>9 DEF RemovePadTimeout, ErasePad, CoreTypeOK
  <2> QED BY <1>9, <2>1 DEF RemovePadTimeout
<1>10. ASSUME NEW p \in Pads, Released(p)
      PROVE  OrderInv'
  BY <1>10 DEF Released
<1>11. ASSUME NEW p \in Pads, Deactivate(p)
      PROVE  OrderInv'
  BY <1>11 DEF Deactivate
<1>12. ASSUME NEW p \in Pads, Request(p)
      PROVE  OrderInv'
  BY <1>12 DEF Request
<1>13. ASSUME NEW p \in Pads, Release(p)
      PROVE  OrderInv'
  BY <1>13 DEF Release
<1> QED BY <1>1, <1>2, <1>3, <1>4, <1>5, <1>6, <1>7, <1>8, <1>9, <1>10, <1>11, <1>12,
        <1>13 DEF AppContinues, AppStarts

\* The inductive invariant of the order holds in every behaviour.
LEMMA OrderInvariant == Spec => []OrderInv
<1>1. Init => OrderInv
  BY FS_EmptySet DEF Init, OrderInv, BuffersInOrder, Before, Buffers, InFlight
<1>2. CoreTypeOK /\ OrderInv /\ [Next]_vars => OrderInv'
  <2> SUFFICES ASSUME CoreTypeOK, OrderInv, [Next]_vars PROVE OrderInv'
    OBVIOUS
  <2>1. CASE \E p \in Pads : Arrival(p) \/ Handler(p)
    BY <2>1, StreamStepOrder
  <2>2. CASE Task
    BY <2>2, TaskStepOrder
  <2>3. CASE Timeout \/ UNCHANGED vars
    BY <2>3, ShrinkingKeepsOrder DEF Timeout, vars, padVars, elementVars, threadVars,
       historyVars
  <2>4. CASE AppContinues \/ AppStarts
    BY <2>4, AppStepOrder
  <2> QED BY <2>1, <2>2, <2>3, <2>4 DEF Next
<1> QED BY <1>1, <1>2, TypeCorrect, PTL DEF Spec

\* Whatever applications and sources do, for every number of pads, every batch
\* size and both ways of sizing a batch, the buffers of a stream leave the
\* muxer in the order in which they arrived (copy_batch, push_batch, add_buffer).
THEOREM OrderKept == Spec => []BuffersInOrder
<1>1. OrderInv => BuffersInOrder
  BY DEF OrderInv
<1> QED BY <1>1, OrderInvariant, PTL

--------------------------------------------------------------------------------
(* Nothing is lost *)

\* The three places where the first n entries of a pad can be.
Complete(waiting, moving, gone, n) ==
    /\ IsFiniteSet(waiting) /\ IsFiniteSet(moving) /\ IsFiniteSet(gone)
    /\ waiting \cap moving = {} /\ waiting \cap gone = {} /\ moving \cap gone = {}
    /\ {e.n : e \in waiting \cup moving \cup gone} = 1..n
    /\ Cardinality(waiting) + Cardinality(moving) + Cardinality(gone) = n

\* A set moved out of one finite set into a disjoint one is counted once.
LEMMA MoveKeepsCount ==
    ASSUME NEW S, NEW T, NEW M, IsFiniteSet(S), IsFiniteSet(T), S \cap T = {}, M \subseteq S
    PROVE  /\ IsFiniteSet(S \ M) /\ IsFiniteSet(T \cup M)
           /\ Cardinality(S \ M) + Cardinality(T \cup M) = Cardinality(S) + Cardinality(T)
<1>1. IsFiniteSet(M) /\ IsFiniteSet(S \ M) /\ IsFiniteSet(T \cup M)
  BY FS_Subset, FS_Union
<1>2. /\ Cardinality(S) \in Nat /\ Cardinality(T) \in Nat /\ Cardinality(M) \in Nat
      /\ Cardinality(S \ M) \in Nat
  BY <1>1, FS_CardinalityType
<1>3. Cardinality(T \cup M) = Cardinality(T) + Cardinality(M)
  <2>1. T \cap M = {}
    OBVIOUS
  <2>2. Cardinality(T \cup M) = Cardinality(T) + Cardinality(M) - Cardinality(T \cap M)
    BY <1>1, FS_Union
  <2>3. Cardinality(T \cap M) = 0
    BY <2>1, FS_EmptySet
  <2> QED BY <1>2, <2>2, <2>3
<1>4. Cardinality(S) = Cardinality(S \ M) + Cardinality(M)
  <2>1. (S \ M) \cap M = {} /\ (S \ M) \cup M = S
    OBVIOUS
  <2>2. Cardinality((S \ M) \cup M) =
           Cardinality(S \ M) + Cardinality(M) - Cardinality((S \ M) \cap M)
    BY <1>1, FS_Union
  <2>3. Cardinality((S \ M) \cap M) = 0
    BY <2>1, FS_EmptySet
  <2> QED BY <1>2, <2>1, <2>2, <2>3
<1> QED BY <1>1, <1>2, <1>3, <1>4

\* An entry with the next number joins the queue (queue_entry).
LEMMA AddKeepsComplete ==
    ASSUME NEW Q, NEW O, NEW D, NEW n \in Nat, Complete(Q, O, D, n), NEW e, e.n = n + 1
    PROVE  Complete(Q \cup {e}, O, D, n + 1)
<1>1. e \notin Q \cup O \cup D
  <2>1. n + 1 \notin 1..n
    OBVIOUS
  <2> QED BY <2>1 DEF Complete
<1>2. IsFiniteSet(Q \cup {e}) /\ Cardinality(Q \cup {e}) = Cardinality(Q) + 1
  BY <1>1, FS_AddElement DEF Complete
<1>3. {x.n : x \in (Q \cup {e}) \cup O \cup D} = (1..n) \cup {n + 1}
  BY DEF Complete
<1>4. (1..n) \cup {n + 1} = 1..(n + 1)
  OBVIOUS
<1>5. Cardinality(Q) \in Nat /\ Cardinality(O) \in Nat /\ Cardinality(D) \in Nat
  BY FS_CardinalityType DEF Complete
<1>6. Cardinality(Q) + Cardinality(O) + Cardinality(D) = n
  BY DEF Complete
<1>7. Cardinality(Q \cup {e}) + Cardinality(O) + Cardinality(D) = n + 1
  BY <1>2, <1>5, <1>6
<1> QED BY <1>1, <1>2, <1>3, <1>4, <1>7 DEF Complete

\* Entries go from the queue downstream (push_events).
LEMMA EventsKeepComplete ==
    ASSUME NEW Q, NEW O, NEW D, NEW n \in Nat, Complete(Q, O, D, n), NEW M, M \subseteq Q
    PROVE  Complete(Q \ M, O, D \cup M, n)
<1>1. /\ IsFiniteSet(Q \ M) /\ IsFiniteSet(D \cup M)
      /\ Cardinality(Q \ M) + Cardinality(D \cup M) = Cardinality(Q) + Cardinality(D)
  BY MoveKeepsCount DEF Complete
<1>2. /\ Cardinality(Q) \in Nat /\ Cardinality(O) \in Nat /\ Cardinality(D) \in Nat
      /\ Cardinality(Q \ M) \in Nat /\ Cardinality(D \cup M) \in Nat
  BY <1>1, FS_CardinalityType DEF Complete
<1>3. Cardinality(Q) + Cardinality(O) + Cardinality(D) = n
  BY DEF Complete
<1>4. (Q \ M) \cup O \cup (D \cup M) = Q \cup O \cup D
  OBVIOUS
<1>5. Cardinality(Q \ M) + Cardinality(O) + Cardinality(D \cup M) = n
  BY <1>1, <1>2, <1>3
<1> QED BY <1>1, <1>4, <1>5 DEF Complete

\* Entries go from the queue into the empty output buffer (copy_batch).
LEMMA CopyKeepsComplete ==
    ASSUME NEW Q, NEW D, NEW n \in Nat, Complete(Q, {}, D, n), NEW M, M \subseteq Q
    PROVE  Complete(Q \ M, M, D, n)
<1>1. /\ IsFiniteSet(Q \ M) /\ IsFiniteSet({} \cup M)
      /\ Cardinality(Q \ M) + Cardinality({} \cup M) = Cardinality(Q) + Cardinality({})
  BY MoveKeepsCount DEF Complete
<1>2. {} \cup M = M
  OBVIOUS
<1>3. /\ Cardinality(Q) \in Nat /\ Cardinality(D) \in Nat /\ Cardinality({}) \in Nat
      /\ Cardinality(Q \ M) \in Nat /\ Cardinality(M) \in Nat
  BY <1>1, <1>2, FS_CardinalityType DEF Complete
<1>4. Cardinality(Q) + Cardinality({}) + Cardinality(D) = n
  BY DEF Complete
<1>5. (Q \ M) \cup M \cup D = Q \cup {} \cup D
  OBVIOUS
<1>6. Cardinality(Q \ M) + Cardinality(M) + Cardinality(D) = n
  BY <1>1, <1>2, <1>3, <1>4
<1> QED BY <1>1, <1>2, <1>5, <1>6 DEF Complete

\* The output buffer goes downstream (push_batch).
LEMMA PushKeepsComplete ==
    ASSUME NEW Q, NEW O, NEW D, NEW n \in Nat, Complete(Q, O, D, n)
    PROVE  Complete(Q, {}, D \cup O, n)
<1>1. /\ IsFiniteSet(O \ O) /\ IsFiniteSet(D \cup O)
      /\ Cardinality(O \ O) + Cardinality(D \cup O) = Cardinality(O) + Cardinality(D)
  BY MoveKeepsCount DEF Complete
<1>2. O \ O = {}
  OBVIOUS
<1>3. /\ Cardinality(Q) \in Nat /\ Cardinality(O) \in Nat /\ Cardinality(D) \in Nat
      /\ Cardinality({}) \in Nat /\ Cardinality(D \cup O) \in Nat
  BY <1>1, <1>2, FS_CardinalityType DEF Complete
<1>4. Cardinality(Q) + Cardinality(O) + Cardinality(D) = n
  BY DEF Complete
<1>5. Q \cup {} \cup (D \cup O) = Q \cup O \cup D
  OBVIOUS
<1>6. Cardinality(Q) + Cardinality({}) + Cardinality(D \cup O) = n
  BY <1>1, <1>2, <1>3, <1>4
<1> QED BY <1>1, <1>2, <1>5, <1>6 DEF Complete

\* As long as no pad is released and the element is not stopped, the first
\* entries of each pad are complete.  A batch is in flight only while it is
\* pushed, so that copy_batch fills an empty output buffer.
CompleteInv ==
    /\ app.op \in {"idle", "request", "requested"}
    /\ \A p \in Pads : Complete(queue[p], out_batch[p], delivered[p], arrived[p])

\* No pad is released and the element is not stopped.
NeverTakenAway == Env \cap {"release-drained", "release-early", "stop"} = {}

\* A step that moves no entry.
LEMMA StandingKeepsComplete ==
    ASSUME CompleteInv, UNCHANGED <<queue, out_batch, delivered, arrived>>,
           app'.op \in {"idle", "request", "requested"}
    PROVE  CompleteInv'
  BY DEF CompleteInv

\* push_events moves entries of live pads downstream.
LEMMA PushEventsKeepsAll ==
    ASSUME CoreTypeOK, CompleteInv, PushEvents
    PROVE  CompleteInv'
<1>1. UNCHANGED <<out_batch, arrived, app>>
  BY DEF PushEvents, elementVars
<1>2. ASSUME NEW p \in Pads
      PROVE  Complete(queue'[p], out_batch'[p], delivered'[p], arrived'[p])
  <2>1. Complete(queue[p], out_batch[p], delivered[p], arrived[p]) /\ arrived[p] \in Nat
    BY DEF CompleteInv, CoreTypeOK
  <2>2. CASE p \in Live
    <3>1. /\ queue'[p] = queue[p] \ LeadingEvents(queue[p])
          /\ delivered'[p] = delivered[p] \cup LeadingEvents(queue[p])
      BY <2>2 DEF PushEvents
    <3>2. LeadingEvents(queue[p]) \subseteq queue[p]
      BY DEF LeadingEvents
    <3>3. Complete(queue[p] \ LeadingEvents(queue[p]), out_batch[p],
                   delivered[p] \cup LeadingEvents(queue[p]), arrived[p])
      BY <2>1, <3>2, EventsKeepComplete
    <3> QED BY <1>1, <3>1, <3>3
  <2>3. CASE p \notin Live
    BY <1>1, <2>1, <2>3 DEF PushEvents
  <2> QED BY <2>2, <2>3
<1> QED BY <1>1, <1>2 DEF CompleteInv

\* queue_entry gives the new entry the next number.
LEMMA EnqueueKeepsAll ==
    ASSUME CoreTypeOK, CompleteInv, NEW p \in Pads, NEW kind, Enqueue(p, kind),
           UNCHANGED <<out_batch, delivered, app>>
    PROVE  CompleteInv'
<1> DEFINE new == [n |-> arrived[p] + 1, kind |-> kind]
<1>1. /\ queue'[p] = queue[p] \cup {new} /\ arrived'[p] = arrived[p] + 1
      /\ \A r \in Pads \ {p} : queue'[r] = queue[r] /\ arrived'[r] = arrived[r]
  BY DEF Enqueue, CoreTypeOK
<1>2. new.n = arrived[p] + 1
  OBVIOUS
<1>3. Complete(queue[p], out_batch[p], delivered[p], arrived[p]) /\ arrived[p] \in Nat
  BY DEF CompleteInv, CoreTypeOK
<1> HIDE DEF new
<1>4. Complete(queue'[p], out_batch[p], delivered[p], arrived'[p])
  BY <1>1, <1>2, <1>3, AddKeepsComplete
<1> QED BY <1>1, <1>4 DEF CompleteInv

\* copy_batch moves entries into an output buffer that is empty.
LEMMA CopyKeepsAll ==
    ASSUME CoreTypeOK, OrderInv, CompleteInv, TaskCopy
    PROVE  CompleteInv'
<1> DEFINE taken(c) == [p \in Pads |-> IF p \in DOMAIN c THEN FirstBuffers(queue[p], c[p])
                                                        ELSE {}]
<1>1. PICK c \in Copies : /\ out_batch' = taken(c)
                         /\ queue' = [p \in Pads |-> queue[p] \ taken(c)[p]]
  BY DEF TaskCopy
<1>2. /\ UNCHANGED <<delivered, arrived, app>>
      /\ \A p \in Pads : out_batch[p] = {}
  BY DEF TaskCopy, TaskGoes, historyVars, OrderInv
<1>3. ASSUME NEW p \in Pads
      PROVE  Complete(queue'[p], out_batch'[p], delivered[p], arrived[p])
  <2>1. out_batch'[p] \subseteq queue[p] /\ queue'[p] = queue[p] \ out_batch'[p]
    BY <1>1 DEF FirstBuffers, Buffers
  <2>2. Complete(queue[p], {}, delivered[p], arrived[p]) /\ arrived[p] \in Nat
    BY <1>2 DEF CompleteInv, CoreTypeOK
  <2> QED BY <2>1, <2>2, CopyKeepsComplete
<1> QED BY <1>2, <1>3 DEF CompleteInv

\* push_batch moves the whole output buffer downstream.
LEMMA PushKeepsAll ==
    ASSUME CoreTypeOK, CompleteInv, TaskPush
    PROVE  CompleteInv'
<1>1. /\ UNCHANGED <<queue, arrived, app>>
      /\ \A p \in Pads : /\ out_batch'[p] = {}
                         /\ delivered'[p] = delivered[p] \cup out_batch[p]
  BY DEF TaskPush, padVars, CoreTypeOK
<1>2. ASSUME NEW p \in Pads
      PROVE  Complete(queue[p], {}, delivered[p] \cup out_batch[p], arrived[p])
  BY PushKeepsComplete DEF CompleteInv, CoreTypeOK
<1> QED BY <1>1, <1>2 DEF CompleteInv

\* Each step of a streaming thread keeps all entries.
LEMMA StreamStepComplete ==
    ASSUME CoreTypeOK, CompleteInv, NEW p \in Pads, Arrival(p) \/ Handler(p)
    PROVE  CompleteInv'
<1> USE DEF helperVars, policyVars, padVars, elementVars, historyVars
<1>0. app.op \in {"idle", "request", "requested"}
  BY DEF CompleteInv
<1>1. CASE StreamStart(p)
  BY <1>0, <1>1, StandingKeepsComplete DEF StreamStart
<1>2. CASE Configure(p)
  BY <1>0, <1>2, StandingKeepsComplete DEF Configure
<1>3. CASE Caps(p)
  BY <1>0, <1>3, StandingKeepsComplete DEF Caps
<1>4. CASE CapsEosNotSent(p)
  BY <1>0, <1>4, StandingKeepsComplete DEF CapsEosNotSent
<1>5. CASE CapsNotAllEos(p)
  BY <1>0, <1>5, StandingKeepsComplete DEF CapsNotAllEos
<1>6. CASE ResetPad(p)
  BY <1>0, <1>6, StandingKeepsComplete DEF ResetPad
<1>7. CASE AdmitBuffer(p)
  BY <1>0, <1>7, StandingKeepsComplete DEF AdmitBuffer
<1>8. CASE FlushStop(p)
  BY <1>0, <1>8, StandingKeepsComplete DEF FlushStop
<1>9. CASE FlushStopEosNotSent(p)
  BY <1>0, <1>9, StandingKeepsComplete DEF FlushStopEosNotSent
<1>10. CASE PushStreamStart(p)
  BY <1>10, PushEventsKeepsAll DEF PushStreamStart
<1>11. CASE PushSegment(p)
  BY <1>11, PushEventsKeepsAll DEF PushSegment
<1>12. CASE PushEos(p)
  BY <1>12, PushEventsKeepsAll DEF PushEos
<1>13. CASE QueueStreamStart(p)
  BY <1>13, EnqueueKeepsAll DEF QueueStreamStart
<1>14. CASE Segment(p)
  BY <1>14, EnqueueKeepsAll DEF Segment
<1>15. CASE AddBuffer(p)
  BY <1>15, EnqueueKeepsAll DEF AddBuffer
<1>16. CASE Eos(p)
  <2>1. CASE eos[p]
    BY <1>0, <1>16, <2>1, StandingKeepsComplete DEF Eos
  <2>2. CASE ~eos[p]
    BY <1>16, <2>2, EnqueueKeepsAll DEF Eos
  <2> QED BY <2>1, <2>2
<1> QED BY <1>1, <1>2, <1>3, <1>4, <1>5, <1>6, <1>7, <1>8, <1>9, <1>10, <1>11, <1>12,
           <1>13, <1>14, <1>15, <1>16 DEF Arrival, Handler

\* Each step of the source task keeps all entries.
LEMMA TaskStepComplete ==
    ASSUME CoreTypeOK, OrderInv, CompleteInv, Task
    PROVE  CompleteInv'
<1>0. app.op \in {"idle", "request", "requested"}
  BY DEF CompleteInv
<1>1. CASE \/ TaskTop \/ TaskAllocate \/ TaskTest \/ TaskForm \/ TaskLoopEnds
           \/ TaskWakeEmpty \/ TaskDecide \/ TaskReadEos \/ TaskPushEos \/ TaskSkipEos
           \/ TaskEosReturned(TRUE) \/ TaskEosReturned(FALSE)
  <2>1. UNCHANGED <<queue, out_batch, delivered, arrived, app>>
    BY <1>1 DEF TaskTop, TaskAllocate, TaskTest, TaskForm, TaskLoopEnds, TaskWakeEmpty,
                TaskDecide, TaskReadEos, TaskPushEos, TaskSkipEos, TaskEosReturned,
                taskOnly, helperVars, policyVars, padVars, elementVars, historyVars
  <2> QED BY <1>0, <2>1, StandingKeepsComplete
<1>2. CASE TaskDrain \/ TaskEventsFirst \/ TaskEventsWaited \/ TaskEvents \/ TaskTail
  BY <1>2, PushEventsKeepsAll DEF TaskDrain, TaskEventsFirst, TaskEventsWaited,
                                  TaskEvents, TaskTail
<1> QED BY <1>1, <1>2, CopyKeepsAll, PushKeepsAll DEF Task

\* Without the capabilities to release and to stop, the application thread only
\* requests pads.
LEMMA AppStepComplete ==
    ASSUME NeverTakenAway, CompleteInv, AppContinues \/ AppStarts
    PROVE  CompleteInv'
<1>0. app.op \in {"idle", "request", "requested"}
  BY DEF CompleteInv
<1>1. Requested \/ \E p \in Pads : AddPad(p) \/ Request(p)
  BY <1>0 DEF AppContinues, AppStarts, NeverTakenAway, HandleStop, JoinTask, ResetStop,
              Restart, RemovePad, RemovePadTimeout, Released, Deactivate, Stop, Release,
              AppGoes
<1>2. /\ UNCHANGED <<queue, out_batch, delivered, arrived>>
      /\ app'.op \in {"idle", "request", "requested"}
  BY <1>1 DEF Requested, AddPad, Request, AppGoes, Idle, padVars, elementVars, historyVars
<1> QED BY <1>2, StandingKeepsComplete

\* An application that releases no pad and does not stop the element loses no
\* entry and gets none twice, whatever the sources do: each that arrived waits,
\* is in the batch being pushed, or went downstream (queue_entry, push_events,
\* copy_batch, push_batch).
THEOREM AllKept == ASSUME NeverTakenAway PROVE Spec => []NothingLost
<1>1. Init => CompleteInv
  <2>1. 1..0 = {}
    OBVIOUS
  <2> QED BY <2>1, FS_EmptySet DEF Init, CompleteInv, Complete, Idle
<1>2. CoreTypeOK /\ OrderInv /\ CompleteInv /\ [Next]_vars => CompleteInv'
  <2> SUFFICES ASSUME CoreTypeOK, OrderInv, CompleteInv, [Next]_vars PROVE CompleteInv'
    OBVIOUS
  <2>0. app.op \in {"idle", "request", "requested"}
    BY DEF CompleteInv
  <2>1. CASE \E p \in Pads : Arrival(p) \/ Handler(p)
    BY <2>1, StreamStepComplete
  <2>2. CASE Task
    BY <2>2, TaskStepComplete
  <2>3. CASE Timeout \/ UNCHANGED vars
    BY <2>0, <2>3, StandingKeepsComplete DEF Timeout, vars, padVars, elementVars,
       threadVars, historyVars
  <2>4. CASE AppContinues \/ AppStarts
    BY <2>4, NeverTakenAway, AppStepComplete
  <2> QED BY <2>1, <2>2, <2>3, <2>4 DEF Next
<1>3. CompleteInv => NothingLost
  BY DEF CompleteInv, Complete, NothingLost, InFlight
<1> QED BY <1>1, <1>2, <1>3, TypeCorrect, OrderInvariant, PTL DEF Spec

--------------------------------------------------------------------------------
(* The accounting of EOS *)

\* Streams end in order: a pad is released or starts again only when its EOS has been counted,
\* none is flushed after its EOS or ends before its caps, and the element is not stopped.
Orderly ==
    Env \cap {"release-early", "reopen-early", "flush-eos", "empty-stream", "stop"} = {}

\* A pad between its caps and its EOS.
Streaming == {"configured", "segmentQueued", "open", "admitted", "blocked", "flushed"}

\* Before the module is configured a stream can only have begun.
Beginning == {"absent", "new", "starting", "startQueued", "started"}

\* What the accounting needs to know of one pad.  That the two counters are right is not inductive:
\* reset_pad corrects them for a pad "in EOS" without a look at whether push_events has
\* counted it, so that no EOS may be waiting when a stream starts again.
PadInv(p) ==
    /\ stream[p] \in {"absent", "gone"} => inputs[p] # "pad"
    /\ stream[p] \notin {"absent", "inactive", "gone"} => inputs[p] = "pad"
    /\ stream[p] \in {"absent", "new"} => ~eos[p] /\ queue[p] = {}
    /\ stream[p] \in Streaming => ~eos[p]
    /\ eos[p] /\ stream[p] \notin {"eos", "eosQueued"} => ~switched_to_idle[p]
    /\ p \in Counted => /\ Buffers(queue[p]) = {}
                        /\ stream[p] # "startQueued" => queue[p] = {}
    /\ ~module_initialized => stream[p] \in Beginning /\ ~eos[p]

\* Where the application can be, and with which pad.
AppInv ==
    /\ app.op = "request" => app.pad \in Pads /\ stream[app.pad] = "absent"
    /\ app.op = "release" =>
           app.pad \in Pads /\ app.pad \in Counted /\ stream[app.pad] = "inactive"
    /\ app.op = "removed" =>
           app.pad \in Pads /\ inputs[app.pad] # "pad" /\ stream[app.pad] = "inactive"
    /\ app.op \notin {"await"} \cup StopOps

CountInv ==
    /\ pads_got_eos = Cardinality(Counted) /\ num_sources_eos = Cardinality(Counted)
    /\ all_pads_eos => Live \subseteq Counted

EosInv == (\A p \in Pads : PadInv(p)) /\ AppInv /\ CountInv

\* Sets of pads are finite and smaller than a word can count.
LEMMA PadsCountable ==
    ASSUME NEW S, S \subseteq Pads
    PROVE  IsFiniteSet(S) /\ Cardinality(S) \in Nat /\ Cardinality(S) + 1 < Word
<1>1. IsFiniteSet(S) /\ Cardinality(S) <= Cardinality(Pads)
  BY StreamMuxAssumption, FS_Subset
<1>2. Cardinality(S) \in Nat /\ Cardinality(Pads) \in Nat
  BY <1>1, StreamMuxAssumption, FS_CardinalityType
<1> QED BY <1>1, <1>2, StreamMuxAssumption

\* A step that touches no part of the accounting.
LEMMA StandingKeepsEos ==
    ASSUME EosInv,
           UNCHANGED <<inputs, pads_got_eos, num_sources_eos, all_pads_eos, queue, eos,
                       switched_to_idle, module_initialized, stream, app>>
    PROVE  EosInv'
<1>1. Live' = Live
  BY DEF Live
<1>2. Counted' = Counted
  BY <1>1 DEF Counted
<1>3. \A p \in Pads : PadInv(p)'
  BY <1>2 DEF EosInv, PadInv
<1>4. AppInv'
  BY <1>2 DEF EosInv, AppInv
<1> QED BY <1>1, <1>2, <1>3, <1>4 DEF EosInv, CountInv

\* A step of one pad's thread that leaves eos and switched_to_idle alone, or changes them for a
\* pad that stays uncounted.
LEMMA HandlerKeepsEos ==
    ASSUME CoreTypeOK, EosInv, NEW p \in Pads,
           stream[p] \notin {"absent", "inactive", "gone"},
           UNCHANGED <<inputs, pads_got_eos, num_sources_eos, app>>,
           module_initialized => module_initialized',
           all_pads_eos' => all_pads_eos,
           p \in Counted <=> p \in Counted',
           \A r \in Pads \ {p} :
               UNCHANGED <<stream[r], queue[r], eos[r], switched_to_idle[r]>>,
           PadInv(p)'
    PROVE  EosInv'
<1>1. Live' = Live
  BY DEF Live
<1>2. Counted' = Counted
  BY <1>1 DEF Counted, Live
<1>3. ASSUME NEW r \in Pads PROVE PadInv(r)'
  <2>1. CASE r = p
    BY <2>1
  <2>2. CASE r # p
    BY <1>2, <2>2 DEF EosInv, PadInv
  <2> QED BY <2>1, <2>2
<1>4. AppInv'
  BY <1>2 DEF EosInv, AppInv
<1> QED BY <1>1, <1>2, <1>3, <1>4 DEF EosInv, CountInv

\* push_events counts the pads that have ended and have nothing left, and no other.
LEMMA PushEventsKeepsEos ==
    ASSUME CoreTypeOK, EosInv, PushEvents,
           \A p \in Pads : \/ stream'[p] = stream[p]
                           \/ stream[p] = "startQueued" /\ stream'[p] = "started"
                           \/ stream[p] = "segmentQueued" /\ stream'[p] = "open"
                           \/ stream[p] = "eosQueued" /\ stream'[p] = "eos"
    PROVE  EosInv'
<1> DEFINE left == [p \in Pads |-> IF p \in Live THEN queue[p] \ LeadingEvents(queue[p])
                                                 ELSE queue[p]]
           drained == {p \in Live : BecomesIdle(p, left[p])}
           ended == {p \in drained : eos[p]}
<1>1. /\ queue' = left
      /\ switched_to_idle' = [p \in Pads |-> switched_to_idle[p] /\ p \notin drained]
      /\ pads_got_eos' = (pads_got_eos + Cardinality(ended)) % Word
      /\ num_sources_eos' = (num_sources_eos + Cardinality(ended)) % Word
      /\ all_pads_eos' = IF Entries = {} THEN all_pads_eos ELSE AllPadsEos(pads_got_eos')
      /\ UNCHANGED <<inputs, eos, module_initialized, app>>
  BY DEF PushEvents, elementVars
<1>2. Live' = Live /\ Entries' = Entries /\ Live \subseteq Entries /\ Entries \subseteq Pads
  BY <1>1 DEF Live, Entries
<1>3. Counted' = Counted \cup ended /\ Counted \cap ended = {} /\ Counted' \subseteq Live
  BY <1>1, <1>2 DEF Counted, BecomesIdle, CoreTypeOK, Live
<1>4. /\ IsFiniteSet(Counted) /\ IsFiniteSet(ended) /\ IsFiniteSet(Counted')
      /\ Cardinality(Counted) \in Nat /\ Cardinality(ended) \in Nat
      /\ Cardinality(Counted') \in Nat /\ Cardinality(Counted') + 1 < Word
  BY <1>2, <1>3, PadsCountable DEF Counted, Live
<1>5. Cardinality(Counted') = Cardinality(Counted) + Cardinality(ended)
  <2>1. Cardinality(Counted \cup ended) =
           Cardinality(Counted) + Cardinality(ended) - Cardinality(Counted \cap ended)
    BY <1>4, FS_Union
  <2>2. Cardinality(Counted \cap ended) = 0
    BY <1>3, FS_EmptySet
  <2> QED BY <1>3, <1>4, <2>1, <2>2
<1>6. pads_got_eos' = Cardinality(Counted') /\ num_sources_eos' = Cardinality(Counted')
  <2>1. pads_got_eos = Cardinality(Counted) /\ num_sources_eos = Cardinality(Counted)
    BY DEF EosInv, CountInv
  <2>2. Cardinality(Counted') % Word = Cardinality(Counted')
    BY <1>4, StreamMuxAssumption
  <2> QED BY <1>1, <1>5, <2>1, <2>2
<1>7. all_pads_eos' => Live' \subseteq Counted'
  <2>1. CASE Entries = {}
    BY <1>2, <2>1
  <2>2. CASE Entries # {}
    <3> SUFFICES ASSUME all_pads_eos' PROVE Live \subseteq Counted'
      BY <1>2
    <3>1. Cardinality(Counted') = Cardinality(Entries)
      BY <1>1, <1>2, <1>6, <2>2 DEF AllPadsEos
    <3>2. IsFiniteSet(Entries) /\ Counted' \in SUBSET Entries
      BY <1>2, <1>3, PadsCountable
    <3>3. Counted' = Entries
      BY <3>1, <3>2, FS_Subset
    <3> QED BY <1>2, <3>3
  <2> QED BY <2>1, <2>2
<1>8. ASSUME NEW p \in Pads PROVE PadInv(p)'
  <2>1. PadInv(p)
    BY DEF EosInv
  <2>2. p \in Counted => queue'[p] = {}
    BY <1>1, <2>1 DEF PadInv, Counted, Live, LeadingEvents, Buffers
  <2>3. p \in ended => queue'[p] = {}
    BY <1>1 DEF BecomesIdle, Live
  <2>4. p \in Counted' => queue'[p] = {}
    BY <1>3, <2>2, <2>3
  <2>5. queue'[p] \subseteq queue[p] /\ (switched_to_idle'[p] => switched_to_idle[p])
    BY <1>1
  <2>6. ~module_initialized => stream'[p] \in Beginning
    BY <2>1 DEF PadInv, Beginning
  <2> QED BY <1>1, <2>1, <2>4, <2>5, <2>6 DEF PadInv, Streaming, Buffers
<1>9. AppInv'
  BY <1>1, <1>3 DEF EosInv, AppInv
<1> QED BY <1>2, <1>6, <1>7, <1>8, <1>9 DEF EosInv, CountInv

\* Each step of a streaming thread keeps the accounting.
LEMMA StreamStepEos ==
    ASSUME Orderly, CoreTypeOK, EosInv, NEW p \in Pads, Arrival(p) \/ Handler(p)
    PROVE  EosInv'
<1> USE DEF helperVars, policyVars, padVars, elementVars, historyVars
<1>0. PadInv(p)
  BY DEF EosInv
<1>1. CASE StreamStart(p)
  <2>1. stream[p] = "new" \/ (stream[p] = "eos" /\ p \in Counted)
    BY <1>1 DEF StreamStart, MayReopen, Orderly
  <2>2. stream' = [stream EXCEPT ![p] = "starting"]
    BY <1>1 DEF StreamStart
  <2>3. UNCHANGED <<inputs, pads_got_eos, num_sources_eos, all_pads_eos, queue, eos,
                    switched_to_idle, module_initialized, app>>
    BY <1>1 DEF StreamStart
  <2>4. Counted' = Counted
    BY <2>3 DEF Counted, Live
  <2>5. PadInv(p)'
    BY <1>0, <2>1, <2>2, <2>3, <2>4 DEF PadInv, Streaming, Beginning, CoreTypeOK, Counted
  <2> QED BY <2>1, <2>2, <2>3, <2>4, <2>5, HandlerKeepsEos DEF CoreTypeOK
<1>2. CASE QueueStreamStart(p)
  <2>1. stream[p] = "starting" /\ stream' = [stream EXCEPT ![p] = "startQueued"]
    BY <1>2 DEF QueueStreamStart, StreamGoes
  <2>2. queue' = [queue EXCEPT ![p] = @ \cup {[n |-> arrived[p] + 1, kind |-> "start"]}]
    BY <1>2 DEF QueueStreamStart, Enqueue
  <2>3. UNCHANGED <<inputs, pads_got_eos, num_sources_eos, all_pads_eos, eos,
                    switched_to_idle, module_initialized, app>>
    BY <1>2 DEF QueueStreamStart
  <2>4. Counted' = Counted
    BY <2>3 DEF Counted, Live
  <2>5. Buffers(queue'[p]) = Buffers(queue[p])
    BY <2>2 DEF Buffers, CoreTypeOK
  <2>6. PadInv(p)'
    BY <1>0, <2>1, <2>3, <2>4, <2>5 DEF PadInv, Streaming, Beginning, CoreTypeOK
  <2> QED BY <2>1, <2>2, <2>3, <2>4, <2>6, HandlerKeepsEos DEF CoreTypeOK
<1>3. CASE PushStreamStart(p)
  BY <1>3, PushEventsKeepsEos DEF PushStreamStart, StreamGoes, CoreTypeOK
<1>4. CASE Configure(p)
  <2>1. stream[p] = "started" /\ stream' = [stream EXCEPT ![p] = "module"]
    BY <1>4 DEF Configure, StreamGoes
  <2>2. /\ UNCHANGED <<inputs, pads_got_eos, all_pads_eos, queue, eos, switched_to_idle, app>>
        /\ module_initialized'
    BY <1>4 DEF Configure
  <2>3. Counted' = Counted
    BY <2>2 DEF Counted, Live
  <2>4. num_sources_eos' = num_sources_eos
    <3>1. CASE module_initialized
      BY <1>4, <3>1 DEF Configure
    <3>2. CASE ~module_initialized
      <4>1. Counted = {}
        BY <3>2 DEF EosInv, PadInv, Counted, Live
      <4>2. num_sources_eos = 0
        BY <4>1, FS_EmptySet DEF EosInv, CountInv
      <4> QED BY <1>4, <3>2, <4>2 DEF Configure
    <3> QED BY <3>1, <3>2
  <2>5. PadInv(p)'
    BY <1>0, <2>1, <2>2, <2>3 DEF PadInv, Streaming, CoreTypeOK
  <2> QED BY <2>1, <2>2, <2>3, <2>4, <2>5, HandlerKeepsEos DEF CoreTypeOK
<1>5. CASE Caps(p) \/ CapsEosNotSent(p) \/ CapsNotAllEos(p)
  <2>1. /\ stream[p] \in {"module", "capsHandled", "caps"}
        /\ \E s \in {"capsHandled", "caps", "capsReset"} : stream' = [stream EXCEPT ![p] = s]
    BY <1>5 DEF Caps, CapsEosNotSent, CapsNotAllEos, StreamGoes
  <2>2. UNCHANGED <<inputs, pads_got_eos, num_sources_eos, queue, eos, switched_to_idle,
                    module_initialized, app>> /\ (all_pads_eos' => all_pads_eos)
    BY <1>5 DEF Caps, CapsEosNotSent, CapsNotAllEos
  <2>3. Counted' = Counted
    BY <2>2 DEF Counted, Live
  <2>4. PadInv(p)'
    BY <1>0, <2>1, <2>2, <2>3 DEF PadInv, Streaming, Beginning, CoreTypeOK
  <2> QED BY <2>1, <2>2, <2>3, <2>4, HandlerKeepsEos DEF CoreTypeOK

<1>6. CASE ResetPad(p)
  <2>1. stream[p] = "capsReset" /\ stream' = [stream EXCEPT ![p] = "configured"]
    BY <1>6 DEF ResetPad, StreamGoes
  <2>2. /\ eos' = [eos EXCEPT ![p] = FALSE]
        /\ UNCHANGED <<inputs, queue, switched_to_idle, module_initialized, app>>
    BY <1>6 DEF ResetPad
  <2>3. Live' = Live /\ p \in Live /\ Counted' = Counted \ {p}
    BY <1>0, <2>1, <2>2 DEF Counted, Live, PadInv, CoreTypeOK
  <2>4. p \in Counted <=> eos[p]
    BY <1>0, <2>1, <2>3 DEF PadInv, Counted
  <2>5. \A r \in Pads : PadInv(r)'
    BY <1>0, <2>1, <2>2, <2>3 DEF EosInv, PadInv, Streaming, Beginning, CoreTypeOK
  <2>6. AppInv'
    <3>1. app.op \in {"request", "release", "removed"} => app.pad # p
      BY <2>1 DEF EosInv, AppInv
    <3> QED BY <2>1, <2>2, <2>3, <3>1 DEF EosInv, AppInv, CoreTypeOK
  <2>7. CountInv'
    <3>1. /\ IsFiniteSet(Counted) /\ Cardinality(Counted) \in Nat
          /\ Cardinality(Counted) + 1 < Word
      BY PadsCountable DEF Counted, Live
    <3>2. Cardinality(Counted') = IF eos[p] THEN Cardinality(Counted) - 1
                                            ELSE Cardinality(Counted)
      BY <2>3, <2>4, <3>1, FS_RemoveElement
    <3>3. pads_got_eos = Cardinality(Counted) /\ num_sources_eos = Cardinality(Counted)
      BY DEF EosInv, CountInv
    <3>4. CASE eos[p]
      <4>1. Cardinality(Counted) # 0
        BY <2>4, <3>1, <3>4, FS_EmptySet
      <4>2. /\ num_sources_eos' = num_sources_eos - 1
            /\ pads_got_eos' = (pads_got_eos - 1) % Word
            /\ all_pads_eos' = FALSE
        BY <1>6, <3>1, <3>3, <3>4, <4>1 DEF ResetPad
      <4>3. (Cardinality(Counted) - 1) % Word = Cardinality(Counted) - 1
        BY <3>1, <4>1, StreamMuxAssumption
      <4> QED BY <3>2, <3>3, <3>4, <4>2, <4>3 DEF CountInv
    <3>5. CASE ~eos[p]
      <4>1. UNCHANGED <<num_sources_eos, pads_got_eos, all_pads_eos>>
        BY <1>6, <3>5 DEF ResetPad
      <4>2. Counted' = Counted
        BY <2>3, <2>4, <3>5
      <4> QED BY <2>3, <4>1, <4>2 DEF EosInv, CountInv
    <3> QED BY <3>4, <3>5
  <2> QED BY <2>5, <2>6, <2>7 DEF EosInv
<1>7. CASE Segment(p) \/ AddBuffer(p)
  <2>1. /\ stream[p] \in Streaming /\ stream'[p] \in Streaming
        /\ \A r \in Pads \ {p} : stream'[r] = stream[r]
    BY <1>7 DEF Segment, AddBuffer, StreamGoes, Streaming, CoreTypeOK
  <2>2. \A r \in Pads \ {p} : queue'[r] = queue[r]
    BY <1>7 DEF Segment, AddBuffer, Enqueue, CoreTypeOK
  <2>3. UNCHANGED <<inputs, pads_got_eos, num_sources_eos, eos, switched_to_idle,
                    module_initialized, app>> /\ (all_pads_eos' => all_pads_eos)
    BY <1>7 DEF Segment, AddBuffer
  <2>4. p \notin Counted /\ p \notin Counted'
    BY <1>0, <2>1, <2>3 DEF PadInv, Counted, Live
  <2>5. PadInv(p)'
    BY <1>0, <2>1, <2>3, <2>4 DEF PadInv, Streaming, Beginning
  <2> QED BY <2>1, <2>2, <2>3, <2>4, <2>5, HandlerKeepsEos DEF Streaming
<1>8. CASE PushSegment(p)
  BY <1>8, PushEventsKeepsEos DEF PushSegment, StreamGoes, CoreTypeOK
<1>9. CASE AdmitBuffer(p) \/ FlushStop(p) \/ FlushStopEosNotSent(p)
  <2>1. /\ stream[p] \in Streaming /\ stream'[p] \in Streaming
        /\ \A r \in Pads \ {p} : stream'[r] = stream[r]
    BY <1>9 DEF AdmitBuffer, FlushStop, FlushStopEosNotSent, StreamGoes, Streaming, CoreTypeOK,
                Orderly
  <2>2. UNCHANGED <<inputs, pads_got_eos, num_sources_eos, queue, eos, switched_to_idle,
                    module_initialized, app>> /\ (all_pads_eos' => all_pads_eos)
    BY <1>9 DEF AdmitBuffer, FlushStop, FlushStopEosNotSent
  <2>3. p \notin Counted /\ p \notin Counted'
    BY <1>0, <2>1, <2>2 DEF PadInv, Counted, Live
  <2>4. PadInv(p)'
    BY <1>0, <2>1, <2>2, <2>3 DEF PadInv, Streaming, Beginning
  <2> QED BY <2>1, <2>2, <2>3, <2>4, HandlerKeepsEos DEF Streaming
<1>10. CASE Eos(p)
  <2>1. stream[p] = "open" /\ ~eos[p] /\ inputs[p] = "pad"
    BY <1>0, <1>10 DEF Eos, Orderly, PadInv, Streaming
  <2>2. /\ stream'[p] \in {"eos", "eosQueued"} /\ eos'[p] /\ switched_to_idle'[p]
        /\ \A r \in Pads \ {p} :
               UNCHANGED <<stream[r], queue[r], eos[r], switched_to_idle[r]>>
    BY <1>10, <2>1 DEF Eos, Enqueue, CoreTypeOK
  <2>3. UNCHANGED <<inputs, pads_got_eos, num_sources_eos, module_initialized, all_pads_eos, app>>
    BY <1>10 DEF Eos
  <2>4. p \notin Counted /\ p \notin Counted'
    BY <2>1, <2>2 DEF Counted
  <2>5. PadInv(p)'
    BY <1>0, <2>1, <2>2, <2>3, <2>4 DEF PadInv, Streaming, Beginning
  <2> QED BY <2>1, <2>2, <2>3, <2>4, <2>5, HandlerKeepsEos
<1>11. CASE PushEos(p)
  BY <1>11, PushEventsKeepsEos DEF PushEos, StreamGoes, CoreTypeOK
<1> QED BY <1>1, <1>2, <1>3, <1>4, <1>5, <1>6, <1>7, <1>8, <1>9, <1>10, <1>11
        DEF Arrival, Handler

\* Of the source task only push_events matters, and copy_batch, which takes buffers of pads that
\* have not ended.
LEMMA TaskStepEos ==
    ASSUME CoreTypeOK, EosInv, Task
    PROVE  EosInv'
<1> USE DEF taskOnly, helperVars, policyVars, padVars, elementVars, historyVars
<1>1. CASE TaskDrain \/ TaskEventsFirst \/ TaskEventsWaited \/ TaskEvents \/ TaskTail
  BY <1>1, PushEventsKeepsEos DEF TaskDrain, TaskEventsFirst, TaskEventsWaited, TaskEvents,
     TaskTail
<1>2. CASE TaskCopy
  <2> DEFINE taken(c) == [p \in Pads |-> IF p \in DOMAIN c THEN FirstBuffers(queue[p], c[p])
                                                          ELSE {}]
  <2>1. PICK c \in Copies : queue' = [p \in Pads |-> queue[p] \ taken(c)[p]]
    BY <1>2 DEF TaskCopy
  <2>2. \A p \in Pads : queue'[p] \subseteq queue[p]
    BY <2>1
  <2>3. \A p \in Pads : \/ stream'[p] = stream[p]
                        \/ stream[p] = "blocked" /\ stream'[p] = "admitted"
    BY <1>2 DEF TaskCopy
  <2>4. \A p \in Pads : \/ inputs'[p] = inputs[p]
                        \/ inputs[p] = "none" /\ inputs'[p] = "null"
    BY <1>2 DEF TaskCopy, CoreTypeOK
  <2>5. UNCHANGED <<pads_got_eos, num_sources_eos, all_pads_eos, eos, switched_to_idle,
                    module_initialized, app>>
    BY <1>2 DEF TaskCopy
  <2>6. Live' = Live /\ Counted' = Counted
    BY <2>4, <2>5 DEF Live, Counted
  <2>7. ASSUME NEW p \in Pads PROVE PadInv(p)'
    <3>1. PadInv(p)
      BY DEF EosInv
    <3>2. ~module_initialized => stream'[p] \in Beginning
      BY <2>3, <3>1 DEF PadInv, Beginning
    <3> QED BY <2>2, <2>3, <2>4, <2>5, <2>6, <3>1, <3>2 DEF PadInv, Streaming, Buffers
  <2>8. AppInv'
    BY <2>3, <2>4, <2>5, <2>6 DEF EosInv, AppInv
  <2> QED BY <2>5, <2>6, <2>7, <2>8 DEF EosInv, CountInv
<1>3. CASE TaskTop \/ TaskAllocate \/ TaskTest \/ TaskForm \/ TaskLoopEnds
  BY <1>3, StandingKeepsEos DEF TaskTop, TaskAllocate, TaskTest, TaskForm, TaskLoopEnds
<1>4. CASE TaskWakeEmpty \/ TaskDecide \/ TaskPush
  BY <1>4, StandingKeepsEos DEF TaskWakeEmpty, TaskDecide, TaskPush
<1>5. CASE TaskReadEos \/ TaskPushEos \/ TaskSkipEos
  BY <1>5, StandingKeepsEos DEF TaskReadEos, TaskPushEos, TaskSkipEos
<1>6. ASSUME NEW accepted \in BOOLEAN, TaskEosReturned(accepted)
      PROVE  EosInv'
  BY <1>6, StandingKeepsEos DEF TaskEosReturned
<1> QED BY <1>1, <1>2, <1>3, <1>4, <1>5, <1>6 DEF Task

\* The application keeps the accounting: a pad is released only when its EOS is counted, and
\* remove_pad then takes it out of both counters.
LEMMA AppStepEos ==
    ASSUME Orderly, CoreTypeOK, EosInv, AppContinues \/ AppStarts
    PROVE  EosInv'
<1> USE DEF helperVars, policyVars, padVars, elementVars, threadVars, historyVars
<1>1. app.op \notin {"await"} \cup StopOps
  BY DEF EosInv, AppInv
<1>2. CASE Requested
  <2>1. /\ app'.op = "idle"
        /\ UNCHANGED <<inputs, pads_got_eos, num_sources_eos, queue, eos, switched_to_idle,
                       module_initialized, stream>>
        /\ all_pads_eos' = FALSE
    BY <1>2 DEF Requested, Idle
  <2>2. Live' = Live /\ Counted' = Counted
    BY <2>1 DEF Live, Counted
  <2>3. \A p \in Pads : PadInv(p)'
    BY <2>1, <2>2 DEF EosInv, PadInv
  <2>4. AppInv'
    BY <2>1 DEF AppInv, StopOps
  <2> QED BY <2>1, <2>2, <2>3, <2>4 DEF EosInv, CountInv
<1>3. CASE HandleStop \/ JoinTask \/ ResetStop \/ Restart \/ Stop
  BY <1>1, <1>3 DEF HandleStop, JoinTask, ResetStop, Restart, Stop, AppGoes, StopOps, Orderly
<1>4. ASSUME NEW p \in Pads, AddPad(p)
      PROVE  EosInv'
  <2>1. stream[p] = "absent" /\ PadInv(p) /\ app'.op = "requested"
    BY <1>4 DEF AddPad, EosInv, AppInv
  <2>2. /\ inputs' = [inputs EXCEPT ![p] = "pad"]
        /\ stream' = [stream EXCEPT ![p] = "new"]
        /\ switched_to_idle' = [switched_to_idle EXCEPT ![p] = TRUE]
        /\ UNCHANGED <<pads_got_eos, num_sources_eos, queue, eos, module_initialized>>
        /\ all_pads_eos' = FALSE
    BY <1>4 DEF AddPad
  <2>3. Counted' = Counted
    BY <2>1, <2>2 DEF Counted, Live, PadInv, CoreTypeOK
  <2>4. ASSUME NEW r \in Pads PROVE PadInv(r)'
    <3>1. CASE r = p
      BY <2>1, <2>2, <2>3, <3>1 DEF PadInv, Streaming, Beginning, CoreTypeOK, Counted
    <3>2. CASE r # p
      BY <2>2, <2>3, <3>2 DEF EosInv, PadInv, CoreTypeOK
    <3> QED BY <3>1, <3>2
  <2>5. AppInv'
    BY <2>1 DEF AppInv, StopOps
  <2> QED BY <2>2, <2>3, <2>4, <2>5 DEF EosInv, CountInv
<1>5. ASSUME NEW p \in Pads, RemovePad(p)
      PROVE  EosInv'
  <2>1. p \in Counted /\ stream[p] = "inactive" /\ PadInv(p)
    BY <1>5 DEF RemovePad, EosInv, AppInv
  <2>2. queue[p] = {} /\ eos[p]
    BY <2>1 DEF PadInv, Counted
  <2>3. /\ num_sources_eos' = (num_sources_eos - 1) % Word
        /\ pads_got_eos' = (pads_got_eos - 1) % Word
        /\ ErasePad(p)
        /\ UNCHANGED <<eos, switched_to_idle, module_initialized, stream>>
    BY <1>5, <2>2 DEF RemovePad, LosesCount
  <2>4. Live' = Live \ {p} /\ Counted' = Counted \ {p}
    BY <2>3 DEF ErasePad, Live, Counted, CoreTypeOK
  <2>5. CountInv'
    <3>1. /\ IsFiniteSet(Counted) /\ Cardinality(Counted) \in Nat
          /\ Cardinality(Counted) + 1 < Word
      BY PadsCountable DEF Counted, Live
    <3>2. Cardinality(Counted') = Cardinality(Counted) - 1 /\ Cardinality(Counted) # 0
      BY <2>1, <2>4, <3>1, FS_RemoveElement, FS_EmptySet
    <3>3. (Cardinality(Counted) - 1) % Word = Cardinality(Counted) - 1
      BY <3>1, <3>2, StreamMuxAssumption
    <3>4. pads_got_eos = Cardinality(Counted) /\ num_sources_eos = Cardinality(Counted)
      BY DEF EosInv, CountInv
    <3>5. all_pads_eos' => Live' \subseteq Counted'
      <4>1. all_pads_eos' => all_pads_eos \/ Live' = {}
        BY <2>3, <2>4 DEF ErasePad, Entries, Live
      <4> QED BY <2>4, <4>1 DEF EosInv, CountInv
    <3> QED BY <2>3, <3>2, <3>3, <3>4, <3>5 DEF CountInv
  <2>6. ASSUME NEW r \in Pads PROVE PadInv(r)'
    <3>1. CASE r = p
      BY <2>1, <2>3, <2>4, <3>1 DEF PadInv, ErasePad, CoreTypeOK, Streaming, Counted
    <3>2. CASE r # p
      BY <2>3, <2>4, <3>2 DEF EosInv, PadInv, ErasePad, CoreTypeOK
    <3> QED BY <3>1, <3>2
  <2>7. AppInv'
    BY <2>1, <2>3 DEF ErasePad, AppInv, StopOps, CoreTypeOK
  <2> QED BY <2>5, <2>6, <2>7 DEF EosInv
<1>6. ASSUME NEW p \in Pads, RemovePadTimeout(p)
      PROVE  EosInv'
  BY <1>1, <1>6 DEF RemovePadTimeout
<1>7. ASSUME NEW p \in Pads, Released(p)
      PROVE  EosInv'
  <2>1. stream[p] = "inactive" /\ inputs[p] # "pad" /\ PadInv(p) /\ app'.op = "idle"
    BY <1>7 DEF Released, EosInv, AppInv, Idle
  <2>2. /\ stream' = [stream EXCEPT ![p] = "gone"]
        /\ UNCHANGED <<inputs, pads_got_eos, num_sources_eos, all_pads_eos, queue, eos,
                       switched_to_idle, module_initialized>>
    BY <1>7 DEF Released
  <2>3. Live' = Live /\ Counted' = Counted
    BY <2>2 DEF Live, Counted
  <2>4. ASSUME NEW r \in Pads PROVE PadInv(r)'
    <3>1. CASE r = p
      BY <2>1, <2>2, <2>3, <3>1 DEF PadInv, Streaming, Beginning, CoreTypeOK
    <3>2. CASE r # p
      BY <2>2, <2>3, <3>2 DEF EosInv, PadInv, CoreTypeOK
    <3> QED BY <3>1, <3>2
  <2>5. AppInv'
    BY <2>1 DEF AppInv, StopOps
  <2> QED BY <2>2, <2>3, <2>4, <2>5 DEF EosInv, CountInv
<1>8. ASSUME NEW p \in Pads, Deactivate(p)
      PROVE  EosInv'
  BY <1>1, <1>8 DEF Deactivate, StopOps
<1>9. ASSUME NEW p \in Pads, Request(p)
      PROVE  EosInv'
  <2>1. /\ stream[p] = "absent" /\ PadInv(p) /\ app' = [op |-> "request", pad |-> p]
        /\ inputs' = [inputs EXCEPT ![p] = IF @ = "none" THEN "null" ELSE @]
        /\ UNCHANGED <<pads_got_eos, num_sources_eos, all_pads_eos, queue, eos,
                       switched_to_idle, module_initialized, stream>>
    BY <1>9 DEF Request, AppGoes, EosInv
  <2>2. Live' = Live /\ Counted' = Counted
    BY <2>1 DEF Live, Counted, CoreTypeOK
  <2>3. \A r \in Pads : PadInv(r)'
    BY <2>1, <2>2 DEF EosInv, PadInv, CoreTypeOK
  <2>4. AppInv'
    BY <2>1 DEF AppInv, StopOps
  <2> QED BY <2>1, <2>2, <2>3, <2>4 DEF EosInv, CountInv
<1>10. ASSUME NEW p \in Pads, Release(p)
       PROVE  EosInv'
  <2>1. p \in Counted /\ AtRest(p) /\ PadInv(p)
    BY <1>10 DEF Release, Orderly, EosInv
  <2>2. /\ app' = [op |-> "release", pad |-> p]
        /\ stream' = [stream EXCEPT ![p] = "inactive"]
        /\ UNCHANGED <<inputs, pads_got_eos, num_sources_eos, all_pads_eos, queue, eos,
                       switched_to_idle, module_initialized>>
    BY <1>10 DEF Release, AppGoes
  <2>3. Live' = Live /\ Counted' = Counted
    BY <2>2 DEF Live, Counted
  <2>4. ASSUME NEW r \in Pads PROVE PadInv(r)'
    <3>1. CASE r = p
      BY <2>1, <2>2, <2>3, <3>1 DEF PadInv, Streaming, CoreTypeOK, Counted, AtRest
    <3>2. CASE r # p
      BY <2>2, <2>3, <3>2 DEF EosInv, PadInv, CoreTypeOK
    <3> QED BY <3>1, <3>2
  <2>5. AppInv'
    BY <2>1, <2>2, <2>3 DEF AppInv, StopOps, CoreTypeOK
  <2> QED BY <2>2, <2>3, <2>4, <2>5 DEF EosInv, CountInv
<1> QED BY <1>2, <1>3, <1>4, <1>5, <1>6, <1>7, <1>8, <1>9, <1>10 DEF AppContinues, AppStarts

\* The invariant of the accounting holds as long as streams end in order.
LEMMA EosInvariant ==
    ASSUME Orderly
    PROVE  Spec => []EosInv
<1>1. Init => EosInv
  <2> SUFFICES ASSUME Init PROVE EosInv
    OBVIOUS
  <2>1. Live = {} /\ Counted = {}
    BY DEF Init, Live, Counted
  <2>2. \A p \in Pads : PadInv(p)
    BY <2>1 DEF Init, PadInv, Streaming, Beginning
  <2>3. AppInv
    BY DEF Init, AppInv, Idle, StopOps
  <2> QED BY <2>1, <2>2, <2>3, FS_EmptySet DEF Init, EosInv, CountInv
<1>2. CoreTypeOK /\ EosInv /\ [Next]_vars => EosInv'
  <2> SUFFICES ASSUME CoreTypeOK, EosInv, [Next]_vars PROVE EosInv'
    OBVIOUS
  <2>1. CASE \E p \in Pads : Arrival(p) \/ Handler(p)
    BY <2>1, StreamStepEos
  <2>2. CASE Task
    BY <2>2, TaskStepEos
  <2>3. CASE Timeout \/ UNCHANGED vars
    BY <2>3, StandingKeepsEos DEF Timeout, vars, helperVars, policyVars, padVars, elementVars,
       threadVars, historyVars
  <2>4. CASE AppContinues \/ AppStarts
    BY <2>4, AppStepEos
  <2> QED BY <2>1, <2>2, <2>3, <2>4 DEF Next
<1> QED BY <1>1, <1>2, TypeCorrect, PTL DEF Spec

\* Both EOS counters, pads_got_eos_and_empty_in_q of the helper and num_sources_eos of the batch
\* policy, count exactly the pads whose EOS push_events has counted, although three
\* threads change them under different locks and reset_pad guards the one by the other.
THEOREM CountersAgree ==
    ASSUME Orderly
    PROVE  Spec => []EosCountersAgree
<1>1. EosInv => EosCountersAgree
  BY DEF EosInv, CountInv, EosCountersAgree
<1> QED BY <1>1, EosInvariant, PTL

\* all_pads_eos is never set while a pad of the mux can still send a buffer or has one left.
THEOREM AllEosIsTrue ==
    ASSUME Orderly
    PROVE  Spec => []AllPadsEosIsTrue
<1>1. EosInv => AllPadsEosIsTrue
  BY DEF EosInv, CountInv, PadInv, AllPadsEosIsTrue, Live
<1> QED BY <1>1, EosInvariant, PTL

--------------------------------------------------------------------------------
(* The end of all streams *)

\* EOS is the last word of a stream: pads are requested before the first stream begins and
\* are not released, no stream starts again, and the element is not stopped.
EosIsFinal == Env \subseteq {"events", "flush"}

\* The source task has found all pads in EOS, is about to send EOS, or has sent it.
Ending == all_pads_eos \/ eos_sent \/ task \in {"pushEos", "eosPushed"}

\* What the record of EOS rests on: between the test of all_pads_eos and the record the task
\* holds no lock, so that no pad may join or start again from the test on.
FinalInv ==
    /\ Ending => Live # {} /\ Entries = Live /\ Live \subseteq Counted
    /\ \A p \in Pads : eos[p] => stream[p] \in {"eos", "eosQueued"}
    /\ \A p \in Pads : stream[p] # "absent" => inputs[p] = "pad"
    /\ app.op = "request" => inputs[app.pad] = "null"
    /\ DOMAIN batch.num \subseteq Live

\* form_batch gives frames only to sources that have a pad.
LEMMA FormBatchDomain ==
    ASSUME NEW groups, NEW pos, NEW roundRobin, NEW offer, NEW size
    PROVE  DOMAIN FormBatch(groups, pos, roundRobin, offer, size).num \subseteq DOMAIN offer
  BY DEF FormBatch

\* What is final stays so, as long as no pad joins and none loses its EOS.
LEMMA StandingKeepsFinal ==
    ASSUME FinalInv, UNCHANGED <<inputs, app>>, Counted \subseteq Counted',
           DOMAIN batch'.num \subseteq Live,
           Ending' => Ending \/ (Live # {} /\ Entries = Live /\ Live \subseteq Counted'),
           \A p \in Pads : stream'[p] = "absent" <=> stream[p] = "absent",
           \A p \in Pads : eos'[p] => stream'[p] \in {"eos", "eosQueued"}
    PROVE  FinalInv'
<1>1. Live' = Live /\ Entries' = Entries
  BY DEF Live, Entries
<1> QED BY <1>1 DEF FinalInv

\* push_events sets all_pads_eos only if all entries of the map have ended.
LEMMA PushEventsKeepsFinal ==
    ASSUME CoreTypeOK, EosInv, FinalInv, PushEvents,
           task' \notin {"pushEos", "eosPushed"},
           \A p \in Pads : \/ stream'[p] = stream[p]
                           \/ stream[p] = "startQueued" /\ stream'[p] = "started"
                           \/ stream[p] = "segmentQueued" /\ stream'[p] = "open"
                           \/ stream[p] = "eosQueued" /\ stream'[p] = "eos"
    PROVE  FinalInv'
<1>1. /\ UNCHANGED <<inputs, eos, eos_sent, app, batch>>
      /\ \A p \in Pads : switched_to_idle'[p] => switched_to_idle[p]
      /\ all_pads_eos' = IF Entries = {} THEN all_pads_eos ELSE AllPadsEos(pads_got_eos')
  BY DEF PushEvents, elementVars
<1>2. EosInv'
  BY PushEventsKeepsEos
<1>3. Live' = Live /\ Entries' = Entries /\ Counted \subseteq Counted' /\ Counted' \subseteq Live
  BY <1>1 DEF Live, Entries, Counted
<1>4. ASSUME all_pads_eos', ~all_pads_eos
      PROVE  Live # {} /\ Entries = Live /\ Live \subseteq Counted'
  <2>1. Entries # {} /\ pads_got_eos' = Cardinality(Entries)
    BY <1>1, <1>3, <1>4 DEF AllPadsEos
  <2>2. Cardinality(Counted') = Cardinality(Entries)
    BY <1>2, <2>1 DEF EosInv, CountInv
  <2>3. IsFiniteSet(Entries) /\ Counted' \in SUBSET Entries
    BY <1>3, PadsCountable DEF Entries, Live
  <2>4. Counted' = Entries
    BY <2>2, <2>3, FS_Subset
  <2> QED BY <1>3, <2>1, <2>4 DEF Entries, Live
<1>5. Ending' => Ending \/ (Live # {} /\ Entries = Live /\ Live \subseteq Counted')
  BY <1>1, <1>4 DEF Ending
<1>6. \A p \in Pads : eos'[p] => stream'[p] \in {"eos", "eosQueued"}
  BY <1>1 DEF FinalInv
<1> QED BY <1>1, <1>3, <1>5, <1>6, StandingKeepsFinal DEF FinalInv

\* Each step of a streaming thread keeps what is final.
LEMMA StreamStepFinal ==
    ASSUME EosIsFinal, CoreTypeOK, EosInv, FinalInv, NEW p \in Pads, Arrival(p) \/ Handler(p)
    PROVE  FinalInv'
<1> USE DEF helperVars, policyVars, padVars, elementVars, historyVars
<1>1. CASE PushStreamStart(p) \/ PushSegment(p) \/ PushEos(p)
  <2>1. \A r \in Pads : \/ stream'[r] = stream[r]
                        \/ stream[r] = "startQueued" /\ stream'[r] = "started"
                        \/ stream[r] = "segmentQueued" /\ stream'[r] = "open"
                        \/ stream[r] = "eosQueued" /\ stream'[r] = "eos"
    BY <1>1 DEF PushStreamStart, PushSegment, PushEos, StreamGoes, CoreTypeOK
  <2>2. PushEvents /\ UNCHANGED task
    BY <1>1 DEF PushStreamStart, PushSegment, PushEos
  <2>3. CASE task \notin {"pushEos", "eosPushed"}
    BY <2>1, <2>2, <2>3, PushEventsKeepsFinal
  <2>4. CASE task \in {"pushEos", "eosPushed"}
    <3>1. Ending
      BY <2>4 DEF Ending
    <3>2. /\ UNCHANGED <<inputs, eos, app, batch>>
          /\ \A r \in Pads : switched_to_idle'[r] => switched_to_idle[r]
      BY <2>2 DEF PushEvents
    <3>3. Counted \subseteq Counted'
      BY <3>2 DEF Counted, Live
    <3> QED BY <2>1, <3>1, <3>2, <3>3, StandingKeepsFinal DEF FinalInv
  <2> QED BY <2>3, <2>4
<1>2. CASE StreamStart(p) \/ Configure(p) \/ FlushStop(p)
  <2>1. /\ stream[p] \in {"new", "started", "open"}
        /\ \A r \in Pads \ {p} : stream'[r] = stream[r]
        /\ stream'[p] \in {"starting", "module", "flushed"}
    BY <1>2 DEF StreamStart, MayReopen, Configure, StreamGoes, FlushStop, EosIsFinal, CoreTypeOK
  <2>2. /\ UNCHANGED <<inputs, app, batch, eos, switched_to_idle, task>>
        /\ (all_pads_eos' => all_pads_eos) /\ (eos_sent' => eos_sent)
    BY <1>2 DEF StreamStart, Configure, FlushStop
  <2>3. Counted' = Counted
    BY <2>2 DEF Counted, Live
  <2> QED BY <2>1, <2>2, <2>3, StandingKeepsFinal DEF FinalInv, Ending
<1>3. CASE QueueStreamStart(p) \/ Segment(p) \/ AdmitBuffer(p) \/ AddBuffer(p)
  <2>1. /\ stream[p] \in {"starting", "configured", "open", "admitted"}
        /\ \A r \in Pads \ {p} : stream'[r] = stream[r]
        /\ stream'[p] # "absent"
    BY <1>3 DEF QueueStreamStart, Segment, AdmitBuffer, AddBuffer, StreamGoes, CoreTypeOK
  <2>2. /\ UNCHANGED <<inputs, app, batch, eos, switched_to_idle, task, eos_sent>>
        /\ (all_pads_eos' => all_pads_eos)
    BY <1>3 DEF QueueStreamStart, Segment, AdmitBuffer, AddBuffer
  <2>3. Counted' = Counted
    BY <2>2 DEF Counted, Live
  <2> QED BY <2>1, <2>2, <2>3, StandingKeepsFinal DEF FinalInv, Ending
<1>4. CASE CapsEosNotSent(p) \/ CapsNotAllEos(p) \/ FlushStopEosNotSent(p)
  <2>1. /\ stream[p] \in {"capsHandled", "caps", "flushed"}
        /\ \A r \in Pads \ {p} : stream'[r] = stream[r]
        /\ stream'[p] # "absent"
    BY <1>4 DEF CapsEosNotSent, CapsNotAllEos, FlushStopEosNotSent, StreamGoes, CoreTypeOK
  <2>2. /\ UNCHANGED <<inputs, app, batch, eos, switched_to_idle, task>>
        /\ (all_pads_eos' => all_pads_eos) /\ (eos_sent' => eos_sent)
    BY <1>4 DEF CapsEosNotSent, CapsNotAllEos, FlushStopEosNotSent
  <2>3. Counted' = Counted
    BY <2>2 DEF Counted, Live
  <2> QED BY <2>1, <2>2, <2>3, StandingKeepsFinal DEF FinalInv, Ending
<1>5. CASE Caps(p)
  <2>1. /\ stream[p] = "module"
        /\ \A r \in Pads \ {p} : stream'[r] = stream[r]
        /\ stream'[p] # "absent"
    BY <1>5 DEF Caps, StreamGoes, CoreTypeOK
  <2>2. /\ UNCHANGED <<inputs, app, batch, eos, switched_to_idle, all_pads_eos, eos_sent>>
        /\ task' \in {"top", task}
    BY <1>5 DEF Caps
  <2>3. Counted' = Counted
    BY <2>2 DEF Counted, Live
  <2> QED BY <2>1, <2>2, <2>3, StandingKeepsFinal DEF FinalInv, Ending
<1>6. CASE ResetPad(p)
  <2>1. stream[p] = "capsReset" /\ stream' = [stream EXCEPT ![p] = "configured"] /\ ~eos[p]
    BY <1>6 DEF ResetPad, StreamGoes, FinalInv
  <2>2. /\ UNCHANGED <<inputs, app, batch, switched_to_idle, task, eos_sent, all_pads_eos>>
        /\ eos' = [eos EXCEPT ![p] = FALSE]
    BY <1>6, <2>1 DEF ResetPad
  <2>3. Counted' = Counted
    BY <2>1, <2>2 DEF Counted, Live, CoreTypeOK
  <2> QED BY <2>1, <2>2, <2>3, StandingKeepsFinal DEF FinalInv, Ending, CoreTypeOK
<1>7. CASE Eos(p)
  <2>1. stream[p] = "open" /\ ~eos[p]
    BY <1>7 DEF Eos, EosIsFinal, FinalInv
  <2>2. /\ UNCHANGED <<inputs, app, batch, task, eos_sent, all_pads_eos>>
        /\ \A r \in Pads \ {p} : UNCHANGED <<stream[r], eos[r], switched_to_idle[r]>>
        /\ stream'[p] \in {"eos", "eosQueued"}
    BY <1>7, <2>1 DEF Eos, CoreTypeOK
  <2>3. Counted \subseteq Counted'
    BY <2>1, <2>2 DEF Counted, Live
  <2> QED BY <2>1, <2>2, <2>3, StandingKeepsFinal DEF FinalInv, Ending
<1> QED BY <1>1, <1>2, <1>3, <1>4, <1>5, <1>6, <1>7 DEF Arrival, Handler

\* Each step of the source task keeps what is final.
LEMMA TaskStepFinal ==
    ASSUME EosIsFinal, CoreTypeOK, EosInv, FinalInv, Task
    PROVE  FinalInv'
<1> USE DEF taskOnly, helperVars, policyVars, padVars, elementVars, historyVars
<1>1. CASE TaskDrain \/ TaskEventsFirst \/ TaskEventsWaited \/ TaskEvents \/ TaskTail
  BY <1>1, PushEventsKeepsFinal DEF TaskDrain, TaskEventsFirst, TaskEventsWaited, TaskEvents,
     TaskTail, TaskGoes
<1>2. CASE TaskCopy
  <2>1. UNCHANGED inputs
    <3>1. \A p \in Pads : ~(p \in DOMAIN batch.num /\ inputs[p] = "none")
      BY DEF FinalInv, Live
    <3> QED BY <1>2, <3>1 DEF TaskCopy, CoreTypeOK
  <2>2. /\ UNCHANGED <<app, batch, eos, switched_to_idle, all_pads_eos, eos_sent>>
        /\ task' = "push"
    BY <1>2 DEF TaskCopy, TaskGoes
  <2>3. \A p \in Pads : \/ stream'[p] = stream[p]
                        \/ stream[p] = "blocked" /\ stream'[p] = "admitted"
    BY <1>2 DEF TaskCopy
  <2>4. Counted' = Counted
    BY <2>1, <2>2 DEF Counted, Live
  <2> QED BY <2>1, <2>2, <2>3, <2>4, StandingKeepsFinal DEF FinalInv, Ending
<1>3. CASE TaskForm
  <2>1. PICK formed \in {FormBatch(<<sources>>, [group |-> 0, source |-> next_source], TRUE,
                                   Offer, GetBatchSize)} : batch'.num = formed.num
    BY <1>3 DEF TaskForm
  <2>2. DOMAIN batch'.num \subseteq Live
    <3>1. DOMAIN FormBatch(<<sources>>, [group |-> 0, source |-> next_source], TRUE, Offer,
                           GetBatchSize).num \subseteq DOMAIN Offer
      BY FormBatchDomain
    <3>2. DOMAIN Offer = Live
      BY DEF Offer
    <3> QED BY <2>1, <3>1, <3>2
  <2>3. /\ UNCHANGED <<inputs, app, stream, eos, switched_to_idle, all_pads_eos, eos_sent>>
        /\ task' \notin {"pushEos", "eosPushed"}
    BY <1>3 DEF TaskForm
  <2>4. Counted' = Counted
    BY <2>3 DEF Counted, Live
  <2> QED BY <2>2, <2>3, <2>4, StandingKeepsFinal DEF FinalInv, Ending
<1>4. CASE TaskPush
  <2>1. DOMAIN batch'.num \subseteq Live
    BY <1>4 DEF TaskPush, ResetBatch, NoBatch
  <2>2. /\ UNCHANGED <<inputs, app, stream, eos, switched_to_idle, all_pads_eos, eos_sent>>
        /\ task' = "tail"
    BY <1>4 DEF TaskPush, TaskGoes
  <2>3. Counted' = Counted
    BY <2>2 DEF Counted, Live
  <2> QED BY <2>1, <2>2, <2>3, StandingKeepsFinal DEF FinalInv, Ending
<1>5. CASE TaskTop \/ TaskAllocate \/ TaskTest \/ TaskLoopEnds \/ TaskWakeEmpty \/ TaskDecide
  <2>1. /\ UNCHANGED <<inputs, app, batch, stream, eos, switched_to_idle, all_pads_eos, eos_sent>>
        /\ task' \notin {"pushEos", "eosPushed"}
    BY <1>5 DEF TaskTop, TaskAllocate, TaskTest, TaskLoopEnds, TaskWakeEmpty, TaskDecide, TaskGoes
  <2>2. Counted' = Counted
    BY <2>1 DEF Counted, Live
  <2> QED BY <2>1, <2>2, StandingKeepsFinal DEF FinalInv, Ending
<1>6. CASE TaskReadEos \/ TaskPushEos \/ TaskSkipEos
  <2>1. /\ UNCHANGED <<inputs, app, batch, stream, eos, switched_to_idle, all_pads_eos, eos_sent>>
        /\ task' \in {"pushEos", "eosPushed"} => all_pads_eos \/ task = "pushEos"
    BY <1>6 DEF TaskReadEos, TaskPushEos, TaskSkipEos, TaskGoes
  <2>2. Counted' = Counted
    BY <2>1 DEF Counted, Live
  <2> QED BY <2>1, <2>2, StandingKeepsFinal DEF FinalInv, Ending
<1>7. ASSUME NEW accepted \in BOOLEAN, TaskEosReturned(accepted)
      PROVE  FinalInv'
  <2>1. /\ UNCHANGED <<inputs, app, batch, stream, eos, switched_to_idle, all_pads_eos>>
        /\ task = "eosPushed" /\ task' = "top"
    BY <1>7 DEF TaskEosReturned, TaskGoes
  <2>2. Counted' = Counted
    BY <2>1 DEF Counted, Live
  <2> QED BY <2>1, <2>2, StandingKeepsFinal DEF FinalInv, Ending
<1> QED BY <1>1, <1>2, <1>3, <1>4, <1>5, <1>6, <1>7 DEF Task

\* A pad is requested only before the first stream begins.
LEMMA AppStepFinal ==
    ASSUME EosIsFinal, CoreTypeOK, EosInv, FinalInv, AppContinues \/ AppStarts
    PROVE  FinalInv'
<1> USE DEF helperVars, policyVars, padVars, elementVars, threadVars, historyVars
<1>1. CASE Requested
  <2>1. /\ UNCHANGED <<inputs, batch, stream, eos, switched_to_idle, eos_sent, task>>
        /\ ~all_pads_eos' /\ app'.op = "idle"
    BY <1>1 DEF Requested, Idle
  <2>2. Counted' = Counted /\ Live' = Live /\ Entries' = Entries
    BY <2>1 DEF Counted, Live, Entries
  <2> QED BY <2>1, <2>2 DEF FinalInv, Ending
<1>2. ASSUME NEW p \in Pads, AddPad(p)
      PROVE  FinalInv'
  <2>1. stream[p] = "absent" /\ inputs[p] = "null" /\ ~eos[p]
    BY <1>2 DEF AddPad, EosInv, AppInv, PadInv, FinalInv
  <2>2. /\ inputs' = [inputs EXCEPT ![p] = "pad"]
        /\ stream' = [stream EXCEPT ![p] = "new"]
        /\ UNCHANGED <<batch, eos, eos_sent, task>>
        /\ ~all_pads_eos' /\ app'.op = "requested"
    BY <1>2 DEF AddPad
  <2>3. ~Ending
    BY <2>1 DEF FinalInv, Entries, Live
  <2>4. ~Ending'
    BY <2>2, <2>3 DEF Ending
  <2> QED BY <2>1, <2>2, <2>4 DEF FinalInv, CoreTypeOK, Live
<1>3. ASSUME NEW p \in Pads, Request(p)
      PROVE  FinalInv'
  <2>1. /\ stream[p] = "absent" /\ app' = [op |-> "request", pad |-> p]
        /\ inputs' = [inputs EXCEPT ![p] = IF @ = "none" THEN "null" ELSE @]
        /\ \A q \in Pads : stream[q] \in {"absent", "new"}
        /\ UNCHANGED <<batch, stream, eos, all_pads_eos, eos_sent, task>>
    BY <1>3 DEF Request, AppGoes, EosIsFinal
  <2>2. Counted = {}
    BY <2>1 DEF Counted, FinalInv, Live
  <2>3. ~Ending'
    BY <2>1, <2>2 DEF FinalInv, Ending
  <2>4. inputs[p] # "pad"
    BY <2>1 DEF EosInv, PadInv
  <2> QED BY <2>1, <2>3, <2>4 DEF FinalInv, CoreTypeOK, Live
<1>4. ASSUME NEW p \in Pads, RemovePad(p) \/ RemovePadTimeout(p) \/ Released(p)
      PROVE  FinalInv'
  BY <1>4 DEF RemovePad, RemovePadTimeout, Released, EosInv, AppInv, FinalInv, PadInv, Counted
<1>5. ASSUME NEW p \in Pads, Release(p)
      PROVE  FinalInv'
  BY <1>5 DEF Release, EosIsFinal
<1>6. CASE HandleStop \/ JoinTask \/ ResetStop \/ Restart \/ Stop
           \/ \E p \in Pads : Deactivate(p)
  BY <1>6 DEF HandleStop, JoinTask, ResetStop, Restart, Stop, AppGoes, StopOps, EosIsFinal,
     EosInv, AppInv, Deactivate
<1> QED BY <1>1, <1>2, <1>3, <1>4, <1>5, <1>6 DEF AppContinues, AppStarts

\* What is final stays so in every behaviour.
LEMMA FinalInvariant ==
    ASSUME EosIsFinal
    PROVE  Spec => [](EosInv /\ FinalInv)
<1>0. Orderly
  BY DEF Orderly, EosIsFinal
<1>1. Init => FinalInv
  BY DEF Init, FinalInv, Ending, Idle, NoBatch
<1>2. CoreTypeOK /\ EosInv /\ FinalInv /\ [Next]_vars => FinalInv'
  <2> SUFFICES ASSUME CoreTypeOK, EosInv, FinalInv, [Next]_vars PROVE FinalInv'
    OBVIOUS
  <2>1. CASE \E p \in Pads : Arrival(p) \/ Handler(p)
    BY <2>1, StreamStepFinal
  <2>2. CASE Task
    BY <2>2, TaskStepFinal
  <2>3. CASE Timeout \/ UNCHANGED vars
    <3>1. UNCHANGED <<inputs, app, batch, stream, eos, switched_to_idle, all_pads_eos, eos_sent,
                      task>>
      BY <2>3 DEF Timeout, vars, helperVars, policyVars, padVars, elementVars, threadVars
    <3>2. Counted' = Counted
      BY <3>1 DEF Counted, Live
    <3> QED BY <3>1, <3>2, StandingKeepsFinal DEF FinalInv, Ending
  <2>4. CASE AppContinues \/ AppStarts
    BY <2>4, AppStepFinal
  <2> QED BY <2>1, <2>2, <2>3, <2>4 DEF Next
<1> QED BY <1>0, <1>1, <1>2, TypeCorrect, EosInvariant, PTL DEF Spec

\* The record that EOS was sent is true: no stream is open behind it.  It is written without a
\* lock, by a thread that read all_pads_eos earlier.
THEOREM EosRecordTrue ==
    ASSUME EosIsFinal
    PROVE  Spec => []EosSentMeansEnded
<1>1. EosInv /\ FinalInv => EosSentMeansEnded
  BY DEF EosInv, FinalInv, Ending, EosSentMeansEnded, Counted, Live
<1> QED BY <1>1, FinalInvariant, PTL

--------------------------------------------------------------------------------
(* Refinement of InOrderDelivery *)

\* A step that neither adds nor forwards a buffer stutters, or ends the record of EOS.
LEMMA QuietStep ==
    ASSUME \A p \in Pads :
               /\ Buffers(queue'[p] \cup out_batch'[p] \cup delivered'[p])
                     = Buffers(queue[p] \cup out_batch[p] \cup delivered[p])
               /\ Buffers(delivered'[p]) = Buffers(delivered[p]),
           eos_sent \in BOOLEAN, eos_sent' \in BOOLEAN, eos_sent' => eos_sent
    PROVE  Delivery!Next \/ UNCHANGED Delivery!vars
<1>1. [p \in Pads |-> BufferNumbers(queue[p] \cup out_batch[p] \cup delivered[p])]'
         = [p \in Pads |-> BufferNumbers(queue[p] \cup out_batch[p] \cup delivered[p])]
  BY DEF BufferNumbers
<1>2. [p \in Pads |-> BufferNumbers(delivered[p])]' = [p \in Pads |-> BufferNumbers(delivered[p])]
  BY DEF BufferNumbers
<1>3. CASE eos_sent' = eos_sent
  BY <1>1, <1>2, <1>3 DEF Delivery!vars
<1>4. CASE eos_sent' # eos_sent
  <2>1. Delivery!Begin
    BY <1>1, <1>2, <1>4 DEF Delivery!Begin
  <2> QED BY <2>1 DEF Delivery!Next
<1> QED BY <1>3, <1>4

\* push_events forwards no buffer.
LEMMA PushEventsQuiet ==
    ASSUME CoreTypeOK, CoreTypeOK', PushEvents
    PROVE  Delivery!Next \/ UNCHANGED Delivery!vars
<1>1. UNCHANGED <<out_batch, eos_sent>>
  BY DEF PushEvents, elementVars
<1>2. ASSUME NEW p \in Pads
      PROVE  /\ queue'[p] \cup delivered'[p] = queue[p] \cup delivered[p]
             /\ Buffers(delivered'[p]) = Buffers(delivered[p])
  BY DEF PushEvents, LeadingEvents, Buffers
<1>3. \A p \in Pads : Buffers(queue'[p] \cup out_batch'[p] \cup delivered'[p])
                         = Buffers(queue[p] \cup out_batch[p] \cup delivered[p])
  BY <1>1, <1>2 DEF Buffers
<1> QED BY <1>1, <1>2, <1>3, QuietStep DEF CoreTypeOK

\* An event that is queued is no buffer.
LEMMA EventQuiet ==
    ASSUME CoreTypeOK, CoreTypeOK', NEW p \in Pads, NEW kind \in EventKinds, Enqueue(p, kind),
           UNCHANGED <<out_batch, delivered, eos_sent>>
    PROVE  Delivery!Next \/ UNCHANGED Delivery!vars
<1>1. \A r \in Pads : Buffers(queue'[r]) = Buffers(queue[r])
  BY DEF Enqueue, Buffers, EventKinds, CoreTypeOK
<1>2. \A r \in Pads : Buffers(queue'[r] \cup out_batch'[r] \cup delivered'[r])
                         = Buffers(queue[r] \cup out_batch[r] \cup delivered[r])
  BY <1>1 DEF Buffers
<1> QED BY <1>2, QuietStep DEF CoreTypeOK

\* add_buffer receives a buffer that is younger than all before it.
LEMMA AddBufferReceives ==
    ASSUME CoreTypeOK, OrderInv, NEW p \in Pads, AddBuffer(p)
    PROVE  Delivery!Next
<1> DEFINE new == [n |-> arrived[p] + 1, kind |-> "buffer"]
           received == [r \in Pads |->
                           BufferNumbers(queue[r] \cup out_batch[r] \cup delivered[r])]
<1>1. /\ queue' = [queue EXCEPT ![p] = @ \cup {new}]
      /\ UNCHANGED <<out_batch, delivered, eos_sent>>
  BY DEF AddBuffer, Enqueue, elementVars
<1>2. \A e \in queue[p] \cup out_batch[p] \cup delivered[p] : e.n < arrived[p] + 1
  BY DEF OrderInv, CoreTypeOK, Entry
<1>3. /\ received'[p] = received[p] \cup {arrived[p] + 1}
      /\ \A m \in received[p] : m < arrived[p] + 1
      /\ \A r \in Pads \ {p} : received'[r] = received[r]
  <2>1. queue'[p] \cup out_batch'[p] \cup delivered'[p]
           = (queue[p] \cup out_batch[p] \cup delivered[p]) \cup {new}
    BY <1>1 DEF CoreTypeOK
  <2>2. new.n = arrived[p] + 1 /\ new.kind = "buffer"
    OBVIOUS
  <2> HIDE DEF new
  <2>3. Buffers(queue'[p] \cup out_batch'[p] \cup delivered'[p])
           = Buffers(queue[p] \cup out_batch[p] \cup delivered[p]) \cup {new}
    BY <2>1, <2>2 DEF Buffers
  <2>4. received'[p] = received[p] \cup {arrived[p] + 1}
    BY <2>2, <2>3 DEF BufferNumbers
  <2>5. \A m \in received[p] : m < arrived[p] + 1
    BY <1>2 DEF BufferNumbers, Buffers
  <2>6. \A r \in Pads \ {p} : received'[r] = received[r]
    BY <1>1 DEF CoreTypeOK
  <2> QED BY <2>4, <2>5, <2>6
<1>4. /\ arrived[p] + 1 \in received'[p] \ received[p]
      /\ received' = [received EXCEPT ![p] = @ \cup {arrived[p] + 1}]
  <2>1. arrived[p] \in Nat
    BY DEF CoreTypeOK
  <2>2. received' = [r \in Pads |->
                        BufferNumbers(queue'[r] \cup out_batch'[r] \cup delivered'[r])]
    OBVIOUS
  <2> HIDE DEF received
  <2>3. arrived[p] + 1 \notin received[p]
    BY <2>1, <1>3
  <2>4. received' = [r \in Pads |-> received'[r]] /\ received = [r \in Pads |-> received[r]]
    BY <2>2 DEF received
  <2> QED BY <1>3, <2>3, <2>4
<1>5. [r \in Pads |-> BufferNumbers(delivered[r])]' = [r \in Pads |-> BufferNumbers(delivered[r])]
  BY <1>1
<1>6. Delivery!Receive(p)
  BY <1>1, <1>3, <1>4, <1>5 DEF Delivery!Receive
<1> QED BY <1>6 DEF Delivery!Next

\* push_batch forwards buffers that are older than all that stay.
LEMMA PushForwards ==
    ASSUME CoreTypeOK, CoreTypeOK', OrderInv, TaskPush
    PROVE  Delivery!Next \/ UNCHANGED Delivery!vars
<1> DEFINE received == [r \in Pads |->
                           BufferNumbers(queue[r] \cup out_batch[r] \cup delivered[r])]
           forwarded == [r \in Pads |-> BufferNumbers(delivered[r])]
<1>1. /\ UNCHANGED <<queue, eos_sent>>
      /\ \A p \in Pads : out_batch'[p] = {} /\ delivered'[p] = delivered[p] \cup out_batch[p]
  BY DEF TaskPush, padVars
<1>2. received' = received
  <2>1. \A p \in Pads : queue'[p] \cup out_batch'[p] \cup delivered'[p]
                           = queue[p] \cup out_batch[p] \cup delivered[p]
    BY <1>1
  <2> QED BY <2>1
<1>3. ASSUME NEW p \in Pads
      PROVE  /\ forwarded[p] \subseteq forwarded'[p]
             /\ forwarded'[p] \subseteq received[p]
             /\ \A n \in forwarded'[p], m \in received[p] \ forwarded'[p] : n < m
  <2>1. forwarded'[p] = BufferNumbers(delivered[p] \cup out_batch[p])
    BY <1>1
  <2>2. forwarded[p] \subseteq forwarded'[p] /\ forwarded'[p] \subseteq received[p]
    BY <2>1 DEF BufferNumbers, Buffers
  <2>3. ASSUME NEW n \in forwarded'[p], NEW m \in received[p] \ forwarded'[p]
        PROVE  n < m
    <3>1. PICK d \in Buffers(delivered[p] \cup out_batch[p]) : n = d.n
      BY <2>1 DEF BufferNumbers
    <3>2. PICK e \in Buffers(queue[p]) : m = e.n
      BY <2>1 DEF BufferNumbers, Buffers
    <3> QED BY <3>1, <3>2 DEF OrderInv, BuffersInOrder, Before, Buffers, InFlight
  <2> QED BY <2>2, <2>3
<1>4. CASE forwarded' = forwarded
  BY <1>1, <1>2, <1>4 DEF Delivery!vars
<1>5. CASE forwarded' # forwarded
  <2>1. Delivery!Forward
    BY <1>1, <1>2, <1>3, <1>5 DEF Delivery!Forward
  <2> QED BY <2>1 DEF Delivery!Next
<1> QED BY <1>4, <1>5

\* The record of EOS is written when no buffer is left anywhere.
LEMMA EosRecordedAtTheEnd ==
    ASSUME CoreTypeOK, OrderInv, EosInv, FinalInv, TaskEosReturned(TRUE)
    PROVE  Delivery!Next \/ UNCHANGED Delivery!vars
<1> DEFINE received == [r \in Pads |->
                           BufferNumbers(queue[r] \cup out_batch[r] \cup delivered[r])]
           forwarded == [r \in Pads |-> BufferNumbers(delivered[r])]
<1>1. UNCHANGED <<queue, out_batch, delivered>> /\ task = "eosPushed" /\ eos_sent' = TRUE
  BY DEF TaskEosReturned, TaskGoes, padVars, historyVars
<1>2. received' = received /\ forwarded' = forwarded
  BY <1>1
<1>3. CASE eos_sent = TRUE
  BY <1>1, <1>2, <1>3 DEF Delivery!vars
<1>4. CASE ~eos_sent
  <2>1. ASSUME NEW p \in Pads
        PROVE  forwarded[p] = received[p]
    <3>1. out_batch[p] = {}
      BY <1>1 DEF OrderInv
    <3>2. Buffers(queue[p]) = {}
      <4>1. CASE p \in Live
        BY <1>1, <4>1 DEF FinalInv, Ending, EosInv, PadInv
      <4>2. CASE p \notin Live
        BY <4>2 DEF FinalInv, Live, EosInv, PadInv, Buffers
      <4> QED BY <4>1, <4>2
    <3>3. Buffers(queue[p] \cup out_batch[p] \cup delivered[p]) = Buffers(delivered[p])
      BY <3>1, <3>2 DEF Buffers
    <3> QED BY <3>3 DEF BufferNumbers
  <2>2. Delivery!Finish
    BY <1>1, <1>2, <1>4, <2>1 DEF Delivery!Finish
  <2> QED BY <2>2 DEF Delivery!Next
<1> QED BY <1>3, <1>4 DEF CoreTypeOK

\* A step that leaves the buffers where they are and does not set the record.
LEMMA StandingQuiet ==
    ASSUME CoreTypeOK, CoreTypeOK', UNCHANGED <<queue, out_batch, delivered>>,
           eos_sent' => eos_sent
    PROVE  Delivery!Next \/ UNCHANGED Delivery!vars
  BY QuietStep DEF CoreTypeOK

\* Each step of the muxer is a step of InOrderDelivery or stutters.
LEMMA DeliveryStep ==
    ASSUME EosIsFinal, CoreTypeOK, CoreTypeOK', OrderInv, EosInv, FinalInv, [Next]_vars
    PROVE  Delivery!Next \/ UNCHANGED Delivery!vars
<1> USE DEF helperVars, policyVars, padVars, elementVars, threadVars, historyVars
<1>1. ASSUME NEW p \in Pads, Arrival(p) \/ Handler(p)
      PROVE  Delivery!Next \/ UNCHANGED Delivery!vars
  <2>1. CASE PushStreamStart(p) \/ PushSegment(p) \/ PushEos(p)
    BY <2>1, PushEventsQuiet DEF PushStreamStart, PushSegment, PushEos
  <2>2. CASE AddBuffer(p)
    BY <2>2, AddBufferReceives
  <2>3. CASE QueueStreamStart(p) \/ Segment(p)
    BY <2>3, EventQuiet DEF QueueStreamStart, Segment, EventKinds
  <2>4. CASE Eos(p)
    <3>1. CASE eos[p]
      BY <2>4, <3>1, StandingQuiet DEF Eos
    <3>2. CASE ~eos[p]
      BY <2>4, <3>2, EventQuiet DEF Eos, EventKinds
    <3> QED BY <3>1, <3>2
  <2>5. CASE StreamStart(p) \/ Configure(p) \/ AdmitBuffer(p) \/ FlushStop(p)
    BY <2>5, StandingQuiet DEF StreamStart, Configure, AdmitBuffer, FlushStop
  <2>6. CASE Caps(p) \/ CapsEosNotSent(p) \/ CapsNotAllEos(p) \/ ResetPad(p)
             \/ FlushStopEosNotSent(p)
    BY <2>6, StandingQuiet DEF Caps, CapsEosNotSent, CapsNotAllEos, ResetPad,
       FlushStopEosNotSent
  <2> QED BY <1>1, <2>1, <2>2, <2>3, <2>4, <2>5, <2>6 DEF Arrival, Handler
<1>2. CASE Task
  <2> USE DEF taskOnly
  <2>1. CASE TaskDrain \/ TaskEventsFirst \/ TaskEventsWaited \/ TaskEvents \/ TaskTail
    BY <2>1, PushEventsQuiet DEF TaskDrain, TaskEventsFirst, TaskEventsWaited, TaskEvents,
       TaskTail
  <2>2. CASE TaskCopy
    <3> DEFINE taken(c) == [p \in Pads |-> IF p \in DOMAIN c
                                           THEN FirstBuffers(queue[p], c[p]) ELSE {}]
    <3>1. PICK c \in Copies : /\ out_batch' = taken(c)
                              /\ queue' = [p \in Pads |-> queue[p] \ taken(c)[p]]
      BY <2>2 DEF TaskCopy
    <3>2. UNCHANGED <<delivered, eos_sent>> /\ \A p \in Pads : out_batch[p] = {}
      BY <2>2 DEF TaskCopy, TaskGoes, OrderInv
    <3>3. \A p \in Pads : queue'[p] \cup out_batch'[p] = queue[p]
      BY <3>1 DEF FirstBuffers, Buffers
    <3>4. \A p \in Pads : Buffers(queue'[p] \cup out_batch'[p] \cup delivered'[p])
                             = Buffers(queue[p] \cup out_batch[p] \cup delivered[p])
      BY <3>2, <3>3
    <3> QED BY <3>2, <3>4, QuietStep DEF CoreTypeOK
  <2>3. CASE TaskPush
    BY <2>3, PushForwards
  <2>4. CASE TaskEosReturned(TRUE)
    BY <2>4, EosRecordedAtTheEnd
  <2>5. CASE TaskEosReturned(FALSE)
    BY <2>5, StandingQuiet DEF TaskEosReturned
  <2>6. CASE TaskTop \/ TaskAllocate \/ TaskTest \/ TaskForm \/ TaskLoopEnds
    <3>1. UNCHANGED <<queue, out_batch, delivered, eos_sent>>
      BY <2>6 DEF TaskTop, TaskAllocate, TaskTest, TaskForm, TaskLoopEnds
    <3> QED BY <3>1, StandingQuiet
  <2>7. CASE TaskWakeEmpty \/ TaskDecide \/ TaskReadEos \/ TaskPushEos \/ TaskSkipEos
    BY <2>7, StandingQuiet DEF TaskWakeEmpty, TaskDecide, TaskReadEos, TaskPushEos, TaskSkipEos
  <2> QED BY <1>2, <2>1, <2>2, <2>3, <2>4, <2>5, <2>6, <2>7 DEF Task
<1>3. CASE Timeout \/ UNCHANGED vars
  BY <1>3, StandingQuiet DEF Timeout, vars
<1>4. CASE AppContinues \/ AppStarts
  <2>1. CASE HandleStop \/ JoinTask \/ ResetStop \/ Restart \/ Stop
             \/ (\E p \in Pads : Deactivate(p) \/ Release(p) \/ RemovePad(p)
                                 \/ RemovePadTimeout(p))
    BY <2>1 DEF HandleStop, JoinTask, ResetStop, Restart, Stop, AppGoes, StopOps, EosIsFinal,
       EosInv, AppInv, Deactivate, Release, RemovePad, RemovePadTimeout, FinalInv, PadInv,
       Counted
  <2>2. CASE Requested \/ \E p \in Pads : AddPad(p) \/ Released(p) \/ Request(p)
    BY <2>2, StandingQuiet DEF Requested, AddPad, Released, Request
  <2> QED BY <1>4, <2>1, <2>2 DEF AppContinues, AppStarts
<1> QED BY <1>1, <1>2, <1>3, <1>4 DEF Next

\* The muxer implements InOrderDelivery when EOS is final: each buffer leaves once, a stream's
\* buffers in their order of arrival, and the end is declared only when nothing is left.
THEOREM MuxDelivers ==
    ASSUME EosIsFinal
    PROVE  Spec => DeliversInOrder
<1>1. Init => Delivery!Init
  BY DEF Init, Delivery!Init, BufferNumbers, Buffers
<1>2. EosIsFinal /\ CoreTypeOK /\ CoreTypeOK' /\ OrderInv /\ EosInv /\ FinalInv /\ [Next]_vars
         => [Delivery!Next]_Delivery!vars
  BY DeliveryStep
<1> QED BY <1>1, <1>2, TypeCorrect, OrderInvariant, FinalInvariant, PTL
        DEF Spec, DeliversInOrder, Delivery!Spec

--------------------------------------------------------------------------------
(* The batch between two iterations of the source task *)

\* A full batch exists only between form_batch and reset_batch.
BatchInv == task \notin {"events", "copy", "push"} => ~IsReady(batch)

\* A batch is as large as get_batch_size says, a natural number.
LEMMA GetBatchSizeType ==
    ASSUME CoreTypeOK
    PROVE  GetBatchSize \in Nat
<1>1. Cardinality(Entries) \in Nat /\ Word \in Nat /\ Word > 0
  BY PadsCountable, StreamMuxAssumption DEF Entries
<1>2. num_sources_eos \in Int
  BY <1>1 DEF CoreTypeOK
<1>3. (Cardinality(Entries) - num_sources_eos) % Word \in Nat
  BY <1>1, <1>2
<1> QED BY <1>3, StreamMuxAssumption DEF GetBatchSize

\* A step that leaves the batch alone and does not take the task off its way to push_batch.
LEMMA StandingKeepsBatch ==
    ASSUME BatchInv, UNCHANGED batch,
           task \in {"events", "copy", "push"} => task' \in {"events", "copy", "push"}
    PROVE  BatchInv'
  BY DEF BatchInv

\* A batch that form_batch filled is pushed: it is neither waited for nor dropped.
LEMMA FormKeepsBatch ==
    ASSUME CoreTypeOK, TaskForm
    PROVE  BatchInv'
<1>1. batch'.size \in Nat
  BY GetBatchSizeType DEF TaskForm
<1>2. task' = IF MustWait(batch') THEN "wait" ELSE IF Pushable(batch') THEN "events" ELSE "tail"
  BY DEF TaskForm
<1>3. CASE MustWait(batch')
  BY <1>3 DEF BatchInv, MustWait
<1>4. CASE Pushable(batch')
  BY <1>2, <1>4 DEF BatchInv, MustWait
<1>5. CASE ~Pushable(batch')
  BY <1>1, <1>5 DEF BatchInv, Pushable, IsReady
<1> QED BY <1>3, <1>4, <1>5

LEMMA BatchStep ==
    ASSUME CoreTypeOK, BatchInv, [Next]_vars
    PROVE  BatchInv'
<1> USE DEF helperVars, policyVars, padVars, elementVars, threadVars, historyVars
<1>1. ASSUME NEW p \in Pads, Arrival(p) \/ Handler(p)
      PROVE  BatchInv'
  <2>1. CASE Arrival(p)
    BY <2>1, StandingKeepsBatch
       DEF Arrival, StreamStart, Configure, Segment, AdmitBuffer, Eos, FlushStop
  <2>2. CASE Caps(p)
    <3>1. UNCHANGED batch /\ (task' = task \/ (task = "off" /\ task' = "top"))
      BY <2>2 DEF Caps, CoreTypeOK
    <3> QED BY <3>1, StandingKeepsBatch
  <2>3. CASE Handler(p) /\ ~Caps(p)
    <3>1. UNCHANGED <<batch, task>>
      BY <2>3 DEF Handler, QueueStreamStart, PushStreamStart, CapsEosNotSent, CapsNotAllEos,
         ResetPad, PushSegment, AddBuffer, PushEos, FlushStopEosNotSent, PushEvents
    <3> QED BY <3>1, StandingKeepsBatch
  <2> QED BY <1>1, <2>1, <2>2, <2>3
<1>2. CASE Task
  <2> USE DEF taskOnly, TaskGoes
  <2>1. CASE TaskTop \/ TaskDrain \/ TaskAllocate \/ TaskTest \/ TaskEventsFirst \/ TaskLoopEnds
    BY <2>1, StandingKeepsBatch DEF TaskTop, TaskDrain, TaskAllocate, TaskTest, TaskEventsFirst,
       TaskLoopEnds, PushEvents
  <2>2. CASE TaskWakeEmpty \/ TaskEventsWaited \/ TaskDecide \/ TaskEvents \/ TaskCopy
    BY <2>2, StandingKeepsBatch DEF TaskWakeEmpty, TaskEventsWaited, TaskDecide, TaskEvents,
       TaskCopy, PushEvents
  <2>3. CASE TaskTail \/ TaskReadEos \/ TaskPushEos \/ TaskSkipEos
             \/ TaskEosReturned(TRUE) \/ TaskEosReturned(FALSE)
    BY <2>3, StandingKeepsBatch DEF TaskTail, TaskReadEos, TaskPushEos, TaskSkipEos,
       TaskEosReturned, PushEvents
  <2>4. CASE TaskForm
    BY <2>4, FormKeepsBatch
  <2>5. CASE TaskPush
    <3>1. batch'.acc = 0 /\ batch'.size = batch.size
      BY <2>5 DEF TaskPush, ResetBatch, NoBatch
    <3> QED BY <3>1 DEF BatchInv, IsReady
  <2> QED BY <1>2, <2>1, <2>2, <2>3, <2>4, <2>5 DEF Task
<1>3. CASE Timeout \/ UNCHANGED vars
  BY <1>3, StandingKeepsBatch DEF Timeout, vars
<1>4. CASE AppStarts
  BY <1>4, StandingKeepsBatch DEF AppStarts, Stop, Request, Release
<1>5. CASE AppContinues
  <2>1. CASE JoinTask
    <3>1. UNCHANGED batch /\ (task' = task \/ (task' = "off" /\ task \in {"off", "top"}))
      BY <2>1 DEF JoinTask, CoreTypeOK
    <3> QED BY <3>1, StandingKeepsBatch
  <2>2. CASE Requested \/ HandleStop \/ ResetStop \/ Restart
    BY <2>2, StandingKeepsBatch DEF Requested, HandleStop, ResetStop, Restart
  <2>3. ASSUME NEW p \in Pads,
               AddPad(p) \/ RemovePad(p) \/ RemovePadTimeout(p) \/ Released(p) \/ Deactivate(p)
        PROVE  BatchInv'
    BY <2>3, StandingKeepsBatch DEF AddPad, RemovePad, RemovePadTimeout, Released, Deactivate
  <2> QED BY <1>5, <2>1, <2>2, <2>3 DEF AppContinues
<1> QED BY <1>1, <1>2, <1>3, <1>4, <1>5 DEF Next

\* push_loop never meets a full batch that was left over: its loop always runs, whatever the
\* application and the sources do.
THEOREM NeverLeftOver == Spec => []NoBatchLeftOver
<1>1. Init => BatchInv
  BY DEF Init, BatchInv, IsReady, NoBatch
<1>2. CoreTypeOK /\ BatchInv /\ [Next]_vars => BatchInv'
  BY BatchStep
<1>3. BatchInv => NoBatchLeftOver
  BY DEF BatchInv, NoBatchLeftOver
<1> QED BY <1>1, <1>2, <1>3, TypeCorrect, PTL DEF Spec

--------------------------------------------------------------------------------
(* The count of the waiting buffers *)

\* The count must also be right for a pad that does not exist yet, and such a pad is the only
\* one that add_pad makes: handle_stop, which clears queues and not their counts, is left out.
BufferInv ==
    /\ DOMAIN buffer_count = Pads
    /\ BufferCountExact
    /\ \A p \in Pads : stream[p] = "absent" => Buffers(queue[p]) = {} /\ buffer_count[p] = 0
    /\ app.op = "request" => app.pad \in Pads /\ stream[app.pad] = "absent"
    /\ app.op \notin StopOps

\* A step that leaves the buffers of the pads alone, or erases a pad with all of them.
LEMMA StandingKeepsBuffers ==
    ASSUME BufferInv,
           \A p \in Pads : inputs'[p] = "pad" => inputs[p] = "pad",
           \A p \in Pads : stream'[p] = "absent" => stream[p] = "absent",
           \A p \in Pads : \/ Buffers(queue'[p]) = Buffers(queue[p])
                           \/ inputs'[p] # "pad" /\ Buffers(queue'[p]) = {},
           UNCHANGED buffer_count,
           app'.op \notin StopOps,
           app'.op = "request" => app'.pad \in Pads /\ stream'[app'.pad] = "absent"
    PROVE  BufferInv'
  BY DEF BufferInv, BufferCountExact, Live

\* push_events takes no buffer out of a queue.
LEMMA PushEventsKeepsBuffers ==
    ASSUME CoreTypeOK, PushEvents
    PROVE  /\ UNCHANGED <<inputs, buffer_count, app>>
           /\ \A p \in Pads : Buffers(queue'[p]) = Buffers(queue[p])
<1>1. UNCHANGED <<inputs, buffer_count, app>>
  BY DEF PushEvents
<1>2. \A p \in Pads : queue'[p] = IF p \in Live THEN queue[p] \ LeadingEvents(queue[p])
                                                ELSE queue[p]
  BY DEF PushEvents
<1>3. \A p \in Pads : Buffers(queue'[p]) = Buffers(queue[p])
  BY <1>2 DEF Buffers, LeadingEvents
<1> QED BY <1>1, <1>3

\* queue_entry of an event adds no buffer.
LEMMA EventIsNoBuffer ==
    ASSUME CoreTypeOK, NEW p \in Pads, NEW kind \in EventKinds, Enqueue(p, kind)
    PROVE  \A r \in Pads : Buffers(queue'[r]) = Buffers(queue[r])
  BY DEF Enqueue, Buffers, EventKinds, CoreTypeOK

\* add_buffer counts the buffer it queues, which is younger than all that wait.
LEMMA AddKeepsCount ==
    ASSUME CoreTypeOK, OrderInv, BufferInv, NEW p \in Pads, AddBuffer(p)
    PROVE  BufferInv'
<1> DEFINE new == [n |-> arrived[p] + 1, kind |-> "buffer"]
<1>1. /\ queue' = [queue EXCEPT ![p] = @ \cup {new}]
      /\ buffer_count' = [buffer_count EXCEPT ![p] = @ + 1]
      /\ UNCHANGED <<inputs, app>>
      /\ stream[p] = "admitted" /\ stream' = [stream EXCEPT ![p] = "open"]
  BY DEF AddBuffer, Enqueue, StreamGoes
<1>2. \A r \in Pads : stream'[r] = "absent" <=> stream[r] = "absent"
  BY <1>1 DEF CoreTypeOK
<1>3. new \notin queue[p]
  BY DEF OrderInv, CoreTypeOK, Entry
<1>4. Buffers(queue[p] \cup {new}) = Buffers(queue[p]) \cup {new} /\ new \notin Buffers(queue[p])
  BY <1>3 DEF Buffers
<1>5. IsFiniteSet(Buffers(queue[p]))
  BY FS_Subset DEF OrderInv, Buffers
<1>6. /\ Cardinality(Buffers(queue[p]) \cup {new}) = Cardinality(Buffers(queue[p])) + 1
      /\ Cardinality(Buffers(queue[p])) \in Nat
  BY <1>4, <1>5, FS_AddElement, FS_CardinalityType
<1> HIDE DEF new
<1>7. ASSUME NEW r \in Pads, inputs[r] = "pad"
      PROVE  buffer_count'[r] = Cardinality(Buffers(queue'[r]))
  <2>0. buffer_count[r] = Cardinality(Buffers(queue[r]))
    BY <1>7 DEF BufferInv, BufferCountExact, Live
  <2>1. CASE r = p
    BY <1>1, <1>4, <2>0, <2>1, <1>6 DEF CoreTypeOK, BufferInv
  <2>2. CASE r # p
    BY <1>1, <2>0, <2>2 DEF CoreTypeOK, BufferInv
  <2> QED BY <2>1, <2>2
<1> QED BY <1>1, <1>2, <1>7 DEF BufferInv, BufferCountExact, Live, CoreTypeOK

\* copy_batch takes buffers of a queue off its count.
LEMMA CopyTakes ==
    ASSUME TaskCopy, NEW p \in Pads
    PROVE  \E taken \in SUBSET Buffers(queue[p]) :
               /\ queue'[p] = queue[p] \ taken
               /\ buffer_count'[p] = buffer_count[p] - Cardinality(taken)
<1>1. PICK c \in Copies :
         LET taken == [r \in Pads |-> IF r \in DOMAIN c THEN FirstBuffers(queue[r], c[r]) ELSE {}]
         IN /\ queue' = [r \in Pads |-> queue[r] \ taken[r]]
            /\ buffer_count' = [r \in Pads |-> CountAfter(buffer_count[r], Cardinality(taken[r]))]
  BY DEF TaskCopy
<1>2. CASE p \in DOMAIN c
  <2>1. FirstBuffers(queue[p], c[p]) \in SUBSET Buffers(queue[p])
    BY DEF FirstBuffers
  <2> QED BY <1>1, <1>2, <2>1 DEF CountAfter
<1>3. CASE p \notin DOMAIN c
  BY <1>1, <1>3 DEF CountAfter
<1> QED BY <1>2, <1>3

\* copy_batch takes as many off the count as it takes buffers out of the queue.
LEMMA CopyKeepsCount ==
    ASSUME CoreTypeOK, OrderInv, BufferInv, TaskCopy
    PROVE  BufferInv'
<1>1. /\ DOMAIN buffer_count' = Pads
      /\ \A p \in Pads : stream'[p] = "absent" <=> stream[p] = "absent"
  BY DEF TaskCopy
<1>2. UNCHANGED app /\ \A p \in Pads : inputs'[p] = "pad" <=> inputs[p] = "pad"
  BY DEF TaskCopy
<1>3. ASSUME NEW p \in Pads, buffer_count[p] = Cardinality(Buffers(queue[p]))
      PROVE  buffer_count'[p] = Cardinality(Buffers(queue'[p]))
  <2>1. PICK taken \in SUBSET Buffers(queue[p]) :
               /\ queue'[p] = queue[p] \ taken
               /\ buffer_count'[p] = buffer_count[p] - Cardinality(taken)
    BY CopyTakes
  <2>2. IsFiniteSet(Buffers(queue[p])) /\ Buffers(queue[p]) \cap taken = taken
    BY FS_Subset DEF OrderInv, Buffers
  <2>3. Cardinality(Buffers(queue[p]) \ taken)
           = Cardinality(Buffers(queue[p])) - Cardinality(taken)
    BY <2>2, FS_Difference
  <2>4. Buffers(queue'[p]) = Buffers(queue[p]) \ taken
    BY <2>1 DEF Buffers
  <2> QED BY <1>3, <2>1, <2>3, <2>4
<1>4. ASSUME NEW p \in Pads, Buffers(queue[p]) = {}, buffer_count[p] = 0
      PROVE  Buffers(queue'[p]) = {} /\ buffer_count'[p] = 0
  <2>1. PICK taken \in SUBSET Buffers(queue[p]) :
               /\ queue'[p] = queue[p] \ taken
               /\ buffer_count'[p] = buffer_count[p] - Cardinality(taken)
    BY CopyTakes
  <2>2. taken = {}
    BY <1>4
  <2> QED BY <1>4, <2>1, <2>2, FS_EmptySet
<1> QED BY <1>1, <1>2, <1>3, <1>4 DEF BufferInv, BufferCountExact, Live

LEMMA StreamStepCount ==
    ASSUME CoreTypeOK, OrderInv, BufferInv, NEW p \in Pads, Arrival(p) \/ Handler(p)
    PROVE  BufferInv'
<1> USE DEF helperVars, policyVars, padVars, elementVars, historyVars
<1>1. \A r \in Pads : stream'[r] = "absent" <=> stream[r] = "absent"
  <2>1. CASE Arrival(p)
    BY <2>1 DEF Arrival, StreamStart, MayReopen, Configure, Segment, AdmitBuffer, Eos,
       FlushStop, StreamGoes, CoreTypeOK
  <2>2. CASE Handler(p)
    BY <2>2 DEF Handler, QueueStreamStart, PushStreamStart, Caps, CapsEosNotSent, CapsNotAllEos,
       ResetPad, PushSegment, AddBuffer, PushEos, FlushStopEosNotSent, StreamGoes, CoreTypeOK
  <2> QED BY <2>1, <2>2
<1>2. CASE AddBuffer(p)
  BY <1>2, AddKeepsCount
<1>3. CASE ~AddBuffer(p)
  <2>1. UNCHANGED <<inputs, buffer_count, app>>
        /\ \A r \in Pads : Buffers(queue'[r]) = Buffers(queue[r])
    <3>1. CASE PushStreamStart(p) \/ PushSegment(p) \/ PushEos(p)
      BY <3>1, PushEventsKeepsBuffers DEF PushStreamStart, PushSegment, PushEos
    <3>2. CASE QueueStreamStart(p) \/ Segment(p)
      BY <3>2, EventIsNoBuffer DEF QueueStreamStart, Segment, EventKinds
    <3>3. CASE Eos(p) /\ eos[p]
      BY <3>3 DEF Eos
    <3>4. CASE Eos(p) /\ ~eos[p]
      BY <3>4, EventIsNoBuffer DEF Eos, EventKinds
    <3>5. CASE StreamStart(p) \/ Configure(p) \/ AdmitBuffer(p) \/ FlushStop(p)
      BY <3>5 DEF StreamStart, Configure, AdmitBuffer, FlushStop
    <3>6. CASE Caps(p) \/ CapsEosNotSent(p) \/ CapsNotAllEos(p) \/ ResetPad(p)
               \/ FlushStopEosNotSent(p)
      BY <3>6 DEF Caps, CapsEosNotSent, CapsNotAllEos, ResetPad, FlushStopEosNotSent
    <3> QED BY <1>3, <3>1, <3>2, <3>3, <3>4, <3>5, <3>6 DEF Arrival, Handler
  <2> QED BY <1>1, <2>1, StandingKeepsBuffers DEF BufferInv
<1> QED BY <1>2, <1>3

LEMMA CountStep ==
    ASSUME "stop" \notin Env, CoreTypeOK, OrderInv, BufferInv, [Next]_vars
    PROVE  BufferInv'
<1> USE DEF helperVars, policyVars, padVars, elementVars, threadVars, historyVars
<1>1. ASSUME NEW p \in Pads, Arrival(p) \/ Handler(p)
      PROVE  BufferInv'
  BY <1>1, StreamStepCount
<1>2. CASE Task
  <2> USE DEF taskOnly
  <2>1. CASE TaskCopy
    BY <2>1, CopyKeepsCount
  <2>2. CASE ~TaskCopy
    <3>1. UNCHANGED <<inputs, buffer_count, app, stream>>
          /\ \A r \in Pads : Buffers(queue'[r]) = Buffers(queue[r])
      <4>1. CASE TaskDrain \/ TaskEventsFirst \/ TaskEventsWaited \/ TaskEvents \/ TaskTail
        BY <4>1, PushEventsKeepsBuffers DEF TaskDrain, TaskEventsFirst, TaskEventsWaited,
           TaskEvents, TaskTail
      <4>2. CASE TaskTop \/ TaskAllocate \/ TaskTest \/ TaskForm \/ TaskLoopEnds \/ TaskPush
        BY <4>2 DEF TaskTop, TaskAllocate, TaskTest, TaskForm, TaskLoopEnds, TaskPush
      <4>3. CASE TaskWakeEmpty \/ TaskDecide \/ TaskReadEos \/ TaskPushEos \/ TaskSkipEos
                 \/ TaskEosReturned(TRUE) \/ TaskEosReturned(FALSE)
        BY <4>3 DEF TaskWakeEmpty, TaskDecide, TaskReadEos, TaskPushEos, TaskSkipEos,
           TaskEosReturned
      <4> QED BY <1>2, <2>2, <4>1, <4>2, <4>3 DEF Task
    <3> QED BY <3>1, StandingKeepsBuffers DEF BufferInv
  <2> QED BY <2>1, <2>2
<1>3. CASE Timeout \/ UNCHANGED vars
  BY <1>3, StandingKeepsBuffers DEF Timeout, vars, BufferInv
<1>4. CASE AppStarts
  <2>1. PICK p \in Pads : Request(p) \/ Release(p)
    BY <1>4 DEF AppStarts, Stop
  <2>2. CASE Request(p)
    <3>1. /\ stream[p] = "absent" /\ app' = [op |-> "request", pad |-> p]
          /\ UNCHANGED <<stream, queue, buffer_count>>
          /\ \A r \in Pads : inputs'[r] = "pad" => inputs[r] = "pad"
      BY <2>2 DEF Request, AppGoes, CoreTypeOK
    <3> QED BY <3>1, StandingKeepsBuffers DEF StopOps
  <2>3. CASE Release(p)
    <3>1. /\ stream' = [stream EXCEPT ![p] = "inactive"] /\ app' = [op |-> "release", pad |-> p]
          /\ UNCHANGED <<inputs, queue, buffer_count>>
      BY <2>3 DEF Release, AppGoes
    <3> QED BY <3>1, StandingKeepsBuffers DEF StopOps, CoreTypeOK
  <2> QED BY <2>1, <2>2, <2>3
<1>5. CASE AppContinues
  <2>1. CASE Requested
    BY <2>1, StandingKeepsBuffers DEF Requested, Idle, StopOps
  <2>2. CASE HandleStop \/ JoinTask \/ ResetStop \/ Restart
    BY <2>2 DEF HandleStop, JoinTask, ResetStop, Restart, AppGoes, StopOps, BufferInv
  <2>3. ASSUME NEW p \in Pads, AddPad(p)
        PROVE  BufferInv'
    <3>1. /\ app = [op |-> "request", pad |-> p] /\ app' = [op |-> "requested", pad |-> p]
          /\ inputs' = [inputs EXCEPT ![p] = "pad"] /\ stream' = [stream EXCEPT ![p] = "new"]
          /\ UNCHANGED <<queue, buffer_count>>
      BY <2>3 DEF AddPad
    <3>2. buffer_count[p] = Cardinality(Buffers(queue[p]))
      BY <3>1, FS_EmptySet DEF BufferInv
    <3> QED BY <3>1, <3>2 DEF BufferInv, BufferCountExact, Live, StopOps, CoreTypeOK
  <2>4. ASSUME NEW p \in Pads, RemovePad(p) \/ RemovePadTimeout(p)
        PROVE  BufferInv'
    <3>1. UNCHANGED <<stream, buffer_count>> /\ app'.op \in {"removed", "await"}
      BY <2>4 DEF RemovePad, RemovePadTimeout, ErasePad
    <3>2. \/ ErasePad(p)
          \/ UNCHANGED <<inputs, queue>>
      BY <2>4 DEF RemovePad, RemovePadTimeout, CoreTypeOK
    <3>3. CASE ErasePad(p)
      <4>1. \A r \in Pads : /\ inputs'[r] = IF r = p THEN "none" ELSE inputs[r]
                            /\ queue'[r] = IF r = p THEN {} ELSE queue[r]
        BY <3>3 DEF ErasePad, CoreTypeOK
      <4> QED BY <3>1, <4>1, StandingKeepsBuffers DEF Buffers, StopOps
    <3>4. CASE UNCHANGED <<inputs, queue>>
      BY <3>1, <3>4, StandingKeepsBuffers DEF StopOps
    <3> QED BY <3>2, <3>3, <3>4
  <2>5. ASSUME NEW p \in Pads, Released(p)
        PROVE  BufferInv'
    BY <2>5, StandingKeepsBuffers DEF Released, Idle, StopOps, CoreTypeOK
  <2>6. ASSUME NEW p \in Pads, Deactivate(p)
        PROVE  BufferInv'
    BY <2>6 DEF Deactivate, StopOps, BufferInv
  <2> QED BY <1>5, <2>1, <2>2, <2>3, <2>4, <2>5, <2>6 DEF AppContinues
<1> QED BY <1>1, <1>2, <1>3, <1>4, <1>5 DEF Next

\* buffer_count, which blocks the producers, is exact for every pad, even one that is released
\* with buffers left, as long as the element is not stopped (add_buffer, pop_buffer_done).
THEOREM CountsBuffers ==
    ASSUME "stop" \notin Env
    PROVE  Spec => []BufferCountExact
<1>1. Init => BufferInv
  BY FS_EmptySet DEF Init, BufferInv, BufferCountExact, Live, Buffers, Idle, StopOps
<1>2. "stop" \notin Env /\ CoreTypeOK /\ OrderInv /\ BufferInv /\ [Next]_vars => BufferInv'
  BY CountStep
<1>3. BufferInv => BufferCountExact
  BY DEF BufferInv
<1> QED BY <1>1, <1>2, <1>3, TypeCorrect, OrderInvariant, PTL DEF Spec

--------------------------------------------------------------------------------
(* The types of the batch, its sources and the counts *)

SettingsInv ==
    /\ module_initialized \in BOOLEAN
    /\ stop_task \in BOOLEAN /\ got_first_buffer \in BOOLEAN /\ timed_out \in BOOLEAN
    /\ max_buffer_count \in [Pads -> 0..(Word - 1)]
    /\ caps_seen \subseteq Pads /\ out_size \in Nat /\ stops \in 0..MaxStops

\* What form_batch leaves fits the batch, and each share the bound per source.
ShareInv ==
    /\ batch.size \in Nat /\ batch.acc \in 0..batch.size
    /\ DOMAIN batch.num \subseteq Pads
    /\ \A p \in DOMAIN batch.num : batch.num[p] \in 0..MaxSame

\* Each source is known once, so that the place to go on from is at most their number.
SourcesInv ==
    /\ sources \in Seq(Pads) /\ IsInjective(sources)
    /\ next_source \in 0..Cardinality(Pads)

\* No more is taken off a count than was added: handle_stop clears queues, not counts.
CountsInv ==
    /\ buffer_count \in [Pads -> Nat]
    /\ \A p \in Pads : Cardinality(Buffers(queue[p])) <= buffer_count[p]

RestInv == SettingsInv /\ ShareInv /\ SourcesInv /\ CountsInv

\* A batch size is an unsigned number.
LEMMA GetBatchSizeFits ==
    ASSUME CoreTypeOK
    PROVE  GetBatchSize \in 0..(Word - 1)
<1>1. Cardinality(Entries) \in Nat /\ Word \in Nat /\ Word > 0
  BY PadsCountable, StreamMuxAssumption DEF Entries
<1>2. num_sources_eos \in Int
  BY <1>1 DEF CoreTypeOK
<1>3. (Cardinality(Entries) - num_sources_eos) % Word \in 0..(Word - 1)
  BY <1>1, <1>2
<1> QED BY <1>1, <1>3, StreamMuxAssumption DEF GetBatchSize

\* There are finitely many pads.
LEMMA PadsHaveSize == Cardinality(Pads) \in Nat
  BY StreamMuxAssumption, FS_CardinalityType

\* A queue holds finitely many buffers.
LEMMA BuffersAreFinite ==
    ASSUME OrderInv, NEW p \in Pads
    PROVE  IsFiniteSet(Buffers(queue[p])) /\ Cardinality(Buffers(queue[p])) \in Nat
<1>1. IsFiniteSet(Buffers(queue[p]))
  BY FS_Subset DEF OrderInv, Buffers
<1> QED BY <1>1, FS_CardinalityType

\* What waits for form_batch: no pad offers more than max_same_source_frames, and a pad without
\* buffers offers none.
LEMMA OfferType ==
    ASSUME CoreTypeOK, OrderInv
    PROVE  /\ DOMAIN Offer = Live /\ Offer \in [DOMAIN Offer -> Nat]
           /\ \A p \in Live : Offer[p] \in 0..MaxSame
           /\ \A p \in Live : Buffers(queue[p]) = {} => Offer[p] = 0
<1>1. DOMAIN Offer = Live
  BY DEF Offer
<1>2. ASSUME NEW p \in Live
      PROVE  Offer[p] \in 0..MaxSame /\ (Buffers(queue[p]) = {} => Offer[p] = 0)
  <2> DEFINE c == Cardinality(Buffers(queue[p]))
             a == AllowedRepeats(MaxSame, GetBatchSize, 1)
  <2>1. c \in Nat /\ (Buffers(queue[p]) = {} => c = 0)
    BY BuffersAreFinite, FS_EmptySet DEF Live
  <2>2. a \in 0..MaxSame
    BY GetBatchSizeType, StreamMuxAssumption DEF AllowedRepeats, AtMost, AtLeast
  <2>3. Offer[p] = AtMost(c, a)
    BY DEF Offer
  <2> HIDE DEF c, a
  <2>4. AtMost(c, a) \in 0..MaxSame /\ (c = 0 => AtMost(c, a) = 0)
    BY <2>1, <2>2, StreamMuxAssumption DEF AtMost
  <2> QED BY <2>1, <2>3, <2>4
<1>3. \A p \in Live : Offer[p] \in Nat
  BY <1>2, StreamMuxAssumption
<1>4. Offer \in [DOMAIN Offer -> Nat]
  BY <1>1, <1>3 DEF Offer
<1> QED BY <1>1, <1>2, <1>4

\* An injective sequence of pads is no longer than there are pads.
LEMMA SourcesFit ==
    ASSUME SourcesInv
    PROVE  Len(sources) \in 0..Cardinality(Pads)
<1>1. Len(sources) \in Nat /\ sources \in [1..Len(sources) -> Pads]
  BY DEF SourcesInv
<1>2. IsFiniteSet(1..Len(sources)) /\ Cardinality(1..Len(sources)) = Len(sources)
  BY <1>1, FS_Interval
<1> DEFINE n == Len(sources)
           D == 1..Len(sources)
<1>3. \A i, j \in D : sources[i] = sources[j] => i = j
  BY <1>1 DEF SourcesInv, IsInjective
<1> HIDE DEF D, n
<1>4. sources \in [D -> Pads] /\ IsFiniteSet(D) /\ Cardinality(D) = n
  BY <1>1, <1>2 DEF D, n
<1>5. IsFiniteSet(Pads)
  BY StreamMuxAssumption
<1>6. ASSUME Cardinality(Pads) < Cardinality(D) PROVE FALSE
  <2>1. sources \in [D -> Pads]
    BY <1>4
  <2>2. IsFiniteSet(D)
    BY <1>4
  <2>3. \E x, y \in D : x # y /\ sources[x] = sources[y]
    BY <1>5, <1>6, <2>1, <2>2, FS_PigeonHole
  <2> QED BY <1>3, <2>3
<1>7. n \in Nat
  BY <1>1 DEF n
<1>8. n \in 0..Cardinality(Pads)
  BY <1>4, <1>6, <1>7, PadsHaveSize
<1> QED BY <1>8 DEF n

\* form_batch with the pads as the only group.
LEMMA FormedFits ==
    ASSUME CoreTypeOK, OrderInv, SourcesInv, NEW f,
           f = FormBatch(<<sources>>, [group |-> 0, source |-> next_source], TRUE,
                         Offer, GetBatchSize)
    PROVE  /\ f.acc \in 0..GetBatchSize
           /\ DOMAIN f.num \subseteq Live
           /\ \A p \in DOMAIN f.num : f.num[p] \in 0..Offer[p]
           /\ f.pos.source \in 0..Cardinality(Pads)
<1> DEFINE groups == <<sources>>
           pos == [group |-> 0, source |-> next_source]
<1>1. Grouped(groups, Pads) /\ Len(groups) = 1 /\ groups[1] = sources
  BY DEF Grouped, SourcesInv
<1>2. IsPosition(pos) /\ pos.source = next_source
  BY PadsHaveSize DEF IsPosition, SourcesInv
<1>3. Start(groups, pos, TRUE) = pos
  BY DEF Start
<1>4. f = FormBatch(groups, pos, TRUE, Offer, GetBatchSize)
  OBVIOUS
<1> HIDE DEF groups, pos
<1>5. GetBatchSize \in Nat /\ IsOffer(Offer) /\ IsPosition(Start(groups, pos, TRUE))
  BY <1>2, <1>3, GetBatchSizeType, OfferType DEF IsOffer
<1>6. Bounded(groups, pos, Offer, GetBatchSize, f)
  <2>1. Bounded(groups, Start(groups, pos, TRUE), Offer, GetBatchSize,
                FormBatch(groups, pos, TRUE, Offer, GetBatchSize))
    BY <1>1, <1>5, FormBatchBounded, Zenon
  <2> QED BY <1>3, <1>4, <2>1
<1>7. /\ f.acc \in 0..GetBatchSize
      /\ DOMAIN f.num \subseteq DOMAIN Offer
      /\ \A s \in DOMAIN f.num : f.num[s] \in 0..Offer[s]
      /\ \/ /\ f.pos.group + 1 \in 1..Len(groups)
            /\ f.pos.source \in 0..(Len(groups[f.pos.group + 1]) - 1)
         \/ f.pos.source \in {pos.source, 0}
  BY <1>6 DEF Bounded
<1> DEFINE g == f.pos.group
           x == f.pos.source
<1> HIDE DEF g, x
<1>8. \/ g + 1 \in 1..Len(groups) /\ x \in 0..(Len(groups[g + 1]) - 1)
      \/ x \in {pos.source, 0}
  BY <1>7 DEF g, x
<1>9. f.pos.source \in 0..Cardinality(Pads)
  <2>1. CASE x \in {pos.source, 0}
    <3>1. next_source \in 0..Cardinality(Pads)
      BY DEF SourcesInv
    <3>2. x \in 0..Cardinality(Pads)
      BY <1>2, <2>1, <3>1, PadsHaveSize
    <3> QED BY <3>2 DEF x
  <2>2. CASE g + 1 \in 1..Len(groups) /\ x \in 0..(Len(groups[g + 1]) - 1)
    <3>1. g + 1 = 1
      BY <1>1, <2>2
    <3>2. groups[g + 1] = sources
      BY <1>1, <3>1
    <3> DEFINE n == Len(sources)
               c == Cardinality(Pads)
    <3>3. x \in 0..(n - 1) /\ n \in 0..c /\ c \in Nat
      BY <2>2, <3>2, SourcesFit, PadsHaveSize
    <3> HIDE DEF n, c
    <3>4. x \in 0..c
      BY <3>3
    <3> QED BY <3>4 DEF x, c
  <2> QED BY <1>8, <2>1, <2>2
<1> QED BY <1>7, <1>9, OfferType

\* A step that adds no waiting buffer and counts none.
LEMMA StandingKeepsCounts ==
    ASSUME OrderInv, CountsInv, UNCHANGED buffer_count,
           \A p \in Pads : Buffers(queue'[p]) \subseteq Buffers(queue[p])
    PROVE  CountsInv'
<1>1. ASSUME NEW p \in Pads
      PROVE  Cardinality(Buffers(queue'[p])) <= buffer_count'[p]
  <2>1. Cardinality(Buffers(queue'[p])) <= Cardinality(Buffers(queue[p]))
        /\ IsFiniteSet(Buffers(queue'[p]))
    BY BuffersAreFinite, FS_Subset
  <2>2. Cardinality(Buffers(queue[p])) \in Nat /\ Cardinality(Buffers(queue'[p])) \in Nat
    BY <2>1, BuffersAreFinite, FS_CardinalityType
  <2>3. Cardinality(Buffers(queue[p])) <= buffer_count[p] /\ buffer_count[p] \in Nat
    BY DEF CountsInv
  <2> QED BY <2>1, <2>2, <2>3
<1> QED BY <1>1 DEF CountsInv

\* add_buffer counts the buffer it queues.
LEMMA AddKeepsCounts ==
    ASSUME CoreTypeOK, OrderInv, CountsInv, NEW p \in Pads, AddBuffer(p)
    PROVE  CountsInv'
<1> DEFINE new == [n |-> arrived[p] + 1, kind |-> "buffer"]
<1>1. /\ queue' = [queue EXCEPT ![p] = @ \cup {new}]
      /\ buffer_count' = [buffer_count EXCEPT ![p] = @ + 1]
  BY DEF AddBuffer, Enqueue
<1>2. Buffers(queue[p] \cup {new}) = Buffers(queue[p]) \cup {new}
  BY DEF Buffers
<1> HIDE DEF new
<1>3. /\ Cardinality(Buffers(queue[p]) \cup {new}) <= Cardinality(Buffers(queue[p])) + 1
      /\ Cardinality(Buffers(queue[p])) \in Nat
      /\ Cardinality(Buffers(queue[p]) \cup {new}) \in Nat
  BY BuffersAreFinite, FS_AddElement, FS_CardinalityType
<1>4. ASSUME NEW r \in Pads
      PROVE  buffer_count'[r] \in Nat /\ Cardinality(Buffers(queue'[r])) <= buffer_count'[r]
  <2>1. CASE r = p
    <3>1. /\ Buffers(queue'[r]) = Buffers(queue[p]) \cup {new}
          /\ buffer_count'[r] = buffer_count[p] + 1
      BY <1>1, <1>2, <2>1 DEF CoreTypeOK, CountsInv
    <3>2. Cardinality(Buffers(queue[p])) <= buffer_count[p] /\ buffer_count[p] \in Nat
      BY DEF CountsInv
    <3> QED BY <1>3, <3>1, <3>2
  <2>2. CASE r # p
    BY <1>1, <2>2 DEF CoreTypeOK, CountsInv
  <2> QED BY <2>1, <2>2
<1>5. buffer_count' \in [Pads -> Nat]
  BY <1>1, <1>4 DEF CountsInv
<1> QED BY <1>4, <1>5 DEF CountsInv

\* copy_batch takes no more off a count than it takes buffers out of the queue.
LEMMA CopyKeepsCounts ==
    ASSUME OrderInv, CountsInv, TaskCopy
    PROVE  CountsInv'
<1>1. ASSUME NEW p \in Pads
      PROVE  buffer_count'[p] \in Nat /\ Cardinality(Buffers(queue'[p])) <= buffer_count'[p]
  <2>1. PICK taken \in SUBSET Buffers(queue[p]) :
               /\ queue'[p] = queue[p] \ taken
               /\ buffer_count'[p] = buffer_count[p] - Cardinality(taken)
    BY CopyTakes
  <2>2. /\ IsFiniteSet(Buffers(queue[p])) /\ Buffers(queue[p]) \cap taken = taken
        /\ IsFiniteSet(taken) /\ Buffers(queue'[p]) = Buffers(queue[p]) \ taken
    BY <2>1, BuffersAreFinite, FS_Subset DEF Buffers
  <2>3. Cardinality(Buffers(queue[p]) \ taken)
           = Cardinality(Buffers(queue[p])) - Cardinality(taken)
    BY <2>2, FS_Difference
  <2>4. /\ Cardinality(taken) \in Nat /\ Cardinality(taken) <= Cardinality(Buffers(queue[p]))
        /\ Cardinality(Buffers(queue[p])) \in Nat
    BY <2>2, FS_Subset, FS_CardinalityType
  <2>5. Cardinality(Buffers(queue[p])) <= buffer_count[p] /\ buffer_count[p] \in Nat
    BY DEF CountsInv
  <2> DEFINE k == Cardinality(taken)
             c == Cardinality(Buffers(queue[p]))
             d == Cardinality(Buffers(queue[p]) \ taken)
  <2>6. /\ d = c - k /\ k \in Nat /\ c \in Nat /\ k <= c
        /\ c <= buffer_count[p] /\ buffer_count[p] \in Nat
    BY <2>3, <2>4, <2>5
  <2>7. buffer_count'[p] = buffer_count[p] - k /\ Cardinality(Buffers(queue'[p])) = d
    BY <2>1, <2>2
  <2> HIDE DEF k, c, d
  <2> QED BY <2>6, <2>7
<1>2. buffer_count' = [p \in Pads |-> buffer_count'[p]]
  BY DEF TaskCopy
<1> QED BY <1>1, <1>2 DEF CountsInv

\* The bound of a queue only grows, to a batch size, and the other settings are set to values
\* of their kind.
LEMMA SettingsStep ==
    ASSUME CoreTypeOK, SettingsInv, [Next]_vars
    PROVE  SettingsInv'
<1> USE DEF SettingsInv, helperVars, policyVars, padVars, elementVars, threadVars, historyVars
<1>1. CASE PushEvents
  BY <1>1 DEF PushEvents
<1>2. ASSUME NEW p \in Pads, Arrival(p)
      PROVE  SettingsInv'
  <2>1. CASE AdmitBuffer(p)
    <3>1. max_buffer_count' = [max_buffer_count EXCEPT ![p] = AtLeast(@, GetBatchSize)]
      BY <2>1 DEF AdmitBuffer
    <3>2. AtLeast(max_buffer_count[p], GetBatchSize) \in 0..(Word - 1)
      BY GetBatchSizeFits DEF AtLeast
    <3>3. max_buffer_count' \in [Pads -> 0..(Word - 1)]
      BY <3>1, <3>2
    <3> QED BY <2>1, <3>3 DEF AdmitBuffer
  <2>2. CASE ~AdmitBuffer(p)
    BY <1>2, <2>2 DEF Arrival, StreamStart, Configure, Segment, Eos, FlushStop
  <2> QED BY <2>1, <2>2
<1>3. ASSUME NEW p \in Pads, Handler(p)
      PROVE  SettingsInv'
  <2>1. CASE PushStreamStart(p) \/ PushSegment(p) \/ PushEos(p)
    BY <1>1, <2>1 DEF PushStreamStart, PushSegment, PushEos
  <2>2. CASE QueueStreamStart(p) \/ CapsEosNotSent(p) \/ CapsNotAllEos(p) \/ ResetPad(p)
             \/ FlushStopEosNotSent(p)
    BY <2>2 DEF QueueStreamStart, CapsEosNotSent, CapsNotAllEos, ResetPad, FlushStopEosNotSent
  <2>3. CASE Caps(p)
    BY <2>3 DEF Caps
  <2>4. CASE AddBuffer(p)
    BY <2>4 DEF AddBuffer
  <2> QED BY <1>3, <2>1, <2>2, <2>3, <2>4 DEF Handler
<1>4. CASE Task
  <2> USE DEF taskOnly
  <2>1. CASE TaskDrain \/ TaskEventsFirst \/ TaskEventsWaited \/ TaskEvents \/ TaskTail
    BY <1>1, <2>1 DEF TaskDrain, TaskEventsFirst, TaskEventsWaited, TaskEvents, TaskTail
  <2>2. CASE TaskAllocate
    <3>1. out_size' \in Nat
      BY <2>2, GetBatchSizeType DEF TaskAllocate
    <3> QED BY <2>2, <3>1 DEF TaskAllocate
  <2>3. CASE TaskTop \/ TaskTest \/ TaskForm \/ TaskLoopEnds \/ TaskWakeEmpty \/ TaskDecide
    BY <2>3 DEF TaskTop, TaskTest, TaskForm, TaskLoopEnds, TaskWakeEmpty, TaskDecide
  <2>4. CASE TaskCopy \/ TaskPush
    BY <2>4 DEF TaskCopy, TaskPush
  <2>5. CASE TaskReadEos \/ TaskPushEos \/ TaskSkipEos
             \/ TaskEosReturned(TRUE) \/ TaskEosReturned(FALSE)
    BY <2>5 DEF TaskReadEos, TaskPushEos, TaskSkipEos, TaskEosReturned
  <2> QED BY <1>4, <2>1, <2>2, <2>3, <2>4, <2>5 DEF Task
<1>5. CASE Timeout \/ UNCHANGED vars
  BY <1>5 DEF Timeout, vars
<1>6. CASE AppStarts
  BY <1>6, StreamMuxAssumption DEF AppStarts, Stop, Request, Release
<1>7. CASE AppContinues
  <2>1. CASE Requested \/ HandleStop \/ JoinTask \/ ResetStop \/ Restart
    BY <2>1 DEF Requested, HandleStop, JoinTask, ResetStop, Restart
  <2>2. ASSUME NEW p \in Pads,
               AddPad(p) \/ RemovePad(p) \/ RemovePadTimeout(p) \/ Released(p) \/ Deactivate(p)
        PROVE  SettingsInv'
    BY <2>2 DEF AddPad, RemovePad, RemovePadTimeout, Released, Deactivate
  <2> QED BY <1>7, <2>1, <2>2 DEF AppContinues
<1> QED BY <1>2, <1>3, <1>4, <1>5, <1>6, <1>7 DEF Next

\* Only form_batch and reset_batch write the batch.
LEMMA BatchWriters ==
    ASSUME [Next]_vars
    PROVE  UNCHANGED batch \/ TaskForm \/ TaskPush
<1> USE DEF helperVars, policyVars, padVars, elementVars, threadVars, historyVars
<1>1. ASSUME NEW p \in Pads, Arrival(p) \/ Handler(p)
      PROVE  UNCHANGED batch
  BY <1>1 DEF Arrival, StreamStart, Configure, Segment, AdmitBuffer, Eos, FlushStop, Handler,
     QueueStreamStart, PushStreamStart, Caps, CapsEosNotSent, CapsNotAllEos, ResetPad,
     PushSegment, AddBuffer, PushEos, FlushStopEosNotSent, PushEvents
<1>2. CASE Task
  BY <1>2 DEF Task, TaskTop, TaskDrain, TaskAllocate, TaskTest, TaskEventsFirst, TaskLoopEnds,
     TaskWakeEmpty, TaskEventsWaited, TaskDecide, TaskEvents, TaskCopy, TaskTail, TaskReadEos,
     TaskPushEos, TaskSkipEos, TaskEosReturned, PushEvents, taskOnly
<1>3. CASE Timeout \/ UNCHANGED vars
  BY <1>3 DEF Timeout, vars
<1>4. CASE AppContinues \/ AppStarts
  BY <1>4 DEF AppContinues, AppStarts, Requested, HandleStop, JoinTask, ResetStop, Restart,
     AddPad, RemovePad, RemovePadTimeout, Released, Deactivate, Stop, Request, Release
<1> QED BY <1>1, <1>2, <1>3, <1>4 DEF Next

\* form_batch leaves a batch that fits, reset_batch an empty one.
LEMMA ShareStep ==
    ASSUME CoreTypeOK, OrderInv, SourcesInv, ShareInv, [Next]_vars
    PROVE  ShareInv'
<1>1. CASE UNCHANGED batch
  BY <1>1 DEF ShareInv
<1>2. CASE TaskForm
  <2>1. PICK f : /\ f = FormBatch(<<sources>>, [group |-> 0, source |-> next_source], TRUE,
                                  Offer, GetBatchSize)
                 /\ batch' = [size |-> GetBatchSize, acc |-> f.acc, num |-> f.num]
    BY <1>2 DEF TaskForm
  <2>2. /\ f.acc \in 0..GetBatchSize /\ DOMAIN f.num \subseteq Live
        /\ \A p \in DOMAIN f.num : f.num[p] \in 0..Offer[p]
    BY <2>1, FormedFits
  <2>3. \A p \in DOMAIN f.num : f.num[p] \in 0..MaxSame
    BY <2>2, OfferType, StreamMuxAssumption
  <2>4. GetBatchSize \in Nat
    BY GetBatchSizeType
  <2>5. batch'.size = GetBatchSize /\ batch'.acc = f.acc /\ batch'.num = f.num
    BY <2>1
  <2> QED BY <2>2, <2>3, <2>4, <2>5 DEF ShareInv, Live
<1>3. CASE TaskPush
  <2>1. batch'.size = batch.size /\ batch'.acc = 0 /\ batch'.num = <<>>
    BY <1>3 DEF TaskPush, ResetBatch, NoBatch
  <2>2. DOMAIN batch'.num = {}
    BY <2>1
  <2> QED BY <2>1, <2>2 DEF ShareInv
<1> QED BY <1>1, <1>2, <1>3, BatchWriters

\* Only a new batch policy, add_pad and form_batch write what the batch policy knows.
LEMMA SourcesWriters ==
    ASSUME [Next]_vars
    PROVE  \/ UNCHANGED <<sources, next_source>> \/ TaskForm
           \/ \E p \in Pads : Configure(p) \/ AddPad(p)
<1> USE DEF helperVars, policyVars, padVars, elementVars, threadVars, historyVars
<1>1. ASSUME NEW p \in Pads, Arrival(p) \/ Handler(p)
      PROVE  UNCHANGED <<sources, next_source>> \/ Configure(p)
  BY <1>1 DEF Arrival, StreamStart, Segment, AdmitBuffer, Eos, FlushStop, Handler,
     QueueStreamStart, PushStreamStart, Caps, CapsEosNotSent, CapsNotAllEos, ResetPad,
     PushSegment, AddBuffer, PushEos, FlushStopEosNotSent, PushEvents
<1>2. CASE Task
  BY <1>2 DEF Task, TaskTop, TaskDrain, TaskAllocate, TaskTest, TaskEventsFirst, TaskLoopEnds,
     TaskWakeEmpty, TaskEventsWaited, TaskDecide, TaskEvents, TaskCopy, TaskPush, TaskTail,
     TaskReadEos, TaskPushEos, TaskSkipEos, TaskEosReturned, PushEvents, taskOnly
<1>3. CASE Timeout \/ UNCHANGED vars
  BY <1>3 DEF Timeout, vars
<1>4. CASE AppContinues
  BY <1>4 DEF AppContinues, Requested, HandleStop, JoinTask, ResetStop, Restart,
     RemovePad, RemovePadTimeout, Released, Deactivate
<1>5. CASE AppStarts
  BY <1>5 DEF AppStarts, Stop, Request, Release
<1> QED BY <1>1, <1>2, <1>3, <1>4, <1>5 DEF Next

\* A source is appended only if it is not known, and a new policy orders the pads there are.
LEMMA SourcesStep ==
    ASSUME CoreTypeOK, OrderInv, SourcesInv, [Next]_vars
    PROVE  SourcesInv'
<1>1. CASE UNCHANGED <<sources, next_source>>
  BY <1>1 DEF SourcesInv, IsInjective
<1>2. CASE TaskForm
  <2>1. PICK f : /\ f = FormBatch(<<sources>>, [group |-> 0, source |-> next_source], TRUE,
                                  Offer, GetBatchSize)
                 /\ next_source' = f.pos.source
    BY <1>2 DEF TaskForm
  <2>2. next_source' \in 0..Cardinality(Pads)
    BY <2>1, FormedFits
  <2>3. UNCHANGED sources
    BY <1>2 DEF TaskForm
  <2> QED BY <2>2, <2>3 DEF SourcesInv, IsInjective
<1>3. ASSUME NEW p \in Pads, Configure(p)
      PROVE  SourcesInv'
  <2>1. CASE module_initialized
    BY <1>1, <1>3, <2>1 DEF Configure
  <2>2. CASE ~module_initialized
    <3>1. sources' \in Orderings(Entries) /\ next_source' = 0
      BY <1>3, <2>2 DEF Configure
    <3>2. Cardinality(Entries) \in Nat
      BY PadsCountable DEF Entries
    <3>3. /\ sources' \in [1..Cardinality(Entries) -> Entries]
          /\ \A i, j \in DOMAIN sources' : sources'[i] = sources'[j] => i = j
      BY <3>1 DEF Orderings
    <3> DEFINE n == Cardinality(Entries)
    <3>4. sources' \in [1..n -> Pads] /\ n \in Nat
      BY <3>2, <3>3 DEF Entries
    <3> HIDE DEF n
    <3>5. sources' \in Seq(Pads)
      BY <3>4
    <3>6. IsInjective(sources')
      BY <3>3 DEF IsInjective
    <3>7. next_source' \in 0..Cardinality(Pads)
      BY <3>1, PadsHaveSize
    <3> QED BY <3>5, <3>6, <3>7 DEF SourcesInv
  <2> QED BY <2>1, <2>2
<1>4. ASSUME NEW p \in Pads, AddPad(p)
      PROVE  SourcesInv'
  <2>1. UNCHANGED next_source
    BY <1>4 DEF AddPad
  <2>2. CASE \E i \in DOMAIN sources : sources[i] = p
    <3>1. UNCHANGED sources
      BY <1>4, <2>2 DEF AddPad
    <3> QED BY <1>1, <2>1, <3>1
  <2>3. CASE ~\E i \in DOMAIN sources : sources[i] = p
    <3>1. sources' = Append(sources, p)
      BY <1>4, <2>3 DEF AddPad
    <3> DEFINE n == Len(sources)
    <3>2. /\ n \in Nat /\ DOMAIN sources = 1..n
          /\ Append(sources, p) \in Seq(Pads) /\ DOMAIN Append(sources, p) = 1..(n + 1)
          /\ Append(sources, p)[n + 1] = p
          /\ \A i \in 1..n : Append(sources, p)[i] = sources[i]
      BY DEF SourcesInv
    <3> HIDE DEF n
    <3>3. \A i \in 1..(n + 1) : i # n + 1 => i \in 1..n
      BY <3>2
    <3>4. \A i, j \in 1..n : sources[i] = sources[j] => i = j
      BY <3>2 DEF SourcesInv, IsInjective
    <3>5. ASSUME NEW i \in 1..(n + 1), NEW j \in 1..(n + 1), sources'[i] = sources'[j]
          PROVE  i = j
      <4>1. CASE i # n + 1 /\ j # n + 1
        BY <3>1, <3>2, <3>3, <3>4, <3>5, <4>1
      <4>2. CASE i = n + 1 /\ j # n + 1
        BY <2>3, <3>1, <3>2, <3>3, <3>5, <4>2
      <4>3. CASE i # n + 1 /\ j = n + 1
        BY <2>3, <3>1, <3>2, <3>3, <3>5, <4>3
      <4> QED BY <4>1, <4>2, <4>3
    <3>6. sources' \in Seq(Pads) /\ IsInjective(sources')
      BY <3>1, <3>2, <3>5 DEF IsInjective
    <3> QED BY <2>1, <3>6 DEF SourcesInv
  <2> QED BY <2>2, <2>3
<1> QED BY <1>1, <1>2, <1>3, <1>4, SourcesWriters

\* Every step but add_buffer and copy_batch leaves the counts alone and adds no buffer.
LEMMA CountsStep ==
    ASSUME CoreTypeOK, OrderInv, CountsInv, [Next]_vars
    PROVE  CountsInv'
<1> USE DEF helperVars, policyVars, padVars, elementVars, threadVars, historyVars
<1>1. ASSUME NEW p \in Pads, Arrival(p) \/ Handler(p)
      PROVE  CountsInv'
  <2>1. CASE AddBuffer(p)
    BY <2>1, AddKeepsCounts
  <2>2. CASE PushStreamStart(p) \/ PushSegment(p) \/ PushEos(p)
    BY <2>2, PushEventsKeepsBuffers, StandingKeepsCounts DEF PushStreamStart, PushSegment,
       PushEos
  <2>3. CASE QueueStreamStart(p) \/ Segment(p)
    BY <2>3, EventIsNoBuffer, StandingKeepsCounts DEF QueueStreamStart, Segment, EventKinds
  <2>4. CASE Eos(p) /\ eos[p]
    BY <2>4, StandingKeepsCounts DEF Eos
  <2>5. CASE Eos(p) /\ ~eos[p]
    BY <2>5, EventIsNoBuffer, StandingKeepsCounts DEF Eos, EventKinds
  <2>6. CASE StreamStart(p) \/ Configure(p) \/ AdmitBuffer(p) \/ FlushStop(p)
    BY <2>6, StandingKeepsCounts DEF StreamStart, Configure, AdmitBuffer, FlushStop
  <2>7. CASE Caps(p) \/ CapsEosNotSent(p) \/ CapsNotAllEos(p) \/ ResetPad(p)
             \/ FlushStopEosNotSent(p)
    BY <2>7, StandingKeepsCounts DEF Caps, CapsEosNotSent, CapsNotAllEos, ResetPad,
       FlushStopEosNotSent
  <2> QED BY <1>1, <2>1, <2>2, <2>3, <2>4, <2>5, <2>6, <2>7 DEF Arrival, Handler
<1>2. CASE Task
  <2> USE DEF taskOnly
  <2>1. CASE TaskCopy
    BY <2>1, CopyKeepsCounts
  <2>2. CASE TaskDrain \/ TaskEventsFirst \/ TaskEventsWaited \/ TaskEvents \/ TaskTail
    BY <2>2, PushEventsKeepsBuffers, StandingKeepsCounts DEF TaskDrain, TaskEventsFirst,
       TaskEventsWaited, TaskEvents, TaskTail
  <2>3. CASE TaskTop \/ TaskAllocate \/ TaskTest \/ TaskForm \/ TaskLoopEnds \/ TaskPush
    BY <2>3, StandingKeepsCounts DEF TaskTop, TaskAllocate, TaskTest, TaskForm, TaskLoopEnds,
       TaskPush
  <2>4. CASE TaskWakeEmpty \/ TaskDecide \/ TaskReadEos \/ TaskPushEos \/ TaskSkipEos
             \/ TaskEosReturned(TRUE) \/ TaskEosReturned(FALSE)
    BY <2>4, StandingKeepsCounts DEF TaskWakeEmpty, TaskDecide, TaskReadEos, TaskPushEos,
       TaskSkipEos, TaskEosReturned
  <2> QED BY <1>2, <2>1, <2>2, <2>3, <2>4 DEF Task
<1>3. CASE Timeout \/ UNCHANGED vars
  BY <1>3, StandingKeepsCounts DEF Timeout, vars
<1>4. CASE AppStarts
  BY <1>4, StandingKeepsCounts DEF AppStarts, Stop, Request, Release
<1>5. CASE AppContinues
  <2>1. CASE HandleStop
    <3>1. UNCHANGED buffer_count
          /\ \A p \in Pads : queue'[p] = {} \/ queue'[p] = queue[p]
      BY <2>1 DEF HandleStop
    <3> QED BY <3>1, StandingKeepsCounts DEF Buffers
  <2>2. CASE Requested \/ JoinTask \/ ResetStop \/ Restart
    BY <2>2, StandingKeepsCounts DEF Requested, JoinTask, ResetStop, Restart
  <2>3. ASSUME NEW p \in Pads, RemovePad(p) \/ RemovePadTimeout(p)
        PROVE  CountsInv'
    <3>1. UNCHANGED buffer_count /\ (ErasePad(p) \/ UNCHANGED queue)
      BY <2>3 DEF RemovePad, RemovePadTimeout
    <3>2. \A r \in Pads : queue'[r] = {} \/ queue'[r] = queue[r]
      BY <3>1 DEF ErasePad, CoreTypeOK
    <3> QED BY <3>1, <3>2, StandingKeepsCounts DEF Buffers
  <2>4. ASSUME NEW p \in Pads, AddPad(p) \/ Released(p) \/ Deactivate(p)
        PROVE  CountsInv'
    BY <2>4, StandingKeepsCounts DEF AddPad, Released, Deactivate
  <2> QED BY <1>5, <2>1, <2>2, <2>3, <2>4 DEF AppContinues
<1> QED BY <1>1, <1>2, <1>3, <1>4, <1>5 DEF Next

\* The types of the batch, its sources and the counts hold in every behaviour.
LEMMA RestInvariant == Spec => []RestInv
<1>1. Init => RestInv
  <2> SUFFICES ASSUME Init PROVE RestInv
    OBVIOUS
  <2>1. SettingsInv
    <3>1. max_buffer_count = [p \in Pads |-> 0] /\ 0 \in 0..(Word - 1)
      BY WordModulus DEF Init
    <3>2. max_buffer_count \in [Pads -> 0..(Word - 1)]
      BY <3>1
    <3>3. caps_seen = {} /\ out_size = 0 /\ stops = 0 /\ 0 \in 0..MaxStops
      BY StreamMuxAssumption DEF Init
    <3>4. /\ module_initialized = FALSE /\ stop_task = FALSE
          /\ got_first_buffer = FALSE /\ timed_out = FALSE
      BY DEF Init
    <3> QED BY <3>2, <3>3, <3>4 DEF SettingsInv
  <2>2. batch.size = 0 /\ batch.acc = 0 /\ DOMAIN batch.num = {}
    BY DEF Init, NoBatch
  <2>3. ShareInv
    BY <2>2 DEF ShareInv
  <2>4. SourcesInv
    <3>1. sources = <<>> /\ next_source = 0
      BY DEF Init
    <3>2. sources \in Seq(Pads) /\ DOMAIN sources = {}
      BY <3>1
    <3>3. next_source \in 0..Cardinality(Pads)
      BY <3>1, PadsHaveSize
    <3> QED BY <3>2, <3>3 DEF SourcesInv, IsInjective
  <2>5. \A p \in Pads : Buffers(queue[p]) = {} /\ buffer_count[p] = 0
    BY DEF Init, Buffers
  <2>6. CountsInv
    <3>1. buffer_count \in [Pads -> Nat]
      BY DEF Init
    <3>2. \A p \in Pads : Cardinality(Buffers(queue[p])) = 0
      BY <2>5, FS_EmptySet
    <3> QED BY <2>5, <3>1, <3>2 DEF CountsInv
  <2> QED BY <2>1, <2>3, <2>4, <2>6 DEF RestInv
<1>2. CoreTypeOK /\ OrderInv /\ RestInv /\ [Next]_vars => RestInv'
  BY SettingsStep, ShareStep, SourcesStep, CountsStep DEF RestInv
<1> QED BY <1>1, <1>2, TypeCorrect, OrderInvariant, PTL DEF Spec

\* All variables keep their types in every behaviour, even if the element is stopped with
\* buffers waiting: a batch never holds more than its size, no pad gets more than
\* max_same_source_frames of it (form_batch), and buffer_count never falls below 0 although
\* pop_buffer_done decrements it without a test.
THEOREM AllTypesCorrect == Spec => []TypeOK
<1>1. CoreTypeOK /\ RestInv => TypeOK
  BY DEF TypeOK, RestInv, SettingsInv, ShareInv, SourcesInv, CountsInv
<1> QED BY <1>1, TypeCorrect, RestInvariant, PTL

--------------------------------------------------------------------------------
(* No buffer overtakes an event *)

Events(q) == q \ Buffers(q)
Accepting == {"open", "admitted", "blocked"}           \* a buffer may come
Past == {"eosQueued", "eos", "inactive", "gone"}       \* no buffer comes any more

\* Every stream is announced once and has one segment: nothing is flushed or started again, and
\* no event comes between the buffers.
OneSegment == Env \subseteq {"late-request", "release-drained", "release-early", "empty-stream"}

\* What went downstream or is in a batch is older than the events that wait.
Ahead(waiting, moving, gone) == Before(Buffers(gone \cup moving), Events(waiting))
Numbered(q) == \A d, e \in q : d.n = e.n => d = e

\* No event leads the queue, or events only wait and their own thread pushes them before the pad
\* accepts a buffer.
HeadFree(q, s) ==
    \/ LeadingEvents(q) = {}
    \/ Buffers(q) = {} /\ s \notin Accepting

\* An event with a buffer ahead of it has all of them ahead of it: it is the EOS.
EndsLast(q, s) ==
    /\ s \notin Accepting \cup Past => Buffers(q) = {}
    /\ \A b \in Buffers(q), e \in Events(q) :
          b.n < e.n => s \in Past /\ \A c \in Buffers(q) : c.n < e.n

\* NoEventOvertaken is not inductive: copy_batch skips the events of a queue.  It may do so
\* because the push_events before it left no event at the head of a queue, and because no event
\* comes to the head of a queue before copy_batch runs.  How many buffers may be taken without
\* passing an event then depends on where the events are: with max_same_source_frames = 1 it is
\* the first buffer only, and with one segment in each stream all events are behind all buffers.
HeadInv ==
    /\ \A p \in Pads :
          /\ Ahead(queue[p], out_batch[p], delivered[p])
          /\ Numbered(queue[p])
          /\ stream[p] = "absent" => queue[p] = {}
          /\ task = "copy" /\ p \in Live => HeadFree(queue[p], stream[p])
          /\ OneSegment => EndsLast(queue[p], stream[p])
    /\ app.op = "request" => app.pad \in Pads /\ stream[app.pad] = "absent"
    /\ OneSegment => app.op \notin StopOps

\* Entries that leave a queue take none of these facts with them.
LEMMA FewerEntries ==
    ASSUME NEW q, NEW few \in SUBSET q, NEW moving, NEW gone, NEW s
    PROVE  /\ Ahead(q, moving, gone) => Ahead(few, moving, gone)
           /\ Numbered(q) => Numbered(few)
           /\ EndsLast(q, s) => EndsLast(few, s)
<1>1. Buffers(few) \subseteq Buffers(q) /\ Events(few) \subseteq Events(q)
  BY DEF Buffers, Events
<1>2. Ahead(q, moving, gone) => Ahead(few, moving, gone)
  BY <1>1 DEF Ahead, Before
<1>3. Numbered(q) => Numbered(few)
  BY DEF Numbered
<1>4. EndsLast(q, s) => EndsLast(few, s)
  <2> SUFFICES ASSUME EndsLast(q, s) PROVE EndsLast(few, s)
    OBVIOUS
  <2>1. s \notin Accepting \cup Past => Buffers(few) = {}
    BY <1>1 DEF EndsLast
  <2>2. ASSUME NEW b \in Buffers(few), NEW e \in Events(few), b.n < e.n
        PROVE  s \in Past /\ \A c \in Buffers(few) : c.n < e.n
    BY <1>1, <2>2 DEF EndsLast
  <2> QED BY <2>1, <2>2 DEF EndsLast
<1> QED BY <1>2, <1>3, <1>4

\* Once the events at the head are gone, a buffer is at the head.
LEMMA HeadPushed ==
    ASSUME NEW q
    PROVE  LeadingEvents(q \ LeadingEvents(q)) = {}
<1>1. Buffers(q \ LeadingEvents(q)) = Buffers(q)
  BY DEF Buffers, LeadingEvents
<1> QED BY <1>1 DEF LeadingEvents

\* A new event is behind all that left.  It leads a queue only if that holds no buffer.
LEMMA EventAdded ==
    ASSUME NEW q \in SUBSET Entry, NEW moving \in SUBSET Entry, NEW gone \in SUBSET Entry,
           NEW new \in Entry, new.kind # "buffer",
           \A e \in q \cup moving \cup gone : e.n < new.n,
           NEW s, NEW t
    PROVE  /\ Ahead(q, moving, gone) => Ahead(q \cup {new}, moving, gone)
           /\ Numbered(q) => Numbered(q \cup {new})
           /\ HeadFree(q, s) /\ t \notin Accepting => HeadFree(q \cup {new}, t)
           /\ EndsLast(q, s) /\ s \notin Accepting \cup Past => EndsLast(q \cup {new}, t)
           /\ EndsLast(q, s) /\ s \notin Past /\ t \in Past => EndsLast(q \cup {new}, t)
<1> DEFINE more == q \cup {new}
<1>1. Buffers(more) = Buffers(q) /\ Events(more) = Events(q) \cup {new}
  BY DEF Buffers, Events
<1>2. \A b \in Buffers(q \cup moving \cup gone) : b.n < new.n
  BY DEF Buffers
<1>3. new \notin q /\ \A e \in q : e.n # new.n
  BY DEF Entry
<1>4. \A b \in Buffers(q) : b.n < new.n /\ ~(new.n < b.n)
  BY <1>2 DEF Buffers, Entry
<1>5. Ahead(q, moving, gone) => Ahead(more, moving, gone)
  BY <1>1, <1>2 DEF Ahead, Before, Buffers
<1>6. Numbered(q) => Numbered(more)
  BY <1>3 DEF Numbered
<1>7. ASSUME HeadFree(q, s), t \notin Accepting
      PROVE  HeadFree(more, t)
  <2>1. CASE Buffers(q) = {}
    BY <1>1, <1>7, <2>1 DEF HeadFree
  <2>2. CASE Buffers(q) # {}
    <3>1. LeadingEvents(q) = {}
      BY <1>7, <2>2 DEF HeadFree
    <3>2. LeadingEvents(more) = {}
      BY <1>1, <1>4, <2>2, <3>1 DEF LeadingEvents
    <3> QED BY <3>2 DEF HeadFree
  <2> QED BY <2>1, <2>2
<1>8. ASSUME EndsLast(q, s), s \notin Accepting \cup Past
      PROVE  EndsLast(more, t)
  BY <1>1, <1>8 DEF EndsLast
<1>9. ASSUME EndsLast(q, s), s \notin Past, t \in Past
      PROVE  EndsLast(more, t)
  BY <1>1, <1>4, <1>9 DEF EndsLast
<1> QED BY <1>5, <1>6, <1>7, <1>8, <1>9

\* A new buffer is behind all that wait, and brings no event to the head.
LEMMA BufferAdded ==
    ASSUME NEW q \in SUBSET Entry, NEW moving, NEW gone, NEW new \in Entry,
           new.kind = "buffer", \A e \in q : e.n < new.n
    PROVE  /\ Ahead(q, moving, gone) => Ahead(q \cup {new}, moving, gone)
           /\ Numbered(q) => Numbered(q \cup {new})
           /\ HeadFree(q, "admitted") => HeadFree(q \cup {new}, "open")
           /\ EndsLast(q, "admitted") => EndsLast(q \cup {new}, "open")
<1> DEFINE more == q \cup {new}
<1>1. Buffers(more) = Buffers(q) \cup {new} /\ Events(more) = Events(q)
  BY DEF Buffers, Events
<1>2. Ahead(q, moving, gone) => Ahead(more, moving, gone)
  BY <1>1 DEF Ahead
<1>3. new \notin q /\ \A e \in q : e.n # new.n /\ ~(new.n < e.n)
  BY DEF Entry
<1>4. Numbered(q) => Numbered(more)
  BY <1>3 DEF Numbered
<1>5. ASSUME HeadFree(q, "admitted")
      PROVE  HeadFree(more, "open")
  <2>1. LeadingEvents(q) = {}
    BY <1>5 DEF HeadFree, Accepting
  <2>2. LeadingEvents(more) = {}
    BY <1>1, <2>1 DEF LeadingEvents
  <2> QED BY <2>2 DEF HeadFree
<1>6. ASSUME EndsLast(q, "admitted")
      PROVE  EndsLast(more, "open")
  <2>1. \A b \in Buffers(q), e \in Events(q) : ~(b.n < e.n)
    BY <1>6 DEF EndsLast, Past
  <2>2. \A b \in Buffers(more), e \in Events(more) : ~(b.n < e.n)
    BY <1>1, <1>3, <2>1 DEF Events
  <2>3. "open" \in Accepting
    BY DEF Accepting
  <2> QED BY <2>2, <2>3 DEF EndsLast
<1> QED BY <1>2, <1>4, <1>5, <1>6

\* The first buffers of a queue pass no event.
LEMMA FirstPassNone ==
    ASSUME NEW q \in SUBSET Entry, IsFiniteSet(q), Numbered(q), NEW k \in 0..MaxSame,
           NEW s, HeadFree(q, s),
           MaxSame = 1 \/ EndsLast(q, s)
    PROVE  Before(FirstBuffers(q, k), Events(q))
<1> SUFFICES ASSUME NEW b \in FirstBuffers(q, k), NEW e \in Events(q), ~(b.n < e.n)
             PROVE  FALSE
  BY DEF Before
<1>1. b \in Buffers(q) /\ b \in q /\ e \in q /\ e.kind # "buffer" /\ b.kind = "buffer"
  BY DEF FirstBuffers, Buffers, Events
<1>2. \A d \in q : d.n \in Nat
  BY DEF Entry
<1>3. b.n # e.n
  BY <1>1 DEF Numbered
<1>4. e.n < b.n
  BY <1>1, <1>2, <1>3
<1>5. PICK c \in Buffers(q) : ~(e.n < c.n)
  <2>1. LeadingEvents(q) = {}
    BY <1>1 DEF HeadFree
  <2> QED BY <1>1, <2>1 DEF LeadingEvents
<1>6. c \in q /\ c.n # e.n
  BY <1>1 DEF Numbered, Buffers
<1>7. c.n < e.n
  BY <1>1, <1>2, <1>5, <1>6
<1>8. CASE EndsLast(q, s)
  <2>1. b.n < e.n
    BY <1>1, <1>7, <1>8 DEF EndsLast, Events
  <2> QED BY <2>1
<1>9. CASE MaxSame = 1
  <2> DEFINE upTo == {d \in Buffers(q) : d.n <= b.n}
  <2>1. c.n <= b.n /\ c # b
    BY <1>1, <1>2, <1>4, <1>6, <1>7
  <2>2. {b, c} \subseteq upTo
    BY <1>1, <1>2, <2>1
  <2>3. IsFiniteSet(upTo)
    BY FS_Subset DEF Buffers
  <2>4. Cardinality(upTo) <= k /\ k <= 1
    BY <1>9 DEF FirstBuffers
  <2>5. Cardinality({b, c}) = 2
    <3>1. IsFiniteSet({b}) /\ Cardinality({b}) = 1 /\ c \notin {b}
      BY <2>1, FS_Singleton
    <3>2. Cardinality({b} \cup {c}) = 2
      BY <3>1, FS_AddElement, SMTT(30)
    <3>3. {b, c} = {b} \cup {c}
      OBVIOUS
    <3> QED BY <3>2, <3>3
  <2>6. Cardinality({b, c}) <= Cardinality(upTo) /\ Cardinality(upTo) \in Nat
    BY <2>2, <2>3, FS_Subset, FS_CardinalityType
  <2> QED BY <2>4, <2>5, <2>6
<1> QED BY <1>8, <1>9

\* A step that adds nothing to a queue, a batch or the stream that left, and lets a thread go on
\* only to where fewer buffers may come.
LEMMA StandingKeepsHeads ==
    ASSUME HeadInv,
           \A p \in Pads : /\ queue'[p] \subseteq queue[p]
                           /\ delivered'[p] \cup out_batch'[p] = delivered[p] \cup out_batch[p]
                           /\ p \in Live' => p \in Live \/ queue[p] = {}
                           /\ stream'[p] = "absent" => stream[p] = "absent"
                           /\ stream'[p] \in Accepting => stream[p] \in Accepting
                           /\ OneSegment => \/ stream[p] \in Past /\ stream'[p] \in Past
                                            \/ /\ stream[p] \in Accepting
                                               /\ stream'[p] \in Accepting \cup Past
                                            \/ stream[p] \notin Accepting \cup Past,
           task' = "copy" => task = "copy",
           \A p \in Live : task = "copy" =>
               queue'[p] = {} \/ queue'[p] = queue[p],
           app'.op = "request" => app'.pad \in Pads /\ stream'[app'.pad] = "absent",
           OneSegment => app'.op \notin StopOps
    PROVE  HeadInv'
<1>1. ASSUME NEW p \in Pads
      PROVE  /\ Ahead(queue'[p], out_batch'[p], delivered'[p])
             /\ Numbered(queue'[p])
             /\ stream'[p] = "absent" => queue'[p] = {}
             /\ OneSegment => EndsLast(queue'[p], stream'[p])
             /\ task' = "copy" /\ p \in Live' => HeadFree(queue'[p], stream'[p])
  <2>1. /\ Ahead(queue[p], out_batch[p], delivered[p])
        /\ Numbered(queue[p])
        /\ OneSegment => EndsLast(queue[p], stream[p])
    BY DEF HeadInv
  <2>2. Ahead(queue'[p], out_batch[p], delivered[p]) /\ Numbered(queue'[p])
    BY <2>1, FewerEntries
  <2>3. Ahead(queue'[p], out_batch'[p], delivered'[p])
    BY <2>2 DEF Ahead
  <2>4. stream'[p] = "absent" => queue'[p] = {}
    BY DEF HeadInv
  <2>5. ASSUME OneSegment
        PROVE  EndsLast(queue'[p], stream'[p])
    <3>1. EndsLast(queue'[p], stream[p])
      BY <2>1, <2>5, FewerEntries
    <3> QED BY <2>5, <3>1 DEF EndsLast, Accepting, Past
  <2>6. ASSUME task' = "copy", p \in Live'
        PROVE  HeadFree(queue'[p], stream'[p])
    <3>1. LeadingEvents({}) = {}
      BY DEF LeadingEvents
    <3>2. CASE queue'[p] = {}
      BY <3>1, <3>2 DEF HeadFree
    <3>3. CASE queue'[p] # {}
      <4>1. task = "copy" /\ p \in Live /\ queue'[p] = queue[p]
        BY <2>6, <3>3
      <4>2. HeadFree(queue[p], stream[p])
        BY <4>1 DEF HeadInv
      <4> QED BY <4>1, <4>2 DEF HeadFree
    <3> QED BY <3>2, <3>3
  <2> QED BY <2>2, <2>3, <2>4, <2>5, <2>6
<1> QED BY <1>1 DEF HeadInv

\* push_events leaves no event at the head of a queue, whatever its caller does to the threads.
LEMMA PushEventsKeepsHeads ==
    ASSUME CoreTypeOK, HeadInv, PushEvents,
           \A p \in Pads : /\ stream'[p] = "absent" <=> stream[p] = "absent"
                           /\ \/ stream'[p] = stream[p]
                              \/ stream[p] \notin Accepting \cup Past
                              \/ stream'[p] \in Past /\ stream[p] \in Past
    PROVE  HeadInv'
<1>1. UNCHANGED <<inputs, out_batch, app>>
  BY DEF PushEvents, elementVars
<1>2. \A p \in Pads :
         /\ queue'[p] = IF p \in Live THEN queue[p] \ LeadingEvents(queue[p]) ELSE queue[p]
         /\ delivered'[p] = IF p \in Live THEN delivered[p] \cup LeadingEvents(queue[p])
                                          ELSE delivered[p]
  BY DEF PushEvents
<1>3. ASSUME NEW p \in Pads
      PROVE  /\ Ahead(queue'[p], out_batch'[p], delivered'[p])
             /\ Numbered(queue'[p])
             /\ stream'[p] = "absent" => queue'[p] = {}
             /\ OneSegment => EndsLast(queue'[p], stream'[p])
             /\ p \in Live' => HeadFree(queue'[p], stream'[p])
  <2>1. /\ Ahead(queue[p], out_batch[p], delivered[p])
        /\ Numbered(queue[p])
        /\ OneSegment => EndsLast(queue[p], stream[p])
    BY DEF HeadInv
  <2>2. queue'[p] \in SUBSET queue[p]
    BY <1>2
  <2>3. Ahead(queue'[p], out_batch[p], delivered[p]) /\ Numbered(queue'[p])
    BY <2>1, <2>2, FewerEntries
  <2>4. Buffers(delivered'[p] \cup out_batch'[p]) = Buffers(delivered[p] \cup out_batch[p])
    BY <1>1, <1>2 DEF Buffers, LeadingEvents
  <2>5. Ahead(queue'[p], out_batch'[p], delivered'[p])
    BY <2>3, <2>4 DEF Ahead
  <2>6. stream'[p] = "absent" => queue'[p] = {}
    BY <2>2 DEF HeadInv
  <2>7. ASSUME OneSegment
        PROVE  EndsLast(queue'[p], stream'[p])
    <3>1. EndsLast(queue'[p], stream[p])
      BY <2>1, <2>2, <2>7, FewerEntries
    <3> QED BY <3>1 DEF EndsLast, Accepting, Past
  <2>8. ASSUME p \in Live'
        PROVE  HeadFree(queue'[p], stream'[p])
    <3>1. p \in Live
      BY <1>1, <2>8 DEF Live
    <3>2. LeadingEvents(queue'[p]) = {}
      BY <1>2, <3>1, HeadPushed
    <3> QED BY <3>2 DEF HeadFree
  <2> QED BY <2>3, <2>5, <2>6, <2>7, <2>8
<1>4. app'.op = "request" => app'.pad \in Pads /\ stream'[app'.pad] = "absent"
  BY <1>1 DEF HeadInv
<1>5. OneSegment => app'.op \notin StopOps
  BY <1>1 DEF HeadInv
<1> QED BY <1>3, <1>4, <1>5 DEF HeadInv

\* queue_entry of an event: the stream accepts no buffer until its thread has run push_events.
LEMMA EnqueueKeepsHeads ==
    ASSUME CoreTypeOK, OrderInv, HeadInv, NEW p \in Pads, NEW kind \in EventKinds,
           Enqueue(p, kind), UNCHANGED <<inputs, out_batch, delivered, task, app>>,
           NEW to \in StreamStates \ (Accepting \cup {"absent"}),
           stream' = [stream EXCEPT ![p] = to],
           stream[p] # "absent",
           OneSegment => \/ stream[p] \notin Accepting \cup Past
                         \/ stream[p] \notin Past /\ to \in Past
    PROVE  HeadInv'
<1> DEFINE new == [n |-> arrived[p] + 1, kind |-> kind]
<1>1. /\ queue'[p] = queue[p] \cup {new} /\ stream'[p] = to
      /\ \A r \in Pads \ {p} : queue'[r] = queue[r] /\ stream'[r] = stream[r]
  BY DEF Enqueue, CoreTypeOK
<1>2. new \in Entry /\ new.kind # "buffer"
  BY DEF CoreTypeOK, Entry, EventKinds
<1>3. queue[p] \in SUBSET Entry /\ out_batch[p] \in SUBSET Entry /\ delivered[p] \in SUBSET Entry
  BY DEF CoreTypeOK
<1>4. \A e \in queue[p] \cup out_batch[p] \cup delivered[p] : e.n < new.n
  <2>1. arrived[p] \in Nat /\ new.n = arrived[p] + 1
    BY DEF CoreTypeOK
  <2>2. \A e \in queue[p] \cup out_batch[p] \cup delivered[p] : e.n \in Nat /\ e.n <= arrived[p]
    BY <1>3 DEF OrderInv, Entry
  <2> QED BY <2>1, <2>2
<1>5. /\ Ahead(queue[p], out_batch[p], delivered[p])
      /\ Numbered(queue[p])
      /\ task = "copy" /\ p \in Live => HeadFree(queue[p], stream[p])
      /\ OneSegment => EndsLast(queue[p], stream[p])
  BY DEF HeadInv
<1> HIDE DEF new
<1>6. /\ Ahead(queue[p] \cup {new}, out_batch[p], delivered[p])
      /\ Numbered(queue[p] \cup {new})
      /\ task = "copy" /\ p \in Live => HeadFree(queue[p] \cup {new}, to)
      /\ OneSegment => EndsLast(queue[p] \cup {new}, to)
  <2>1. Ahead(queue[p] \cup {new}, out_batch[p], delivered[p])
    BY <1>2, <1>3, <1>4, <1>5, EventAdded
  <2>2. Numbered(queue[p] \cup {new})
    BY <1>2, <1>3, <1>4, <1>5, EventAdded
  <2>3. task = "copy" /\ p \in Live => HeadFree(queue[p] \cup {new}, to)
    BY <1>2, <1>3, <1>4, <1>5, EventAdded
  <2>4. OneSegment => EndsLast(queue[p] \cup {new}, to)
    BY <1>2, <1>3, <1>4, <1>5, EventAdded
  <2> QED BY <2>1, <2>2, <2>3, <2>4
<1>7. ASSUME NEW r \in Pads
      PROVE  /\ Ahead(queue'[r], out_batch'[r], delivered'[r])
             /\ Numbered(queue'[r])
             /\ stream'[r] = "absent" => queue'[r] = {}
             /\ task' = "copy" /\ r \in Live' => HeadFree(queue'[r], stream'[r])
             /\ OneSegment => EndsLast(queue'[r], stream'[r])
  <2>1. CASE r = p
    BY <1>1, <1>6, <2>1 DEF Live
  <2>2. CASE r # p
    BY <1>1, <2>2 DEF Live, HeadInv
  <2> QED BY <2>1, <2>2
<1>8. app'.op = "request" => app'.pad \in Pads /\ stream'[app'.pad] = "absent"
  BY <1>1 DEF HeadInv
<1> QED BY <1>7, <1>8 DEF HeadInv

\* add_buffer puts the buffer behind all that waits.
LEMMA AddKeepsHeads ==
    ASSUME CoreTypeOK, OrderInv, HeadInv, NEW p \in Pads, AddBuffer(p)
    PROVE  HeadInv'
<1> DEFINE new == [n |-> arrived[p] + 1, kind |-> "buffer"]
<1>1. /\ queue'[p] = queue[p] \cup {new} /\ stream[p] = "admitted" /\ stream'[p] = "open"
      /\ \A r \in Pads \ {p} : queue'[r] = queue[r] /\ stream'[r] = stream[r]
  BY DEF AddBuffer, Enqueue, StreamGoes, CoreTypeOK
<1>2. UNCHANGED <<inputs, out_batch, delivered, task, app>>
  BY DEF AddBuffer, elementVars
<1>3. new \in Entry /\ new.kind = "buffer" /\ queue[p] \in SUBSET Entry
  BY DEF CoreTypeOK, Entry
<1>4. \A e \in queue[p] : e.n < new.n
  <2>1. arrived[p] \in Nat /\ new.n = arrived[p] + 1
    BY DEF CoreTypeOK
  <2>2. \A e \in queue[p] : e.n \in Nat /\ e.n <= arrived[p]
    BY <1>3 DEF OrderInv, Entry
  <2> QED BY <2>1, <2>2
<1>5. /\ Ahead(queue[p], out_batch[p], delivered[p])
      /\ Numbered(queue[p])
      /\ task = "copy" /\ p \in Live => HeadFree(queue[p], stream[p])
      /\ OneSegment => EndsLast(queue[p], stream[p])
  BY DEF HeadInv
<1> HIDE DEF new
<1>6. /\ Ahead(queue[p] \cup {new}, out_batch[p], delivered[p])
      /\ Numbered(queue[p] \cup {new})
      /\ HeadFree(queue[p], "admitted") => HeadFree(queue[p] \cup {new}, "open")
      /\ EndsLast(queue[p], "admitted") => EndsLast(queue[p] \cup {new}, "open")
  BY <1>3, <1>4, <1>5, BufferAdded
<1>7. ASSUME NEW r \in Pads
      PROVE  /\ Ahead(queue'[r], out_batch'[r], delivered'[r])
             /\ Numbered(queue'[r])
             /\ stream'[r] = "absent" => queue'[r] = {}
             /\ task' = "copy" /\ r \in Live' => HeadFree(queue'[r], stream'[r])
             /\ OneSegment => EndsLast(queue'[r], stream'[r])
  <2>1. CASE r = p
    BY <1>1, <1>2, <1>5, <1>6, <2>1 DEF Live
  <2>2. CASE r # p
    BY <1>1, <1>2, <2>2 DEF Live, HeadInv
  <2> QED BY <2>1, <2>2
<1>8. app'.op = "request" => app'.pad \in Pads /\ stream'[app'.pad] = "absent"
  BY <1>1, <1>2 DEF HeadInv
<1> QED BY <1>2, <1>7, <1>8 DEF HeadInv

\* copy_batch takes buffers that no waiting event is ahead of.
LEMMA CopyKeepsHeads ==
    ASSUME MaxSame = 1 \/ OneSegment, CoreTypeOK, OrderInv, HeadInv, TaskCopy
    PROVE  HeadInv'
<1>1. PICK c \in Copies :
         LET taken == [p \in Pads |-> IF p \in DOMAIN c THEN FirstBuffers(queue[p], c[p])
                                                        ELSE {}]
         IN /\ out_batch' = taken
            /\ queue' = [p \in Pads |-> queue[p] \ taken[p]]
  BY DEF TaskCopy
<1>2. c \in [DOMAIN batch.num \cap Live -> 0..MaxSame]
  BY DEF Copies
<1>3. /\ task = "copy" /\ task' = "push" /\ UNCHANGED <<delivered, app>>
      /\ \A p \in Pads : out_batch[p] = {}
  BY DEF TaskCopy, TaskGoes, historyVars, OrderInv
<1>4. \A p \in Pads : \/ stream'[p] = stream[p]
                      \/ stream[p] = "blocked" /\ stream'[p] = "admitted"
  BY DEF TaskCopy
<1>5. ASSUME NEW p \in Pads
      PROVE  /\ Ahead(queue'[p], out_batch'[p], delivered'[p])
             /\ Numbered(queue'[p])
             /\ stream'[p] = "absent" => queue'[p] = {}
             /\ OneSegment => EndsLast(queue'[p], stream'[p])
  <2>1. /\ Ahead(queue[p], out_batch[p], delivered[p])
        /\ Numbered(queue[p])
        /\ stream[p] = "absent" => queue[p] = {}
        /\ OneSegment => EndsLast(queue[p], stream[p])
    BY DEF HeadInv
  <2>2. queue'[p] \in SUBSET queue[p]
    BY <1>1
  <2>3. Ahead(queue'[p], out_batch[p], delivered[p]) /\ Numbered(queue'[p])
    BY <2>1, <2>2, FewerEntries
  <2>4. Before(Buffers(out_batch'[p]), Events(queue'[p]))
    <3>1. CASE p \in DOMAIN c
      <4>1. p \in Live /\ c[p] \in 0..MaxSame
        BY <1>2, <3>1
      <4>2. queue[p] \in SUBSET Entry /\ IsFiniteSet(queue[p])
        BY DEF CoreTypeOK, OrderInv
      <4>3. HeadFree(queue[p], stream[p])
        BY <1>3, <4>1 DEF HeadInv
      <4>4. Before(FirstBuffers(queue[p], c[p]), Events(queue[p]))
        BY <2>1, <4>1, <4>2, <4>3, FirstPassNone
      <4>5. out_batch'[p] = FirstBuffers(queue[p], c[p])
        BY <1>1, <3>1
      <4> QED BY <2>2, <4>4, <4>5 DEF Before, Buffers, Events
    <3>2. CASE p \notin DOMAIN c
      BY <1>1, <3>2 DEF Before, Buffers
    <3> QED BY <3>1, <3>2
  <2>5. Ahead(queue'[p], out_batch'[p], delivered'[p])
    BY <1>3, <2>3, <2>4 DEF Ahead, Before, Buffers
  <2>6. stream'[p] = "absent" => queue'[p] = {}
    BY <1>4, <2>1, <2>2
  <2>7. ASSUME OneSegment
        PROVE  EndsLast(queue'[p], stream'[p])
    <3>1. EndsLast(queue'[p], stream[p])
      BY <2>1, <2>2, <2>7, FewerEntries
    <3> QED BY <1>4, <3>1 DEF EndsLast, Accepting, Past
  <2> QED BY <2>3, <2>5, <2>6, <2>7
<1>6. app'.op = "request" => app'.pad \in Pads /\ stream'[app'.pad] = "absent"
  BY <1>3, <1>4 DEF HeadInv
<1> QED BY <1>3, <1>5, <1>6 DEF HeadInv

\* Each step of a streaming thread keeps the events from being overtaken.
LEMMA StreamStepHeads ==
    ASSUME CoreTypeOK, OrderInv, HeadInv, NEW p \in Pads, Arrival(p) \/ Handler(p)
    PROVE  HeadInv'
<1> USE DEF helperVars, policyVars, padVars, elementVars, historyVars
<1>1. CASE PushStreamStart(p) \/ PushSegment(p) \/ PushEos(p)
  <2>1. \A r \in Pads : /\ stream'[r] = "absent" <=> stream[r] = "absent"
                        /\ \/ stream'[r] = stream[r]
                           \/ stream[r] \notin Accepting \cup Past
                           \/ stream'[r] \in Past /\ stream[r] \in Past
    BY <1>1 DEF PushStreamStart, PushSegment, PushEos, StreamGoes, CoreTypeOK, Accepting, Past
  <2>2. PushEvents
    BY <1>1 DEF PushStreamStart, PushSegment, PushEos
  <2> QED BY <2>1, <2>2, PushEventsKeepsHeads
<1>2. CASE QueueStreamStart(p)
  <2>1. /\ Enqueue(p, "start") /\ UNCHANGED <<inputs, out_batch, delivered, task, app>>
        /\ stream[p] = "starting" /\ stream' = [stream EXCEPT ![p] = "startQueued"]
    BY <1>2 DEF QueueStreamStart, StreamGoes
  <2>2. /\ "startQueued" \in StreamStates \ (Accepting \cup {"absent"})
        /\ "starting" \notin Accepting \cup Past /\ "start" \in EventKinds
    BY DEF StreamStates, Accepting, Past, EventKinds
  <2> QED BY <2>1, <2>2, EnqueueKeepsHeads
<1>3. CASE Segment(p)
  <2>1. /\ Enqueue(p, "segment") /\ UNCHANGED <<inputs, out_batch, delivered, task, app>>
        /\ stream' = [stream EXCEPT ![p] = "segmentQueued"]
        /\ \/ stream[p] = "configured"
           \/ stream[p] = "open" /\ "events" \in Env
    BY <1>3 DEF Segment
  <2>2. /\ "segmentQueued" \in StreamStates \ (Accepting \cup {"absent"})
        /\ "configured" \notin Accepting \cup Past /\ "segment" \in EventKinds
    BY DEF StreamStates, Accepting, Past, EventKinds
  <2>3. OneSegment => stream[p] \notin Accepting \cup Past
    BY <2>1, <2>2 DEF OneSegment
  <2>4. stream[p] # "absent"
    BY <2>1
  <2> QED BY <2>1, <2>2, <2>3, <2>4, EnqueueKeepsHeads
<1>4. CASE Eos(p) /\ ~eos[p]
  <2>1. /\ Enqueue(p, "eos") /\ UNCHANGED <<inputs, out_batch, delivered, task, app>>
        /\ stream' = [stream EXCEPT ![p] = IF idle[p] THEN "eosQueued" ELSE "eos"]
        /\ stream[p] \in {"open", "started"}
    BY <1>4 DEF Eos
  <2>2. PICK to \in {"eosQueued", "eos"} : stream' = [stream EXCEPT ![p] = to]
    BY <2>1
  <2>3. /\ to \in StreamStates \ (Accepting \cup {"absent"}) /\ to \in Past
        /\ stream[p] \notin Past /\ stream[p] # "absent" /\ "eos" \in EventKinds
    BY <2>1 DEF StreamStates, Accepting, Past, EventKinds
  <2> QED BY <2>1, <2>2, <2>3, EnqueueKeepsHeads
<1>5. CASE AddBuffer(p)
  BY <1>5, AddKeepsHeads
<1>6. ASSUME UNCHANGED <<inputs, queue, out_batch, delivered, app>>,
             task' = "copy" => task = "copy",
             \A r \in Pads \ {p} : stream'[r] = stream[r],
             stream[p] # "absent", stream'[p] # "absent",
             stream'[p] \in Accepting => stream[p] \in Accepting,
             OneSegment => \/ stream[p] \in Accepting /\ stream'[p] \in Accepting \cup Past
                           \/ stream[p] \notin Accepting \cup Past
      PROVE  HeadInv'
  <2>1. app'.op = "request" => app'.pad \in Pads /\ stream'[app'.pad] = "absent"
    BY <1>6 DEF HeadInv
  <2>2. OneSegment => app'.op \notin StopOps
    BY <1>6 DEF HeadInv
  <2>3. \A r \in Pads : stream[r] \in Past \/ stream[r] \in Accepting
                           \/ stream[r] \notin Accepting \cup Past
    OBVIOUS
  <2>4. \A r \in Pads :
           /\ queue'[r] = queue[r]
           /\ delivered'[r] \cup out_batch'[r] = delivered[r] \cup out_batch[r]
           /\ r \in Live' => r \in Live
           /\ stream'[r] = "absent" => stream[r] = "absent"
           /\ stream'[r] \in Accepting => stream[r] \in Accepting
           /\ OneSegment => \/ stream[r] \in Past /\ stream'[r] \in Past
                            \/ /\ stream[r] \in Accepting
                               /\ stream'[r] \in Accepting \cup Past
                            \/ stream[r] \notin Accepting \cup Past
    BY <1>6, <2>3 DEF Live
  <2> QED BY <1>6, <2>1, <2>2, <2>4, StandingKeepsHeads DEF Live
<1>7. OneSegment => Env \cap {"reopen-drained", "reopen-early", "flush", "flush-eos"} = {}
  BY DEF OneSegment
<1>8. CASE StreamStart(p) \/ Configure(p) \/ AdmitBuffer(p)
  <2>1. CASE StreamStart(p)
    BY <1>6, <1>7, <2>1 DEF StreamStart, MayReopen, CoreTypeOK, Accepting, Past
  <2>2. CASE Configure(p)
    BY <1>6, <2>2 DEF Configure, StreamGoes, CoreTypeOK, Accepting, Past
  <2>3. CASE AdmitBuffer(p)
    <3>1. stream[p] = "open" /\ stream'[p] \in {"blocked", "admitted"}
          /\ \A r \in Pads \ {p} : stream'[r] = stream[r]
      BY <2>3 DEF AdmitBuffer, StreamGoes, CoreTypeOK
    <3>2. UNCHANGED <<inputs, queue, out_batch, delivered, app, task>>
      BY <2>3 DEF AdmitBuffer
    <3> QED BY <1>6, <3>1, <3>2 DEF Accepting, Past
  <2> QED BY <1>8, <2>1, <2>2, <2>3
<1>9. CASE FlushStop(p)
  BY <1>6, <1>7, <1>9 DEF FlushStop, CoreTypeOK, Accepting, Past
<1>10. CASE Eos(p) /\ eos[p]
  <2>1. UNCHANGED <<inputs, queue, out_batch, delivered, app, task>>
    BY <1>10 DEF Eos
  <2>2. /\ stream[p] \in {"open", "started"} /\ stream'[p] = "eos"
        /\ \A r \in Pads \ {p} : stream'[r] = stream[r]
    BY <1>10 DEF Eos, CoreTypeOK
  <2> QED BY <1>6, <2>1, <2>2 DEF Accepting, Past
<1>11. CASE Caps(p)
  BY <1>6, <1>11 DEF Caps, StreamGoes, CoreTypeOK, Accepting, Past
<1>12. CASE CapsEosNotSent(p)
  BY <1>6, <1>12 DEF CapsEosNotSent, StreamGoes, CoreTypeOK, Accepting, Past
<1>13. CASE CapsNotAllEos(p)
  BY <1>6, <1>13 DEF CapsNotAllEos, StreamGoes, CoreTypeOK, Accepting, Past
<1>14. CASE ResetPad(p)
  BY <1>6, <1>14 DEF ResetPad, StreamGoes, CoreTypeOK, Accepting, Past
<1>15. CASE FlushStopEosNotSent(p)
  BY <1>6, <1>15 DEF FlushStopEosNotSent, StreamGoes, CoreTypeOK, Accepting, Past
<1> QED BY <1>1, <1>2, <1>3, <1>4, <1>5, <1>8, <1>9, <1>10, <1>11, <1>12, <1>13, <1>14, <1>15
        DEF Arrival, Handler

\* Each step of the source task keeps the events from being overtaken.
LEMMA TaskStepHeads ==
    ASSUME MaxSame = 1 \/ OneSegment, CoreTypeOK, OrderInv, HeadInv, Task
    PROVE  HeadInv'
<1> USE DEF taskOnly, helperVars, policyVars, padVars, elementVars, historyVars, TaskGoes
<1>1. ASSUME UNCHANGED stream, PushEvents
      PROVE  HeadInv'
  BY <1>1, PushEventsKeepsHeads
<1>2. ASSUME UNCHANGED <<inputs, queue, stream, app>>, task' # "copy",
             \A p \in Pads :
                 delivered'[p] \cup out_batch'[p] = delivered[p] \cup out_batch[p]
      PROVE  HeadInv'
  <2>1. \A p \in Pads : \/ stream[p] \in Past /\ stream'[p] \in Past
                        \/ stream[p] \in Accepting /\ stream'[p] \in Accepting \cup Past
                        \/ stream[p] \notin Accepting \cup Past
    BY <1>2
  <2>2. app'.op = "request" => app'.pad \in Pads /\ stream'[app'.pad] = "absent"
    BY <1>2 DEF HeadInv
  <2>3. OneSegment => app'.op \notin StopOps
    BY <1>2 DEF HeadInv
  <2> QED BY <1>2, <2>1, <2>2, <2>3, StandingKeepsHeads DEF Live
<1>3. CASE TaskDrain \/ TaskEventsFirst \/ TaskEventsWaited \/ TaskEvents \/ TaskTail
  BY <1>1, <1>3 DEF TaskDrain, TaskEventsFirst, TaskEventsWaited, TaskEvents, TaskTail
<1>4. CASE TaskCopy
  BY <1>4, CopyKeepsHeads
<1>5. CASE TaskPush
  <2>1. \A p \in Pads : delivered'[p] \cup out_batch'[p] = delivered[p] \cup out_batch[p]
    BY <1>5 DEF TaskPush, CoreTypeOK
  <2> QED BY <1>2, <1>5, <2>1 DEF TaskPush
<1>6. CASE TaskTop \/ TaskTest \/ TaskLoopEnds \/ TaskWakeEmpty \/ TaskDecide \/ TaskReadEos
           \/ TaskPushEos \/ TaskSkipEos
  BY <1>2, <1>6 DEF TaskTop, TaskTest, TaskLoopEnds, TaskWakeEmpty, TaskDecide, TaskReadEos,
     TaskPushEos, TaskSkipEos
<1>7. CASE TaskAllocate
  BY <1>2, <1>7 DEF TaskAllocate
<1>8. CASE TaskForm
  BY <1>2, <1>8 DEF TaskForm
<1>9. ASSUME NEW accepted \in BOOLEAN, TaskEosReturned(accepted)
      PROVE  HeadInv'
  BY <1>2, <1>9 DEF TaskEosReturned
<1> QED BY <1>3, <1>4, <1>5, <1>6, <1>7, <1>8, <1>9 DEF Task

\* Each step of the application thread keeps the events from being overtaken: queues are at most
\* emptied, and a pad is made with an empty queue.
LEMMA AppStepHeads ==
    ASSUME CoreTypeOK, HeadInv, AppContinues \/ AppStarts
    PROVE  HeadInv'
<1> USE DEF helperVars, policyVars, padVars, elementVars, threadVars, historyVars
<1>1. ASSUME UNCHANGED <<delivered, out_batch>>,
             \A p \in Pads : queue'[p] = queue[p] \/ queue'[p] = {},
             \A p \in Pads : p \in Live' => p \in Live \/ queue[p] = {},
             \A p \in Pads : \/ stream'[p] = stream[p]
                             \/ stream'[p] \in Past
                             \/ /\ stream'[p] = "new"
                                /\ OneSegment => stream[p] = "absent",
             task' = "copy" => task = "copy",
             app'.op = "request" => app'.pad \in Pads /\ stream'[app'.pad] = "absent",
             OneSegment => app'.op \notin StopOps
      PROVE  HeadInv'
  <2>1. ASSUME NEW p \in Pads
        PROVE  /\ stream'[p] = "absent" => stream[p] = "absent"
               /\ stream'[p] \in Accepting => stream[p] \in Accepting
               /\ OneSegment => \/ stream[p] \in Past /\ stream'[p] \in Past
                                \/ /\ stream[p] \in Accepting
                                   /\ stream'[p] \in Accepting \cup Past
                                \/ stream[p] \notin Accepting \cup Past
    <3>1. CASE stream'[p] = stream[p]
      BY <3>1
    <3>2. CASE stream'[p] \in Past
      BY <1>1, <3>2 DEF Past, Accepting
    <3>3. CASE stream'[p] = "new" /\ (OneSegment => stream[p] = "absent")
      BY <3>3 DEF Past, Accepting
    <3> QED BY <1>1, <3>1, <3>2, <3>3
  <2>2. \A p \in Pads : /\ queue'[p] \subseteq queue[p]
                        /\ delivered'[p] \cup out_batch'[p] = delivered[p] \cup out_batch[p]
    BY <1>1
  <2>3. \A p \in Live : task = "copy" => queue'[p] = {} \/ queue'[p] = queue[p]
    BY <1>1 DEF Live
  <2> QED BY <1>1, <2>1, <2>2, <2>3, StandingKeepsHeads
<1>2. OneSegment => "stop" \notin Env
  BY DEF OneSegment
<1>3. OneSegment => app.op \notin StopOps
  BY DEF HeadInv
<1>4. CASE Requested
  <2>1. /\ UNCHANGED <<delivered, out_batch, queue, stream, task, inputs>> /\ app' = Idle
    BY <1>4 DEF Requested
  <2>2. app'.op \notin StopOps \cup {"request"}
    BY <2>1 DEF Idle, StopOps
  <2> QED BY <1>1, <2>1, <2>2 DEF Live
<1>5. CASE HandleStop
  <2>1. app.op = "stopping" /\ UNCHANGED <<delivered, out_batch, stream, task, inputs>>
        /\ app'.op = "joining" /\ \A p \in Pads : queue'[p] = queue[p] \/ queue'[p] = {}
    BY <1>5 DEF HandleStop, AppGoes
  <2>2. ~OneSegment
    BY <1>3, <2>1 DEF StopOps
  <2> QED BY <1>1, <2>1, <2>2 DEF Live
<1>6. CASE JoinTask
  <2>1. /\ app.op = "joining" /\ app'.op = "joined"
        /\ UNCHANGED <<delivered, out_batch, queue, stream, inputs>>
        /\ task' = "copy" => task = "copy"
    BY <1>6 DEF JoinTask, AppGoes
  <2>2. ~OneSegment
    BY <1>3, <2>1 DEF StopOps
  <2> QED BY <1>1, <2>1, <2>2 DEF Live
<1>7. CASE ResetStop
  <2>1. /\ app.op = "joined" /\ app'.op = "stopped"
        /\ UNCHANGED <<delivered, out_batch, queue, stream, task, inputs>>
    BY <1>7 DEF ResetStop, AppGoes
  <2>2. ~OneSegment
    BY <1>3, <2>1 DEF StopOps
  <2> QED BY <1>1, <2>1, <2>2 DEF Live
<1>8. CASE Restart
  <2>1. /\ app.op = "stopped" /\ app'.op = "idle"
        /\ UNCHANGED <<delivered, out_batch, queue, task, inputs>>
        /\ \A p \in Pads : stream'[p] = stream[p] \/ stream'[p] = "new"
    BY <1>8 DEF Restart, Idle
  <2>2. ~OneSegment
    BY <1>3, <2>1 DEF StopOps
  <2> QED BY <1>1, <2>1, <2>2 DEF Live
<1>9. CASE Stop
  <2>1. /\ "stop" \in Env /\ app'.op = "stopping"
        /\ UNCHANGED <<delivered, out_batch, queue, stream, task, inputs>>
    BY <1>9 DEF Stop, AppGoes
  <2> QED BY <1>1, <1>2, <2>1 DEF Live
<1>10. ASSUME NEW p \in Pads, AddPad(p)
       PROVE  HeadInv'
  <2>1. /\ app.op = "request" /\ app.pad = p /\ app'.op = "requested"
        /\ UNCHANGED <<delivered, out_batch, queue, task>>
        /\ inputs' = [inputs EXCEPT ![p] = "pad"] /\ stream' = [stream EXCEPT ![p] = "new"]
    BY <1>10 DEF AddPad
  <2>2. stream[p] = "absent" /\ queue[p] = {}
    BY <2>1 DEF HeadInv
  <2>3. \A r \in Pads : \/ stream'[r] = stream[r]
                        \/ stream'[r] = "new" /\ stream[r] = "absent"
    BY <2>1, <2>2 DEF CoreTypeOK
  <2>4. \A r \in Pads : r \in Live' => r \in Live \/ queue[r] = {}
    BY <2>1, <2>2 DEF CoreTypeOK, Live
  <2>5. app'.op \notin StopOps \cup {"request"}
    BY <2>1 DEF StopOps
  <2> QED BY <1>1, <2>1, <2>3, <2>4, <2>5
<1>11. ASSUME NEW p \in Pads, RemovePad(p) \/ RemovePadTimeout(p)
       PROVE  HeadInv'
  <2>1. app'.op \in {"await", "removed"} /\ UNCHANGED <<delivered, out_batch, stream, task>>
    BY <1>11 DEF RemovePad, RemovePadTimeout, ErasePad
  <2>2. \A r \in Pads : queue'[r] = queue[r] \/ queue'[r] = {}
    BY <1>11 DEF RemovePad, RemovePadTimeout, ErasePad, CoreTypeOK
  <2>3. \A r \in Pads : r \in Live' => r \in Live
    BY <1>11 DEF RemovePad, RemovePadTimeout, ErasePad, CoreTypeOK, Live
  <2>4. app'.op \notin StopOps \cup {"request"}
    BY <2>1 DEF StopOps
  <2> QED BY <1>1, <2>1, <2>2, <2>3, <2>4
<1>12. ASSUME NEW p \in Pads, Released(p)
       PROVE  HeadInv'
  <2>1. /\ app'.op = "idle" /\ UNCHANGED <<delivered, out_batch, queue, task, inputs>>
        /\ app = [op |-> "removed", pad |-> p] /\ stream' = [stream EXCEPT ![p] = "gone"]
    BY <1>12 DEF Released, Idle
  <2>2. app'.op \notin StopOps \cup {"request"} /\ "gone" \in Past
    BY <2>1 DEF StopOps, Past
  <2> QED BY <1>1, <2>1, <2>2 DEF CoreTypeOK, Live
<1>13. ASSUME NEW p \in Pads, Deactivate(p)
       PROVE  HeadInv'
  <2>1. /\ app.op = "stopping" /\ app' = app
        /\ UNCHANGED <<delivered, out_batch, queue, task>>
    BY <1>13 DEF Deactivate
  <2>2. \A r \in Pads : r \in Live' => r \in Live
    BY <1>13 DEF Deactivate, CoreTypeOK, Live
  <2>3. \A r \in Pads : \/ stream'[r] = stream[r]
                        \/ stream'[r] = "inactive"
    BY <1>13 DEF Deactivate, CoreTypeOK
  <2>4. ~OneSegment /\ app'.op # "request" /\ "inactive" \in Past
    BY <1>3, <2>1 DEF StopOps, Past
  <2> QED BY <1>1, <2>1, <2>2, <2>3, <2>4
<1>14. ASSUME NEW p \in Pads, Request(p)
       PROVE  HeadInv'
  <2>1. /\ stream[p] = "absent" /\ app'.op = "request" /\ app'.pad = p
        /\ UNCHANGED <<delivered, out_batch, queue, stream, task>>
        /\ inputs' = [inputs EXCEPT ![p] = IF @ = "none" THEN "null" ELSE @]
    BY <1>14 DEF Request, AppGoes
  <2>2. \A r \in Pads : r \in Live' => r \in Live
    BY <2>1 DEF CoreTypeOK, Live
  <2>3. app'.op \notin StopOps
    BY <2>1 DEF StopOps
  <2> QED BY <1>1, <2>1, <2>2, <2>3
<1>15. ASSUME NEW p \in Pads, Release(p)
       PROVE  HeadInv'
  <2>1. /\ app'.op = "release"
        /\ UNCHANGED <<delivered, out_batch, queue, task, inputs>>
        /\ stream' = [stream EXCEPT ![p] = "inactive"]
    BY <1>15 DEF Release, AppGoes
  <2>2. app'.op \notin StopOps \cup {"request"} /\ "inactive" \in Past
    BY <2>1 DEF StopOps, Past
  <2> QED BY <1>1, <2>1, <2>2 DEF CoreTypeOK, Live
<1> QED BY <1>4, <1>5, <1>6, <1>7, <1>8, <1>9, <1>10, <1>11, <1>12, <1>13, <1>14, <1>15
        DEF AppContinues, AppStarts

\* The inductive invariant of the events holds in every behaviour.
LEMMA HeadInvariant ==
    ASSUME MaxSame = 1 \/ OneSegment
    PROVE  Spec => []HeadInv
<1>1. Init => HeadInv
  <2> SUFFICES ASSUME Init PROVE HeadInv
    OBVIOUS
  <2>1. ASSUME NEW p \in Pads
        PROVE  /\ queue[p] = {} /\ out_batch[p] = {} /\ delivered[p] = {}
    BY DEF Init
  <2>2. /\ Ahead({}, {}, {}) /\ Numbered({}) /\ \A s : EndsLast({}, s)
    BY DEF Ahead, Before, Numbered, EndsLast, Buffers, Events
  <2>3. task # "copy" /\ app.op \notin StopOps \cup {"request"}
    BY DEF Init, Idle, StopOps
  <2> QED BY <2>1, <2>2, <2>3 DEF HeadInv
<1>2. CoreTypeOK /\ OrderInv /\ HeadInv /\ [Next]_vars => HeadInv'
  <2> SUFFICES ASSUME CoreTypeOK, OrderInv, HeadInv, [Next]_vars PROVE HeadInv'
    OBVIOUS
  <2>1. CASE \E p \in Pads : Arrival(p) \/ Handler(p)
    BY <2>1, StreamStepHeads
  <2>2. CASE Task
    BY <2>2, TaskStepHeads
  <2>3. CASE Timeout \/ UNCHANGED vars
    <3>1. UNCHANGED <<inputs, queue, out_batch, delivered, stream, task, app>>
      BY <2>3 DEF Timeout, vars, helperVars, padVars, elementVars, threadVars, historyVars
    <3> QED BY <3>1 DEF HeadInv, Live
  <2>4. CASE AppContinues \/ AppStarts
    BY <2>4, AppStepHeads
  <2> QED BY <2>1, <2>2, <2>3, <2>4 DEF Next
<1> QED BY <1>1, <1>2, TypeCorrect, OrderInvariant, PTL DEF Spec

\* No buffer leaves the muxer before an event that arrived ahead of it, whatever applications and
\* sources do, as long as a batch takes one buffer of a source at most; and with any number as long
\* as each stream is announced once with one segment (push_events, queue_entry, copy_batch).
THEOREM EventsNotOvertaken ==
    ASSUME MaxSame = 1 \/ OneSegment
    PROVE  Spec => []NoEventOvertaken
<1>1. HeadInv => NoEventOvertaken
  BY DEF HeadInv, NoEventOvertaken, Ahead, Events, InFlight
<1> QED BY <1>1, HeadInvariant, PTL
================================================================================
