------------------------------- MODULE StreamMux -------------------------------
(***************************************************************************)
(* The new stream muxer: the NvStreamMux helper (libs/nvstreammux) and the *)
(* GStreamer element around it (gst-plugins/gst-nvmultistream2).           *)
(*                                                                         *)
(* Threads.  One streaming thread per sink pad delivers that pad's stream: *)
(* STREAM_START, CAPS, SEGMENT, buffers, EOS, perhaps again.  One source   *)
(* task runs gst_nvstreammux_src_push_loop.  One application thread        *)
(* requests and releases pads and stops and restarts the element.  A step  *)
(* is what a thread does between two points where it holds no lock that    *)
(* another thread of the element could be waiting for.                     *)
(*                                                                         *)
(* A pad's queue is the set of its entries; an entry carries the number it *)
(* got on arrival at that pad, so the order of the vector in the code is   *)
(* the order of the numbers.                                               *)
(***************************************************************************)
EXTENDS Integers, Sequences, FiniteSets, Functions, BatchPolicy

CONSTANTS
    Pads,        \* the indices of the sink pads an application may request
    Word,        \* an unsigned counter wraps modulo Word (2^32 in the build)
    Adaptive,    \* config.adaptive_batching
    BatchSize,   \* config.batch_size
    MaxSame,     \* config.max_same_source_frames
    MaxEntries,  \* bound of the model: entries that may arrive on one pad
    MaxStops,    \* bound of the model: times the element may be stopped
    Env          \* what the application and the sources may do, see below

(***************************************************************************)
(* The capabilities of the environment.                                    *)
(*  late-request    a pad may be requested while another one is streaming  *)
(*  release-drained a pad may be released once its EOS has been counted    *)
(*  release-early   a pad may be released at any time                      *)
(*  reopen-drained  a stream may start again once its EOS has been counted *)
(*  reopen-early    a stream may start again right after its EOS           *)
(*  events          further serialized events may come between buffers     *)
(*  flush           a streaming pad may be flushed (FLUSH_STOP)            *)
(*  flush-eos       a pad may be flushed after its EOS                     *)
(*  empty-stream    a stream may end before it announced its caps          *)
(*  stop            the element may go to READY and be started again       *)
(***************************************************************************)
Capabilities == {"late-request", "release-drained", "release-early",
                 "reopen-drained", "reopen-early", "events", "flush",
                 "flush-eos", "empty-stream", "stop"}

ASSUME StreamMuxAssumption ==
    /\ IsFiniteSet(Pads)
    /\ Word \in Nat /\ Cardinality(Pads) + 1 < Word
    /\ Adaptive \in BOOLEAN
    /\ BatchSize \in Nat \ {0} /\ BatchSize < Word
    /\ MaxSame \in Nat \ {0}
    /\ MaxEntries \in Nat
    /\ MaxStops \in Nat
    /\ Env \subseteq Capabilities

VARIABLES
    \* NvStreamMux
    inputs,             \* the map entry of a pad: "none", "null" or "pad"
    pads_got_eos,       \* pads_got_eos_and_empty_in_q
    all_pads_eos,
    stop_task,
    batch,              \* [size, acc, num]; num is the map num_sources
    got_first_buffer,
    \* BatchPolicy
    sources,            \* the sources in the order they became known
    next_source,        \* last_batch_state.source_map_position
    num_sources_eos,
    timed_out,          \* max_dur_time (min-fps) has passed since the last batch
    \* SinkPad, by pad
    queue, idle, eos, switched_to_idle, buffer_count, max_buffer_count,
    \* GstNvStreamMux
    module_initialized,
    eos_sent,
    caps_seen,          \* the keys of sink_pad_caps
    out_size,           \* the size the current output buffer was created with
    out_batch,          \* what copy_batch moved into it, by pad
    pad_task_created,
    \* the threads
    stream,             \* where each pad's streaming thread stands
    task,               \* where the source task stands
    app,                \* [op, pad]: where the application thread stands
    stops,              \* how often the element was stopped
    \* history
    arrived,            \* the number of entries that arrived on a pad
    delivered           \* the entries that went downstream, by pad

helperVars == <<inputs, pads_got_eos, all_pads_eos, stop_task, batch, got_first_buffer>>
policyVars == <<sources, next_source, num_sources_eos, timed_out>>
padVars == <<queue, idle, eos, switched_to_idle, buffer_count, max_buffer_count>>
elementVars == <<module_initialized, eos_sent, caps_seen, out_size, out_batch, pad_task_created>>
threadVars == <<stream, task, app, stops>>
historyVars == <<arrived, delivered>>
vars == <<helperVars, policyVars, padVars, elementVars, threadVars, historyVars>>

--------------------------------------------------------------------------------
(* Entries, queues and pads *)

EventKinds == {"start", "segment", "eos"}
Entry == [n : Nat \ {0}, kind : EventKinds \cup {"buffer"}]

Buffers(q) == {e \in q : e.kind = "buffer"}

\* The events at the head of a queue: no buffer is ahead of them.
LeadingEvents(q) == {e \in q : e.kind # "buffer" /\ \A b \in Buffers(q) : e.n < b.n}

\* Faulty variant of FirstBuffers: the buffers are taken from the wrong end.
LastBuffers(q, k) ==
    {b \in Buffers(q) : Cardinality({c \in Buffers(q) : c.n >= b.n}) <= k}

\* Faulty variant of FirstBuffers: one buffer too many.
FirstBuffersOneMore(q, k) ==
    {b \in Buffers(q) : Cardinality({c \in Buffers(q) : c.n < b.n}) <= k}

\* The first k buffers of a queue; events are skipped.
FirstBuffers(q, k) ==
    {b \in Buffers(q) : Cardinality({c \in Buffers(q) : c.n <= b.n}) <= k}

Entries == {p \in Pads : inputs[p] # "none"}   \* the keys of the map inputs
Live == {p \in Pads : inputs[p] = "pad"}       \* the keys with a SinkPad
Attached == {p \in Pads : stream[p] \notin {"absent", "gone"}}  \* element->sinkpads

\* The pads whose EOS push_events has counted.
Counted == {p \in Live : eos[p] /\ ~switched_to_idle[p]}

\* Faulty variant of Enqueue: an entry replaces the waiting ones of its kind.
EnqueueReplacing(p, kind) ==
    /\ arrived' = [arrived EXCEPT ![p] = @ + 1]
    /\ queue' = [queue EXCEPT ![p] = {e \in @ : e.kind # kind}
                                        \cup {[n |-> arrived[p] + 1, kind |-> kind]}]

\* SinkPad::queue_entry
Enqueue(p, kind) ==
    /\ arrived' = [arrived EXCEPT ![p] = @ + 1]
    /\ queue' = [queue EXCEPT ![p] = @ \cup {[n |-> arrived[p] + 1, kind |-> kind]}]

\* BatchPolicy::get_batch_size, one surface per frame
GetBatchSize ==
    IF Adaptive THEN (Cardinality(Entries) - num_sources_eos) % Word ELSE BatchSize

IsReady(b) == b.acc = b.size /\ b.size # 0

NoBatch == [size |-> 0, acc |-> 0, num |-> <<>>]

\* Faulty variant of ResetBatch: nothing is reset.
KeepBatch(b) == b

\* Batch::reset_batch
ResetBatch(b) == [NoBatch EXCEPT !.size = b.size]

\* Faulty variants of SinkPad::pop_buffer_done: one buffer is counted whatever
\* number was taken; the comparison is wrong.
CountOnce(count, taken) == count - AtMost(taken, 1)
RoomAbove(count, max) == count > max

\* SinkPad::pop_buffer_done: the count follows each buffer taken, and a waiting
\* producer is notified if there is room again.
CountAfter(count, taken) == count - taken
HasRoom(count, max) == count <= max

\* push_events makes a pad idle that is to become idle and has nothing left.
BecomesIdle(p, q) == switched_to_idle[p] /\ q = {}

\* Faulty variant of AllPadsEos: one ended pad is enough.
AnyPadEos(count) == count > 0

\* push_events: all pads of the mux have ended.
AllPadsEos(count) == count = Cardinality(Entries)

\* NvStreamMux::push_events: the events at the head of every queue go
\* downstream, then the pads that are to become idle and are empty do so, and
\* an EOS among them is counted.
PushEvents ==
    LET left == [p \in Pads |-> IF p \in Live THEN queue[p] \ LeadingEvents(queue[p])
                                              ELSE queue[p]]
        drained == {p \in Live : BecomesIdle(p, left[p])}
        ended == {p \in drained : eos[p]}
    IN /\ queue' = left
       /\ delivered' = [p \in Pads |-> IF p \in Live
                                       THEN delivered[p] \cup LeadingEvents(queue[p])
                                       ELSE delivered[p]]
       /\ idle' = [p \in Pads |-> idle[p] \/ p \in drained]
       /\ switched_to_idle' = [p \in Pads |-> switched_to_idle[p] /\ p \notin drained]
       /\ pads_got_eos' = (pads_got_eos + Cardinality(ended)) % Word
       /\ num_sources_eos' = (num_sources_eos + Cardinality(ended)) % Word
       /\ all_pads_eos' = IF Entries = {} THEN all_pads_eos
                          ELSE AllPadsEos(pads_got_eos')
       /\ UNCHANGED <<inputs, stop_task, batch, got_first_buffer, sources, next_source,
                      timed_out, eos, buffer_count, max_buffer_count, elementVars,
                      app, stops, arrived>>

StreamGoes(p, from, to) ==
    /\ stream[p] = from
    /\ stream' = [stream EXCEPT ![p] = to]

TaskGoes(from, to) == task = from /\ task' = to

--------------------------------------------------------------------------------
(* The streaming thread of a pad *)

\* There is room in the bounded history for a stream of at least one buffer.
RoomForStream(p) == arrived[p] + 4 <= MaxEntries

MayReopen(p) ==
    /\ stream[p] = "eos"
    /\ \/ "reopen-early" \in Env
       \/ "reopen-drained" \in Env /\ p \in Counted

\* STREAM_START: the record that EOS was sent is reset, the event is queued,
\* then push_events runs.
StreamStart(p) ==
    /\ (stream[p] = "new" \/ MayReopen(p))
    /\ RoomForStream(p)
    /\ eos_sent' = FALSE
    /\ stream' = [stream EXCEPT ![p] = "starting"]
    /\ UNCHANGED <<helperVars, policyVars, padVars, module_initialized, caps_seen, out_size,
                   out_batch, pad_task_created, task, app, stops, historyVars>>

QueueStreamStart(p) ==
    /\ StreamGoes(p, "starting", "startQueued")
    /\ Enqueue(p, "start")
    /\ UNCHANGED <<helperVars, policyVars, idle, eos, switched_to_idle, buffer_count,
                   max_buffer_count, elementVars, task, app, stops, delivered>>

PushStreamStart(p) ==
    /\ StreamGoes(p, "startQueued", "started")
    /\ PushEvents
    /\ UNCHANGED task

\* The orders in which a hash map may be walked.
Orderings(S) == {f \in [1..Cardinality(S) -> S] : \A i, j \in DOMAIN f : f[i] = f[j] => i = j}

StopOps == {"stopping", "joining", "joined", "stopped"}

\* CAPS: on the first caps configure_module makes a new batch policy, which
\* knows the pads requested so far.
Configure(p) ==
    /\ StreamGoes(p, "started", "module")
    /\ module_initialized' = TRUE
    /\ IF module_initialized
       THEN UNCHANGED <<sources, num_sources_eos, next_source>>
       ELSE sources' \in Orderings(Entries) /\ num_sources_eos' = 0 /\ next_source' = 0
    /\ UNCHANGED <<helperVars, timed_out, padVars, eos_sent, caps_seen, out_size, out_batch,
                   pad_task_created, task, app, stops, historyVars>>

\* ctx_lock is held by request_new_pad, and by the state change while it
\* deactivates pads.
CtxLockFree == app.op \notin {"request", "requested", "stopping"}

\* handle_caps: the source task is started.
Caps(p) ==
    /\ CtxLockFree
    /\ StreamGoes(p, "module", "capsHandled")
    /\ task' = IF task = "off" /\ ~pad_task_created THEN "top" ELSE task
    /\ pad_task_created' = TRUE
    /\ caps_seen' = caps_seen \cup {p}
    /\ UNCHANGED <<helperVars, policyVars, padVars, module_initialized, eos_sent, out_size,
                   out_batch, app, stops, historyVars>>

\* The record that EOS was sent is reset.
CapsEosNotSent(p) ==
    /\ StreamGoes(p, "capsHandled", "caps")
    /\ eos_sent' = FALSE
    /\ UNCHANGED <<helperVars, policyVars, padVars, module_initialized, caps_seen, out_size,
                   out_batch, pad_task_created, task, app, stops, historyVars>>

\* set_all_pads_eos(false)
CapsNotAllEos(p) ==
    /\ StreamGoes(p, "caps", "capsReset")
    /\ all_pads_eos' = FALSE
    /\ UNCHANGED <<inputs, pads_got_eos, stop_task, batch, got_first_buffer, policyVars,
                   padVars, elementVars, task, app, stops, historyVars>>

\* Faulty variant of ResetPad: pads_got_eos_and_empty_in_q is not corrected.
ResetPadHalf(p) ==
    /\ StreamGoes(p, "capsReset", "configured")
    /\ eos' = [eos EXCEPT ![p] = FALSE]
    /\ num_sources_eos' = IF eos[p] /\ num_sources_eos > 0 THEN num_sources_eos - 1
                          ELSE num_sources_eos
    /\ UNCHANGED <<inputs, pads_got_eos, all_pads_eos, stop_task, batch, got_first_buffer,
                   sources, next_source, timed_out, queue, idle, switched_to_idle,
                   buffer_count, max_buffer_count, elementVars, task, app, stops,
                   historyVars>>

\* NvStreamMux::reset_pad if the pad is in EOS
ResetPad(p) ==
    /\ StreamGoes(p, "capsReset", "configured")
    /\ eos' = [eos EXCEPT ![p] = FALSE]
    /\ IF eos[p] /\ num_sources_eos > 0
       THEN /\ num_sources_eos' = num_sources_eos - 1
            /\ pads_got_eos' = (pads_got_eos - 1) % Word
            /\ all_pads_eos' = FALSE
       ELSE UNCHANGED <<num_sources_eos, pads_got_eos, all_pads_eos>>
    /\ UNCHANGED <<inputs, stop_task, batch, got_first_buffer, sources, next_source,
                   timed_out, queue, idle, switched_to_idle, buffer_count,
                   max_buffer_count, elementVars, task, app, stops, historyVars>>

\* SEGMENT, and a serialized event between buffers (stream reset): queued,
\* then push_events runs.
Segment(p) ==
    /\ \/ stream[p] = "configured"
       \/ stream[p] = "open" /\ "events" \in Env /\ arrived[p] + 2 <= MaxEntries
    /\ stream' = [stream EXCEPT ![p] = "segmentQueued"]
    /\ Enqueue(p, "segment")
    /\ UNCHANGED <<helperVars, policyVars, idle, eos, switched_to_idle, buffer_count,
                   max_buffer_count, elementVars, task, app, stops, delivered>>

PushSegment(p) ==
    /\ StreamGoes(p, "segmentQueued", "open")
    /\ PushEvents
    /\ UNCHANGED task

\* add_buffer, first part: the bound of the pad's queue grows to the current
\* batch size; above it the thread waits on cv_input_full.
AdmitBuffer(p) ==
    /\ arrived[p] + 2 <= MaxEntries
    /\ max_buffer_count' = [max_buffer_count EXCEPT ![p] = AtLeast(@, GetBatchSize)]
    /\ LET full == max_buffer_count'[p] # 0 /\ buffer_count[p] > max_buffer_count'[p]
       IN StreamGoes(p, "open", IF full THEN "blocked" ELSE "admitted")
    /\ UNCHANGED <<helperVars, policyVars, queue, idle, eos, switched_to_idle,
                   buffer_count, elementVars, task, app, stops, historyVars>>

\* add_buffer, second part, under the locks of the helper and the pad
AddBuffer(p) ==
    /\ StreamGoes(p, "admitted", "open")
    /\ Enqueue(p, "buffer")
    /\ buffer_count' = [buffer_count EXCEPT ![p] = @ + 1]
    /\ idle' = [idle EXCEPT ![p] = FALSE]
    /\ all_pads_eos' = FALSE
    /\ got_first_buffer' = TRUE
    /\ timed_out' = (timed_out /\ got_first_buffer)
    /\ UNCHANGED <<inputs, pads_got_eos, stop_task, batch, sources, next_source,
                   num_sources_eos, eos, switched_to_idle, max_buffer_count,
                   elementVars, task, app, stops, delivered>>

\* EOS: handle_eos.  On an idle pad push_events runs at once.
Eos(p) ==
    /\ (stream[p] = "open" \/ (stream[p] = "started" /\ "empty-stream" \in Env))
    /\ IF eos[p]
       THEN /\ stream' = [stream EXCEPT ![p] = "eos"]
            /\ UNCHANGED <<padVars, arrived>>
       ELSE /\ stream' = [stream EXCEPT ![p] = IF idle[p] THEN "eosQueued" ELSE "eos"]
            /\ Enqueue(p, "eos")
            /\ switched_to_idle' = [switched_to_idle EXCEPT ![p] = TRUE]
            /\ eos' = [eos EXCEPT ![p] = TRUE]
            /\ UNCHANGED <<idle, buffer_count, max_buffer_count>>
    /\ UNCHANGED <<helperVars, policyVars, elementVars, task, app, stops, delivered>>

PushEos(p) ==
    /\ StreamGoes(p, "eosQueued", "eos")
    /\ PushEvents
    /\ UNCHANGED task

\* FLUSH_STOP: handle_flush_stop, then the record that EOS was sent is reset.
\* A SEGMENT follows.
FlushStop(p) ==
    /\ \/ stream[p] = "open" /\ "flush" \in Env
       \/ stream[p] = "eos" /\ "flush-eos" \in Env
    /\ arrived[p] + 2 <= MaxEntries
    /\ stream' = [stream EXCEPT ![p] = "flushed"]
    /\ idle' = [idle EXCEPT ![p] = FALSE]
    /\ all_pads_eos' = FALSE
    /\ UNCHANGED <<inputs, pads_got_eos, stop_task, batch, got_first_buffer, policyVars,
                   queue, eos, switched_to_idle, buffer_count, max_buffer_count,
                   elementVars, task, app, stops, historyVars>>

FlushStopEosNotSent(p) ==
    /\ StreamGoes(p, "flushed", "configured")
    /\ eos_sent' = FALSE
    /\ UNCHANGED <<helperVars, policyVars, padVars, module_initialized, caps_seen, out_size,
                   out_batch, pad_task_created, task, app, stops, historyVars>>

\* The steps that finish a handler the pad's thread has entered.
Handler(p) ==
    \/ QueueStreamStart(p) \/ PushStreamStart(p)
    \/ Caps(p) \/ CapsEosNotSent(p) \/ CapsNotAllEos(p) \/ ResetPad(p)
    \/ PushSegment(p) \/ AddBuffer(p) \/ PushEos(p) \/ FlushStopEosNotSent(p)

\* The steps with which the pad's thread enters a handler.
Arrival(p) ==
    \/ StreamStart(p) \/ Configure(p) \/ Segment(p) \/ AdmitBuffer(p) \/ Eos(p) \/ FlushStop(p)

\* The pad's thread is in no handler: its stream lock is free.
AtRest(p) ==
    stream[p] \in {"new", "started", "configured", "open", "eos", "inactive"}

--------------------------------------------------------------------------------
(* The source task: gst_nvstreammux_src_push_loop and NvStreamMux::push_loop *)

taskOnly == <<helperVars, policyVars, padVars, elementVars, stream, app, stops, historyVars>>

\* Without pads, or once EOS was sent, only EOS is looked after; with a batch
\* size of zero only events are pushed.
TaskTop ==
    /\ task = "top"
    /\ task' = IF Attached = {} \/ eos_sent THEN "readEos"
               ELSE IF GetBatchSize = 0 THEN "drain" ELSE "allocate"
    /\ UNCHANGED taskOnly

\* push_loop(nullptr)
TaskDrain ==
    /\ TaskGoes("drain", "readEos")
    /\ PushEvents
    /\ UNCHANGED stream

\* The output buffer gets the batch size of this moment.
TaskAllocate ==
    /\ TaskGoes("allocate", "test")
    /\ out_size' = GetBatchSize
    /\ UNCHANGED <<helperVars, policyVars, padVars, module_initialized, eos_sent, caps_seen,
                   out_batch, pad_task_created, stream, app, stops, historyVars>>

\* push_loop has nothing to do: the task is to stop, or the loop condition or
\* the emptiness of the map ends it.
LoopEnds == stop_task \/ IsReady(batch) \/ Entries = {}

TaskTest ==
    /\ task = "test"
    /\ task' = IF LoopEnds THEN "tail" ELSE "eventsFirst"
    /\ UNCHANGED taskOnly

TaskEventsFirst ==
    /\ TaskGoes("eventsFirst", "form")
    /\ PushEvents
    /\ UNCHANGED stream

\* What update_with_source may take from a pad.
Offer == [p \in Live |-> AtMost(Cardinality(Buffers(queue[p])),
                                AllowedRepeats(MaxSame, GetBatchSize, 1))]

\* Faulty variant of MustWait: the time set by min-fps is ignored.
WaitsForever(b) == ~IsReady(b)

\* push_loop waits for more buffers until min-fps is due.
MustWait(b) == ~IsReady(b) /\ ~timed_out

\* A batch that is ready or overdue is pushed if it has a buffer.
Pushable(b) == b.acc > 0

\* form_batch and the choice that follows it: wait for more buffers, push what
\* there is, or give up.
TaskForm ==
    /\ (task = "form" \/ (task = "retest" /\ ~LoopEnds))
    /\ \E formed \in {FormBatch(<<sources>>, [group |-> 0, source |-> next_source], TRUE,
                                Offer, GetBatchSize)} :
          /\ batch' = [size |-> GetBatchSize, acc |-> formed.acc, num |-> formed.num]
          /\ next_source' = formed.pos.source
    /\ task' = IF MustWait(batch') THEN "wait"
               ELSE IF Pushable(batch') THEN "events" ELSE "tail"
    /\ UNCHANGED <<inputs, pads_got_eos, all_pads_eos, stop_task, got_first_buffer,
                   sources, num_sources_eos, timed_out, padVars, elementVars, stream,
                   app, stops, historyVars>>

TaskLoopEnds ==
    /\ TaskGoes("retest", "tail")
    /\ LoopEnds
    /\ UNCHANGED taskOnly

\* cv.wait_for returns: notified, timed out or spuriously.  Without a buffer in
\* the batch the events are pushed before the decision.
TaskWakeEmpty ==
    /\ batch.acc = 0
    /\ TaskGoes("wait", "eventsWaited")
    /\ UNCHANGED taskOnly

TaskEventsWaited ==
    /\ TaskGoes("eventsWaited", "decide")
    /\ PushEvents
    /\ UNCHANGED stream

\* After the wait: leave if the task is to stop, or if the batch is due (it has
\* a buffer and the minimum distance to the previous batch, max-fps, is over).
TaskDecide ==
    /\ (task = "decide" \/ (task = "wait" /\ batch.acc > 0))
    /\ \E due \in BOOLEAN :
          task' = IF stop_task \/ (due /\ batch.acc > 0) THEN "tail" ELSE "retest"
    /\ UNCHANGED taskOnly

TaskEvents ==
    /\ TaskGoes("events", "copy")
    /\ PushEvents
    /\ UNCHANGED stream

\* copy_batch: the pads of the batch are looked up with operator[], which makes
\* a null entry for a pad that is gone; of each pad the first buffers move into
\* the output buffer while they fit.  The pads are visited in the order of a
\* hash map.
Wanted(p) == AtMost(batch.num[p], Cardinality(Buffers(queue[p])))

Copies ==
    LET from == DOMAIN batch.num \cap Live
    IN {c \in [from -> 0..MaxSame] :
          /\ \A p \in from : c[p] <= Wanted(p)
          /\ SumFunctionOnSet(c, from) <= out_size
          /\ \/ \A p \in from : c[p] = Wanted(p)
             \/ SumFunctionOnSet(c, from) = out_size
          /\ Cardinality({p \in from : 0 < c[p] /\ c[p] < Wanted(p)}) <= 1}

TaskCopy ==
    /\ TaskGoes("copy", "push")
    /\ \E c \in Copies :
          LET taken == [p \in Pads |-> IF p \in DOMAIN c THEN FirstBuffers(queue[p], c[p])
                                                         ELSE {}]
              left == [p \in Pads |-> CountAfter(buffer_count[p], Cardinality(taken[p]))]
          IN /\ out_batch' = taken
             /\ queue' = [p \in Pads |-> queue[p] \ taken[p]]
             /\ buffer_count' = left
             /\ stream' = [p \in Pads |->
                    IF /\ stream[p] = "blocked" /\ taken[p] # {}
                       /\ HasRoom(left[p], max_buffer_count[p])
                    THEN "admitted" ELSE stream[p]]
    /\ inputs' = [p \in Pads |-> IF p \in DOMAIN batch.num /\ inputs[p] = "none"
                                 THEN "null" ELSE inputs[p]]
    /\ timed_out' = FALSE
    /\ UNCHANGED <<pads_got_eos, all_pads_eos, stop_task, batch, got_first_buffer, sources,
                   next_source, num_sources_eos, idle, eos, switched_to_idle,
                   max_buffer_count, module_initialized, eos_sent, caps_seen, out_size,
                   pad_task_created, app, stops, historyVars>>

\* push_batch with all locks released, then reset_batch
TaskPush ==
    /\ TaskGoes("push", "tail")
    /\ delivered' = [p \in Pads |-> delivered[p] \cup out_batch[p]]
    /\ out_batch' = [p \in Pads |-> {}]
    /\ batch' = ResetBatch(batch)
    /\ UNCHANGED <<inputs, pads_got_eos, all_pads_eos, stop_task, got_first_buffer,
                   policyVars, padVars, module_initialized, eos_sent, caps_seen, out_size,
                   pad_task_created, stream, app, stops, arrived>>

\* The events behind the batch; an output buffer that was not pushed is dropped.
TaskTail ==
    /\ TaskGoes("tail", "readEos")
    /\ PushEvents
    /\ UNCHANGED stream

TaskReadEos ==
    /\ task = "readEos"
    /\ task' = IF all_pads_eos THEN "pushEos" ELSE "top"
    /\ UNCHANGED taskOnly

\* The EOS event goes downstream unless the record says it already did; the
\* record is written when the call returns, with its result.
TaskPushEos ==
    /\ TaskGoes("pushEos", "eosPushed")
    /\ ~eos_sent
    /\ UNCHANGED taskOnly

TaskSkipEos ==
    /\ TaskGoes("pushEos", "top")
    /\ eos_sent
    /\ UNCHANGED taskOnly

\* Faulty variant of TaskEosReturned: the record is not kept.
TaskEosForgotten(accepted) ==
    /\ TaskGoes("eosPushed", "top")
    /\ UNCHANGED taskOnly

TaskEosReturned(accepted) ==
    /\ TaskGoes("eosPushed", "top")
    /\ eos_sent' = accepted
    /\ UNCHANGED <<helperVars, policyVars, padVars, module_initialized, caps_seen, out_size,
                   out_batch, pad_task_created, stream, app, stops, historyVars>>

\* The time set by min-fps passes.
Timeout ==
    /\ ~timed_out
    /\ timed_out' = TRUE
    /\ UNCHANGED <<helperVars, sources, next_source, num_sources_eos, padVars,
                   elementVars, threadVars, historyVars>>

Task ==
    \/ TaskTop \/ TaskDrain \/ TaskAllocate \/ TaskTest \/ TaskEventsFirst \/ TaskForm
    \/ TaskLoopEnds \/ TaskWakeEmpty \/ TaskEventsWaited \/ TaskDecide \/ TaskEvents
    \/ TaskCopy \/ TaskPush \/ TaskTail \/ TaskReadEos \/ TaskPushEos \/ TaskSkipEos
    \/ TaskEosReturned(TRUE) \/ TaskEosReturned(FALSE)

--------------------------------------------------------------------------------
(* The application thread *)

AppGoes(from, to, p) == app.op = from /\ app' = [op |-> to, pad |-> p]

Idle == [op |-> "idle", pad |-> "none"]

\* request_new_pad, first part: get_pad looks the index up with operator[],
\* which makes a null entry.
Request(p) ==
    /\ stream[p] = "absent"
    /\ ("late-request" \in Env \/ \A q \in Pads : stream[q] \in {"absent", "new"})
    /\ AppGoes("idle", "request", p)
    /\ inputs' = [inputs EXCEPT ![p] = IF @ = "none" THEN "null" ELSE @]
    /\ UNCHANGED <<pads_got_eos, all_pads_eos, stop_task, batch, got_first_buffer,
                   policyVars, padVars, elementVars, stream, task, stops, historyVars>>

\* add_pad
AddPad(p) ==
    /\ app = [op |-> "request", pad |-> p]
    /\ app' = [op |-> "requested", pad |-> p]
    /\ inputs' = [inputs EXCEPT ![p] = "pad"]
    /\ sources' = IF \E i \in DOMAIN sources : sources[i] = p THEN sources
                  ELSE Append(sources, p)
    /\ all_pads_eos' = FALSE
    /\ switched_to_idle' = [switched_to_idle EXCEPT ![p] = TRUE]
    /\ stream' = [stream EXCEPT ![p] = "new"]
    /\ UNCHANGED <<pads_got_eos, stop_task, batch, got_first_buffer, next_source,
                   num_sources_eos, timed_out, queue, idle, eos, buffer_count,
                   max_buffer_count, elementVars, task, stops, historyVars>>

\* the end of request_new_pad: set_all_pads_eos(false)
Requested ==
    /\ app.op = "requested" /\ app' = Idle
    /\ all_pads_eos' = FALSE
    /\ UNCHANGED <<inputs, pads_got_eos, stop_task, batch, got_first_buffer, policyVars,
                   padVars, elementVars, stream, task, stops, historyVars>>

\* release_pad, first part: the pad is deactivated, which waits for its stream
\* lock; nothing arrives on it any more.
Release(p) ==
    /\ AtRest(p) /\ stream[p] # "inactive"
    /\ \/ "release-early" \in Env
       \/ "release-drained" \in Env /\ p \in Counted
    /\ AppGoes("idle", "release", p)
    /\ stream' = [stream EXCEPT ![p] = "inactive"]
    /\ UNCHANGED <<helperVars, policyVars, padVars, elementVars, task, stops, historyVars>>

\* The SinkPad is deleted and its map entry erased.
ErasePad(p) ==
    /\ inputs' = [inputs EXCEPT ![p] = "none"]
    /\ queue' = [queue EXCEPT ![p] = {}]
    /\ all_pads_eos' = (all_pads_eos \/ Entries = {p})
    /\ app' = [op |-> "removed", pad |-> p]

\* Faulty variant of LosesCount: the test is the wrong way round.
LosesCountIfFilled(p) == queue[p] # {}

\* remove_pad takes a pad without waiting entries out of the EOS counters.
LosesCount(p) == queue[p] = {}

\* remove_pad: the EOS counters lose this pad if its queue is empty.  A pad in
\* EOS is erased in the same critical section; for another pad the helper lock
\* is given up while EOS is waited for.
RemovePad(p) ==
    /\ app = [op |-> "release", pad |-> p]
    /\ IF LosesCount(p)
       THEN /\ num_sources_eos' = (num_sources_eos - 1) % Word
            /\ pads_got_eos' = (pads_got_eos - 1) % Word
       ELSE UNCHANGED <<pads_got_eos, num_sources_eos>>
    /\ IF eos[p] THEN ErasePad(p)
       ELSE /\ app' = [op |-> "await", pad |-> p]
            /\ UNCHANGED <<inputs, queue, all_pads_eos>>
    /\ UNCHANGED <<stop_task, batch, got_first_buffer, sources, next_source, timed_out,
                   idle, eos, switched_to_idle, buffer_count, max_buffer_count,
                   elementVars, stream, task, stops, historyVars>>

\* remove_pad after 100 waits in which no EOS came: one counter is corrected.
RemovePadTimeout(p) ==
    /\ app = [op |-> "await", pad |-> p]
    /\ ~eos[p]
    /\ pads_got_eos' = (pads_got_eos + 1) % Word
    /\ ErasePad(p)
    /\ UNCHANGED <<stop_task, batch, got_first_buffer, policyVars, idle, eos,
                   switched_to_idle, buffer_count, max_buffer_count, elementVars, stream,
                   task, stops, historyVars>>

\* the end of release_pad: gst_element_remove_pad
Released(p) ==
    /\ app = [op |-> "removed", pad |-> p]
    /\ app' = Idle
    /\ stream' = [stream EXCEPT ![p] = "gone"]
    /\ UNCHANGED <<helperVars, policyVars, padVars, elementVars, task, stops, historyVars>>

\* PAUSED to READY: ctx_lock is taken and the pads that had caps are looked up
\* with operator[] and deactivated one after the other.
Stop ==
    /\ "stop" \in Env /\ stops < MaxStops
    /\ AppGoes("idle", "stopping", "none")
    /\ stops' = stops + 1
    /\ UNCHANGED <<helperVars, policyVars, padVars, elementVars, stream, task, historyVars>>

Deactivate(p) ==
    /\ app.op = "stopping"
    /\ p \in caps_seen
    /\ \/ /\ inputs[p] = "none"
          /\ inputs' = [inputs EXCEPT ![p] = "null"]
          /\ UNCHANGED stream
       \/ /\ inputs[p] = "pad" /\ AtRest(p) /\ stream[p] # "inactive"
          /\ stream' = [stream EXCEPT ![p] = "inactive"]
          /\ UNCHANGED inputs
    /\ UNCHANGED <<pads_got_eos, all_pads_eos, stop_task, batch, got_first_buffer,
                   policyVars, padVars, elementVars, task, app, stops, historyVars>>

\* handle_stop: every queue is cleared; buffer_count, eos and switched_to_idle
\* are not.
HandleStop ==
    /\ \A p \in caps_seen : inputs[p] = "null" \/ stream[p] = "inactive"
    /\ AppGoes("stopping", "joining", "none")
    /\ stop_task' = TRUE
    /\ queue' = [p \in Pads |-> IF p \in Live THEN {} ELSE queue[p]]
    /\ idle' = [p \in Pads |-> idle[p] \/ p \in Live]
    /\ UNCHANGED <<inputs, pads_got_eos, all_pads_eos, batch, got_first_buffer, policyVars,
                   eos, switched_to_idle, buffer_count, max_buffer_count, elementVars,
                   stream, task, stops, historyVars>>

\* gst_pad_stop_task, if the task was created, waits for the running iteration.
JoinTask ==
    /\ AppGoes("joining", "joined", "none")
    /\ IF pad_task_created THEN task \in {"off", "top"} /\ task' = "off"
                           ELSE UNCHANGED task
    /\ UNCHANGED <<helperVars, policyVars, padVars, elementVars, stream, stops, historyVars>>

ResetStop ==
    /\ AppGoes("joined", "stopped", "none")
    /\ stop_task' = FALSE
    /\ all_pads_eos' = FALSE
    /\ pad_task_created' = FALSE
    /\ eos_sent' = FALSE
    /\ UNCHANGED <<inputs, pads_got_eos, batch, got_first_buffer, policyVars, padVars,
                   module_initialized, caps_seen, out_size, out_batch, stream, task, stops,
                   historyVars>>

\* The remaining pads are deactivated; READY to PAUSED activates all pads again.
Restart ==
    /\ app.op = "stopped" /\ app' = Idle
    /\ \A p \in Attached : AtRest(p)
    /\ stream' = [p \in Pads |-> IF p \in Attached THEN "new" ELSE stream[p]]
    /\ UNCHANGED <<helperVars, policyVars, padVars, elementVars, task, stops, historyVars>>

AppContinues ==
    \/ Requested \/ HandleStop \/ JoinTask \/ ResetStop \/ Restart
    \/ \E p \in Pads : \/ AddPad(p) \/ RemovePad(p) \/ RemovePadTimeout(p) \/ Released(p)
                       \/ Deactivate(p)

AppStarts == Stop \/ \E p \in Pads : Request(p) \/ Release(p)

--------------------------------------------------------------------------------
Init ==
    /\ inputs = [p \in Pads |-> "none"]
    /\ pads_got_eos = 0 /\ all_pads_eos = FALSE /\ stop_task = FALSE
    /\ batch = NoBatch /\ got_first_buffer = FALSE
    /\ sources = <<>> /\ next_source = 0 /\ num_sources_eos = 0 /\ timed_out = FALSE
    /\ queue = [p \in Pads |-> {}]
    /\ idle = [p \in Pads |-> TRUE]
    /\ eos = [p \in Pads |-> FALSE]
    /\ switched_to_idle = [p \in Pads |-> FALSE]
    /\ buffer_count = [p \in Pads |-> 0]
    /\ max_buffer_count = [p \in Pads |-> 0]
    /\ module_initialized = FALSE /\ eos_sent = FALSE /\ caps_seen = {}
    /\ out_size = 0 /\ pad_task_created = FALSE
    /\ out_batch = [p \in Pads |-> {}]
    /\ stream = [p \in Pads |-> "absent"]
    /\ task = "off" /\ app = Idle /\ stops = 0
    /\ arrived = [p \in Pads |-> 0]
    /\ delivered = [p \in Pads |-> {}]

Next ==
    \/ \E p \in Pads : Arrival(p) \/ Handler(p)
    \/ Task \/ Timeout
    \/ AppContinues \/ AppStarts

StreamStates == {"absent", "new", "starting", "startQueued", "started",
                 "module", "capsHandled", "caps", "capsReset", "configured",
                 "segmentQueued", "open", "admitted", "blocked",
                 "eosQueued", "eos", "flushed", "inactive", "gone"}
TaskStates == {"off", "top", "drain", "allocate", "test", "eventsFirst", "form", "retest",
               "wait", "eventsWaited", "decide", "events", "copy", "push", "tail",
               "readEos", "pushEos", "eosPushed"}
AppStates == {"idle", "request", "requested", "release", "await", "removed"} \cup StopOps

Spec == Init /\ [][Next]_vars

(***************************************************************************)
(* A thread inside a handler goes on; the source task, which always has a  *)
(* step to take while it is started, takes one (weak fairness of Task with *)
(* its ENABLED written out), since its wait ends at the latest after       *)
(* wait_time; the clock passes the duration of min-fps; the application    *)
(* finishes a call it began.  A downstream element that is offered EOS     *)
(* again and again accepts it once.  Nothing forces a source to send       *)
(* anything or the application to begin a call.                            *)
(***************************************************************************)
Fairness ==
    /\ \A p \in Pads : WF_vars(Handler(p))
    /\ []<>(task = "off") \/ []<><<Task>>_task
    /\ WF_vars(Timeout) /\ WF_vars(AppContinues)
    /\ SF_vars(TaskEosReturned(TRUE))

FairSpec == Spec /\ Fairness

--------------------------------------------------------------------------------
(* Properties *)

\* The variables of the EOS accounting and of the queues have their types.
CoreTypeOK ==
    /\ inputs \in [Pads -> {"none", "null", "pad"}]
    /\ pads_got_eos \in 0..(Word - 1) /\ num_sources_eos \in 0..(Word - 1)
    /\ all_pads_eos \in BOOLEAN /\ eos_sent \in BOOLEAN /\ pad_task_created \in BOOLEAN
    /\ queue \in [Pads -> SUBSET Entry]
    /\ idle \in [Pads -> BOOLEAN]
    /\ eos \in [Pads -> BOOLEAN]
    /\ switched_to_idle \in [Pads -> BOOLEAN]
    /\ out_batch \in [Pads -> SUBSET Entry]
    /\ stream \in [Pads -> StreamStates]
    /\ task \in TaskStates
    /\ app \in [op : AppStates, pad : Pads \cup {"none"}]
    /\ arrived \in [Pads -> Nat]
    /\ delivered \in [Pads -> SUBSET Entry]

\* Type invariant of the element and its helper.
TypeOK ==
    /\ CoreTypeOK
    /\ module_initialized \in BOOLEAN
    /\ stop_task \in BOOLEAN /\ got_first_buffer \in BOOLEAN /\ timed_out \in BOOLEAN
    /\ batch.size \in Nat /\ batch.acc \in 0..batch.size
    /\ DOMAIN batch.num \subseteq Pads
    /\ \A p \in DOMAIN batch.num : batch.num[p] \in 0..MaxSame
    /\ sources \in Seq(Pads) /\ next_source \in 0..Cardinality(Pads)
    /\ buffer_count \in [Pads -> Nat] /\ max_buffer_count \in [Pads -> 0..(Word - 1)]
    /\ caps_seen \subseteq Pads /\ out_size \in Nat /\ stops \in 0..MaxStops

InFlight(p) == out_batch[p]
Before(S, T) == \A d \in S, e \in T : d.n < e.n

\* The buffers of a stream leave in the order in which they arrived: a buffer
\* that went downstream is older than those in the batch being pushed, and
\* these are older than those that wait (copy_batch, push_batch, add_buffer).
BuffersInOrder ==
    \A p \in Pads :
        /\ Before(Buffers(delivered[p]), Buffers(InFlight(p)) \cup Buffers(queue[p]))
        /\ Before(Buffers(InFlight(p)), Buffers(queue[p]))

\* No entry is lost or duplicated: each that arrived waits in the queue, is in
\* the batch being pushed, or went downstream (as long as no pad is released
\* and the element is not stopped).
NothingLost ==
    \A p \in Pads :
        /\ {e.n : e \in queue[p] \cup InFlight(p) \cup delivered[p]} = 1..arrived[p]
        /\ Cardinality(queue[p]) + Cardinality(InFlight(p)) + Cardinality(delivered[p])
              = arrived[p]

\* No buffer overtakes an event: while a start, segment or EOS waits in the
\* queue, no later buffer of the stream is in a batch or downstream (push_events
\* before copy_batch, which skips events).
NoEventOvertaken ==
    \A p \in Pads :
        Before(Buffers(delivered[p] \cup InFlight(p)), queue[p] \ Buffers(queue[p]))

\* all_pads_eos is set only while every pad of the mux has ended and has no
\* buffer left (push_events, reset_pad, add_pad, remove_pad, add_buffer).
AllPadsEosIsTrue ==
    all_pads_eos => \A p \in Live : p \in Counted /\ Buffers(queue[p]) = {}

\* Both EOS counters count the pads that ended and were drained, except while
\* remove_pad has given up its lock.
EosCountersAgree ==
    app.op # "await" =>
        /\ pads_got_eos = Cardinality(Counted)
        /\ num_sources_eos = Cardinality(Counted)

\* buffer_count is the number of buffers in the pad's queue.
BufferCountExact ==
    \A p \in Live : buffer_count[p] = Cardinality(Buffers(queue[p]))

\* push_loop never finds a full batch left over at its entry: its loop would
\* not run and nothing would ever be batched again.
NoBatchLeftOver == task \in {"test", "retest"} => ~IsReady(batch)

\* While the record says that EOS was sent, no stream is open.
EosSentMeansEnded ==
    eos_sent => \A p \in Pads : stream[p] \notin {"configured", "open", "admitted", "blocked"}

\* A queue that holds entries is emptied (min-fps lets a batch that is not full
\* go; push_events runs in every iteration of the task).
QueuesDrain == \A p \in Pads : queue[p] # {} ~> queue[p] = {}

\* A producer that waits on cv_input_full goes on.
ProducersProceed ==
    \A p \in Pads : stream[p] = "blocked" ~> stream[p] # "blocked"

\* When all streams have ended, EOS is sent downstream, unless a stream starts
\* again.
AllEnded == app = Idle /\ Live # {} /\ \A p \in Live : stream[p] = "eos"
EosForwarded == AllEnded ~> (eos_sent \/ ~AllEnded)

\* The muxer implements in-order delivery.  A buffer counts as forwarded once
\* push_batch has returned.
BufferNumbers(q) == {b.n : b \in Buffers(q)}
Delivery == INSTANCE InOrderDelivery WITH
    received <- [p \in Pads |-> BufferNumbers(queue[p] \cup out_batch[p] \cup delivered[p])],
    forwarded <- [p \in Pads |-> BufferNumbers(delivered[p])],
    finished <- eos_sent
DeliversInOrder == Delivery!Spec
================================================================================
