------------------------------ MODULE InferQueues -------------------------------
(***************************************************************************)
(* The inference element (gst-plugins/gst-nvinfer) and the buffer queues   *)
(* of its context (NvDsInferContextImpl in libs/nvdsinfer).                *)
(*                                                                         *)
(* Threads.  The streaming thread cuts a buffer into batches, converts     *)
(* them and queues them in input_queue; the input thread hands them to the *)
(* context and moves them to process_queue; the output loop takes the      *)
(* results, attaches them to the buffer and pushes it.  A further thread   *)
(* loads models, and the application stops the element.  All share         *)
(* process_lock and the one condition process_cond.                        *)
(*                                                                         *)
(* An item (a buffer or a serialized event) is its number in the order of  *)
(* arrival; a batch is [kind, n, part], the part-th of buffer n.           *)
(***************************************************************************)
EXTENDS Integers, Sequences, FiniteSets, SequencesExt

CONSTANTS
    Configs,    \* the configurations, of which an instance of the element has one
    MaxModels,  \* bound of the model: contexts that are ever created
    MaxErrors,  \* bound of the model: failures of conversion, inference or parsing
    ConvPool,   \* INTERNAL_BUF_POOL_SIZE
    GrowBy,     \* by how many buffers queueInputBatch enlarges the pool
    NoBatch     \* no batch in hand

(***************************************************************************)
(* A configuration:                                                        *)
(*   mode    "frames" and "objects" (results are attached before the       *)
(*           buffer goes on), "async" (classifier_async_mode), or "tensor" *)
(*           (input_tensor_from_meta: no conversion, no input thread)      *)
(*   out     outputBufferPoolSize                                          *)
(*   auto    autoIncMem: the pool is enlarged when it is empty             *)
(*   meta    output_tensor_meta: the output buffers go downstream          *)
(*   shapes  how buffers are cut: sequences of "infer" and "attach"        *)
(*           (a batch with nothing to infer, only metadata to attach)      *)
(*   items   bound of the model: buffers and events that may arrive        *)
(*   env     what may happen: "convert-fails", "queue-fails",              *)
(*           "output-fails", "update" (a model is loaded), "stop"          *)
(***************************************************************************)
Modes == {"frames", "objects", "async", "tensor"}
Capabilities == {"convert-fails", "queue-fails", "output-fails", "update", "stop"}

ASSUME InferAssumption ==
    /\ MaxModels \in Nat \ {0} /\ MaxErrors \in Nat
    /\ ConvPool \in Nat \ {0} /\ GrowBy \in Nat \ {0}
    /\ \A c \in Configs :
        /\ c.mode \in Modes /\ c.out \in Nat \ {0} /\ {c.auto, c.meta} \subseteq BOOLEAN
        /\ c.shapes \subseteq Seq({"infer", "attach"})
        /\ c.items \in Nat /\ c.env \subseteq Capabilities
        \* without enlargement a buffer that keeps its outputs must not need the whole pool
        /\ c.meta /\ ~c.auto => \A p \in c.shapes : Len(p) <= c.out

\* What is queued; NoBatch is none of it.
BatchType == [kind : {"infer", "attach", "push", "marker"}, n : Nat, part : Nat]

ASSUME NoBatchAssumption == NoBatch \notin BatchType

VARIABLES
    config,
    \* GstNvInfer
    inputQueue, processQueue, stop,
    convFree,   \* the buffers in pool that are free
    asleep,     \* the threads that wait for process_cond
    \* DsNvInferImpl
    current,    \* m_InferCtx: a context is its number, 0 is nullptr
    next,       \* m_NextContextReplacement, 0 for none
    loader,     \* where the ModelLoadThread stands
    \* NvDsInferContextImpl, by context
    free,       \* the size of m_FreeBatchQueue
    queued,     \* m_ProcessBatchQueue: the batches
    size,       \* how many output buffers there are
    \* the threads
    streamer,   \* [at, todo, part, model] of the streaming thread
    input,      \* [at, batch, ctx] of the input thread
    output,     \* [at, batch, ctx, got] of the output loop
    app,        \* where the application thread stands
    \* environment and history
    models,     \* how many contexts were created
    errors,     \* how many failures there were
    held,       \* the output buffers kept by metadata: <<n, part, context>>
    items, gone, left \* what arrived, was refused, went downstream

elementVars == <<inputQueue, processQueue, stop, convFree, asleep>>
contextVars == <<free, queued, size>>
modelVars == <<current, next, loader, models>>
historyVars == <<items, gone, left>>
vars == <<config, elementVars, modelVars, contextVars, streamer, input, output, app, errors,
          held, historyVars>>

Contexts == 1 .. MaxModels
Allowed(capability) == capability \in config.env
HasInputThread == config.mode # "tensor"
Current == Len(items)      \* the item the streaming thread is busy with
Batch(kind, n, part) == [kind |-> kind, n |-> n, part |-> part]
Marker == Batch("marker", 0, 0)

--------------------------------------------------------------------------------
(* process_lock and process_cond *)

\* The two loops keep the lock from one turn to the next unless they wait or unlock it.
Unlocked == input.at # "loop" /\ output.at # "loop"

InputHasLock == input.at = "loop" \/ (input.at = "lock" /\ "input" \notin asleep /\ Unlocked)

OutputHasLock == output.at = "loop" \/ (output.at = "lock" /\ "output" \notin asleep /\ Unlocked)

\* g_cond_broadcast
Broadcast == asleep' = {}

--------------------------------------------------------------------------------
(* The context: queueInputBatch *)

\* A free output buffer is taken, from an enlarged pool if need be (once: there is memory for
\* no more); the batch is inferred.
Inferred(c, batch) ==
    /\ \/ free[c] > 0 /\ free' = [free EXCEPT ![c] = @ - 1] /\ UNCHANGED size
       \/ /\ free[c] = 0 /\ config.auto /\ size[c] = config.out
          /\ free' = [free EXCEPT ![c] = GrowBy - 1]
          /\ size' = [size EXCEPT ![c] = @ + GrowBy]
    /\ queued' = [queued EXCEPT ![c] = Append(@, batch)]

\* There is no memory to enlarge the pool: NVDSINFER_MEM_ERROR.
OutOfMemory(c) == free[c] = 0 /\ config.auto

--------------------------------------------------------------------------------
(* The streaming thread: buffers *)

IdleStreamer == [at |-> "idle", todo |-> <<>>, part |-> 0, model |-> 0]

\* submit_input_buffer begins.  When a model was loaded, ensureReplaceNextContext takes it and
\* queues a marker, in the input queue whether there is an input thread or not.
SubmitBuffer(parts) ==
    /\ app = "play" /\ streamer.at = "idle" /\ Len(items) < config.items /\ Unlocked
    /\ items' = Append(items, "buffer")
    /\ next' = 0
    /\ IF next = 0
       THEN /\ streamer' = [at |-> "part", todo |-> parts, part |-> 1, model |-> 0]
            /\ UNCHANGED <<inputQueue, asleep>>
       ELSE /\ streamer' = [at |-> "flush", todo |-> parts, part |-> 1, model |-> next]
            /\ inputQueue' = Append(inputQueue, Marker)
            /\ Broadcast
    /\ UNCHANGED <<config, processQueue, stop, convFree, current, loader, models, contextVars,
                   input, output, app, errors, held, gone, left>>

\* A batch with nothing to infer gives its conversion buffer back at once.
ConvBufs == IF Head(streamer.todo) = "infer" THEN convFree - 1 ELSE convFree

\* The next batch is for the context or carries metadata; a conversion buffer is acquired.
Acquire ==
    /\ HasInputThread /\ streamer.at = "part" /\ streamer.todo # <<>> /\ convFree > 0
    /\ convFree' = ConvBufs
    /\ streamer' = [streamer EXCEPT !.at = "convert"]
    /\ UNCHANGED <<config, inputQueue, processQueue, stop, asleep, modelVars, contextVars, input,
                   output, app, errors, held, historyVars>>

\* convert_batch_and_push_to_input_thread
PushBatch ==
    /\ streamer.at = "convert" /\ Unlocked
    /\ inputQueue' = Append(inputQueue, Batch(Head(streamer.todo), Current, streamer.part))
    /\ Broadcast
    /\ streamer' = [streamer EXCEPT !.at = "part", !.todo = Tail(@), !.part = @ + 1]
    /\ UNCHANGED <<config, processQueue, stop, convFree, modelVars, contextVars, input, output,
                   app, errors, held, historyVars>>

\* The conversion fails: the batch and its conversion buffer are lost, the buffer is refused.
ConvertFails ==
    /\ Allowed("convert-fails") /\ errors < MaxErrors
    /\ streamer.at = "convert" /\ Head(streamer.todo) = "infer"
    /\ errors' = errors + 1
    /\ gone' = gone \cup {Current}
    /\ streamer' = IdleStreamer
    /\ UNCHANGED <<config, elementVars, modelVars, contextVars, input, output, app, held, items,
                   left>>

\* Input tensors: the streaming thread itself queues the batch (queueInputBatchPreprocessed).
QueueTensor ==
    /\ ~HasInputThread /\ streamer.at = "part" /\ streamer.todo # <<>>
    /\ \/ /\ Inferred(current, Batch("infer", Current, streamer.part))
          /\ streamer' = [streamer EXCEPT !.at = "queued"]
          /\ UNCHANGED <<errors, gone>>
       \/ /\ OutOfMemory(current)
          /\ streamer' = [streamer EXCEPT !.todo = Tail(@), !.part = @ + 1]
          /\ UNCHANGED <<contextVars, errors, gone>>
       \/ /\ Allowed("queue-fails") /\ errors < MaxErrors
          /\ errors' = errors + 1
          /\ gone' = gone \cup {Current}
          /\ streamer' = IdleStreamer
          /\ UNCHANGED contextVars
    /\ UNCHANGED <<config, elementVars, modelVars, input, output, app, held, items, left>>

PushTensor ==
    /\ streamer.at = "queued" /\ Unlocked
    /\ processQueue' = Append(processQueue, Batch("infer", Current, streamer.part))
    /\ Broadcast
    /\ streamer' = [streamer EXCEPT !.at = "part", !.todo = Tail(@), !.part = @ + 1]
    /\ UNCHANGED <<config, inputQueue, stop, convFree, modelVars, contextVars, input, output,
                   app, errors, held, historyVars>>

\* Faulty variant of Enqueue: past the input thread.
EnqueuePast(batch) ==
    /\ processQueue' = Append(processQueue, batch) /\ UNCHANGED inputQueue
    /\ Broadcast

\* To the queue from which the next thread takes: the input queue if there is an input thread.
Enqueue(batch) ==
    /\ IF HasInputThread
       THEN inputQueue' = Append(inputQueue, batch) /\ UNCHANGED processQueue
       ELSE processQueue' = Append(processQueue, batch) /\ UNCHANGED inputQueue
    /\ Broadcast

\* Every batch of the buffer is queued: a push_buffer batch follows them.
PushBuffer ==
    /\ config.mode # "async" /\ streamer.at = "part" /\ streamer.todo = <<>> /\ Unlocked
    /\ Enqueue(Batch("push", Current, 0))
    /\ streamer' = IdleStreamer
    /\ UNCHANGED <<config, stop, convFree, modelVars, contextVars, input, output, app, errors,
                   held, historyVars>>

\* Asynchronous mode: the buffer or event goes downstream at once.
PushAtOnce ==
    /\ config.mode = "async" /\ streamer.at = "part" /\ streamer.todo = <<>>
    /\ left' = Append(left, Current)
    /\ streamer' = IdleStreamer
    /\ UNCHANGED <<config, elementVars, modelVars, contextVars, input, output, app, errors, held,
                   items, gone>>

--------------------------------------------------------------------------------
(* The streaming thread: serialized events, and waiting for the queues *)

\* In asynchronous mode the event goes on at once, else behind a marker.
SendEvent ==
    /\ app = "play" /\ streamer.at = "idle" /\ Len(items) < config.items /\ Unlocked
    /\ items' = Append(items, "event")
    /\ IF config.mode = "async"
       THEN /\ streamer' = [IdleStreamer EXCEPT !.at = "part"]
            /\ UNCHANGED <<inputQueue, processQueue, asleep>>
       ELSE /\ streamer' = [IdleStreamer EXCEPT !.at = "flush"]
            /\ Enqueue(Marker)
    /\ UNCHANGED <<config, stop, convFree, modelVars, contextVars, input, output, app, errors,
                   held, gone, left>>

QueuesEmpty == inputQueue = <<>> /\ processQueue = <<>>

FlushWaits ==
    /\ streamer.at = "flush" /\ "streamer" \notin asleep /\ Unlocked /\ ~QueuesEmpty
    /\ asleep' = asleep \cup {"streamer"}
    /\ UNCHANGED <<config, inputQueue, processQueue, stop, convFree, modelVars, contextVars,
                   streamer, input, output, app, errors, held, historyVars>>

\* Faulty variant of Flushed: only the input queue is waited for.
FlushedInput ==
    /\ streamer.at = "flush" /\ "streamer" \notin asleep /\ Unlocked /\ inputQueue = <<>>
    /\ IF streamer.model = 0
       THEN left' = Append(left, Current) /\ streamer' = IdleStreamer /\ UNCHANGED current
       ELSE /\ current' = streamer.model
            /\ streamer' = [streamer EXCEPT !.at = "part", !.model = 0]
            /\ UNCHANGED left
    /\ UNCHANGED <<config, elementVars, next, loader, models, contextVars, input, output, app,
                   errors, held, items, gone>>

\* The event goes downstream, or the context is replaced (resetContextUnlock).
Flushed ==
    /\ streamer.at = "flush" /\ "streamer" \notin asleep /\ Unlocked /\ QueuesEmpty
    /\ IF streamer.model = 0
       THEN left' = Append(left, Current) /\ streamer' = IdleStreamer /\ UNCHANGED current
       ELSE /\ current' = streamer.model
            /\ streamer' = [streamer EXCEPT !.at = "part", !.model = 0]
            /\ UNCHANGED left
    /\ UNCHANGED <<config, elementVars, next, loader, models, contextVars, input, output, app,
                   errors, held, items, gone>>

--------------------------------------------------------------------------------
(* Models that are loaded while the element runs *)

\* loadModel begins, unless a model that was loaded is not in use yet.
LoadModel ==
    /\ Allowed("update") /\ app = "play" /\ loader = "idle" /\ Unlocked
    /\ next = 0 /\ models < MaxModels
    /\ loader' = "loading"
    /\ UNCHANGED <<config, elementVars, current, next, models, contextVars, streamer, input,
                   output, app, errors, held, historyVars>>

\* triggerContextReplace, or the model could not be loaded.
ModelLoaded ==
    /\ loader = "loading" /\ Unlocked
    /\ \/ next' = models + 1 /\ models' = models + 1
       \/ UNCHANGED <<next, models>>
    /\ loader' = "idle"
    /\ UNCHANGED <<config, elementVars, current, contextVars, streamer, input, output, app,
                   errors, held, historyVars>>

--------------------------------------------------------------------------------
(* The input thread: gst_nvinfer_input_queue_loop *)

InputEnds ==
    /\ InputHasLock /\ stop
    /\ input' = [input EXCEPT !.at = "ended"]
    /\ UNCHANGED <<config, elementVars, modelVars, contextVars, streamer, output, app, errors,
                   held, historyVars>>

InputWaits ==
    /\ InputHasLock /\ ~stop /\ inputQueue = <<>>
    /\ input' = [input EXCEPT !.at = "lock"]
    /\ asleep' = asleep \cup {"input"}
    /\ UNCHANGED <<config, inputQueue, processQueue, stop, convFree, modelVars, contextVars,
                   streamer, output, app, errors, held, historyVars>>

\* A batch with nothing to infer is moved to the process queue.
InputForwards ==
    /\ InputHasLock /\ ~stop /\ inputQueue # <<>> /\ Head(inputQueue).kind # "infer"
    /\ inputQueue' = Tail(inputQueue)
    /\ processQueue' = Append(processQueue, Head(inputQueue))
    /\ Broadcast
    /\ input' = [input EXCEPT !.at = "loop"]
    /\ UNCHANGED <<config, stop, convFree, modelVars, contextVars, streamer, output, app,
                   errors, held, historyVars>>

\* A batch is taken, without a broadcast, and the lock is released.
InputTakes ==
    /\ InputHasLock /\ ~stop /\ inputQueue # <<>> /\ Head(inputQueue).kind = "infer"
    /\ inputQueue' = Tail(inputQueue)
    /\ input' = [at |-> "queue", batch |-> Head(inputQueue), ctx |-> current]
    /\ UNCHANGED <<config, processQueue, stop, convFree, asleep, modelVars, contextVars,
                   streamer, output, app, errors, held, historyVars>>

\* queueInputBatch.  The conversion buffer comes back when the input is consumed; it is lost
\* when the preprocessing fails.
InputQueues ==
    /\ input.at = "queue"
    /\ \/ /\ Inferred(input.ctx, input.batch)
          /\ convFree' = convFree + 1
          /\ input' = [input EXCEPT !.at = "relock"]
          /\ UNCHANGED errors
       \/ /\ OutOfMemory(input.ctx)
          /\ convFree' = convFree + 1
          /\ input' = [input EXCEPT !.at = "relock", !.batch = NoBatch]
          /\ UNCHANGED <<contextVars, errors>>
       \/ /\ Allowed("queue-fails") /\ errors < MaxErrors
          /\ errors' = errors + 1
          /\ convFree' \in {convFree, convFree + 1}
          /\ input' = [input EXCEPT !.at = "relock", !.batch = NoBatch]
          /\ UNCHANGED contextVars
    /\ UNCHANGED <<config, inputQueue, processQueue, stop, asleep, modelVars, streamer, output,
                   app, held, historyVars>>

\* Faulty variant of InputMoves: a batch that was not inferred is moved too.
InputMovesAll ==
    /\ input.at = "relock" /\ Unlocked
    /\ processQueue' = Append(processQueue, IF input.batch = NoBatch THEN Batch("infer", 0, 0)
                                                                     ELSE input.batch)
    /\ Broadcast
    /\ input' = [input EXCEPT !.at = "loop", !.batch = NoBatch]
    /\ UNCHANGED <<config, inputQueue, stop, convFree, modelVars, contextVars, streamer, output,
                   app, errors, held, historyVars>>

\* With the lock again, a batch that was inferred is moved; of one that was not, nobody is told.
InputMoves ==
    /\ input.at = "relock" /\ Unlocked
    /\ IF input.batch = NoBatch
       THEN UNCHANGED <<processQueue, asleep>>
       ELSE processQueue' = Append(processQueue, input.batch) /\ Broadcast
    /\ input' = [input EXCEPT !.at = "loop", !.batch = NoBatch]
    /\ UNCHANGED <<config, inputQueue, stop, convFree, modelVars, contextVars, streamer, output,
                   app, errors, held, historyVars>>

--------------------------------------------------------------------------------
(* The output loop: gst_nvinfer_output_loop *)

OutputEnds ==
    /\ OutputHasLock /\ stop
    /\ output' = [output EXCEPT !.at = "ended"]
    /\ UNCHANGED <<config, elementVars, modelVars, contextVars, streamer, input, app, errors,
                   held, historyVars>>

OutputWaits ==
    /\ OutputHasLock /\ ~stop /\ processQueue = <<>>
    /\ output' = [output EXCEPT !.at = "lock"]
    /\ asleep' = asleep \cup {"output"}
    /\ UNCHANGED <<config, inputQueue, processQueue, stop, convFree, modelVars, contextVars,
                   streamer, input, app, errors, held, historyVars>>

\* Faulty variant of Taken: nobody is told that the queue is shorter.
TakenSilently == processQueue' = Tail(processQueue) /\ UNCHANGED asleep

Taken == processQueue' = Tail(processQueue) /\ Broadcast

\* A marker, or metadata to attach: done with the lock held.
OutputSkips ==
    /\ OutputHasLock /\ ~stop /\ processQueue # <<>>
    /\ Head(processQueue).kind \in {"marker", "attach"}
    /\ Taken
    /\ output' = [output EXCEPT !.at = "loop"]
    /\ UNCHANGED <<config, inputQueue, stop, convFree, modelVars, contextVars, streamer, input,
                   app, errors, held, historyVars>>

\* Another batch is taken and the lock released.
OutputTakes ==
    /\ OutputHasLock /\ ~stop /\ processQueue # <<>>
    /\ Head(processQueue).kind \in {"push", "infer"}
    /\ Taken
    /\ output' = [output EXCEPT !.at = Head(processQueue).kind, !.batch = Head(processQueue)]
    /\ UNCHANGED <<config, inputQueue, stop, convFree, modelVars, contextVars, streamer, input,
                   app, errors, held, historyVars>>

OutputPushes ==
    /\ output.at = "push"
    /\ left' = Append(left, output.batch.n)
    /\ output' = [output EXCEPT !.at = "lock", !.batch = NoBatch]
    /\ UNCHANGED <<config, elementVars, modelVars, contextVars, streamer, input, app, errors,
                   held, items, gone>>

\* m_InferCtx is read without the lock and used at once: a null pointer is the end.
OutputContext ==
    /\ output.at = "infer"
    /\ output' = [output EXCEPT !.at = IF current = 0 THEN "crashed" ELSE "dequeue",
                                !.ctx = current]
    /\ UNCHANGED <<config, elementVars, modelVars, contextVars, streamer, input, app, errors,
                   held, historyVars>>

\* Faulty variant of Recycled: the output buffer is lost when the results cannot be parsed.
NotRecycled(c) == free

Recycled(c) == [free EXCEPT ![c] = @ + 1]

\* dequeueOutputBatch waits for the next batch of the context; when its results cannot be
\* parsed, the output buffer is free again and the results are lost.
OutputDequeues ==
    /\ output.at = "dequeue" /\ queued[output.ctx] # <<>>
    /\ queued' = [queued EXCEPT ![output.ctx] = Tail(@)]
    /\ \/ /\ output' = [output EXCEPT !.at = "attach", !.got = Head(queued[output.ctx])]
          /\ UNCHANGED <<free, errors>>
       \/ /\ Allowed("output-fails") /\ errors < MaxErrors
          /\ errors' = errors + 1
          /\ output' = [output EXCEPT !.at = "lock", !.batch = NoBatch]
          /\ free' = Recycled(output.ctx)
    /\ UNCHANGED <<config, elementVars, modelVars, size, streamer, input, app, held,
                   historyVars>>

\* The results are attached.  The output buffers go with the metadata, or are free again.
OutputAttaches ==
    /\ output.at = "attach" /\ Unlocked
    /\ IF config.meta /\ config.mode # "async"
       THEN held' = held \cup {<<output.batch.n, output.batch.part, output.ctx>>} /\ UNCHANGED free
       ELSE free' = Recycled(output.ctx) /\ UNCHANGED held
    /\ output' = [output EXCEPT !.at = "loop", !.batch = NoBatch, !.got = NoBatch]
    /\ UNCHANGED <<config, elementVars, modelVars, queued, size, streamer, input, app, errors,
                   historyVars>>

\* Downstream lets go of buffer n and of the output buffers that its metadata keep.
Released(n) ==
    /\ n \in Range(left) /\ \E h \in held : h[1] = n
    /\ held' = {h \in held : h[1] # n}
    /\ free' = [c \in Contexts |-> free[c] + Cardinality({h \in held : h[1] = n /\ h[3] = c})]
    /\ UNCHANGED <<config, elementVars, modelVars, queued, size, streamer, input, output, app,
                   errors, historyVars>>

--------------------------------------------------------------------------------
(* The application thread: gst_nvinfer_stop *)

\* GStreamer calls stop when the streaming thread is out of the element.
Stop ==
    /\ Allowed("stop") /\ app = "play" /\ streamer.at = "idle"
    /\ app' = "drain"
    /\ UNCHANGED <<config, elementVars, modelVars, contextVars, streamer, input, output, errors,
                   held, historyVars>>

StopWaits ==
    /\ app = "drain" /\ "app" \notin asleep /\ Unlocked /\ ~QueuesEmpty
    /\ asleep' = asleep \cup {"app"}
    /\ UNCHANGED <<config, inputQueue, processQueue, stop, convFree, modelVars, contextVars,
                   streamer, input, output, app, errors, held, historyVars>>

\* Faulty variant of StopThreads: the threads that wait are not told.
StopSilently ==
    /\ app = "drain" /\ "app" \notin asleep /\ Unlocked /\ QueuesEmpty
    /\ stop' = TRUE
    /\ app' = "context"
    /\ UNCHANGED <<config, inputQueue, processQueue, convFree, asleep, modelVars, contextVars,
                   streamer, input, output, errors, held, historyVars>>

StopThreads ==
    /\ app = "drain" /\ "app" \notin asleep /\ Unlocked /\ QueuesEmpty
    /\ stop' = TRUE
    /\ Broadcast
    /\ app' = "context"
    /\ UNCHANGED <<config, inputQueue, processQueue, convFree, modelVars, contextVars, streamer,
                   input, output, errors, held, historyVars>>

\* DsNvInferImpl::stop: the model thread is joined, the element lets go of its context.
StopContext ==
    /\ app = "context" /\ loader = "idle"
    /\ current' = 0
    /\ app' = "join"
    /\ UNCHANGED <<config, elementVars, next, loader, models, contextVars, streamer, input,
                   output, errors, held, historyVars>>

Joined ==
    /\ app = "join" /\ output.at = "ended" /\ (HasInputThread => input.at = "ended")
    /\ app' = "stopped"
    /\ UNCHANGED <<config, elementVars, modelVars, contextVars, streamer, input, output, errors,
                   held, historyVars>>

--------------------------------------------------------------------------------
Init ==
    /\ config \in Configs
    /\ inputQueue = <<>> /\ processQueue = <<>> /\ stop = FALSE
    /\ convFree = ConvPool /\ asleep = {}
    /\ current = 1 /\ next = 0 /\ loader = "idle" /\ models = 1
    /\ free = [c \in Contexts |-> config.out] /\ size = free
    /\ queued = [c \in Contexts |-> <<>>]
    /\ streamer = IdleStreamer
    /\ input = [at |-> IF HasInputThread THEN "lock" ELSE "none", batch |-> NoBatch, ctx |-> 0]
    /\ output = [at |-> "lock", batch |-> NoBatch, ctx |-> 0, got |-> NoBatch]
    /\ app = "play" /\ errors = 0 /\ held = {} /\ items = <<>> /\ gone = {} /\ left = <<>>

StreamerStep ==
    \/ Acquire \/ PushBatch \/ ConvertFails \/ QueueTensor \/ PushTensor \/ PushBuffer
    \/ PushAtOnce \/ FlushWaits \/ Flushed

InputStep ==
    InputEnds \/ InputWaits \/ InputForwards \/ InputTakes \/ InputQueues \/ InputMoves

OutputStep ==
    \/ OutputEnds \/ OutputWaits \/ OutputSkips \/ OutputTakes \/ OutputPushes
    \/ OutputContext \/ OutputDequeues \/ OutputAttaches

AppStep == StopWaits \/ StopThreads \/ StopContext \/ Joined

Next ==
    \/ \E parts \in config.shapes : SubmitBuffer(parts)
    \/ SendEvent \/ StreamerStep \/ InputStep \/ OutputStep
    \/ LoadModel \/ ModelLoaded
    \/ \E n \in DOMAIN items : Released(n)
    \/ Stop \/ AppStep

Spec == Init /\ [][Next]_vars

\* Every thread goes on and gets the lock when it is often enough free, the context infers,
\* models are loaded or not, and downstream lets go of the buffers it got.
FairSpec ==
    /\ Spec
    /\ SF_vars(StreamerStep) /\ SF_vars(InputStep) /\ SF_vars(OutputStep)
    /\ SF_vars(AppStep) /\ SF_vars(ModelLoaded)
    /\ WF_vars(\E n \in DOMAIN items : Released(n))

--------------------------------------------------------------------------------
(* Properties *)

\* Queues, pools and threads are what the code declares them to be.
TypeOK ==
    /\ config \in Configs
    /\ inputQueue \in Seq(BatchType) /\ processQueue \in Seq(BatchType) /\ stop \in BOOLEAN
    /\ convFree \in 0 .. ConvPool /\ asleep \subseteq {"streamer", "input", "output", "app"}
    /\ {current, next} \subseteq {0} \cup Contexts /\ models \in Contexts
    /\ loader \in {"idle", "loading"}
    /\ size \in [Contexts -> Nat] /\ \A c \in Contexts : free[c] \in 0 .. size[c]
    /\ queued \in [Contexts -> Seq(BatchType)]
    /\ streamer.at \in {"idle", "part", "convert", "queued", "flush"}
    /\ input.at \in {"lock", "relock", "loop", "queue", "ended", "none"}
    /\ output.at \in {"lock", "loop", "push", "infer", "dequeue", "attach", "ended", "crashed"}
    /\ {input.batch, output.batch, output.got} \subseteq BatchType \cup {NoBatch}
    /\ app \in {"play", "drain", "context", "join", "stopped"}
    /\ items \in Seq({"buffer", "event"}) /\ gone \subseteq DOMAIN items

\* Batches in the queues and in the hands of the threads.
Inside == Range(inputQueue) \cup Range(processQueue)
          \cup ({input.batch, output.batch} \ {NoBatch})

\* A buffer goes downstream only after every batch of it, so with its results attached (the
\* comment of submit_input_buffer on the push_buffer batch); asynchronous mode does not wait.
ResultsComeFirst ==
    config.mode # "async" =>
        \A n \in Range(left) : \A b \in Inside : b.n = n => b = output.batch /\ b.kind = "push"

\* The results the output loop attaches are those of the batch it took from process_queue:
\* the queues of the element and of the context stay in step, also after failures.
OutputsMatch == output.at = "attach" => output.got = output.batch

\* A context is replaced only when nothing is queued in it and no thread is using it.
ReplacedWhenIdle ==
    current # 0 => \A c \in Contexts \ {current} :
        /\ queued[c] = <<>>
        /\ input.at = "queue" => input.ctx # c
        /\ output.at \in {"dequeue", "attach"} => output.ctx # c

\* Every output buffer is in one place: free, queued, in the hands of the output loop or kept
\* by metadata; none is lost when a batch fails.
OutputBuffersAccounted ==
    \A c \in Contexts :
        size[c] = free[c] + Len(queued[c]) + Cardinality({h \in held : h[3] = c})
                  + (IF output.at = "attach" /\ output.ctx = c THEN 1 ELSE 0)

\* Buffers, queues and threads are what the code declares, and no output buffer is lost.
BuffersAccounted == TypeOK /\ OutputBuffersAccounted

Stage == INSTANCE OrderedStage WITH overtaking <- {}, entered <- Len(items)

\* Buffers and events leave once and in the order in which they came.
IsOrderedStage == Stage!Spec

\* Every conversion buffer was lost to a failed conversion or preprocessing.
Starved == convFree = 0 /\ Inside = {} /\ streamer.at = "part"

\* Buffers and events go downstream and the queues get empty, again and again, unless the
\* conversion buffers were lost or the element is stopped.
ItemsLeave ==
    []<>(\/ Starved \/ app # "play"
         \/ (\A n \in DOMAIN items : n \in Range(left) \cup gone) /\ Inside = {})

\* Once it was begun, a stop ends.
StopEnds == app = "drain" ~> app = "stopped"

\* The replacement of a context ends (the comment of flushDataUnlock).
ReplacementEnds == streamer.model # 0 ~> streamer.model = 0
================================================================================
