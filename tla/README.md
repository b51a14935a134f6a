# A TLA+ development of the DeepStream plugins

This directory holds formal models of the parts of the DeepStream sources that decide whether a
pipeline delivers its streams correctly: the elements that have threads, queues and tables of their
own. They are the *new stream muxer* (`nvstreammux`), which collects buffers of many streams into
batches, the *stream demuxer*, which takes batches apart, the *tracker* and the *inference element*, which
pass batches through worker threads, and the *message broker element* with the Kafka adaptor below it, in
which payloads end. The modules are checked with TLC; theorems about them are proved with TLAPS.

Paths in this document are below `src/sources`.

## 1. The system

### Components

| component | state it keeps | operations | here |
|---|---|---|---|
| `NvStreamMux` (helper, `libs/nvstreammux`) | map `inputs` of sink pads, EOS counter, `all_pads_eos`, `stop_task`, the batch being formed | `add_pad`, `remove_pad`, `add_buffer`, `push_loop`, `push_events`, `copy_batch`, `handle_eos`, `handle_segment`, `handle_stream_reset`, `handle_flush_stop`, `reset_pad`, `handle_stop`, `reset_stop` | `StreamMux` |
| `SinkPad` | queue of buffers and events, `event_indices`, `buffer_count`/`max_buffer_count`, `eos`, idle state | `queue_entry`, `push_events`, `pop_buffer_done`, `wait_if_queue_full`, `reset` | `StreamMux` |
| `BatchPolicy` | sources by priority, where the last batch stopped, number of ended sources, clocks | `form_batch`, `update_with_source`, `get_batch_size`, `check_and_update_defaults` | `BatchPolicy`, `BatchRounds`, `StreamMux` |
| `GstNvStreamMux` (element, `gst-plugins/gst-nvmultistream2`) | `eos_sent`, `sink_pad_caps`, `pad_task_created`, GStreamer pads | chain, sink events, pad request and release, state changes, the source task | `StreamMux` |
| stream demuxer (`gst-nvmultistream2/gstnvstreamdemux.cpp`) | `pad_indexes`, `pad_stream_start_sent`, `eos_flag`, `sink_caps` | batch of video, batch of audio, per-stream events, pad request and release | `StreamDemux` |
| tracker (`gst-nvtracker`) | batches pending, requests per sub-batch, completion queue, conversion buffers, stream maps, user-meta pool | submit, dispatch, process, recover, complete, remove a stream, flush, stop | `TrackerBatches` |
| inference element and context queues (`gst-nvinfer`, `libs/nvdsinfer`) | input and process queue, conversion pool, current and next context, free and filled output buffers | submit, queue, dequeue, attach, push, flush, replace the model, stop | `InferQueues` |
| message broker element (`gst-nvmsgbroker`), Kafka adaptor (`libs/kafka_protocol_adaptor`) | `isRunning`, `pendingCbCount`, connection handle, `NvMsgBrokerHandleMap`, the queue of librdkafka | start, render, callbacks, doWork thread, connect and disconnect, stop | `MsgBroker`, `BrokerHandles`, `NvMsgBroker` |
| time synchronisation of the muxer (`synchronize_buffers_in_pad`, `gstnvtimesynch.cpp`) | time stamps, early and late buffers | drop, hold, pass | not modelled |
| the rest (inference back ends, converters, other adaptors, per-frame plugins, REST, 3D, applications) | mostly none, or data only | computation, parsing, assembling pipelines | not modelled |

`PROJECT.json` lists every part with its sources.

### How the parts of the muxer interact

One *streaming thread per sink pad* calls `gst_nvstreammux_sink_event` and `gst_nvstreammux_chain`:
stream-start, caps, segment, buffers, EOS. One *source task* repeats
`gst_nvstreammux_src_push_loop`, which calls `NvStreamMux::push_loop`: push events, form a batch,
wait if it is not full, push events, copy the batch, push it, push events; after that it sends EOS
if `all_pads_eos` is set. The *application thread* requests and releases pads and changes the state.
They share the helper under its `mutex`, each pad's queue under a mutex of its own, `buffer_count`
under a third one, and the element's flags (`eos_sent`) under none that all of them take.
`push_loop` gives its lock up four times per batch: in its timed wait, around the two inner
`push_events` and around `push_batch`.

### How the other parts interact

* **Demuxer.** One streaming thread delivers batches and events; an application thread requests and releases
  source pads. `ctx_lock` guards the tables, but a pad that was found is pushed to after the lock is
  released, and some look-ups are made without it.
* **Tracker.** The streaming thread submits batches and waits for the pipeline to drain at serialized
  events. Whole batches go through `m_ProcQueue` to one process thread; with sub-batches every sub-batch has a
  queue, a thread and a library context, and the thread that finishes the last part of a batch completes it.
  The output loop pushes completed batches. A stop joins the threads, then destroys the pools.
* **Inference.** The streaming thread converts the parts of a buffer and queues them; the input thread hands
  them to the context; the output loop takes results and pushes buffers. Both loops, the streaming thread and
  a stop wait for *one* condition. A loader thread prepares a new model, which the streaming thread
  puts in place after it drained the queues.
* **Broker.** The streaming thread sends payloads and counts them; the doWork thread sleeps until callbacks are
  pending and polls the adaptor, which runs the callbacks and counts down. With `new-api` several elements share a
  map of connection states written by callbacks of a library.

### What is hard about the muxer

* A batch is decided on (`form_batch`) in one critical section, copied in another and pushed in none.
* Two counters (`pads_got_eos_and_empty_in_q`, `num_sources_eos`) are changed at four places by three
  threads and are both compared with `inputs.size()`, which changes too. They are unsigned.
* `eos_sent` is written by the task from the result of a call that lasts arbitrarily long, and by
  every streaming thread when a stream begins.
* A producer waits once, without a time limit, on a condition only `copy_batch` notifies.
* A stop clears the queues but not the counters that describe them.
* The walk over the sources starts where the last batch stopped, in a collection that grows.

### What is hard about the others

* *Order across threads*: parts of a batch finish in any order in different threads; event markers go through
  one queue while batches go through two; results and buffers meet again in the output loop.
* *Wakeups*: conditions are signalled for one reason and waited for by threads with different ones; some flags
  are written without the lock that the wait is under.
* *Tables that outlive what they describe*: the place of a removed stream, `eos_flag` and `pad_stream_start_sent` of a
  released pad, the status of a connection whose address comes back.
* *Pools*: conversion buffers, output buffers and user meta are lent to threads and to downstream; an error path
  that forgets one stops the element for good.
* *Partial failure*: one sub-batch, one push, one parse fails; the rest of the batch must still finish, once.

The list `hazards` of `PROJECT.json` gives the lines.

### What makes each component correct

* helper and pads: each buffer leaves once, in order, after the events before it; `all_pads_eos` only if all
  pads ended and are empty; the counters count the ended pads; a queue with entries is emptied;
* element: EOS goes downstream after the last buffer and only while all streams are ended; it does go;
  a stop ends; a restart behaves like a start;
* batch policy: a batch takes what is offered up to its size, never more than a source has; urgent
  sources first; no source starves;
* demuxer: a stream's frames leave in order by the pad of the day or are given up for a reason; a pad is announced once,
  first; a pad released with its `eos_flag` set has nothing on the way; the streaming thread always comes back;
* tracker: a batch leaves once, with all its parts; contexts, places and maps agree; everything leaves, also after errors;
* inference: results are attached before the buffer leaves; contexts are replaced when idle; no output buffer is lost;
  everything leaves, so nobody sleeps over work; a stop ends;
* broker: every message ends once; the count of pending callbacks is exact; the worker is awake when there is one; a
  retired handle is not used; the map has the entries of the elements that run, and they find them.

## 2. Modules

| module | what it is |
|---|---|
| `BatchPolicy` | the batch-forming algorithm as constant-level operators: where the walk starts, the walk with its wrap-around, what it takes, where it stops |
| `BatchRounds`, `MCBatchRounds` | state machine around it: sources become known, frames arrive, one batch after the other |
| `StreamMux`, `MCStreamMux` | element and helper: all three kinds of thread |
| `InOrderDelivery` | what the muxer promises, without threads, queues and batches; `StreamMux` implements it |
| `OrderedStage` | what an element with threads of its own promises about items: once, in order but for allowed overtaking, possibly refused or dropped |
| `TrackerBatches`, `MCTrackerBatches` | the tracker; implements `OrderedStage` |
| `InferQueues`, `MCInferQueues` | the inference element and its context; implements `OrderedStage` |
| `MsgBroker` | the broker element with the `NvDsMsgApi` interface, on top of Kafka; implements `OrderedStage` |
| `BrokerHandles` | the broker elements of a process with `new-api` |
| `NvMsgBroker`, `MCNvMsgBroker` | the element: one or the other interface |
| `StreamDemux`, `MCStreamDemux` | the demuxer; implements `OrderedStage` for each stream |
| `BatchPolicyProofs`, `BatchRoundsProofs`, `StreamMuxProofs`, `InferQueuesProofs`, `NvMsgBrokerProofs` (also about `MsgBroker` and `BrokerHandles`), `StreamDemuxProofs`, `TrackerBatchesProofs` | the theorems about the modules they are named after |
| `IntervalRecursion` | lemmas about recursive functions on `0 .. n`, for the batch policy and the tracker |

All models are closed systems: the module contains the element and the least restrictive environment the
configuration allows. What may happen is a constant (`Env` of `StreamMux`, field `env` of a configuration elsewhere),
because what an element guarantees depends on how it is used. Each of `TrackerBatches`, `InferQueues` and
`StreamDemux` takes a *set* of configurations, from which an initial state chooses one.

### StreamMux and the code

A step is what a thread does between two points at which it holds no lock another thread of the
element could be waiting for. So `NvStreamMux::push_loop` is not one action but one per critical section:

| code | actions |
|---|---|
| `gst_nvstreammux_src_push_loop`, up to the call | `TaskTop`, `TaskDrain`, `TaskAllocate` |
| `push_loop`: entry, loop condition, first events | `TaskTest`, `TaskLoopEnds`, `TaskEventsFirst` |
| `push_loop`: `form_batch`, `is_ready_or_due` | `TaskForm` |
| `push_loop`: `cv.wait_for` and what follows | `TaskWakeEmpty`, `TaskEventsWaited`, `TaskDecide` |
| `push_loop`: unlock, `push_events`, lock, `copy_batch` | `TaskEvents`, `TaskCopy` |
| `push_loop`: unlock, `push_batch`, `reset_batch`; the last events | `TaskPush`, `TaskTail` |
| the task's EOS: read `all_pads_eos`, test `eos_sent`, push, write `eos_sent` | `TaskReadEos`, `TaskPushEos`, `TaskSkipEos`, `TaskEosReturned` |
| stream-start: flag, `handle_segment`, `push_events` | `StreamStart`, `QueueStreamStart`, `PushStreamStart` |
| caps: `configure_module`, `handle_caps` with the task start, `eos_sent`, `set_all_pads_eos(false)`, `reset_pad` | `Configure`, `Caps`, `CapsEosNotSent`, `CapsNotAllEos`, `ResetPad` |
| segment and other queued events | `Segment`, `PushSegment` |
| `add_buffer` before and after `wait_if_queue_full` | `AdmitBuffer`, `AddBuffer` |
| `handle_eos`, with `push_events` on an idle pad | `Eos`, `PushEos` |
| flush-stop | `FlushStop`, `FlushStopEosNotSent` |
| pad request: `get_pad`, `add_pad`, `set_all_pads_eos(false)` | `Request`, `AddPad`, `Requested` |
| pad release: deactivate, `remove_pad`, its 100 waits, remove the pad | `Release`, `RemovePad`, `RemovePadTimeout`, `Released` |
| PAUSED to READY: deactivate, `handle_stop`, stop the task, `reset_stop`; READY to PAUSED | `Stop`, `Deactivate`, `HandleStop`, `JoinTask`, `ResetStop`, `Restart` |

`stream[p]`, `task` and `app` are the program counters. A pad's queue (a `std::vector`) is the set of
its entries; an entry has the number it got on arrival, so "first" and "between" are comparisons of
numbers. `pop_buffer_done` wakes a waiting producer: `TaskCopy` moves its thread from `"blocked"` to
`"admitted"`. `wait_if_queue_full` waits only once, so such a thread is not tested again.
The lookups with `operator[]` in `get_pad`, in `copy_batch` and in the state change are modelled with
their side effect, an entry with a null pointer (`inputs[p] = "null"`), which counts in `inputs.size()`.
The counters wrap modulo `Word`. `handle_caps` takes the element's `ctx_lock`, which a pad request and
the deactivating part of a stop hold over several steps: `CtxLockFree` guards `Caps`.

The history variables `arrived` and `delivered` record what came and what went downstream. They
are read by the properties; `arrived` also numbers the entries and bounds a behaviour.

**Abstractions.** Clocks are choices: `timed_out` says whether the duration of min-fps has passed since
the last batch, and whether the minimum distance of max-fps is over is chosen where the code
asks (`TaskDecide`). A frame has one surface. The hash maps `inputs` and `num_sources` may be walked in any order
(`Orderings`, `Copies`). `configure_module` is modelled without a configuration file: all sources
have the same priority and the round-robin method is used; priorities are the subject of `BatchRounds`.
The following state does not appear because no modelled decision reads it:
`num_queues_empty`, `num_sources_idle`, the helper's `state`, `total_buf_available`, frame counts and push statistics.
Not modelled: `sync-inputs`, cascaded EOS, the throttling sleep of `apply_throttle`, a new
configuration at run time, `no-pipeline-eos`, queries, downstream refusing a batch or caps, more than
one surface per frame, and the content of caps and metadata.

One decision of the code may surprise: after a wait, a batch that has a buffer and is past the
distance of max-fps makes `push_loop` *leave* without pushing (nvstreammux.cpp:359-366). The batch
is formed again by the next call and leaves when it is full or when min-fps is due. `TaskDecide`
has this meaning.

**What the environment may do** is the constant `Env`, a set of the capabilities listed in
the module. The runs differ mostly in it: what the muxer guarantees depends on how it is used.
With `Env = {}` every pad is requested before streaming begins and each plays one stream.

### BatchPolicy and BatchRounds

`FormBatch` is `form_batch` with `update_with_source`: the groups of equal priority in
ascending order, the first one entered at the remembered source and wrapped around, the others from their
beginning; sources without a pad stepped over; the walk ends when the batch is full and then
remembers the next source of the same group. `BatchRounds` adds what the policy remembers between two
batches and lets sources become known between them (`check_and_update_defaults`), which changes the groups under the
remembered position. A source that is not in the configuration file gets
`NVSTREAMMUX_DEFAULT_SOURCE_GROUP_PRIORITY`, which is 0 and so the most urgent. If all configured sources have a greater
priority, its group is new and comes first (`Shifted`): the position a round-robin walk remembers
then may lie behind the group that now has its place. `ShiftedBatch` is `form_batch` from such a position: no wrap around,
sources visited and counted twice, and behind the end of the multimap any source at all.
`priority_list`, a list kept sorted, and the ranges of the multimap are `Ascending`: the members of a finite set of numbers, the
lower ones first. For the list the numbers are priorities, for a range the places of insertion.

### TrackerBatches and the code

| code | actions |
|---|---|
| `submitInput`: conversion, `allocateConvBuf`, `addActiveSources`, the queue | `SubmitBatch`, `Convert`, `ConvertFails`, `AlreadyActive`, `Register`, `Enqueue` |
| `dispatchSubBatches`, `mapStreamToSubBatch` | `Dispatch`, with `MapStreams`, `LeastLoaded`, `FreeIndex` |
| sink events, `flushReqs`, `removeSource` and its parts | `SendEvent`, `Flushed`, `PushMarker`, `HandleEvent`, `EventDropped`, `RemovalError` |
| `processBatch` (the thread for whole batches) | `ProcTake`, `ProcLibrary`, `ProcErase`, `ProcComplete`, `ProcReturnBuffer`, `ProcEnds` |
| `processSubBatch` of sub-batch `b` | `SubTest`, `SubWaits`, `SubWoken`, `SubTake`, `SubRemove`, `SubLibrary`, `SubComplete`, `SubRecover`, `SubEnds` |
| the output loop | `OutTest`, `OutWaits`, `OutWokenInVain`, `OutTake`, `OutPush`, `OutSignal` |
| downstream lets go of a batch (user meta comes back) | `Released` |
| stop: `deInit` | `Stop`, `DestroyPool`, `StopSub`, `Joined`, `ClearQueues`, `EndLoop`, `Stopped` |

A condition variable is the value `"waiting"` of a thread's place, and a notify makes it `"woken"`; the step
between the test of a wait and the wait is a step of its own where the flag is written without the lock.
Streams without frames of their own are not announced (`Used`).
`m_PendingBatch` is modelled as it is, a count per sub-batch. The tracker library is a context that keeps the
state of the streams it saw; it may return an error, `MaxErrors` times. Objects and their tracks are data.

### InferQueues and the code

| code | actions |
|---|---|
| `submit_input_buffer`, cutting a buffer into parts | `SubmitBuffer`, `Acquire`, `PushBatch`, `ConvertFails`, `PushBuffer`, `PushAtOnce` |
| input tensors from metadata | `QueueTensor`, `PushTensor` |
| serialized events; `flushDataUnlock` and the replacement of the context | `SendEvent`, `FlushWaits`, `FlushedInput`, `Flushed`, `LoadModel`, `ModelLoaded` |
| `gst_nvinfer_input_queue_loop` with `queueInputBatch` | `InputWaits`, `InputForwards`, `InputTakes`, `InputQueues`, `InputMoves`, `InputEnds` |
| `gst_nvinfer_output_loop` with `dequeueOutputBatch` | `OutputWaits`, `OutputSkips`, `OutputTakes`, `OutputPushes`, `OutputContext`, `OutputDequeues`, `OutputAttaches`, `OutputEnds` |
| metadata release their output buffers | `Released` |
| stop | `Stop`, `StopWaits`, `StopThreads`, `StopContext`, `Joined` |

`process_lock` is held by a loop from one turn to the next (`"loop"`), and `asleep` is the set of threads that wait for
`process_cond`. A context is its number. The choice of the objects that are inferred is data: a part either has
something to infer or only metadata to attach.

### MsgBroker, BrokerHandles and the code

`MsgBroker` has the streaming thread (`Render`, `SendAccepted`, `SendCounted`, `SendRefused`, `Rendered`: the lock is
released by each payload), the doWork thread (`WorkerEnters`, `WorkerTests`, `WorkerSleeps`, `WorkerGoes`, `WorkerReports`,
`WorkerReturns`), librdkafka (`Answered`: it delivers a message, or its time is up) and start and stop (`Start`, `Stop`,
`StopSignals`, `StopJoins`, `FlushReports`, `Disconnect`). librdkafka is not part of the repository: it is modelled from
the calls of `kafka_client.cpp` and marked external. `BrokerHandles` has `Connect`, `Insert`, `Erase`,
`DisconnectHandle` of each element, the two look-ups of its streaming thread (`RenderPayload`, `RenderStatus`) and the
callback of the library (`ConnectCallback`), also external, which may give the address of a closed connection again.
The callback may come at any time at which somebody has the connection, hence also inside `nv_msgbroker_connect`, before
`new_gst_nvmsgbroker_start` has made the entry, and after `new_gst_nvmsgbroker_stop` has erased it, until `nv_msgbroker_disconnect`
returns; that it does not come later is assumed of the library. Who follows the null pointer of a missing entry ends the process (`broken`).
`NvMsgBroker` chooses by the property `new-api`: a step is a step of one of the two, and leaves the other's state alone.

### StreamDemux and the code

| code | actions |
|---|---|
| `gst_nvstreamdemux_request_new_pad` | `RequestPad`, `RequestTwice` |
| `gst_nvstreamdemux_release_pad`: the flag, read without the lock, and the rest | `BeginRelease`, `ReleasePad` |
| `gst_nvstreamdemux_sink_chain_cuda_batch`, `_audio_batch` | `Batch`, `FindPad`, `PadsFound`, `PushFrame`, `PushFails` |
| CAPS of the batches, `GST_NVEVENT_UPDATE_CAPS` | `SinkCaps`, `UpdateCaps` |
| `STREAM_START`, `STREAM_SEGMENT` | `ReceiveEvent`, `PushStart`, `PushEvent` |
| `STREAM_EOS` | `FlagEos`, `FindEosPad`, `PushEvent` |

A pad is its number in the order of requests, so a pad that is requested again is a different pad. `log[p]` is what
went out by pad `p`; the rule that a pad refuses data after EOS is GStreamer's, and so is the one that `gst_pad_push_event` returns
FALSE for STREAM_START only on a pad that flushes, as a released one does (`StartTaken`), so that the stream is then not recorded as announced.
A batch is a sequence of frames, any number of them of one stream (the muxer's `max-same-source-frames`), in
the muxer's order. The streaming thread works through it frame by frame (`todo`), and for audio collects frames with the pads it found
(`data`) before it pushes the first; requests and releases come between any two of these steps.
A pad may be released at any time. `release_pad` complains when the flag is not set and goes on; `premature` records that it did.
Pads that were released are kept, and refuse, as they do while the application holds a reference; where it holds none they may be
freed under the streaming thread (the table holds no reference), which has no outcome to model. There is one
application thread: requests and releases do not overlap each other.

## 3. Runs

Every run ends within four minutes on two workers.

| run | question | bounds |
|---|---|---|
| `mux_delivery` | Does the muxer implement `InOrderDelivery`, is no buffer lost, is EOS sent only when all streams ended? | 2 pads, 6 entries each, with events and flushes |
| `mux_restart` | Do the EOS accounting and the batch survive streams that start again, releases, and a stop at any moment? | 1 pad, 8 entries, one stop |
| `mux_unruly` | What holds when applications and sources keep no order? | 2 pads, 5 entries, fixed batch size, 2 frames per source; late requests, early releases, streams that start again at once, are flushed after EOS, or end without caps |
| `mux_live` | Are queues emptied, is EOS sent, does a waiting producer go on? | 2 pads, 6 entries, fairness |
| `batch_rounds` | Is a batch full, fair, and urgent first? | 3 sources, sizes 0 to 3, both methods; no priorities, a late source that joins the first of two groups, one that founds a group ahead |
| `tracker_batches` | Do batches leave once, complete, and in the order the mode keeps? Do contexts, places and pools agree? Does everything leave? | 6 configurations, 2 to 4 items each, one library error |
| `infer_queues` | Do results come first and to the right batch? Is a context idle when it is replaced? Are buffers kept? Does a stop end? | 4 configurations, 3 or 4 items, 2 models, one failure |
| `msg_broker` | Is the count exact, is the worker awake, does a message end once, does the map describe the elements? | both interfaces; 5 messages, a queue for 2, 2 starts; 2 elements, 2 handles, each connects twice |
| `demux` | Are frames kept and ordered, pads announced, late releases quiet? Does the thread come back? | 6 configurations, 1 or 2 streams, 3 pads, 1 to 3 frames per stream and batches of up to 3, one error |
| `found_tracker_event`, `found_infer_update`, `found_broker_shared` | see below | as the passing run of the same module |

**What the configurations of a run are for.**
The tracker's: whole batches with events, failed conversions and a stop (`WholeBatches`); without surface transform, with
streams that come and go (`Untransformed`); sub-batches filled on demand with more streams than places (`Dynamic`); resets of
a stream some of whose frames have no object (`Resettable`); a stop with user meta in use (`Stoppable`); assigned sub-batches where a
batch lacks one (`Assigned`). Inference's: frames with failures of all kinds, objects with a model loaded meanwhile and a
stop, asynchronous classification, input tensors with little memory. The demuxer's: one stream with three frames in a batch whose pads
come late, go at any time, come again, have no peer or one that fails (`Video`); two streams whose pads go and come again
(`Again`); two with late requests, releases and failures (`Late`); streams that begin again and a doubled
request (`Reopened`); a stream that begins again on renewed pads (`Renewed`); two audio streams with two frames each (`Audio`).

**Why these bounds.** *Muxer*: two pads are what an EOS count, a batch with a rest and an overtaking thread
need; the properties are symmetric in the pads. Six entries are the fewest with which a producer waits:
two buffers above a batch size of one, then a third. Eight leave room for a second stream
after a complete one. `Word = 8` lets a counter that is decremented once too often wrap, as the
32-bit one does. *Tracker*: two sub-batches are the fewest that finish out of order, two items the fewest that overtake, three the
fewest to reuse a place, and a pool of one or two buffers runs empty. *Inference*: one or two output buffers run
out; of two conversion buffers (`INTERNAL_BUF_POOL_SIZE` is 3) a failure leaves one, with which everything must still leave; two models
are one replacement. *Batches*: two sources of one group and a third are the fewest whose groups shift under a position. *Broker*: three messages fill a queue for two, five also cross a restart. *Demuxer*: three pads let a stream be renewed twice,
or two streams once; two frames of a stream in a batch are the fewest that can change places, and a third leaves one to look at while one is pushed.
A capability that multiplies the states is left out of configurations in which another one needs the room. Bounds are in guards, and each is named in the `CONSTANTS` of its module.

Deadlock is checked for `mux_delivery`, `mux_live` and `batch_rounds`, where something always runs. The bounded
environment of the other runs simply ends, or the element is stopped; there the liveness properties say what must not stop.

**Properties that are conjunctions.** `StreamsAgree` of the tracker joins its types with `PlacesAgree`, `ContextsSuffice` and
`StateFollowsAssignment`; `BuffersAccounted` of the inference element joins its types with `OutputBuffersAccounted`; `TablesTrue` of the
demuxer joins its types with `QuietReleaseIsLate`; `MapServesElements` of the broker joins `EntriesInUse` with `NullOnlyInWindows`. The types of
the broker element, `FailedMeansGivenUp` and `OthersUnharmed` are in no passing run: they are proved (section 4).

**Fairness** (`FairSpec` of each module).
*Muxer*: a handler that was entered goes on, as a thread does. The source
task always has a step and takes one: its wait has a time limit. Min-fps passes. The
application finishes a call. EOS that is offered again and again is accepted once; without this
`EosForwarded` would depend on the downstream element.
*Tracker*: weak fairness of each thread, and of downstream, which gives buffers back.
*Inference and broker*: strong fairness of the threads, as each needs a lock that others take and release again and again, and the
mutex lets every waiting thread in some time; weak fairness of downstream's release of buffers, and of librdkafka's answers, which
`message.timeout.ms` bounds. That a *condition* wakes a thread is not assumed: a thread that sleeps has no step.
*Demuxer*: weak fairness of the streaming thread.
Nothing is assumed about sources, applications and the loading of models by users: a stream may fall silent at any time.

### What the runs found

* `found_tracker_event` (`gst-nvtracker/nvtracker_proc.cpp:2145`): `processBatch` erases a batch from `m_PendingBatch` before
  it puts it into `m_CompletionQueue`. A serialized event that waits for `m_PendingBatch` to be empty can queue its
  marker in between, and leaves before the batch. `gstnvtracker.cpp:145` promises the opposite. Sub-batches are not
  affected: `processSubBatch` does both under one lock, and `IsOrderedStage` excepts only whole batches.
* `found_infer_update` (`gst-nvinfer/gstnvinfer_impl.cpp:388`): to replace a context, `flushDataUnlock` puts a marker into
  `input_queue` and waits until it is taken. With input tensors from metadata there is no input thread, so the streaming thread
  waits for ever.
* `found_broker_shared` (`gst-nvmsgbroker/gstnvmsgbroker.cpp:665`): the first of two elements with one shared connection
  that stops deletes the status both use; the other follows the null pointer `operator[]` makes.

### What the models do that no property promises

Some behaviours are in the models, and a reader should know that the properties are worded around them.

* *Muxer, under wider environments than those of the runs.* The task reads `all_pads_eos`, pushes EOS and writes `eos_sent`
  (`gstnvstreammux.cpp:1491-1495`); a stream that starts again in between is undone by the write. `SinkPad::reset` clears the
  queue but not `buffer_count` (`nvstreammux_pads.cpp:121`): after a restart `add_buffer` may wait for room in an empty queue.
  The state change deactivates the pads known by their caps (`gstnvstreammux.cpp:1547`): one whose first caps arrive after
  that is not told, fills its queue and is waited for. `copy_batch` looks pads up with `operator[]` after the lock was given up
  (`nvstreammux.cpp:153`): a removed pad comes back as a null entry, and `inputs.size()` stays too large. A pad released
  *before* its EOS leaves the two EOS counters apart. A stream's *events* may leave before its buffers in the
  batch being pushed, as sink threads push events while `push_batch` holds no lock; `NoEventOvertaken` states the direction that holds.
  The first four are counterexamples of `StreamMux` that no run keeps, with `Word = 8`, `Adaptive`, `BatchSize = 2`, `MaxSame = 1`:
  `EosSentMeansEnded` fails for one pad, 8 entries and `Env = {"reopen-early"}`; `stream[p] = "blocked"` with an empty queue is
  reached for one pad, 8 entries, one stop and `Env = {"stop"}`; with 6 entries and `FairSpec` the same environment violates
  `ProducersProceed`; `inputs[p] = "null"` is reached for two pads, 5 entries and `Env = {"release-early"}`.
* *Batch policy.* After a shift of the groups (`nvstreammux_batch.cpp:473`, `Shifted`), a source can be visited twice: `update_with_source`
  overwrites `num_sources` and adds to `acc_batch` again, so a batch counts as ready with fewer buffers than its size, although
  a comment (`nvstreammux_batch.cpp:411`) relies on one visit per batch; two full batches later the walk reads behind the end of the multimap.
  `TypeOK` and `Exhaustive` except this case; without the exception `batch_rounds` fails after six steps: a batch of one
  fills with `s1`, the late `s3` comes, and the next batch of two is ready with the single frame of `s1`.
* *Tracker.* `deInit` waits for user meta that belongs to batches it has dropped itself; a thread between the test of
  `running` and its wait sleeps through the notify. Such a stop does not end, so no property claims that it does. A
  stream without objects is unknown to `removeSource` and keeps its place.
* *Inference.* A stop finds both queues empty while a thread has the last batch in hand, then drops the context that
  thread is about to use (`"crashed"`). A failed conversion loses its buffer; when all are lost nothing goes on (`Starved`).
* *Broker.* `isRunning` is written and `flowCond` signalled without `flowLock`: a worker between its test and its wait
  is missed (`missed`), and the join does not end. Messages destroyed with their producer stay counted for ever. With `new-api`
  a callback that comes between connecting and inserting (`gstnvmsgbroker.cpp:639-650`) or between erasing and disconnecting (`664-671`)
  follows a null pointer, whether the connection is shared or not; `NullOnlyInWindows` says that it happens nowhere else.
* *Demuxer.* A second request of a pad returns with `ctx_lock` held (`RequestTwice`); a pad that is requested again is
  not announced. `eos_flag` does not say that EOS left by the present pad: it is set before the EOS is pushed, so a release
  without complaint may lose the EOS, and a pad requested just then may get it; a stream that ended without a pad leaves its flag to
  the next one; and when the stream begins again the flag stays. What it does say while streams do not begin again is `QuietReleaseIsLate`.
  An audio pad that fails costs the other streams the frames collected for them (`Abandoned`).

## 4. Proofs

Each theorem holds for all values of the constants under the named assumptions, which TLC evaluates in the runs.
All proof modules follow one scheme: an inductive invariant, one lemma per action or group of actions, and a
last temporal step.

### The muxer (`StreamMuxProofs`, from `StreamMuxAssumption`: finitely many pads, fewer than a counter can count, positive sizes)

* **`TypeCorrect`**: `Spec => []CoreTypeOK`. It is inductive as it stands. What is not routine is that the
  EOS counters stay unsigned although `remove_pad` and `reset_pad` decrement them:
  `WordModulus` gives the range of `%`, and `ResetPad` takes 1 from `num_sources_eos` without `%` only where
  its guard makes it positive.
* **`OrderKept`**: `Spec => []BuffersInOrder`, for *every* `Env`: releases, stops, flushes and streams
  that start again at any moment included. `BuffersInOrder` alone is not inductive. `OrderInv` adds that a batch is in
  flight only while it is pushed (or `TaskCopy` would put younger buffers beside older ones that are
  lost from sight), that no number exceeds `arrived` (so that a new entry is the youngest), and that queues are
  finite (so that "the first *k*" means something). The heart is `FirstBuffersAreFirst`: what `copy_batch` takes is older than what
  it leaves, by comparing the cardinalities of the sets of predecessors. All steps are one of four
  kinds, each with its lemma: entries leave queues (`ShrinkingKeepsOrder`), events go downstream
  (`PushEventsKeepsOrder`), an entry is queued (`EnqueueKeepsOrder`), a batch is copied or pushed (`CopyKeepsOrder`,
  `PushKeepsOrder`). `StreamStepOrder`, `TaskStepOrder` and `AppStepOrder` reduce each action to one of them.
* **`AllKept`**: `Spec => []NothingLost` under `NeverTakenAway`: the application has none of the capabilities
  to release a pad or to stop the element; each of these empties queues. The inductive invariant `CompleteInv`
  says that the application thread is never inside such a call, and that for every pad queue, batch and
  output are finite, pairwise disjoint, and hold the numbers 1 to `arrived` in as many entries. It needs
  `OrderInv`, since `copy_batch` fills an output buffer that must be empty. `MoveKeepsCount` is the counting
  argument for each move.
* **`CountersAgree`**, **`AllEosIsTrue`** (`EosCountersAgree`, `AllPadsEosIsTrue`) under `Orderly`: pads are released only when
  drained, streams start again only after the task has seen their end and are not empty, no flush comes after an EOS, and nothing is
  stopped. `mux_restart` checks both properties with a stop too, for which `PadInv` would have to be weaker. `EosInv` has two
  parts. `PadInv` says of each pad at which points of its stream it has an entry in the map, an EOS, a counted EOS, or
  anything in its queue; `CountInv` that both counters are the number of counted pads (but for the one that `remove_pad` has in hand) and
  that `all_pads_eos` is true. The counters are in different objects, changed under different locks, and
  `reset_pad` looks at one to decide about the other, so neither is inductive alone.
* **`EosRecordTrue`** (`EosSentMeansEnded`) under `EosIsFinal` (events and flushes, no more): `FinalInv` carries the emptiness that the
  task saw with all locks held through the two steps in which it holds none.
* **`MuxDelivers`** (the refinement of `InOrderDelivery`) under `EosIsFinal`: `PushBatch` maps to deliveries, the record of EOS to
  the end; `OrderInv`, `CompleteInv`, `EosInv` and `FinalInv` together justify each.
* **`NeverLeftOver`** (`NoBatchLeftOver`), for every `Env`: `BatchInv` follows the batch through the places of the source task.
* **`EventsNotOvertaken`** (`NoEventOvertaken`) if `MaxSame = 1`, for every `Env`, or under `OneSegment` (each stream is announced once,
  with one segment) for every `MaxSame`. `copy_batch` skips events, so `HeadInv` says why none is passed:
  from `push_events` to `copy_batch` (`TaskEvents`, `TaskCopy`) no event comes to the head of a queue from which a buffer can be
  taken (`HeadFree`): one that arrives behind buffers does not lead, and one that arrives in an empty queue is pushed by its own thread before
  the pad accepts a buffer. So the first buffer is ahead of all events; that further ones are needs `EndsLast`: under `OneSegment` an event
  behind a buffer is the EOS. With `MaxSame = 2` and an event between two waiting buffers the batch takes both.
* **`AllTypesCorrect`** (`TypeOK`), for every `Env`: to `CoreTypeOK` it adds `RestInv`. The sizes and shares of a batch come from
  `FormBatchBounded` (`FormedFits`); they still fit when `copy_batch` uses them, as `batch` is the source task's own (`ShareInv`). `buffer_count` is
  decremented by `pop_buffer_done` without a test; `CountsInv` says that it is never below the number of waiting
  buffers, which holds even after a stop that clears queues and not counts.
* **`CountsBuffers`** (`BufferCountExact`) for every `Env` without `"stop"`: `SinkPad::reset`, which a stop calls, clears the queue but
  not the count.

### The batch policy (`BatchPolicyProofs`)

* **`FormBatchBounded`**: for all groups of sources, positions, offers and sizes, a batch is not larger than its size, no source gives more
  than it offers, only sources with a pad give, and the position for the next batch is that of a source. `FormBatch` is made of recursive functions and of
  `FlattenSeq`. The library's induction takes an operator as a parameter, so `IntervalRecursion` states induction with a set
  (`SetInduction`, by the cardinality of what the set misses) and the existence of a recursive function with the set of the numbers up
  to which one exists (`Recursion`, `RunningJoin`; from them `SumRuns` here). `FlattenedType` and `WalkVisitsPlaces` keep the walk inside the configuration, `FormBatchWalks` turns the
  definition into a relation between walk, running sum and result, and `FillsSlowly` bounds what one visit adds.

### One batch after the other (`BatchRoundsProofs`, from `BatchRoundsAssumption`: finitely many sources, priorities and limits that are natural numbers)

All invariants of `BatchRounds` are proved.

*The groups and the walk.* `AscendingSorts` is the lemma about `Ascending`: the number of lower members numbers a finite set. From
it `GroupsByPriority` and `PlacesHoldSources` get what `Groups` is: every known source has one place, and a more urgent source is in an
earlier group. `FlattenedParts` gives the offset of each sequence in `FlattenSeq`, `TurnMeetsAll` says that one turn modulo `n` meets
each of `n` places once, and together they show that a walk visits every place exactly once (`WalkVisitsEachOnce`).

*The invariant.* `RoundsInv` joins the types with two facts that `TypeOK` does not state: configured sources are known, and a
source without a pad has neither frames nor missed batches. It is inductive because a late source that does not shift the groups joins one
at its end (`NewSourceJoins`), and a batch leaves a place of the groups it was formed from (`ValidBatch`; `ShiftedBatchSound` for shifted groups).

* **`PlaceKept`** (`TypeOK`): the remembered place exists, unless a late source shifted the groups;
* **`UrgentSourcesFirst`** (`UrgentFirst`): with the priority method a walk visits the groups in ascending order (`UrgentWalk`), and until the
  batch is full each source gives all it may (`FillsUntilFull`);
* **`SourcesTakeTurns`** (`EveryoneInTurn`). The bound on missed batches is not inductive by itself, as nothing says why a source that has missed
  many is met soon. `TurnInv` does: the `k`-th source of the *next* walk was left out of at most `n - k` full batches in a row. A full
  batch that ends at place `l` turns the order by `l` (`TurnOn`): those behind move up by `l >= 1` and miss one more, those visited
  gave a frame (`VisitedGives`). A late source comes last in the group; where that is in the turn is the case distinction of `TurnAdd`;
* **`BatchesExhaustive`** (`Exhaustive`): `SumFunction` of the community modules is a recursion over subsets that takes out one chosen member
  after the other. That it exists, and that the order does not matter (`SumExists`, `SumAdds`), are inductions over the cardinality; a
  walk that meets each member once adds up to it (`SumAlong`), for the shares of a batch (`SharesAddUp`) and for the
  offers (`TakesAll`, where `CappedSums` takes out the limit of the size).

### The message broker (`NvMsgBrokerProofs`)

The first part is about `MsgBroker` and uses `BrokerAssumption`. Its invariant `BrokerInv` joins the types, `ThreadsInv` (which places of
worker, renderer and application go together: when the application joins or flushes, the renderer is out; when it flushes,
the worker has ended; and so on), and `PlacesInv`: every message up to `sent` is in exactly one of `wire`, `reports`, the
batch in the worker's hands, `refused`, `lost` and `reported`, and in those sequences once. From `PlacesInv` the counting lemmas give

* **`CountExact`** (`PendingExact`): each step moves one message and changes the counter by as much, the gap between
  `SendAccepted` and `SendCounted` included. That the counter is not negative follows from this;
* **`NeverSleepsOverWork`** (`SleepsWithoutWork`): the test and the increment exclude each other by `flowLock`, and a send
  wakes a worker that sleeps; inductive only with the exact count;
* **`HandleRetiredLast`** (`RetiredHandleUnused`), from `ThreadsInv`;
* **`MessagesEndOnce`** (`IsSink`): the refinement of `OrderedStage`. `Callback` maps to `Leave`, `SendAccepted` and `SendRefused` to
  `Enter`, `Disconnect` to `Drop`, all else to a stutter;
* **`BrokerTypesKept`**: type correctness.

The second part proves what `BrokerHandles` promises, from `HandlesAssumption`. The invariant `HandlesInv` adds to the types that without sharing an open handle
has one user, whose `newConnHandle` it is, that the domain of the map is the set of handles of elements that are "on", and that a
failed streaming thread has a status that was given up. **`MapServesThoseRunning`** (`MapServesElements`) then finds the entry in each look-up of a
streaming thread, and the element of a callback that finds none inside start or stop; the finding is the shared
case. **`EndedOnlyWhenGivenUp`** and **`HandlesTypesKept`** follow too.

The third part composes: `Spec` implies `BrokerSpec` and `HandlesSpec`, since a step of the element is a step of one
and leaves the variables of the other alone. **`TypesKept`**, **`BrokerKeepsItsPromises`** and **`MapDescribesElements`** carry the
theorems over to the specification the run checks.

### The demuxer (`StreamDemuxProofs`, from `DemuxAssumption`)

`FrameInv` is the inductive invariant: types of what frames depend on; `HandsInv`, what the streaming thread has in its
hands at each place (the frames of a stream in their order, those collected before those to look at; for video one collected frame
at most); and `FinishedInv`: the frames of a stream that came are those that left or are gone and those in the
thread's hands, and none is both. `NothingForgotten` says this of an idle thread only and is not inductive.

* **`FramesAccountedFor`** (`NothingForgotten`): a step either takes one frame out of the thread's hands and finishes it
  (`OneFewer`, `FramesFinish`), gives up several (`GivenUp`), moves one from `todo` to `data` (`PadLookedFor`), or starts a
  batch (`BatchComes`).
* **`FramesInOrder`** (`IsOrderedStage`): in the same steps, the frame that leaves is the first of its stream in the thread's hands, so
  by `FinishedInv` every earlier one has left or is gone (`FrameLeaves`), and frames are dropped before they left
  (`FramesDrop`). A batch enters as a whole (`EnterTogether`).
* **`RefusalHarmsNoOther`** (`OthersUnharmed`): only the function for audio abandons frames.
* **`QuietReleaseIsSafe`** (`TablesTrue`), for releases at any time and pads that come again. `TablesInv` joins `FrameInv`, the pad maps (`PadsInv`), types,
  and `FlowInv`: frames in the thread's hands are of streams that flow. `QuietInv` covers the time between the reading of the flag without the
  lock and the release: the stream of a pad that is *being* released without complaint has ended already, and with `FlowInv` no frame of
  it is in any hand, though the thread may have a batch of others.
* **`AnnouncedFirst`** (`AnnouncedOnce`) under `AudioPadsInTime`: with audio no pad is requested late, since only the caps of the
  batches announce audio pads and these come once. `AnnouncedInv` relates each pad's log to the set
  `pad_stream_start_sent` of *streams*, which outlives pads; it is why the property speaks of the first pad of a stream.

They hold for any number of streams, pads, frames, frames of a batch and failures.

### The inference plugin (`InferQueuesProofs`, from `InferAssumption` and `NoBatchAssumption`)

`InferInv` is unconditional: any mode, number of contexts, buffers, batches per buffer and failures. Its idea is the *line*: the batch in the
output loop's hand, `process_queue`, the one in the input loop's hand and `input_queue`, one behind the other, are
the batches in order of arrival (`LineInv`), although each piece is guarded by a lock of its own and every step moves
a batch between two pieces. The parts around it: who has a batch in hand (`HandsInv`); each buffer left, was refused, or has its one
`push_buffer` batch in the line (`LeaveInv`); the context in use has queued exactly the batches of the line that were inferred and not yet
dequeued, in the same order, and the others nothing (`ContextInv`); what metadata keep went before the line (`HeldInv`); no output or
conversion buffer is lost (`PoolInv`, `ConvInv`). `InferStep` has one lemma per part and thread.

* **`AccountsBuffers`** (`BuffersAccounted`), from `PoolInv`: the failed batches are the hard case;
* **`ResultsFirst`** (`ResultsComeFirst`): a buffer that left is older than every batch in the line;
* **`MatchesOutputs`** (`OutputsMatch`): the heads of line and context are the same batch;
* **`ReplacesIdle`** (`ReplacedWhenIdle`): the marker of the flush is the last of the line, so when it is taken the line is empty, and
  with it, by `ContextInv`, the old context;
* **`OrderedInference`** (`IsOrderedStage`): the refinement; a `push_buffer` batch at the head of the line is older than all others.

### The tracker (`TrackerBatchesProofs`, from `TrackerAssumption`)

`TrackerInv` is unconditional: any sub-batch sizes or whole batches, any number of items and errors, streams that come and go, refused
batches, stop. Its core is `CountsInv`: until `deInit` clears `m_PendingBatch`, the entry of an id counts for each sub-batch the
requests its thread still has, queued (`WithId`) or in hand (`InHand`). So the vector that `processSubBatch` finds empty means that no part is
open, also after a refused dispatch has left parts behind under an id that stays in use. Around it: requests with one id are of one batch, which was
not handed over and holds its buffer (`RequestsInv`); the process thread has each batch once (`ProcessorInv`); the batch the streaming
thread is about to queue is nowhere else (`StreamerInv`); what was handed over had arrived (`HandedOverInv`); which phases of stop exclude
which work (`PhasesInv`: the maps are cleared when all threads have ended); free buffers and holders add up (`BuffersInv`).

* **`PartsAreFinishedFirst`** (`PartsFinishedFirst`). For each part of the invariant one lemma says that every step keeps it; `StepOpen`,
  `StepHandedOver` and `StepBuffers` say which steps open a request, hand a batch over or give a buffer back (`Dispatch`; the two
  completions; the two returns), so that each of the others carries the parts over in one leaf.
* **`StreamsDoAgree`** (`StreamsAgree`), from `TrackerInv` and `AgreeInv`. `TrackerAssumption` says of configured sub-batches that each lists no more
  streams than its size, which is the length of the list (`gstnvtracker.cpp:603`). The parts of `AgreeInv`:
  * `AssignmentInv`: a mapped stream is in one sub-batch and has one place there. `mapStreamToSubBatch` keeps this for one stream
    (`MapStreamKeeps`), and by `Recursion` and `SetInduction` the pass over all streams of a batch keeps it, and the assignments made before it
    (`MapStreamsKeeps`). `AssignmentFits`: never more streams than the sub-batch has places;
  * `ContextsInv` looks ahead in the queue of a sub-batch thread: unless the library failed, the streams its context will keep after the first
    `k` requests (`LoadedAfter`) fit in it for every `k`, and after all of them are among those mapped to the sub-batch. Only the present
    content would not be inductive: that a removed stream makes room in time follows from `removeSource` queueing the removal
    before the stream that gets the place has a frame in the queue (`AfterTake`, `AfterQueued`, `AfterRemoval`);
  * `ErrorsInv`: the library is given up only after an error; that a thread finds the entry of its request in `m_PendingBatch` (`RequestKnown`) is
    `CountsInv`; `RestInv`: the remaining types.

### Only model-checked

The tracker's refinement of `OrderedStage` (the other refinements are proved) and everything under fairness: proofs about liveness need ENABLED, which the prover does not handle. The theorems with a hypothesis about `Env` are
model-checked where it fails in a way that matters (`mux_restart`, `mux_unruly`).

## 5. Not modelled, and why

* **In modelled components.** Muxer: `sync-inputs`, cascaded EOS, new configurations at run time, refused caps (`handle_caps`
  then returns with `ctx_lock` held). Tracker: the library itself (not in the repository), contents of objects, past frames
  and re-identification data. Inference: the choice of objects and their history, restart of the element. Broker: the synchronous mode
  and subscription; when `libnvds_msgbroker` calls back is not in the repository. Demuxer: queries, the content of caps,
  peers that call back into the element.
* **Races on containers.** `m_ObjectIdOffsetMap` of the tracker and `NvMsgBrokerHandleMap` of the broker are read in one thread
  while another inserts, with no common lock. There is no outcome to enumerate; accesses are modelled as atomic.
* **Per-frame plugins** (preprocess, postprocess, analytics, osd, dewarper, templates): transformations of pixels and
  metadata. The preprocess plugin repeats the queues of the inference plugin in a simpler form.
* **Back ends, converters, parsers** (TensorRT, Triton, CUDA kernels, schemas, protocol buffers, configuration files): computation on data; the
  buffer queues of `NvDsInferContextImpl` are in `InferQueues`.
* **Other adaptors** (AMQP, Azure, MQTT, Redis): wrappers around client libraries that are not part of the repository.
* **3D framework, REST server, multi-URI source bin, service maker, applications**: not yet; see the plan.

Most of the repository's lines are of the last four kinds, generated code and sample applications, so the lines the
models stand for are a small share of all its lines, though they are most of the concurrent code of the modelled elements.

## 6. Plan

1. `TimeSync`: `synchronize_buffers_in_pad` and `gstnvtimesynch.cpp`: early, on time, late; the minimum early duration;
2. `PadQueue`: vector and `event_indices` of a `SinkPad`, shown to implement the set of numbered entries of `StreamMux`
   (`adjust_event_indices` is easy to get wrong);
3. in `StreamMux`: cascaded EOS, refused caps, a new configuration at run time;
4. multi-URI source bin: sources added and removed by REST requests while their streams start and end;
5. the object history of the inference plugin, with asynchronous results that outlive their objects;
6. the synchronous send and the subscription of the Kafka adaptor, other adaptors in the same terms;
7. theorems: the refinement of the tracker.
