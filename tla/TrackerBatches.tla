----------------------------- MODULE TrackerBatches -----------------------------
(***************************************************************************)
(* The tracker element (gst-plugins/gst-nvtracker): NvTrackerProc and the  *)
(* GStreamer element around it.                                            *)
(*                                                                         *)
(* Threads.  The streaming thread delivers batches and serialized events.  *)
(* Either one process thread calls the tracker library for whole batches,  *)
(* or each batch is cut into sub-batches and every sub-batch has a thread  *)
(* and a library context of its own.  The output loop pushes the batches   *)
(* that are done, and an application thread stops the element.             *)
(*                                                                         *)
(* An item (a batch or an event) is its number in the order of arrival.    *)
(* A frame is represented by its stream (SurfaceStreamId; one surface per  *)
(* frame), a batch by the list queueFrames makes of it.                    *)
(***************************************************************************)
EXTENDS Integers, Sequences, FiniteSets, SequencesExt

CONSTANTS
    Streams,    \* the streams that may show up, as numbers: maps are in that order
    Configs,    \* the configurations, of which an instance of the element has one
    MaxErrors,  \* bound of the model: errors the tracker library may return
    NoItem      \* no batch, no event

(***************************************************************************)
(* A configuration:                                                        *)
(*   sizes     the sub-batch sizes, <<>> for whole batches                 *)
(*   fixed     <<>>, or the streams assigned to each sub-batch             *)
(*   pool      conversion buffers (MAX_BUFFER_POOL_SIZE), 0: no transform  *)
(*   misc      user-meta-pool-size, 0: no past frames or reid tensors      *)
(*   trials    subBatchErrRecoveryTrialCnt                                 *)
(*   initial   the streams connected at the start                          *)
(*   lists     the shapes of batches that come: lists of sets of streams   *)
(*   items     bound of the model: batches and events that may arrive      *)
(*   env       what may happen:                                            *)
(*     delete         streams come and go (PAD_ADDED, PAD_DELETED)         *)
(*     reset          STREAM_RESET with NewIdAfterStreamReset              *)
(*     eos            STREAM_EOS with FromZeroAfterEOS                     *)
(*     no-objects     a stream may have no object in any frame             *)
(*     convert-fails  the surface transform may fail                       *)
(*     stop           the element may be stopped                           *)
(***************************************************************************)
Capabilities == {"delete", "reset", "eos", "no-objects", "convert-fails", "stop"}

ASSUME TrackerAssumption ==
    /\ Streams \subseteq Nat /\ IsFiniteSet(Streams)
    /\ MaxErrors \in Nat /\ NoItem \notin Nat
    /\ \A c \in Configs :
        /\ c.sizes \in Seq(Nat) /\ c.fixed \in Seq(SUBSET Streams)
        /\ c.pool \in Nat /\ c.misc \in Nat /\ c.trials \in Nat \cup {-1}
        /\ c.initial \subseteq Streams /\ c.lists \subseteq Seq(SUBSET Streams)
        /\ c.items \in Nat /\ c.env \subseteq Capabilities
        /\ c.fixed # <<>> =>
               /\ DOMAIN c.fixed = DOMAIN c.sizes
               /\ \A b \in DOMAIN c.sizes : Cardinality(c.fixed[b]) <= c.sizes[b]

VARIABLES
    config,
    \* NvTrackerProc
    running,       \* m_Running
    libError,      \* m_TrackerLibError
    freeBufs,      \* the conversion buffers in ConvBufManager::m_FreeQueue
    procQueue,     \* m_ProcQueue
    pending,       \* m_PendingBatch: per batch id, how often each sub-batch is in its vector
    nextId,        \* m_BatchId
    completions,   \* m_CompletionQueue: batches, and NoItem for an event marker
    reqQueue,      \* DispatchInfo::reqQueue, by sub-batch
    subRunning,    \* DispatchInfo::running, by sub-batch
    offsets,       \* the keys of m_ObjectIdOffsetMap
    subBatchOf,    \* m_SsidSubBatchMap
    slots,         \* m_SubBatchAllocationMap: per sub-batch, from seq index to stream
    miscOut,       \* the user-meta buffers that are out: <<context, batch>>
    \* GstNvTracker
    looping,       \* nvtracker->running
    \* the tracker library
    lib,           \* the streams each context keeps state of; context 0 is for whole batches
    errors,        \* how many errors it returned
    \* the threads
    streamer,      \* where the streaming thread stands
    processor,     \* [at, n, id] of the process thread
    worker,        \* [at, req, trials, failed] of each sub-batch thread
    output,        \* [at, n] of the output loop
    app,           \* where the application thread stands
    \* the environment and history
    active,        \* the streams that are connected
    items,         \* what arrived: batches and events
    holders,       \* the batches that hold a conversion buffer
    gone,          \* the items that were refused or dropped
    left           \* the items that went downstream, in order

procVars == <<running, libError, freeBufs, procQueue, nextId, offsets, miscOut>>
dispatchVars == <<reqQueue, subRunning, subBatchOf, slots>>
libVars == <<lib, errors>>
threadVars == <<streamer, processor, worker, output, app>>
historyVars == <<active, items, holders, gone, left>>
vars == <<config, procVars, pending, completions, dispatchVars, looping, libVars,
          threadVars, historyVars>>

Whole == config.sizes = <<>>
Subs == DOMAIN config.sizes
Current == Len(items)        \* the item the streaming thread is busy with
Allowed(capability) == capability \in config.env

Request == [kind : {"batch", "remove"}, n : Nat, id : Nat, frames : SUBSET Streams]

\* The map f with an entry for x.
Entered(f, x, v) == [y \in DOMAIN f \cup {x} |-> IF y = x THEN v ELSE f[y]]

\* The members of a set of numbers, in ascending order.
Ascending(S) ==
    [j \in 1 .. Cardinality(S) |-> CHOOSE k \in S : Cardinality({i \in S : i < k}) = j - 1]

--------------------------------------------------------------------------------
(* The assignment of streams to sub-batches *)

\* The sub-batches that have a free place.
WithRoom(alloc) == {b \in Subs : Cardinality(DOMAIN alloc[b]) < config.sizes[b]}

\* The search with growing sbSizeCnt finds the least loaded one, the first of several.
LeastLoaded(alloc) ==
    CHOOSE b \in WithRoom(alloc) : \A c \in WithRoom(alloc) :
        LET load(d) == Cardinality(DOMAIN alloc[d])
        IN load(b) < load(c) \/ (load(b) = load(c) /\ b <= c)

FreeIndex(alloc, b) ==
    CHOOSE i \in 0 .. (config.sizes[b] - 1) :
        /\ i \notin DOMAIN alloc[b]
        /\ \A j \in 0 .. (i - 1) : j \in DOMAIN alloc[b]

\* mapStreamToSubBatch; once a stream finds no place, no more of the batch is mapped.
MapStream(map, s) ==
    IF ~map.ok \/ s \in DOMAIN map.of THEN map
    ELSE IF config.fixed # <<>>
    THEN IF \E b \in Subs : s \in config.fixed[b]
         THEN [map EXCEPT !.of = Entered(@, s, CHOOSE b \in Subs : s \in config.fixed[b])]
         ELSE [map EXCEPT !.ok = FALSE]
    ELSE IF WithRoom(map.slots) = {}
         THEN [map EXCEPT !.ok = FALSE]
         ELSE LET b == LeastLoaded(map.slots)
                  i == FreeIndex(map.slots, b)
              IN [map EXCEPT !.of = Entered(@, s, b), !.slots[b] = Entered(@, i, s)]

\* The streams of the lists, list by list, each in the order of the map, are mapped: the one
\* mapping that results, as a singleton.
MapStreams(lists) ==
    LET order == FlattenSeq([k \in DOMAIN lists |-> Ascending(lists[k])])
        maps[k \in 0 .. Len(order)] ==
            IF k = 0 THEN {[ok |-> TRUE, of |-> subBatchOf, slots |-> slots]}
            ELSE {MapStream(m, order[k]) : m \in maps[k - 1]}
    IN  maps[Len(order)]

--------------------------------------------------------------------------------
(* Waking up *)

\* m_CompletionQueueCond is notified; only the output loop waits for it.
NotifyOutput == IF output.at = "waiting" THEN [output EXCEPT !.at = "woken"] ELSE output

\* Faulty variant of NotifyWorkers: only the first of the threads is notified.
NotifyFirst(bs) ==
    [b \in Subs |-> IF b \in bs /\ worker[b].at = "waiting" /\ \A c \in bs : b <= c
                    THEN [worker[b] EXCEPT !.at = "woken"] ELSE worker[b]]

\* The reqQueueCond of the sub-batches bs is notified.
NotifyWorkers(bs) ==
    [b \in Subs |-> IF b \in bs /\ worker[b].at = "waiting"
                    THEN [worker[b] EXCEPT !.at = "woken"] ELSE worker[b]]

--------------------------------------------------------------------------------
(* The streaming thread: batches *)

IdleProcessor == [at |-> "test", n |-> NoItem, id |-> NoItem]
IdleWorker == [at |-> "test", req |-> NoItem, trials |-> 0, failed |-> FALSE]

\* submitInput begins; it refuses at once when the library has failed.
SubmitBatch(lists) ==
    /\ app = "play" /\ streamer = "idle" /\ Len(items) < config.items
    /\ \A k \in DOMAIN lists : lists[k] \subseteq active
    /\ items' = Append(items, [kind |-> "batch", lists |-> lists])
    /\ IF libError
       THEN gone' = gone \cup {Len(items) + 1} /\ UNCHANGED streamer
       ELSE streamer' = (IF config.pool > 0 THEN "convert" ELSE "register") /\ UNCHANGED gone
    /\ UNCHANGED <<config, procVars, pending, completions, dispatchVars, looping, libVars,
                   processor, worker, output, app, active, holders, left>>

\* A conversion buffer is free and the transform begins.
Convert ==
    /\ streamer = "convert" /\ freeBufs > 0
    /\ freeBufs' = freeBufs - 1
    /\ holders' = holders \cup {Current}
    /\ streamer' = "register"
    /\ UNCHANGED <<config, running, libError, procQueue, pending, nextId, completions,
                   dispatchVars, offsets, miscOut, looping, libVars, processor, worker, output,
                   app, active, items, gone, left>>

\* The transform fails and the batch is refused.  The buffer goes back, unless it was the
\* session parameters that were refused: then it is lost.
ConvertFails ==
    /\ Allowed("convert-fails")
    /\ streamer = "convert" /\ freeBufs > 0
    /\ \/ UNCHANGED <<freeBufs, holders>>
       \/ freeBufs' = freeBufs - 1 /\ holders' = holders \cup {Current}
    /\ gone' = gone \cup {Current}
    /\ streamer' = "idle"
    /\ UNCHANGED <<config, running, libError, procQueue, pending, nextId, completions,
                   dispatchVars, offsets, miscOut, looping, libVars, processor, worker, output,
                   app, active, items, left>>

\* The batch id is in use: the batch is refused, the buffer stays with it.
AlreadyActive ==
    /\ streamer = "register" /\ nextId \in DOMAIN pending
    /\ gone' = gone \cup {Current}
    /\ streamer' = "idle"
    /\ UNCHANGED <<config, procVars, pending, completions, dispatchVars, looping, libVars,
                   processor, worker, output, app, active, items, holders, left>>

\* Whole batches: the batch becomes pending with an empty vector.
Register ==
    /\ Whole /\ streamer = "register" /\ nextId \notin DOMAIN pending
    /\ pending' = Entered(pending, nextId, <<>>)
    /\ nextId' = nextId + 1
    /\ streamer' = "queue"
    /\ UNCHANGED <<config, running, libError, freeBufs, procQueue, completions, dispatchVars,
                   offsets, miscOut, looping, libVars, processor, worker, output, app, active,
                   items, holders, gone, left>>

\* ... and is queued for the process thread.
Enqueue ==
    /\ streamer = "queue"
    /\ procQueue' = Append(procQueue, [n |-> Current, id |-> nextId - 1])
    /\ streamer' = "idle"
    /\ UNCHANGED <<config, running, libError, freeBufs, pending, nextId, completions,
                   dispatchVars, offsets, miscOut, looping, libVars, processor, worker, output,
                   app, historyVars>>

\* The requests for sub-batch b: one for each list with frames of it, up to the first list
\* with a stream that found no place.
Requests(map, lists, b) ==
    LET part(k) == {s \in lists[k] : map.of[s] = b}
        placed(k) == \A j \in 1 .. k : lists[j] \subseteq DOMAIN map.of
        ks == Ascending({k \in DOMAIN lists : placed(k) /\ part(k) # {}})
    IN  [j \in DOMAIN ks |->
            [kind |-> "batch", n |-> Current, id |-> nextId, frames |-> part(ks[j])]]

\* dispatchSubBatches, under m_PendingBatchLock from beginning to end.  When a stream finds
\* no place, what was queued stays queued and the id stays in use.
Dispatch ==
    /\ ~Whole /\ streamer = "register" /\ nextId \notin DOMAIN pending
    /\ \E map \in MapStreams(items[Current].lists) :
       \E reqs \in {[b \in Subs |-> Requests(map, items[Current].lists, b)]} :
           /\ subBatchOf' = map.of
           /\ slots' = map.slots
           /\ reqQueue' = [b \in Subs |-> reqQueue[b] \o reqs[b]]
           /\ pending' = Entered(pending, nextId, [b \in Subs |-> Len(reqs[b])])
           /\ worker' = NotifyWorkers({b \in Subs : reqs[b] # <<>>})
           /\ nextId' = IF map.ok THEN nextId + 1 ELSE nextId
           /\ gone' = IF map.ok THEN gone ELSE gone \cup {Current}
    /\ streamer' = "idle"
    /\ UNCHANGED <<config, running, libError, freeBufs, procQueue, completions, subRunning,
                   offsets, miscOut, looping, libVars, processor, output, app, active, items,
                   holders, left>>

--------------------------------------------------------------------------------
(* The streaming thread: serialized events *)

Events ==
    [kind : {"event"}, what : {"other"}, stream : {NoItem}]
    \cup [kind : {"event"}, what : {"pad-added", "pad-deleted", "stream-reset", "stream-eos"},
          stream : Streams]

\* The streams of the batches that may come.
Used == UNION UNION {Range(lists) : lists \in config.lists}

\* An event arrives and flushReqs begins, under eventLock.
SendEvent(e) ==
    /\ app = "play" /\ streamer = "idle" /\ Len(items) < config.items
    /\ \/ e.what = "other"
       \/ e.what = "pad-added" /\ Allowed("delete") /\ e.stream \in Used \ active
       \/ e.what = "pad-deleted" /\ Allowed("delete") /\ e.stream \in active
       \/ e.what = "stream-reset" /\ Allowed("reset") /\ e.stream \in active
       \/ e.what = "stream-eos" /\ Allowed("eos") /\ e.stream \in active
    /\ active' = CASE e.what = "pad-added" -> active \cup {e.stream}
                   [] e.what = "pad-deleted" -> active \ {e.stream}
                   [] OTHER -> active
    /\ items' = Append(items, e)
    /\ streamer' = "flush"
    /\ UNCHANGED <<config, procVars, pending, completions, dispatchVars, looping, libVars,
                   processor, worker, output, app, holders, gone, left>>

\* Nothing is pending any more.
Flushed ==
    /\ streamer = "flush" /\ pending = <<>>
    /\ streamer' = "mark"
    /\ UNCHANGED <<config, procVars, pending, completions, dispatchVars, looping, libVars,
                   processor, worker, output, app, historyVars>>

\* The event marker is queued; the thread then waits for eventCondition.
PushMarker ==
    /\ streamer = "mark"
    /\ completions' = Append(completions, NoItem)
    /\ output' = NotifyOutput
    /\ streamer' = "wait"
    /\ UNCHANGED <<config, procVars, pending, dispatchVars, looping, libVars, processor, worker,
                   app, historyVars>>

\* removeSource for whole batches.
RemoveWhole(s, forget) ==
    /\ lib' = IF s \in offsets THEN [lib EXCEPT ![0] = @ \ {s}] ELSE lib
    /\ offsets' = IF forget THEN offsets \ {s} ELSE offsets
    /\ UNCHANGED <<dispatchVars, worker>>

\* Faulty variant of RemovalRequest: the thread is not told.
NoRequest(b, s) == reqQueue

\* The thread of sub-batch b is to remove stream s from its context.
RemovalRequest(b, s) ==
    [reqQueue EXCEPT ![b] = Append(@, [kind |-> "remove", n |-> 0, id |-> 0, frames |-> {s}])]

\* removeSource for sub-batches: the stream gives up its place and its thread is told.
RemoveFromSub(s, forget) ==
    /\ IF s \in offsets
       THEN LET b == subBatchOf[s]
            IN  /\ subBatchOf' = [t \in DOMAIN subBatchOf \ {s} |-> subBatchOf[t]]
                /\ slots' = [slots EXCEPT ![b] =
                       [i \in {j \in DOMAIN @ : @[j] # s} |-> @[i]]]
                /\ reqQueue' = RemovalRequest(b, s)
                /\ worker' = NotifyWorkers({b})
       ELSE UNCHANGED <<subBatchOf, slots, reqQueue, worker>>
    /\ offsets' = IF forget THEN offsets \ {s} ELSE offsets
    /\ UNCHANGED <<subRunning, lib>>

Removal == {"pad-deleted", "stream-reset", "stream-eos"}

\* The stream has an entry in m_ObjectIdOffsetMap but is in no sub-batch: removeSource fails.
RemovalFails(e) ==
    ~Whole /\ e.what \in Removal /\ e.stream \in offsets \ DOMAIN subBatchOf

\* The marker was seen: the event takes effect and goes downstream.
HandleEvent ==
    /\ streamer = "handle"
    /\ LET e == items[Current]
       IN  /\ ~RemovalFails(e)
           /\ IF e.what \notin Removal THEN UNCHANGED <<lib, offsets, dispatchVars, worker>>
              ELSE IF Whole THEN RemoveWhole(e.stream, e.what # "stream-reset")
              ELSE RemoveFromSub(e.stream, e.what # "stream-reset")
    /\ left' = Append(left, Current)
    /\ streamer' = "idle"
    /\ UNCHANGED <<config, running, libError, freeBufs, procQueue, pending, nextId, completions,
                   miscOut, looping, errors, processor, output, app, active, items, holders, gone>>

\* removeSource fails: the handler returns FALSE and the event goes no further.
EventDropped ==
    /\ streamer = "handle" /\ RemovalFails(items[Current])
    /\ gone' = gone \cup {Current}
    /\ streamer' = "idle"
    /\ UNCHANGED <<config, procVars, pending, completions, dispatchVars, looping, libVars,
                   processor, worker, output, app, active, items, holders, left>>

\* Whole batches: the library fails to remove the stream.
RemovalError ==
    /\ Whole /\ streamer = "handle" /\ errors < MaxErrors
    /\ items[Current].what \in Removal /\ items[Current].stream \in offsets
    /\ errors' = errors + 1
    /\ libError' = TRUE
    /\ gone' = gone \cup {Current}
    /\ streamer' = "idle"
    /\ UNCHANGED <<config, running, freeBufs, procQueue, pending, nextId, completions,
                   dispatchVars, offsets, miscOut, looping, lib, processor, worker, output,
                   app, active, items, holders, left>>

--------------------------------------------------------------------------------
(* Processing: what both kinds of thread do *)

\* A user-meta buffer is taken when one is free; after 50 ms without one the frames are
\* processed without.
MiscTaken(context, n) ==
    IF Cardinality({m \in miscOut : m[1] = context}) < config.misc
    THEN miscOut \cup {<<context, n>>} ELSE miscOut

\* The batch is done with its conversion buffer, if it has one.
Returned == IF config.pool > 0 THEN freeBufs + 1 ELSE freeBufs

\* The streams of fs that have an object in their frames: those are entered in the offset map.
WithObjects(fs) == IF Allowed("no-objects") THEN SUBSET fs ELSE {fs}

--------------------------------------------------------------------------------
(* The process thread, whole batches *)

ProcTake ==
    /\ Whole /\ processor.at = "test" /\ running /\ procQueue # <<>>
    /\ processor' = [at |-> "process", n |-> Head(procQueue).n, id |-> Head(procQueue).id]
    /\ procQueue' = Tail(procQueue)
    /\ UNCHANGED <<config, running, libError, freeBufs, pending, nextId, completions,
                   dispatchVars, offsets, miscOut, looping, libVars, streamer, worker, output,
                   app, historyVars>>

\* The library returns an error that stops all processing.
LibraryFails == errors < MaxErrors /\ errors' = errors + 1 /\ libError' = TRUE

\* The library works on the batch, unless it failed before.  User meta are attached only
\* while it has not failed; it may fail when the meta are fetched, too.
ProcLibrary ==
    /\ processor.at = "process"
    /\ LET fs == UNION Range(items[processor.n].lists)
       IN \/ libError /\ UNCHANGED <<lib, offsets, miscOut, libError, errors>>
          \/ /\ ~libError
             /\ lib' = [lib EXCEPT ![0] = @ \cup fs]
             /\ \E known \in WithObjects(fs) : offsets' = offsets \cup known
             /\ \/ miscOut' = MiscTaken(0, processor.n) /\ UNCHANGED <<libError, errors>>
                \/ LibraryFails /\ UNCHANGED miscOut
          \/ ~libError /\ LibraryFails /\ UNCHANGED <<lib, offsets, miscOut>>
    /\ processor' = [processor EXCEPT !.at = "erase"]
    /\ UNCHANGED <<config, running, freeBufs, procQueue, pending, nextId, completions,
                   dispatchVars, looping, streamer, worker, output, app, historyVars>>

\* The batch is pending no more ...
ProcErase ==
    /\ processor.at = "erase"
    /\ pending' = [i \in DOMAIN pending \ {processor.id} |-> pending[i]]
    /\ processor' = [processor EXCEPT !.at = "complete"]
    /\ UNCHANGED <<config, procVars, completions, dispatchVars, looping, libVars, streamer,
                   worker, output, app, historyVars>>

\* ... and, under another lock, complete.
ProcComplete ==
    /\ processor.at = "complete"
    /\ completions' = Append(completions, processor.n)
    /\ output' = NotifyOutput
    /\ processor' = [processor EXCEPT !.at = "return"]
    /\ UNCHANGED <<config, procVars, pending, dispatchVars, looping, libVars, streamer, worker,
                   app, historyVars>>

ProcReturnBuffer ==
    /\ processor.at = "return"
    /\ freeBufs' = Returned
    /\ holders' = holders \ {processor.n}
    /\ processor' = IdleProcessor
    /\ UNCHANGED <<config, running, libError, procQueue, pending, nextId, completions,
                   dispatchVars, offsets, miscOut, looping, libVars, streamer, worker, output,
                   app, active, items, gone, left>>

ProcEnds ==
    /\ Whole /\ processor.at = "test" /\ ~running
    /\ processor' = [processor EXCEPT !.at = "ended"]
    /\ output' = NotifyOutput
    /\ UNCHANGED <<config, procVars, pending, completions, dispatchVars, looping, libVars,
                   streamer, worker, app, historyVars>>

--------------------------------------------------------------------------------
(* The sub-batch threads *)

\* The loop condition is read without reqQueueLock.
SubTest(b) ==
    /\ worker[b].at = "test"
    /\ worker' = [worker EXCEPT ![b].at = IF subRunning[b] THEN "lock" ELSE "ending"]
    /\ UNCHANGED <<config, procVars, pending, completions, dispatchVars, looping, libVars,
                   streamer, processor, output, app, historyVars>>

SubWaits(b) ==
    /\ worker[b].at = "lock" /\ reqQueue[b] = <<>>
    /\ worker' = [worker EXCEPT ![b].at = "waiting"]
    /\ UNCHANGED <<config, procVars, pending, completions, dispatchVars, looping, libVars,
                   streamer, processor, output, app, historyVars>>

\* The thread was woken and has nothing to do, or is to end.
SubWoken(b) ==
    /\ \/ worker[b].at = "woken"
       \/ worker[b].at = "lock" /\ reqQueue[b] # <<>>
    /\ \/ ~subRunning[b] /\ worker' = [worker EXCEPT ![b].at = "ending"]
       \/ subRunning[b] /\ reqQueue[b] = <<>> /\ worker' = [worker EXCEPT ![b].at = "test"]
    /\ UNCHANGED <<config, procVars, pending, completions, dispatchVars, looping, libVars,
                   streamer, processor, output, app, historyVars>>

SubTake(b) ==
    /\ worker[b].at \in {"lock", "woken"} /\ reqQueue[b] # <<>> /\ subRunning[b]
    /\ worker' = [worker EXCEPT ![b].at = Head(reqQueue[b]).kind,
                                ![b].req = Head(reqQueue[b]), ![b].failed = FALSE]
    /\ reqQueue' = [reqQueue EXCEPT ![b] = Tail(@)]
    /\ UNCHANGED <<config, procVars, pending, completions, subRunning, subBatchOf, slots,
                   looping, libVars, streamer, processor, output, app, historyVars>>

SubRemove(b) ==
    /\ worker[b].at = "remove"
    /\ \/ /\ lib' = [lib EXCEPT ![b] = @ \ worker[b].req.frames]
          /\ UNCHANGED <<libError, errors>>
       \/ /\ errors < MaxErrors
          /\ errors' = errors + 1
          /\ libError' = TRUE
          /\ UNCHANGED lib
    /\ worker' = [worker EXCEPT ![b].at = "test", ![b].req = NoItem]
    /\ UNCHANGED <<config, running, freeBufs, procQueue, pending, nextId, completions,
                   dispatchVars, offsets, miscOut, looping, streamer, processor, output, app,
                   historyVars>>

SubLibrary(b) ==
    /\ worker[b].at = "batch"
    /\ LET fs == worker[b].req.frames
       IN  \/ /\ libError
             /\ worker' = [worker EXCEPT ![b].at = "complete"]
             /\ UNCHANGED <<lib, offsets, miscOut, libError, errors>>
          \/ /\ ~libError
             /\ lib' = [lib EXCEPT ![b] = @ \cup fs]
             /\ \E known \in WithObjects(fs) : offsets' = offsets \cup known
             /\ \/ miscOut' = MiscTaken(b, worker[b].req.n) /\ UNCHANGED <<libError, errors>>
                \/ LibraryFails /\ UNCHANGED miscOut
             /\ worker' = [worker EXCEPT ![b].at = "complete", ![b].trials = 0]
          \/ /\ ~libError /\ errors < MaxErrors
             /\ errors' = errors + 1
             /\ worker' = [worker EXCEPT ![b].at = "complete", ![b].failed = TRUE]
             /\ UNCHANGED <<lib, offsets, miscOut, libError>>
    /\ UNCHANGED <<config, running, freeBufs, procQueue, pending, nextId, completions,
                   dispatchVars, looping, streamer, processor, output, app, historyVars>>

\* Faulty variant of NonePending: the first part that is done ends the batch.
OneDone(counts) == \E c \in Subs : counts[c] = 0

\* The vector of pending sub-batches is empty.
NonePending(counts) == \A c \in Subs : counts[c] = 0

\* The request is complete; the last one returns the buffer and completes the batch.
SubComplete(b) ==
    /\ worker[b].at = "complete"
    /\ LET n == worker[b].req.n
           id == worker[b].req.id
           rest == [pending[id] EXCEPT ![b] = @ - 1]
           known == id \in DOMAIN pending /\ pending[id][b] > 0
           last == known /\ NonePending(rest)
       IN  /\ libError' = (libError \/ ~known)
           /\ pending' = IF last THEN [i \in DOMAIN pending \ {id} |-> pending[i]]
                         ELSE IF known THEN [pending EXCEPT ![id] = rest] ELSE pending
           /\ freeBufs' = IF last THEN Returned ELSE freeBufs
           /\ holders' = IF last THEN holders \ {n} ELSE holders
           /\ completions' = IF last THEN Append(completions, n) ELSE completions
           /\ output' = IF last THEN NotifyOutput ELSE output
    /\ worker' = [worker EXCEPT ![b].at = IF worker[b].failed THEN "recover" ELSE "test",
                                ![b].req = NoItem]
    /\ UNCHANGED <<config, running, procQueue, nextId, dispatchVars, offsets, miscOut, looping,
                   libVars, streamer, processor, app, active, items, gone, left>>

\* After an error the context is created anew, as often as configured.
SubRecover(b) ==
    /\ worker[b].at = "recover"
    /\ IF config.trials = -1 \/ worker[b].trials < config.trials
       THEN /\ lib' = [lib EXCEPT ![b] = {}]
            /\ \/ UNCHANGED <<libError, errors>>
               \/ errors < MaxErrors /\ errors' = errors + 1 /\ libError' = TRUE
            /\ worker' = [worker EXCEPT ![b].at = "test", ![b].trials = @ + 1,
                                        ![b].failed = FALSE]
       ELSE /\ libError' = TRUE
            /\ worker' = [worker EXCEPT ![b].at = "test", ![b].failed = FALSE]
            /\ UNCHANGED libVars
    /\ UNCHANGED <<config, running, freeBufs, procQueue, pending, nextId, completions,
                   dispatchVars, offsets, miscOut, looping, streamer, processor, output, app,
                   historyVars>>

\* The thread's user-meta pool is destroyed when all its buffers are back.
SubEnds(b) ==
    /\ worker[b].at = "ending" /\ \A m \in miscOut : m[1] # b
    /\ worker' = [worker EXCEPT ![b].at = "ended"]
    /\ UNCHANGED <<config, procVars, pending, completions, dispatchVars, looping, libVars,
                   streamer, processor, output, app, historyVars>>

SubStep(b) ==
    \/ SubTest(b) \/ SubWaits(b) \/ SubWoken(b) \/ SubTake(b) \/ SubRemove(b)
    \/ SubLibrary(b) \/ SubComplete(b) \/ SubRecover(b) \/ SubEnds(b)

--------------------------------------------------------------------------------
(* The output loop *)

\* waitForCompletion reads m_Running without the lock under which it then waits.
OutTest ==
    /\ output.at = "test"
    /\ looping' = (looping /\ running)
    /\ output' = [output EXCEPT !.at = IF looping' THEN "lock" ELSE "ended"]
    /\ UNCHANGED <<config, procVars, pending, completions, dispatchVars, libVars, streamer,
                   processor, worker, app, historyVars>>

OutWaits ==
    /\ output.at = "lock" /\ completions = <<>>
    /\ output' = [output EXCEPT !.at = "waiting"]
    /\ UNCHANGED <<config, procVars, pending, completions, dispatchVars, looping, libVars,
                   streamer, processor, worker, app, historyVars>>

OutWokenInVain ==
    /\ output.at = "woken" /\ completions = <<>>
    /\ output' = [output EXCEPT !.at = "test"]
    /\ UNCHANGED <<config, procVars, pending, completions, dispatchVars, looping, libVars,
                   streamer, processor, worker, app, historyVars>>

\* Faulty variant of OutTake: the latest completion is taken first.
OutTakeLast ==
    /\ output.at \in {"lock", "woken"} /\ completions # <<>>
    /\ output' = [at |-> "push", n |-> Last(completions)]
    /\ completions' = Front(completions)
    /\ UNCHANGED <<config, procVars, pending, dispatchVars, looping, libVars, streamer,
                   processor, worker, app, historyVars>>

OutTake ==
    /\ output.at \in {"lock", "woken"} /\ completions # <<>>
    /\ output' = [at |-> "push", n |-> Head(completions)]
    /\ completions' = Tail(completions)
    /\ UNCHANGED <<config, procVars, pending, dispatchVars, looping, libVars, streamer,
                   processor, worker, app, historyVars>>

\* A batch goes downstream, unless the element was stopped meanwhile.
OutPush ==
    /\ output.at = "push" /\ output.n # NoItem
    /\ IF looping THEN left' = Append(left, output.n) /\ UNCHANGED gone
                  ELSE gone' = gone \cup {output.n} /\ UNCHANGED left
    /\ output' = [at |-> "test", n |-> NoItem]
    /\ UNCHANGED <<config, procVars, pending, completions, dispatchVars, looping, libVars,
                   streamer, processor, worker, app, active, items, holders>>

\* A marker: eventCondition is signalled under eventLock, so the streaming thread waits for it.
OutSignal ==
    /\ output.at = "push" /\ output.n = NoItem /\ streamer = "wait"
    /\ streamer' = "handle"
    /\ output' = [at |-> "test", n |-> NoItem]
    /\ UNCHANGED <<config, procVars, pending, completions, dispatchVars, looping, libVars,
                   processor, worker, app, historyVars>>

\* Downstream is done with a batch: its user-meta buffers come back.
Released(n) ==
    /\ n \in Range(left) /\ \E m \in miscOut : m[2] = n
    /\ miscOut' = {m \in miscOut : m[2] # n}
    /\ UNCHANGED <<config, running, libError, freeBufs, procQueue, pending, nextId, completions,
                   dispatchVars, offsets, looping, libVars, threadVars, historyVars>>

--------------------------------------------------------------------------------
(* The application thread stops the element *)

\* GStreamer calls stop when the streaming thread is out of the element.
Stop ==
    /\ Allowed("stop") /\ app = "play" /\ streamer = "idle"
    /\ app' = "drain"
    /\ UNCHANGED <<config, procVars, pending, completions, dispatchVars, looping, libVars,
                   streamer, processor, worker, output, historyVars>>

\* deInit waits until the conversion pool is full, destroys it and clears m_Running.
DestroyPool ==
    /\ app = "drain" /\ freeBufs = config.pool
    /\ running' = FALSE
    /\ app' = (IF Whole THEN "join" ELSE "join-subs")
    /\ UNCHANGED <<config, libError, freeBufs, procQueue, pending, nextId, completions,
                   dispatchVars, offsets, miscOut, looping, libVars, streamer, processor, worker,
                   output, historyVars>>

\* One sub-batch thread after the other is told, without its lock, and joined.
StopSub(b) ==
    /\ app = "join-subs" /\ subRunning[b]
    /\ \A c \in 1 .. (b - 1) : worker[c].at = "ended"
    /\ subRunning' = [subRunning EXCEPT ![b] = FALSE]
    /\ worker' = NotifyWorkers({b})
    /\ UNCHANGED <<config, procVars, pending, completions, reqQueue, subBatchOf, slots, looping,
                   libVars, streamer, processor, output, app, historyVars>>

\* All threads are joined, and with whole batches the user-meta buffers are back.
Joined ==
    /\ \/ app = "join" /\ processor.at = "ended" /\ miscOut = {}
       \/ app = "join-subs" /\ \A b \in Subs : worker[b].at = "ended"
    /\ app' = "clear"
    /\ UNCHANGED <<config, procVars, pending, completions, dispatchVars, looping, libVars,
                   streamer, processor, worker, output, historyVars>>

\* The queues and maps are cleared, what is in them is lost, and the output loop is notified.
ClearQueues ==
    /\ app = "clear"
    /\ gone' = gone \cup ((1 .. Len(items)) \ (Range(left) \cup {output.n}))
    /\ completions' = <<>>
    /\ pending' = <<>>
    /\ output' = NotifyOutput
    /\ slots' = [b \in Subs |-> <<>>]
    /\ subBatchOf' = <<>>
    /\ app' = "join-output"
    /\ UNCHANGED <<config, procVars, reqQueue, subRunning, looping, libVars, streamer, processor,
                   worker, active, items, holders, left>>

EndLoop ==
    /\ app = "join-output" /\ looping
    /\ looping' = FALSE
    /\ UNCHANGED <<config, procVars, pending, completions, dispatchVars, libVars, threadVars,
                   historyVars>>

Stopped ==
    /\ app = "join-output" /\ ~looping /\ output.at = "ended"
    /\ app' = "stopped"
    /\ UNCHANGED <<config, procVars, pending, completions, dispatchVars, looping, libVars,
                   streamer, processor, worker, output, historyVars>>
--------------------------------------------------------------------------------
Init ==
    /\ config \in Configs
    /\ running = TRUE /\ looping = TRUE /\ libError = FALSE
    /\ freeBufs = config.pool
    /\ procQueue = <<>> /\ pending = <<>> /\ nextId = 0 /\ completions = <<>>
    /\ reqQueue = [b \in Subs |-> <<>>]
    /\ subRunning = [b \in Subs |-> TRUE]
    /\ offsets = {} /\ subBatchOf = <<>>
    /\ slots = [b \in Subs |-> <<>>]
    /\ miscOut = {}
    /\ lib = [c \in {0} \cup Subs |-> {}]
    /\ errors = 0
    /\ streamer = "idle" /\ processor = IdleProcessor
    /\ worker = [b \in Subs |-> IdleWorker]
    /\ output = [at |-> "test", n |-> NoItem]
    /\ app = "play"
    /\ active = config.initial /\ items = <<>> /\ holders = {} /\ gone = {} /\ left = <<>>

Submission == Convert \/ ConvertFails \/ AlreadyActive \/ Register \/ Enqueue \/ Dispatch

EventStep == Flushed \/ PushMarker \/ HandleEvent \/ EventDropped \/ RemovalError

ProcStep ==
    ProcTake \/ ProcLibrary \/ ProcErase \/ ProcComplete \/ ProcReturnBuffer \/ ProcEnds

OutStep == OutTest \/ OutWaits \/ OutWokenInVain \/ OutTake \/ OutPush \/ OutSignal

AppStep ==
    DestroyPool \/ (\E b \in Subs : StopSub(b)) \/ Joined \/ ClearQueues \/ EndLoop \/ Stopped

Next ==
    \/ \E lists \in config.lists : SubmitBatch(lists)
    \/ \E e \in Events : SendEvent(e)
    \/ Submission \/ EventStep \/ ProcStep \/ OutStep
    \/ \E b \in Subs : SubStep(b)
    \/ \E n \in DOMAIN items : Released(n)
    \/ Stop \/ AppStep

Spec == Init /\ [][Next]_vars

\* Every thread goes on, the library returns, downstream lets go of the batches it got.
FairSpec ==
    /\ Spec
    /\ WF_vars(Submission \/ EventStep) /\ WF_vars(ProcStep) /\ WF_vars(OutStep)
    /\ \A b \in UNION {DOMAIN c.sizes : c \in Configs} : WF_vars(b \in Subs /\ SubStep(b))
    /\ WF_vars(AppStep \/ \E n \in DOMAIN items : Released(n))

--------------------------------------------------------------------------------
(* Properties *)

Batches == {n \in DOMAIN items : items[n].kind = "batch"}
StreamsOf(n) == UNION Range(items[n].lists)

\* The requests for a batch that no thread has finished.
Open(n) ==
    \/ \E k \in DOMAIN procQueue : procQueue[k].n = n
    \/ processor.at = "process" /\ processor.n = n
    \/ \E b \in Subs :
        \/ \E k \in DOMAIN reqQueue[b] : reqQueue[b][k].n = n
        \/ worker[b].at \in {"batch", "complete"} /\ worker[b].req.n = n

\* Queues, maps, buffers and threads are what the code declares them to be.
TypeOK ==
    /\ config \in Configs
    /\ {running, libError, looping} \subseteq BOOLEAN
    /\ freeBufs \in 0 .. config.pool
    /\ procQueue \in Seq([n : Batches, id : Nat])
    /\ \A i \in DOMAIN pending : i \in Nat /\ pending[i] \in [Subs -> Nat]
    /\ nextId \in Nat
    /\ completions \in Seq(Batches \cup {NoItem})
    /\ reqQueue \in [Subs -> Seq(Request)] /\ subRunning \in [Subs -> BOOLEAN]
    /\ offsets \subseteq Streams
    /\ DOMAIN subBatchOf \subseteq Streams /\ Range(subBatchOf) \subseteq Subs
    /\ miscOut \subseteq ({0} \cup Subs) \X Batches
    /\ lib \in [{0} \cup Subs -> SUBSET Streams]
    /\ streamer \in {"idle", "convert", "register", "queue", "flush", "mark", "wait", "handle"}
    /\ processor.at \in {"test", "process", "erase", "complete", "return", "ended"}
    /\ \A b \in Subs : worker[b].at \in {"test", "lock", "waiting", "woken", "remove", "batch",
                                        "complete", "recover", "ending", "ended"}
    /\ output.at \in {"test", "lock", "waiting", "woken", "push", "ended"}
    /\ active \subseteq Streams /\ holders \subseteq Batches

\* A batch is handed to the output loop only when no thread works on a part of it, and every
\* batch that waits or is worked on holds its conversion buffer; no buffer is lost or doubled
\* (processSubBatch returns the buffer and completes the batch with the last part).
PartsFinishedFirst ==
    /\ \A n \in Batches : Open(n) => n \notin Range(completions) \cup Range(left) \cup {output.n}
    /\ config.pool > 0 =>
        /\ freeBufs + Cardinality(holders) = config.pool
        /\ \A n \in Batches : Open(n) => n \in holders

\* m_SsidSubBatchMap and m_SubBatchAllocationMap agree: a mapped stream has exactly one place,
\* in its sub-batch, a place belongs to a mapped stream, and no place is outside the sub-batch.
PlacesAgree ==
    config.fixed = <<>> => \A b \in Subs :
        /\ DOMAIN slots[b] \subseteq 0 .. (config.sizes[b] - 1)
        /\ \A s \in Streams :
            Cardinality({i \in DOMAIN slots[b] : slots[b][i] = s})
                = IF s \in DOMAIN subBatchOf /\ subBatchOf[s] = b THEN 1 ELSE 0

\* A library context never has to keep more streams than it was created for, although streams
\* come and go: the request to remove a stream is ahead of the frames of the one that follows.
ContextsSuffice ==
    \A b \in Subs : Cardinality(lib[b]) <= config.sizes[b]

\* The state a context keeps of a stream is of one that is assigned to it, or it has a request
\* to remove it: a stream that moved to another sub-batch leaves nothing behind.
StateFollowsAssignment ==
    running /\ errors = 0 => \A b \in Subs : \A s \in lib[b] :
        \/ s \in DOMAIN subBatchOf /\ subBatchOf[s] = b
        \/ worker[b].at = "remove" /\ s \in worker[b].req.frames
        \/ \E k \in DOMAIN reqQueue[b] :
               reqQueue[b][k].kind = "remove" /\ s \in reqQueue[b][k].frames

\* The maps, the places in the sub-batches and the library contexts agree on the streams.
StreamsAgree == TypeOK /\ PlacesAgree /\ ContextsSuffice /\ StateFollowsAssignment

\* The sub-batches a batch is cut into.
Parts(n) == {subBatchOf[s] : s \in StreamsOf(n) \cap DOMAIN subBatchOf}

\* Whole batches: an event may overtake batches.  Sub-batches: a batch may overtake another
\* that has a part in a sub-batch in which the first has none.
MayOvertake(n, m) ==
    IF Whole THEN n \notin Batches /\ m \in Batches
    ELSE n \in Batches /\ m \in Batches /\ ~(Parts(m) \subseteq Parts(n))

Stage == INSTANCE OrderedStage WITH
    overtaking <- {p \in (DOMAIN items) \X (DOMAIN items) : MayOvertake(p[1], p[2])},
    entered <- Len(items)

\* Each item leaves once and in order, as far as the mode keeps the order.
IsOrderedStage == Stage!Spec

\* A batch was refused after it had become pending, or was not registered.
Refused == \E n \in Batches : n \in gone

\* Accepted batches and events do go downstream, whatever the library returns, unless a batch
\* was refused before or the element is stopped: again and again nothing is left inside.
ItemsLeave ==
    []<>(Refused \/ app # "play" \/ \A n \in DOMAIN items : n \in Range(left) \cup gone)

\* A serialized event goes downstream after the batches that arrived before it (the comment
\* of gst_nv_tracker_sink_event: wait for pending buffers to be processed and pushed).
EventsAfterBatches ==
    \A k \in DOMAIN left : left[k] \notin Batches =>
        \A m \in Batches : m < left[k] => m \in gone \cup {left[j] : j \in 1 .. k}
================================================================================
