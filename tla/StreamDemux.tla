------------------------------- MODULE StreamDemux --------------------------------
(***************************************************************************)
(* The stream demuxer (gst-plugins/gst-nvmultistream2/gstnvstreamdemux.cpp)*)
(* which takes the batches of the muxer apart again: the frames and events *)
(* of stream s go to the source pad src_s.                                 *)
(*                                                                         *)
(* Threads.  The streaming thread delivers batches and events; an          *)
(* application thread requests and releases source pads.  ctx_lock guards  *)
(* the tables, but the streaming thread pushes to the pad it has found     *)
(* after it let go of the lock, and often looks without it.                *)
(*                                                                         *)
(* A pad is its number in the order of requests, 0 is NULL; what goes out  *)
(* by a pad is <<kind, s, n>>: an event of stream s, or its n-th frame.    *)
(***************************************************************************)
EXTENDS Integers, Sequences, FiniteSets, SequencesExt

CONSTANTS
    Streams,    \* the indices of streams and of source pads
    Configs,    \* the configurations, of which an instance of the demuxer has one
    MaxPads,    \* bound of the model: pads that are ever requested
    MaxFrames,  \* bound of the model: frames of a stream
    MaxBatch,   \* bound of the model: frames of a batch
    MaxErrors   \* bound of the model: pushes that fail

(***************************************************************************)
(* A configuration: isAudio, the streams that are used and the number of   *)
(* frames each may have, and what application and peers may do:            *)
(*   late-request     a first pad may be requested when data have come     *)
(*   request-again    a pad may be requested again after its release       *)
(*   request-twice    a pad may be requested although it exists            *)
(*   release          a pad may be released, at any time                   *)
(*   reopen           a stream may begin again after its EOS               *)
(*   unlinked         a pad may stay without a peer                        *)
(*   push-fails       a peer may answer a frame with GST_FLOW_ERROR        *)
(***************************************************************************)
Capabilities == {"late-request", "request-again", "request-twice", "release", "reopen",
                 "unlinked", "push-fails"}

ASSUME DemuxAssumption ==
    /\ IsFiniteSet(Streams)
    /\ MaxPads \in Nat /\ MaxFrames \in Nat /\ MaxBatch \in Nat /\ MaxErrors \in Nat
    /\ \A c \in Configs :
        /\ c.isAudio \in BOOLEAN /\ c.streams \subseteq Streams
        /\ c.frames \in 0 .. MaxFrames /\ c.env \subseteq Capabilities

VARIABLES
    config,
    \* GstNvStreamDemux
    pad_indexes,            \* the pad of a stream
    pad_stream_start_sent,  \* the streams in the table
    eos_flag,               \* the streams in the table
    sink_caps,              \* whether they are known
    ctx_lock,               \* "free", or "lost": its owner returned without unlocking it
    streamer,               \* [at, s, pad, todo, data] of the streaming thread: the frames
                            \* of the batch to look at, [s, n], and to push, [pad, s, n]
    releasing,              \* the pad in the application's gst_nvstreamdemux_release_pad, or 0
    premature,              \* the pads whose release began without the flag (it is logged)
    \* GStreamer: the pads that were requested
    owner, removed, linked, log,
    \* environment and history
    phase,                  \* how far a stream is that comes from upstream
    updated,                \* the streams whose caps came
    arrived,                \* the number of frames that came of a stream
    left,                   \* the frames that went out, by stream
    gone,                   \* the frames that did not: <<s, n, reason>>
    errors

tableVars == <<pad_indexes, pad_stream_start_sent, eos_flag, sink_caps, ctx_lock>>
padVars == <<owner, removed, linked, log>>
appVars == <<releasing, premature>>
frameVars == <<arrived, left, gone, errors>>
vars == <<config, tableVars, streamer, appVars, padVars, phase, updated, frameVars>>

Allowed(capability) == capability \in config.env
Idle == [at |-> "idle", s |-> 0, pad |-> 0, todo |-> <<>>, data |-> <<>>]
Event(kind, s) == <<kind, s, 0>>

Kinds(p) == {log[p][i][1] : i \in DOMAIN log[p]}

\* After EOS a pad refuses frames until the next STREAM_START.
PadEos(p) ==
    \E i \in DOMAIN log[p] :
        /\ log[p][i][1] = "eos"
        /\ \A j \in i .. Len(log[p]) : log[p][j][1] # "start"

--------------------------------------------------------------------------------
(* The application thread *)

MayRequest(s) ==
    \/ s \in Range(owner) /\ Allowed("request-again")
    \/ s \notin Range(owner) /\ (Allowed("late-request") \/ (phase[s] = "off" /\ ~sink_caps))

\* gst_nvstreamdemux_request_new_pad
RequestPad(s) ==
    /\ releasing = 0 /\ ctx_lock = "free"
    /\ pad_indexes[s] = 0 /\ Len(owner) < MaxPads /\ MayRequest(s)
    /\ owner' = Append(owner, s)
    /\ log' = Append(log, <<>>)
    /\ pad_indexes' = [pad_indexes EXCEPT ![s] = Len(owner')]
    /\ linked' \in {linked \cup {Len(owner')}}
                   \cup (IF Allowed("unlinked") THEN {linked} ELSE {})
    /\ UNCHANGED <<config, pad_stream_start_sent, eos_flag, sink_caps, ctx_lock, streamer,
                   appVars, removed, phase, updated, frameVars>>

\* The pad exists: NULL is returned, with ctx_lock held.
RequestTwice(s) ==
    /\ Allowed("request-twice") /\ releasing = 0 /\ ctx_lock = "free" /\ pad_indexes[s] # 0
    /\ ctx_lock' = "lost"
    /\ UNCHANGED <<config, pad_indexes, pad_stream_start_sent, eos_flag, sink_caps, streamer,
                   appVars, padVars, phase, updated, frameVars>>

\* gst_nvstreamdemux_release_pad looks at the flag without the lock, and only logs when it
\* is not set.
BeginRelease(s) ==
    /\ Allowed("release") /\ releasing = 0 /\ pad_indexes[s] # 0
    /\ releasing' = pad_indexes[s]
    /\ premature' = IF s \in eos_flag THEN premature ELSE premature \cup {pad_indexes[s]}
    /\ UNCHANGED <<config, tableVars, streamer, padVars, phase, updated, frameVars>>

\* The pad goes, with the lock; pad_stream_start_sent keeps the stream.  The application has
\* a reference to the pad, so the streaming thread may still push to it, in vain.
ReleasePad ==
    /\ releasing # 0 /\ ctx_lock = "free"
    /\ removed' = removed \cup {releasing}
    /\ pad_indexes' = [pad_indexes EXCEPT ![owner[releasing]] = 0]
    /\ eos_flag' = eos_flag \ {owner[releasing]}
    /\ releasing' = 0
    /\ UNCHANGED <<config, pad_stream_start_sent, sink_caps, ctx_lock, streamer, premature,
                   owner, linked, log, phase, updated, frameVars>>

--------------------------------------------------------------------------------
(* The streaming thread: batches *)

\* The frames that come when upTo frames of each stream have come.
NewFrames(upTo) ==
    {f \in [s : Streams, n : 1 .. MaxFrames] : f.n \in (arrived[f.s] + 1) .. upTo[f.s]}

\* The frames of a stream are in their order (the muxer's doing).
InOrder(b) == \A i, j \in DOMAIN b : i < j /\ b[i].s = b[j].s => b[i].n < b[j].n

\* A batch comes with some frames of some streams.
Batch(upTo) ==
    /\ streamer.at = "idle"
    /\ \A s \in Streams :
        upTo[s] # arrived[s] =>
            phase[s] = "flowing" /\ upTo[s] > arrived[s] /\ upTo[s] <= config.frames
    /\ arrived' = upTo
    /\ \E b \in SeqOf(NewFrames(upTo), MaxBatch) :
        /\ b # <<>> /\ Range(b) = NewFrames(upTo) /\ InOrder(b)
        /\ streamer' = [Idle EXCEPT !.at = "frame", !.todo = b]
    /\ UNCHANGED <<config, tableVars, appVars, padVars, phase, updated, left, gone, errors>>

\* Whether frames are pushed to a pad.
Wanted(p) ==
    p # 0 /\ p \in linked /\ p \notin removed /\ (config.isAudio \/ "caps" \in Kinds(p))

\* Faulty variant of Skipped: the same frame is looked at again.
NotSkipped == streamer

Skipped == [streamer EXCEPT !.todo = Tail(@)]

\* Faulty variant of Emplaced: the frame goes to the front.
EmplacedFirst(f) == <<f>> \o streamer.data

Emplaced(f) == Append(streamer.data, f)

\* The pad is looked up, with the lock.  A video frame is pushed at once; audio frames are
\* collected first.
FindPad ==
    /\ streamer.at = "frame" /\ streamer.todo # <<>> /\ ctx_lock = "free"
    /\ LET f == Head(streamer.todo) p == pad_indexes[f.s] IN
       IF Wanted(p)
       THEN /\ streamer' = [streamer EXCEPT !.todo = Tail(@),
                               !.data = Emplaced([pad |-> p, s |-> f.s, n |-> f.n]),
                               !.at = IF config.isAudio THEN "frame" ELSE "push"]
            /\ UNCHANGED gone
       ELSE /\ streamer' = Skipped
            /\ gone' = gone \cup {<<f.s, f.n, "unwanted">>}
    /\ UNCHANGED <<config, tableVars, appVars, padVars, phase, updated, arrived, left, errors>>

\* Faulty variant of Collected: audio frames are collected and forgotten.
CollectedForgotten == Idle

Collected == IF streamer.data = <<>> THEN Idle ELSE [streamer EXCEPT !.at = "push"]

PadsFound ==
    /\ streamer.at = "frame" /\ streamer.todo = <<>>
    /\ streamer' = Collected
    /\ UNCHANGED <<config, tableVars, appVars, padVars, phase, updated, frameVars>>

\* The first frame was pushed.
Pushed ==
    [streamer EXCEPT !.data = Tail(@),
                     !.at = IF ~config.isAudio \/ Len(streamer.data) = 1 THEN "frame" ELSE "push"]

PushFrame ==
    /\ streamer.at = "push"
    /\ LET f == Head(streamer.data) IN
       IF f.pad \in removed \/ PadEos(f.pad)
       THEN /\ gone' = gone \cup {<<f.s, f.n, "refused">>}
            /\ UNCHANGED <<log, left>>
       ELSE /\ log' = [log EXCEPT ![f.pad] = Append(@, <<"frame", f.s, f.n>>)]
            /\ left' = [left EXCEPT ![f.s] = Append(@, f.n)]
            /\ UNCHANGED gone
    /\ streamer' = Pushed
    /\ UNCHANGED <<config, tableVars, appVars, owner, removed, linked, phase, updated, arrived,
                   errors>>

\* GST_FLOW_ERROR: the function for audio returns, that for video goes on with the next frame.
AfterError == IF config.isAudio THEN Idle ELSE Pushed

\* The frames of this batch that are not pushed after an error.
Abandoned ==
    IF AfterError # Idle THEN {}
    ELSE {<<f.s, f.n, "abandoned">> :
              f \in Range(Tail(streamer.data)) \cup Range(streamer.todo)}

PushFails ==
    /\ Allowed("push-fails") /\ errors < MaxErrors /\ streamer.at = "push"
    /\ errors' = errors + 1
    /\ gone' = gone \cup {<<streamer.data[1].s, streamer.data[1].n, "refused">>}
                    \cup Abandoned
    /\ streamer' = AfterError
    /\ UNCHANGED <<config, tableVars, appVars, padVars, phase, updated, arrived, left>>

--------------------------------------------------------------------------------
(* The streaming thread: events *)

\* Events go out by pad p: a removed pad takes none, and after EOS a pad takes none but
\* STREAM_START and what follows it.
Out(p, entries) ==
    IF p \in removed \/ (PadEos(p) /\ \A i \in DOMAIN entries : entries[i][1] # "start")
    THEN log
    ELSE [log EXCEPT ![p] = @ \o entries]

\* gst_pad_push_event returns FALSE for STREAM_START only when the pad is flushing, as a
\* removed one is; an error of the peer does not count.
StartTaken(p) == p \notin removed

\* Faulty variant of StartIfNotSent: the announcement is made without looking.
StartAgain(s) == <<Event("start", s)>>

\* send_stream_start_if_not_already_sent: what is pushed, and the stream that is recorded when
\* the push succeeds.
StartIfNotSent(s) == IF s \in pad_stream_start_sent THEN <<>> ELSE <<Event("start", s)>>
Recorded(s, p) == IF StartTaken(p) THEN {s} ELSE {}

\* The CAPS of the batches: for audio they are the caps of every pad.
SinkCaps ==
    /\ streamer.at = "idle" /\ ctx_lock = "free" /\ ~sink_caps
    /\ sink_caps' = TRUE
    /\ IF config.isAudio
       THEN LET known == {s \in Streams : pad_indexes[s] # 0} IN
            /\ log' = [p \in DOMAIN log |->
                          IF p \in removed THEN log[p]
                          ELSE log[p] \o StartIfNotSent(owner[p]) \o <<Event("caps", owner[p])>>]
            /\ pad_stream_start_sent' =
                   pad_stream_start_sent \cup UNION {Recorded(s, pad_indexes[s]) : s \in known}
       ELSE UNCHANGED <<log, pad_stream_start_sent>>
    /\ UNCHANGED <<config, pad_indexes, eos_flag, ctx_lock, streamer, appVars, owner, removed,
                   linked, phase, updated, frameVars>>

\* GST_NVEVENT_UPDATE_CAPS, all of it with the lock.
UpdateCaps(s) ==
    /\ streamer.at = "idle" /\ ctx_lock = "free" /\ sink_caps /\ s \notin updated
    /\ updated' = updated \cup {s}
    /\ LET p == pad_indexes[s] IN
       IF p = 0
       THEN UNCHANGED <<log, pad_stream_start_sent>>
       ELSE /\ log' = Out(p, StartIfNotSent(s) \o <<Event("caps", s)>>)
            /\ pad_stream_start_sent' = pad_stream_start_sent \cup Recorded(s, p)
    /\ UNCHANGED <<config, pad_indexes, eos_flag, sink_caps, ctx_lock, streamer, appVars, owner,
                   removed, linked, phase, frameVars>>

\* GST_NVEVENT_STREAM_START and GST_NVEVENT_STREAM_SEGMENT: the pad is looked up without the
\* lock.  The caps of a stream come before its segment.
ReceiveEvent(s, kind) ==
    /\ streamer.at = "idle"
    /\ \/ kind = "start" /\ (phase[s] = "off" \/ (phase[s] = "ended" /\ Allowed("reopen")))
       \/ kind = "segment" /\ phase[s] = "begun" /\ s \in updated
    /\ phase' = [phase EXCEPT ![s] = IF kind = "start" THEN "begun" ELSE "flowing"]
    /\ streamer' = IF pad_indexes[s] = 0 THEN Idle
                   ELSE [Idle EXCEPT !.at = kind, !.s = s, !.pad = pad_indexes[s]]
    /\ UNCHANGED <<config, tableVars, appVars, padVars, updated, frameVars>>

PushStart ==
    /\ streamer.at = "start"
    /\ log' = Out(streamer.pad, StartIfNotSent(streamer.s))
    /\ pad_stream_start_sent' =
           pad_stream_start_sent \cup Recorded(streamer.s, streamer.pad)
    /\ streamer' = Idle
    /\ UNCHANGED <<config, pad_indexes, eos_flag, sink_caps, ctx_lock, appVars, owner, removed,
                   linked, phase, updated, frameVars>>

\* Faulty variant of Flagged: there is one flag for all streams.
AllFlagged(s) == Streams

Flagged(s) == eos_flag \cup {s}

\* GST_NVEVENT_STREAM_EOS: the flag is set with the lock, the pad looked up without it.
FlagEos(s) ==
    /\ streamer.at = "idle" /\ ctx_lock = "free" /\ phase[s] = "flowing"
    /\ phase' = [phase EXCEPT ![s] = "ended"]
    /\ updated' = IF Allowed("reopen") THEN updated \ {s} ELSE updated
    /\ eos_flag' = Flagged(s)
    /\ streamer' = [Idle EXCEPT !.at = "flagged", !.s = s]
    /\ UNCHANGED <<config, pad_indexes, pad_stream_start_sent, sink_caps, ctx_lock, appVars,
                   padVars, frameVars>>

FindEosPad ==
    /\ streamer.at = "flagged"
    /\ streamer' = IF pad_indexes[streamer.s] = 0 THEN Idle
                   ELSE [streamer EXCEPT !.at = "eos", !.pad = pad_indexes[streamer.s]]
    /\ UNCHANGED <<config, tableVars, appVars, padVars, phase, updated, frameVars>>

\* A segment or EOS is pushed.
PushEvent ==
    /\ streamer.at \in {"segment", "eos"}
    /\ log' = Out(streamer.pad, <<Event(streamer.at, streamer.s)>>)
    /\ streamer' = Idle
    /\ UNCHANGED <<config, tableVars, appVars, owner, removed, linked, phase, updated,
                   frameVars>>

--------------------------------------------------------------------------------
Init ==
    /\ config \in Configs
    /\ pad_indexes = [s \in Streams |-> 0]
    /\ pad_stream_start_sent = {} /\ eos_flag = {} /\ sink_caps = FALSE /\ ctx_lock = "free"
    /\ streamer = Idle /\ releasing = 0 /\ premature = {}
    /\ owner = <<>> /\ removed = {} /\ linked = {} /\ log = <<>>
    /\ phase = [s \in Streams |-> "off"] /\ updated = {}
    /\ arrived = [s \in Streams |-> 0] /\ left = [s \in Streams |-> <<>>]
    /\ gone = {} /\ errors = 0

StreamerStep ==
    FindPad \/ PadsFound \/ PushFrame \/ PushFails \/ PushStart \/ FindEosPad \/ PushEvent

Upstream ==
    \/ SinkCaps
    \/ \E upTo \in [Streams -> 0 .. MaxFrames] : Batch(upTo)
    \/ \E s \in config.streams :
        UpdateCaps(s) \/ ReceiveEvent(s, "start") \/ ReceiveEvent(s, "segment") \/ FlagEos(s)

Application ==
    ReleasePad \/ \E s \in config.streams : RequestPad(s) \/ RequestTwice(s) \/ BeginRelease(s)

Next == StreamerStep \/ Upstream \/ Application

Spec == Init /\ [][Next]_vars

\* The streaming thread goes on.
FairSpec == Spec /\ WF_vars(StreamerStep)

--------------------------------------------------------------------------------
(* Properties *)

Entries == {"start", "caps", "segment", "frame", "eos"} \X Streams \X (0 .. MaxFrames)

\* Tables, pads and the thread are what the code declares them to be.
TypeOK ==
    /\ config \in Configs
    /\ owner \in Seq(Streams) /\ log \in Seq(Seq(Entries)) /\ Len(log) = Len(owner)
    /\ removed \subseteq DOMAIN owner /\ linked \subseteq DOMAIN owner
    /\ releasing \in {0} \cup DOMAIN owner /\ premature \subseteq DOMAIN owner
    /\ \A s \in Streams : pad_indexes[s] = 0 \/ pad_indexes[s] \in DOMAIN owner \ removed
    /\ pad_stream_start_sent \subseteq Streams /\ eos_flag \subseteq Streams
    /\ sink_caps \in BOOLEAN /\ ctx_lock \in {"free", "lost"}
    /\ streamer.at \in {"idle", "frame", "push", "start", "segment", "flagged", "eos"}
    /\ phase \in [Streams -> {"off", "begun", "flowing", "ended"}] /\ updated \subseteq Streams
    /\ arrived \in [Streams -> 0 .. MaxFrames]
    /\ gone \subseteq Streams \X (1 .. MaxFrames) \X {"unwanted", "refused", "abandoned"}

\* Positions of the entries of a kind.
Positions(p, kind) == {i \in DOMAIN log[p] : log[p][i][1] = kind}

\* A pad announces its stream once, whether the caps or STREAM_START come first, and before
\* caps and frames (the comments of set_src_pad_caps).  Only the first pad of a stream is: for
\* one requested again pad_stream_start_sent remembers the pad before.
AnnouncedOnce ==
    \A p \in DOMAIN log :
        /\ Cardinality(Positions(p, "start")) <= 1
        /\ (\A q \in 1 .. (p - 1) : owner[q] # owner[p]) =>
            \A i \in Positions(p, "caps") \cup Positions(p, "frame") :
                \E j \in Positions(p, "start") : j < i

\* A pad that goes with its flag set goes late: its stream has ended, and none of its frames
\* is on the way between lookup and push (release_pad complains of a release without the flag:
\* EOS is not received).  The flag is not taken back when a stream begins again.
QuietReleaseIsLate ==
    ~Allowed("reopen") =>
        \A p \in removed \ premature :
            /\ phase[owner[p]] = "ended"
            /\ \A f \in Range(streamer.todo) \cup Range(streamer.data) : f.s # owner[p]

\* The tables are what the code declares, and release_pad may rely on the flags in them.
TablesTrue == TypeOK /\ QuietReleaseIsLate

\* A peer that refuses the frame of its stream costs no other stream its frame (video; the
\* function for audio returns at the first error and the frames it has collected are lost).
OthersUnharmed == ~config.isAudio => \A f \in gone : f[3] # "abandoned"

\* When the streaming thread is back, every frame that came went out or was given up for a
\* reason.
NothingForgotten ==
    streamer.at = "idle" =>
        \A s \in Streams :
            Range(left[s]) \cup {f[2] : f \in {g \in gone : g[1] = s}} = 1 .. arrived[s]

Stage(s) == INSTANCE OrderedStage WITH
                overtaking <- {}, entered <- arrived[s], left <- left[s],
                gone <- {f[2] : f \in {g \in gone : g[1] = s}}

\* The frames of every stream leave once and in the order in which they came.
IsOrderedStage ==
    /\ \A s \in Streams : Stage(s)!Init
    /\ [][\A s \in Streams : Stage(s)!Next \/ UNCHANGED Stage(s)!vars]_frameVars

\* The streaming thread comes back from every batch and event, unless ctx_lock was lost.
StreamGoesOn == streamer.at # "idle" ~> streamer.at = "idle" \/ ctx_lock = "lost"
================================================================================
