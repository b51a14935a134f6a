-------------------------------- MODULE MsgBroker --------------------------------
(***************************************************************************)
(* The message broker element (gst-plugins/gst-nvmsgbroker) with the       *)
(* NvDsMsgApi interface, on top of the Kafka protocol adaptor              *)
(* (libs/kafka_protocol_adaptor).                                          *)
(*                                                                         *)
(* Threads.  The streaming thread renders buffers and sends their payloads *)
(* with nvds_msgapi_send_async; the doWork thread sleeps until callbacks   *)
(* are pending and then polls the adaptor, which runs the callbacks; the   *)
(* application starts and stops the element.  flowLock and flowCond guard  *)
(* pendingCbCount, not isRunning.                                          *)
(*                                                                         *)
(* A message is its number in the order of sending.                        *)
(***************************************************************************)
EXTENDS Integers, Sequences, FiniteSets, Functions

CONSTANTS
    QueueMax,    \* queue.buffering.max.messages of librdkafka
    Payloads,    \* how many payloads a buffer may carry
    MaxMessages, \* bound of the model: messages that are ever sent
    MaxStarts    \* bound of the model: how often the element is started

ASSUME BrokerAssumption ==
    /\ QueueMax \in Nat \ {0} /\ Payloads \subseteq Nat
    /\ MaxMessages \in Nat /\ MaxStarts \in Nat

VARIABLES
    \* GstNvMsgBroker
    isRunning, pendingCbCount,
    connected,  \* connHandle is a connection of the adaptor
    \* librdkafka: the messages sent and not yet answered, and the delivery reports
    wire, reports,
    \* the threads
    worker,     \* [at, batch] of the doWork thread, with the reports a poll has taken
    renderer,   \* [at, todo] of the streaming thread, with the payloads left to send
    app,        \* where the application thread stands
    missed,     \* history: flowCond was signalled while the worker was about to wait
    \* history
    starts, sent, refused, lost, reported

elementVars == <<isRunning, pendingCbCount, connected>>
historyVars == <<starts, sent, refused, lost, reported>>
brokerVars == <<elementVars, wire, reports, worker, renderer, app, missed, historyVars>>

\* The messages that librdkafka still has to report.
Unreported == wire \cup Range(reports) \cup Range(worker.batch)

--------------------------------------------------------------------------------
(* flowLock and flowCond *)

\* Only here does a thread keep flowLock from one step to the next.
Unlocked == worker.at # "test" /\ renderer.at # "accepted"

\* The worker is the only thread that waits for flowCond.
Woken == IF worker.at = "sleep" THEN [worker EXCEPT !.at = "lock"] ELSE worker

\* nvds_msgapi_send_callback, run by dr_msg_cb for the report of message m.
Callback(m) ==
    /\ Unlocked
    /\ pendingCbCount' = pendingCbCount - 1
    /\ reported' = Append(reported, m)

--------------------------------------------------------------------------------
(* The streaming thread: legacy_gst_nvmsgbroker_render *)

Render(payloads) ==
    /\ app = "on" /\ renderer.at = "idle" /\ sent + payloads <= MaxMessages
    /\ renderer' = [at |-> "next", todo |-> payloads]
    /\ UNCHANGED <<elementVars, wire, reports, worker, app, missed, historyVars>>

\* librdkafka has room for one more message.
Room == Cardinality(Unreported) < QueueMax

\* nvds_kafka_client_send hands the message to librdkafka; flowLock is held.
SendAccepted ==
    /\ renderer.at = "next" /\ renderer.todo > 0 /\ Unlocked /\ Room
    /\ sent' = sent + 1
    /\ wire' = wire \cup {sent + 1}
    /\ renderer' = [at |-> "accepted", todo |-> renderer.todo - 1]
    /\ UNCHANGED <<elementVars, reports, worker, app, missed, starts, refused, lost, reported>>

\* Faulty variant of Counted: the message is counted and nobody is told.
CountedSilently == pendingCbCount' = pendingCbCount + 1 /\ UNCHANGED worker

Counted == pendingCbCount' = pendingCbCount + 1 /\ worker' = Woken

\* The message is counted, flowCond signalled and flowLock released.
SendCounted ==
    /\ renderer.at = "accepted"
    /\ Counted
    /\ renderer' = [renderer EXCEPT !.at = "next"]
    /\ UNCHANGED <<isRunning, connected, wire, reports, app, missed, historyVars>>

\* Faulty variant of Refused: the message is counted all the same.
RefusedCounted ==
    /\ refused' = refused \cup {sent + 1}
    /\ pendingCbCount' = pendingCbCount + 1

Refused == refused' = refused \cup {sent + 1} /\ UNCHANGED pendingCbCount

\* The queue is full or the message cannot be scheduled: the rest of the buffer is given up
\* and the stream ends with GST_FLOW_ERROR.
SendRefused ==
    /\ renderer.at = "next" /\ renderer.todo > 0 /\ Unlocked
    /\ sent' = sent + 1
    /\ Refused
    /\ renderer' = [at |-> "failed", todo |-> 0]
    /\ UNCHANGED <<isRunning, connected, wire, reports, worker, app, missed, starts, lost,
                   reported>>

Rendered ==
    /\ renderer.at = "next" /\ renderer.todo = 0
    /\ renderer' = [renderer EXCEPT !.at = "idle"]
    /\ UNCHANGED <<elementVars, wire, reports, worker, app, missed, historyVars>>

--------------------------------------------------------------------------------
(* The doWork thread: gst_nvmsgbroker_do_work *)

WorkerEnters ==
    /\ worker.at = "top"
    /\ worker' = [worker EXCEPT !.at = IF isRunning THEN "lock" ELSE "ended"]
    /\ UNCHANGED <<elementVars, wire, reports, renderer, app, missed, historyVars>>

\* Faulty variant of HasNoWork: one pending callback can wait.
HasLittleWork == isRunning /\ pendingCbCount <= 1

\* Faulty variant of HasNoWork: the end is not looked for.
HasNoCallbacks == pendingCbCount <= 0

HasNoWork == isRunning /\ pendingCbCount <= 0

\* The condition of the wait is tested with flowLock held.
WorkerTests ==
    /\ worker.at = "lock" /\ Unlocked
    /\ worker' = [worker EXCEPT !.at = IF HasNoWork THEN "test" ELSE "go"]
    /\ UNCHANGED <<elementVars, wire, reports, renderer, app, missed, historyVars>>

WorkerSleeps ==
    /\ worker.at = "test"
    /\ worker' = [worker EXCEPT !.at = "sleep"]
    /\ UNCHANGED <<elementVars, wire, reports, renderer, app, missed, historyVars>>

\* Faulty variant of Polled: the reports are taken and stay in the queue.
PolledTwice == worker' = [at |-> "poll", batch |-> reports] /\ UNCHANGED reports

\* rd_kafka_poll takes the reports there are.
Polled == worker' = [at |-> "poll", batch |-> reports] /\ reports' = <<>>

\* Without flowLock: the element is still running, so the adaptor is polled.
WorkerGoes ==
    /\ worker.at = "go"
    /\ IF isRunning
       THEN Polled
       ELSE worker' = [worker EXCEPT !.at = "ended"] /\ UNCHANGED reports
    /\ UNCHANGED <<elementVars, wire, renderer, app, missed, historyVars>>

WorkerReports ==
    /\ worker.at = "poll" /\ worker.batch # <<>>
    /\ Callback(Head(worker.batch))
    /\ worker' = [worker EXCEPT !.batch = Tail(@)]
    /\ UNCHANGED <<isRunning, connected, wire, reports, renderer, app, missed, starts, sent,
                   refused, lost>>

WorkerReturns ==
    /\ worker.at = "poll" /\ worker.batch = <<>>
    /\ worker' = [worker EXCEPT !.at = "top"]
    /\ UNCHANGED <<elementVars, wire, reports, renderer, app, missed, historyVars>>

--------------------------------------------------------------------------------
(* librdkafka: a message is delivered, or its time is up *)

Answered(m) ==
    /\ m \in wire
    /\ wire' = wire \ {m}
    /\ reports' = Append(reports, m)
    /\ UNCHANGED <<elementVars, worker, renderer, app, missed, historyVars>>

--------------------------------------------------------------------------------
(* The application thread *)

\* legacy_gst_nvmsgbroker_start.  pendingCbCount keeps the value it has.
Start ==
    /\ app = "off" /\ starts < MaxStarts
    /\ starts' = starts + 1
    /\ connected' = TRUE /\ isRunning' = TRUE
    /\ worker' = [at |-> "top", batch |-> <<>>]
    /\ renderer' = [at |-> "idle", todo |-> 0]
    /\ app' = "on" /\ missed' = FALSE
    /\ UNCHANGED <<pendingCbCount, wire, reports, sent, refused, lost, reported>>

\* legacy_gst_nvmsgbroker_stop, called when the streaming thread is out of the element:
\* isRunning is changed without flowLock.
Stop ==
    /\ app = "on" /\ renderer.at \in {"idle", "failed"}
    /\ isRunning' = FALSE
    /\ app' = "signal"
    /\ UNCHANGED <<pendingCbCount, connected, wire, reports, worker, renderer, missed,
                   historyVars>>

\* So is flowCond signalled.
StopSignals ==
    /\ app = "signal"
    /\ worker' = Woken
    /\ missed' = (worker.at = "test")
    /\ app' = "join"
    /\ UNCHANGED <<elementVars, wire, reports, renderer, historyVars>>

\* Faulty variant of WorkerJoined: the worker is not waited for.
WorkerDetached == TRUE

\* g_thread_join
WorkerJoined == worker.at = "ended"

StopJoins ==
    /\ app = "join" /\ WorkerJoined
    /\ app' = "flush"
    /\ UNCHANGED <<elementVars, wire, reports, worker, renderer, missed, historyVars>>

\* nvds_kafka_client_finish: rd_kafka_flush runs the callbacks of the reports that come.
FlushReports ==
    /\ app = "flush" /\ reports # <<>>
    /\ Callback(Head(reports))
    /\ reports' = Tail(reports)
    /\ UNCHANGED <<isRunning, connected, wire, worker, renderer, app, missed, starts, sent,
                   refused, lost>>

\* Every message was reported, or the ten seconds are over: the producer is destroyed with
\* what it still has.
Disconnect ==
    /\ app = "flush"
    /\ lost' = lost \cup wire \cup Range(reports)
    /\ wire' = {} /\ reports' = <<>>
    /\ connected' = FALSE
    /\ app' = "off"
    /\ UNCHANGED <<isRunning, pendingCbCount, worker, renderer, missed, starts, sent, refused,
                   reported>>

--------------------------------------------------------------------------------
BrokerInit ==
    /\ isRunning = FALSE /\ pendingCbCount = 0 /\ connected = FALSE
    /\ wire = {} /\ reports = <<>>
    /\ worker = [at |-> "ended", batch |-> <<>>]
    /\ renderer = [at |-> "idle", todo |-> 0]
    /\ app = "off" /\ missed = FALSE
    /\ starts = 0 /\ sent = 0 /\ refused = {} /\ lost = {} /\ reported = <<>>

RendererStep == SendAccepted \/ SendCounted \/ SendRefused \/ Rendered

WorkerStep ==
    \/ WorkerEnters \/ WorkerTests \/ WorkerSleeps \/ WorkerGoes \/ WorkerReports
    \/ WorkerReturns

StopStep == StopSignals \/ StopJoins \/ FlushReports \/ Disconnect

BrokerNext ==
    \/ \E k \in Payloads : Render(k)
    \/ RendererStep \/ WorkerStep
    \/ \E m \in 1 .. MaxMessages : Answered(m)
    \/ Start \/ Stop \/ StopStep

BrokerSpec == BrokerInit /\ [][BrokerNext]_brokerVars

\* Every thread goes on, gets flowLock when it is often enough free, and librdkafka answers
\* every message in the end (message.timeout.ms).
BrokerFairness ==
    /\ SF_brokerVars(RendererStep) /\ SF_brokerVars(WorkerStep) /\ SF_brokerVars(StopStep)
    /\ WF_brokerVars(\E m \in 1 .. MaxMessages : Answered(m))

--------------------------------------------------------------------------------
(* Properties *)

\* Counters, queues and threads are what the code declares them to be.
BrokerTypeOK ==
    /\ {isRunning, connected, missed} \subseteq BOOLEAN /\ pendingCbCount \in Nat
    /\ wire \subseteq 1 .. sent /\ reports \in Seq(1 .. sent)
    /\ worker.at \in {"top", "lock", "test", "sleep", "go", "poll", "ended"}
    /\ worker.batch \in Seq(1 .. sent)
    /\ renderer.at \in {"idle", "next", "accepted", "failed"} /\ renderer.todo \in Nat
    /\ app \in {"off", "on", "signal", "join", "flush"}
    /\ starts \in 0 .. MaxStarts /\ sent \in 0 .. MaxMessages
    /\ refused \subseteq 1 .. sent /\ lost \subseteq 1 .. sent /\ reported \in Seq(1 .. sent)

\* pendingCbCount is the number of messages whose callback did not run yet, those that a
\* disconnected producer will never report included (the callback may come before render has
\* counted the message, and waits for flowLock then).
PendingExact ==
    pendingCbCount + (IF renderer.at = "accepted" THEN 1 ELSE 0) = Cardinality(Unreported \cup lost)

\* The doWork thread sleeps only when no callback is pending, so a report is not left in
\* librdkafka because the one signal for it came too early.
SleepsWithoutWork == worker.at \in {"test", "sleep"} => pendingCbCount <= 0

\* Once a handle is retired through disconnect, it is not used for send or do_work (the
\* comment above nvds_kafka_client_init), and no callback comes to a stopped element.
RetiredHandleUnused ==
    worker.at \in {"go", "poll"} \/ renderer.at = "accepted" \/ Unreported # {} => connected

\* Every message is refused, reported or lost with its producer, and that once.
Sink == INSTANCE OrderedStage WITH
            overtaking <- (1 .. MaxMessages) \X (1 .. MaxMessages),
            entered <- sent, gone <- refused \cup lost, left <- reported

IsSink == Sink!Spec

\* A message that was accepted is reported, unless the element is stopped meanwhile.
AcceptedIsReported ==
    \A m \in 1 .. MaxMessages : m \in wire ~> m \in Range(reported) \/ app # "on"

\* Once it was begun, a stop ends, unless the signal came between the worker's test and its
\* wait.
BrokerStopEnds == app = "signal" ~> app = "off" \/ missed
================================================================================
