---------------------------- MODULE NvMsgBrokerProofs ----------------------------
(***************************************************************************)
(* Theorems about the message broker element: first about its two halves,  *)
(* MsgBroker and BrokerHandles, for every number of messages, elements and *)
(* handles, then about the element, which composes them.                   *)
(***************************************************************************)
EXTENDS NvMsgBroker, FiniteSetTheorems, TLAPS

(* The interface of the adaptor *)

\* The states of the doWork thread when n messages were sent.
Workers(n) ==
    [at : {"top", "lock", "test", "sleep", "go", "poll", "ended"}, batch : Seq(1 .. n)]

\* The types, but that pendingCbCount, a signed integer, is not yet known to stay positive.
BrokerTypes ==
    /\ isRunning \in BOOLEAN /\ connected \in BOOLEAN /\ missed \in BOOLEAN
    /\ pendingCbCount \in Int
    /\ wire \subseteq 1 .. sent /\ reports \in Seq(1 .. sent)
    /\ worker \in Workers(sent)
    /\ renderer \in [at : {"idle", "next", "accepted", "failed"}, todo : Nat]
    /\ app \in {"off", "on", "signal", "join", "flush"}
    /\ starts \in 0 .. MaxStarts /\ sent \in Nat /\ sent + renderer.todo <= MaxMessages
    /\ refused \subseteq 1 .. sent /\ lost \subseteq 1 .. sent /\ reported \in Seq(1 .. sent)

\* Where the threads can be at the same time.
ThreadsInv ==
    /\ worker.at # "poll" => worker.batch = <<>>
    /\ app # "on" => renderer.at \in {"idle", "failed"}
    /\ app \in {"flush", "off"} => worker.at = "ended"
    /\ app = "off" => wire = {} /\ reports = <<>>
    /\ connected <=> app # "off"
    /\ ~(renderer.at = "accepted" /\ worker.at = "test")

Distinct(s) == \A i, j \in DOMAIN s : s[i] = s[j] => i = j

\* Every message is in one place.
PlacesInv ==
    /\ Distinct(reports) /\ Distinct(worker.batch)
    /\ wire \cap Range(reports) = {}
    /\ wire \cap Range(worker.batch) = {}
    /\ Range(reports) \cap Range(worker.batch) = {}
    /\ lost \cap Unreported = {}
    /\ refused \cap (lost \cup Unreported) = {}
    /\ Range(reported) \cap (refused \cup lost \cup Unreported) = {}

BrokerInv ==
    /\ BrokerTypes /\ ThreadsInv /\ PlacesInv /\ PendingExact /\ SleepsWithoutWork
    /\ pendingCbCount >= 0

--------------------------------------------------------------------------------
(* Sequences of distinct messages *)

\* The oldest report leaves its queue.
LEMMA HeadLeaves ==
    ASSUME NEW S, NEW s \in Seq(S), s # <<>>, Distinct(s)
    PROVE  /\ Tail(s) \in Seq(S) /\ Distinct(Tail(s))
           /\ Head(s) \in Range(s) /\ Range(Tail(s)) = Range(s) \ {Head(s)}
<1>1. Len(s) \in Nat /\ Len(s) > 0 /\ DOMAIN s = 1 .. Len(s) /\ Head(s) = s[1]
  OBVIOUS
<1>2. /\ Tail(s) \in Seq(S) /\ DOMAIN Tail(s) = 1 .. (Len(s) - 1)
      /\ \A i \in 1 .. (Len(s) - 1) : Tail(s)[i] = s[i + 1]
  BY <1>1
<1>3. Distinct(Tail(s))
  BY <1>1, <1>2 DEF Distinct
<1>4. Head(s) \in Range(s)
  BY <1>1 DEF Range
<1>5. \A x \in Range(Tail(s)) : x \in Range(s) \ {Head(s)}
  BY <1>1, <1>2 DEF Range, Distinct
<1>6. ASSUME NEW x \in Range(s) \ {Head(s)} PROVE x \in Range(Tail(s))
  <2>1. PICK i \in 1 .. Len(s) : s[i] = x
    BY <1>1 DEF Range
  <2>2. i - 1 \in 1 .. (Len(s) - 1)
    BY <1>1, <1>6, <2>1
  <2>3. Tail(s)[i - 1] = x
    BY <1>2, <2>1, <2>2
  <2> QED BY <1>2, <2>2, <2>3 DEF Range
<1> QED BY <1>2, <1>3, <1>4, <1>5, <1>6

\* A message joins a queue it is not in.
LEMMA MessageJoins ==
    ASSUME NEW S, NEW s \in Seq(S), NEW m \in S
    PROVE  /\ Append(s, m) \in Seq(S) /\ Range(Append(s, m)) = Range(s) \cup {m}
           /\ Distinct(s) /\ m \notin Range(s) => Distinct(Append(s, m))
<1>1. /\ Len(s) \in Nat /\ DOMAIN s = 1 .. Len(s)
      /\ Append(s, m) \in Seq(S) /\ DOMAIN Append(s, m) = 1 .. (Len(s) + 1)
      /\ \A i \in 1 .. Len(s) : Append(s, m)[i] = s[i]
      /\ Append(s, m)[Len(s) + 1] = m
  OBVIOUS
<1>2. \A x \in Range(Append(s, m)) : x \in Range(s) \cup {m}
  BY <1>1 DEF Range
<1>3. \A x \in Range(s) \cup {m} : x \in Range(Append(s, m))
  BY <1>1 DEF Range
<1>4. ASSUME Distinct(s), m \notin Range(s) PROVE Distinct(Append(s, m))
  BY <1>1, <1>4 DEF Distinct, Range
<1> QED BY <1>1, <1>2, <1>3, <1>4

\* What was sent is known by its number also when more was sent.
LEMMA MoreSent ==
    ASSUME NEW n \in Nat, NEW s \in Seq(1 .. n)
    PROVE  s \in Seq(1 .. (n + 1)) /\ Range(s) \subseteq 1 .. n
  BY DEF Range

LEMMA FirstAndRest ==
    ASSUME NEW S, NEW s \in Seq(S), s # <<>>
    PROVE  Tail(s) \in Seq(S) /\ Head(s) \in S
  OBVIOUS

LEMMA EmptyQueue == Range(<<>>) = {} /\ Distinct(<<>>) /\ \A S : <<>> \in Seq(S)
  BY DEF Range, Distinct

--------------------------------------------------------------------------------
(* Each step keeps the types. *)

\* The sequences of messages, when one more is sent.
LEMMA SendTypes ==
    ASSUME BrokerTypes, sent' = sent + 1,
           UNCHANGED <<reports, worker.batch, reported>>
    PROVE  /\ sent' \in Nat /\ sent' \in 1 .. sent' /\ 1 .. sent \subseteq 1 .. sent'
           /\ reports' \in Seq(1 .. sent') /\ worker.batch \in Seq(1 .. sent')
           /\ reported' \in Seq(1 .. sent')
<1>1. sent \in Nat /\ reports \in Seq(1 .. sent) /\ worker.batch \in Seq(1 .. sent)
      /\ reported \in Seq(1 .. sent)
  BY DEF BrokerTypes, Workers
<1> QED BY <1>1, MoreSent

\* The doWork thread stays one when it is woken.
LEMMA WokenType ==
    ASSUME BrokerTypes
    PROVE  Woken \in Workers(sent)
<1>1. worker \in Workers(sent)
  BY DEF BrokerTypes
<1> QED BY <1>1 DEF Woken, Workers

LEMMA RendererTypes ==
    ASSUME BrokerTypes, (\E k \in Payloads : Render(k)) \/ RendererStep
    PROVE  BrokerTypes'
<1> USE BrokerAssumption DEF elementVars, historyVars
<1>1. ASSUME NEW k \in Payloads, Render(k) PROVE BrokerTypes'
  BY <1>1 DEF Render, BrokerTypes
<1>2. CASE SendAccepted
  <2>1. sent' = sent + 1 /\ UNCHANGED <<reports, worker, reported>>
    BY <1>2 DEF SendAccepted
  <2>2. worker \in Workers(sent')
    BY <2>1, SendTypes DEF BrokerTypes, Workers
  <2>3. renderer' \in [at : {"idle", "next", "accepted", "failed"}, todo : Nat]
        /\ sent' + renderer'.todo <= MaxMessages
    BY <1>2 DEF SendAccepted, BrokerTypes
  <2>4. wire' \subseteq 1 .. sent' /\ refused' \subseteq 1 .. sent' /\ lost' \subseteq 1 .. sent'
    BY <1>2, <2>1, SendTypes DEF SendAccepted, BrokerTypes
  <2>5. sent' \in Nat /\ reports' \in Seq(1 .. sent') /\ reported' \in Seq(1 .. sent')
    BY <2>1, SendTypes
  <2>6. UNCHANGED <<isRunning, connected, missed, pendingCbCount, app, starts, worker>>
    BY <1>2 DEF SendAccepted
  <2> QED BY <2>2, <2>3, <2>4, <2>5, <2>6 DEF BrokerTypes
<1>3. CASE SendCounted
  <2>1. worker' \in Workers(sent)
    BY <1>3, WokenType DEF SendCounted, Counted
  <2>2. /\ pendingCbCount \in Int /\ pendingCbCount' = pendingCbCount + 1
        /\ renderer \in [at : {"idle", "next", "accepted", "failed"}, todo : Nat]
        /\ renderer' = [renderer EXCEPT !.at = "next"]
    BY <1>3 DEF SendCounted, Counted, BrokerTypes
  <2>3. UNCHANGED <<isRunning, connected, missed, app, starts, wire, reports, historyVars>>
    BY <1>3 DEF SendCounted
  <2>4. /\ renderer' \in [at : {"idle", "next", "accepted", "failed"}, todo : Nat]
        /\ renderer'.todo = renderer.todo
    BY <2>2
  <2>5. pendingCbCount' \in Int
    BY <2>2
  <2> HIDE DEF elementVars
  <2> QED BY <2>1, <2>3, <2>4, <2>5 DEF BrokerTypes
<1>4. CASE SendRefused
  <2>1. sent' = sent + 1 /\ UNCHANGED <<reports, worker, reported>>
    BY <1>4 DEF SendRefused
  <2>2. worker \in Workers(sent')
    BY <2>1, SendTypes DEF BrokerTypes, Workers
  <2>3. renderer' \in [at : {"idle", "next", "accepted", "failed"}, todo : Nat]
        /\ sent' + renderer'.todo <= MaxMessages
    BY <1>4 DEF SendRefused, BrokerTypes
  <2>4. wire' \subseteq 1 .. sent' /\ refused' \subseteq 1 .. sent' /\ lost' \subseteq 1 .. sent'
    BY <1>4, <2>1, SendTypes DEF SendRefused, Refused, BrokerTypes
  <2> QED BY <1>4, <2>1, <2>2, <2>3, <2>4, SendTypes DEF SendRefused, Refused, BrokerTypes
<1>5. CASE Rendered
  BY <1>5 DEF Rendered, BrokerTypes
<1> QED BY <1>1, <1>2, <1>3, <1>4, <1>5 DEF RendererStep

LEMMA WorkerTypes ==
    ASSUME BrokerTypes, WorkerStep
    PROVE  BrokerTypes'
<1> USE DEF elementVars, historyVars
<1>1. CASE WorkerEnters
  BY <1>1 DEF WorkerEnters, BrokerTypes, Workers
<1>2. CASE WorkerTests
  BY <1>2 DEF WorkerTests, BrokerTypes, Workers
<1>3. CASE WorkerSleeps
  BY <1>3 DEF WorkerSleeps, BrokerTypes, Workers
<1>4. CASE WorkerGoes
  <2>1. worker' \in Workers(sent) /\ reports' \in Seq(1 .. sent)
    <3>1. CASE isRunning
      <4>1. worker' = [at |-> "poll", batch |-> reports] /\ reports' = <<>>
        BY <1>4, <3>1 DEF WorkerGoes, Polled
      <4> QED BY <4>1, EmptyQueue DEF BrokerTypes, Workers
    <3>2. CASE ~isRunning
      BY <1>4, <3>2 DEF WorkerGoes, BrokerTypes, Workers
    <3> QED BY <3>1, <3>2
  <2> QED BY <1>4, <2>1 DEF WorkerGoes, BrokerTypes
<1>5. CASE WorkerReports
  <2>1. worker.batch \in Seq(1 .. sent) /\ worker.batch # <<>>
    BY <1>5 DEF WorkerReports, BrokerTypes, Workers
  <2>2. Tail(worker.batch) \in Seq(1 .. sent) /\ Head(worker.batch) \in 1 .. sent
    BY <2>1, FirstAndRest
  <2>3. reported' \in Seq(1 .. sent) /\ pendingCbCount' \in Int
    BY <1>5, <2>2 DEF WorkerReports, Callback, BrokerTypes
  <2> QED BY <1>5, <2>2, <2>3 DEF WorkerReports, BrokerTypes, Workers
<1>6. CASE WorkerReturns
  BY <1>6 DEF WorkerReturns, BrokerTypes, Workers
<1> QED BY <1>1, <1>2, <1>3, <1>4, <1>5, <1>6 DEF WorkerStep

LEMMA LibraryTypes ==
    ASSUME BrokerTypes, NEW m \in 1 .. MaxMessages, Answered(m)
    PROVE  BrokerTypes'
<1>1. m \in 1 .. sent /\ reports \in Seq(1 .. sent)
  BY DEF Answered, BrokerTypes
<1>2. Append(reports, m) \in Seq(1 .. sent)
  BY <1>1
<1> QED BY <1>2 DEF Answered, BrokerTypes, elementVars, historyVars

LEMMA AppTypes ==
    ASSUME BrokerTypes, Start \/ Stop \/ StopStep
    PROVE  BrokerTypes'
<1> USE BrokerAssumption DEF elementVars, historyVars
<1>1. CASE Start
  <2>1. worker' \in Workers(sent)
    BY <1>1, EmptyQueue DEF Start, Workers
  <2>2. /\ renderer' \in [at : {"idle", "next", "accepted", "failed"}, todo : Nat]
        /\ sent' + renderer'.todo <= MaxMessages
    BY <1>1 DEF Start, BrokerTypes
  <2>3. starts' \in 0 .. MaxStarts
    BY <1>1 DEF Start, BrokerTypes
  <2> QED BY <1>1, <2>1, <2>2, <2>3 DEF Start, BrokerTypes
<1>2. CASE Stop
  BY <1>2 DEF Stop, BrokerTypes
<1>3. CASE StopSignals
  BY <1>3, WokenType DEF StopSignals, BrokerTypes
<1>4. CASE StopJoins
  BY <1>4 DEF StopJoins, BrokerTypes
<1>5. CASE FlushReports
  <2>1. reports \in Seq(1 .. sent) /\ reports # <<>>
    BY <1>5 DEF FlushReports, BrokerTypes
  <2>2. Tail(reports) \in Seq(1 .. sent) /\ Head(reports) \in 1 .. sent
    BY <2>1, FirstAndRest
  <2>3. reported' \in Seq(1 .. sent) /\ pendingCbCount' \in Int
    BY <1>5, <2>2 DEF FlushReports, Callback, BrokerTypes
  <2> QED BY <1>5, <2>2, <2>3 DEF FlushReports, BrokerTypes
<1>6. CASE Disconnect
  <2>1. Range(reports) \subseteq 1 .. sent
    BY DEF BrokerTypes, Range
  <2>2. wire' \subseteq 1 .. sent /\ reports' \in Seq(1 .. sent) /\ lost' \subseteq 1 .. sent
    BY <1>6, <2>1, EmptyQueue DEF Disconnect, BrokerTypes
  <2> QED BY <1>6, <2>2 DEF Disconnect, BrokerTypes
<1> QED BY <1>1, <1>2, <1>3, <1>4, <1>5, <1>6 DEF StopStep

LEMMA StepTypes ==
    ASSUME BrokerTypes, [BrokerNext]_brokerVars
    PROVE  BrokerTypes'
<1>1. CASE UNCHANGED brokerVars
  BY <1>1 DEF BrokerTypes, brokerVars, elementVars, historyVars
<1> QED BY <1>1, RendererTypes, WorkerTypes, LibraryTypes, AppTypes DEF BrokerNext

--------------------------------------------------------------------------------
(* Where the threads are *)

LEMMA StepThreads ==
    ASSUME BrokerTypes, ThreadsInv, BrokerNext
    PROVE  ThreadsInv'
<1> USE DEF elementVars, historyVars, ThreadsInv
<1>1. ASSUME NEW k \in Payloads, Render(k) PROVE ThreadsInv'
  BY <1>1 DEF Render
<1>2. CASE SendAccepted
  BY <1>2 DEF SendAccepted, Unlocked
<1>3. CASE SendCounted
  BY <1>3 DEF SendCounted, Counted, Woken, BrokerTypes, Workers
<1>4. CASE SendRefused
  BY <1>4 DEF SendRefused
<1>5. CASE Rendered
  BY <1>5 DEF Rendered, BrokerTypes, Workers
<1>6. CASE WorkerEnters
  BY <1>6 DEF WorkerEnters, BrokerTypes, Workers
<1>7. CASE WorkerTests
  BY <1>7 DEF WorkerTests, Unlocked, BrokerTypes, Workers
<1>8. CASE WorkerSleeps
  BY <1>8 DEF WorkerSleeps, BrokerTypes, Workers
<1>9. CASE WorkerGoes
  BY <1>9 DEF WorkerGoes, Polled, BrokerTypes, Workers
<1>10. CASE WorkerReports
  BY <1>10 DEF WorkerReports, Callback, BrokerTypes, Workers
<1>11. CASE WorkerReturns
  BY <1>11 DEF WorkerReturns, BrokerTypes, Workers
<1>12. ASSUME NEW m \in 1 .. MaxMessages, Answered(m) PROVE ThreadsInv'
  BY <1>12 DEF Answered
<1>13. CASE Start
  BY <1>13 DEF Start
<1>14. CASE Stop
  BY <1>14 DEF Stop
<1>15. CASE StopSignals
  BY <1>15 DEF StopSignals, Woken, BrokerTypes, Workers
<1>16. CASE StopJoins
  BY <1>16 DEF StopJoins, WorkerJoined
<1>17. CASE FlushReports
  BY <1>17 DEF FlushReports, Callback
<1>18. CASE Disconnect
  BY <1>18 DEF Disconnect
<1> QED BY <1>1, <1>2, <1>3, <1>4, <1>5, <1>6, <1>7, <1>8, <1>9, <1>10, <1>11, <1>12, <1>13,
        <1>14, <1>15, <1>16, <1>17, <1>18 DEF BrokerNext, RendererStep, WorkerStep, StopStep

--------------------------------------------------------------------------------
(* Where the messages are *)

\* The messages whose callback did not run.
Waiting == Unreported \cup lost

\* The number of the next message is new everywhere.
LEMMA NextIsNew ==
    ASSUME BrokerTypes
    PROVE  /\ sent \in Nat /\ sent + 1 \notin 1 .. sent
           /\ Waiting \cup refused \cup Range(reported) \subseteq 1 .. sent
           /\ Range(reports) \cup Range(worker.batch) \subseteq 1 .. sent
<1>1. /\ sent \in Nat /\ reports \in Seq(1 .. sent) /\ worker.batch \in Seq(1 .. sent)
      /\ reported \in Seq(1 .. sent)
  BY DEF BrokerTypes, Workers
<1>2. /\ Range(reports) \subseteq 1 .. sent /\ Range(worker.batch) \subseteq 1 .. sent
      /\ Range(reported) \subseteq 1 .. sent
  BY <1>1, MoreSent
<1>3. wire \subseteq 1 .. sent /\ lost \subseteq 1 .. sent /\ refused \subseteq 1 .. sent
  BY DEF BrokerTypes
<1>4. sent + 1 \notin 1 .. sent
  BY <1>1
<1> QED BY <1>1, <1>2, <1>3, <1>4 DEF Waiting, Unreported

\* The steps that move no message.
LEMMA Untouched ==
    ASSUME PlacesInv, UNCHANGED <<wire, reports, worker.batch, refused, lost, reported>>
    PROVE  PlacesInv' /\ Waiting' = Waiting
  BY DEF PlacesInv, Waiting, Unreported

\* A callback of the oldest report of the one or the other queue.
LEMMA CallbackMoves ==
    ASSUME BrokerTypes, PlacesInv, WorkerReports \/ FlushReports
    PROVE  /\ PlacesInv'
           /\ \E m \in Waiting : /\ Waiting' = Waiting \ {m} /\ Callback(m)
                                 /\ m \in 1 .. sent
                                 /\ m \notin Range(reported) \cup refused \cup lost
<1> DEFINE m == IF WorkerReports THEN Head(worker.batch) ELSE Head(reports)
<1>1. /\ reports \in Seq(1 .. sent) /\ worker.batch \in Seq(1 .. sent)
      /\ reported \in Seq(1 .. sent)
  BY DEF BrokerTypes, Workers
<1>2. /\ Callback(m) /\ m \in Range(reports) \cup Range(worker.batch)
      /\ Range(reports') \cup Range(worker.batch') =
            (Range(reports) \cup Range(worker.batch)) \ {m}
      /\ Range(reports') \subseteq Range(reports)
      /\ Range(worker.batch') \subseteq Range(worker.batch)
      /\ Distinct(reports') /\ Distinct(worker.batch')
      /\ UNCHANGED <<wire, refused, lost>>
  <2>1. CASE WorkerReports
    <3>1. /\ worker.batch # <<>> /\ worker'.batch = Tail(worker.batch)
          /\ Callback(Head(worker.batch)) /\ UNCHANGED <<wire, reports, refused, lost>>
      BY <2>1 DEF WorkerReports, BrokerTypes, Workers
    <3>2. /\ Distinct(Tail(worker.batch)) /\ Head(worker.batch) \in Range(worker.batch)
          /\ Range(Tail(worker.batch)) = Range(worker.batch) \ {Head(worker.batch)}
      BY <1>1, <3>1, HeadLeaves DEF PlacesInv
    <3> QED BY <2>1, <3>1, <3>2 DEF PlacesInv
  <2>2. CASE FlushReports /\ ~WorkerReports
    <3>1. /\ reports # <<>> /\ reports' = Tail(reports)
          /\ Callback(Head(reports)) /\ UNCHANGED <<wire, worker, refused, lost>>
      BY <2>2 DEF FlushReports
    <3>2. /\ Distinct(Tail(reports)) /\ Head(reports) \in Range(reports)
          /\ Range(Tail(reports)) = Range(reports) \ {Head(reports)}
      BY <1>1, <3>1, HeadLeaves DEF PlacesInv
    <3> QED BY <2>2, <3>1, <3>2 DEF PlacesInv
  <2> QED BY <2>1, <2>2
<1>3. m \in 1 .. sent /\ Range(reported') = Range(reported) \cup {m}
  <2>1. m \in 1 .. sent
    BY <1>2, NextIsNew
  <2>2. reported' = Append(reported, m)
    BY <1>2 DEF Callback
  <2> HIDE DEF m
  <2>3. Range(Append(reported, m)) = Range(reported) \cup {m}
    <3> DEFINE S == 1 .. sent
    <3>1. reported \in Seq(S) /\ m \in S
      BY <1>1, <2>1
    <3> HIDE DEF S
    <3> QED BY <3>1, MessageJoins
  <2> QED BY <2>1, <2>2, <2>3
<1>4. m \in Unreported /\ m \notin wire /\ m \notin Range(reported) \cup refused \cup lost
  BY <1>2 DEF PlacesInv, Unreported
<1>5. Unreported' = Unreported \ {m}
  BY <1>2, <1>4 DEF Unreported
<1>6. Waiting' = Waiting \ {m} /\ m \in Waiting
  BY <1>2, <1>4, <1>5 DEF Waiting
<1>7. PlacesInv'
  BY <1>2, <1>3, <1>4, <1>5 DEF PlacesInv
<1> QED BY <1>2, <1>3, <1>4, <1>6, <1>7

\* An answer of the broker becomes a report.
LEMMA AnswerMoves ==
    ASSUME BrokerTypes, PlacesInv, NEW m \in 1 .. MaxMessages, Answered(m)
    PROVE  PlacesInv' /\ Waiting' = Waiting
<1>1. /\ m \in wire /\ m \in 1 .. sent /\ reports \in Seq(1 .. sent)
      /\ wire' = wire \ {m} /\ reports' = Append(reports, m)
      /\ UNCHANGED <<worker, refused, lost, reported>>
  BY DEF Answered, BrokerTypes, historyVars
<1>2. m \notin Range(reports)
  BY <1>1 DEF PlacesInv
<1>3. Range(reports') = Range(reports) \cup {m} /\ Distinct(reports')
  <2>1. Range(Append(reports, m)) = Range(reports) \cup {m}
    <3> DEFINE S == 1 .. sent
    <3>1. reports \in Seq(S) /\ m \in S
      BY <1>1
    <3> HIDE DEF S
    <3> QED BY <3>1, MessageJoins
  <2>2. Distinct(Append(reports, m))
    BY <1>1, <1>2, MessageJoins DEF PlacesInv
  <2> QED BY <1>1, <2>1, <2>2
<1>4. Unreported' = Unreported
  BY <1>1, <1>3 DEF Unreported
<1> QED BY <1>1, <1>3, <1>4 DEF PlacesInv, Waiting

\* A poll takes the reports.
LEMMA PollMoves ==
    ASSUME BrokerTypes, ThreadsInv, PlacesInv, WorkerGoes
    PROVE  PlacesInv' /\ Waiting' = Waiting
<1>1. CASE ~isRunning
  <2>1. UNCHANGED <<wire, reports, worker.batch, refused, lost, reported>>
    BY <1>1 DEF WorkerGoes, BrokerTypes, Workers, historyVars
  <2> QED BY <2>1, Untouched
<1>2. CASE isRunning
  <2>1. /\ worker.batch = <<>> /\ worker'.batch = reports /\ reports' = <<>>
        /\ UNCHANGED <<wire, refused, lost, reported>>
    BY <1>2 DEF WorkerGoes, Polled, ThreadsInv, historyVars
  <2>2. Unreported' = Unreported
    BY <2>1, EmptyQueue DEF Unreported
  <2> QED BY <2>1, <2>2, EmptyQueue DEF PlacesInv, Waiting
<1> QED BY <1>1, <1>2

\* The producer is destroyed with the messages it has.
LEMMA DisconnectMoves ==
    ASSUME BrokerTypes, ThreadsInv, PlacesInv, Disconnect
    PROVE  PlacesInv' /\ Waiting' = Waiting
<1>1. /\ worker.batch = <<>> /\ wire' = {} /\ reports' = <<>>
      /\ lost' = lost \cup wire \cup Range(reports)
      /\ UNCHANGED <<worker, refused, reported>>
  BY DEF Disconnect, ThreadsInv
<1>2. Unreported' = {} /\ Unreported = wire \cup Range(reports)
  BY <1>1, EmptyQueue DEF Unreported
<1> QED BY <1>1, <1>2, EmptyQueue DEF PlacesInv, Waiting

\* A message is sent.
LEMMA SendMoves ==
    ASSUME BrokerTypes, PlacesInv, SendAccepted \/ SendRefused
    PROVE  /\ PlacesInv'
           /\ SendAccepted => Waiting' = Waiting \cup {sent + 1} /\ sent + 1 \notin Waiting
           /\ SendRefused => Waiting' = Waiting
<1>1. UNCHANGED <<reports, worker, lost, reported>>
  BY DEF SendAccepted, SendRefused
<1>2. CASE SendAccepted
  <2>1. wire' = wire \cup {sent + 1} /\ refused' = refused
    BY <1>2 DEF SendAccepted
  <2>2. Unreported' = Unreported \cup {sent + 1}
    BY <1>1, <2>1 DEF Unreported
  <2>3. sent + 1 \notin Waiting \cup refused \cup Range(reported)
                        \cup Range(reports) \cup Range(worker.batch)
    BY NextIsNew
  <2>4. PlacesInv'
    BY <1>1, <2>1, <2>2, <2>3 DEF PlacesInv, Waiting
  <2>5. ~SendRefused
    BY <1>2 DEF SendAccepted, SendRefused
  <2> QED BY <1>1, <2>2, <2>3, <2>4, <2>5 DEF Waiting
<1>3. CASE SendRefused
  <2>1. wire' = wire /\ refused' = refused \cup {sent + 1}
    BY <1>3 DEF SendRefused, Refused
  <2>2. Unreported' = Unreported
    BY <1>1, <2>1 DEF Unreported
  <2>3. sent + 1 \notin Waiting \cup Range(reported)
    BY NextIsNew
  <2>4. PlacesInv'
    BY <1>1, <2>1, <2>2, <2>3 DEF PlacesInv, Waiting
  <2>5. ~SendAccepted
    BY <1>3 DEF SendAccepted, SendRefused
  <2> QED BY <1>1, <2>2, <2>4, <2>5 DEF Waiting
<1> QED BY <1>2, <1>3

\* What the steps that move no message leave alone.
LEMMA OtherStepsMoveNothing ==
    ASSUME BrokerTypes, ThreadsInv,
           \/ \E k \in Payloads : Render(k)
           \/ SendCounted \/ Rendered \/ WorkerEnters \/ WorkerTests \/ WorkerSleeps
           \/ WorkerReturns \/ Start \/ Stop \/ StopSignals \/ StopJoins
    PROVE  /\ UNCHANGED <<wire, reports, worker.batch, refused, lost, reported>>
           /\ IF SendCounted THEN Counted /\ renderer.at = "accepted" /\ renderer'.at = "next"
              ELSE UNCHANGED pendingCbCount
                   /\ (renderer'.at = "accepted" <=> renderer.at = "accepted")
<1> USE DEF elementVars, historyVars
<1>1. ASSUME NEW k \in Payloads, Render(k)
      PROVE  /\ ~SendCounted /\ UNCHANGED <<worker, pendingCbCount, wire, reports, historyVars>>
             /\ renderer.at # "accepted" /\ renderer'.at # "accepted"
  BY <1>1 DEF Render, SendCounted
<1>2. CASE SendCounted
  BY <1>2 DEF SendCounted, Counted, Woken, BrokerTypes, Workers
<1>3. CASE Rendered
  BY <1>3 DEF Rendered, SendCounted, BrokerTypes
<1>4. CASE ~SendCounted /\ (WorkerEnters \/ WorkerTests \/ WorkerSleeps \/ WorkerReturns)
  BY <1>4 DEF WorkerEnters, WorkerTests, WorkerSleeps, WorkerReturns, BrokerTypes, Workers
<1>5. CASE Start
  BY <1>5 DEF Start, SendCounted, ThreadsInv
<1>6. CASE ~SendCounted /\ (Stop \/ StopJoins)
  BY <1>6 DEF Stop, StopJoins
<1>7. CASE ~SendCounted /\ StopSignals
  BY <1>7 DEF StopSignals, Woken, BrokerTypes, Workers
<1> QED BY <1>1, <1>2, <1>3, <1>4, <1>5, <1>6, <1>7

\* Each step leaves every message in one place.
LEMMA StepPlaces ==
    ASSUME BrokerTypes, ThreadsInv, PlacesInv, BrokerNext
    PROVE  PlacesInv'
<1>1. CASE SendAccepted \/ SendRefused
  BY <1>1, SendMoves
<1>2. CASE WorkerReports \/ FlushReports
  BY <1>2, CallbackMoves
<1>3. CASE \E m \in 1 .. MaxMessages : Answered(m)
  BY <1>3, AnswerMoves
<1>4. CASE WorkerGoes \/ Disconnect
  BY <1>4, PollMoves, DisconnectMoves
<1>5. CASE \/ \E k \in Payloads : Render(k)
           \/ SendCounted \/ Rendered \/ WorkerEnters \/ WorkerTests \/ WorkerSleeps
           \/ WorkerReturns \/ Start \/ Stop \/ StopSignals \/ StopJoins
  BY <1>5, OtherStepsMoveNothing, Untouched
<1> QED BY <1>1, <1>2, <1>3, <1>4, <1>5 DEF BrokerNext, RendererStep, WorkerStep, StopStep

\* Finitely many messages wait.
LEMMA WaitingIsFinite ==
    ASSUME BrokerTypes
    PROVE  IsFiniteSet(Waiting) /\ Cardinality(Waiting) \in Nat
<1>1. Waiting \subseteq 1 .. sent /\ IsFiniteSet(1 .. sent)
  BY NextIsNew, FS_Interval
<1>2. IsFiniteSet(Waiting)
  BY <1>1, FS_Subset
<1> QED BY <1>2, FS_CardinalityType

--------------------------------------------------------------------------------
(* The count of the callbacks *)

\* Each step keeps pendingCbCount exact.
LEMMA StepPending ==
    ASSUME BrokerTypes, ThreadsInv, PlacesInv, PendingExact, pendingCbCount >= 0, BrokerNext
    PROVE  PendingExact' /\ pendingCbCount' >= 0
<1> DEFINE accepted == IF renderer.at = "accepted" THEN 1 ELSE 0
<1>0. /\ pendingCbCount + accepted = Cardinality(Waiting) /\ pendingCbCount \in Int
      /\ IsFiniteSet(Waiting) /\ Cardinality(Waiting) \in Nat
  BY WaitingIsFinite DEF PendingExact, Waiting, BrokerTypes
<1> SUFFICES pendingCbCount' + accepted' = Cardinality(Waiting') /\ pendingCbCount' >= 0
  BY DEF PendingExact, Waiting
<1>1. CASE SendAccepted
  <2>1. Waiting' = Waiting \cup {sent + 1} /\ sent + 1 \notin Waiting
    BY <1>1, SendMoves
  <2>2. Cardinality(Waiting') = Cardinality(Waiting) + 1
    BY <1>0, <2>1, FS_AddElement
  <2>3. accepted = 0 /\ accepted' = 1 /\ pendingCbCount' = pendingCbCount
    BY <1>1 DEF SendAccepted, elementVars
  <2> QED BY <1>0, <2>2, <2>3
<1>2. CASE SendRefused
  <2>1. Waiting' = Waiting
    BY <1>2, SendMoves
  <2>2. accepted = 0 /\ accepted' = 0 /\ pendingCbCount' = pendingCbCount
    BY <1>2 DEF SendRefused, Refused
  <2> QED BY <1>0, <2>1, <2>2
<1>3. CASE WorkerReports \/ FlushReports
  <2>1. PICK m \in Waiting : Waiting' = Waiting \ {m} /\ Callback(m)
    BY <1>3, CallbackMoves
  <2>2. Cardinality(Waiting') = Cardinality(Waiting) - 1
    BY <1>0, <2>1, FS_RemoveElement
  <2>3. accepted = 0 /\ accepted' = 0 /\ pendingCbCount' = pendingCbCount - 1
    BY <1>3, <2>1 DEF WorkerReports, FlushReports, Callback, Unlocked
  <2>4. Cardinality(Waiting) # 0
    BY <1>0, <2>1, FS_EmptySet
  <2> QED BY <1>0, <2>2, <2>3, <2>4
<1>4. CASE \E m \in 1 .. MaxMessages : Answered(m)
  <2>1. Waiting' = Waiting
    BY <1>4, AnswerMoves
  <2>2. accepted' = accepted /\ pendingCbCount' = pendingCbCount
    BY <1>4 DEF Answered, elementVars
  <2> QED BY <1>0, <2>1, <2>2
<1>5. CASE WorkerGoes \/ Disconnect
  <2>1. Waiting' = Waiting
    BY <1>5, PollMoves, DisconnectMoves
  <2>2. accepted' = accepted /\ pendingCbCount' = pendingCbCount
    BY <1>5 DEF WorkerGoes, Disconnect, elementVars
  <2> QED BY <1>0, <2>1, <2>2
<1>6. CASE \/ \E k \in Payloads : Render(k)
           \/ SendCounted \/ Rendered \/ WorkerEnters \/ WorkerTests \/ WorkerSleeps
           \/ WorkerReturns \/ Start \/ Stop \/ StopSignals \/ StopJoins
  <2>1. Waiting' = Waiting
    BY <1>6, OtherStepsMoveNothing, Untouched
  <2>2. pendingCbCount' + accepted' = pendingCbCount + accepted /\ pendingCbCount' >= 0
    <3>1. CASE SendCounted
      <4>1. Counted /\ renderer.at = "accepted" /\ renderer'.at = "next"
        BY <1>6, <3>1, OtherStepsMoveNothing
      <4> QED BY <1>0, <4>1 DEF Counted
    <3>2. CASE ~SendCounted
      <4>1. /\ UNCHANGED pendingCbCount
            /\ renderer'.at = "accepted" <=> renderer.at = "accepted"
        BY <1>6, <3>2, OtherStepsMoveNothing
      <4> QED BY <4>1
    <3> QED BY <3>1, <3>2
  <2> QED BY <1>0, <2>1, <2>2
<1> QED BY <1>1, <1>2, <1>3, <1>4, <1>5, <1>6 DEF BrokerNext, RendererStep, WorkerStep, StopStep

\* Each step that leaves the worker asleep, or on its way, leaves it without work.
LEMMA StepSleeps ==
    ASSUME BrokerTypes, ThreadsInv, SleepsWithoutWork, BrokerNext
    PROVE  SleepsWithoutWork'
<1> USE DEF elementVars, historyVars, SleepsWithoutWork
<1>1. CASE (\E k \in Payloads : Render(k)) \/ SendAccepted \/ SendRefused \/ Rendered
  BY <1>1 DEF Render, SendAccepted, SendRefused, Refused, Rendered
<1>2. CASE SendCounted
  BY <1>2 DEF SendCounted, Counted, Woken, ThreadsInv, BrokerTypes, Workers
<1>3. CASE WorkerTests
  BY <1>3 DEF WorkerTests, HasNoWork, BrokerTypes, Workers
<1>4. CASE WorkerSleeps
  BY <1>4 DEF WorkerSleeps, BrokerTypes, Workers
<1>5. CASE WorkerEnters \/ WorkerReturns
  BY <1>5 DEF WorkerEnters, WorkerReturns, BrokerTypes, Workers
<1>6. CASE WorkerGoes
  BY <1>6 DEF WorkerGoes, Polled, BrokerTypes, Workers
<1>7. CASE WorkerReports
  BY <1>7 DEF WorkerReports, BrokerTypes, Workers
<1>8. CASE \E m \in 1 .. MaxMessages : Answered(m)
  BY <1>8 DEF Answered
<1>9. CASE Start \/ Stop \/ StopJoins \/ Disconnect
  BY <1>9 DEF Start, Stop, StopJoins, Disconnect
<1>10. CASE StopSignals
  BY <1>10 DEF StopSignals, Woken, BrokerTypes, Workers
<1>11. CASE FlushReports
  BY <1>11 DEF FlushReports, ThreadsInv
<1> QED BY <1>1, <1>2, <1>3, <1>4, <1>5, <1>6, <1>7, <1>8, <1>9, <1>10, <1>11
        DEF BrokerNext, RendererStep, WorkerStep, StopStep

--------------------------------------------------------------------------------
(* The theorems *)

LEMMA InitInv == BrokerInit => BrokerInv
<1> SUFFICES ASSUME BrokerInit PROVE BrokerInv
  OBVIOUS
<1>1. Waiting = {} /\ Range(reported) = {}
  BY EmptyQueue DEF BrokerInit, Waiting, Unreported
<1>2. BrokerTypes
  <2>1. worker \in Workers(sent) /\ reports \in Seq(1 .. sent) /\ reported \in Seq(1 .. sent)
    BY EmptyQueue DEF BrokerInit, Workers
  <2>2. renderer \in [at : {"idle", "next", "accepted", "failed"}, todo : Nat]
        /\ sent + renderer.todo <= MaxMessages /\ starts \in 0 .. MaxStarts
    BY BrokerAssumption DEF BrokerInit
  <2>3. wire = {} /\ refused = {} /\ lost = {} /\ sent = 0
    BY DEF BrokerInit
  <2>4. isRunning = FALSE /\ connected = FALSE /\ missed = FALSE /\ pendingCbCount = 0 /\ app = "off"
    BY DEF BrokerInit
  <2>5. isRunning \in BOOLEAN /\ connected \in BOOLEAN /\ missed \in BOOLEAN
    BY <2>4
  <2>6. /\ pendingCbCount \in Int /\ app \in {"off", "on", "signal", "join", "flush"}
        /\ sent \in Nat
    BY <2>3, <2>4
  <2>7. wire \subseteq 1 .. sent /\ refused \subseteq 1 .. sent /\ lost \subseteq 1 .. sent
    BY <2>3
  <2> QED BY <2>1, <2>2, <2>5, <2>6, <2>7 DEF BrokerTypes
<1>3. pendingCbCount >= 0 /\ ThreadsInv /\ SleepsWithoutWork
  BY DEF BrokerInit, ThreadsInv, SleepsWithoutWork
<1>4. PlacesInv
  BY <1>1, EmptyQueue DEF BrokerInit, PlacesInv, Waiting
<1>5. PendingExact
  BY <1>1, FS_EmptySet DEF BrokerInit, PendingExact, Waiting
<1> QED BY <1>2, <1>3, <1>4, <1>5 DEF BrokerInv

LEMMA StepInv == BrokerInv /\ [BrokerNext]_brokerVars => BrokerInv'
<1> SUFFICES ASSUME BrokerInv, [BrokerNext]_brokerVars PROVE BrokerInv'
  OBVIOUS
<1> USE DEF BrokerInv
<1>1. CASE UNCHANGED brokerVars
  <2>1. Waiting' = Waiting
    BY <1>1 DEF brokerVars, elementVars, historyVars, Waiting, Unreported
  <2> QED BY <1>1, <2>1, StepTypes DEF brokerVars, elementVars, historyVars, ThreadsInv,
          PlacesInv, Waiting, Unreported, PendingExact, SleepsWithoutWork
<1>2. CASE BrokerNext
  BY <1>2, StepTypes, StepThreads, StepPlaces, StepPending, StepSleeps
<1> QED BY <1>1, <1>2

\* BrokerInv is inductive.
LEMMA InvHolds == BrokerSpec => []BrokerInv
  BY InitInv, StepInv, PTL DEF BrokerSpec

\* The types of gst_nvmsgbroker and its threads.  That pendingCbCount, a signed integer that
\* callbacks decrement before or after the sender increments it, is never negative follows
\* from its being exact: a callback waits for flowLock while the sender is about to count.
THEOREM BrokerTypesKept == BrokerSpec => []BrokerTypeOK
<1>1. BrokerInv => BrokerTypeOK
  <2> SUFFICES ASSUME BrokerInv PROVE BrokerTypeOK
    OBVIOUS
  <2>1. BrokerTypes /\ pendingCbCount \in Nat
    BY DEF BrokerInv, BrokerTypes
  <2>2. worker.at \in {"top", "lock", "test", "sleep", "go", "poll", "ended"}
        /\ worker.batch \in Seq(1 .. sent)
    BY <2>1 DEF BrokerTypes, Workers
  <2>3. renderer.at \in {"idle", "next", "accepted", "failed"} /\ renderer.todo \in Nat
        /\ sent \in 0 .. MaxMessages
    BY <2>1, BrokerAssumption DEF BrokerTypes
  <2> QED BY <2>1, <2>2, <2>3 DEF BrokerTypes, BrokerTypeOK
<1> QED BY <1>1, InvHolds, PTL

\* pendingCbCount is the number of messages whose nvds_msgapi_send_callback did not run, for
\* every size of the queue of librdkafka and every number of messages and of starts: the
\* counting of render and of the callbacks, in two threads, never misses one.
THEOREM CountExact == BrokerSpec => []PendingExact
<1>1. BrokerInv => PendingExact
  BY DEF BrokerInv
<1> QED BY <1>1, InvHolds, PTL

\* gst_nvmsgbroker_do_work sleeps only when no callback is pending: no signal of render is lost.
THEOREM NeverSleepsOverWork == BrokerSpec => []SleepsWithoutWork
<1>1. BrokerInv => SleepsWithoutWork
  BY DEF BrokerInv
<1> QED BY <1>1, InvHolds, PTL

\* legacy_gst_nvmsgbroker_stop retires the handle when nobody uses it any more.
THEOREM HandleRetiredLast == BrokerSpec => []RetiredHandleUnused
<1>1. BrokerInv => RetiredHandleUnused
  BY EmptyQueue DEF BrokerInv, BrokerTypes, ThreadsInv, RetiredHandleUnused, Unreported
<1> QED BY <1>1, InvHolds, PTL

--------------------------------------------------------------------------------
(* Refinement: every message is refused, reported or lost, and that once. *)

\* The messages that were reported, as the abstract specification names them.
LEMMA LeftIsReported ==
    ASSUME BrokerTypes
    PROVE  Sink!Left = Range(reported)
  BY DEF Sink!Left, Range

LEMMA InitIsSinkInit == BrokerInit => Sink!Init
  BY DEF BrokerInit, Sink!Init

\* Each step is a step of the abstract specification or none of its variables changes.
LEMMA StepIsSinkStep == BrokerInv /\ [BrokerNext]_brokerVars => [Sink!Next]_(Sink!vars)
<1> SUFFICES ASSUME BrokerInv, [BrokerNext]_brokerVars PROVE [Sink!Next]_(Sink!vars)
  OBVIOUS
<1> USE DEF BrokerInv
<1>1. CASE SendAccepted \/ SendRefused
  <2>1. Sink!Enter
    BY <1>1 DEF SendAccepted, SendRefused, Refused, Sink!Enter
  <2> QED BY <2>1 DEF Sink!Next
<1>2. CASE WorkerReports \/ FlushReports
  <2>1. PICK m \in Waiting : /\ Callback(m) /\ m \in 1 .. sent
                             /\ m \notin Range(reported) \cup refused \cup lost
    BY <1>2, CallbackMoves
  <2>2. UNCHANGED <<sent, refused, lost>>
    BY <1>2 DEF WorkerReports, FlushReports
  <2>3. m \in 1 .. MaxMessages /\ \A k \in 1 .. (m - 1) : k \in 1 .. MaxMessages
    BY <2>1, BrokerAssumption DEF BrokerTypes
  <2>4. Sink!Leave(m)
    BY <2>1, <2>2, <2>3, LeftIsReported DEF Sink!Leave, Callback
  <2> QED BY <2>1, <2>4 DEF Sink!Next
<1>3. CASE Disconnect
  <2>1. wire \cup Range(reports) \subseteq (1 .. sent) \ Range(reported)
    BY NextIsNew DEF PlacesInv, Unreported, Waiting
  <2>2. Sink!Drop
    BY <1>3, <2>1, LeftIsReported DEF Disconnect, Sink!Drop
  <2> QED BY <2>2 DEF Sink!Next
<1>4. CASE \/ \E k \in Payloads : Render(k)
           \/ SendCounted \/ Rendered \/ WorkerEnters \/ WorkerTests \/ WorkerSleeps
           \/ WorkerReturns \/ Start \/ Stop \/ StopSignals \/ StopJoins \/ WorkerGoes
           \/ \E m \in 1 .. MaxMessages : Answered(m)
  <2>1. UNCHANGED <<sent, refused, lost, reported>>
    BY <1>4 DEF Render, SendCounted, Rendered, WorkerEnters, WorkerTests, WorkerSleeps,
       WorkerReturns, Start, Stop, StopSignals, StopJoins, WorkerGoes, Answered, historyVars
  <2> QED BY <2>1 DEF Sink!vars
<1>5. CASE UNCHANGED brokerVars
  BY <1>5 DEF brokerVars, historyVars, Sink!vars
<1> QED BY <1>1, <1>2, <1>3, <1>4, <1>5 DEF BrokerNext, RendererStep, WorkerStep, StopStep

\* A message that was sent is refused by nvds_kafka_client_send, reported to
\* nvds_msgapi_send_callback or destroyed with its producer: one of them, and once.
THEOREM MessagesEndOnce == BrokerSpec => IsSink
  BY InvHolds, InitIsSinkInit, StepIsSinkStep, PTL DEF BrokerSpec, Sink!Spec, IsSink

--------------------------------------------------------------------------------
(* The handles *)

Places == {"off", "connected", "on", "erased"}

\* When no connection is shared, a handle has at most one element.
ExclusiveInv ==
    /\ \A h \in Handles : users[h] = {e \in Elements : place[e] # "off" /\ newConnHandle[e] = h}
    /\ \A e, f \in Elements :
           place[e] # "off" /\ place[f] # "off" /\ newConnHandle[e] = newConnHandle[f] => e = f

\* A payload is rendered only while the element is running.
StreamingInv == \A e \in Elements : streaming[e] = "sent" => place[e] = "on"

HandlesInv ==
    /\ HandlesTypeOK
    /\ StreamingInv
    /\ ~shared => ExclusiveInv /\ EntriesInUse /\ FailedMeansGivenUp /\ NullOnlyInWindows

--------------------------------------------------------------------------------
\* Each step keeps the types.
LEMMA StepHandlesTypes ==
    ASSUME HandlesTypeOK, HandlesNext
    PROVE  HandlesTypeOK'
<1> USE HandlesAssumption DEF HandlesTypeOK
<1>1. ASSUME NEW e \in Elements, NEW h \in Handles, Connect(e, h) PROVE HandlesTypeOK'
  BY <1>1 DEF Connect
<1>2. ASSUME NEW e \in Elements, Insert(e) PROVE HandlesTypeOK'
  BY <1>2 DEF Insert, Inserted, Status
<1>3. ASSUME NEW e \in Elements, Erase(e) PROVE HandlesTypeOK'
  BY <1>3 DEF Erase, Erased, Restrict
<1>4. ASSUME NEW e \in Elements, DisconnectHandle(e) PROVE HandlesTypeOK'
  BY <1>4 DEF DisconnectHandle
<1>5. ASSUME NEW e \in Elements, RenderPayload(e) PROVE HandlesTypeOK'
  BY <1>5 DEF RenderPayload, Followed
<1>6. ASSUME NEW e \in Elements, RenderStatus(e) PROVE HandlesTypeOK'
  BY <1>6 DEF RenderStatus, Followed
<1>7. ASSUME NEW h \in Handles, NEW status \in {"ok", "retry", "err"}, ConnectCallback(h, status)
      PROVE  HandlesTypeOK'
  <2>1. CASE h \in DOMAIN handleMap
    <3>1. Written(h, status) \in Status
      BY <2>1 DEF Written, Status
    <3> QED BY <1>7, <2>1, <3>1 DEF ConnectCallback, Followed
  <2>2. CASE h \notin DOMAIN handleMap
    BY <1>7, <2>2 DEF ConnectCallback, Followed
  <2> QED BY <2>1, <2>2
<1> QED BY <1>1, <1>2, <1>3, <1>4, <1>5, <1>6, <1>7 DEF HandlesNext, ElementStep

\* Each step keeps an element that renders running.
LEMMA StepStreaming ==
    ASSUME HandlesTypeOK, StreamingInv, HandlesNext
    PROVE  StreamingInv'
<1> USE DEF HandlesTypeOK, StreamingInv
<1>1. ASSUME NEW e \in Elements, ElementStep(e) PROVE StreamingInv'
  <2>1. ASSUME NEW h \in Handles, Connect(e, h) PROVE StreamingInv'
    BY <2>1 DEF Connect
  <2>2. CASE Insert(e)
    BY <2>2 DEF Insert
  <2>3. CASE Erase(e)
    BY <2>3 DEF Erase
  <2>4. CASE DisconnectHandle(e)
    BY <2>4 DEF DisconnectHandle
  <2>5. CASE RenderPayload(e)
    BY <2>5 DEF RenderPayload
  <2>6. CASE RenderStatus(e)
    BY <2>6 DEF RenderStatus
  <2> QED BY <1>1, <2>1, <2>2, <2>3, <2>4, <2>5, <2>6 DEF ElementStep
<1>2. ASSUME NEW h \in Handles, NEW status \in {"ok", "retry", "err"}, ConnectCallback(h, status)
      PROVE  StreamingInv'
  BY <1>2 DEF ConnectCallback
<1> QED BY <1>1, <1>2 DEF HandlesNext

\* Each step keeps a handle to one element, when no connection is shared: the library gives a
\* handle again only when its connection is closed.
LEMMA StepExclusive ==
    ASSUME HandlesTypeOK, ~shared, ExclusiveInv, HandlesNext
    PROVE  ExclusiveInv'
<1> USE DEF HandlesTypeOK, ExclusiveInv
<1>1. ASSUME NEW e \in Elements, NEW h \in Handles, Connect(e, h) PROVE ExclusiveInv'
  <2>1. users[h] = {} /\ place[e] = "off"
    BY <1>1 DEF Connect, Connectable
  <2>2. /\ users' = [users EXCEPT ![h] = {e}]
        /\ newConnHandle' = [newConnHandle EXCEPT ![e] = h]
        /\ place' = [place EXCEPT ![e] = "connected"]
    BY <1>1, <2>1 DEF Connect
  <2>3. \A f \in Elements : place[f] # "off" => newConnHandle[f] # h
    BY <2>1
  <2>4. \A g \in Handles :
            users'[g] = {f \in Elements : place'[f] # "off" /\ newConnHandle'[f] = g}
    BY <2>1, <2>2, <2>3
  <2> QED BY <2>1, <2>2, <2>3, <2>4
<1>2. ASSUME NEW e \in Elements,
             Insert(e) \/ Erase(e) \/ RenderPayload(e) \/ RenderStatus(e)
      PROVE  ExclusiveInv'
  <2>1. /\ UNCHANGED <<users, newConnHandle>>
        /\ \A f \in Elements : place'[f] # "off" <=> place[f] # "off"
    BY <1>2 DEF Insert, Erase, RenderPayload, RenderStatus
  <2> QED BY <2>1
<1>3. ASSUME NEW e \in Elements, DisconnectHandle(e) PROVE ExclusiveInv'
  <2>1. /\ place[e] = "erased" /\ UNCHANGED newConnHandle
        /\ users' = [users EXCEPT ![newConnHandle[e]] = @ \ {e}]
        /\ place' = [place EXCEPT ![e] = "off"]
    BY <1>3 DEF DisconnectHandle
  <2>2. \A g \in Handles :
            users'[g] = {f \in Elements : place'[f] # "off" /\ newConnHandle'[f] = g}
    BY <2>1
  <2> QED BY <2>1, <2>2
<1>4. ASSUME NEW h \in Handles, NEW status \in {"ok", "retry", "err"}, ConnectCallback(h, status)
      PROVE  ExclusiveInv'
  BY <1>4 DEF ConnectCallback
<1> QED BY <1>1, <1>2, <1>3, <1>4 DEF HandlesNext, ElementStep

\* Each step keeps the entries of the running elements, and no other, in the map.
LEMMA StepEntries ==
    ASSUME HandlesTypeOK, ~shared, ExclusiveInv, EntriesInUse, HandlesNext
    PROVE  EntriesInUse'
<1> DEFINE InUse == {newConnHandle[e] : e \in {f \in Elements : place[f] = "on"}}
<1>0. DOMAIN handleMap = InUse
  BY DEF EntriesInUse
<1> SUFFICES DOMAIN handleMap' = InUse'
  BY DEF EntriesInUse
<1>1. ASSUME NEW e \in Elements, NEW h \in Handles, Connect(e, h) PROVE DOMAIN handleMap' = InUse'
  <2>1. /\ place[e] = "off" /\ UNCHANGED handleMap
        /\ newConnHandle' = [newConnHandle EXCEPT ![e] = h]
        /\ place' = [place EXCEPT ![e] = "connected"]
    BY <1>1 DEF Connect
  <2>2. InUse' = InUse
    BY <2>1 DEF HandlesTypeOK
  <2> QED BY <1>0, <2>1, <2>2
<1>2. ASSUME NEW e \in Elements, Insert(e) PROVE DOMAIN handleMap' = InUse'
  <2>1. /\ place[e] = "connected" /\ UNCHANGED newConnHandle
        /\ DOMAIN handleMap' = DOMAIN handleMap \cup {newConnHandle[e]}
        /\ place' = [place EXCEPT ![e] = "on"]
    BY <1>2 DEF Insert, Inserted
  <2>2. InUse' = InUse \cup {newConnHandle[e]}
    BY <2>1 DEF HandlesTypeOK
  <2> QED BY <1>0, <2>1, <2>2
<1>3. ASSUME NEW e \in Elements, Erase(e) PROVE DOMAIN handleMap' = InUse'
  <2>1. /\ place[e] = "on" /\ UNCHANGED newConnHandle
        /\ DOMAIN handleMap' = DOMAIN handleMap \ {newConnHandle[e]}
        /\ place' = [place EXCEPT ![e] = "erased"]
    BY <1>3 DEF Erase, Erased, Restrict
  <2>2. \A f \in Elements : f # e /\ place[f] = "on" => newConnHandle[f] # newConnHandle[e]
    BY <2>1 DEF ExclusiveInv
  <2>3. InUse' = InUse \ {newConnHandle[e]}
    BY <2>1, <2>2 DEF HandlesTypeOK
  <2> QED BY <1>0, <2>1, <2>3
<1>4. ASSUME NEW e \in Elements, DisconnectHandle(e) PROVE DOMAIN handleMap' = InUse'
  <2>1. /\ place[e] = "erased" /\ UNCHANGED <<handleMap, newConnHandle>>
        /\ place' = [place EXCEPT ![e] = "off"]
    BY <1>4 DEF DisconnectHandle
  <2>2. InUse' = InUse
    BY <2>1 DEF HandlesTypeOK
  <2> QED BY <1>0, <2>1, <2>2
<1>5. ASSUME NEW e \in Elements, RenderPayload(e) \/ RenderStatus(e)
      PROVE  DOMAIN handleMap' = InUse'
  BY <1>0, <1>5 DEF RenderPayload, RenderStatus
<1>6. ASSUME NEW h \in Handles, NEW status \in {"ok", "retry", "err"}, ConnectCallback(h, status)
      PROVE  DOMAIN handleMap' = InUse'
  BY <1>0, <1>6 DEF ConnectCallback
<1> QED BY <1>1, <1>2, <1>3, <1>4, <1>5, <1>6 DEF HandlesNext, ElementStep

\* Each step of a streaming thread finds the entry it looks for, and a callback that does not
\* comes while the element of its handle is inside start or stop.
LEMMA StepNullOnlyInWindows ==
    ASSUME HandlesTypeOK, ~shared, StreamingInv, ExclusiveInv, EntriesInUse, HandlesNext
    PROVE  NullOnlyInWindows'
<1> USE DEF NullOnlyInWindows, RenderFindsEntry
<1> DEFINE InUse == {newConnHandle[e] : e \in {f \in Elements : place[f] = "on"}}
<1>0. DOMAIN handleMap = InUse /\ broken = "no"
  BY DEF EntriesInUse, HandlesNext
<1>1. ASSUME NEW e \in Elements, RenderPayload(e) \/ RenderStatus(e) PROVE NullOnlyInWindows'
  <2>1. place[e] = "on" /\ Followed(newConnHandle[e], "streaming")
    BY <1>1 DEF RenderPayload, RenderStatus, StreamingInv
  <2>2. newConnHandle[e] \in DOMAIN handleMap
    BY <1>0, <2>1
  <2> QED BY <1>0, <2>1, <2>2 DEF Followed
<1>2. ASSUME NEW h \in Handles, NEW status \in {"ok", "retry", "err"}, ConnectCallback(h, status)
      PROVE  NullOnlyInWindows'
  <2>1. PICK e \in Elements : place[e] # "off" /\ newConnHandle[e] = h
    BY <1>2 DEF ConnectCallback, ExclusiveInv
  <2>2. CASE place[e] = "on"
    <3>1. h \in DOMAIN handleMap
      BY <1>0, <2>1, <2>2
    <3> QED BY <1>0, <1>2, <3>1 DEF ConnectCallback, Followed
  <2>3. CASE place[e] \in {"connected", "erased"}
    BY <1>0, <1>2, <2>3 DEF ConnectCallback, Followed
  <2> QED BY <2>1, <2>2, <2>3 DEF HandlesTypeOK
<1>3. ASSUME NEW e \in Elements,
             (\E h \in Handles : Connect(e, h)) \/ Insert(e) \/ Erase(e) \/ DisconnectHandle(e)
      PROVE  NullOnlyInWindows'
  BY <1>0, <1>3 DEF Connect, Insert, Erase, DisconnectHandle
<1> QED BY <1>1, <1>2, <1>3 DEF HandlesNext, ElementStep

\* Each step leaves a connection that was given up in this state while its element runs.
LEMMA StepFailed ==
    ASSUME HandlesTypeOK, ~shared, StreamingInv, ExclusiveInv, EntriesInUse, FailedMeansGivenUp,
           HandlesNext
    PROVE  FailedMeansGivenUp'
<1>0. /\ shared' = shared
      /\ \A e \in Elements : streaming[e] = "failed" /\ place[e] = "on" =>
             newConnHandle[e] \in DOMAIN handleMap /\ handleMap[newConnHandle[e]].broker_disconnect
  BY DEF FailedMeansGivenUp, EntriesInUse, HandlesNext, ElementStep, Connect, Insert, Erase,
     DisconnectHandle, RenderPayload, RenderStatus, ConnectCallback
<1> SUFFICES ASSUME NEW e \in Elements, streaming'[e] = "failed", place'[e] = "on"
             PROVE  handleMap'[newConnHandle'[e]].broker_disconnect
  BY <1>0 DEF FailedMeansGivenUp
<1> USE DEF HandlesTypeOK
<1>1. ASSUME NEW f \in Elements, NEW h \in Handles, Connect(f, h)
      PROVE  handleMap'[newConnHandle'[e]].broker_disconnect
  BY <1>0, <1>1 DEF Connect
<1>2. ASSUME NEW f \in Elements, Insert(f)
      PROVE  handleMap'[newConnHandle'[e]].broker_disconnect
  BY <1>0, <1>2 DEF Insert, Inserted
<1>3. ASSUME NEW f \in Elements, Erase(f)
      PROVE  handleMap'[newConnHandle'[e]].broker_disconnect
  <2>1. e # f /\ place[e] = "on" /\ place[f] = "on" /\ streaming[e] = "failed"
    BY <1>3 DEF Erase
  <2>2. newConnHandle[e] # newConnHandle[f]
    BY <2>1 DEF ExclusiveInv
  <2> QED BY <1>0, <1>3, <2>1, <2>2 DEF Erase, Erased, Restrict
<1>4. ASSUME NEW f \in Elements, DisconnectHandle(f)
      PROVE  handleMap'[newConnHandle'[e]].broker_disconnect
  BY <1>0, <1>4 DEF DisconnectHandle
<1>5. ASSUME NEW f \in Elements, RenderPayload(f)
      PROVE  handleMap'[newConnHandle'[e]].broker_disconnect
  BY <1>0, <1>5 DEF RenderPayload
<1>6. ASSUME NEW f \in Elements, RenderStatus(f)
      PROVE  handleMap'[newConnHandle'[e]].broker_disconnect
  BY <1>0, <1>6 DEF RenderStatus
<1>7. ASSUME NEW h \in Handles, NEW status \in {"ok", "retry", "err"}, ConnectCallback(h, status)
      PROVE  handleMap'[newConnHandle'[e]].broker_disconnect
  BY <1>0, <1>7 DEF ConnectCallback, Written
<1> QED BY <1>1, <1>2, <1>3, <1>4, <1>5, <1>6, <1>7 DEF HandlesNext, ElementStep

--------------------------------------------------------------------------------
LEMMA InitHandlesInv == HandlesInit => HandlesInv
<1> SUFFICES ASSUME HandlesInit PROVE HandlesInv
  OBVIOUS
<1> USE HandlesAssumption DEF HandlesInit
<1>1. DOMAIN handleMap = {}
  OBVIOUS
<1>2. HandlesTypeOK
  <2>1. connects \in [Elements -> 0 .. MaxConnects]
    OBVIOUS
  <2>2. place \in [Elements -> Places] /\ streaming \in [Elements -> {"idle", "sent", "failed"}]
    BY DEF Places
  <2>3. users \in [Handles -> SUBSET Elements]
    OBVIOUS
  <2> QED BY <1>1, <2>1, <2>2, <2>3 DEF HandlesTypeOK, Places
<1>3. StreamingInv /\ ExclusiveInv /\ EntriesInUse /\ FailedMeansGivenUp /\ NullOnlyInWindows
  BY <1>1 DEF StreamingInv, ExclusiveInv, EntriesInUse, FailedMeansGivenUp,
     NullOnlyInWindows, RenderFindsEntry
<1> QED BY <1>2, <1>3 DEF HandlesInv

LEMMA StepHandlesInv == HandlesInv /\ [HandlesNext]_handlesVars => HandlesInv'
<1> SUFFICES ASSUME HandlesInv, [HandlesNext]_handlesVars PROVE HandlesInv'
  OBVIOUS
<1> USE DEF HandlesInv
<1>1. CASE UNCHANGED handlesVars
  BY <1>1 DEF handlesVars, connectionVars, HandlesTypeOK, StreamingInv, ExclusiveInv,
     EntriesInUse, FailedMeansGivenUp,
     NullOnlyInWindows, RenderFindsEntry
<1>2. CASE HandlesNext
  <2>1. shared' = shared
    BY <1>2 DEF HandlesNext, ElementStep, Connect, Insert, Erase, DisconnectHandle,
       RenderPayload, RenderStatus, ConnectCallback
  <2> QED BY <1>2, <2>1, StepHandlesTypes, StepStreaming, StepExclusive, StepEntries,
          StepNullOnlyInWindows, StepFailed
<1> QED BY <1>1, <1>2

\* HandlesInv is inductive.
LEMMA HandlesInvHolds == HandlesSpec => []HandlesInv
  BY InitHandlesInv, StepHandlesInv, PTL DEF HandlesSpec

\* The types of the map and of the elements' threads.
THEOREM HandlesTypesKept == HandlesSpec => []HandlesTypeOK
<1>1. HandlesInv => HandlesTypeOK
  BY DEF HandlesInv
<1> QED BY <1>1, HandlesInvHolds, PTL

\* Without share-connection NvMsgBrokerHandleMap has the entries of the running elements and no
\* other, however many elements start and stop and whichever addresses the library uses again.
\* Hence render always finds its entry, and nvmsgbroker_connect_callback follows a null pointer
\* only while an element is between connecting and inserting, or erasing and disconnecting.
THEOREM MapServesThoseRunning == HandlesSpec => []MapServesElements
<1>1. HandlesInv => MapServesElements
  BY DEF HandlesInv, MapServesElements, EntriesInUse, NullOnlyInWindows
<1> QED BY <1>1, HandlesInvHolds, PTL

\* A stream that new_gst_nvmsgbroker_render ended was ended because its own connection was
\* given up: never by the status of an older connection at the same address.
THEOREM EndedOnlyWhenGivenUp == HandlesSpec => []FailedMeansGivenUp
<1>1. HandlesInv => FailedMeansGivenUp
  BY DEF HandlesInv, FailedMeansGivenUp
<1> QED BY <1>1, HandlesInvHolds, PTL

--------------------------------------------------------------------------------
(* The element *)

\* The element behaves like the one with the adaptor's interface ...
LEMMA IsBroker == Spec => BrokerSpec
<1>1. Init => BrokerInit
  BY DEF Init
<1>2. [Next]_vars => [BrokerNext]_brokerVars
  BY DEF Next, vars
<1> QED BY <1>1, <1>2, PTL DEF Spec, BrokerSpec

\* ... and like the one with the library's.
LEMMA IsHandles == Spec => HandlesSpec
<1>1. Init => HandlesInit
  BY DEF Init
<1>2. [Next]_vars => [HandlesNext]_handlesVars
  BY DEF Next, vars
<1> QED BY <1>1, <1>2, PTL DEF Spec, HandlesSpec

\* The types of the element, whichever interface it uses.
THEOREM TypesKept == Spec => []TypeOK
<1>1. Init => newAPI \in NewAPIs
  BY DEF Init
<1>2. newAPI \in NewAPIs /\ [Next]_vars => (newAPI \in NewAPIs)'
  BY DEF Next, vars
<1>3. BrokerTypeOK /\ HandlesTypeOK /\ newAPI \in NewAPIs => TypeOK
  BY DEF TypeOK
<1>4. Spec => [](newAPI \in NewAPIs)
  BY <1>1, <1>2, PTL DEF Spec
<1> QED BY <1>3, <1>4, IsBroker, IsHandles, BrokerTypesKept, HandlesTypesKept, PTL

\* nvmsgbroker counts its pending callbacks, wakes its worker, retires its handle after the
\* last use and gives each message one end.
THEOREM BrokerKeepsItsPromises ==
    Spec => []PendingExact /\ []SleepsWithoutWork /\ []RetiredHandleUnused /\ IsSink
  BY IsBroker, CountExact, NeverSleepsOverWork, HandleRetiredLast, MessagesEndOnce, PTL

\* With new-api, the map of the process describes the elements that are running.
THEOREM MapDescribesElements == Spec => []MapServesElements /\ []FailedMeansGivenUp
  BY IsHandles, MapServesThoseRunning, EndedOnlyWhenGivenUp, PTL
================================================================================
