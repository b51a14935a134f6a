------------------------------ MODULE BrokerHandles -------------------------------
(***************************************************************************)
(* The message broker element with new-api: several elements of a process  *)
(* on top of the library libnvds_msgbroker, which is not part of the       *)
(* repository.  What the elements know of their connections is in one map  *)
(* of the process, NvMsgBrokerHandleMap, from handles to statuses.  A      *)
(* status is written by nvmsgbroker_connect_callback, in threads of the    *)
(* library, and read without a lock by the streaming threads.              *)
(*                                                                         *)
(* With share-connection the library gives the same handle to everyone who *)
(* connects with the same parameters (libs/nvmsgbroker/README).            *)
(***************************************************************************)
EXTENDS Integers, FiniteSets, Functions

CONSTANTS
    Elements,     \* the elements of the process
    Handles,      \* the handles; the address of a closed one may come back
    Sharing,      \* the values share-connection may have
    MaxConnects   \* bound of the model: how often an element connects

ASSUME HandlesAssumption == Sharing \subseteq BOOLEAN /\ MaxConnects \in Nat

VARIABLES
    shared,        \* share-connection
    handleMap,     \* NvMsgBrokerHandleMap: the statuses, by handle that has an entry
    users,         \* the library: the elements that have connected, by handle
    newConnHandle, \* by element
    place,         \* where the application thread of an element stands
    streaming,     \* where the streaming thread of an element stands
    broken,        \* who followed a null pointer, if somebody did: the process is at its end
    connects

connectionVars == <<handleMap, users, newConnHandle, broken>>
handlesVars == <<shared, connectionVars, place, streaming, connects>>

Status == [connection_alive : BOOLEAN, broker_disconnect : BOOLEAN]

\* operator[] of the map makes a null entry when there is none, and it is followed at once.
Followed(h, who) == broken' = IF h \in DOMAIN handleMap THEN broken ELSE who

--------------------------------------------------------------------------------
(* The library *)

\* nv_msgbroker_connect returns an open connection with the same parameters, or a new one.
Connectable ==
    LET open == {h \in Handles : users[h] # {}} IN
    IF shared /\ open # {} THEN open ELSE Handles \ open

\* What the callback writes for "ok", "err" (given up) and "retry" (down, tried again).
Written(h, status) ==
    [connection_alive |-> status = "ok",
     broker_disconnect |-> handleMap[h].broker_disconnect \/ status = "err"]

\* nvmsgbroker_connect_callback. The library may call it as long as somebody has the connection:
\* from within nv_msgbroker_connect, before new_gst_nvmsgbroker_start has made the entry, until
\* the last nv_msgbroker_disconnect returns, after new_gst_nvmsgbroker_stop has erased it.
ConnectCallback(h, status) ==
    /\ users[h] # {}
    /\ Followed(h, "callback")
    /\ handleMap' = IF h \in DOMAIN handleMap
                    THEN [handleMap EXCEPT ![h] = Written(h, status)] ELSE handleMap
    /\ UNCHANGED <<shared, users, newConnHandle, place, streaming, connects>>

--------------------------------------------------------------------------------
(* new_gst_nvmsgbroker_start *)

Connect(e, h) ==
    /\ place[e] = "off" /\ connects[e] < MaxConnects /\ h \in Connectable
    /\ connects' = [connects EXCEPT ![e] = @ + 1]
    /\ users' = [users EXCEPT ![h] = @ \cup {e}]
    /\ newConnHandle' = [newConnHandle EXCEPT ![e] = h]
    /\ place' = [place EXCEPT ![e] = "connected"]
    /\ UNCHANGED <<shared, handleMap, streaming, broken>>

\* The entry of a handle that has none: alive.
Inserted(h) ==
    [g \in DOMAIN handleMap \cup {h} |->
        IF g \in DOMAIN handleMap THEN handleMap[g]
        ELSE [connection_alive |-> TRUE, broker_disconnect |-> FALSE]]

Insert(e) ==
    /\ place[e] = "connected"
    /\ handleMap' = Inserted(newConnHandle[e])
    /\ place' = [place EXCEPT ![e] = "on"]
    /\ streaming' = [streaming EXCEPT ![e] = "idle"]
    /\ UNCHANGED <<shared, users, newConnHandle, broken, connects>>

--------------------------------------------------------------------------------
(* new_gst_nvmsgbroker_stop *)

\* Faulty variant of Erased: the entry stays.
NotErased(h) == handleMap

Erased(h) == Restrict(handleMap, DOMAIN handleMap \ {h})

\* The streaming thread is out of the element; the entry of its handle goes, whoever uses it.
Erase(e) ==
    /\ place[e] = "on" /\ streaming[e] \in {"idle", "failed"}
    /\ handleMap' = Erased(newConnHandle[e])
    /\ place' = [place EXCEPT ![e] = "erased"]
    /\ UNCHANGED <<shared, users, newConnHandle, streaming, broken, connects>>

DisconnectHandle(e) ==
    /\ place[e] = "erased"
    /\ users' = [users EXCEPT ![newConnHandle[e]] = @ \ {e}]
    /\ place' = [place EXCEPT ![e] = "off"]
    /\ UNCHANGED <<shared, handleMap, newConnHandle, streaming, broken, connects>>

--------------------------------------------------------------------------------
(* new_gst_nvmsgbroker_render_user_meta_list, for a payload *)

\* connection_alive is read: the message is sent or given up.
RenderPayload(e) ==
    /\ place[e] = "on" /\ streaming[e] = "idle"
    /\ Followed(newConnHandle[e], "streaming")
    /\ streaming' = [streaming EXCEPT ![e] = "sent"]
    /\ UNCHANGED <<shared, handleMap, users, newConnHandle, place, connects>>

\* broker_disconnect is read: the stream goes on, or ends with GST_FLOW_ERROR.
RenderStatus(e) ==
    /\ streaming[e] = "sent"
    /\ Followed(newConnHandle[e], "streaming")
    /\ streaming' = [streaming EXCEPT ![e] =
                       IF newConnHandle[e] \in DOMAIN handleMap
                          /\ handleMap[newConnHandle[e]].broker_disconnect
                       THEN "failed" ELSE "idle"]
    /\ UNCHANGED <<shared, handleMap, users, newConnHandle, place, connects>>

--------------------------------------------------------------------------------
HandlesInit ==
    /\ shared \in Sharing
    /\ handleMap = <<>>
    /\ users = [h \in Handles |-> {}]
    /\ newConnHandle \in [Elements -> Handles]
    /\ place = [e \in Elements |-> "off"]
    /\ streaming = [e \in Elements |-> "idle"]
    /\ broken = "no" /\ connects = [e \in Elements |-> 0]

ElementStep(e) ==
    \/ \E h \in Handles : Connect(e, h)
    \/ Insert(e) \/ Erase(e) \/ DisconnectHandle(e) \/ RenderPayload(e) \/ RenderStatus(e)

HandlesNext ==
    /\ broken = "no"
    /\ \/ \E e \in Elements : ElementStep(e)
       \/ \E h \in Handles, status \in {"ok", "retry", "err"} : ConnectCallback(h, status)

HandlesSpec == HandlesInit /\ [][HandlesNext]_handlesVars

--------------------------------------------------------------------------------
(* Properties *)

HandlesTypeOK ==
    /\ shared \in Sharing /\ broken \in {"no", "callback", "streaming"}
    /\ DOMAIN handleMap \subseteq Handles /\ \A h \in DOMAIN handleMap : handleMap[h] \in Status
    /\ users \in [Handles -> SUBSET Elements] /\ newConnHandle \in [Elements -> Handles]
    /\ place \in [Elements -> {"off", "connected", "on", "erased"}]
    /\ streaming \in [Elements -> {"idle", "sent", "failed"}]
    /\ connects \in [Elements -> 0 .. MaxConnects]

\* While an element is running, new_gst_nvmsgbroker_render_user_meta_list finds the entry of its
\* handle and does not follow the null pointer that operator[] makes of a missing one (that two
\* callers may get the same handle is what libs/nvmsgbroker/README says of share-connection).
RenderFindsEntry == broken # "streaming"

\* The map has the entries of the elements that are running and no other, so a connection
\* whose handle was used before does not begin with the status of the old one.
EntriesInUse ==
    ~shared => DOMAIN handleMap = {newConnHandle[e] : e \in {f \in Elements : place[f] = "on"}}

\* Without share-connection render finds its entry, and the callback of the library follows a
\* null pointer only while an element is inside start, between nv_msgbroker_connect and the
\* insertion, or inside stop, between the erasing and nv_msgbroker_disconnect.
NullOnlyInWindows ==
    ~shared =>
        /\ RenderFindsEntry
        /\ broken = "callback" => \E e \in Elements : place[e] \in {"connected", "erased"}

\* Without share-connection the map serves the elements that are running: it has their entries,
\* and a null pointer is followed by a callback only, while an element starts or stops.
MapServesElements == EntriesInUse /\ NullOnlyInWindows

\* A stream that was ended because its connection was given up was not ended by mistake:
\* the connection does not come back while the element is running.
FailedMeansGivenUp ==
    \A e \in Elements :
        ~shared /\ streaming[e] = "failed" /\ place[e] = "on" =>
            handleMap[newConnHandle[e]].broker_disconnect
================================================================================
