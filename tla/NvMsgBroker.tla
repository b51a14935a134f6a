------------------------------- MODULE NvMsgBroker --------------------------------
(***************************************************************************)
(* The message broker element nvmsgbroker.  Its start, stop and render     *)
(* choose by the property new-api between the functions modelled in        *)
(* MsgBroker and those modelled in BrokerHandles; what the one interface   *)
(* keeps, the other does not touch.                                        *)
(***************************************************************************)
EXTENDS MsgBroker, BrokerHandles

CONSTANT NewAPIs    \* the values the property may have
VARIABLE newAPI

ASSUME APIAssumption == NewAPIs \subseteq BOOLEAN

vars == <<newAPI, brokerVars, handlesVars>>

Init == newAPI \in NewAPIs /\ BrokerInit /\ HandlesInit

\* gst_nvmsgbroker_start, gst_nvmsgbroker_stop and gst_nvmsgbroker_render
Next ==
    \/ ~newAPI /\ BrokerNext /\ UNCHANGED <<newAPI, handlesVars>>
    \/ newAPI /\ HandlesNext /\ UNCHANGED <<newAPI, brokerVars>>

Spec == Init /\ [][Next]_vars

FairSpec == Spec /\ BrokerFairness

TypeOK == newAPI \in NewAPIs /\ BrokerTypeOK /\ HandlesTypeOK
================================================================================
