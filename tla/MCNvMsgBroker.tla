------------------------------ MODULE MCNvMsgBroker -------------------------------
(* Values for model checking the message broker element. *)
EXTENDS NvMsgBroker

BothAPIs == BOOLEAN
OnlyNewAPI == {TRUE}
Unshared == {FALSE}
Shared == {TRUE}
PayloadCounts == {1, 2}
================================================================================
