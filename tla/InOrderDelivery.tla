---------------------------- MODULE InOrderDelivery ----------------------------
(***************************************************************************)
(* What the muxer promises to the sources of its pads, without queues,     *)
(* threads, batches or counters: each buffer that was received is          *)
(* forwarded once, the buffers of a pad in the order of their arrival, and *)
(* the end of all streams is declared only when nothing is left to forward.*)
(***************************************************************************)
EXTENDS Integers

CONSTANT Pads

VARIABLES
    received,   \* the numbers of the buffers received, by pad
    forwarded,  \* those that went downstream
    finished    \* EOS was declared, and no stream began since

vars == <<received, forwarded, finished>>

Init ==
    /\ received = [p \in Pads |-> {}]
    /\ forwarded = [p \in Pads |-> {}]
    /\ finished = FALSE

\* A new buffer is younger than all the pad received before.
Receive(p) ==
    /\ \E n \in received'[p] \ received[p] :
          /\ received' = [received EXCEPT ![p] = @ \cup {n}]
          /\ \A m \in received[p] : m < n
    /\ UNCHANGED <<forwarded, finished>>

\* A batch: of some pads, the oldest buffers that were not yet forwarded.
Forward ==
    /\ \A p \in Pads :
          /\ forwarded[p] \subseteq forwarded'[p]
          /\ forwarded'[p] \subseteq received[p]
          /\ \A n \in forwarded'[p], m \in received[p] \ forwarded'[p] : n < m
    /\ forwarded' # forwarded
    /\ UNCHANGED <<received, finished>>

Finish ==
    /\ ~finished
    /\ \A p \in Pads : forwarded[p] = received[p]
    /\ finished' = TRUE
    /\ UNCHANGED <<received, forwarded>>

\* A stream begins.
Begin ==
    /\ finished
    /\ finished' = FALSE
    /\ UNCHANGED <<received, forwarded>>

Next == (\E p \in Pads : Receive(p)) \/ Forward \/ Finish \/ Begin

Spec == Init /\ [][Next]_vars
================================================================================
