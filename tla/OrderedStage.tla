------------------------------ MODULE OrderedStage ------------------------------
(***************************************************************************)
(* What an element with threads of its own promises about the items (the   *)
(* buffers and the serialized events) that a pipeline hands it: an item    *)
(* enters once, in the order of arrival, leaves at most once, and leaves   *)
(* only after every earlier item that it may not overtake.  Items may      *)
(* arrive together, be refused, or be dropped when the element stops.      *)
(***************************************************************************)
EXTENDS Naturals, Sequences

VARIABLES
    overtaking, \* the pairs <<n, m>> such that n may leave before the earlier m: an input
    entered,    \* the number of items that arrived; an item is its number
    gone,       \* the items that were refused or dropped
    left        \* the items that left, in the order in which they left

vars == <<entered, gone, left>>

Left == {left[k] : k \in DOMAIN left}

Init == entered = 0 /\ gone = {} /\ left = <<>>

\* An item arrives, and may be refused at once.
Enter ==
    /\ entered' = entered + 1
    /\ gone' \in {gone, gone \cup {entered + 1}}
    /\ UNCHANGED left

\* Several items arrive together.
EnterTogether ==
    /\ entered' \in Nat /\ entered' > entered
    /\ UNCHANGED <<gone, left>>

\* Items are given up.
Drop ==
    /\ gone \subseteq gone'
    /\ (gone' \ gone) \subseteq (1 .. entered) \ Left
    /\ UNCHANGED <<entered, left>>

\* Item n leaves: nothing it may not overtake is still inside.
Leave(n) ==
    /\ n \notin Left \cup gone
    /\ \A m \in 1 .. (n - 1) : m \in Left \cup gone \/ <<n, m>> \in overtaking
    /\ left' = Append(left, n)
    /\ UNCHANGED <<entered, gone>>

Next == Enter \/ EnterTogether \/ Drop \/ \E n \in 1 .. entered : Leave(n)

Spec == Init /\ [][Next]_vars
================================================================================
