------------------------------ MODULE BatchPolicy ------------------------------
(***************************************************************************)
(* The batch-forming algorithm of the new stream muxer                     *)
(* (libs/nvstreammux/nvstreammux_batch.cpp, BatchPolicy::form_batch and    *)
(* BatchPolicy::update_with_source) as constant-level operators.           *)
(*                                                                         *)
(* A configuration is a sequence of groups, one per priority in ascending  *)
(* order (SortedList priority_list); a group is the sequence of the        *)
(* sources with that priority in insertion order (the multimap "sources"). *)
(* A position remembers where the previous batch stopped                   *)
(* (last_batch_state): [group |-> g, source |-> s], both counted from 0.   *)
(* offer[s] is what source s may contribute, for the sources that have a   *)
(* pad; a source without a pad is stepped over.                            *)
(***************************************************************************)
EXTENDS Integers, SequencesExt

AtMost(a, b) == IF a <= b THEN a ELSE b
AtLeast(a, b) == IF a >= b THEN a ELSE b

\* Faulty variant of Start: the priority method, too, goes on where it stopped.
StartAnywhere(groups, pos, roundRobin) == pos

\* Where a walk over the sources starts; with the priority method it is always
\* the first source of the most urgent group.
Start(groups, pos, roundRobin) ==
    IF roundRobin THEN pos ELSE [group |-> 0, source |-> 0]

\* Faulty variant of Walk: the first group is not wrapped around.
WalkOnce(groups, start) ==
    FlattenSeq([j \in 1..Len(groups) |->
        LET g == ((start.group + j - 1) % Len(groups)) + 1
            skip == IF j = 1 THEN start.source ELSE 0
        IN [i \in 1..(Len(groups[g]) - skip) |-> <<g, i + skip>>]])

\* The walk, a sequence of places <<group, index>>: the groups wrap around; the
\* first one is entered at the remembered source and wraps around too, the
\* others are walked from their first source.  (BatchRounds has what the code
\* does if the remembered source is not in the remembered group.)
Walk(groups, start) ==
    FlattenSeq([j \in 1..Len(groups) |->
        LET g == ((start.group + j - 1) % Len(groups)) + 1
            skip == IF j = 1 THEN start.source ELSE 0
        IN [i \in 1..Len(groups[g]) |-> <<g, ((i - 1 + skip) % Len(groups[g])) + 1>>]])

\* Faulty variants of After: no wrap around; the last source comes first again.
AfterNoWrap(groups, place) == [group |-> place[1] - 1, source |-> place[2]]
AfterSame(groups, place) == [group |-> place[1] - 1, source |-> place[2] - 1]

\* The position after the place that filled the batch: the next source of the
\* same group.
After(groups, place) ==
    [group |-> place[1] - 1, source |-> place[2] % Len(groups[place[1]])]

\* Faulty variant of AllowedRepeats: the overall bound is dropped.
AllowedPerSource(maxSame, size, perSource) == AtLeast(size, perSource)

\* How many frames one source may have in one batch: the overall bound
\* max_same_source_frames, and for each source the larger of the batch size
\* and its max_num_frames_per_batch.
AllowedRepeats(maxSame, size, perSource) == AtMost(maxSame, AtLeast(size, perSource))

\* form_batch: visit the sources until the batch is full; each source adds as
\* many frames as it offers and as still fit.  The result holds the number of
\* frames per visited source, their sum, and the position for the next batch.
FormBatch(groups, pos, roundRobin, offer, size) ==
    LET start == Start(groups, pos, roundRobin)
        walk == Walk(groups, start)
        At(k) == groups[walk[k][1]][walk[k][2]]
        Offer(k) == IF At(k) \in DOMAIN offer THEN offer[At(k)] ELSE 0
        acc[k \in 0..Len(walk)] == IF k = 0 THEN 0 ELSE AtMost(size, acc[k-1] + Offer(k))
        full == {k \in 1..Len(walk) : size # 0 /\ acc[k] = size}
        last == IF full = {} THEN Len(walk) ELSE CHOOSE k \in full : \A m \in full : k <= m
        visited == {k \in 1..last : At(k) \in DOMAIN offer}
    IN [num |-> [s \in {At(k) : k \in visited} |->
                    LET k == CHOOSE v \in visited : At(v) = s IN acc[k] - acc[k-1]],
        acc |-> acc[last],
        pos |-> IF full # {}
                THEN After(groups, walk[last])
                ELSE [group |-> start.group,
                      source |-> IF Len(groups) = 1 THEN start.source ELSE 0]]
================================================================================
