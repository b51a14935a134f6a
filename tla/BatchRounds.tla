------------------------------ MODULE BatchRounds ------------------------------
(***************************************************************************)
(* One batch after the other: the state BatchPolicy keeps between two      *)
(* calls of form_batch (libs/nvstreammux/nvstreammux_batch.cpp), driven by *)
(* arriving frames and late sources.                                       *)
(*                                                                         *)
(* A source with an entry in the configuration file has the priority given *)
(* there; any other one becomes known when its pad is added and gets       *)
(* DefaultPriority, the most urgent one.                                   *)
(***************************************************************************)
EXTENDS Integers, FiniteSets, Sequences, BatchPolicy

CONSTANTS
    Sources,          \* the sources that may appear
    Priorities,       \* the configuration files: each gives source_props, the
                      \* priority of the sources it lists
    MaxSame,          \* config.max_same_source_frames
    Sizes,            \* the batch sizes get_batch_size may answer
    MaxWaiting        \* bound of the model: frames in a pad's queue

ASSUME BatchRoundsAssumption ==
    /\ IsFiniteSet(Sources)
    /\ \A f \in Priorities :
          DOMAIN f \subseteq Sources /\ \A s \in DOMAIN f : f[s] \in Nat
    /\ MaxSame \in Nat \ {0} /\ Sizes \subseteq Nat /\ MaxWaiting \in Nat

VARIABLES
    config,     \* BatchPolicyConfig: [roundRobin, priority]
    known,      \* the sources in the order of their insertion
    attached,   \* the sources that have a pad
    waiting,    \* the frames in each pad's queue
    position,   \* last_batch_state
    formed,     \* the last batch: [size, offer, num, acc]
    passed      \* history: the full batches a source with frames was left out of

vars == <<config, known, attached, waiting, position, formed, passed>>

\* NVSTREAMMUX_DEFAULT_SOURCE_GROUP_PRIORITY
DefaultPriority == 0

PriorityOf(s) ==
    IF s \in DOMAIN config.priority THEN config.priority[s] ELSE DefaultPriority

\* The members of a finite set of numbers in ascending order.
Ascending(S) ==
    [i \in 1..Cardinality(S) |-> CHOOSE x \in S : Cardinality({y \in S : y < x}) = i - 1]

\* priority_list and the ranges of the multimap sources: a group for each
\* priority, with the sources that have it in the order of their insertion
Groups ==
    LET list == Ascending({PriorityOf(s) : s \in Range(known)})
        range(g) == Ascending({i \in DOMAIN known : PriorityOf(known[i]) = list[g]})
    IN [g \in DOMAIN list |-> [i \in DOMAIN range(g) |-> known[range(g)[i]]]]

NoFrames == [s \in {} |-> 0]

Init ==
    /\ config \in [roundRobin : BOOLEAN, priority : Priorities]
    /\ known \in SetToSeqs(DOMAIN config.priority)
    /\ attached = {}
    /\ waiting = [s \in Sources |-> 0]
    /\ position = [group |-> 0, source |-> 0]
    /\ formed = [size |-> 0, offer |-> NoFrames, num |-> NoFrames, acc |-> 0]
    /\ passed = [s \in Sources |-> 0]

\* add_pad and check_and_update_defaults
AddSource(s) ==
    /\ s \notin attached
    /\ attached' = attached \cup {s}
    /\ known' = IF s \in Range(known) THEN known ELSE Append(known, s)
    /\ UNCHANGED <<config, waiting, position, formed, passed>>

Arrive(s) ==
    /\ s \in attached
    /\ waiting[s] < MaxWaiting
    /\ waiting' = [waiting EXCEPT ![s] = @ + 1]
    /\ UNCHANGED <<config, known, attached, position, formed, passed>>

Allowed(size) == AllowedRepeats(MaxSame, size, 1)
Offer(size) == [s \in attached |-> AtMost(waiting[s], Allowed(size))]

\* The place the next batch starts from is a source of the group it names.
\* With the priority method it is not used.
PositionValid ==
    known # <<>> /\ config.roundRobin =>
        /\ position.group < Len(Groups)
        /\ position.source < Len(Groups[position.group + 1])

\* The multimap "sources" from the first source of a group on.
From(group) == FlattenSeq(SubSeq(Groups, group + 1, Len(Groups)))

\* form_batch if a late source has shifted the groups and the remembered source
\* lies behind the group that now has its place: as many sources as the group
\* has are visited from there on, without a wrap around, then the other groups.
\* A source that is visited again is counted again, unless it gave as many
\* frames as it may.  Reading behind the end of the multimap gives any source
\* or none (read), and the walk goes on anywhere (left).
ShiftedBatch(size, read, left) ==
    LET walk == Walk(Groups, [group |-> position.group, source |-> 0])
        length == Len(Groups[position.group + 1])
        At(k) == IF k \in DOMAIN read THEN read[k]
                 ELSE IF k <= length THEN From(position.group)[position.source + k]
                 ELSE Groups[walk[k][1]][walk[k][2]]
        again(k) == \E m \in 1..(k - 1) : At(m) = At(k)
        Takes(k) == IF \/ At(k) \notin attached
                       \/ again(k) /\ Offer(size)[At(k)] = Allowed(size)
                    THEN 0 ELSE Offer(size)[At(k)]
        acc[k \in 0..Len(walk)] == IF k = 0 THEN 0 ELSE AtMost(size, acc[k-1] + Takes(k))
        full == {k \in 1..Len(walk) : size # 0 /\ acc[k] = size}
        last == IF full = {} THEN Len(walk) ELSE CHOOSE k \in full : \A m \in full : k <= m
        giving == {k \in 1..last : Takes(k) > 0}
    IN [num |-> [s \in {At(k) : k \in giving} |->
                    LET k == CHOOSE v \in giving :
                                 At(v) = s /\ \A w \in giving : At(w) = s => w <= v
                    IN acc[k] - acc[k-1]],
        acc |-> acc[last],
        pos |-> IF full = {} THEN [position EXCEPT !.source = 0]
                ELSE IF last > length THEN After(Groups, walk[last])
                ELSE [position EXCEPT !.source = IF DOMAIN read \cap 1..last = {} THEN @ + last
                                                 ELSE left]]

\* The places of the first group that lie behind the end of the multimap.
Behind == {k \in 1..Len(Groups[position.group + 1]) :
              position.source + k > Len(From(position.group))}

Batches(size) ==
    IF PositionValid
    THEN {FormBatch(Groups, position, config.roundRobin, Offer(size), size)}
    ELSE {ShiftedBatch(size, read, left) :
             read \in [Behind -> Sources \cup {"none"}], left \in 0..Cardinality(Sources)}

\* form_batch, and copy_batch if the batch is full or overdue
Form(size) ==
    /\ known # <<>>
    /\ \E f \in Batches(size) :
          LET Taken(s) == IF s \in DOMAIN f.num THEN f.num[s] ELSE 0
              full == size # 0 /\ f.acc = size
          IN /\ position' = f.pos
             /\ formed' = [size |-> size, offer |-> Offer(size), num |-> f.num,
                           acc |-> f.acc]
             /\ \/ /\ f.acc > 0
                   /\ waiting' = [s \in Sources |-> waiting[s] - Taken(s)]
                   /\ passed' = [s \in Sources |->
                         IF waiting[s] = 0 \/ Taken(s) > 0 \/ ~full THEN 0
                         ELSE AtMost(passed[s] + 1, Cardinality(Sources))]
                \/ ~full /\ UNCHANGED <<waiting, passed>>
    /\ UNCHANGED <<config, known, attached>>

Next ==
    \/ \E s \in Sources : AddSource(s) \/ Arrive(s)
    \/ \E size \in Sizes : Form(size)

Spec == Init /\ [][Next]_vars

--------------------------------------------------------------------------------
(* Properties *)

\* A late source founded a group ahead of the configured ones, under the place
\* that a round-robin walk remembers.
Shifted ==
    /\ config.roundRobin /\ DOMAIN config.priority # {}
    /\ \A s \in DOMAIN config.priority : config.priority[s] # DefaultPriority
    /\ Range(known) # DOMAIN config.priority

\* Type invariant: also, the remembered place exists unless groups were shifted.
TypeOK ==
    /\ known \in Seq(Sources) /\ IsInjective(known)
    /\ attached \subseteq Range(known)
    /\ waiting \in [Sources -> 0..MaxWaiting]
    /\ position \in [group : Nat, source : Nat]
    /\ passed \in [Sources -> Nat]
    /\ ~Shifted => PositionValid

\* A batch holds as many frames as are offered, up to its size, and no source
\* gives more than it has (form_batch visits every source once and wraps).
Exhaustive ==
    /\ ~Shifted => /\ formed.acc = SumFunction(formed.num)
                   /\ formed.acc = AtMost(formed.size, SumFunction(formed.offer))
    /\ \A s \in DOMAIN formed.num : formed.num[s] <= formed.offer[s]

\* Round robin, one priority: a source with frames is left out of fewer consecutive full
\* batches than there are sources (last_batch_state.source_map_position).
EveryoneInTurn ==
    config.roundRobin /\ Len(Groups) = 1 => \A s \in Sources : passed[s] < Len(known)

\* Priority: a source gives frames only if every more urgent source gave all
\* it offered (priority_list is walked in ascending order).
UrgentFirst ==
    ~config.roundRobin => \A s \in DOMAIN formed.num : formed.num[s] > 0 =>
        \A u \in DOMAIN formed.offer :
            PriorityOf(u) < PriorityOf(s) =>
                u \in DOMAIN formed.num /\ formed.num[u] = formed.offer[u]
================================================================================
