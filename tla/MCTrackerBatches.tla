--------------------------- MODULE MCTrackerBatches ----------------------------
(* Configurations of the tracker for model checking. *)
EXTENDS TrackerBatches

\* Whole batches, with two frames of a stream in one batch.
WholeBatches ==
    [sizes |-> <<>>, fixed |-> <<>>, pool |-> 1, misc |-> 1, trials |-> 0, initial |-> {1},
     lists |-> {<<{1}>>, <<{1}, {1}>>}, items |-> 3, env |-> {"eos", "convert-fails", "stop"}]

\* The same without surface transforms, and streams that come and go.
Untransformed ==
    [sizes |-> <<>>, fixed |-> <<>>, pool |-> 0, misc |-> 0, trials |-> 0, initial |-> {1},
     lists |-> {<<{1}>>, <<{2}>>}, items |-> 3, env |-> {"delete", "stop"}]

\* Sub-batches of different sizes, filled as streams show up and go: four streams, three places.
Dynamic ==
    [sizes |-> <<1, 2>>, fixed |-> <<>>, pool |-> 2, misc |-> 0, trials |-> -1,
     initial |-> 1 .. 4, lists |-> {<<{1, 2, 3}>>, <<{4}>>}, items |-> 3, env |-> {"delete"}]

\* A stream that is reset or goes, and some of whose frames have no object.
Resettable ==
    [sizes |-> <<1>>, fixed |-> <<>>, pool |-> 1, misc |-> 0, trials |-> 1, initial |-> {1},
     lists |-> {<<{1}>>}, items |-> 4, env |-> {"reset", "delete", "no-objects"}]

\* An element that is stopped, with user meta and a batch with two frames of a stream.
Stoppable ==
    [sizes |-> <<1, 2>>, fixed |-> <<>>, pool |-> 1, misc |-> 1, trials |-> 1, initial |-> {1, 2},
     lists |-> {<<{1, 2}>>, <<{1}, {1}>>}, items |-> 2, env |-> {"stop"}]

\* Assigned sub-batches, and batches that have no frame for one of them.
Assigned ==
    [sizes |-> <<1, 1>>, fixed |-> <<{1}, {2}>>, pool |-> 2, misc |-> 0, trials |-> 0,
     initial |-> {1, 2}, lists |-> {<<{1, 2}>>, <<{2}>>}, items |-> 3, env |-> {}]

AllConfigs == {WholeBatches, Untransformed, Dynamic, Resettable, Stoppable, Assigned}
================================================================================
