------------------------------ MODULE MCInferQueues ------------------------------
(* Configurations of the inference element for model checking. *)
EXTENDS InferQueues

\* Full frames: two batches for a buffer, one when it is skipped, and failures of every kind.
Frames ==
    [mode |-> "frames", out |-> 2, auto |-> FALSE, meta |-> FALSE,
     shapes |-> {<<>>, <<"infer", "infer">>}, items |-> 3,
     env |-> {"convert-fails", "queue-fails", "output-fails"}]

\* Objects, with models loaded meanwhile, output tensors that go downstream, and a stop.
Objects ==
    [mode |-> "objects", out |-> 2, auto |-> TRUE, meta |-> TRUE,
     shapes |-> {<<"infer", "attach">>, <<"attach">>}, items |-> 3, env |-> {"update", "stop", "output-fails"}]

\* Asynchronous classification.
Async ==
    [mode |-> "async", out |-> 1, auto |-> FALSE, meta |-> FALSE,
     shapes |-> {<<"infer">>, <<"infer", "infer">>}, items |-> 3,
     env |-> {"update"}]

\* Input tensors, with little memory.
Tensor ==
    [mode |-> "tensor", out |-> 1, auto |-> TRUE, meta |-> TRUE,
     shapes |-> {<<"infer">>, <<"infer", "infer">>}, items |-> 4, env |-> {"queue-fails"}]

\* Input tensors, and a model that is loaded.
TensorUpdate == [Tensor EXCEPT !.env = {"update"}]

\* Asynchronous classification that is stopped.
AsyncStop == [Async EXCEPT !.env = {"stop"}]

AllConfigs == {Frames, Objects, Async, Tensor}
OnlyTensorUpdate == {TensorUpdate}
OnlyAsyncStop == {AsyncStop}
================================================================================
