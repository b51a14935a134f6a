------------------------------ MODULE MCStreamDemux -------------------------------
(* Configurations of the stream demuxer for model checking. *)
EXTENDS StreamDemux

\* One video stream with several frames, whose pads come and go at any time, and a peer that
\* fails.
Video == [isAudio |-> FALSE, streams |-> {1}, frames |-> 3,
          env |-> {"late-request", "release", "request-again", "unlinked", "push-fails"}]

\* Two video streams, with pads that go and come again.
Again == [isAudio |-> FALSE, streams |-> {1, 2}, frames |-> 1,
          env |-> {"release", "request-again"}]

\* Two video streams with pads that come late, and peers that fail.
Late == [isAudio |-> FALSE, streams |-> {1, 2}, frames |-> 2,
         env |-> {"late-request", "release", "push-fails"}]

\* Video streams that begin again, and an application that asks for a pad it has.
Reopened == [isAudio |-> FALSE, streams |-> {1, 2}, frames |-> 2,
             env |-> {"reopen", "request-twice"}]

\* A video stream that begins again, on pads that were requested again.
Renewed == [isAudio |-> FALSE, streams |-> {1}, frames |-> 1,
            env |-> {"reopen", "release", "request-again"}]

Audio == [isAudio |-> TRUE, streams |-> {1, 2}, frames |-> 2,
          env |-> {"release", "unlinked", "push-fails"}]

AllConfigs == {Video, Again, Late, Reopened, Renewed, Audio}
================================================================================
