----------------------------- MODULE MCBatchRounds -----------------------------
(***************************************************************************)
(* BatchRounds for TLC: the configurations of the runs.                    *)
(***************************************************************************)
EXTENDS BatchRounds

CONSTANTS s1, s2, s3

MCSources == {s1, s2, s3}

\* Either no source is in the configuration file, and all have the default
\* priority; or two are, one of them with the default priority; or two less
\* urgent ones are, and the third founds a group ahead of theirs.
MCPriorities == {[s \in {} |-> 0],
                 [s \in {s1, s2} |-> IF s = s1 THEN 0 ELSE 1],
                 [s \in {s1, s2} |-> 1]}
================================================================================
