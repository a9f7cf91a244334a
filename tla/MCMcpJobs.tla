----------------------------- MODULE MCMcpJobs -----------------------------
(* Three jobs for a table of one, one of them polled.                         *)
EXTENDS McpJobs

CONSTANTS j1, j2, j3

MCJob     == {j1, j2, j3}
MCWatched == {j1}

\* Eviction tells a running job from a finished one, not how it finished, so only
\* the polled job needs every ending.
MCEnds == [j \in MCJob |-> IF j = j1 THEN {"report", "violation", "exception"} ELSE {"report"}]
=============================================================================
