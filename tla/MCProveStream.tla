--------------------------- MODULE MCProveStream ---------------------------
(* Two requests competing for one slot, a queue of two, runs of one finding.  *)
EXTENDS ProveStream

CONSTANTS r1, r2

MCRequest == {r1, r2}
MCFetched == {r1}
=============================================================================
