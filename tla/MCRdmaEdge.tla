---------------------------- MODULE MCRdmaEdge ----------------------------
(* Instances of RdmaEdge for TLC. *)
EXTENDS RdmaEdge

\* One slot of the round carries empty slices: they come behind a posted slice
\* and before one, and the sizes of the others change from round to round.
MixedSizes == [k \in 0 .. TotalSlices - 1 |-> IF k % max_inflight = 2 THEN 0 ELSE k + 1]
=============================================================================
