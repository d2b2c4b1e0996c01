---------------------------- MODULE MCSocketEdge ----------------------------
(* Instances of SocketEdge for TLC. *)
EXTENDS SocketEdge

\* A slice of two units, an empty one, a slice of one unit in the slot of the
\* first.
MixedSizes == [k \in Slices |-> IF k % 2 = 1 THEN 0 ELSE 2 - (k \div 2)]
=============================================================================
