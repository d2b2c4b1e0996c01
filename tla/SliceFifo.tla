----------------------------- MODULE SliceFifo -----------------------------
(***************************************************************************)
(* What one directed ring edge promises to the two collective kernels at   *)
(* its ends, whatever transport carries it: the slices the upstream kernel *)
(* publishes are handed to the downstream kernel once each, in order and   *)
(* unaltered.  A slice is identified with its index, so the content of a   *)
(* slice is the index at which it was published.  An empty slice carries   *)
(* nothing and may be passed over by the reader at any time.               *)
(***************************************************************************)
EXTENDS Integers

CONSTANTS TotalSlices,   \* how many slices the upstream kernel publishes
          SliceBytes     \* the payload size of every slice

VARIABLES sent,    \* number of slices published
          taken,   \* number of slices consumed
          value    \* content of the last non-empty slice consumed

vars == <<sent, taken, value>>

Init == sent = 0 /\ taken = 0 /\ value = -1

Send == /\ sent < TotalSlices
        /\ sent' = sent + 1
        /\ UNCHANGED <<taken, value>>

Take == /\ taken < TotalSlices
        /\ taken < sent \/ SliceBytes[taken] = 0
        /\ taken' = taken + 1
        /\ value' = IF SliceBytes[taken] = 0 THEN value ELSE taken
        /\ UNCHANGED sent

Next == Send \/ Take

Spec == Init /\ [][Next]_vars
=============================================================================
