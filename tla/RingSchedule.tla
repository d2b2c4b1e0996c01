---------------------------- MODULE RingSchedule ----------------------------
(***************************************************************************)
(* The schedules of the ring kernels over a sweep of element counts: what  *)
(* the two ends of every edge must agree on, and that the slices cover the *)
(* buffer.  One state is one launch.                                       *)
(***************************************************************************)
EXTENDS RingGeometry

CONSTANTS MaxCount   \* bound: the largest element count of the sweep

VARIABLES coll, count

Init == coll \in Collectives /\ count = 1

\* The benchmark's sweep, one element at a time.
NextSize == /\ count < MaxCount
            /\ count' = count + 1
            /\ UNCHANGED coll

Spec == Init /\ [][NextSize]_<<coll, count>>

Program(channel, r) == SliceProgram(coll, count, channel, r)
Span(op) == op.at .. op.at + op.n - 1
Slice(op) == <<op.at, op.n>>
SliceSeq(program, ops) ==
    LET chosen == SelectSeq(program, LAMBDA o : o.op \in ops)
    IN  [i \in DOMAIN chosen |-> Slice(chosen[i])]

-----------------------------------------------------------------------------
\* "Both ring peers compute the same work, so eliding wait/post/step keeps
\* edge watermarks aligned": the slices a rank sends are, one by one, the
\* slices its successor receives.
PeersAgree ==
    \A channel \in Channels, r \in Ranks :
        SliceSeq(Program(channel, r), Sends) = SliceSeq(Program(channel, Succ(r)), Receives)

\* A slice always fits in the FIFO slot it is staged in.
SliceFitsSlot ==
    \A channel \in Channels, r \in Ranks :
        LET program == Program(channel, r)
        IN  \A i \in DOMAIN program : program[i].n \in 1 .. slot_elems

\* What each operation that writes the output buffer covers, over all the
\* channels, is the whole output, and no element is written twice: channel
\* boundaries are contiguous and the tail of the last loop is not lost.
Output(r) == IF coll = "reduce_scatter"
             THEN r * count .. (r + 1) * count - 1
             ELSE 0 .. (IF coll = "all_reduce" THEN count ELSE kRanks * count) - 1

Writes == {"copy_worker", "recv_reduce_copy_send", "recv_reduce_copy",
           "recv_copy_send", "direct_recv"}

OutputCoveredOnce ==
    \A r \in Ranks :
        LET programs == FlattenSeq([c \in 1 .. kChannels |-> Program(c - 1, r)])
            writes == SelectSeq(programs, LAMBDA o : o.op \in Writes)
        IN  /\ UNION {Span(writes[i]) : i \in DOMAIN writes} = Output(r)
            /\ \A i, j \in DOMAIN writes :
                   i # j => \/ writes[i].at + writes[i].n <= writes[j].at
                            \/ writes[j].at + writes[j].n <= writes[i].at
=============================================================================
