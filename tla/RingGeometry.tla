---------------------------- MODULE RingGeometry ----------------------------
(***************************************************************************)
(* How the ring kernels cut a buffer: channels, loops, chunks and slices,  *)
(* and the order in which each rank sends and receives them.  Sizes are in *)
(* elements of the collective's type.                                      *)
(***************************************************************************)
EXTENDS Integers, SequencesExt

CONSTANTS kRanks,         \* ranks of the ring
          kChannels,      \* blocks of a kernel, each with its own edges
          kVectorElems,   \* kVectorBytes / sizeof(T)
          grain_elems,    \* simple_grain_elems<T>()
          step_elems      \* nominal elements of a FIFO step

ASSUME GeometryAssumption ==
    /\ kRanks \in Nat /\ kRanks >= 2
    /\ kChannels \in Nat \ {0} /\ kVectorElems \in Nat \ {0}
    /\ grain_elems \in Nat \ {0} /\ step_elems \in Nat \ {0}

Ranks == 0 .. kRanks - 1
Channels == 0 .. kChannels - 1
Succ(r) == (r + 1) % kRanks
Pred(r) == (r + kRanks - 1) % kRanks

kSliceSteps == 2
kChunkSteps == 4
SlicesPerChunk == kChunkSteps \div kSliceSteps

div_up(value, divisor) == (value + divisor - 1) \div divisor
align_up(value, alignment) == div_up(value, alignment) * alignment

slice_elems(n) ==
    LET by_count == div_up(n, (kVectorElems * kChunkSteps) \div kSliceSteps) * kVectorElems
        by_step == (step_elems * kSliceSteps) \div 32
    IN  IF by_count > by_step THEN by_count ELSE by_step

\* How much of a chunk that starts at chunk_offset lies within rem_count.
nelem(chunk_count, rem_count, chunk_offset) ==
    CASE chunk_offset >= rem_count -> 0
      [] chunk_offset < rem_count /\ rem_count - chunk_offset < chunk_count ->
            rem_count - chunk_offset
      [] OTHER -> chunk_count

\* Mutant: the end of the last channel is aligned down as well.
cbd_part_aligned(count, channel) ==
    LET align(x) == (x \div kVectorElems) * kVectorElems
        begin == align((count * channel) \div kChannels)
        part_count == align((count * (channel + 1)) \div kChannels) - begin
    IN  [offset |-> begin, count |-> part_count,
         chunk |-> IF part_count = 0 THEN 0
                   ELSE align_up(div_up(part_count, kRanks), grain_elems)]

\* The part of an all-reduce buffer that a channel works on.
cbd_part(count, channel) ==
    LET align(x) == (x \div kVectorElems) * kVectorElems
        begin == align((count * channel) \div kChannels)
        last == (count * (channel + 1)) \div kChannels
        end == IF channel + 1 # kChannels THEN align(last) ELSE last
        part_count == end - begin
    IN  [offset |-> begin, count |-> part_count,
         chunk |-> IF part_count = 0 THEN 0
                   ELSE align_up(div_up(part_count, kRanks), grain_elems)]

\* The part of every rank's chunk that a channel of the other two works on.
channel_part(count, channel) ==
    LET begin == (count * channel) \div kChannels
        end == (count * (channel + 1)) \div kChannels
    IN  [offset |-> begin, count |-> end - begin]

\* A FIFO slot of a distributed communicator holds one nominal step.
slot_elems == step_elems

\* Mutant: a chunk is not cut to the size of a slot.
uncut_chunk_elems(chunk_elems) == chunk_elems

loop_chunk_elems(chunk_elems) ==
    IF chunk_elems < slot_elems THEN chunk_elems ELSE slot_elems

-----------------------------------------------------------------------------
(* The slice operations of a kernel, in program order.  An operation moves  *)
(* one slice: n elements at position `at`.  Positions are those of the      *)
(* buffer that holds every rank's chunk (the output of an all-gather, the   *)
(* input of a reduce-scatter).                                              *)

Receives == {"recv_reduce_send", "recv_reduce_copy_send", "recv_reduce_copy",
             "recv_copy_send", "direct_recv"}
Sends == {"direct_send", "recv_reduce_send", "recv_reduce_copy_send", "recv_copy_send"}

\* The slices of one chunk; the empty ones are skipped.
SliceOps(op, at, n) ==
    LET size == slice_elems(n)
        slice(i) == [op |-> op, at |-> at + i * size, n |-> nelem(size, n, i * size)]
    IN  SelectSeq([i \in 1 .. SlicesPerChunk |-> slice(i - 1)], LAMBDA s : s.n > 0)

\* What rank r does with the chunks of one loop: pairs of an operation and
\* the chunk it applies to.
AllReduceOps(r) ==
    <<<<"direct_send", (r + kRanks - 1) % kRanks>>>>
    \o [j \in 1 .. kRanks - 2 |-> <<"recv_reduce_send", (r + kRanks - (j + 1)) % kRanks>>]
    \o <<<<"recv_reduce_copy_send", r>>>>
    \o [j \in 1 .. kRanks - 2 |-> <<"recv_copy_send", (r + kRanks - j) % kRanks>>]
    \o <<<<"direct_recv", (r + 1) % kRanks>>>>

\* Mutant: the chunks are forwarded in the opposite order.
AllGatherOpsForward(r) ==
    <<<<"copy_worker", r>>, <<"direct_send", r>>>>
    \o [j \in 1 .. kRanks - 2 |-> <<"recv_copy_send", (r + j) % kRanks>>]
    \o <<<<"direct_recv", (r + 1) % kRanks>>>>

AllGatherOps(r) ==
    <<<<"copy_worker", r>>, <<"direct_send", r>>>>
    \o [j \in 1 .. kRanks - 2 |-> <<"recv_copy_send", (r + kRanks - j) % kRanks>>]
    \o <<<<"direct_recv", (r + 1) % kRanks>>>>

ReduceScatterOps(r) ==
    <<<<"direct_send", (r + kRanks - 1) % kRanks>>>>
    \o [j \in 1 .. kRanks - 2 |-> <<"recv_reduce_send", (r + kRanks - (j + 1)) % kRanks>>]
    \o <<<<"recv_reduce_copy", r>>>>

\* The loop of ring_simple_kernel that starts at elem_offset, and the loops
\* that follow it.  Only the last loop uses a smaller chunk.
AllReduceLoops(count, channel, r) ==
    LET part == cbd_part(count, channel)
        full == loop_chunk_elems(part.chunk)
        loops == IF part.count = 0 THEN 0 ELSE div_up(part.count, kRanks * full)
        loop(i) ==
            LET elem_offset == i * kRanks * full
                rem_count == part.count - elem_offset
                loop_chunk == IF rem_count < kRanks * full
                              THEN align_up(div_up(rem_count, kRanks), kVectorElems)
                              ELSE full
                chunkOps(o) ==
                    SliceOps(o[1], part.offset + elem_offset + o[2] * loop_chunk,
                             nelem(loop_chunk, rem_count, o[2] * loop_chunk))
                ops == AllReduceOps(r)
            IN  FlattenSeq([j \in DOMAIN ops |-> chunkOps(ops[j])])
    IN  FlattenSeq([i \in 1 .. loops |-> loop(i - 1)])

\* The loops of the all-gather and reduce-scatter kernels.
ChunkedLoops(count, channel, ops) ==
    LET part == channel_part(count, channel)
        loop(i) ==
            LET elem_offset == i * slot_elems
                work == loop_chunk_elems(part.count - elem_offset)
                chunkOps(o) ==
                    SliceOps(o[1], o[2] * count + part.offset + elem_offset, work)
            IN  FlattenSeq([j \in DOMAIN ops |-> chunkOps(ops[j])])
    IN  FlattenSeq([i \in 1 .. div_up(part.count, slot_elems) |-> loop(i - 1)])

\* All the slice operations of one launch on one rank and channel.
SliceProgram(coll, count, channel, r) ==
    CASE coll = "all_reduce" -> AllReduceLoops(count, channel, r)
      [] coll = "all_gather" -> ChunkedLoops(count, channel, AllGatherOps(r))
      [] coll = "reduce_scatter" ->
            ChunkedLoops(count, channel, ReduceScatterOps(r))

Collectives == {"all_reduce", "all_gather", "reduce_scatter"}
=============================================================================
