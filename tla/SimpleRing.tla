----------------------------- MODULE SimpleRing -----------------------------
(***************************************************************************)
(* The collective kernels of all the ranks, on edges whose FIFO and step   *)
(* counters both ends address directly (shared memory, P2P).  One block of *)
(* each kernel is modelled, that of one channel; the channels share        *)
(* nothing.  A launch is one collective call, made by every rank; on each  *)
(* rank the launches run one after the other.                              *)
(*                                                                         *)
(* Step counters count slices (units of kSliceSteps), so a FIFO has        *)
(* fifo_slots = kFifoSteps / kSliceSteps slots and slice k of an edge is   *)
(* in slot k % fifo_slots.  Edge e leads from rank e to its successor.     *)
(***************************************************************************)
EXTENDS RingGeometry

CONSTANTS fifo_slots,      \* kFifoSteps / kSliceSteps
          early_elems,     \* kEarlyRecvCreditMaxBytes, in elements
          channel,         \* the block that is modelled
          Plans            \* the sequences of launches to consider

ASSUME RingAssumption ==
    /\ fifo_slots \in Nat \ {0} /\ early_elems \in Nat /\ channel \in Channels
    /\ \A plan \in Plans : \A l \in DOMAIN plan :
            plan[l].coll \in Collectives /\ plan[l].count \in Nat \ {0}

VARIABLES
    plan,              \* the launches of this behaviour
    launch, running,   \* per rank: launches begun, whether the last still runs
    ip, todo,          \* per rank: next slice operation, rest of the current one
    send_step, recv_step, send_head_cache, recv_tail_cache,   \* registers
    send_base_steps, recv_base_steps,                         \* persistent
    head, tail, fifo,  \* per edge: the shared counters and slots
    output             \* per rank: the output buffer of the current launch

registers == <<send_step, recv_step, send_head_cache, recv_tail_cache>>
base == <<send_base_steps, recv_base_steps>>
edges == <<head, tail, fifo>>
vars == <<plan, launch, running, ip, todo, registers, base, edges, output>>

\* The content of a slice: the launch, the position and the size it belongs
\* to, and the ranks whose input was combined into it.
Corrupt == {-1}
Nothing == [step |-> -1, launch |-> 0, at |-> 0, n |-> 0, of |-> {}]

\* The program of every rank for every launch; evaluated once.
Programs ==
    [p \in Plans |-> [l \in DOMAIN p |->
        [r \in Ranks |-> SliceProgram(p[l].coll, p[l].count, channel, r)]]]
Program(r) == Programs[plan][launch[r]][r]

\* The positions of the largest buffer in use.
Positions == 0 .. kRanks * Max(UNION {{p[l].count : l \in DOMAIN p} : p \in Plans}) - 1

Init ==
    /\ plan \in Plans
    /\ launch = [r \in Ranks |-> 0] /\ running = [r \in Ranks |-> FALSE]
    /\ ip = [r \in Ranks |-> 1] /\ todo = [r \in Ranks |-> {}]
    /\ send_step = [r \in Ranks |-> 0] /\ recv_step = [r \in Ranks |-> 0]
    /\ send_head_cache = [r \in Ranks |-> 0] /\ recv_tail_cache = [r \in Ranks |-> 0]
    /\ send_base_steps = [r \in Ranks |-> 0] /\ recv_base_steps = [r \in Ranks |-> 0]
    /\ head = [e \in Ranks |-> 0] /\ tail = [e \in Ranks |-> 0]
    /\ fifo = [e \in Ranks |-> [s \in 0 .. fifo_slots - 1 |-> Nothing]]
    /\ output = [r \in Ranks |-> [i \in Positions |-> {}]]

-----------------------------------------------------------------------------
(* Starting and ending a launch.                                            *)

\* The kernel picks up the persistent base steps; both caches start there.
StartKernel(r) ==
    /\ ~running[r] /\ launch[r] < Len(plan)
    /\ launch' = [launch EXCEPT ![r] = @ + 1]
    /\ running' = [running EXCEPT ![r] = TRUE]
    /\ ip' = [ip EXCEPT ![r] = 1]
    /\ send_step' = [send_step EXCEPT ![r] = send_base_steps[r]]
    /\ recv_step' = [recv_step EXCEPT ![r] = recv_base_steps[r]]
    /\ send_head_cache' = [send_head_cache EXCEPT ![r] = send_base_steps[r]]
    /\ recv_tail_cache' = [recv_tail_cache EXCEPT ![r] = recv_base_steps[r]]
    /\ output' = [output EXCEPT ![r] = [i \in Positions |-> {}]]
    /\ UNCHANGED <<plan, todo, base, edges>>

\* Mutant: the receive side's base step is not saved.
EndKernelSendOnly(r) ==
    /\ running[r] /\ ip[r] > Len(Program(r)) /\ todo[r] = {}
    /\ running' = [running EXCEPT ![r] = FALSE]
    /\ send_base_steps' = [send_base_steps EXCEPT ![r] = send_step[r]]
    /\ UNCHANGED <<plan, launch, ip, todo, registers, recv_base_steps, edges, output>>

\* An empty part makes the kernel return at once; the steps are unchanged.
EndKernel(r) ==
    /\ running[r] /\ ip[r] > Len(Program(r)) /\ todo[r] = {}
    /\ running' = [running EXCEPT ![r] = FALSE]
    /\ send_base_steps' = [send_base_steps EXCEPT ![r] = send_step[r]]
    /\ recv_base_steps' = [recv_base_steps EXCEPT ![r] = recv_step[r]]
    /\ UNCHANGED <<plan, launch, ip, todo, registers, edges, output>>

-----------------------------------------------------------------------------
(* One slice operation: wait, move the data, publish.                       *)

\* The waits poll the shared counter only while the cached value is too old,
\* and leave the value that ended the wait in the cache.
RecvTail(r) == IF recv_tail_cache[r] >= recv_step[r] + 1
               THEN recv_tail_cache[r] ELSE tail[Pred(r)]
SendHead(r) == IF send_head_cache[r] + fifo_slots >= send_step[r] + 1
               THEN send_head_cache[r] ELSE head[r]

\* Mutant: the slot of the slice before the awaited one is enough.
RecvReadyOffByOne(r) == RecvTail(r) >= recv_step[r]
RecvReady(r) == RecvTail(r) >= recv_step[r] + 1

\* Mutant: one slice too many in the FIFO.
SendCreditOffByOne(r) == SendHead(r) + fifo_slots >= send_step[r]
SendCredit(r) == SendHead(r) + fifo_slots >= send_step[r] + 1

Slot(step) == step % fifo_slots

Input(r, o) == [launch |-> launch[r], at |-> o.at, n |-> o.n, of |-> {r}]
Content(s) == [launch |-> s.launch, at |-> s.at, n |-> s.n, of |-> s.of]

\* The reduction of two slices is good only if they are the same elements of
\* the same launch and no contribution is counted twice.
Combine(a, b) ==
    [b EXCEPT !.of = IF /\ <<a.launch, a.at, a.n>> = <<b.launch, b.at, b.n>>
                        /\ a.of \cap b.of = {}
                     THEN a.of \cup b.of ELSE Corrupt]

\* A received slice lands in the output with what it really contains.
WriteOutput(out, o, l, content) ==
    [i \in Positions |->
        IF i \notin o.at .. o.at + o.n - 1 THEN out[i]
        ELSE IF <<content.launch, content.at, content.n>> = <<l, o.at, o.n>>
             THEN content.of ELSE Corrupt]

Reduces == {"recv_reduce_send", "recv_reduce_copy_send", "recv_reduce_copy"}

\* Below the threshold the received slice is first copied out and credited,
\* then reduced in place.
Early(o) == o.op \in Reduces /\ o.n <= early_elems

\* Whether the copy of the received slice goes to the output buffer.
WritesOutput(o) == /\ o.op \notin {"direct_send", "recv_reduce_send"}
                   /\ ~(o.op = "recv_reduce_copy_send" /\ Early(o))

Publishes(o) == (IF o.op \in Receives THEN {"credit"} ELSE {})
                \cup (IF Early(o) THEN {"reduce"} ELSE {})
                \cup (IF o.op \in Sends THEN {"tail"} ELSE {})

Move(r) ==
    /\ running[r] /\ ip[r] <= Len(Program(r)) /\ todo[r] = {}
    /\ LET o == Program(r)[ip[r]]
           recv == o.op \in Receives
           send == o.op \in Sends
           received == Content(fifo[Pred(r)][Slot(recv_step[r])])
           moved == CASE ~recv -> Input(r, o)
                      [] recv /\ o.op \in Reduces /\ ~Early(o) ->
                            Combine(received, Input(r, o))
                      [] OTHER -> received
       IN  /\ recv => RecvReady(r)
           /\ send => SendCredit(r)
           /\ recv_tail_cache' = [recv_tail_cache EXCEPT ![r] = IF recv THEN RecvTail(r) ELSE @]
           /\ send_head_cache' = [send_head_cache EXCEPT ![r] = IF send THEN SendHead(r) ELSE @]
           /\ fifo' = IF send
                      THEN [fifo EXCEPT ![r][Slot(send_step[r])] =
                              [step |-> send_step[r], launch |-> moved.launch,
                               at |-> moved.at, n |-> moved.n, of |-> moved.of]]
                      ELSE fifo
           /\ output' = IF ~WritesOutput(o) THEN output
                        ELSE [output EXCEPT ![r] = WriteOutput(@, o, launch[r], moved)]
           /\ todo' = [todo EXCEPT ![r] = Publishes(o)]
           /\ send_step' = [send_step EXCEPT ![r] = IF send THEN @ + 1 ELSE @]
           /\ recv_step' = [recv_step EXCEPT ![r] = IF recv THEN @ + 1 ELSE @]
           /\ ip' = [ip EXCEPT ![r] = @ + 1]
    /\ UNCHANGED <<plan, launch, running, base, head, tail>>

\* The operation that is being published.
Current(r) == Program(r)[ip[r] - 1]

\* Mutants: the credit is never stored; it is stored two slices back.
PostNoCredit(r) ==
    /\ "credit" \in todo[r]
    /\ todo' = [todo EXCEPT ![r] = @ \ {"credit"}]
    /\ UNCHANGED <<plan, launch, running, ip, registers, base, edges, output>>

PostStaleCredit(r) ==
    /\ "credit" \in todo[r]
    /\ head' = [head EXCEPT ![Pred(r)] = recv_step[r] - 2]
    /\ todo' = [todo EXCEPT ![r] = @ \ {"credit"}]
    /\ UNCHANGED <<plan, launch, running, ip, registers, base, tail, fifo, output>>

\* post_recv_credit
PostRecvCredit(r) ==
    /\ "credit" \in todo[r]
    /\ head' = [head EXCEPT ![Pred(r)] = recv_step[r]]
    /\ todo' = [todo EXCEPT ![r] = @ \ {"credit"}]
    /\ UNCHANGED <<plan, launch, running, ip, registers, base, tail, fifo, output>>

\* reduce_local_into_dst, reduce_local_broadcast_worker: the copy that is
\* already in the send slot or in the output gets the local contribution.
ReduceLocal(r) ==
    /\ "reduce" \in todo[r]
    /\ LET o == Current(r)
           slot == Slot(send_step[r] - 1)
           reduced == Combine(IF o.op \in Sends THEN Content(fifo[r][slot])
                              ELSE [Input(r, o) EXCEPT !.of = output[r][o.at]],
                              Input(r, o))
       IN  /\ fifo' = IF o.op \in Sends
                      THEN [fifo EXCEPT ![r][slot].of = reduced.of]
                      ELSE fifo
           /\ output' = IF o.op = "recv_reduce_send" THEN output
                        ELSE [output EXCEPT ![r] = WriteOutput(@, o, launch[r], reduced)]
    /\ todo' = [todo EXCEPT ![r] = @ \ {"reduce"}]
    /\ UNCHANGED <<plan, launch, running, ip, registers, base, head, tail>>

\* post_send_ready follows a block-wide barrier, so the early credit and the
\* reduction come first; post_recv_credit_and_send_ready has two threads
\* store the credit and the tail in either order.
PostSendReady(r) ==
    /\ "tail" \in todo[r]
    /\ "reduce" \notin todo[r]
    /\ Current(r).n <= early_elems => "credit" \notin todo[r]
    /\ tail' = [tail EXCEPT ![r] = send_step[r]]
    /\ todo' = [todo EXCEPT ![r] = @ \ {"tail"}]
    /\ UNCHANGED <<plan, launch, running, ip, registers, base, head, fifo, output>>

-----------------------------------------------------------------------------
RankStep(r) == \/ StartKernel(r) \/ EndKernel(r) \/ Move(r)
               \/ PostRecvCredit(r) \/ ReduceLocal(r) \/ PostSendReady(r)

Next == \E r \in Ranks : RankStep(r)

Spec == Init /\ [][Next]_vars

\* Every rank makes the calls of the plan, and its kernel is resident and
\* spins until its waits are over.
FairSpec == Spec /\ \A r \in Ranks : WF_vars(RankStep(r))

-----------------------------------------------------------------------------
(* Properties.                                                              *)

\* The counters and slots hold values of their kind.
TypeOK ==
    /\ plan \in Plans
    /\ launch \in [Ranks -> 0 .. Len(plan)] /\ running \in [Ranks -> BOOLEAN]
    /\ ip \in [Ranks -> Nat] /\ todo \in [Ranks -> SUBSET {"credit", "reduce", "tail"}]
    /\ \A f \in {send_step, recv_step, send_head_cache, recv_tail_cache,
                 send_base_steps, recv_base_steps, head, tail} : f \in [Ranks -> Nat]
    /\ \A e \in Ranks : DOMAIN fifo[e] = 0 .. fifo_slots - 1
    /\ output \in [Ranks -> [Positions -> (SUBSET Ranks) \cup {Corrupt}]]

\* A slice that was published and not yet read by the successor is still in
\* its slot: no rank writes a slot its successor has yet to read.
NoSlotOverwritten ==
    \A e \in Ranks : \A k \in recv_step[Succ(e)] .. tail[e] - 1 :
        fifo[e][Slot(k)].step = k

\* When a rank's launch has ended its output buffer holds the collective's
\* result, each input combined exactly once, whatever the other ranks are
\* still doing.
Expected(r) ==
    LET call == plan[launch[r]]
        part == IF call.coll = "all_reduce" THEN cbd_part(call.count, channel)
                ELSE channel_part(call.count, channel)
        mine == part.offset .. part.offset + part.count - 1
    IN  CASE call.coll = "all_reduce" -> [i \in mine |-> Ranks]
          [] call.coll = "all_gather" ->
                [i \in {s * call.count + p : s \in Ranks, p \in mine} |-> {i \div call.count}]
          [] call.coll = "reduce_scatter" ->
                [i \in {r * call.count + p : p \in mine} |-> Ranks]

ResultCorrect ==
    \A r \in Ranks : ~running[r] /\ launch[r] > 0 =>
        \A i \in DOMAIN Expected(r) : output[r][i] = Expected(r)[i]

\* When both ends of an edge are between the same two launches they agree on
\* its watermarks, although empty slices are elided: the next launch starts
\* from the same step on both sides, with nothing left in the FIFO.
WatermarksAligned ==
    \A e \in Ranks :
        ~running[e] /\ ~running[Succ(e)] /\ launch[e] = launch[Succ(e)] =>
            /\ send_base_steps[e] = recv_base_steps[Succ(e)]
            /\ tail[e] = send_base_steps[e] /\ head[e] = tail[e]

\* Every launch of every rank ends: no cycle of kernels waiting for each
\* other's data and credit.
Termination == <>(\A r \in Ranks : ~running[r] /\ launch[r] = Len(plan))
=============================================================================
