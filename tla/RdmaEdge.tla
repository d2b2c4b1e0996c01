------------------------------ MODULE RdmaEdge ------------------------------
(***************************************************************************)
(* One directed ring edge carried by RDMA on the SEND/RECV data plane:     *)
(* the upstream kernel fills the send FIFO, RdmaSendProxy posts each slot  *)
(* to a reliable-connected queue pair, the NICs move it into the buffer of *)
(* a receive request posted by RdmaRecvProxy, and that proxy publishes it  *)
(* to the downstream kernel.                                               *)
(*                                                                         *)
(* The code's step counters all start at 0 and all move by step_increment, *)
(* which divides slot_count.  The model counts in units of step_increment: *)
(* a counter is a number of slices, each FIFO has                          *)
(* max_inflight = slot_count / step_increment usable slots, and slice k    *)
(* lives in slot k % max_inflight.  The content of a slice is its index.   *)
(***************************************************************************)
EXTENDS Integers

CONSTANTS max_inflight,        \* usable FIFO slots on either side
          kSignalEvery,        \* a completion is requested at least this often
          TotalSlices,         \* bound: slices the upstream kernel publishes
          SliceBytes,          \* payload size of each slice, 0 when it is empty
          elide_zero_payload   \* the receiving proxy knows the sizes in advance

Slices == 0 .. TotalSlices - 1
Slots == 0 .. max_inflight - 1
Slot(k) == k % max_inflight

\* A receiver built with elide_zero_payload finds in its slot sizes which slots
\* carry empty slices; the sizes of the first round are primed there.
EmptySlot(s) == elide_zero_payload /\ s \in Slices /\ SliceBytes[s] = 0

\* Whether slice k is empty.
Empty(k) == EmptySlot(Slot(k))

ASSUME EdgeAssumption ==
    /\ max_inflight \in Nat \ {0}
    /\ kSignalEvery \in Nat \ {0}
    /\ TotalSlices \in Nat
    /\ SliceBytes \in [Slices -> Nat]
    /\ elide_zero_payload \in BOOLEAN
    \* Empty slices are published only to a receiver built for them, and in
    \* the slots primed as empty; on the live path the kernel elides them.
    /\ \A k \in Slices : SliceBytes[k] = 0 <=> Empty(k)

VARIABLES
    \* upstream kernel
    send_step, send_pc, send_head_cache, send_fifo, send_size, send_tail,
    \* RdmaSendProxy; length and completion flag of the requests it posted
    s_next_post, s_next_complete, s_inflight, send_head, wr_len, signaled, s_error,
    \* the queue pairs: slices handed over, slices acknowledged, failures
    delivered, acked, landed, s_qp_failed, r_qp_failed,
    \* receive buffers as the NIC writes them and as the GPU sees them
    nic_fifo, gpu_fifo, byte_len,
    \* RdmaRecvProxy
    r_next_post, r_next_complete, r_inflight, recv_tail, recv_size, r_error,
    \* downstream kernel
    recv_step, recv_pc, recv_tail_cache, recv_head, got

sendKernel == <<send_step, send_pc, send_head_cache, send_fifo, send_size, send_tail>>
sendProxy == <<s_next_post, s_next_complete, s_inflight, send_head, wr_len, signaled, s_error>>
wire == <<delivered, acked, landed, s_qp_failed, r_qp_failed>>
recvBuffer == <<nic_fifo, gpu_fifo, byte_len>>
recvProxy == <<r_next_post, r_next_complete, r_inflight, recv_tail, recv_size, r_error>>
recvKernel == <<recv_step, recv_pc, recv_tail_cache, recv_head, got>>

vars == <<sendKernel, sendProxy, wire, recvBuffer, recvProxy, recvKernel>>

\* Nothing is primed on the live path; 1 stands for any size but 0.
PrimedSizes == [s \in Slots |-> IF ~elide_zero_payload THEN 0
                                ELSE IF s \in Slices THEN SliceBytes[s] ELSE 1]

Init ==
    /\ send_step = 0 /\ send_pc = "wait" /\ send_head_cache = 0 /\ send_tail = 0
    /\ send_fifo = [s \in Slots |-> -1] /\ send_size = [s \in Slots |-> 0]
    /\ s_next_post = 0 /\ s_next_complete = 0 /\ s_inflight = 0 /\ send_head = 0
    /\ wr_len = [s \in Slots |-> 0] /\ signaled = {} /\ s_error = FALSE
    /\ delivered = 0 /\ acked = 0 /\ landed = 0
    /\ s_qp_failed = FALSE /\ r_qp_failed = FALSE
    /\ nic_fifo = [s \in Slots |-> -1] /\ gpu_fifo = [s \in Slots |-> -1]
    /\ byte_len = [s \in Slots |-> 0]
    /\ r_next_post = 0 /\ r_next_complete = 0 /\ r_inflight = 0 /\ recv_tail = 0
    /\ recv_size = PrimedSizes /\ r_error = FALSE
    /\ recv_step = 0 /\ recv_pc = "wait" /\ recv_tail_cache = 0 /\ recv_head = 0
    /\ got = -1

-----------------------------------------------------------------------------
(* The upstream kernel: wait_send_credit, copy into the slot, then          *)
(* post_send_ready, which stores the payload size before the tail.          *)

\* Mutant: one slice too many in the send FIFO.
SendCreditOffByOne == send_head_cache + max_inflight >= send_step
SendCredit == send_head_cache + max_inflight >= send_step + 1

\* wait_send_credit polls send_head only while its cached copy is too old.
PollSendHead ==
    /\ send_pc = "wait" /\ send_step < TotalSlices /\ ~s_error
    /\ ~SendCredit
    /\ send_head_cache' = send_head
    /\ UNCHANGED <<send_step, send_pc, send_fifo, send_size, send_tail>>
    /\ UNCHANGED <<sendProxy, wire, recvBuffer, recvProxy, recvKernel>>

FillSendSlot ==
    /\ send_pc = "wait" /\ send_step < TotalSlices /\ ~s_error
    /\ SendCredit
    /\ send_fifo' = [send_fifo EXCEPT ![Slot(send_step)] = send_step]
    /\ send_pc' = "size"
    /\ UNCHANGED <<send_step, send_head_cache, send_size, send_tail>>
    /\ UNCHANGED <<sendProxy, wire, recvBuffer, recvProxy, recvKernel>>

StorePayloadBytes ==
    /\ send_pc = "size"
    /\ send_size' = [send_size EXCEPT ![Slot(send_step)] = SliceBytes[send_step]]
    /\ send_pc' = "tail"
    /\ UNCHANGED <<send_step, send_head_cache, send_fifo, send_tail>>
    /\ UNCHANGED <<sendProxy, wire, recvBuffer, recvProxy, recvKernel>>

StoreSendTail ==
    /\ send_pc = "tail"
    /\ send_tail' = send_step + 1
    /\ send_step' = send_step + 1
    /\ send_pc' = "wait"
    /\ UNCHANGED <<send_head_cache, send_fifo, send_size>>
    /\ UNCHANGED <<sendProxy, wire, recvBuffer, recvProxy, recvKernel>>

\* A wait that sees the abort flag makes the kernel return.
AbortSendKernel ==
    /\ send_pc = "wait" /\ send_step < TotalSlices /\ s_error
    /\ send_pc' = "aborted"
    /\ UNCHANGED <<send_step, send_head_cache, send_fifo, send_size, send_tail>>
    /\ UNCHANGED <<sendProxy, wire, recvBuffer, recvProxy, recvKernel>>

-----------------------------------------------------------------------------
(* RdmaSendProxy::progress_send_recv.  One action per iteration of the post *)
(* loop and one per polled completion.                                      *)

SendPending == ~s_error /\ s_inflight < max_inflight /\ send_tail > s_next_post

\* Mutant: an empty slice is passed over while earlier requests are in flight.
ElideSendAnywhere ==
    /\ SendPending
    /\ send_size[Slot(s_next_post)] = 0
    /\ send_head' = s_next_post + 1
    /\ s_next_post' = s_next_post + 1
    /\ s_next_complete' = s_next_complete + 1
    /\ delivered' = s_next_post + 1
    /\ acked' = s_next_post + 1
    /\ UNCHANGED <<s_inflight, wr_len, signaled, s_error>>
    /\ UNCHANGED <<landed, s_qp_failed, r_qp_failed>>
    /\ UNCHANGED <<sendKernel, recvBuffer, recvProxy, recvKernel>>

\* An empty slice gets no work request; it is passed over only when every
\* earlier request has completed, so that send_head stays ordered.
ElideSend ==
    /\ SendPending
    /\ send_size[Slot(s_next_post)] = 0
    /\ s_next_post = s_next_complete
    /\ send_head' = s_next_post + 1
    /\ s_next_post' = s_next_post + 1
    /\ s_next_complete' = s_next_complete + 1
    /\ delivered' = s_next_post + 1
    /\ acked' = s_next_post + 1
    /\ UNCHANGED <<s_inflight, wr_len, signaled, s_error>>
    /\ UNCHANGED <<landed, s_qp_failed, r_qp_failed>>
    /\ UNCHANGED <<sendKernel, recvBuffer, recvProxy, recvKernel>>

\* Mutant: no completion is asked for ahead of an empty slice.
SignalIgnoringEmpty ==
    \/ s_inflight + 1 >= max_inflight
    \/ ~(send_tail > s_next_post + 1)
    \/ s_next_post % kSignalEvery = 0

\* Which work requests ask for a completion.
Signal ==
    LET more_pending == send_tail > s_next_post + 1
        next_zero_needs_head ==
            more_pending /\ send_size[Slot(s_next_post + 1)] = 0
    IN  \/ s_inflight + 1 >= max_inflight
        \/ ~more_pending
        \/ next_zero_needs_head
        \/ s_next_post % kSignalEvery = 0

PostSend ==
    /\ SendPending
    /\ send_size[Slot(s_next_post)] # 0
    /\ wr_len' = [wr_len EXCEPT ![Slot(s_next_post)] = send_size[Slot(s_next_post)]]
    /\ signaled' = IF Signal THEN signaled \cup {s_next_post} ELSE signaled
    /\ s_next_post' = s_next_post + 1
    /\ s_inflight' = s_inflight + 1
    /\ UNCHANGED <<s_next_complete, send_head, s_error>>
    /\ UNCHANGED <<sendKernel, wire, recvBuffer, recvProxy, recvKernel>>

\* The completion queue of the sender holds the signaled requests that were
\* acknowledged and not polled yet; it is polled in order.
SendCompletions == {k \in signaled : k < acked}

\* Mutant: the requests that a completion covers are counted twice.
CompleteSendTwice(k) ==
    LET advanced == k - s_next_complete + 1
    IN  /\ signaled' = signaled \ {k}
        /\ s_next_complete' = k + 1
        /\ send_head' = k + 1
        /\ s_inflight' = s_inflight - 2 * advanced
        /\ UNCHANGED <<s_next_post, wr_len, s_error>>
        /\ UNCHANGED <<sendKernel, wire, recvBuffer, recvProxy, recvKernel>>

\* One completion covers every earlier unsignaled request.
CompleteSend(k) ==
    LET advanced == k - s_next_complete + 1
    IN  /\ signaled' = signaled \ {k}
        /\ IF k < s_next_complete \/ advanced > s_inflight
           THEN /\ s_error' = TRUE
                /\ UNCHANGED <<s_next_complete, send_head, s_inflight>>
           ELSE /\ s_next_complete' = k + 1
                /\ send_head' = k + 1
                /\ s_inflight' = s_inflight - advanced
                /\ UNCHANGED s_error
        /\ UNCHANGED <<s_next_post, wr_len>>
        /\ UNCHANGED <<sendKernel, wire, recvBuffer, recvProxy, recvKernel>>

PollSendCq ==
    /\ ~s_error
    /\ \E k \in SendCompletions :
            (\A j \in SendCompletions : k <= j) /\ CompleteSend(k)

\* check_wc: the requests outstanding on a failed queue pair complete with
\* an error status, after the successful completions.
PollSendCqError ==
    /\ ~s_error /\ s_qp_failed
    /\ SendCompletions = {}
    /\ s_next_complete < s_next_post
    /\ s_error' = TRUE
    /\ UNCHANGED <<s_next_post, s_next_complete, s_inflight, send_head, wr_len, signaled>>
    /\ UNCHANGED <<sendKernel, wire, recvBuffer, recvProxy, recvKernel>>

-----------------------------------------------------------------------------
(* The reliable connection between the two NICs (external).  Sends are      *)
(* carried out in order; one that finds no receive request posted is held   *)
(* back and retried.  The source slot is read when the send is carried out. *)

\* visible: the write may reach the GPU's view of its memory at once, or
\* only with the next flush.
Deliver(visible) ==
    /\ ~s_qp_failed /\ ~r_qp_failed
    /\ delivered < s_next_post /\ landed < r_next_post
    /\ nic_fifo' = [nic_fifo EXCEPT ![Slot(landed)] = send_fifo[Slot(delivered)]]
    /\ gpu_fifo' = IF visible
                   THEN [gpu_fifo EXCEPT ![Slot(landed)] = send_fifo[Slot(delivered)]]
                   ELSE gpu_fifo
    /\ byte_len' = [byte_len EXCEPT ![Slot(landed)] = wr_len[Slot(delivered)]]
    /\ delivered' = delivered + 1
    /\ landed' = landed + 1
    /\ UNCHANGED <<acked, s_qp_failed, r_qp_failed>>
    /\ UNCHANGED <<sendKernel, sendProxy, recvProxy, recvKernel>>

Acknowledge ==
    /\ ~s_qp_failed
    /\ acked < delivered
    /\ acked' = acked + 1
    /\ UNCHANGED <<delivered, landed, s_qp_failed, r_qp_failed>>
    /\ UNCHANGED <<sendKernel, sendProxy, recvBuffer, recvProxy, recvKernel>>

FailSendQp ==
    /\ ~s_qp_failed
    /\ s_qp_failed' = TRUE
    /\ UNCHANGED <<delivered, acked, landed, r_qp_failed>>
    /\ UNCHANGED <<sendKernel, sendProxy, recvBuffer, recvProxy, recvKernel>>

FailRecvQp ==
    /\ ~r_qp_failed
    /\ r_qp_failed' = TRUE
    /\ UNCHANGED <<delivered, acked, landed, s_qp_failed>>
    /\ UNCHANGED <<sendKernel, sendProxy, recvBuffer, recvProxy, recvKernel>>

-----------------------------------------------------------------------------
(* RdmaRecvProxy::progress_send_recv (prepare runs the same post loop once   *)
(* before the threads start).                                               *)

\* Mutant: a request is posted for a slot that is still to be consumed.
RecvCreditOffByOne == ~r_error /\ r_inflight < max_inflight
                      /\ recv_head + max_inflight >= r_next_post

RecvCredit == ~r_error /\ r_inflight < max_inflight
              /\ recv_head + max_inflight >= r_next_post + 1

\* try_elide_zero_payload.  Past the last slice, too, a slot that held an
\* empty one is passed over.
ElideRecv ==
    /\ RecvCredit
    /\ elide_zero_payload /\ recv_size[Slot(r_next_post)] = 0
    /\ r_next_post = r_next_complete
    /\ recv_size' = [recv_size EXCEPT ![Slot(r_next_post)] = 0]
    /\ recv_tail' = r_next_complete + 1
    /\ r_next_post' = r_next_post + 1
    /\ r_next_complete' = r_next_complete + 1
    /\ landed' = r_next_post + 1
    /\ UNCHANGED <<r_inflight, r_error>>
    /\ UNCHANGED <<delivered, acked, s_qp_failed, r_qp_failed>>
    /\ UNCHANGED <<sendKernel, sendProxy, recvBuffer, recvKernel>>

PostRecv ==
    /\ RecvCredit
    /\ ~(elide_zero_payload /\ recv_size[Slot(r_next_post)] = 0)
    /\ r_next_post' = r_next_post + 1
    /\ r_inflight' = r_inflight + 1
    /\ UNCHANGED <<r_next_complete, recv_tail, recv_size, r_error>>
    /\ UNCHANGED <<sendKernel, sendProxy, wire, recvBuffer, recvKernel>>

\* Mutant: the tail is published without a flush.
PollRecvCqNoFlush ==
    /\ ~r_error
    /\ r_next_complete < landed
    /\ recv_size' = [recv_size EXCEPT ![Slot(r_next_complete)] =
                                            byte_len[Slot(r_next_complete)]]
    /\ recv_tail' = r_next_complete + 1
    /\ r_next_complete' = r_next_complete + 1
    /\ r_inflight' = r_inflight - 1
    /\ UNCHANGED <<r_next_post, r_error, recvBuffer>>
    /\ UNCHANGED <<sendKernel, sendProxy, wire, recvKernel>>

\* Every receive request reports a completion, in the order of the posts, so
\* the completed slot is always that of r_next_complete.  The flush makes the
\* NIC's writes visible to the GPU before the tail is published.
PollRecvCq ==
    /\ ~r_error
    /\ r_next_complete < landed
    /\ gpu_fifo' = nic_fifo
    /\ recv_size' = [recv_size EXCEPT ![Slot(r_next_complete)] =
                                            byte_len[Slot(r_next_complete)]]
    /\ recv_tail' = r_next_complete + 1
    /\ r_next_complete' = r_next_complete + 1
    /\ r_inflight' = r_inflight - 1
    /\ UNCHANGED <<r_next_post, r_error, nic_fifo, byte_len>>
    /\ UNCHANGED <<sendKernel, sendProxy, wire, recvKernel>>

PollRecvCqError ==
    /\ ~r_error /\ r_qp_failed
    /\ r_next_complete = landed /\ landed < r_next_post
    /\ r_error' = TRUE
    /\ UNCHANGED <<r_next_post, r_next_complete, r_inflight, recv_tail, recv_size>>
    /\ UNCHANGED <<sendKernel, sendProxy, wire, recvBuffer, recvKernel>>

-----------------------------------------------------------------------------
(* The downstream kernel: wait_recv_ready, read the slot, post_recv_credit.  *)

RecvReady == recv_tail_cache >= recv_step + 1

PollRecvTail ==
    /\ recv_pc = "wait" /\ recv_step < TotalSlices /\ ~r_error
    /\ ~RecvReady
    /\ recv_tail_cache' = recv_tail
    /\ UNCHANGED <<recv_step, recv_pc, recv_head, got>>
    /\ UNCHANGED <<sendKernel, sendProxy, wire, recvBuffer, recvProxy>>

\* The kernel's copy takes as many elements as the slice has.
ReadRecvSlot ==
    /\ recv_pc = "wait" /\ recv_step < TotalSlices /\ ~r_error
    /\ RecvReady
    /\ got' = IF Empty(recv_step) THEN got ELSE gpu_fifo[Slot(recv_step)]
    /\ recv_step' = recv_step + 1
    /\ recv_pc' = "credit"
    /\ UNCHANGED <<recv_tail_cache, recv_head>>
    /\ UNCHANGED <<sendKernel, sendProxy, wire, recvBuffer, recvProxy>>

\* Mutant: the credit is not stored.
PostNoCredit ==
    /\ recv_pc = "credit"
    /\ recv_pc' = "wait"
    /\ UNCHANGED <<recv_step, recv_tail_cache, recv_head, got>>
    /\ UNCHANGED <<sendKernel, sendProxy, wire, recvBuffer, recvProxy>>

PostRecvCredit ==
    /\ recv_pc = "credit"
    /\ recv_head' = recv_step
    /\ recv_pc' = "wait"
    /\ UNCHANGED <<recv_step, recv_tail_cache, got>>
    /\ UNCHANGED <<sendKernel, sendProxy, wire, recvBuffer, recvProxy>>

AbortRecvKernel ==
    /\ recv_pc = "wait" /\ recv_step < TotalSlices /\ r_error
    /\ recv_pc' = "aborted"
    /\ UNCHANGED <<recv_step, recv_tail_cache, recv_head, got>>
    /\ UNCHANGED <<sendKernel, sendProxy, wire, recvBuffer, recvProxy>>

-----------------------------------------------------------------------------
SendKernelStep == PollSendHead \/ FillSendSlot \/ StorePayloadBytes
                  \/ StoreSendTail \/ AbortSendKernel
SendProxyStep == ElideSend \/ PostSend \/ PollSendCq \/ PollSendCqError
WireStep == (\E visible \in BOOLEAN : Deliver(visible)) \/ Acknowledge
RecvProxyStep == ElideRecv \/ PostRecv \/ PollRecvCq \/ PollRecvCqError
RecvKernelStep == PollRecvTail \/ ReadRecvSlot \/ PostRecvCredit \/ AbortRecvKernel

Next == \/ SendKernelStep \/ SendProxyStep \/ WireStep
        \/ FailSendQp \/ FailRecvQp
        \/ RecvProxyStep \/ RecvKernelStep

Spec == Init /\ [][Next]_vars

\* The kernels run to completion, the proxy threads loop until an error, and
\* the NICs retry for as long as the connection is up.  A poll that finds no
\* news is no step of the model, so weak fairness of each thread is what the
\* spinning loops provide.  Retries are bounded (retry_cnt), so a send to a
\* failed peer ends in a failure of the sending queue pair.
Fairness == /\ WF_vars(SendKernelStep) /\ WF_vars(RecvKernelStep)
            /\ WF_vars(ElideSend \/ PostSend) /\ WF_vars(PollSendCq \/ PollSendCqError)
            /\ WF_vars(ElideRecv \/ PostRecv) /\ WF_vars(PollRecvCq \/ PollRecvCqError)
            /\ WF_vars(\E visible \in BOOLEAN : Deliver(visible))
            /\ WF_vars(Acknowledge)
            /\ WF_vars(FailSendQp /\ r_qp_failed /\ delivered < s_next_post)

FairSpec == Spec /\ Fairness

-----------------------------------------------------------------------------
(* Properties.                                                              *)

\* Every variable stays within the values its code counterpart can hold.
TypeOK ==
    /\ send_step \in Nat /\ send_head_cache \in Nat /\ send_tail \in Nat
    /\ send_pc \in {"wait", "size", "tail", "aborted"}
    /\ send_fifo \in [Slots -> Int] /\ send_size \in [Slots -> Nat]
    /\ s_next_post \in Nat /\ s_next_complete \in Nat /\ s_inflight \in Nat
    /\ send_head \in Nat /\ wr_len \in [Slots -> Nat]
    /\ signaled \in SUBSET Nat /\ s_error \in BOOLEAN
    /\ delivered \in Nat /\ acked \in Nat /\ landed \in Nat
    /\ s_qp_failed \in BOOLEAN /\ r_qp_failed \in BOOLEAN
    /\ nic_fifo \in [Slots -> Int] /\ gpu_fifo \in [Slots -> Int]
    /\ byte_len \in [Slots -> Nat]
    /\ r_next_post \in Nat /\ r_next_complete \in Nat /\ r_inflight \in Nat
    /\ recv_tail \in Nat /\ recv_size \in [Slots -> Nat] /\ r_error \in BOOLEAN
    /\ recv_step \in Nat /\ recv_pc \in {"wait", "credit", "aborted"}
    /\ recv_tail_cache \in Nat /\ recv_head \in Nat /\ got \in Int

\* Until the peer has acknowledged a slice, the slot it was posted from still
\* holds it: send_head, advanced by one completion over a whole run of
\* unsignaled requests, never gives the kernel a slot the NIC may still read
\* (or read again for a retransmission).
SendSlotsStable ==
    \A k \in acked .. send_tail - 1 :
        ~Empty(k) => /\ send_fifo[Slot(k)] = k
                     /\ k < s_next_post => wr_len[Slot(k)] = SliceBytes[k]

\* Every slice published to the downstream kernel and not yet consumed is, in
\* the GPU's view of its slot, the slice the upstream kernel published at the
\* same index, with the size it was published with: no later slice lands in
\* the slot and no tail is published before the flush.
RecvSlotsStable ==
    \A k \in Slices \cap (recv_step .. recv_tail - 1) :
        /\ recv_size[Slot(k)] = SliceBytes[k]
        /\ ~Empty(k) => gpu_fifo[Slot(k)] = k

\* The proxies' own consistency checks on completions ("unexpected step",
\* "advances past inflight") never fire, and neither kernel is aborted unless
\* a queue pair really failed.
NoSpuriousFailure == /\ s_error => s_qp_failed
                     /\ r_error => r_qp_failed

\* The edge as its two kernels see it is a lossless in-order FIFO of slices.
Edge == INSTANCE SliceFifo WITH sent <- send_tail, taken <- recv_step, value <- got
EdgeIsFifo == Edge!Spec

\* Every published slice is eventually freed on the sending side, which is
\* what RdmaSendProxy::drain waits for: no run of unsignaled requests, and no
\* empty slice behind one, is left without a completion to cover it.  When
\* the connection fails the wait ends with the error flag.
DrainTerminates ==
    \A k \in Slices : (send_tail > k) ~> (send_head > k \/ s_error)

\* Every published slice is eventually read, unless a queue pair fails.
SliceArrives ==
    \A k \in Slices : (send_tail > k) ~> (recv_step > k \/ s_qp_failed \/ r_qp_failed)

-----------------------------------------------------------------------------
(* The inductive invariant behind the safety properties.                    *)

\* The sending side's counters are ordered as a slice passes them, and the
\* kernel is never more than a FIFO ahead of what has completed.
SendOrder ==
    /\ send_head = s_next_complete
    /\ s_next_complete <= acked /\ acked <= delivered
    /\ delivered <= s_next_post /\ s_next_post <= send_tail
    /\ s_inflight = s_next_post - s_next_complete
    /\ send_step = send_tail /\ send_tail <= TotalSlices
    /\ send_head_cache <= send_head
    /\ send_step <= send_head_cache + max_inflight
    /\ send_pc \in {"size", "tail"} => /\ send_step < TotalSlices
                                       /\ send_step < send_head_cache + max_inflight
    /\ \A k \in signaled : s_next_complete <= k /\ k < s_next_post

\* Slots between completion and tail hold their slice; those posted also have
\* their length in the work request.
SendSlots ==
    /\ \A k \in s_next_complete .. send_tail - 1 :
            send_fifo[Slot(k)] = k /\ send_size[Slot(k)] = SliceBytes[k]
    /\ \A k \in s_next_complete .. s_next_post - 1 :
            wr_len[Slot(k)] = SliceBytes[k] /\ SliceBytes[k] # 0
    /\ send_pc \in {"size", "tail"} => send_fifo[Slot(send_step)] = send_step
    /\ send_pc = "tail" => send_size[Slot(send_step)] = SliceBytes[send_step]

\* The receiving side's counters are ordered, and requests are posted only
\* for slots whose previous slice was consumed.
RecvOrder ==
    /\ recv_tail = r_next_complete
    /\ recv_head <= recv_step /\ recv_step <= recv_tail_cache
    /\ recv_tail_cache <= recv_tail
    /\ r_next_complete <= landed /\ landed <= r_next_post
    /\ r_next_post <= recv_head + max_inflight
    /\ r_inflight = r_next_post - r_next_complete
    /\ \A k \in r_next_complete .. r_next_post - 1 : ~Empty(k)

\* What has landed and was not consumed is intact in the NIC's view, and in
\* the GPU's view once it is published.
RecvSlots ==
    /\ \A k \in Slices \cap (recv_step .. landed - 1) : ~Empty(k) => nic_fifo[Slot(k)] = k
    /\ \A k \in r_next_complete .. landed - 1 :
            k \in Slices /\ byte_len[Slot(k)] = SliceBytes[k]
    /\ RecvSlotsStable

\* The sizes by which the receiving proxy tells empty slices stay those of the
\* schedule, although every completion overwrites one.
RecvSizes == elide_zero_payload => \A s \in Slots : recv_size[s] = 0 <=> EmptySlot(s)

\* The two ends have handed over the same slices, up to empty ones that one
\* end has already passed over.
HandedOver ==
    \A k \in Slices :
        (delivered <= k /\ k < landed) \/ (landed <= k /\ k < delivered) => Empty(k)

IInv == /\ TypeOK /\ SendOrder /\ SendSlots /\ RecvOrder /\ RecvSlots
        /\ RecvSizes /\ HandedOver /\ NoSpuriousFailure
=============================================================================
