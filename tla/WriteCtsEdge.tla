---------------------------- MODULE WriteCtsEdge ----------------------------
(***************************************************************************)
(* One directed ring edge on the WRITE+CTS data plane.  The receiving      *)
(* proxy grants each free slot by writing a clear-to-send (CTS) entry into *)
(* the sender's memory; the sending proxy writes the slice straight into   *)
(* the granted slot with RDMA WRITE_WITH_IMM and clears the entry.         *)
(*                                                                         *)
(* Counters are in slices, as in RdmaEdge, and a kernel's handling of a    *)
(* slice, which RdmaEdge takes apart, is one step.  Every slice has data:  *)
(* the kernels publish no empty ones, and this plane cannot elide them on  *)
(* the receiving side.                                                     *)
(***************************************************************************)
EXTENDS Integers

CONSTANTS max_inflight,    \* usable FIFO slots on either side
          kSignalEvery,    \* a completion is requested at least this often
          TotalSlices      \* bound: slices the upstream kernel publishes

ASSUME WriteCtsAssumption ==
    /\ max_inflight \in Nat \ {0} /\ kSignalEvery \in Nat \ {0}
    /\ TotalSlices \in Nat

Slices == 0 .. TotalSlices - 1
Slots == 0 .. max_inflight - 1
Slot(k) == k % max_inflight

VARIABLES
    \* upstream kernel
    send_tail, send_fifo,
    \* RdmaSendProxy; s_pc is "clear" between ibv_post_send and clearing ready
    s_pc, s_next_post, s_next_complete, s_inflight, send_head, signaled, s_error,
    \* the sender's queue pair: requests posted and the slot each one targets,
    \* slices written on the peer, slices acknowledged
    posted, wr_raddr, delivered, acked, s_qp_failed,
    \* the CTS entries in the sender's memory, and how many were written there
    cts, cts_landed,
    \* RdmaRecvProxy: receives for the immediates, and the slices published
    r_next_post, r_inflight, r_next_complete, recv_tail, r_error,
    \* RdmaRecvProxy: CTS entries and the requests that write them
    shadow, r_next_cts, r_next_cts_complete, r_inflight_cts, cts_signaled,
    cts_acked, r_qp_failed,
    \* receive slots as the NIC writes them and as the GPU sees them
    nic_fifo, gpu_fifo,
    \* downstream kernel
    recv_step, recv_head, got

sendKernel == <<send_tail, send_fifo>>
sendProxy == <<s_pc, s_next_post, s_next_complete, s_inflight, send_head, signaled, s_error>>
sendQp == <<posted, wr_raddr, delivered, acked, s_qp_failed>>
ctsFifo == <<cts, cts_landed>>
recvData == <<r_next_post, r_inflight, r_next_complete, recv_tail, r_error>>
recvCts == <<shadow, r_next_cts, r_next_cts_complete, r_inflight_cts, cts_signaled>>
recvQp == <<cts_acked, r_qp_failed>>
buffers == <<nic_fifo, gpu_fifo>>
recvKernel == <<recv_step, recv_head, got>>

vars == <<sendKernel, sendProxy, sendQp, ctsFifo, recvData, recvCts, recvQp,
          buffers, recvKernel>>

\* The fields of an entry that the protocol uses; raddr is the granted slot.
RdmaCtsSlot == [ready : {0, 1}, step_tag : Nat, raddr : Slots]
NoCts == [ready |-> 0, step_tag |-> 0, raddr |-> 0]

Init ==
    /\ send_tail = 0 /\ send_fifo = [s \in Slots |-> -1]
    /\ s_pc = "idle" /\ s_next_post = 0 /\ s_next_complete = 0 /\ s_inflight = 0
    /\ send_head = 0 /\ signaled = {} /\ s_error = FALSE
    /\ posted = 0 /\ wr_raddr = [s \in Slots |-> 0] /\ delivered = 0 /\ acked = 0
    /\ cts = [s \in Slots |-> NoCts] /\ cts_landed = 0
    /\ r_next_post = 0 /\ r_inflight = 0 /\ r_next_complete = 0 /\ recv_tail = 0
    /\ r_error = FALSE
    /\ shadow = [s \in Slots |-> NoCts] /\ r_next_cts = 0 /\ r_next_cts_complete = 0
    /\ r_inflight_cts = 0 /\ cts_signaled = {} /\ cts_acked = 0
    /\ s_qp_failed = FALSE /\ r_qp_failed = FALSE
    /\ nic_fifo = [s \in Slots |-> -1] /\ gpu_fifo = [s \in Slots |-> -1]
    /\ recv_step = 0 /\ recv_head = 0 /\ got = -1

-----------------------------------------------------------------------------
(* The upstream kernel: one slice of direct_send.                           *)

PublishSlice ==
    /\ ~s_error /\ send_tail < TotalSlices
    /\ send_head + max_inflight >= send_tail + 1
    /\ send_fifo' = [send_fifo EXCEPT ![Slot(send_tail)] = send_tail]
    /\ send_tail' = send_tail + 1
    /\ UNCHANGED <<sendProxy, sendQp, ctsFifo, recvData, recvCts, recvQp, buffers, recvKernel>>

-----------------------------------------------------------------------------
(* RdmaSendProxy::progress_write_cts.                                       *)

Signal ==
    LET more_pending == send_tail > s_next_post + 1
    IN  \/ s_inflight + 1 >= max_inflight
        \/ ~more_pending
        \/ s_next_post % kSignalEvery = 0

\* One iteration of the post loop up to ibv_post_send.  An entry that is ready
\* for another step is a protocol error.
PostWrite ==
    /\ ~s_error /\ s_pc = "idle"
    /\ s_inflight < max_inflight /\ send_tail > s_next_post
    /\ LET entry == cts[Slot(s_next_post)]
       IN  /\ entry.ready = 1
           /\ IF entry.step_tag # s_next_post
              THEN /\ s_error' = TRUE
                   /\ UNCHANGED <<wr_raddr, posted, signaled, s_pc>>
              ELSE /\ wr_raddr' = [wr_raddr EXCEPT ![Slot(s_next_post)] = entry.raddr]
                   /\ posted' = posted + 1
                   /\ signaled' = IF Signal THEN signaled \cup {s_next_post} ELSE signaled
                   /\ s_pc' = "clear"
                   /\ UNCHANGED s_error
    /\ UNCHANGED <<s_next_post, s_next_complete, s_inflight, send_head>>
    /\ UNCHANGED <<delivered, acked, s_qp_failed>>
    /\ UNCHANGED <<sendKernel, ctsFifo, recvData, recvCts, recvQp, buffers, recvKernel>>

\* Mutant: the entry is left as it is.
KeepReady ==
    /\ s_pc = "clear"
    /\ s_next_post' = s_next_post + 1
    /\ s_inflight' = s_inflight + 1
    /\ s_pc' = "idle"
    /\ UNCHANGED <<s_next_complete, send_head, signaled, s_error>>
    /\ UNCHANGED <<sendKernel, sendQp, ctsFifo, recvData, recvCts, recvQp, buffers, recvKernel>>

\* The rest of the iteration: the store of ready, then the counters.
ClearReady ==
    /\ s_pc = "clear"
    /\ cts' = [cts EXCEPT ![Slot(s_next_post)].ready = 0]
    /\ s_next_post' = s_next_post + 1
    /\ s_inflight' = s_inflight + 1
    /\ s_pc' = "idle"
    /\ UNCHANGED <<s_next_complete, send_head, signaled, s_error, cts_landed>>
    /\ UNCHANGED <<sendKernel, sendQp, recvData, recvCts, recvQp, buffers, recvKernel>>

SendCompletions == {k \in signaled : k < acked}

\* Mutant: every completion is taken to cover kSignalEvery writes.
CompleteSendFixed(k) ==
    /\ signaled' = signaled \ {k}
    /\ s_next_complete' = k + 1 /\ send_head' = k + 1
    /\ s_inflight' = s_inflight - kSignalEvery
    /\ UNCHANGED <<s_pc, s_next_post, s_error>>
    /\ UNCHANGED <<sendKernel, sendQp, ctsFifo, recvData, recvCts, recvQp, buffers, recvKernel>>

CompleteSend(k) ==
    LET advanced == k - s_next_complete + 1
    IN  /\ signaled' = signaled \ {k}
        /\ IF k < s_next_complete \/ advanced > s_inflight
           THEN /\ s_error' = TRUE
                /\ UNCHANGED <<s_next_complete, send_head, s_inflight>>
           ELSE /\ s_next_complete' = k + 1
                /\ send_head' = k + 1
                /\ s_inflight' = s_inflight - advanced
                /\ UNCHANGED s_error
        /\ UNCHANGED <<s_pc, s_next_post>>
        /\ UNCHANGED <<sendKernel, sendQp, ctsFifo, recvData, recvCts, recvQp, buffers, recvKernel>>

PollSendCq ==
    /\ ~s_error /\ s_pc = "idle"
    /\ \E k \in SendCompletions :
            (\A j \in SendCompletions : k <= j) /\ CompleteSend(k)

PollSendCqError ==
    /\ ~s_error /\ s_pc = "idle" /\ s_qp_failed
    /\ SendCompletions = {} /\ s_next_complete < s_next_post
    /\ s_error' = TRUE
    /\ UNCHANGED <<s_pc, s_next_post, s_next_complete, s_inflight, send_head, signaled>>
    /\ UNCHANGED <<sendKernel, sendQp, ctsFifo, recvData, recvCts, recvQp, buffers, recvKernel>>

-----------------------------------------------------------------------------
(* The two queue pairs (external).  Requests of one queue pair are carried  *)
(* out in order; a write with immediate waits for a posted receive.         *)

Deliver(visible) ==
    /\ ~s_qp_failed /\ ~r_qp_failed
    /\ delivered < posted /\ delivered < r_next_post
    /\ LET target == wr_raddr[Slot(delivered)]
           data == send_fifo[Slot(delivered)]
       IN  /\ nic_fifo' = [nic_fifo EXCEPT ![target] = data]
           /\ gpu_fifo' = IF visible THEN [gpu_fifo EXCEPT ![target] = data] ELSE gpu_fifo
    /\ delivered' = delivered + 1
    /\ UNCHANGED <<posted, wr_raddr, acked, s_qp_failed>>
    /\ UNCHANGED <<sendKernel, sendProxy, ctsFifo, recvData, recvCts, recvQp, recvKernel>>

Acknowledge ==
    /\ ~s_qp_failed /\ acked < delivered
    /\ acked' = acked + 1
    /\ UNCHANGED <<posted, wr_raddr, delivered, s_qp_failed>>
    /\ UNCHANGED <<sendKernel, sendProxy, ctsFifo, recvData, recvCts, recvQp, buffers, recvKernel>>

LandCts ==
    /\ ~s_qp_failed /\ ~r_qp_failed
    /\ cts_landed < r_next_cts
    /\ cts' = [cts EXCEPT ![Slot(cts_landed)] = shadow[Slot(cts_landed)]]
    /\ cts_landed' = cts_landed + 1
    /\ UNCHANGED <<sendKernel, sendProxy, sendQp, recvData, recvCts, recvQp, buffers, recvKernel>>

AcknowledgeCts ==
    /\ ~r_qp_failed /\ cts_acked < cts_landed
    /\ cts_acked' = cts_acked + 1
    /\ UNCHANGED r_qp_failed
    /\ UNCHANGED <<sendKernel, sendProxy, sendQp, ctsFifo, recvData, recvCts, buffers, recvKernel>>

FailSendQp ==
    /\ ~s_qp_failed /\ s_qp_failed' = TRUE
    /\ UNCHANGED <<posted, wr_raddr, delivered, acked>>
    /\ UNCHANGED <<sendKernel, sendProxy, ctsFifo, recvData, recvCts, recvQp, buffers, recvKernel>>

FailRecvQp ==
    /\ ~r_qp_failed /\ r_qp_failed' = TRUE
    /\ UNCHANGED cts_acked
    /\ UNCHANGED <<sendKernel, sendProxy, sendQp, ctsFifo, recvData, recvCts, buffers, recvKernel>>

-----------------------------------------------------------------------------
(* RdmaRecvProxy::progress_write_cts (prepare runs the two post loops once). *)

\* Mutant: a slot is granted one slice before it is free.
RecvCreditOffByOne(step) == ~r_error /\ recv_head + max_inflight >= step

RecvCredit(step) == ~r_error /\ recv_head + max_inflight >= step + 1

\* Mutant: only every kSignalEvery-th entry asks for a completion.
SignalCtsEvery == (r_next_cts + 1) % kSignalEvery = 0

SignalCts ==
    LET more_credit == /\ r_inflight_cts + 1 < max_inflight
                       /\ recv_head + max_inflight >= r_next_cts + 2
    IN  \/ r_inflight_cts + 1 >= max_inflight
        \/ ~more_credit
        \/ r_next_cts % kSignalEvery = 0

\* post_cts
PostCts ==
    /\ r_inflight_cts < max_inflight /\ RecvCredit(r_next_cts)
    /\ shadow' = [shadow EXCEPT ![Slot(r_next_cts)] =
                    [ready |-> 1, step_tag |-> r_next_cts, raddr |-> Slot(r_next_cts)]]
    /\ cts_signaled' = IF SignalCts THEN cts_signaled \cup {r_next_cts} ELSE cts_signaled
    /\ r_next_cts' = r_next_cts + 1
    /\ r_inflight_cts' = r_inflight_cts + 1
    /\ UNCHANGED r_next_cts_complete
    /\ UNCHANGED <<sendKernel, sendProxy, sendQp, ctsFifo, recvData, recvQp, buffers, recvKernel>>

\* pre_post_imm_recv
PostImmRecv ==
    /\ r_inflight < max_inflight /\ RecvCredit(r_next_post)
    /\ r_next_post' = r_next_post + 1
    /\ r_inflight' = r_inflight + 1
    /\ UNCHANGED <<r_next_complete, recv_tail, r_error>>
    /\ UNCHANGED <<sendKernel, sendProxy, sendQp, ctsFifo, recvCts, recvQp, buffers, recvKernel>>

\* Mutant: the flush is skipped.
PublishUnflushed ==
    /\ ~r_error /\ r_next_complete < delivered
    /\ recv_tail' = r_next_complete + 1
    /\ r_next_complete' = r_next_complete + 1
    /\ r_inflight' = r_inflight - 1
    /\ UNCHANGED <<r_next_post, r_error, buffers>>
    /\ UNCHANGED <<sendKernel, sendProxy, sendQp, ctsFifo, recvCts, recvQp, recvKernel>>

\* A completion with an immediate: flush, then publish.
PollImm ==
    /\ ~r_error /\ r_next_complete < delivered
    /\ gpu_fifo' = nic_fifo
    /\ recv_tail' = r_next_complete + 1
    /\ r_next_complete' = r_next_complete + 1
    /\ r_inflight' = r_inflight - 1
    /\ UNCHANGED <<r_next_post, r_error, nic_fifo>>
    /\ UNCHANGED <<sendKernel, sendProxy, sendQp, ctsFifo, recvCts, recvQp, recvKernel>>

CtsCompletions == {k \in cts_signaled : k < cts_acked}

\* A completion of the entry of slice k covers the ones before it.
CompleteCts(k) ==
    LET advanced == k - r_next_cts_complete + 1
    IN  /\ cts_signaled' = cts_signaled \ {k}
        /\ IF k < r_next_cts_complete \/ advanced > r_inflight_cts
           THEN /\ r_error' = TRUE
                /\ UNCHANGED <<r_next_cts_complete, r_inflight_cts>>
           ELSE /\ r_next_cts_complete' = k + 1
                /\ r_inflight_cts' = r_inflight_cts - advanced
                /\ UNCHANGED r_error
        /\ UNCHANGED <<shadow, r_next_cts, r_next_post, r_inflight, r_next_complete, recv_tail>>
        /\ UNCHANGED <<sendKernel, sendProxy, sendQp, ctsFifo, recvQp, buffers, recvKernel>>

PollCtsCq ==
    /\ ~r_error
    /\ \E k \in CtsCompletions :
            (\A j \in CtsCompletions : k <= j) /\ CompleteCts(k)

PollRecvCqError ==
    /\ ~r_error /\ r_qp_failed
    /\ r_next_complete = delivered /\ CtsCompletions = {}
    /\ r_next_complete < r_next_post \/ r_next_cts_complete < r_next_cts
    /\ r_error' = TRUE
    /\ UNCHANGED <<r_next_post, r_inflight, r_next_complete, recv_tail>>
    /\ UNCHANGED <<sendKernel, sendProxy, sendQp, ctsFifo, recvCts, recvQp, buffers, recvKernel>>

-----------------------------------------------------------------------------
(* The downstream kernel.                                                   *)

ReadRecvSlot ==
    /\ ~r_error /\ recv_step < TotalSlices
    /\ recv_head = recv_step /\ recv_tail >= recv_step + 1
    /\ got' = gpu_fifo[Slot(recv_step)]
    /\ recv_step' = recv_step + 1
    /\ UNCHANGED recv_head
    /\ UNCHANGED <<sendKernel, sendProxy, sendQp, ctsFifo, recvData, recvCts, recvQp, buffers>>

PostRecvCredit ==
    /\ recv_head # recv_step
    /\ recv_head' = recv_step
    /\ UNCHANGED <<recv_step, got>>
    /\ UNCHANGED <<sendKernel, sendProxy, sendQp, ctsFifo, recvData, recvCts, recvQp, buffers>>

-----------------------------------------------------------------------------
SendProxyStep == PostWrite \/ ClearReady \/ PollSendCq \/ PollSendCqError

WireStep == \/ \E visible \in BOOLEAN : Deliver(visible)
            \/ Acknowledge \/ LandCts \/ AcknowledgeCts

RecvProxyStep == PostCts \/ PostImmRecv \/ PollImm \/ PollCtsCq \/ PollRecvCqError

RecvKernelStep == ReadRecvSlot \/ PostRecvCredit

Next == \/ PublishSlice \/ SendProxyStep \/ WireStep \/ RecvProxyStep \/ RecvKernelStep
        \/ FailSendQp \/ FailRecvQp

Spec == Init /\ [][Next]_vars

\* Kernels, proxy threads and the wire go on, and retries are bounded: a queue
\* pair with requests to a failed peer fails too.
Fairness == /\ WF_vars(PublishSlice) /\ WF_vars(SendProxyStep) /\ WF_vars(WireStep)
            /\ WF_vars(RecvProxyStep) /\ WF_vars(RecvKernelStep)
            /\ WF_vars(FailSendQp /\ r_qp_failed /\ delivered < posted)
            /\ WF_vars(FailRecvQp /\ s_qp_failed /\ cts_landed < r_next_cts)

FairSpec == Spec /\ Fairness

-----------------------------------------------------------------------------
(* Properties.                                                              *)

\* Every variable stays within the values its code counterpart can hold.
TypeOK ==
    /\ send_tail \in Nat /\ s_next_post \in Nat /\ s_next_complete \in Nat
    /\ s_inflight \in Nat /\ send_head \in Nat /\ posted \in Nat /\ delivered \in Nat
    /\ acked \in Nat /\ cts_landed \in Nat /\ r_next_post \in Nat /\ r_inflight \in Nat
    /\ r_next_complete \in Nat /\ recv_tail \in Nat /\ r_next_cts \in Nat
    /\ r_next_cts_complete \in Nat /\ r_inflight_cts \in Nat /\ cts_acked \in Nat
    /\ recv_step \in Nat /\ recv_head \in Nat
    /\ s_pc \in {"idle", "clear"} /\ signaled \in SUBSET Nat /\ cts_signaled \in SUBSET Nat
    /\ send_fifo \in [Slots -> Int] /\ nic_fifo \in [Slots -> Int]
    /\ gpu_fifo \in [Slots -> Int] /\ wr_raddr \in [Slots -> Slots] /\ got \in Int
    /\ cts \in [Slots -> RdmaCtsSlot] /\ shadow \in [Slots -> RdmaCtsSlot]
    /\ s_error \in BOOLEAN /\ r_error \in BOOLEAN
    /\ s_qp_failed \in BOOLEAN /\ r_qp_failed \in BOOLEAN

\* A slice is written into the slot that was granted for it, and stays there,
\* visible to the GPU once it is published, until it is consumed.
GrantedSlotsStable ==
    /\ \A k \in recv_step .. delivered - 1 : nic_fifo[Slot(k)] = k
    /\ \A k \in recv_step .. recv_tail - 1 : gpu_fifo[Slot(k)] = k

\* The proxies' checks ("CTS step_tag mismatch", "unexpected step", "advances
\* past inflight") never fire: an entry is never seen in another round, and an
\* error means that a queue pair failed.
NoSpuriousFailure == /\ s_error => s_qp_failed
                     /\ r_error => r_qp_failed

\* The edge is a lossless in-order FIFO of slices.
Edge == INSTANCE SliceFifo
        WITH SliceBytes <- [k \in Slices |-> 1],
             sent <- send_tail, taken <- recv_step, value <- got
EdgeIsFifo == Edge!Spec

\* A clear-to-send entry that has arrived stays until the slice it grants is
\* posted: clearing the entry of the round before does not take it away.
CtsKept == \A k \in posted .. cts_landed - 1 :
              cts[Slot(k)].ready = 1 /\ cts[Slot(k)].step_tag = k

\* As long as no entry is lost, every published slice is freed on the sending
\* side or one of the proxies notices that the connection failed: neither a run
\* of unsignaled writes nor one of unsignaled entries holds the edge up.
DrainUnlessLost ==
    []CtsKept => \A k \in Slices :
                    (send_tail > k) ~> (send_head > k \/ s_error \/ r_error)
=============================================================================
