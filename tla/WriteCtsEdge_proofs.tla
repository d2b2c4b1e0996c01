------------------------ MODULE WriteCtsEdge_proofs ------------------------
(***************************************************************************)
(* Proofs, for every FIFO depth, signaling interval and number of slices,  *)
(* of the safety properties of WriteCtsEdge.                               *)
(***************************************************************************)
EXTENDS WriteCtsEdge, TLAPS

(* The inductive invariant.                                                 *)

\* The counters of the sending side.  A write is posted one step before the
\* proxy counts it.
SendOrder ==
    /\ send_head = s_next_complete /\ s_next_complete <= acked
    /\ acked <= delivered /\ delivered <= posted /\ posted <= send_tail
    /\ send_tail <= s_next_complete + max_inflight /\ send_tail <= TotalSlices
    /\ posted = s_next_post + (IF s_pc = "clear" THEN 1 ELSE 0)
    /\ s_inflight = s_next_post - s_next_complete
    /\ s_next_complete <= s_next_post
    /\ \A k \in signaled : s_next_complete <= k /\ k < posted

\* The counters of the receiving side: what is published was delivered, and
\* neither a receive nor an entry is posted for a slot still to be consumed.
RecvOrder ==
    /\ recv_head <= recv_step /\ recv_step <= recv_tail
    /\ recv_tail = r_next_complete /\ r_next_complete <= delivered
    /\ delivered <= r_next_post /\ r_next_post <= recv_head + max_inflight
    /\ r_inflight = r_next_post - r_next_complete

\* The counters of the entries: a slice is written only after its entry has
\* arrived, and entries run at most a FIFO ahead of the consumer.
CtsOrder ==
    /\ r_next_cts_complete <= cts_acked /\ cts_acked <= cts_landed
    /\ posted <= cts_landed /\ cts_landed <= r_next_cts
    /\ r_next_cts <= recv_head + max_inflight
    /\ r_inflight_cts = r_next_cts - r_next_cts_complete
    /\ \A k \in cts_signaled : r_next_cts_complete <= k /\ k < r_next_cts

\* A published slice is in its send slot until its write has completed.
SendSlots == \A k \in s_next_complete .. send_tail - 1 : send_fifo[Slot(k)] = k

\* The shadow holds the entries that are still to arrive.
Shadow == \A k \in cts_landed .. r_next_cts - 1 :
             shadow[Slot(k)] = [ready |-> 1, step_tag |-> k, raddr |-> Slot(k)]

\* An entry that is ready grants its own slot, for a slice that is not yet
\* counted as posted and whose entry has arrived.
Ready == \A s \in Slots : cts[s].ready = 1 =>
            /\ cts[s].raddr = s /\ Slot(cts[s].step_tag) = s
            /\ s_next_post <= cts[s].step_tag /\ cts[s].step_tag < cts_landed

\* A write goes to the slot of its slice.
Targets == \A k \in delivered .. posted - 1 : wr_raddr[Slot(k)] = Slot(k)

IInv == /\ TypeOK /\ SendOrder /\ RecvOrder /\ CtsOrder
        /\ SendSlots /\ Shadow /\ Ready /\ Targets
        /\ GrantedSlotsStable /\ NoSpuriousFailure
-----------------------------------------------------------------------------
(* Slots.                                                                   *)

\* A slice index always maps to one of the FIFO's slots.
LEMMA SlotType == \A k \in Nat : Slot(k) \in Slots
BY WriteCtsAssumption DEF Slot, Slots

\* Two slices less than a FIFO apart never share a slot.
LEMMA SlotDistinct ==
    ASSUME NEW i \in Nat, NEW j \in Nat, i < j, j < i + max_inflight
    PROVE  Slot(i) # Slot(j)
<1> DEFINE S == max_inflight
           rounds == (j \div S) - (i \div S)
<1>1. S \in Nat \ {0}
  BY WriteCtsAssumption, Zenon
<1>2. i = S * (i \div S) + (i % S) /\ j = S * (j \div S) + (j % S)
  BY <1>1
<1>3. rounds \in Int
  BY <1>1
<1>4. ASSUME i % S = j % S PROVE FALSE
  <2>1. j - i = S * rounds
    BY <1>1, <1>2, <1>4
  <2>2. CASE rounds <= 0
    BY <1>1, <1>3, <2>1, <2>2
  <2>3. CASE rounds >= 1
    BY <1>1, <1>3, <2>1, <2>3
  <2> QED
    BY <1>3, <2>2, <2>3
<1> QED
  BY <1>4, Zenon DEF Slot
-----------------------------------------------------------------------------
(* Type correctness.                                                        *)

\* The record that grants a slot is a CTS entry.
LEMMA EntryType ==
    \A k \in Nat, b \in {0, 1}, s \in Slots :
        [ready |-> b, step_tag |-> k, raddr |-> s] \in RdmaCtsSlot
BY Zenon DEF RdmaCtsSlot

\* The initial state is well typed.
LEMMA InitType == Init => TypeOK
<1> SUFFICES ASSUME Init PROVE TypeOK
  BY Zenon
<1>1. 0 \in Slots
  BY WriteCtsAssumption DEF Slots
<1>2. NoCts \in RdmaCtsSlot
  BY <1>1, EntryType, Zenon DEF NoCts
<1>3. cts \in [Slots -> RdmaCtsSlot] /\ shadow \in [Slots -> RdmaCtsSlot]
  BY <1>2, Zenon DEF Init
<1>4. wr_raddr \in [Slots -> Slots]
  BY <1>1, Zenon DEF Init
<1>5. \A f : f = [s \in Slots |-> -1] => f \in [Slots -> Int]
  OBVIOUS
<1>6. send_fifo \in [Slots -> Int] /\ nic_fifo \in [Slots -> Int] /\ gpu_fifo \in [Slots -> Int]
  BY <1>5, Zenon DEF Init
<1>7a. signaled \in SUBSET Nat /\ cts_signaled \in SUBSET Nat /\ got \in Int
  BY DEF Init
<1>7. /\ s_pc \in {"idle", "clear"} /\ s_error \in BOOLEAN /\ r_error \in BOOLEAN
      /\ s_qp_failed \in BOOLEAN /\ r_qp_failed \in BOOLEAN
  BY Zenon DEF Init
<1>8. /\ send_tail \in Nat /\ s_next_post \in Nat /\ s_next_complete \in Nat
      /\ s_inflight \in Nat /\ send_head \in Nat /\ posted \in Nat /\ delivered \in Nat
      /\ acked \in Nat /\ cts_landed \in Nat /\ r_next_post \in Nat /\ r_inflight \in Nat
      /\ r_next_complete \in Nat /\ recv_tail \in Nat /\ r_next_cts \in Nat
      /\ r_next_cts_complete \in Nat /\ r_inflight_cts \in Nat /\ cts_acked \in Nat
      /\ recv_step \in Nat /\ recv_head \in Nat
  BY Zenon DEF Init
<1> QED
  BY <1>3, <1>4, <1>6, <1>7, <1>7a, <1>8, Zenon DEF TypeOK

\* A write that is posted has the entry of its own slice: it goes to the slot
\* of the slice, and the check of the entry's tag does not fire.
LEMMA PostWriteGranted ==
    ASSUME TypeOK, SendOrder, RecvOrder, CtsOrder, Ready, PostWrite
    PROVE  /\ s_pc = "idle" /\ s_pc' = "clear" /\ s_inflight < max_inflight
           /\ posted = s_next_post /\ posted' = posted + 1 /\ s_next_post < send_tail
           /\ s_next_post < cts_landed
           /\ wr_raddr' = [wr_raddr EXCEPT ![Slot(s_next_post)] = Slot(s_next_post)]
           /\ signaled' \in {signaled, signaled \cup {s_next_post}}
           /\ UNCHANGED <<s_next_post, s_next_complete, s_inflight, send_head, s_error,
                          delivered, acked, s_qp_failed, sendKernel, ctsFifo, recvData,
                          recvCts, recvQp, buffers, recvKernel>>
<1> DEFINE entry == cts[Slot(s_next_post)]
<1> USE DEF TypeOK
<1>1. /\ s_pc = "idle" /\ s_inflight < max_inflight /\ s_next_post < send_tail
      /\ entry.ready = 1
  BY Zenon DEF PostWrite
<1>2. posted = s_next_post
  BY <1>1 DEF SendOrder
<1>3. Slot(s_next_post) \in Slots /\ entry \in RdmaCtsSlot
  BY SlotType, Zenon
<1>4. entry.step_tag \in Nat
  BY <1>3, Zenon DEF RdmaCtsSlot
<1>5. /\ entry.raddr = Slot(s_next_post) /\ Slot(entry.step_tag) = Slot(s_next_post)
      /\ s_next_post <= entry.step_tag /\ entry.step_tag < cts_landed
  BY <1>1, <1>3, Zenon DEF Ready
<1>6. cts_landed <= s_next_post + max_inflight
  BY <1>2, WriteCtsAssumption DEF SendOrder, RecvOrder, CtsOrder
<1>7. entry.step_tag = s_next_post
  <2>1. entry.step_tag < s_next_post + max_inflight
    BY <1>4, <1>5, <1>6, WriteCtsAssumption
  <2> QED
    BY <1>4, <1>5, <2>1, SlotDistinct
<1>8. /\ wr_raddr' = [wr_raddr EXCEPT ![Slot(s_next_post)] = entry.raddr]
      /\ posted' = posted + 1 /\ s_pc' = "clear" /\ UNCHANGED s_error
      /\ signaled' = IF Signal THEN signaled \cup {s_next_post} ELSE signaled
  BY <1>7, Zenon DEF PostWrite
<1>9. signaled' \in {signaled, signaled \cup {s_next_post}}
  BY <1>8, Zenon
<1> QED
  BY <1>1, <1>2, <1>5, <1>7, <1>8, <1>9, Zenon DEF PostWrite

\* No step takes a variable out of its type: in particular no counter that
\* the code holds as an unsigned integer goes below zero.
LEMMA NextType ==
    TypeOK /\ SendOrder /\ RecvOrder /\ CtsOrder /\ Ready /\ [Next]_vars => TypeOK'
<1> SUFFICES ASSUME TypeOK, SendOrder, RecvOrder, CtsOrder, Ready, [Next]_vars PROVE TypeOK'
  BY Zenon
<1> USE DEF TypeOK, sendKernel, sendProxy, sendQp, ctsFifo, recvData, recvCts, recvQp,
            buffers, recvKernel
<1>1. CASE PublishSlice
  <2>1. send_tail \in Int /\ send_fifo \in [Slots -> Int]
    OBVIOUS
  <2>2. [send_fifo EXCEPT ![Slot(send_tail)] = send_tail] \in [Slots -> Int]
    BY <2>1, Zenon
  <2>3. send_fifo' \in [Slots -> Int]
    BY <1>1, <2>2, Zenon DEF PublishSlice
  <2> QED
    BY <1>1, <2>3 DEF PublishSlice
<1>2. CASE PostWrite
  <2>1. wr_raddr' \in [Slots -> Slots]
    BY <1>2, PostWriteGranted, SlotType, Zenon
  <2>2. signaled' \in {signaled, signaled \cup {s_next_post}}
    BY <1>2, PostWriteGranted, Zenon
  <2>3. signaled' \in SUBSET Nat
    BY <2>2, Zenon
  <2>4. /\ posted' = posted + 1 /\ s_pc' = "clear"
        /\ UNCHANGED <<s_next_post, s_next_complete, s_inflight, send_head, s_error,
                       delivered, acked, s_qp_failed, sendKernel, ctsFifo, recvData,
                       recvCts, recvQp, buffers, recvKernel>>
    BY <1>2, PostWriteGranted, Zenon
  <2> QED
    BY <2>1, <2>3, <2>4
<1>3. CASE ClearReady
  <2>1. cts' \in [Slots -> RdmaCtsSlot]
    BY <1>3, SlotType, ZenonT(40) DEF ClearReady, RdmaCtsSlot
  <2> QED
    BY <1>3, <2>1 DEF ClearReady
<1>4. CASE PollSendCq
  <2>1. PICK k \in SendCompletions : CompleteSend(k)
    BY <1>4, Zenon DEF PollSendCq
  <2>2. k \in Nat /\ k >= s_next_complete
    BY <2>1, Zenon DEF SendCompletions, SendOrder
  <2>3. CASE k - s_next_complete + 1 > s_inflight
    BY <2>1, <2>2, <2>3, Zenon DEF CompleteSend
  <2>4. CASE ~(k - s_next_complete + 1 > s_inflight)
    BY <2>1, <2>2, <2>4 DEF CompleteSend
  <2> QED
    BY <2>3, <2>4, Zenon
<1>5. CASE PollSendCqError
  BY <1>5, Zenon DEF PollSendCqError
<1>6. ASSUME NEW visible \in BOOLEAN, Deliver(visible) PROVE TypeOK'
  <2>1. send_fifo[Slot(delivered)] \in Int
    BY SlotType, Zenon
  <2>2. nic_fifo' \in [Slots -> Int] /\ gpu_fifo' \in [Slots -> Int]
    BY <1>6, <2>1, Zenon DEF Deliver
  <2> QED
    BY <1>6, <2>2 DEF Deliver
<1>7. CASE Acknowledge \/ AcknowledgeCts \/ FailSendQp \/ FailRecvQp
  <2>1. CASE Acknowledge
    BY <2>1 DEF Acknowledge
  <2>2. CASE AcknowledgeCts
    BY <2>2 DEF AcknowledgeCts
  <2>3. CASE FailSendQp
    BY <2>3, Zenon DEF FailSendQp
  <2>4. CASE FailRecvQp
    BY <2>4, Zenon DEF FailRecvQp
  <2> QED
    BY <1>7, <2>1, <2>2, <2>3, <2>4, Zenon
<1>8. CASE LandCts
  <2>1. cts' \in [Slots -> RdmaCtsSlot]
    BY <1>8, SlotType, Zenon DEF LandCts
  <2> QED
    BY <1>8, <2>1 DEF LandCts
<1>9. CASE PostCts
  <2>1. [ready |-> 1, step_tag |-> r_next_cts, raddr |-> Slot(r_next_cts)] \in RdmaCtsSlot
    BY SlotType, EntryType, Zenon
  <2>2. shadow' \in [Slots -> RdmaCtsSlot]
    BY <1>9, <2>1, Zenon DEF PostCts
  <2>3. cts_signaled' \in SUBSET Nat
    BY <1>9, Zenon DEF PostCts
  <2> QED
    BY <1>9, <2>2, <2>3 DEF PostCts
<1>10. CASE PostImmRecv
  BY <1>10 DEF PostImmRecv
<1>11. CASE PollImm
  <2>1. r_inflight' \in Nat
    BY <1>11 DEF PollImm, RecvOrder
  <2> QED
    BY <1>11, <2>1 DEF PollImm
<1>12. CASE PollCtsCq
  <2>1. PICK k \in CtsCompletions : CompleteCts(k)
    BY <1>12, Zenon DEF PollCtsCq
  <2>2. k \in Nat /\ k >= r_next_cts_complete
    BY <2>1, Zenon DEF CtsCompletions, CtsOrder
  <2>3. CASE k - r_next_cts_complete + 1 > r_inflight_cts
    BY <2>1, <2>2, <2>3, Zenon DEF CompleteCts
  <2>4. CASE ~(k - r_next_cts_complete + 1 > r_inflight_cts)
    BY <2>1, <2>2, <2>4 DEF CompleteCts
  <2> QED
    BY <2>3, <2>4, Zenon
<1>13. CASE PollRecvCqError
  BY <1>13, Zenon DEF PollRecvCqError
<1>14. CASE ReadRecvSlot
  <2>1. gpu_fifo[Slot(recv_step)] \in Int
    BY SlotType, Zenon
  <2> QED
    BY <1>14, <2>1 DEF ReadRecvSlot
<1>15. CASE PostRecvCredit
  BY <1>15, Zenon DEF PostRecvCredit
<1>16. CASE UNCHANGED vars
  BY <1>16, Zenon DEF vars
<1> QED
  BY <1>1, <1>2, <1>3, <1>4, <1>5, <1>6, <1>7, <1>8, <1>9, <1>10, <1>11, <1>12, <1>13, Zenon,
     <1>14, <1>15, <1>16
     DEF Next, SendProxyStep, WireStep, RecvProxyStep, RecvKernelStep
-----------------------------------------------------------------------------
(* The order of the counters.                                               *)

\* The steps of the receiving proxy and the kernels at both ends leave the
\* sender's counters alone, except for the publication of a slice.
LEMMA RecvSideSteps ==
    ASSUME RecvProxyStep \/ RecvKernelStep \/ AcknowledgeCts \/ LandCts \/ FailRecvQp
    PROVE  UNCHANGED <<sendKernel, sendProxy, sendQp>>
<1>1. CASE RecvProxyStep
  BY <1>1, Zenon DEF RecvProxyStep, PostCts, PostImmRecv, PollImm, PollCtsCq, CompleteCts,
              PollRecvCqError
<1>2. CASE RecvKernelStep
  BY <1>2, Zenon DEF RecvKernelStep, ReadRecvSlot, PostRecvCredit
<1>3. CASE AcknowledgeCts \/ LandCts \/ FailRecvQp
  BY <1>3, Zenon DEF AcknowledgeCts, LandCts, FailRecvQp
<1> QED
  BY <1>1, <1>2, <1>3, Zenon

\* The steps of the sending side leave the receiver's counters alone, except
\* for the delivery of a slice.
LEMMA SendSideSteps ==
    ASSUME PublishSlice \/ SendProxyStep \/ Acknowledge \/ FailSendQp
    PROVE  UNCHANGED <<delivered, cts_landed, recvData, recvCts, recvQp, buffers, recvKernel>>
<1>1. CASE PublishSlice \/ Acknowledge \/ FailSendQp
  BY <1>1, Zenon DEF PublishSlice, Acknowledge, FailSendQp, sendQp, ctsFifo
<1>2. CASE PostWrite \/ ClearReady \/ PollSendCqError
  BY <1>2, Zenon DEF PostWrite, ClearReady, PollSendCqError, sendQp, ctsFifo
<1>3. CASE PollSendCq
  BY <1>3, Zenon DEF PollSendCq, CompleteSend, sendQp, ctsFifo
<1> QED
  BY <1>1, <1>2, <1>3, Zenon DEF SendProxyStep

\* The counters of the sending side stay ordered: completion never overtakes
\* acknowledgement, and the kernel never runs more than a FIFO ahead.
LEMMA NextSendOrder ==
    TypeOK /\ SendOrder /\ RecvOrder /\ CtsOrder /\ Ready /\ [Next]_vars => SendOrder'
<1> SUFFICES ASSUME TypeOK, SendOrder, RecvOrder, CtsOrder, Ready, [Next]_vars
             PROVE  SendOrder'
  BY Zenon
<1> USE WriteCtsAssumption
<1>1. CASE PublishSlice
  BY <1>1 DEF PublishSlice, TypeOK, SendOrder, sendProxy, sendQp
<1>2. CASE PostWrite
  <2>1. /\ s_pc' = "clear" /\ posted = s_next_post /\ posted' = posted + 1
        /\ s_next_post < send_tail
        /\ signaled' \in {signaled, signaled \cup {s_next_post}}
        /\ UNCHANGED <<s_next_post, s_next_complete, s_inflight, send_head, delivered,
                       acked, send_tail>>
    BY <1>2, PostWriteGranted, Zenon DEF sendKernel
  <2>2. \A k \in signaled' : s_next_complete <= k /\ k < posted + 1
    BY <2>1 DEF TypeOK, SendOrder
  <2> QED
    BY <2>1, <2>2 DEF TypeOK, SendOrder
<1>3. CASE ClearReady
  BY <1>3 DEF ClearReady, TypeOK, SendOrder, sendKernel, sendQp
<1>4. CASE PollSendCq
  <2>1. PICK k \in SendCompletions : (\A j \in SendCompletions : k <= j) /\ CompleteSend(k)
    BY <1>4, Zenon DEF PollSendCq
  <2>2. k \in Nat /\ s_next_complete <= k /\ k < acked
    BY <2>1, Zenon DEF SendCompletions, TypeOK, SendOrder
  <2>3. s_pc = "idle" /\ posted = s_next_post
    BY <1>4 DEF PollSendCq, SendOrder, TypeOK
  <2>4. ~(k < s_next_complete \/ k - s_next_complete + 1 > s_inflight)
    BY <2>2, <2>3 DEF TypeOK, SendOrder
  <2>5. \A j \in signaled \ {k} : k + 1 <= j
    BY <2>1, <2>2 DEF SendCompletions, TypeOK
  <2>6. /\ signaled' = signaled \ {k} /\ s_next_complete' = k + 1 /\ send_head' = k + 1
        /\ s_inflight' = s_inflight - (k - s_next_complete + 1)
        /\ UNCHANGED <<s_pc, s_next_post, sendKernel, sendQp>>
    BY <2>1, <2>4, Zenon DEF CompleteSend
  <2> QED
    BY <2>2, <2>3, <2>4, <2>5, <2>6 DEF TypeOK, SendOrder, sendKernel, sendQp
<1>5. CASE PollSendCqError
  BY <1>5, Zenon DEF PollSendCqError, SendOrder, sendKernel, sendQp
<1>6. ASSUME NEW visible \in BOOLEAN, Deliver(visible) PROVE SendOrder'
  BY <1>6 DEF Deliver, TypeOK, SendOrder, sendKernel, sendProxy
<1>7. CASE Acknowledge
  BY <1>7 DEF Acknowledge, TypeOK, SendOrder, sendKernel, sendProxy
<1>8. CASE FailSendQp
  BY <1>8, Zenon DEF FailSendQp, SendOrder, sendKernel, sendProxy
<1>9. CASE RecvProxyStep \/ RecvKernelStep \/ AcknowledgeCts \/ LandCts \/ FailRecvQp
  BY <1>9, RecvSideSteps, Zenon DEF SendOrder, sendKernel, sendProxy, sendQp
<1>10. CASE UNCHANGED vars
  BY <1>10, Zenon DEF vars, SendOrder, sendKernel, sendProxy, sendQp
<1> QED
  BY <1>1, <1>2, <1>3, <1>4, <1>5, <1>6, <1>7, <1>8, <1>9, <1>10, Zenon
     DEF Next, SendProxyStep, WireStep

\* The counters of the receiving side stay ordered: nothing is published
\* before it was delivered, and no receive is posted for a slot still in use.
LEMMA NextRecvOrder == TypeOK /\ RecvOrder /\ [Next]_vars => RecvOrder'
<1> SUFFICES ASSUME TypeOK, RecvOrder, [Next]_vars PROVE RecvOrder'
  BY Zenon
<1> USE WriteCtsAssumption DEF RecvOrder
<1>1. CASE PublishSlice \/ SendProxyStep \/ Acknowledge \/ FailSendQp
  BY <1>1, SendSideSteps, Zenon DEF recvData, recvKernel
<1>2. ASSUME NEW visible \in BOOLEAN, Deliver(visible) PROVE RecvOrder'
  BY <1>2 DEF Deliver, TypeOK, recvData, recvKernel
<1>3. CASE LandCts \/ AcknowledgeCts \/ FailRecvQp \/ PostCts
  BY <1>3, Zenon DEF LandCts, AcknowledgeCts, FailRecvQp, PostCts, sendQp, recvData, recvKernel
<1>4. CASE PostImmRecv
  BY <1>4 DEF PostImmRecv, RecvCredit, TypeOK, sendQp, recvKernel
<1>5. CASE PollImm
  BY <1>5 DEF PollImm, TypeOK, sendQp, recvKernel
<1>6. CASE PollCtsCq
  BY <1>6, Zenon DEF PollCtsCq, CompleteCts, sendQp, recvKernel
<1>7. CASE PollRecvCqError
  BY <1>7, Zenon DEF PollRecvCqError, sendQp, recvKernel
<1>8. CASE ReadRecvSlot
  BY <1>8 DEF ReadRecvSlot, TypeOK, sendQp, recvData
<1>9. CASE PostRecvCredit
  BY <1>9 DEF PostRecvCredit, TypeOK, sendQp, recvData
<1>10. CASE UNCHANGED vars
  BY <1>10, Zenon DEF vars, sendQp, recvData, recvKernel
<1> QED
  BY <1>1, <1>2, <1>3, <1>4, <1>5, <1>6, <1>7, <1>8, <1>9, <1>10, Zenon
     DEF Next, WireStep, RecvProxyStep, RecvKernelStep

\* The counters of the entries stay ordered: a slice is posted only after its
\* entry arrived, and an entry is posted only for a slot that is free.
LEMMA NextCtsOrder ==
    TypeOK /\ SendOrder /\ RecvOrder /\ CtsOrder /\ Ready /\ [Next]_vars => CtsOrder'
<1> SUFFICES ASSUME TypeOK, SendOrder, RecvOrder, CtsOrder, Ready, [Next]_vars
             PROVE  CtsOrder'
  BY Zenon
<1> USE WriteCtsAssumption
<1>1. CASE PublishSlice \/ Acknowledge \/ FailSendQp
  <2>1. posted' = posted
    BY <1>1, Zenon DEF PublishSlice, Acknowledge, FailSendQp, sendQp
  <2> QED
    BY <1>1, <2>1, SendSideSteps, Zenon DEF CtsOrder, recvCts, recvQp, recvKernel
<1>2. CASE PostWrite
  <2>1. posted' <= cts_landed
    BY <1>2, PostWriteGranted DEF TypeOK
  <2> QED
    BY <1>2, <2>1, SendSideSteps, Zenon DEF SendProxyStep, CtsOrder, recvCts, recvQp, recvKernel
<1>3. CASE ClearReady
  BY <1>3, Zenon DEF ClearReady, CtsOrder, sendQp, recvCts, recvQp, recvKernel
<1>4. CASE PollSendCq
  <2>1. posted' = posted
    BY <1>4, Zenon DEF PollSendCq, CompleteSend, sendQp
  <2> QED
    BY <1>4, <2>1, SendSideSteps, Zenon DEF SendProxyStep, CtsOrder, recvCts, recvQp, recvKernel
<1>5. CASE PollSendCqError
  BY <1>5, Zenon DEF PollSendCqError, CtsOrder, sendQp, ctsFifo, recvCts, recvQp, recvKernel
<1>6. ASSUME NEW visible \in BOOLEAN, Deliver(visible) PROVE CtsOrder'
  BY <1>6, Zenon DEF Deliver, CtsOrder, ctsFifo, recvCts, recvQp, recvKernel
<1>7. CASE LandCts
  BY <1>7 DEF LandCts, TypeOK, CtsOrder, sendQp, recvCts, recvQp, recvKernel
<1>8. CASE AcknowledgeCts
  BY <1>8 DEF AcknowledgeCts, TypeOK, CtsOrder, sendQp, ctsFifo, recvCts, recvKernel
<1>9. CASE FailRecvQp
  BY <1>9, Zenon DEF FailRecvQp, CtsOrder, sendQp, ctsFifo, recvCts, recvKernel
<1>10. CASE PostCts
  <2>1. \A k \in cts_signaled' : r_next_cts_complete <= k /\ k < r_next_cts + 1
    BY <1>10 DEF PostCts, TypeOK, CtsOrder
  <2> QED
    BY <1>10, <2>1 DEF PostCts, RecvCredit, TypeOK, CtsOrder, sendQp, ctsFifo, recvQp, recvKernel
<1>11. CASE PostImmRecv \/ PollImm \/ PollRecvCqError
  BY <1>11, Zenon DEF PostImmRecv, PollImm, PollRecvCqError, CtsOrder, sendQp, ctsFifo, recvCts,
               recvQp, recvKernel
<1>12. CASE PollCtsCq
  <2>1. PICK k \in CtsCompletions : (\A j \in CtsCompletions : k <= j) /\ CompleteCts(k)
    BY <1>12, Zenon DEF PollCtsCq
  <2>2. k \in Nat /\ r_next_cts_complete <= k /\ k < cts_acked
    BY <2>1, Zenon DEF CtsCompletions, TypeOK, CtsOrder
  <2>3. ~(k < r_next_cts_complete \/ k - r_next_cts_complete + 1 > r_inflight_cts)
    BY <2>2 DEF TypeOK, CtsOrder
  <2>4. \A j \in cts_signaled \ {k} : k + 1 <= j
    BY <2>1, <2>2 DEF CtsCompletions, TypeOK
  <2>5. /\ cts_signaled' = cts_signaled \ {k} /\ r_next_cts_complete' = k + 1
        /\ r_inflight_cts' = r_inflight_cts - (k - r_next_cts_complete + 1)
        /\ UNCHANGED <<r_next_cts, sendQp, ctsFifo, recvQp, recvKernel>>
    BY <2>1, <2>3, Zenon DEF CompleteCts
  <2> QED
    BY <2>2, <2>3, <2>4, <2>5 DEF TypeOK, CtsOrder, sendQp, ctsFifo, recvQp, recvKernel
<1>13. CASE ReadRecvSlot
  BY <1>13, Zenon DEF ReadRecvSlot, CtsOrder, sendQp, ctsFifo, recvCts, recvQp
<1>14. CASE PostRecvCredit
  BY <1>14 DEF PostRecvCredit, TypeOK, RecvOrder, CtsOrder, sendQp, ctsFifo, recvCts, recvQp
<1>15. CASE UNCHANGED vars
  BY <1>15, Zenon DEF vars, CtsOrder, sendQp, ctsFifo, recvCts, recvQp, recvKernel
<1> QED
  BY <1>1, <1>2, <1>3, <1>4, <1>5, <1>6, <1>7, <1>8, <1>9, <1>10, <1>11, <1>12, <1>13,
     <1>14, <1>15, Zenon
     DEF Next, SendProxyStep, WireStep, RecvProxyStep, RecvKernelStep
-----------------------------------------------------------------------------
(* The contents of slots and entries.                                       *)

\* A slot of the send FIFO keeps its slice until the write has completed.
LEMMA NextSendSlots ==
    TypeOK /\ SendOrder /\ SendOrder' /\ SendSlots /\ [Next]_vars => SendSlots'
<1> SUFFICES ASSUME TypeOK, SendOrder, SendOrder', SendSlots, [Next]_vars PROVE SendSlots'
  BY Zenon
<1>1. CASE PublishSlice
  <2>1. /\ send_fifo' = [send_fifo EXCEPT ![Slot(send_tail)] = send_tail]
        /\ send_tail' = send_tail + 1 /\ s_next_complete' = s_next_complete
    BY <1>1, Zenon DEF PublishSlice, sendProxy
  <2>2. send_tail < s_next_complete + max_inflight
    BY <2>1, WriteCtsAssumption DEF TypeOK, SendOrder
  <2>3. \A k \in s_next_complete .. send_tail - 1 : Slot(k) # Slot(send_tail)
    BY <2>2, SlotDistinct, WriteCtsAssumption DEF TypeOK
  <2>4. \A k \in s_next_complete .. send_tail - 1 : send_fifo'[Slot(k)] = k
    BY <2>1, <2>3, SlotType DEF TypeOK, SendSlots
  <2>5. send_fifo'[Slot(send_tail)] = send_tail
    BY <2>1, SlotType, Zenon DEF TypeOK
  <2> QED
    BY <2>1, <2>4, <2>5 DEF SendSlots, TypeOK
<1>2. ASSUME UNCHANGED sendKernel, s_next_complete' \in Nat, s_next_complete' >= s_next_complete
      PROVE  SendSlots'
  BY <1>2 DEF SendSlots, TypeOK, sendKernel
<1>3. CASE PostWrite \/ ClearReady \/ PollSendCqError
  BY <1>2, <1>3 DEF PostWrite, ClearReady, PollSendCqError, TypeOK
<1>4. CASE PollSendCq
  <2>1. PICK k \in SendCompletions : CompleteSend(k)
    BY <1>4, Zenon DEF PollSendCq
  <2>2. k \in Nat /\ s_next_complete <= k
    BY <2>1, Zenon DEF SendCompletions, TypeOK, SendOrder
  <2>3. s_next_complete' \in {s_next_complete, k + 1} /\ UNCHANGED sendKernel
    BY <2>1, Zenon DEF CompleteSend
  <2> QED
    BY <1>2, <2>2, <2>3 DEF TypeOK
<1>5. ASSUME NEW visible \in BOOLEAN, Deliver(visible) PROVE SendSlots'
  BY <1>5, <1>2 DEF Deliver, TypeOK, sendProxy
<1>6. CASE Acknowledge \/ FailSendQp
  BY <1>6, <1>2 DEF Acknowledge, FailSendQp, TypeOK, sendProxy
<1>7. CASE RecvProxyStep \/ RecvKernelStep \/ AcknowledgeCts \/ LandCts \/ FailRecvQp
  BY <1>7, <1>2, RecvSideSteps DEF TypeOK, sendProxy
<1>8. CASE UNCHANGED vars
  BY <1>8, <1>2 DEF vars, TypeOK, sendProxy
<1> QED
  BY <1>1, <1>3, <1>4, <1>5, <1>6, <1>7, <1>8, Zenon DEF Next, SendProxyStep, WireStep

\* The shadow of an entry is not overwritten before the entry has arrived:
\* the requests in flight, which bound the loop, include it.
LEMMA NextShadow ==
    TypeOK /\ CtsOrder /\ CtsOrder' /\ RecvOrder /\ SendOrder /\ Shadow /\ [Next]_vars
        => Shadow'
<1> SUFFICES ASSUME TypeOK, CtsOrder, CtsOrder', RecvOrder, SendOrder, Shadow, [Next]_vars
             PROVE  Shadow'
  BY Zenon
<1>1. CASE PostCts
  <2>1. /\ shadow' = [shadow EXCEPT ![Slot(r_next_cts)] =
                        [ready |-> 1, step_tag |-> r_next_cts, raddr |-> Slot(r_next_cts)]]
        /\ r_next_cts' = r_next_cts + 1 /\ cts_landed' = cts_landed
        /\ r_inflight_cts < max_inflight
    BY <1>1, Zenon DEF PostCts, ctsFifo
  <2>2. r_next_cts < cts_landed + max_inflight
    BY <2>1, WriteCtsAssumption DEF TypeOK, CtsOrder
  <2>3. \A k \in cts_landed .. r_next_cts - 1 : Slot(k) # Slot(r_next_cts)
    BY <2>2, SlotDistinct, WriteCtsAssumption DEF TypeOK
  <2>4. \A k \in cts_landed .. r_next_cts - 1 : shadow'[Slot(k)] = shadow[Slot(k)]
    BY <2>1, <2>3, SlotType DEF TypeOK
  <2>5. shadow'[Slot(r_next_cts)] =
            [ready |-> 1, step_tag |-> r_next_cts, raddr |-> Slot(r_next_cts)]
    BY <2>1, SlotType, Zenon DEF TypeOK
  <2> SUFFICES ASSUME NEW k \in cts_landed .. r_next_cts
               PROVE  shadow'[Slot(k)] = [ready |-> 1, step_tag |-> k, raddr |-> Slot(k)]
    BY <2>1 DEF Shadow, TypeOK
  <2>6. CASE k = r_next_cts
    BY <2>5, <2>6, Zenon
  <2>7. CASE k # r_next_cts
    <3>1. k \in cts_landed .. r_next_cts - 1
      BY <2>7 DEF TypeOK
    <3> QED
      BY <2>4, <3>1, Zenon DEF Shadow
  <2> QED
    BY <2>6, <2>7, Zenon
<1>2. CASE LandCts
  <2>1. cts_landed' = cts_landed + 1 /\ UNCHANGED <<shadow, r_next_cts>>
    BY <1>2, Zenon DEF LandCts, recvCts
  <2> QED
    BY <2>1 DEF Shadow, TypeOK
<1>3. ASSUME UNCHANGED <<cts_landed, shadow, r_next_cts>> PROVE Shadow'
  BY <1>3, Zenon DEF Shadow
<1>4. CASE PublishSlice \/ SendProxyStep \/ Acknowledge \/ FailSendQp
  BY <1>3, <1>4, SendSideSteps, Zenon DEF recvCts
<1>5. ASSUME NEW visible \in BOOLEAN, Deliver(visible) PROVE Shadow'
  BY <1>3, <1>5, Zenon DEF Deliver, ctsFifo, recvCts
<1>6. CASE AcknowledgeCts \/ FailRecvQp
  BY <1>3, <1>6, Zenon DEF AcknowledgeCts, FailRecvQp, ctsFifo, recvCts
<1>7. CASE PostImmRecv \/ PollImm \/ PollRecvCqError
  BY <1>3, <1>7, Zenon DEF PostImmRecv, PollImm, PollRecvCqError, ctsFifo, recvCts
<1>8. CASE PollCtsCq
  BY <1>3, <1>8, Zenon DEF PollCtsCq, CompleteCts, ctsFifo
<1>9. CASE RecvKernelStep
  BY <1>3, <1>9, Zenon DEF RecvKernelStep, ReadRecvSlot, PostRecvCredit, ctsFifo, recvCts
<1>10. CASE UNCHANGED vars
  BY <1>3, <1>10, Zenon DEF vars, ctsFifo, recvCts
<1> QED
  BY <1>1, <1>2, <1>4, <1>5, <1>6, <1>7, <1>8, <1>9, <1>10, Zenon DEF Next, WireStep, RecvProxyStep

\* An entry that is ready belongs to the present round of its slot.
LEMMA NextReady ==
    TypeOK /\ SendOrder /\ CtsOrder /\ RecvOrder /\ Shadow /\ Ready /\ [Next]_vars => Ready'
<1> SUFFICES ASSUME TypeOK, SendOrder, CtsOrder, RecvOrder, Shadow, Ready, [Next]_vars
             PROVE  Ready'
  BY Zenon
<1>1. CASE ClearReady
  <2>1. /\ cts' = [cts EXCEPT ![Slot(s_next_post)].ready = 0]
        /\ s_next_post' = s_next_post + 1 /\ cts_landed' = cts_landed
    BY <1>1, Zenon DEF ClearReady
  <2> SUFFICES ASSUME NEW s \in Slots, cts'[s].ready = 1
               PROVE  /\ cts'[s].raddr = s /\ Slot(cts'[s].step_tag) = s
                      /\ s_next_post + 1 <= cts'[s].step_tag /\ cts'[s].step_tag < cts_landed
    BY <2>1, Zenon DEF Ready
  <2>2. cts[s] \in RdmaCtsSlot /\ Slot(s_next_post) \in Slots
    BY SlotType, Zenon DEF TypeOK
  <2>3. s # Slot(s_next_post)
    BY <2>1, <2>2 DEF TypeOK, RdmaCtsSlot
  <2>4. cts'[s] = cts[s]
    BY <2>1, <2>3, Zenon DEF TypeOK
  <2>5. cts[s].step_tag # s_next_post /\ cts[s].step_tag \in Nat
    BY <2>2, <2>3, <2>4, Zenon DEF Ready, RdmaCtsSlot
  <2>6. /\ cts[s].raddr = s /\ Slot(cts[s].step_tag) = s
        /\ s_next_post <= cts[s].step_tag /\ cts[s].step_tag < cts_landed
    BY <2>4, Zenon DEF Ready
  <2>7. s_next_post + 1 <= cts[s].step_tag
    BY <2>5, <2>6 DEF TypeOK
  <2> QED
    BY <2>4, <2>6, <2>7, Zenon
<1>2. CASE LandCts
  <2>1. /\ cts' = [cts EXCEPT ![Slot(cts_landed)] = shadow[Slot(cts_landed)]]
        /\ cts_landed' = cts_landed + 1 /\ s_next_post' = s_next_post
        /\ cts_landed < r_next_cts
    BY <1>2, Zenon DEF LandCts, sendProxy
  <2>2. shadow[Slot(cts_landed)] =
            [ready |-> 1, step_tag |-> cts_landed, raddr |-> Slot(cts_landed)]
    BY <2>1 DEF Shadow, TypeOK
  <2>3. s_next_post <= cts_landed
    BY DEF TypeOK, SendOrder, CtsOrder
  <2> SUFFICES ASSUME NEW s \in Slots, cts'[s].ready = 1
               PROVE  /\ cts'[s].raddr = s /\ Slot(cts'[s].step_tag) = s
                      /\ s_next_post <= cts'[s].step_tag /\ cts'[s].step_tag < cts_landed + 1
    BY <2>1, Zenon DEF Ready
  <2>4. CASE s = Slot(cts_landed)
    BY <2>1, <2>2, <2>3, <2>4 DEF TypeOK
  <2>5. CASE s # Slot(cts_landed)
    <3>1. cts'[s] = cts[s]
      BY <2>1, <2>5, Zenon DEF TypeOK
    <3>2. cts[s].step_tag \in Nat
      BY Zenon DEF TypeOK, RdmaCtsSlot
    <3> QED
      BY <3>1, <3>2 DEF Ready, TypeOK
  <2> QED
    BY <2>4, <2>5, Zenon
<1>3. ASSUME UNCHANGED <<cts, cts_landed, s_next_post>> PROVE Ready'
  BY <1>3, Zenon DEF Ready
<1>4. CASE PublishSlice \/ PostWrite \/ PollSendCqError
  BY <1>3, <1>4, Zenon DEF PublishSlice, PostWrite, PollSendCqError, sendProxy, ctsFifo
<1>5. CASE PollSendCq
  BY <1>3, <1>5, Zenon DEF PollSendCq, CompleteSend, ctsFifo
<1>6. ASSUME NEW visible \in BOOLEAN, Deliver(visible) PROVE Ready'
  BY <1>3, <1>6, Zenon DEF Deliver, sendProxy, ctsFifo
<1>7. CASE Acknowledge \/ AcknowledgeCts \/ FailSendQp \/ FailRecvQp
  BY <1>3, <1>7, Zenon DEF Acknowledge, AcknowledgeCts, FailSendQp, FailRecvQp, sendProxy, ctsFifo
<1>8. CASE RecvProxyStep
  BY <1>3, <1>8, Zenon DEF RecvProxyStep, PostCts, PostImmRecv, PollImm, PollCtsCq, CompleteCts,
                    PollRecvCqError, sendProxy, ctsFifo
<1>9. CASE RecvKernelStep
  BY <1>3, <1>9, Zenon DEF RecvKernelStep, ReadRecvSlot, PostRecvCredit, sendProxy, ctsFifo
<1>10. CASE UNCHANGED vars
  BY <1>3, <1>10, Zenon DEF vars, sendProxy, ctsFifo
<1> QED
  BY <1>1, <1>2, <1>4, <1>5, <1>6, <1>7, <1>8, <1>9, <1>10, Zenon DEF Next, SendProxyStep, WireStep

\* A write that is posted goes to the slot of its slice until it is delivered.
LEMMA NextTargets ==
    TypeOK /\ SendOrder /\ RecvOrder /\ CtsOrder /\ Ready /\ Targets /\ [Next]_vars => Targets'
<1> SUFFICES ASSUME TypeOK, SendOrder, RecvOrder, CtsOrder, Ready, Targets, [Next]_vars
             PROVE  Targets'
  BY Zenon
<1>1. CASE PostWrite
  <2>1. /\ wr_raddr' = [wr_raddr EXCEPT ![Slot(posted)] = Slot(posted)]
        /\ posted = s_next_post /\ posted' = posted + 1 /\ delivered' = delivered
        /\ posted < send_tail
    BY <1>1, PostWriteGranted, Zenon
  <2>2. posted < delivered + max_inflight
    BY <2>1, WriteCtsAssumption DEF TypeOK, SendOrder
  <2>3. \A k \in delivered .. posted - 1 : Slot(k) # Slot(posted)
    BY <2>2, SlotDistinct, WriteCtsAssumption DEF TypeOK
  <2>4. \A k \in delivered .. posted - 1 : wr_raddr'[Slot(k)] = Slot(k)
    BY <2>1, <2>3, SlotType DEF TypeOK, Targets
  <2>5. wr_raddr'[Slot(posted)] = Slot(posted)
    BY <2>1, SlotType, Zenon DEF TypeOK
  <2> QED
    BY <2>1, <2>4, <2>5 DEF Targets, TypeOK
<1>2. ASSUME NEW visible \in BOOLEAN, Deliver(visible) PROVE Targets'
  BY <1>2 DEF Deliver, Targets, TypeOK
<1>3. ASSUME UNCHANGED <<wr_raddr, delivered, posted>> PROVE Targets'
  BY <1>3, Zenon DEF Targets
<1>4. CASE PublishSlice \/ ClearReady \/ PollSendCqError
  BY <1>3, <1>4, Zenon DEF PublishSlice, ClearReady, PollSendCqError, sendQp
<1>5. CASE PollSendCq
  BY <1>3, <1>5, Zenon DEF PollSendCq, CompleteSend, sendQp
<1>6. CASE Acknowledge \/ FailSendQp
  BY <1>3, <1>6, Zenon DEF Acknowledge, FailSendQp
<1>7. CASE RecvProxyStep \/ RecvKernelStep \/ AcknowledgeCts \/ LandCts \/ FailRecvQp
  BY <1>3, <1>7, RecvSideSteps, Zenon DEF sendQp
<1>8. CASE UNCHANGED vars
  BY <1>3, <1>8, Zenon DEF vars, sendQp
<1> QED
  BY <1>1, <1>2, <1>4, <1>5, <1>6, <1>7, <1>8, Zenon DEF Next, SendProxyStep, WireStep

\* A delivered slice stays in the slot that was granted for it: the write of a
\* later slice goes to a slot whose slice was consumed.
LEMMA NextGranted ==
    /\ TypeOK /\ SendOrder /\ RecvOrder /\ SendSlots /\ Targets /\ GrantedSlotsStable
    /\ [Next]_vars
    => GrantedSlotsStable'
<1> SUFFICES ASSUME TypeOK, SendOrder, RecvOrder, SendSlots, Targets, GrantedSlotsStable,
                    [Next]_vars
             PROVE  GrantedSlotsStable'
  BY Zenon
<1>1. ASSUME NEW visible \in BOOLEAN, Deliver(visible) PROVE GrantedSlotsStable'
  <2>1. delivered \in delivered .. posted - 1 /\ delivered \in s_next_complete .. send_tail - 1
    BY <1>1 DEF Deliver, TypeOK, SendOrder
  <2>2. wr_raddr[Slot(delivered)] = Slot(delivered) /\ send_fifo[Slot(delivered)] = delivered
    BY <2>1, Zenon DEF Targets, SendSlots
  <2>3. /\ nic_fifo' = [nic_fifo EXCEPT ![Slot(delivered)] = delivered]
        /\ gpu_fifo' \in {gpu_fifo, [gpu_fifo EXCEPT ![Slot(delivered)] = delivered]}
        /\ delivered' = delivered + 1 /\ UNCHANGED <<recv_step, recv_tail>>
    BY <1>1, <2>2, Zenon DEF Deliver, recvData, recvKernel
  <2>4. delivered < recv_step + max_inflight
    BY <1>1, WriteCtsAssumption DEF Deliver, TypeOK, RecvOrder
  <2>5. \A k \in recv_step .. delivered - 1 : Slot(k) # Slot(delivered) /\ Slot(k) \in Slots
    BY <2>4, SlotDistinct, SlotType, WriteCtsAssumption DEF TypeOK
  <2>6. \A k \in recv_step .. delivered - 1 : nic_fifo'[Slot(k)] = k
    BY <2>3, <2>5, Zenon DEF TypeOK, GrantedSlotsStable
  <2>7. nic_fifo'[Slot(delivered)] = delivered
    BY <2>3, SlotType, Zenon DEF TypeOK
  <2>8. \A k \in recv_step .. recv_tail - 1 : k \in recv_step .. delivered - 1
    BY DEF TypeOK, RecvOrder
  <2>9. \A k \in recv_step .. recv_tail - 1 : gpu_fifo'[Slot(k)] = gpu_fifo[Slot(k)]
    BY <2>3, <2>5, <2>8, Zenon DEF TypeOK
  <2>10. \A k \in recv_step .. delivered : nic_fifo'[Slot(k)] = k
    BY <2>6, <2>7 DEF TypeOK
  <2> QED
    BY <2>3, <2>9, <2>10 DEF GrantedSlotsStable, TypeOK
<1>2. CASE PollImm
  <2>1. /\ gpu_fifo' = nic_fifo /\ recv_tail' = r_next_complete + 1
        /\ r_next_complete < delivered
        /\ UNCHANGED <<nic_fifo, delivered, recv_step>>
    BY <1>2, Zenon DEF PollImm, sendQp, recvKernel
  <2> QED
    BY <2>1 DEF GrantedSlotsStable, TypeOK
<1>3. CASE ReadRecvSlot
  <2>1. recv_step' = recv_step + 1 /\ UNCHANGED <<nic_fifo, gpu_fifo, delivered, recv_tail>>
    BY <1>3, Zenon DEF ReadRecvSlot, sendQp, recvData, buffers
  <2> QED
    BY <2>1 DEF GrantedSlotsStable, TypeOK
<1>4. ASSUME UNCHANGED <<nic_fifo, gpu_fifo, delivered, recv_tail, recv_step>>
      PROVE  GrantedSlotsStable'
  BY <1>4, Zenon DEF GrantedSlotsStable
<1>5. CASE PublishSlice \/ SendProxyStep \/ Acknowledge \/ FailSendQp
  BY <1>4, <1>5, SendSideSteps, Zenon DEF recvData, buffers, recvKernel
<1>6. CASE LandCts \/ AcknowledgeCts \/ FailRecvQp
  BY <1>4, <1>6, Zenon DEF LandCts, AcknowledgeCts, FailRecvQp, sendQp, recvData, buffers, recvKernel
<1>7. CASE PostCts \/ PostImmRecv \/ PollRecvCqError
  BY <1>4, <1>7, Zenon DEF PostCts, PostImmRecv, PollRecvCqError, sendQp, recvData, buffers, recvKernel
<1>8. CASE PollCtsCq
  BY <1>4, <1>8, Zenon DEF PollCtsCq, CompleteCts, sendQp, buffers, recvKernel
<1>9. CASE PostRecvCredit
  BY <1>4, <1>9, Zenon DEF PostRecvCredit, sendQp, recvData, buffers
<1>10. CASE UNCHANGED vars
  BY <1>4, <1>10, Zenon DEF vars, sendQp, recvData, buffers, recvKernel
<1> QED
  BY <1>1, <1>2, <1>3, <1>5, <1>6, <1>7, <1>8, <1>9, <1>10, Zenon
     DEF Next, WireStep, RecvProxyStep, RecvKernelStep

\* The checks of the proxies do not fire: an error is one of a queue pair.
LEMMA NextNoSpuriousFailure ==
    /\ TypeOK /\ SendOrder /\ RecvOrder /\ CtsOrder /\ Ready /\ NoSpuriousFailure
    /\ [Next]_vars
    => NoSpuriousFailure'
<1> SUFFICES ASSUME TypeOK, SendOrder, RecvOrder, CtsOrder, Ready, NoSpuriousFailure,
                    [Next]_vars
             PROVE  NoSpuriousFailure'
  OBVIOUS
<1> USE DEF NoSpuriousFailure
<1>1. ASSUME UNCHANGED <<s_error, r_error, s_qp_failed, r_qp_failed>> PROVE NoSpuriousFailure'
  BY <1>1, Zenon
<1>2. CASE PostWrite
  BY <1>1, <1>2, PostWriteGranted, Zenon DEF recvData, recvQp
<1>3. CASE PollSendCq
  <2>1. PICK k \in SendCompletions : CompleteSend(k)
    BY <1>3, Zenon DEF PollSendCq
  <2>2. k \in Nat /\ s_next_complete <= k /\ k < acked
    BY <2>1, Zenon DEF SendCompletions, TypeOK, SendOrder
  <2>3. posted = s_next_post
    BY <1>3 DEF PollSendCq, SendOrder, TypeOK
  <2>4. ~(k < s_next_complete \/ k - s_next_complete + 1 > s_inflight)
    BY <2>2, <2>3 DEF TypeOK, SendOrder
  <2> QED
    BY <1>1, <2>1, <2>4, Zenon DEF CompleteSend, sendQp, recvData, recvQp
<1>4. CASE PollCtsCq
  <2>1. PICK k \in CtsCompletions : CompleteCts(k)
    BY <1>4, Zenon DEF PollCtsCq
  <2>2. k \in Nat /\ r_next_cts_complete <= k /\ k < cts_acked
    BY <2>1, Zenon DEF CtsCompletions, TypeOK, CtsOrder
  <2>3. ~(k < r_next_cts_complete \/ k - r_next_cts_complete + 1 > r_inflight_cts)
    BY <2>2 DEF TypeOK, CtsOrder
  <2> QED
    BY <1>1, <2>1, <2>3, Zenon DEF CompleteCts, sendProxy, sendQp, recvQp
<1>5. CASE PollSendCqError
  BY <1>5, Zenon DEF PollSendCqError, sendQp, recvData, recvQp
<1>6. CASE PollRecvCqError
  BY <1>6, Zenon DEF PollRecvCqError, sendProxy, sendQp, recvQp
<1>7. CASE FailSendQp
  BY <1>7, Zenon DEF FailSendQp, sendProxy, recvData, recvQp
<1>8. CASE FailRecvQp
  BY <1>8, Zenon DEF FailRecvQp, sendProxy, sendQp, recvData
<1>9. CASE PublishSlice \/ ClearReady
  BY <1>1, <1>9, Zenon DEF PublishSlice, ClearReady, sendProxy, sendQp, recvData, recvQp
<1>10. ASSUME NEW visible \in BOOLEAN, Deliver(visible) PROVE NoSpuriousFailure'
  BY <1>1, <1>10, Zenon DEF Deliver, sendProxy, recvData, recvQp
<1>11. CASE Acknowledge \/ LandCts \/ AcknowledgeCts
  BY <1>1, <1>11, Zenon DEF Acknowledge, LandCts, AcknowledgeCts, sendProxy, sendQp, recvData, recvQp
<1>12. CASE PostCts \/ PostImmRecv \/ PollImm
  BY <1>1, <1>12, Zenon DEF PostCts, PostImmRecv, PollImm, sendProxy, sendQp, recvData, recvQp
<1>13. CASE RecvKernelStep
  BY <1>1, <1>13, Zenon DEF RecvKernelStep, ReadRecvSlot, PostRecvCredit, sendProxy, sendQp,
                     recvData, recvQp
<1>14. CASE UNCHANGED vars
  BY <1>1, <1>14, Zenon DEF vars, sendProxy, sendQp, recvData, recvQp
<1> QED
  BY <1>2, <1>3, <1>4, <1>5, <1>6, <1>7, <1>8, <1>9, <1>10, <1>11, <1>12, <1>13, <1>14, Zenon
     DEF Next, SendProxyStep, WireStep, RecvProxyStep
-----------------------------------------------------------------------------
(* The theorems.                                                            *)

\* The initial state satisfies the inductive invariant.
LEMMA InitInv == Init => IInv
<1> SUFFICES ASSUME Init PROVE IInv
  OBVIOUS
<1> USE WriteCtsAssumption
<1>1. SendOrder /\ RecvOrder /\ CtsOrder
  BY DEF Init, SendOrder, RecvOrder, CtsOrder
<1>2. SendSlots /\ Shadow /\ Targets /\ GrantedSlotsStable
  BY DEF Init, SendSlots, Shadow, Targets, GrantedSlotsStable
<1>3. Ready
  BY DEF Init, Ready, NoCts
<1>4. NoSpuriousFailure
  BY Zenon DEF Init, NoSpuriousFailure
<1> QED
  BY InitType, <1>1, <1>2, <1>3, <1>4, Zenon DEF IInv

\* Counter order, slot contents and the rounds of the entries are inductive
\* together.
THEOREM Invariance == Spec => []IInv
<1>1. IInv /\ [Next]_vars => IInv'
  <2> SUFFICES ASSUME IInv, [Next]_vars PROVE IInv'
    BY Zenon
  <2>1. TypeOK' /\ SendOrder' /\ RecvOrder' /\ CtsOrder'
    BY NextType, NextSendOrder, NextRecvOrder, NextCtsOrder, Zenon DEF IInv
  <2>2. SendSlots' /\ Shadow' /\ Ready' /\ Targets'
    BY <2>1, NextSendSlots, NextShadow, NextReady, NextTargets, Zenon DEF IInv
  <2>3. GrantedSlotsStable' /\ NoSpuriousFailure'
    BY NextGranted, NextNoSpuriousFailure, Zenon DEF IInv
  <2> QED
    BY <2>1, <2>2, <2>3, Zenon DEF IInv
<1> QED
  BY InitInv, <1>1, PTL DEF Spec

\* Type correctness of the edge; counters never go below zero.
THEOREM TypeCorrect == Spec => []TypeOK
BY Invariance, PTL DEF IInv

\* A slice is written into the slot that was granted for it and stays there
\* until it is consumed.
THEOREM GrantedSlotsAreStable == Spec => []GrantedSlotsStable
BY Invariance, PTL DEF IInv

\* No entry is used in another round, and the proxies report an error only
\* after a queue pair failed; also when an entry was lost.
THEOREM FailuresAreReal == Spec => []NoSpuriousFailure
BY Invariance, PTL DEF IInv

\* The edge implements a lossless in-order FIFO of slices, for every depth and
\* signaling interval: a lost entry delays slices, it does not alter them.
THEOREM EdgeImplementsFifo == Spec => EdgeIsFifo
<1>1. Init => Edge!Init
  BY Zenon DEF Init, Edge!Init
<1>2. IInv /\ [Next]_vars => [Edge!Next]_Edge!vars
  <2> SUFFICES ASSUME IInv, [Next]_vars PROVE [Edge!Next]_Edge!vars
    BY Zenon
  <2>1. CASE PublishSlice
    BY <2>1, Zenon DEF PublishSlice, recvKernel, Edge!Next, Edge!Send
  <2>2. CASE ReadRecvSlot
    <3>1. /\ recv_step \in Nat /\ recv_step \in recv_step .. recv_tail - 1
          /\ recv_step < TotalSlices /\ recv_step \in Slices
      BY <2>2, WriteCtsAssumption DEF ReadRecvSlot, IInv, TypeOK, RecvOrder, Slices
    <3>2. got' = recv_step
      BY <2>2, <3>1, Zenon DEF ReadRecvSlot, IInv, GrantedSlotsStable
    <3>3. recv_step < send_tail
      BY <3>1 DEF IInv, TypeOK, SendOrder, RecvOrder
    <3>4. [k \in Slices |-> 1][recv_step] = 1
      BY <3>1, Zenon
    <3> QED
      BY <2>2, <3>1, <3>2, <3>3, <3>4 DEF ReadRecvSlot, sendKernel, Edge!Next, Edge!Take
  <2>3. ASSUME UNCHANGED <<send_tail, recv_step, got>> PROVE [Edge!Next]_Edge!vars
    BY <2>3, Zenon DEF Edge!vars
  <2>4. CASE SendProxyStep
    BY <2>3, <2>4, Zenon DEF SendProxyStep, PostWrite, ClearReady, PollSendCq, CompleteSend,
                      PollSendCqError, sendKernel, recvKernel
  <2>5. CASE WireStep \/ FailSendQp \/ FailRecvQp
    BY <2>3, <2>5, Zenon DEF WireStep, Deliver, Acknowledge, LandCts, AcknowledgeCts, FailSendQp,
                      FailRecvQp, sendKernel, recvKernel
  <2>6. CASE RecvProxyStep
    BY <2>3, <2>6, Zenon DEF RecvProxyStep, PostCts, PostImmRecv, PollImm, PollCtsCq, CompleteCts,
                      PollRecvCqError, sendKernel, recvKernel
  <2>7. CASE PostRecvCredit
    BY <2>3, <2>7, Zenon DEF PostRecvCredit, sendKernel
  <2>8. CASE UNCHANGED vars
    BY <2>3, <2>8, Zenon DEF vars, sendKernel, recvKernel
  <2> QED
    BY <2>1, <2>2, <2>4, <2>5, <2>6, <2>7, <2>8, Zenon DEF Next, RecvKernelStep
<1> QED
  BY Invariance, <1>1, <1>2, PTL DEF Spec, EdgeIsFifo, Edge!Spec
=============================================================================
