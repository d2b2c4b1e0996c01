-------------------------- MODULE RdmaEdge_proofs --------------------------
(***************************************************************************)
(* Proofs, for every FIFO depth, signaling interval, number of slices and  *)
(* schedule of sizes, of the safety properties of RdmaEdge.                *)
(***************************************************************************)
EXTENDS RdmaEdge, TLAPS

\* A slice index always maps to one of the FIFO's slots.
LEMMA SlotType == \A k \in Nat : Slot(k) \in Slots
BY EdgeAssumption DEF Slot, Slots

\* Two slices less than a FIFO apart never share a slot.
LEMMA SlotDistinct ==
    ASSUME NEW i \in Nat, NEW j \in Nat, i < j, j < i + max_inflight
    PROVE  Slot(i) # Slot(j)
<1> DEFINE S == max_inflight
           qi == i \div S
           qj == j \div S
<1>1. S \in Nat \ {0}
  BY EdgeAssumption, Zenon
<1>2. i = S * qi + (i % S) /\ j = S * qj + (j % S) /\ qi \in Nat /\ qj \in Nat
  BY <1>1
<1>3. ASSUME i % S = j % S PROVE FALSE
  <2>1. j - i = S * (qj - qi)
    BY <1>1, <1>2, <1>3
  <2>2. qj - qi \in Int
    BY <1>2
  <2>3. S * (qj - qi) > 0 /\ S * (qj - qi) < S
    BY <2>1, <1>1
  <2>4. CASE qj - qi <= 0
    BY <2>2, <2>3, <2>4, <1>1
  <2>5. CASE qj - qi >= 1
    BY <2>2, <2>3, <2>5, <1>1
  <2> QED
    BY <2>2, <2>4, <2>5
<1> QED
  BY <1>3, Zenon DEF Slot
-----------------------------------------------------------------------------
(* Type correctness.                                                        *)

\* The types hold initially.
LEMMA InitType == Init => TypeOK
<1> SUFFICES ASSUME Init PROVE TypeOK
  BY Zenon
<1>1. \A f : f = [s \in Slots |-> -1] => f \in [Slots -> Int]
  OBVIOUS
<1>2. \A f : f = [s \in Slots |-> 0] => f \in [Slots -> Nat]
  OBVIOUS
<1>3. /\ send_fifo \in [Slots -> Int] /\ nic_fifo \in [Slots -> Int]
      /\ gpu_fifo \in [Slots -> Int]
  BY <1>1, Zenon DEF Init
<1>4. /\ send_size \in [Slots -> Nat] /\ wr_len \in [Slots -> Nat]
      /\ byte_len \in [Slots -> Nat]
  BY <1>2, Zenon DEF Init
<1>4a. recv_size \in [Slots -> Nat]
  BY EdgeAssumption, Zenon DEF Init, PrimedSizes
<1>5. signaled \in SUBSET Nat /\ got \in Int
  BY DEF Init
<1>6. /\ send_step \in Nat /\ send_head_cache \in Nat /\ send_tail \in Nat
      /\ s_next_post \in Nat /\ s_next_complete \in Nat /\ s_inflight \in Nat
      /\ send_head \in Nat /\ delivered \in Nat /\ acked \in Nat /\ landed \in Nat
      /\ r_next_post \in Nat /\ r_next_complete \in Nat /\ r_inflight \in Nat
      /\ recv_tail \in Nat /\ recv_step \in Nat /\ recv_tail_cache \in Nat
      /\ recv_head \in Nat
  BY Zenon DEF Init
<1>7. /\ send_pc \in {"wait", "size", "tail", "aborted"}
      /\ recv_pc \in {"wait", "credit", "aborted"}
      /\ s_error \in BOOLEAN /\ r_error \in BOOLEAN
      /\ s_qp_failed \in BOOLEAN /\ r_qp_failed \in BOOLEAN
  BY Zenon DEF Init
<1> QED
  BY <1>3, <1>4, <1>4a, <1>5, <1>6, <1>7, Zenon DEF TypeOK

\* No step takes a variable out of its type: in particular no counter that
\* the code holds as an unsigned integer goes below zero.
LEMMA NextType == TypeOK /\ SendOrder /\ RecvOrder /\ [Next]_vars => TypeOK'
<1> SUFFICES ASSUME TypeOK, SendOrder, RecvOrder, [Next]_vars PROVE TypeOK'
  BY Zenon
<1> USE DEF TypeOK, sendKernel, sendProxy, wire, recvBuffer, recvProxy, recvKernel
<1>1. CASE PollSendHead
  BY <1>1, Zenon DEF PollSendHead
<1>2. CASE FillSendSlot
  <2>1. send_fifo' \in [Slots -> Int]
    <3>1. send_step \in Int /\ send_fifo \in [Slots -> Int]
      OBVIOUS
    <3>2. [send_fifo EXCEPT ![Slot(send_step)] = send_step] \in [Slots -> Int]
      BY <3>1, Zenon
    <3> QED
      BY <1>2, <3>2, Zenon DEF FillSendSlot
  <2> QED
    BY <1>2, <2>1, Zenon DEF FillSendSlot
<1>3. CASE StorePayloadBytes
  <2>1. SliceBytes[send_step] \in Nat
    BY <1>3, EdgeAssumption DEF StorePayloadBytes, SendOrder, Slices
  <2> QED
    BY <1>3, <2>1, Zenon DEF StorePayloadBytes
<1>4. CASE StoreSendTail
  BY <1>4 DEF StoreSendTail
<1>5. CASE AbortSendKernel
  BY <1>5, Zenon DEF AbortSendKernel
<1>6. CASE ElideSend
  BY <1>6 DEF ElideSend
<1>7. CASE PostSend
  <2>1. send_size[Slot(s_next_post)] \in Nat
    BY SlotType, Zenon
  <2>2. signaled' \in SUBSET Nat
    BY <1>7, Zenon DEF PostSend
  <2>3. wr_len' \in [Slots -> Nat]
    BY <1>7, <2>1, Zenon DEF PostSend
  <2> QED
    BY <1>7, <2>2, <2>3 DEF PostSend
<1>8. CASE PollSendCq
  <2>1. PICK k \in SendCompletions : CompleteSend(k)
    BY <1>8, Zenon DEF PollSendCq
  <2>2. k \in Nat /\ k >= s_next_complete
    BY <2>1, Zenon DEF SendCompletions, SendOrder
  <2>3. CASE k - s_next_complete + 1 > s_inflight
    BY <2>1, <2>2, <2>3, Zenon DEF CompleteSend
  <2>4. CASE ~(k - s_next_complete + 1 > s_inflight)
    BY <2>1, <2>2, <2>4 DEF CompleteSend
  <2> QED
    BY <2>3, <2>4, Zenon
<1>9. CASE PollSendCqError
  BY <1>9, Zenon DEF PollSendCqError
<1>10. ASSUME NEW visible \in BOOLEAN, Deliver(visible) PROVE TypeOK'
  <2>1. send_fifo[Slot(delivered)] \in Int /\ wr_len[Slot(delivered)] \in Nat
    BY SlotType, Zenon
  <2>2. gpu_fifo' \in [Slots -> Int]
    BY <1>10, <2>1, Zenon DEF Deliver
  <2>3. nic_fifo' \in [Slots -> Int] /\ byte_len' \in [Slots -> Nat]
    BY <1>10, <2>1, Zenon DEF Deliver
  <2> QED
    BY <1>10, <2>2, <2>3 DEF Deliver
<1>11. CASE Acknowledge
  BY <1>11 DEF Acknowledge
<1>12. CASE FailSendQp \/ FailRecvQp
  BY <1>12, ZenonT(40) DEF FailSendQp, FailRecvQp
<1>13. CASE ElideRecv
  <2>1. recv_size' \in [Slots -> Nat]
    BY <1>13, Zenon DEF ElideRecv
  <2> QED
    BY <1>13, <2>1 DEF ElideRecv
<1>14. CASE PostRecv
  BY <1>14 DEF PostRecv
<1>15. CASE PollRecvCq
  <2>1. byte_len[Slot(r_next_complete)] \in Nat
    BY SlotType, Zenon
  <2>2. r_inflight' \in Nat
    BY <1>15 DEF PollRecvCq, RecvOrder
  <2>3. recv_size' \in [Slots -> Nat]
    BY <1>15, <2>1, Zenon DEF PollRecvCq
  <2> QED
    BY <1>15, <2>2, <2>3 DEF PollRecvCq
<1>16. CASE PollRecvCqError
  BY <1>16, Zenon DEF PollRecvCqError
<1>17. CASE PollRecvTail
  BY <1>17, Zenon DEF PollRecvTail
<1>18. CASE ReadRecvSlot
  <2>1. gpu_fifo[Slot(recv_step)] \in Int
    BY SlotType, Zenon
  <2> QED
    BY <1>18, <2>1 DEF ReadRecvSlot
<1>19. CASE PostRecvCredit
  BY <1>19, Zenon DEF PostRecvCredit
<1>20. CASE AbortRecvKernel
  BY <1>20, Zenon DEF AbortRecvKernel
<1>21. CASE UNCHANGED vars
  BY <1>21 DEF vars
<1> QED
  BY <1>1, <1>2, <1>3, <1>4, <1>5, <1>6, <1>7, <1>8, <1>9, <1>10, <1>11, <1>12, Zenon,
     <1>13, <1>14, <1>15, <1>16, <1>17, <1>18, <1>19, <1>20, <1>21
     DEF Next, SendKernelStep, SendProxyStep, WireStep, RecvProxyStep, RecvKernelStep

\* A send is matched with the receive request of the same slice: both ends
\* pass over the same empty slices, and post none of them.
LEMMA DeliverInStep ==
    ASSUME TypeOK, SendOrder, SendSlots, RecvOrder, HandedOver,
           delivered < s_next_post, landed < r_next_post
    PROVE  landed = delivered /\ delivered \in Slices /\ ~Empty(delivered)
<1> USE EdgeAssumption DEF TypeOK
<1>1. delivered \in Slices
  BY DEF SendOrder, Slices
<1>2. ~Empty(delivered)
  <2>1. delivered \in s_next_complete .. s_next_post - 1
    BY DEF SendOrder
  <2> QED
    BY <1>1, <2>1, Zenon DEF SendSlots
<1>3. ~Empty(landed)
  BY DEF RecvOrder
<1>4. ~(delivered < landed)
  BY <1>1, <1>2 DEF HandedOver
<1>5. ~(landed < delivered)
  <2> SUFFICES ASSUME landed < delivered PROVE FALSE
    BY Zenon
  <2>1. landed \in Slices
    BY <1>1, SMTT(30) DEF Slices
  <2> QED
    BY <1>3, <2>1 DEF HandedOver
<1> QED
  BY <1>1, <1>2, <1>4, <1>5

-----------------------------------------------------------------------------
(* The order of the counters.                                               *)

\* The counters of the sending side stay ordered: completion never overtakes
\* acknowledgement, and the kernel never runs more than a FIFO ahead.
LEMMA NextSendOrder ==
    TypeOK /\ SendOrder /\ SendSlots /\ [Next]_vars => SendOrder'
<1> SUFFICES ASSUME TypeOK, SendOrder, SendSlots, [Next]_vars PROVE SendOrder'
  BY Zenon
<1> USE EdgeAssumption
    DEF TypeOK, SendOrder, sendKernel, sendProxy, wire, recvBuffer, recvProxy, recvKernel
<1>1. CASE PollSendHead
  BY <1>1 DEF PollSendHead, SendCredit
<1>2. CASE FillSendSlot
  BY <1>2 DEF FillSendSlot, SendCredit
<1>3. CASE StorePayloadBytes
  BY <1>3, Zenon DEF StorePayloadBytes
<1>4. CASE StoreSendTail
  BY <1>4 DEF StoreSendTail
<1>5. CASE AbortSendKernel
  BY <1>5, Zenon DEF AbortSendKernel
<1>6. CASE ElideSend
  <2>1. signaled = {}
    BY <1>6 DEF ElideSend
  <2> QED
    BY <1>6, <2>1 DEF ElideSend, SendPending
<1>7. CASE PostSend
  <2>1. \A k \in signaled' : s_next_complete <= k /\ k < s_next_post + 1
    BY <1>7 DEF PostSend
  <2> QED
    BY <1>7, <2>1 DEF PostSend, SendPending
<1>8. CASE PollSendCq
  <2>1. PICK k \in SendCompletions : (\A j \in SendCompletions : k <= j) /\ CompleteSend(k)
    BY <1>8, Zenon DEF PollSendCq
  <2>2. k \in Nat /\ s_next_complete <= k /\ k < acked
    BY <2>1, Zenon DEF SendCompletions
  <2>3. ~(k < s_next_complete \/ k - s_next_complete + 1 > s_inflight)
    BY <2>2
  <2>4. \A j \in signaled \ {k} : k + 1 <= j
    BY <2>1, <2>2 DEF SendCompletions
  <2> QED
    BY <2>1, <2>2, <2>3, <2>4 DEF CompleteSend
<1>9. CASE PollSendCqError
  BY <1>9, Zenon DEF PollSendCqError
<1>10. ASSUME NEW visible \in BOOLEAN, Deliver(visible) PROVE SendOrder'
  BY <1>10 DEF Deliver
<1>11. CASE Acknowledge
  BY <1>11 DEF Acknowledge
<1>12. CASE FailSendQp \/ FailRecvQp
  BY <1>12, Zenon DEF FailSendQp, FailRecvQp
<1>13. CASE RecvProxyStep
  BY <1>13, Zenon DEF RecvProxyStep, ElideRecv, PostRecv, PollRecvCq, PollRecvCqError
<1>14. CASE RecvKernelStep
  BY <1>14, Zenon DEF RecvKernelStep, PollRecvTail, ReadRecvSlot, PostRecvCredit, AbortRecvKernel
<1>15. CASE UNCHANGED vars
  BY <1>15, Zenon DEF vars
<1> QED
  BY <1>1, <1>2, <1>3, <1>4, <1>5, <1>6, <1>7, <1>8, <1>9, <1>10, <1>11, <1>12, Zenon,
     <1>13, <1>14, <1>15
     DEF Next, SendKernelStep, SendProxyStep, WireStep

\* The counters of the receiving side stay ordered: nothing is published
\* before it landed, and no request is posted for a slot still to be consumed.
LEMMA NextRecvOrder ==
    TypeOK /\ RecvOrder /\ RecvSizes /\ [Next]_vars => RecvOrder'
<1> SUFFICES ASSUME TypeOK, RecvOrder, RecvSizes, [Next]_vars PROVE RecvOrder'
  OBVIOUS
<1> USE EdgeAssumption
    DEF TypeOK, RecvOrder, sendKernel, sendProxy, wire, recvBuffer, recvProxy, recvKernel
<1>1. CASE SendKernelStep
  BY <1>1, Zenon DEF SendKernelStep, PollSendHead, FillSendSlot, StorePayloadBytes,
              StoreSendTail, AbortSendKernel
<1>2. CASE ElideSend \/ PostSend \/ PollSendCqError
  BY <1>2, Zenon DEF ElideSend, PostSend, PollSendCqError
<1>3. CASE PollSendCq
  BY <1>3, Zenon DEF PollSendCq, CompleteSend
<1>4. ASSUME NEW visible \in BOOLEAN, Deliver(visible) PROVE RecvOrder'
  BY <1>4 DEF Deliver
<1>5. CASE Acknowledge \/ FailSendQp \/ FailRecvQp
  BY <1>5, Zenon DEF Acknowledge, FailSendQp, FailRecvQp
<1>6. CASE ElideRecv
  BY <1>6 DEF ElideRecv, RecvCredit
<1>7. CASE PostRecv
  <2>1. ~Empty(r_next_post)
    BY <1>7, SlotType, Zenon DEF PostRecv, RecvSizes, Empty, EmptySlot
  <2>2. \A k \in r_next_complete .. r_next_post : ~Empty(k)
    BY <2>1
  <2> QED
    BY <1>7, <2>2 DEF PostRecv, RecvCredit
<1>8. CASE PollRecvCq
  BY <1>8 DEF PollRecvCq
<1>9. CASE PollRecvCqError
  BY <1>9, Zenon DEF PollRecvCqError
<1>10. CASE PollRecvTail
  BY <1>10 DEF PollRecvTail, RecvReady
<1>11. CASE ReadRecvSlot
  BY <1>11 DEF ReadRecvSlot, RecvReady
<1>12. CASE PostRecvCredit \/ AbortRecvKernel
  BY <1>12 DEF PostRecvCredit, AbortRecvKernel
<1>13. CASE UNCHANGED vars
  BY <1>13, Zenon DEF vars
<1> QED
  BY <1>1, <1>2, <1>3, <1>4, <1>5, <1>6, <1>7, <1>8, <1>9, <1>10, <1>11, <1>12, <1>13, Zenon
     DEF Next, SendProxyStep, WireStep, RecvProxyStep, RecvKernelStep

-----------------------------------------------------------------------------
(* The contents of the slots.                                               *)

\* A slot of the send FIFO keeps its slice from the fill to the completion:
\* the slot that is filled next is that of no slice still in the FIFO.
LEMMA NextSendSlots ==
    TypeOK /\ SendOrder /\ SendSlots /\ [Next]_vars => SendSlots'
<1> SUFFICES ASSUME TypeOK, SendOrder, SendSlots, [Next]_vars PROVE SendSlots'
  BY Zenon
<1> USE EdgeAssumption
    DEF TypeOK, SendOrder, sendKernel, sendProxy, wire, recvBuffer, recvProxy, recvKernel
<1>0. \A k \in s_next_complete .. send_step - 1 :
         send_step - s_next_complete < max_inflight
           => Slot(k) # Slot(send_step) /\ Slot(k) \in Slots
  BY SlotDistinct, SlotType
<1>1. CASE PollSendHead \/ AbortSendKernel
  BY <1>1, Zenon DEF PollSendHead, AbortSendKernel, SendSlots
<1>2. CASE FillSendSlot
  <2>1. send_step - s_next_complete < max_inflight
    BY <1>2 DEF FillSendSlot, SendCredit
  <2>2. \A k \in s_next_complete .. send_tail - 1 : send_fifo'[Slot(k)] = send_fifo[Slot(k)]
    BY <1>0, <1>2, <2>1, Zenon DEF FillSendSlot
  <2>3. send_fifo'[Slot(send_step)] = send_step
    BY <1>2, SlotType, Zenon DEF FillSendSlot
  <2> QED
    BY <1>2, <2>2, <2>3, Zenon DEF FillSendSlot, SendSlots
<1>3. CASE StorePayloadBytes
  <2>1. send_step - s_next_complete < max_inflight
    BY <1>3 DEF StorePayloadBytes
  <2>2. \A k \in s_next_complete .. send_tail - 1 : send_size'[Slot(k)] = send_size[Slot(k)]
    BY <1>0, <1>3, <2>1, Zenon DEF StorePayloadBytes
  <2>3. send_size'[Slot(send_step)] = SliceBytes[send_step]
    BY <1>3, SlotType, Zenon DEF StorePayloadBytes
  <2> QED
    BY <1>3, <2>2, <2>3, Zenon DEF StorePayloadBytes, SendSlots
<1>4. CASE StoreSendTail
  <2>1. /\ send_fifo[Slot(send_step)] = send_step
        /\ send_size[Slot(send_step)] = SliceBytes[send_step]
    BY <1>4, Zenon DEF StoreSendTail, SendSlots
  <2>2. \A k \in s_next_complete .. send_step :
           send_fifo[Slot(k)] = k /\ send_size[Slot(k)] = SliceBytes[k]
    <3> TAKE k \in s_next_complete .. send_step
    <3>1. CASE k = send_step
      BY <2>1, <3>1, Zenon
    <3>2. CASE k # send_step
      <4>1. k \in s_next_complete .. send_tail - 1
        BY <3>2
      <4> QED
        BY <4>1, Zenon DEF SendSlots
    <3> QED
      BY <3>1, <3>2, Zenon
  <2> QED
    BY <1>4, <2>2 DEF StoreSendTail, SendSlots
<1>5. CASE ElideSend
  BY <1>5 DEF ElideSend, SendSlots
<1>6. CASE PostSend
  <2>1. s_next_post \in s_next_complete .. send_tail - 1
    BY <1>6 DEF PostSend, SendPending
  <2>2. send_size[Slot(s_next_post)] = SliceBytes[s_next_post]
    BY <2>1, Zenon DEF SendSlots
  <2>3. s_next_post - s_next_complete < max_inflight
    BY <1>6, Zenon DEF PostSend, SendPending
  <2>4. wr_len'[Slot(s_next_post)] = SliceBytes[s_next_post]
    BY <1>6, <2>2, SlotType, Zenon DEF PostSend
  <2>5. \A k \in s_next_complete .. s_next_post - 1 :
           Slot(k) # Slot(s_next_post) /\ Slot(k) \in Slots
    BY <2>3, SlotDistinct, SlotType
  <2>6. \A k \in s_next_complete .. s_next_post - 1 : wr_len'[Slot(k)] = wr_len[Slot(k)]
    BY <1>6, <2>5, Zenon DEF PostSend
  <2>7. SliceBytes[s_next_post] # 0
    BY <1>6, <2>2, Zenon DEF PostSend
  <2>8. \A k \in s_next_complete .. s_next_post :
           wr_len'[Slot(k)] = SliceBytes[k] /\ SliceBytes[k] # 0
    <3> TAKE k \in s_next_complete .. s_next_post
    <3>1. CASE k = s_next_post
      BY <2>4, <2>7, <3>1, Zenon
    <3>2. CASE k # s_next_post
      <4>1. k \in s_next_complete .. s_next_post - 1
        BY <3>2
      <4> QED
        BY <2>6, <4>1, Zenon DEF SendSlots
    <3> QED
      BY <3>1, <3>2, Zenon
  <2> QED
    BY <1>6, <2>8 DEF PostSend, SendSlots
<1>7. CASE PollSendCq
  <2>1. PICK k \in SendCompletions : CompleteSend(k)
    BY <1>7, Zenon DEF PollSendCq
  <2>2. k \in Nat /\ s_next_complete <= k
    BY <2>1, Zenon DEF SendCompletions
  <2>3. s_next_complete <= s_next_complete' /\ s_next_complete' \in Nat
    BY <2>1, <2>2 DEF CompleteSend
  <2> QED
    BY <2>1, <2>3 DEF CompleteSend, SendSlots
<1>8. CASE PollSendCqError
  BY <1>8, Zenon DEF PollSendCqError, SendSlots
<1>9. CASE WireStep
  BY <1>9, Zenon DEF WireStep, Deliver, Acknowledge, SendSlots
<1>10. CASE FailSendQp \/ FailRecvQp
  BY <1>10, Zenon DEF FailSendQp, FailRecvQp, SendSlots
<1>11. CASE RecvProxyStep
  BY <1>11, Zenon DEF RecvProxyStep, ElideRecv, PostRecv, PollRecvCq, PollRecvCqError, SendSlots
<1>12. CASE RecvKernelStep
  BY <1>12, Zenon DEF RecvKernelStep, PollRecvTail, ReadRecvSlot, PostRecvCredit,
               AbortRecvKernel, SendSlots
<1>13. CASE UNCHANGED vars
  BY <1>13, Zenon DEF vars, SendSlots
<1> QED
  BY <1>1, <1>2, <1>3, <1>4, <1>5, <1>6, <1>7, <1>8, <1>9, <1>10, <1>11, <1>12, <1>13, Zenon
     DEF Next, SendKernelStep, SendProxyStep

\* What has landed stays in its slot until the kernel has consumed it: the
\* slice that lands next takes the slot of none of them.
LEMMA NextRecvSlots ==
    TypeOK /\ SendOrder /\ SendSlots /\ RecvOrder /\ RecvSlots /\ RecvSizes
      /\ HandedOver /\ [Next]_vars => RecvSlots'
<1> SUFFICES ASSUME TypeOK, SendOrder, SendSlots, RecvOrder, RecvSlots, RecvSizes,
                    HandedOver, [Next]_vars
             PROVE RecvSlots'
  BY Zenon
<1> USE EdgeAssumption
    DEF TypeOK, RecvOrder, RecvSlotsStable,
        sendKernel, sendProxy, wire, recvBuffer, recvProxy, recvKernel
<1>0. \A k \in recv_step .. landed - 1 :
         landed < r_next_post => Slot(k) # Slot(landed) /\ Slot(k) \in Slots
  BY SlotDistinct, SlotType
<1>e. \A k : Empty(k)' = Empty(k)
  BY Zenon DEF Empty, EmptySlot, Slot, Slices
<1>1. CASE SendKernelStep
  BY <1>1, Zenon DEF SendKernelStep, PollSendHead, FillSendSlot, StorePayloadBytes,
              StoreSendTail, AbortSendKernel, RecvSlots
<1>2. CASE ElideSend \/ PostSend \/ PollSendCqError
  BY <1>2, Zenon DEF ElideSend, PostSend, PollSendCqError, RecvSlots
<1>3. CASE PollSendCq
  BY <1>3, Zenon DEF PollSendCq, CompleteSend, RecvSlots
<1>4. ASSUME NEW visible \in BOOLEAN, Deliver(visible) PROVE RecvSlots'
  <2>1. /\ landed = delivered /\ landed \in Slices
        /\ delivered < s_next_post /\ landed < r_next_post
    BY <1>4, DeliverInStep, Zenon DEF Deliver
  <2>2. /\ send_fifo[Slot(landed)] = landed
        /\ wr_len[Slot(landed)] = SliceBytes[landed]
    <3>1. /\ delivered \in s_next_complete .. send_tail - 1
          /\ delivered \in s_next_complete .. s_next_post - 1
      BY <2>1 DEF SendOrder
    <3> QED
      BY <2>1, <3>1, Zenon DEF SendSlots
  <2>3. /\ nic_fifo'[Slot(landed)] = landed
        /\ byte_len'[Slot(landed)] = SliceBytes[landed]
    BY <1>4, <2>1, <2>2, SlotType, Zenon DEF Deliver
  <2>4. \A k \in recv_step .. landed - 1 :
           /\ nic_fifo'[Slot(k)] = nic_fifo[Slot(k)]
           /\ byte_len'[Slot(k)] = byte_len[Slot(k)]
    BY <1>0, <1>4, <2>1, Zenon DEF Deliver
  <2>5. \A k \in recv_step .. landed - 1 : gpu_fifo'[Slot(k)] = gpu_fifo[Slot(k)]
    <3>1. CASE visible = TRUE
      BY <1>0, <1>4, <2>1, <3>1, Zenon DEF Deliver
    <3>2. CASE visible = FALSE
      BY <1>4, <3>2, Zenon DEF Deliver
    <3> QED
      BY <3>1, <3>2, Zenon
  <2>6. \A k \in Slices \cap (recv_step .. landed) : ~Empty(k) => nic_fifo'[Slot(k)] = k
    <3> TAKE k \in Slices \cap (recv_step .. landed)
    <3>1. CASE k = landed
      BY <2>3, <3>1, Zenon
    <3>2. CASE k # landed
      <4>1. k \in recv_step .. landed - 1
        BY <3>2
      <4> QED
        BY <2>4, <4>1, Zenon DEF RecvSlots
    <3> QED
      BY <3>1, <3>2, Zenon
  <2>7. \A k \in r_next_complete .. landed :
           k \in Slices /\ byte_len'[Slot(k)] = SliceBytes[k]
    <3> TAKE k \in r_next_complete .. landed
    <3>1. CASE k = landed
      BY <2>1, <2>3, <3>1, Zenon
    <3>2. CASE k # landed
      <4>1. k \in recv_step .. landed - 1 /\ k \in r_next_complete .. landed - 1
        BY <3>2
      <4> QED
        BY <2>4, <4>1, Zenon DEF RecvSlots
    <3> QED
      BY <3>1, <3>2, Zenon
  <2>8. \A k \in Slices \cap (recv_step .. recv_tail - 1) : ~Empty(k) => gpu_fifo'[Slot(k)] = k
    BY <2>5, SMTT(30) DEF RecvSlots
  <2> QED
    BY <1>4, <1>e, <2>6, <2>7, <2>8 DEF Deliver, RecvSlots
<1>5. CASE Acknowledge \/ FailSendQp \/ FailRecvQp
  BY <1>5, Zenon DEF Acknowledge, FailSendQp, FailRecvQp, RecvSlots
<1>6. CASE ElideRecv
  <2>1. landed = r_next_post /\ landed = r_next_complete
    BY <1>6 DEF ElideRecv
  <2>2. Empty(landed)
    BY <1>6, <2>1, SlotType, Zenon DEF ElideRecv, RecvSizes, Empty
  <2>3. \A k \in recv_step .. landed - 1 : Slot(k) # Slot(landed) /\ Slot(k) \in Slots
    BY <1>6, <2>1, SlotDistinct, SlotType DEF ElideRecv, RecvCredit
  <2>4. \A k \in recv_step .. landed - 1 : recv_size'[Slot(k)] = recv_size[Slot(k)]
    BY <1>6, <2>1, <2>3, Zenon DEF ElideRecv
  <2>5. recv_size'[Slot(landed)] = 0
    BY <1>6, <2>1, SlotType, Zenon DEF ElideRecv
  <2>6. \A k \in Slices \cap (recv_step .. landed) :
           /\ recv_size'[Slot(k)] = SliceBytes[k]
           /\ ~Empty(k) => gpu_fifo[Slot(k)] = k /\ nic_fifo[Slot(k)] = k
    <3> TAKE k \in Slices \cap (recv_step .. landed)
    <3>1. CASE k = landed
      BY <2>2, <2>5, <3>1, Zenon
    <3>2. CASE k # landed
      <4>1. k \in recv_step .. landed - 1 /\ k \in recv_step .. recv_tail - 1
        BY <2>1, <3>2
      <4> QED
        BY <2>4, <4>1, Zenon DEF RecvSlots
    <3> QED
      BY <3>1, <3>2, Zenon
  <2> QED
    BY <1>6, <1>e, <2>1, <2>6 DEF ElideRecv, RecvSlots
<1>7. CASE PostRecv
  BY <1>7, Zenon DEF PostRecv, RecvSlots
<1>8. CASE PollRecvCq
  <2> DEFINE c == r_next_complete
  <2>1. c \in r_next_complete .. landed - 1 /\ c \in recv_step .. landed - 1
    BY <1>8 DEF PollRecvCq
  <2>2. recv_size'[Slot(c)] = SliceBytes[c]
    BY <1>8, <2>1, SlotType, Zenon DEF PollRecvCq, RecvSlots
  <2>3. \A k \in recv_step .. c - 1 : Slot(k) # Slot(c) /\ Slot(k) \in Slots
    BY <2>1, SlotDistinct, SlotType
  <2>4. \A k \in recv_step .. c - 1 : recv_size'[Slot(k)] = recv_size[Slot(k)]
    BY <1>8, <2>3, Zenon DEF PollRecvCq
  <2>5. \A k \in Slices \cap (recv_step .. c) :
           /\ recv_size'[Slot(k)] = SliceBytes[k]
           /\ ~Empty(k) => nic_fifo[Slot(k)] = k
    <3> TAKE k \in Slices \cap (recv_step .. c)
    <3>1. CASE k = c
      BY <2>1, <2>2, <3>1, Zenon DEF RecvSlots
    <3>2. CASE k # c
      <4>1. k \in recv_step .. landed - 1 /\ k \in recv_step .. recv_tail - 1
        BY <2>1, <3>2
      <4>2. recv_size'[Slot(k)] = recv_size[Slot(k)]
        BY <2>4, <3>2
      <4> QED
        BY <4>1, <4>2, Zenon DEF RecvSlots
    <3> QED
      BY <3>1, <3>2, Zenon
  <2> QED
    BY <1>8, <1>e, <2>5 DEF PollRecvCq, RecvSlots
<1>9. CASE PollRecvCqError
  BY <1>9, Zenon DEF PollRecvCqError, RecvSlots
<1>10. CASE PollRecvTail \/ PostRecvCredit \/ AbortRecvKernel
  BY <1>10, Zenon DEF PollRecvTail, PostRecvCredit, AbortRecvKernel, RecvSlots
<1>11. CASE ReadRecvSlot
  <2>1. recv_step' = recv_step + 1
    BY <1>11, Zenon DEF ReadRecvSlot
  <2> QED
    BY <1>11, <2>1 DEF ReadRecvSlot, RecvSlots
<1>12. CASE UNCHANGED vars
  BY <1>12, Zenon DEF vars, RecvSlots
<1> QED
  BY <1>1, <1>2, <1>3, <1>4, <1>5, <1>6, <1>7, <1>8, <1>9, <1>10, <1>11, <1>12, Zenon
     DEF Next, SendProxyStep, WireStep, RecvProxyStep, RecvKernelStep

\* The sizes a receiver elides by stay right: a completion overwrites the size
\* of a slot that carries no empty slice, by one that is not zero.
LEMMA NextRecvSizes ==
    TypeOK /\ RecvOrder /\ RecvSlots /\ RecvSizes /\ [Next]_vars => RecvSizes'
<1> SUFFICES ASSUME TypeOK, RecvOrder, RecvSlots, RecvSizes, [Next]_vars
             PROVE RecvSizes'
  BY Zenon
<1> USE EdgeAssumption
    DEF TypeOK, sendKernel, sendProxy, wire, recvBuffer, recvProxy, recvKernel
<1>1. CASE ElideRecv
  <2>1. Slot(r_next_post) \in Slots /\ recv_size[Slot(r_next_post)] = 0
    BY <1>1, SlotType, Zenon DEF ElideRecv
  <2>2. recv_size' = recv_size
    BY <1>1, <2>1, Zenon DEF ElideRecv
  <2> QED
    BY <2>2, Zenon DEF RecvSizes, EmptySlot, Slices
<1>2. CASE PollRecvCq
  <2> DEFINE c == r_next_complete
  <2>1. c \in r_next_complete .. landed - 1 /\ c \in r_next_complete .. r_next_post - 1
    BY <1>2 DEF PollRecvCq, RecvOrder
  <2>2. c \in Slices /\ ~Empty(c) /\ byte_len[Slot(c)] = SliceBytes[c]
    BY <2>1, Zenon DEF RecvOrder, RecvSlots
  <2>3. byte_len[Slot(c)] # 0
    BY <2>2, Zenon
  <2>4. recv_size' = [recv_size EXCEPT ![Slot(c)] = byte_len[Slot(c)]]
    BY <1>2, Zenon DEF PollRecvCq
  <2>5. ~EmptySlot(Slot(c))
    BY <2>2, Zenon DEF Empty
  <2>6. ASSUME elide_zero_payload, NEW s \in Slots
        PROVE  recv_size'[s] = 0 <=> EmptySlot(s)
    <3>1. CASE s = Slot(c)
      BY <2>3, <2>4, <2>5, <3>1, Zenon
    <3>2. CASE s # Slot(c)
      BY <2>4, <2>6, <3>2, Zenon DEF RecvSizes
    <3> QED
      BY <3>1, <3>2, Zenon
  <2> QED
    BY <2>6, Zenon DEF RecvSizes, EmptySlot, Slices, Slots
<1>3. ASSUME UNCHANGED recv_size PROVE RecvSizes'
  BY <1>3, Zenon DEF RecvSizes, EmptySlot, Slices, Slots
<1>4. CASE SendKernelStep
  BY <1>3, <1>4, Zenon DEF SendKernelStep, PollSendHead, FillSendSlot, StorePayloadBytes,
                    StoreSendTail, AbortSendKernel
<1>5. CASE SendProxyStep
  BY <1>3, <1>5, Zenon DEF SendProxyStep, ElideSend, PostSend, PollSendCq, CompleteSend,
                    PollSendCqError
<1>6. CASE WireStep \/ FailSendQp \/ FailRecvQp
  BY <1>3, <1>6, Zenon DEF WireStep, Deliver, Acknowledge, FailSendQp, FailRecvQp
<1>7. CASE PostRecv \/ PollRecvCqError
  BY <1>3, <1>7, Zenon DEF PostRecv, PollRecvCqError
<1>8. CASE RecvKernelStep
  BY <1>3, <1>8, Zenon DEF RecvKernelStep, PollRecvTail, ReadRecvSlot, PostRecvCredit,
                    AbortRecvKernel
<1>9. CASE UNCHANGED vars
  BY <1>3, <1>9, Zenon DEF vars
<1> QED
  BY <1>1, <1>2, <1>4, <1>5, <1>6, <1>7, <1>8, <1>9, Zenon DEF Next, RecvProxyStep

-----------------------------------------------------------------------------
(* The two ends together, and the failure flags.                            *)

\* Both ends hand over the same slices, in the same order.
LEMMA NextHandedOver ==
    TypeOK /\ SendOrder /\ SendSlots /\ RecvOrder /\ RecvSizes /\ HandedOver
      /\ [Next]_vars => HandedOver'
<1> SUFFICES ASSUME TypeOK, SendOrder, SendSlots, RecvOrder, RecvSizes, HandedOver,
                    [Next]_vars
             PROVE HandedOver'
  BY Zenon
<1> USE EdgeAssumption
    DEF TypeOK, sendKernel, sendProxy, wire, recvBuffer, recvProxy, recvKernel
<1>0. \A k : Empty(k)' = Empty(k)
  BY Zenon DEF Empty, EmptySlot, Slot, Slices
<1>1. CASE ElideSend
  <2>1. delivered = s_next_post /\ acked = s_next_post
    BY <1>1 DEF ElideSend, SendOrder
  <2>2. Empty(s_next_post)
    <3>1. s_next_post \in s_next_complete .. send_tail - 1 /\ s_next_post \in Slices
      BY <1>1 DEF ElideSend, SendPending, SendOrder, Slices
    <3> QED
      BY <1>1, <3>1, Zenon DEF ElideSend, SendSlots
  <2>3. delivered' = delivered + 1 /\ landed' = landed
    BY <1>1, <2>1, Zenon DEF ElideSend
  <2>4. ASSUME NEW k \in Slices,
               (delivered + 1 <= k /\ k < landed) \/ (landed <= k /\ k < delivered + 1)
        PROVE  Empty(k)
    <3>1. CASE k = delivered
      BY <2>1, <2>2, <3>1, Zenon
    <3>2. CASE k # delivered
      <4>1. (delivered <= k /\ k < landed) \/ (landed <= k /\ k < delivered)
        BY <2>4, <3>2 DEF Slices
      <4> QED
        BY <4>1, Zenon DEF HandedOver
    <3> QED
      BY <3>1, <3>2, Zenon
  <2> QED
    BY <1>0, <2>3, <2>4, Zenon DEF HandedOver
<1>2. ASSUME NEW visible \in BOOLEAN, Deliver(visible) PROVE HandedOver'
  <2>1. landed = delivered
    BY <1>2, DeliverInStep, Zenon DEF Deliver
  <2> QED
    BY <1>2, <2>1 DEF Deliver, HandedOver, Slices
<1>3. CASE ElideRecv
  <2>1. landed = r_next_post /\ Empty(r_next_post)
    BY <1>3, SlotType DEF ElideRecv, RecvOrder, RecvSizes, Empty
  <2>2. landed' = landed + 1 /\ delivered' = delivered
    BY <1>3, <2>1, Zenon DEF ElideRecv
  <2>3. ASSUME NEW k \in Slices,
               (delivered <= k /\ k < landed + 1) \/ (landed + 1 <= k /\ k < delivered)
        PROVE  Empty(k)
    <3>1. CASE k = landed
      BY <2>1, <3>1, Zenon
    <3>2. CASE k # landed
      <4>1. (delivered <= k /\ k < landed) \/ (landed <= k /\ k < delivered)
        BY <2>3, <3>2 DEF Slices
      <4> QED
        BY <4>1 DEF HandedOver
    <3> QED
      BY <3>1, <3>2, Zenon
  <2> QED
    BY <1>0, <2>2, <2>3, Zenon DEF HandedOver
<1>4. ASSUME UNCHANGED <<delivered, landed>> PROVE HandedOver'
  BY <1>0, <1>4, Zenon DEF HandedOver
<1>5. CASE SendKernelStep
  BY <1>4, <1>5, Zenon DEF SendKernelStep, PollSendHead, FillSendSlot, StorePayloadBytes,
                    StoreSendTail, AbortSendKernel
<1>6. CASE PostSend \/ PollSendCq \/ PollSendCqError
  BY <1>4, <1>6, Zenon DEF PostSend, PollSendCq, CompleteSend, PollSendCqError
<1>7. CASE Acknowledge \/ FailSendQp \/ FailRecvQp
  BY <1>4, <1>7, Zenon DEF Acknowledge, FailSendQp, FailRecvQp
<1>8. CASE PostRecv \/ PollRecvCq \/ PollRecvCqError
  BY <1>4, <1>8, Zenon DEF PostRecv, PollRecvCq, PollRecvCqError
<1>9. CASE RecvKernelStep
  BY <1>4, <1>9, Zenon DEF RecvKernelStep, PollRecvTail, ReadRecvSlot, PostRecvCredit,
                    AbortRecvKernel
<1>10. CASE UNCHANGED vars
  BY <1>4, <1>10, Zenon DEF vars
<1> QED
  BY <1>1, <1>2, <1>3, <1>5, <1>6, <1>7, <1>8, <1>9, <1>10, Zenon
     DEF Next, SendProxyStep, WireStep, RecvProxyStep

\* The consistency checks on a polled completion hold whenever they are made.
LEMMA NextNoSpuriousFailure ==
    TypeOK /\ SendOrder /\ NoSpuriousFailure /\ [Next]_vars => NoSpuriousFailure'
<1> SUFFICES ASSUME TypeOK, SendOrder, NoSpuriousFailure, [Next]_vars
             PROVE NoSpuriousFailure'
  BY Zenon
<1> USE DEF sendKernel, sendProxy, wire, recvBuffer, recvProxy, recvKernel
<1>0. UNCHANGED <<s_error, r_error, s_qp_failed, r_qp_failed>> => NoSpuriousFailure'
  BY DEF NoSpuriousFailure
<1>1. CASE PollSendHead \/ FillSendSlot \/ StorePayloadBytes
  BY <1>0, <1>1, Zenon DEF PollSendHead, FillSendSlot, StorePayloadBytes
<1>2. CASE StoreSendTail \/ AbortSendKernel
  BY <1>0, <1>2, Zenon DEF StoreSendTail, AbortSendKernel
<1>3. CASE ElideSend \/ PostSend
  BY <1>0, <1>3, Zenon DEF ElideSend, PostSend
<1>4. CASE PollSendCqError \/ PollRecvCqError
  BY <1>4 DEF PollSendCqError, PollRecvCqError, NoSpuriousFailure
<1>5. CASE PollSendCq
  <2>1. PICK k \in SendCompletions : CompleteSend(k)
    BY <1>5, Zenon DEF PollSendCq
  <2>2. ~(k < s_next_complete \/ k - s_next_complete + 1 > s_inflight)
    BY <2>1 DEF SendCompletions, SendOrder, TypeOK
  <2> QED
    BY <1>0, <2>1, <2>2, Zenon DEF CompleteSend
<1>6. CASE (\E visible \in BOOLEAN : Deliver(visible)) \/ Acknowledge
  BY <1>0, <1>6, Zenon DEF Deliver, Acknowledge
<1>7. CASE FailSendQp \/ FailRecvQp
  BY <1>7 DEF FailSendQp, FailRecvQp, NoSpuriousFailure
<1>8. CASE ElideRecv \/ PostRecv \/ PollRecvCq
  BY <1>0, <1>8, Zenon DEF ElideRecv, PostRecv, PollRecvCq
<1>9. CASE RecvKernelStep
  BY <1>0, <1>9, Zenon DEF RecvKernelStep, PollRecvTail, ReadRecvSlot, PostRecvCredit,
                    AbortRecvKernel
<1>10. CASE UNCHANGED vars
  BY <1>0, <1>10, Zenon DEF vars
<1> QED
  BY <1>1, <1>2, <1>3, <1>4, <1>5, <1>6, <1>7, <1>8, <1>9, <1>10, Zenon
     DEF Next, SendKernelStep, SendProxyStep, WireStep, RecvProxyStep

-----------------------------------------------------------------------------
(* The theorems.                                                            *)

\* An idle edge, with every counter at zero, satisfies the invariant.
LEMMA InitInv == Init => IInv
<1> SUFFICES ASSUME Init PROVE IInv
  OBVIOUS
<1>1. TypeOK
  BY InitType, Zenon
<1>2. SendOrder /\ RecvOrder
  BY EdgeAssumption DEF Init, SendOrder, RecvOrder
<1>3. SendSlots /\ RecvSlots
  BY DEF Init, SendSlots, RecvSlots, RecvSlotsStable
<1>3a. RecvSizes
  BY DEF Init, PrimedSizes, RecvSizes, EmptySlot
<1>4. HandedOver /\ NoSpuriousFailure
  BY DEF Init, HandedOver, NoSpuriousFailure, Slices
<1> QED
  BY <1>1, <1>2, <1>3, <1>3a, <1>4, Zenon DEF IInv

\* The conjunction of counter order, slot contents and hand-over is inductive.
THEOREM Invariance == Spec => []IInv
<1>1. IInv /\ [Next]_vars => IInv'
  BY NextType, NextSendOrder, NextSendSlots, NextRecvOrder, NextRecvSlots,
     NextRecvSizes, NextHandedOver, NextNoSpuriousFailure, Zenon DEF IInv
<1> QED
  BY InitInv, <1>1, PTL DEF Spec

\* Type correctness of the edge.
THEOREM TypeCorrect == Spec => []TypeOK
BY Invariance, PTL DEF IInv

\* A posted slice stays in its send slot until the peer has acknowledged it.
THEOREM SendSlotsAreStable == Spec => []SendSlotsStable
<1>1. IInv => SendSlotsStable
  <2> SUFFICES ASSUME IInv, NEW k \in acked .. send_tail - 1
               PROVE  /\ send_fifo[Slot(k)] = k
                      /\ k < s_next_post => wr_len[Slot(k)] = SliceBytes[k]
    BY Zenon DEF SendSlotsStable
  <2>1. k \in s_next_complete .. send_tail - 1
    BY DEF IInv, SendOrder, TypeOK
  <2>2. k < s_next_post => k \in s_next_complete .. s_next_post - 1
    BY <2>1 DEF IInv, TypeOK
  <2> QED
    BY <2>1, <2>2, Zenon DEF IInv, SendSlots
<1> QED
  BY Invariance, <1>1, PTL

\* A published slice stays in its receive slot, visible to the GPU and with
\* its size, until the downstream kernel has consumed it.
THEOREM RecvSlotsAreStable == Spec => []RecvSlotsStable
BY Invariance, PTL DEF IInv, RecvSlots

\* The proxies report an error only after a queue pair failed.
THEOREM FailuresAreReal == Spec => []NoSpuriousFailure
BY Invariance, PTL DEF IInv

\* The edge implements a lossless in-order FIFO of slices, for every depth,
\* signaling interval and schedule of sizes.
THEOREM EdgeImplementsFifo == Spec => EdgeIsFifo
<1>1. Init => Edge!Init
  BY Zenon DEF Init, Edge!Init
<1>2. IInv /\ [Next]_vars => [Edge!Next]_Edge!vars
  <2> SUFFICES ASSUME IInv, [Next]_vars PROVE [Edge!Next]_Edge!vars
    BY Zenon
  <2> USE DEF sendKernel, sendProxy, wire, recvBuffer, recvProxy, recvKernel
  <2>1. CASE StoreSendTail
    <3>1. send_tail' = send_tail + 1 /\ send_tail < TotalSlices
      BY <2>1, Zenon DEF StoreSendTail, IInv, SendOrder
    <3> QED
      BY <2>1, <3>1, Zenon DEF StoreSendTail, Edge!Next, Edge!Send
  <2>2. CASE ReadRecvSlot
    <3>1. recv_step \in recv_step .. recv_tail - 1 /\ recv_step \in Slices
      BY <2>2, EdgeAssumption DEF ReadRecvSlot, RecvReady, IInv, TypeOK, RecvOrder, Slices
    <3>2. ~Empty(recv_step) => gpu_fifo[Slot(recv_step)] = recv_step
      BY <3>1, Zenon DEF IInv, RecvSlots, RecvSlotsStable
    <3>3. recv_step < send_tail \/ Empty(recv_step)
      <4>1. recv_step < landed
        BY <3>1 DEF IInv, TypeOK, RecvOrder
      <4>2. delivered <= recv_step => Empty(recv_step)
        BY <3>1, <4>1, Zenon DEF IInv, HandedOver
      <4> QED
        BY <4>2 DEF IInv, TypeOK, SendOrder
    <3> QED
      BY <2>2, <3>1, <3>2, <3>3, EdgeAssumption, Zenon DEF ReadRecvSlot, Edge!Next, Edge!Take
  <2>3. ASSUME UNCHANGED <<send_tail, recv_step, got>> PROVE [Edge!Next]_Edge!vars
    BY <2>3, Zenon DEF Edge!vars
  <2>4. CASE PollSendHead \/ FillSendSlot \/ StorePayloadBytes \/ AbortSendKernel
    BY <2>3, <2>4, Zenon DEF PollSendHead, FillSendSlot, StorePayloadBytes, AbortSendKernel
  <2>5. CASE SendProxyStep
    BY <2>3, <2>5, Zenon DEF SendProxyStep, ElideSend, PostSend, PollSendCq, CompleteSend,
                      PollSendCqError
  <2>6. CASE WireStep \/ FailSendQp \/ FailRecvQp
    BY <2>3, <2>6, Zenon DEF WireStep, Deliver, Acknowledge, FailSendQp, FailRecvQp
  <2>7. CASE RecvProxyStep
    BY <2>3, <2>7, Zenon DEF RecvProxyStep, ElideRecv, PostRecv, PollRecvCq, PollRecvCqError
  <2>8. CASE PollRecvTail \/ PostRecvCredit \/ AbortRecvKernel
    BY <2>3, <2>8, Zenon DEF PollRecvTail, PostRecvCredit, AbortRecvKernel
  <2>9. CASE UNCHANGED vars
    BY <2>3, <2>9, Zenon DEF vars
  <2> QED
    BY <2>1, <2>2, <2>4, <2>5, <2>6, <2>7, <2>8, <2>9, Zenon
       DEF Next, SendKernelStep, RecvKernelStep
<1> QED
  BY Invariance, <1>1, <1>2, PTL DEF Spec, EdgeIsFifo, Edge!Spec
=============================================================================
