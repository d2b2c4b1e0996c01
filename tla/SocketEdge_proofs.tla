------------------------- MODULE SocketEdge_proofs -------------------------
(***************************************************************************)
(* Proofs, for every FIFO depth, number of slices, schedule of sizes,      *)
(* socket buffer and number of faults, of the safety properties of         *)
(* SocketEdge.                                                             *)
(***************************************************************************)
EXTENDS SocketEdge, SequenceTheorems, TLAPS

Units == [slice : Slices, index : Nat, word : Int]

Places == {"loop", "transfer", "publish", "caught", "record", "abort", "hang_up", "exit"}

KernelType ==
    /\ kernel \in [Sides -> {"run", "done", "aborted"}]
    /\ send_tail \in Nat /\ send_fifo \in [Slots -> Int]
    /\ recv_step \in Nat /\ recv_head \in Nat
ProxyType ==
    /\ pc \in [Sides -> Places] /\ step \in [Sides -> Nat]
    /\ sent_units \in Nat /\ send_head \in Nat
    /\ want \in Int /\ read_units \in Seq(Int)
    /\ recv_tail \in Nat /\ recv_fifo \in [Slots -> Seq(Int)]
WireType ==
    /\ wire \in Seq(Units) /\ fd \in [Sides -> {"open", "shut", "closed"}]
    /\ broken \in BOOLEAN /\ faults \in Nat
ErrorType ==
    /\ has_error \in [Sides -> BOOLEAN] /\ abort \in [Sides -> BOOLEAN]
    /\ elsewhere \in [Sides -> {"ok", "recording", "recorded"}]
OwnerType ==
    /\ user \in [Sides -> {"sync", "check", "destroy", "release", "drain", "shutdown",
                           "shutdown_fd", "join", "gone"}]
    /\ result \in [Sides -> {"none", "ok", "threw"}]
    /\ stop \in [Sides -> BOOLEAN]
TypeOK == KernelType /\ ProxyType /\ WireType /\ ErrorType /\ OwnerType

-----------------------------------------------------------------------------
(* The inductive invariant.                                                 *)

\* The sending side: its counters, and the slices still to be sent.
SendOk ==
    /\ send_head = step["S"] /\ step["S"] <= send_tail
    /\ send_tail <= TotalSlices /\ send_tail <= send_head + slot_count
    /\ pc["S"] \in {"transfer", "publish"} => step["S"] < send_tail
    /\ \A k \in step["S"] .. send_tail - 1 : send_fifo[Slot(k)] = k
    /\ pc["S"] \notin {"loop", "publish"} /\ sent_units > 0 =>
            step["S"] < TotalSlices /\ sent_units <= SliceBytes[step["S"]]

\* The counters of the receiving side; a slot is free while it is written.
RecvOrder ==
    /\ recv_head <= recv_step /\ recv_step <= recv_tail
    /\ recv_tail = step["R"] /\ step["R"] <= TotalSlices
    /\ pc["R"] \in {"transfer", "publish"} => step["R"] + 1 <= recv_head + slot_count
    /\ pc["R"] = "publish" => step["R"] < TotalSlices

\* A slot that holds slice k.
Holds(units, k) ==
    SliceBytes[k] > 0 => /\ Len(units) = SliceBytes[k]
                         /\ \A i \in 1 .. Len(units) : units[i] = k

\* The receiving side: the slice in hand, and the slices still to be read.
RecvOk ==
    /\ pc["R"] = "transfer" /\ want = -1 => read_units = <<>>
    /\ pc["R"] = "transfer" /\ want # -1 =>
            /\ step["R"] < TotalSlices /\ want = SliceBytes[step["R"]]
            /\ Len(read_units) < want
            /\ \A i \in 1 .. Len(read_units) : read_units[i] = step["R"]
    /\ pc["R"] = "publish" => Holds(recv_fifo[Slot(step["R"])], step["R"])
    /\ \A k \in recv_step .. recv_tail - 1 : Holds(recv_fifo[Slot(k)], k)

\* The stream.  The next unit to send and the next unit to read, as the slice
\* and the index of the unit in it.
SendSlice == IF pc["S"] = "publish" THEN step["S"] + 1 ELSE step["S"]
SendIndex == IF pc["S"] \in {"publish", "loop"} THEN 0 ELSE sent_units
RecvSlice == IF pc["R"] = "publish" THEN step["R"] + 1 ELSE step["R"]
RecvIndex == IF pc["R"] \in {"publish", "loop"} \/ want = -1 THEN 0
             ELSE Len(read_units) + 1

\* Unit <<l, j>> comes right after unit u.
Follows(u, l, j) == IF u.index < SliceBytes[u.slice] THEN l = u.slice /\ j = u.index + 1
                    ELSE l = u.slice + 1 /\ j = 0
Before(k, i, l, j) == k < l \/ (k = l /\ i < j)

\* The units of w are those from <<k, i>> up to but without <<l, j>>, in order.
Run(w, k, i, l, j) ==
    /\ \A n \in 1 .. Len(w) :
            /\ w[n].index <= SliceBytes[w[n].slice]
            /\ w[n].word = IF w[n].index = 0 THEN SliceBytes[w[n].slice] ELSE w[n].slice
            /\ Before(w[n].slice, w[n].index, l, j)
    /\ \A n \in 1 .. Len(w) - 1 : Follows(w[n], w[n + 1].slice, w[n + 1].index)
    /\ w = <<>> => k = l /\ i = j
    /\ w # <<>> => /\ w[1].slice = k /\ w[1].index = i
                    /\ Follows(w[Len(w)], l, j)

\* While the receiver has its descriptor the wire holds the units between the
\* one to read and the one to send.
WireOk == fd["R"] # "closed" => Run(wire, RecvSlice, RecvIndex, SendSlice, SendIndex)

\* The receiver is not ahead of the sender.
Behind == ~Before(SendSlice, SendIndex, RecvSlice, RecvIndex)

\* What the owners, the kernels and the error states know of each other.
Known(x) ==
    /\ kernel[x] = "done" => Finished(x)
    /\ kernel[x] = "aborted" => abort[x]
    /\ abort[x] => has_error[x]
    /\ pc[x] = "abort" => has_error[x]
    /\ elsewhere[x] = "recording" => has_error[x]
    /\ user[x] \notin {"sync", "destroy", "release"} => kernel[x] # "run"
    /\ user[x] \in {"shutdown_fd", "join", "gone"} => stop[x]
    /\ fd[x] = "closed" => user[x] = "gone" /\ pc[x] = "exit"
    /\ result[x] = "ok" => kernel[x] = "done"

OwnerOk == \A x \in Sides : Known(x)

\* Why a side may fail.
Cause(x) == faults > 0 \/ (x = "R" /\ stop["S"])

Explained(x) ==
    /\ has_error[x] => Cause(x)
    /\ pc[x] \in {"record", "abort"} => Cause(x)
    /\ pc[x] \in {"caught", "hang_up"} \/ fd[x] # "open" => stop[x] \/ Cause(x)

CauseOk == (broken => faults > 0) /\ \A x \in Sides : Explained(x)

IInv == TypeOK /\ SendOk /\ RecvOrder /\ RecvOk /\ WireOk /\ Behind /\ OwnerOk /\ CauseOk

-----------------------------------------------------------------------------
(* Slots.                                                                   *)

\* A slice index always maps to one of the FIFO's slots.
LEMMA SlotType == \A k \in Nat : Slot(k) \in Slots
BY SocketAssumption DEF Slot, Slots

\* Two slices less than a FIFO apart do not share a slot.
LEMMA SlotDistinct ==
    ASSUME NEW i \in Nat, NEW j \in Nat, i < j, j < i + slot_count
    PROVE  Slot(i) # Slot(j)
<1> DEFINE n == slot_count
           q == i \div n
           p == j \div n
<1>1. n \in Nat \ {0}
  BY SocketAssumption, Zenon
<1>2. i = n * q + (i % n) /\ j = n * p + (j % n) /\ q \in Nat /\ p \in Nat
  BY <1>1
<1>3. SUFFICES ASSUME i % n = j % n PROVE FALSE
  BY Zenon DEF Slot
<1>4. j - i = n * (p - q) /\ p - q \in Int
  BY <1>1, <1>2, <1>3
<1>5. n * (p - q) > 0 /\ n * (p - q) < n
  BY <1>1, <1>4
<1> HIDE DEF n, p, q
<1>6. CASE p - q <= 0
  BY <1>1, <1>4, <1>5, <1>6
<1>7. CASE p - q >= 1
  BY <1>1, <1>4, <1>5, <1>7
<1> QED
  BY <1>4, <1>6, <1>7

-----------------------------------------------------------------------------
(* Which steps touch the stream.                                            *)

\* A step that leaves the data and the main loops of the proxies alone.
Working == {"loop", "transfer", "publish"}
Quiet ==
    /\ UNCHANGED <<send_tail, send_fifo, recv_step, recv_head, got, step, sendProxy,
                   recvProxy, wire>>
    /\ \A x \in Sides :
            pc'[x] = pc[x] \/ (pc[x] \notin Working /\ pc'[x] \notin Working)
    /\ fd["R"] = "closed" => fd'["R"] = "closed"

\* Failures, the ends of kernels and the owners' steps are quiet.
LEMMA QuietSteps ==
    ASSUME TypeOK, NEW x \in Sides,
           \/ EndKernel(x) \/ Report(x) \/ ResetConnection \/ FailElsewhere(x)
           \/ OwnerStep(x) \/ Leave(x) \/ UNCHANGED vars
    PROVE  Quiet
<1> USE DEF Quiet, Working, kernels, sendProxy, recvProxy
<1>1. CASE EndKernel(x)
  BY <1>1, Zenon DEF EndKernel
<1>2. CASE Caught(x) \/ RecordFailure(x) \/ SetAbort(x)
  BY <1>2, Zenon DEF Caught, RecordFailure, SetAbort, TypeOK, ProxyType
<1>3. CASE HangUp(x)
  BY <1>3, Zenon DEF HangUp, ShutFd, TypeOK, ProxyType, WireType, Sides
<1>4. CASE ResetConnection \/ FailElsewhere(x)
  BY <1>4, Zenon DEF ResetConnection, FailElsewhere
<1>5. CASE Synchronize(x) \/ CheckAsyncError(x) \/ Destroy(x) \/ ReleaseAndDrain(x) \/ Leave(x)
  BY <1>5, Zenon DEF Synchronize, CheckAsyncError, Destroy, ReleaseAndDrain, Leave
<1>6. CASE Shutdown(x)
  BY <1>6, Zenon DEF Shutdown, ShutFd, TypeOK, WireType, Sides
<1>7. CASE Join(x)
  BY <1>7, Zenon DEF Join, TypeOK, WireType, Sides
<1>8. CASE UNCHANGED vars
  BY <1>8, Zenon DEF vars
<1> QED
  BY <1>1, <1>2, <1>3, <1>4, <1>5, <1>6, <1>7, <1>8, Zenon DEF Report, OwnerStep

\* All steps there are.
LEMMA StepCases ==
    TypeOK /\ [Next]_vars =>
        \/ PublishSlice \/ ReadSlice \/ PostRecvCredit
        \/ SendLoop \/ SendUnit \/ SendPublish
        \/ RecvLoop \/ RecvUnit \/ RecvPublish
        \/ Quiet
BY QuietSteps, Zenon DEF Next, SendKernelStep, RecvKernelStep, SendProxyStep, RecvProxyStep, Sides

-----------------------------------------------------------------------------
(* Type correctness.                                                        *)

\* The types hold initially.
LEMMA InitType == Init => TypeOK
<1> SUFFICES ASSUME Init PROVE TypeOK
  BY Zenon
<1>1. KernelType
  BY DEF Init, KernelType
<1>2. ProxyType
  <2>1. recv_fifo \in [Slots -> Seq(Int)] /\ read_units \in Seq(Int)
    BY EmptySeq, Zenon DEF Init
  <2> QED
    BY <2>1 DEF Init, ProxyType, Places
<1>3. WireType
  BY ZenonT(40), EmptySeq DEF Init, WireType
<1>4. ErrorType
  BY Zenon DEF Init, ErrorType
<1>5. OwnerType
  BY Zenon DEF Init, OwnerType
<1> QED
  BY <1>1, <1>2, <1>3, <1>4, <1>5, Zenon DEF TypeOK

\* What a step leaves alone keeps its type.
LEMMA SameType ==
    ASSUME TypeOK
    PROVE  /\ UNCHANGED kernels => KernelType'
           /\ UNCHANGED <<pc, step, sendProxy, recvProxy>> => ProxyType'
           /\ UNCHANGED <<wire, fd, broken, faults>> => WireType'
           /\ UNCHANGED <<errors, elsewhere>> => ErrorType'
           /\ UNCHANGED owner => OwnerType'
<1> USE DEF TypeOK, kernels, sendProxy, recvProxy, errors, owner
<1>1. UNCHANGED kernels => KernelType'
  BY Zenon DEF KernelType
<1>2. UNCHANGED <<pc, step, sendProxy, recvProxy>> => ProxyType'
  BY Zenon DEF ProxyType
<1>3. UNCHANGED <<wire, fd, broken, faults>> => WireType'
  BY Zenon DEF WireType
<1>4. UNCHANGED <<errors, elsewhere>> => ErrorType'
  BY Zenon DEF ErrorType
<1>5. UNCHANGED owner => OwnerType'
  BY Zenon DEF OwnerType
<1> QED
  BY <1>1, <1>2, <1>3, <1>4, <1>5, Zenon

\* A step of the data path, the two that handle units apart.
LEMMA DataSteps ==
    ASSUME TypeOK,
           \/ PublishSlice \/ ReadSlice \/ PostRecvCredit \/ SendLoop \/ SendPublish
           \/ RecvLoop \/ RecvPublish
    PROVE  TypeOK'
<1> USE DEF TypeOK, environment
<1>1. CASE PublishSlice
  <2>1. KernelType'
    BY <1>1, SlotType DEF PublishSlice, KernelType
  <2> QED
    BY <1>1, <2>1, SameType, Zenon DEF PublishSlice
<1>2. CASE ReadSlice \/ PostRecvCredit
  <2>1. KernelType'
    BY SMTT(30), <1>2 DEF ReadSlice, PostRecvCredit, KernelType
  <2> QED
    BY <1>2, <2>1, SameType, Zenon DEF ReadSlice, PostRecvCredit
<1>3. CASE SendLoop
  <2>1. ProxyType'
    BY ZenonT(40), <1>3 DEF SendLoop, ProxyType, Places, recvProxy
  <2> QED
    BY <1>3, <2>1, SameType, Zenon DEF SendLoop
<1>4. CASE SendPublish
  <2>1. ProxyType'
    BY <1>4 DEF SendPublish, ProxyType, Places, recvProxy, Sides
  <2> QED
    BY <1>4, <2>1, SameType, Zenon DEF SendPublish
<1>5. CASE RecvLoop
  <2>1. read_units' \in Seq(Int)
    BY <1>5, EmptySeq, Zenon DEF RecvLoop
  <2>2. pc' \in [Sides -> Places]
    BY ZenonT(40), <1>5 DEF RecvLoop, ProxyType, Places
  <2>3. ProxyType'
    BY <1>5, <2>1, <2>2 DEF RecvLoop, ProxyType, sendProxy
  <2> QED
    BY <1>5, <2>3, SameType, Zenon DEF RecvLoop
<1>6. CASE RecvPublish
  <2>1. ProxyType'
    BY <1>6 DEF RecvPublish, ProxyType, Places, sendProxy, Sides
  <2> QED
    BY <1>6, <2>1, SameType, Zenon DEF RecvPublish
<1> QED
  BY <1>1, <1>2, <1>3, <1>4, <1>5, <1>6, Zenon

\* A step of a kernel's end, a failure or an owner.
LEMMA OtherSteps ==
    ASSUME TypeOK, NEW x \in Sides,
           \/ EndKernel(x) \/ Report(x) \/ ResetConnection \/ FailElsewhere(x)
           \/ OwnerStep(x) \/ Leave(x) \/ UNCHANGED vars
    PROVE  TypeOK'
<1> USE DEF TypeOK
<1>1. CASE EndKernel(x)
  <2>1. KernelType'
    BY <1>1, Zenon DEF EndKernel, KernelType
  <2> QED
    BY <1>1, <2>1, SameType, Zenon DEF EndKernel, environment
<1>2. CASE Caught(x) \/ RecordFailure(x) \/ SetAbort(x) \/ HangUp(x)
  <2>1. ProxyType'
    BY ZenonT(40), <1>2 DEF Caught, RecordFailure, SetAbort, HangUp, ProxyType, Places,
       sendProxy, recvProxy
  <2>2. WireType'
    BY <1>2, Zenon DEF Caught, RecordFailure, SetAbort, HangUp, ShutFd, WireType, environment
  <2>3. ErrorType'
    BY ZenonT(40), <1>2 DEF Caught, RecordFailure, SetAbort, HangUp, ErrorType, environment,
       errors
  <2> QED
    BY <1>2, <2>1, <2>2, <2>3, SameType, Zenon DEF Caught, RecordFailure, SetAbort, HangUp
<1>3. CASE ResetConnection \/ FailElsewhere(x)
  <2>1. WireType'
    <3>1. faults' \in Nat
      BY <1>3 DEF ResetConnection, FailElsewhere, WireType
    <3>2. UNCHANGED <<wire, fd>> /\ broken' \in BOOLEAN
      BY ZenonT(40), <1>3 DEF ResetConnection, FailElsewhere, WireType
    <3> QED
      BY <3>1, <3>2, Zenon DEF WireType
  <2>2. ErrorType'
    BY ZenonT(40), <1>3 DEF ResetConnection, FailElsewhere, ErrorType, errors
  <2> QED
    BY <1>3, <2>1, <2>2, SameType, Zenon DEF ResetConnection, FailElsewhere
<1>4. CASE Synchronize(x) \/ ReleaseAndDrain(x) \/ Leave(x) \/ CheckAsyncError(x)
  <2>1. OwnerType'
    BY <1>4, Zenon DEF Synchronize, ReleaseAndDrain, Leave, CheckAsyncError, Go, OwnerType
  <2> QED
    BY <1>4, <2>1, SameType, Zenon DEF Synchronize, ReleaseAndDrain, Leave, CheckAsyncError,
       environment
<1>5. CASE Destroy(x) \/ Shutdown(x) \/ Join(x)
  <2>1. OwnerType'
    BY ZenonT(40), <1>5 DEF Destroy, Shutdown, Join, Go, OwnerType
  <2>2. ErrorType'
    <3>1. CASE Destroy(x)
      BY <3>1, Zenon DEF Destroy, ErrorType, environment
    <3>2. CASE Shutdown(x) \/ Join(x)
      BY ZenonT(40), <3>2, SameType DEF Shutdown, Join, environment
    <3> QED
      BY <1>5, <3>1, <3>2, Zenon
  <2>3. WireType'
    BY ZenonT(40), <1>5 DEF Destroy, Shutdown, Join, ShutFd, WireType, environment
  <2> QED
    BY ZenonT(40), <1>5, <2>1, <2>2, <2>3, SameType DEF Destroy, Shutdown, Join
<1>6. CASE UNCHANGED vars
  BY <1>6, SameType, Zenon DEF vars, environment
<1> QED
  BY <1>1, <1>2, <1>3, <1>4, <1>5, <1>6, Zenon DEF Report, OwnerStep

-----------------------------------------------------------------------------
(* The two steps that handle units.                                         *)

\* The unit that the sender is about to send.
NextUnit == [slice |-> step["S"], index |-> sent_units,
             word |-> IF sent_units = 0 THEN SliceBytes[step["S"]] ELSE step["S"]]

\* What SendUnit does when the slots hold what they should: it sends the next
\* unit, to a peer that is there or to one that is gone, or it fails.
LEMMA SendUnitCases ==
    ASSUME TypeOK, SendOk, SendUnit
    PROVE  /\ pc["S"] = "transfer" /\ step["S"] \in Slices /\ NextUnit \in Units
           /\ sent_units \in Nat /\ sent_units <= SliceBytes[step["S"]]
           /\ UNCHANGED <<kernels, step, send_head, recvProxy, fd, errors, environment, owner>>
           /\ pc'["R"] = pc["R"]
           /\ \/ /\ \/ fd["R"] # "closed" /\ wire' = Append(wire, NextUnit)
                    \/ fd["R"] = "closed" /\ UNCHANGED wire
                 /\ sent_units' = sent_units + 1
                 /\ pc' = [pc EXCEPT !["S"] = IF sent_units = SliceBytes[step["S"]]
                                              THEN "publish" ELSE "transfer"]
              \/ /\ fd["S"] # "open" \/ fd["R"] = "closed" \/ broken
                 /\ pc' = [pc EXCEPT !["S"] = "caught"]
                 /\ UNCHANGED <<wire, sent_units>>
<1> DEFINE k == step["S"]
<1>1. pc["S"] = "transfer" /\ k \in Nat /\ k < send_tail /\ sent_units \in Nat
  BY Zenon DEF SendUnit, SendOk, TypeOK, ProxyType, Sides
<1>2. k \in Slices /\ k \in k .. send_tail - 1
  BY <1>1, SocketAssumption DEF SendOk, Slices, TypeOK, KernelType
<1>3. send_fifo[Slot(k)] = k
  BY <1>2, Zenon DEF SendOk
<1>4. SliceBytes[k] \in Nat /\ sent_units <= SliceBytes[k]
  BY <1>1, <1>2, SocketAssumption DEF SendOk
<1>5. NextUnit \in Units
  BY <1>1, <1>2, <1>4 DEF NextUnit, Units, Slices
<1>6. pc'["R"] = pc["R"]
  BY Zenon DEF SendUnit, TypeOK, ProxyType, Sides
<1> QED
  BY <1>1, <1>2, <1>3, <1>4, <1>5, <1>6, Zenon DEF SendUnit, NextUnit

\* What RecvUnit does when the wire holds what it should: it takes a header or
\* a payload unit of the slice it is at, or it fails.
LEMMA RecvUnitCases ==
    ASSUME TypeOK, RecvOrder, RecvOk, WireOk, OwnerOk, RecvUnit
    PROVE  /\ pc["R"] = "transfer" /\ fd["R"] # "closed"
           /\ UNCHANGED <<kernels, step, sendProxy, recv_tail, fd, errors, environment, owner>>
           /\ pc'["S"] = pc["S"]
           /\ \/ /\ wire # <<>> /\ wire' = Tail(wire) /\ step["R"] \in Slices
                 /\ wire[1].slice = step["R"]
                 /\ \/ /\ want = -1 /\ want' = SliceBytes[step["R"]] /\ wire[1].index = 0
                       /\ UNCHANGED <<read_units, recv_fifo>>
                       /\ pc' = [pc EXCEPT !["R"] = IF SliceBytes[step["R"]] = 0
                                                    THEN "publish" ELSE "transfer"]
                    \/ /\ want # -1 /\ UNCHANGED want /\ wire[1].index = Len(read_units) + 1
                       /\ read_units' = Append(read_units, step["R"])
                       /\ recv_fifo' = [recv_fifo EXCEPT ![Slot(step["R"])] = read_units']
                       /\ pc' = [pc EXCEPT !["R"] = IF Len(read_units) + 1 = want
                                                    THEN "publish" ELSE "transfer"]
              \/ /\ (wire = <<>> /\ fd["S"] # "open") \/ fd["R"] # "open" \/ broken
                 /\ pc' = [pc EXCEPT !["R"] = "caught"]
                 /\ UNCHANGED <<wire, want, read_units, recv_fifo>>
<1>1. pc["R"] = "transfer" /\ fd["R"] # "closed"
  BY Zenon DEF RecvUnit, OwnerOk, Known, Sides
<1>2. pc'["S"] = pc["S"]
  BY Zenon DEF RecvUnit, TypeOK, ProxyType, Sides
<1>3. ASSUME wire # <<>>
      PROVE  /\ Head(wire) = wire[1] /\ step["R"] \in Slices
             /\ wire[1].slice = step["R"]
             /\ want = -1 => wire[1].index = 0
             /\ want # -1 => wire[1].index = Len(read_units) + 1
             /\ wire[1].word = IF want = -1 THEN SliceBytes[step["R"]] ELSE step["R"]
  <2>1. 1 \in 1 .. Len(wire) /\ Head(wire) = wire[1] /\ wire[1] \in Units
    BY <1>3, EmptySeq, ElementOfSeq, HeadTailProperties DEF TypeOK, WireType
  <2>2. wire[1].slice = step["R"] /\ wire[1].index = RecvIndex
    BY <1>1, <1>3, Zenon DEF WireOk, Run, RecvSlice
  <2>3. wire[1].word = IF wire[1].index = 0 THEN SliceBytes[wire[1].slice] ELSE wire[1].slice
    BY <1>1, <2>1, Zenon DEF WireOk, Run
  <2>4. RecvIndex = IF want = -1 THEN 0 ELSE Len(read_units) + 1
    BY <1>1, Zenon DEF RecvIndex
  <2>5. Len(read_units) + 1 # 0
    BY DEF TypeOK, ProxyType
  <2> QED
    BY <2>1, <2>2, <2>3, <2>4, <2>5, Zenon DEF Units
<1>4. step["R"] \in Slices => SliceBytes[step["R"]] \in 0 .. slot_bytes
  BY SocketAssumption, Zenon
<1>5. CASE wire # <<>> /\ wire' = Tail(wire) /\ want = -1
  BY <1>1, <1>2, <1>3, <1>4, <1>5, SocketAssumption DEF RecvUnit
<1>6. CASE wire # <<>> /\ wire' = Tail(wire) /\ want # -1
  BY <1>1, <1>2, <1>3, <1>4, <1>6 DEF RecvUnit
<1>7. CASE wire' = wire
  BY <1>1, <1>2, <1>7 DEF RecvUnit
<1> QED
  BY <1>5, <1>6, <1>7, Zenon DEF RecvUnit

\* No step takes a variable out of its type.
LEMMA NextType ==
    ASSUME TypeOK, SendOk, RecvOrder, RecvOk, WireOk, OwnerOk, [Next]_vars
    PROVE  TypeOK'
<1>1. CASE SendUnit
  <2>1. wire' \in Seq(Units)
    BY <1>1, SendUnitCases, AppendProperties DEF TypeOK, WireType
  <2>2. WireType'
    BY <1>1, <2>1, SendUnitCases, Zenon DEF TypeOK, WireType, environment
  <2>3. ProxyType'
    BY <1>1, SendUnitCases DEF TypeOK, ProxyType, Places, recvProxy
  <2>4. UNCHANGED <<kernels, errors, elsewhere, owner>>
    BY <1>1, Zenon DEF SendUnit, environment
  <2> QED
    BY <2>2, <2>3, <2>4, SameType, Zenon DEF TypeOK
<1>2. CASE RecvUnit
  <2>1. wire' \in Seq(Units)
    BY <1>2, RecvUnitCases, HeadTailProperties, SMTT(30) DEF TypeOK, WireType
  <2>2. WireType'
    BY <1>2, <2>1, RecvUnitCases, Zenon DEF TypeOK, WireType, environment
  <2>3. read_units' \in Seq(Int) /\ want' \in Int
    <3>1. step["R"] \in Slices => SliceBytes[step["R"]] \in Int /\ step["R"] \in Int
      BY SocketAssumption DEF Slices
    <3>2. want' \in Int
      BY <1>2, <3>1, RecvUnitCases, Zenon DEF TypeOK, ProxyType
    <3>3. step["R"] \in Slices => Append(read_units, step["R"]) \in Seq(Int)
      BY <3>1, AppendProperties, Zenon DEF TypeOK, ProxyType
    <3> QED
      BY ZenonT(40), <1>2, <3>2, <3>3, RecvUnitCases DEF TypeOK, ProxyType
  <2>4. recv_fifo' \in [Slots -> Seq(Int)]
    BY <1>2, <2>3, RecvUnitCases, Zenon DEF TypeOK, ProxyType
  <2>5. pc' \in [Sides -> Places]
    BY ZenonT(40), <1>2, RecvUnitCases DEF TypeOK, ProxyType, Places
  <2>6. ProxyType'
    BY <1>2, <2>3, <2>4, <2>5, Zenon DEF RecvUnit, TypeOK, ProxyType, sendProxy
  <2>7. UNCHANGED <<kernels, errors, elsewhere, owner>>
    BY <1>2, Zenon DEF RecvUnit, environment
  <2> QED
    BY <2>2, <2>6, <2>7, SameType DEF TypeOK
<1> QED
  BY <1>1, <1>2, DataSteps, OtherSteps, Zenon
     DEF Next, SendKernelStep, RecvKernelStep, SendProxyStep, RecvProxyStep, Sides

-----------------------------------------------------------------------------
(* The two sides.                                                           *)

\* The sending kernel never refills the slot of a slice that is still to be
\* sent, and the proxy keeps its place.
LEMMA NextSendOk ==
    ASSUME TypeOK, SendOk, [Next]_vars
    PROVE  SendOk'
<1> USE SocketAssumption DEF TypeOK, KernelType, ProxyType, kernels, sendProxy
<1>1. CASE PublishSlice
  <2> DEFINE t == send_tail
  <2>1. /\ t \in Nat /\ step["S"] \in Nat /\ send_tail' = t + 1 /\ t + 1 <= TotalSlices
        /\ t + 1 <= send_head + slot_count
        /\ UNCHANGED <<pc, step, send_head, sent_units>>
    BY <1>1 DEF PublishSlice, Sides
  <2>2. ASSUME NEW k \in step["S"] .. t PROVE send_fifo'[Slot(k)] = k
    <3>1. CASE k = t
      BY <1>1, <2>1, <3>1, SlotType, Zenon DEF PublishSlice
    <3>2. CASE k # t
      <4>1. k \in Nat /\ k < t /\ t < k + slot_count /\ k \in step["S"] .. send_tail - 1
        BY <2>1, <2>2, <3>2 DEF SendOk
      <4>2. Slot(k) # Slot(t) /\ Slot(k) \in Slots
        BY <2>1, <4>1, SlotDistinct, SlotType, Zenon
      <4>3. send_fifo'[Slot(k)] = send_fifo[Slot(k)]
        BY <1>1, <4>2, Zenon DEF PublishSlice
      <4> QED
        BY <4>1, <4>3, Zenon DEF SendOk
    <3> QED
      BY <3>1, <3>2, Zenon
  <2> QED
    BY <2>1, <2>2 DEF SendOk
<1>2. CASE SendLoop
  BY <1>2 DEF SendLoop, SendOk, Sides
<1>3. CASE SendUnit
  <2>1. UNCHANGED <<send_tail, send_fifo, step, send_head>>
    BY <1>3, Zenon DEF SendUnit
  <2>2. /\ pc'["S"] \in {"transfer", "publish"} => step["S"] < send_tail
        /\ pc'["S"] \notin {"loop", "publish"} /\ sent_units' > 0 =>
              step["S"] < TotalSlices /\ sent_units' <= SliceBytes[step["S"]]
    <3>1. /\ pc["S"] = "transfer" /\ step["S"] < TotalSlices /\ SliceBytes[step["S"]] \in Nat
          /\ sent_units \in Nat /\ sent_units <= SliceBytes[step["S"]]
      BY <1>3, SendUnitCases, SocketAssumption, SMTT(30) DEF Slices
    <3>2. \/ /\ sent_units' = sent_units + 1
             /\ pc'["S"] = IF sent_units = SliceBytes[step["S"]] THEN "publish" ELSE "transfer"
          \/ pc'["S"] = "caught" /\ sent_units' = sent_units
      BY <1>3, SendUnitCases, Zenon DEF TypeOK, ProxyType, Sides
    <3> QED
      BY SMTT(30), <3>1, <3>2 DEF SendOk
  <2> QED
    BY <2>1, <2>2, Zenon DEF SendOk
<1>4. CASE SendPublish
  <2>1. /\ step'["S"] = step["S"] + 1 /\ send_head' = step["S"] + 1 /\ step["S"] < send_tail
        /\ pc'["S"] = "loop" /\ UNCHANGED <<send_tail, send_fifo, sent_units>>
        /\ step["S"] \in Nat
    BY <1>4, Zenon DEF SendPublish, SendOk, Sides
  <2> QED
    BY <2>1, SMTT(30) DEF SendOk
<1>5. CASE Quiet
  BY <1>5, Zenon DEF Quiet, Working, SendOk, Sides
<1>6. CASE ReadSlice \/ PostRecvCredit \/ RecvLoop \/ RecvUnit \/ RecvPublish
  <2>1. UNCHANGED <<send_tail, send_fifo, send_head, sent_units>>
    BY <1>6, Zenon DEF ReadSlice, PostRecvCredit, RecvLoop, RecvUnit, RecvPublish
  <2>2. pc'["S"] = pc["S"] /\ step'["S"] = step["S"]
    BY ZenonT(40), <1>6 DEF ReadSlice, PostRecvCredit, RecvLoop, RecvUnit, RecvPublish, Sides
  <2> QED
    BY <2>1, <2>2, Zenon DEF SendOk
<1> QED
  BY <1>1, <1>2, <1>3, <1>4, <1>5, <1>6, StepCases, Zenon

\* The counters of the receiving side stay in order.
LEMMA NextRecvOrder ==
    ASSUME TypeOK, RecvOrder, RecvOk, WireOk, OwnerOk, [Next]_vars
    PROVE  RecvOrder'
<1> USE SocketAssumption DEF TypeOK, KernelType, ProxyType, kernels, recvProxy
<1>1. CASE ReadSlice \/ PostRecvCredit
  BY <1>1 DEF ReadSlice, PostRecvCredit, RecvOrder, Sides
<1>2. CASE RecvLoop
  BY <1>2, Zenon DEF RecvLoop, RecvCredit, RecvOrder, Sides
<1>3. CASE RecvUnit
  <2>1. UNCHANGED <<recv_head, recv_step, recv_tail, step>> /\ pc["R"] = "transfer"
    BY <1>3, Zenon DEF RecvUnit
  <2>2. pc'["R"] = "publish" => step["R"] < TotalSlices
    BY <1>3, RecvUnitCases DEF Sides, Slices
  <2> QED
    BY <2>1, <2>2, Zenon DEF RecvOrder
<1>4. CASE RecvPublish
  <2>1. /\ step'["R"] = step["R"] + 1 /\ recv_tail' = step["R"] + 1 /\ pc'["R"] = "loop"
        /\ step["R"] \in Nat /\ UNCHANGED <<recv_head, recv_step>>
    BY <1>4, Zenon DEF RecvPublish, Sides
  <2> QED
    BY <1>4, <2>1 DEF RecvOrder, RecvPublish
<1>5. CASE Quiet
  BY <1>5, Zenon DEF Quiet, Working, RecvOrder, Sides
<1>6. CASE PublishSlice \/ SendLoop \/ SendUnit \/ SendPublish
  <2>1. UNCHANGED <<recv_head, recv_step, recv_tail>>
    BY <1>6, Zenon DEF PublishSlice, SendLoop, SendUnit, SendPublish
  <2>2. pc'["R"] = pc["R"] /\ step'["R"] = step["R"]
    BY <1>6, Zenon DEF PublishSlice, SendLoop, SendUnit, SendPublish, Sides
  <2> QED
    BY <2>1, <2>2, Zenon DEF RecvOrder
<1> QED
  BY <1>1, <1>2, <1>3, <1>4, <1>5, <1>6, StepCases, Zenon

\* A slice is put together in its slot unit by unit, and the slot is not
\* written again before the kernel has read it.
LEMMA NextRecvOk ==
    ASSUME TypeOK, RecvOrder, RecvOk, WireOk, OwnerOk, [Next]_vars
    PROVE  RecvOk'
<1> USE SocketAssumption DEF TypeOK, KernelType, ProxyType, kernels, recvProxy
<1>1. CASE ReadSlice
  <2>1. UNCHANGED <<pc, step, recvProxy>> /\ recv_step' = recv_step + 1
    BY <1>1, Zenon DEF ReadSlice
  <2>2. \A k \in recv_step' .. recv_tail - 1 : k \in recv_step .. recv_tail - 1
    BY <2>1
  <2> QED
    BY <2>1, <2>2, Zenon DEF RecvOk
<1>2. CASE RecvLoop
  <2>1. /\ pc'["R"] \in {"exit", "transfer"} /\ want' = -1 /\ read_units' = <<>>
        /\ UNCHANGED <<recv_step, recv_tail, recv_fifo>>
    BY <1>2, Zenon DEF RecvLoop, Sides
  <2> QED
    BY <2>1, Zenon DEF RecvOk
<1>3. CASE RecvUnit
  <2> DEFINE k == step["R"]
  <2>0. /\ pc["R"] = "transfer" /\ k \in Nat /\ UNCHANGED <<step, recv_step, recv_tail>>
        /\ recv_step \in Nat /\ recv_tail = k /\ k < recv_step + slot_count
    BY SMTT(30), <1>3 DEF RecvUnit, RecvOrder, Sides
  <2>1. CASE /\ k \in Slices /\ want = -1 /\ want' = SliceBytes[k]
             /\ UNCHANGED <<read_units, recv_fifo>>
             /\ pc' = [pc EXCEPT !["R"] = IF SliceBytes[k] = 0 THEN "publish" ELSE "transfer"]
    <3>1. /\ SliceBytes[k] \in Nat /\ k < TotalSlices /\ read_units = <<>>
          /\ pc'["R"] = IF SliceBytes[k] = 0 THEN "publish" ELSE "transfer"
      BY SMTT(30), <2>0, <2>1 DEF RecvOk, Slices, Sides
    <3> QED
      BY <2>0, <2>1, <3>1 DEF RecvOk, Holds
  <2>2. CASE /\ k \in Slices /\ want # -1 /\ UNCHANGED want
             /\ read_units' = Append(read_units, k)
             /\ recv_fifo' = [recv_fifo EXCEPT ![Slot(k)] = read_units']
             /\ pc' = [pc EXCEPT !["R"] = IF Len(read_units) + 1 = want
                                          THEN "publish" ELSE "transfer"]
    <3>1. /\ k < TotalSlices /\ want = SliceBytes[k] /\ want \in Nat
          /\ Len(read_units) < want /\ Len(read_units) \in Nat
          /\ \A i \in 1 .. Len(read_units) : read_units[i] = k
          /\ pc'["R"] = IF Len(read_units) + 1 = want THEN "publish" ELSE "transfer"
      BY <2>0, <2>2, LenProperties DEF RecvOk, Slices, Sides
    <3>2. /\ Len(read_units') = Len(read_units) + 1
          /\ \A i \in 1 .. Len(read_units') : read_units'[i] = k
      BY <2>0, <2>2, <3>1, AppendProperties, SMTT(30)
    <3>3. recv_fifo'[Slot(k)] = read_units'
      BY ZenonT(40), <2>0, <2>2, SlotType
    <3>4. ASSUME NEW l \in recv_step .. recv_tail - 1
          PROVE  Holds(recv_fifo'[Slot(l)], l)
      <4>1. l \in Nat /\ l < k /\ k < l + slot_count
        BY <2>0
      <4>2. Slot(l) # Slot(k) /\ Slot(l) \in Slots
        BY ZenonT(40), <2>0, <4>1, SlotDistinct, SlotType
      <4>3. recv_fifo'[Slot(l)] = recv_fifo[Slot(l)]
        BY <2>2, <4>2, Zenon
      <4> QED
        BY <4>3, Zenon DEF RecvOk
    <3>5. pc'["R"] = "publish" => Holds(recv_fifo'[Slot(k)], k)
      BY ZenonT(40), <3>1, <3>2, <3>3 DEF Holds
    <3>6. pc'["R"] = "transfer" => Len(read_units') < want
      BY <3>1, <3>2
    <3> QED
      BY <2>0, <2>2, <3>1, <3>2, <3>4, <3>5, <3>6, Zenon DEF RecvOk
  <2>3. CASE pc' = [pc EXCEPT !["R"] = "caught"] /\ UNCHANGED <<want, read_units, recv_fifo>>
    <3>1. pc'["R"] = "caught"
      BY <2>3, Zenon DEF Sides
    <3> QED
      BY <2>0, <2>3, <3>1, Zenon DEF RecvOk
  <2> QED
    BY <1>3, <2>1, <2>2, <2>3, RecvUnitCases, Zenon
<1>4. CASE RecvPublish
  <2>1. /\ step'["R"] = step["R"] + 1 /\ recv_tail' = step["R"] + 1 /\ pc'["R"] = "loop"
        /\ step["R"] \in Nat /\ recv_tail = step["R"] /\ UNCHANGED <<recv_fifo, recv_step>>
        /\ Holds(recv_fifo[Slot(step["R"])], step["R"])
    BY <1>4, Zenon DEF RecvPublish, RecvOrder, RecvOk, Sides
  <2>2. \A k \in recv_step .. step["R"] : k = step["R"] \/ k \in recv_step .. recv_tail - 1
    BY <2>1
  <2> QED
    BY <2>1, <2>2 DEF RecvOk
<1>5. CASE Quiet
  <2>1. /\ UNCHANGED <<recv_step, step, recvProxy>>
        /\ pc'["R"] = pc["R"] \/ pc'["R"] \notin {"transfer", "publish"}
    BY <1>5, Zenon DEF Quiet, Working, Sides
  <2> QED
    BY <2>1, Zenon DEF RecvOk
<1>6. CASE PublishSlice \/ PostRecvCredit \/ SendLoop \/ SendUnit \/ SendPublish
  <2>1. UNCHANGED <<recv_step, recvProxy>>
    BY <1>6, Zenon DEF PublishSlice, PostRecvCredit, SendLoop, SendUnit, SendPublish
  <2>2. pc'["R"] = pc["R"] /\ step'["R"] = step["R"]
    BY <1>6, Zenon DEF PublishSlice, PostRecvCredit, SendLoop, SendUnit, SendPublish, Sides
  <2> QED
    BY <2>1, <2>2, Zenon DEF RecvOk
<1> QED
  BY <1>1, <1>2, <1>3, <1>4, <1>5, <1>6, StepCases, Zenon

-----------------------------------------------------------------------------
(* The stream.                                                              *)

\* The fields of a unit are numbers.
LEMMA UnitType ==
    \A u \in Units : u.slice \in Nat /\ u.index \in Nat /\ SliceBytes[u.slice] \in Nat
<1> TAKE u \in Units
<1>1. u.slice \in Slices /\ u.index \in Nat
  BY Zenon DEF Units
<1> QED
  BY <1>1, SocketAssumption DEF Slices

\* A run of units grows by the unit after its last one.
LEMMA RunAppend ==
    ASSUME NEW w \in Seq(Units), NEW u \in Units, NEW k \in Nat, NEW i \in Nat,
           NEW l \in Nat, NEW j \in Nat,
           Run(w, k, i, u.slice, u.index), Follows(u, l, j),
           u.index <= SliceBytes[u.slice],
           u.word = IF u.index = 0 THEN SliceBytes[u.slice] ELSE u.slice
    PROVE  Run(Append(w, u), k, i, l, j) /\ Before(u.slice, u.index, l, j)
<1> DEFINE v == Append(w, u)
           n == Len(w)
<1>1. /\ n \in Nat /\ Len(v) = n + 1 /\ v[n + 1] = u /\ v # <<>>
      /\ \A m \in 1 .. n : v[m] = w[m] /\ w[m] \in Units
  BY AppendProperties, LenProperties, ElementOfSeq
<1> HIDE DEF v
<1>2. u.slice \in Nat /\ u.index \in Nat /\ SliceBytes[u.slice] \in Nat
  BY UnitType, Zenon
<1>3. Before(u.slice, u.index, l, j)
  BY <1>2 DEF Follows, Before
<1>4. ASSUME NEW m \in 1 .. n
      PROVE  /\ v[m].index <= SliceBytes[v[m].slice]
             /\ v[m].word = IF v[m].index = 0 THEN SliceBytes[v[m].slice] ELSE v[m].slice
             /\ Before(v[m].slice, v[m].index, l, j)
  <2>0. v[m] = w[m] /\ w[m] \in Units
    BY <1>1, <1>4, Zenon
  <2>1. v[m] = w[m] /\ w[m].slice \in Nat /\ w[m].index \in Nat
    BY <2>0, UnitType, Zenon
  <2>2. Before(w[m].slice, w[m].index, u.slice, u.index)
    BY <1>4, Zenon DEF Run
  <2>3. Before(w[m].slice, w[m].index, l, j)
    BY SMTT(30), <1>2, <1>3, <2>1, <2>2 DEF Before
  <2> QED
    BY ZenonT(40), <1>4, <2>1, <2>3 DEF Run
<1>5. ASSUME NEW m \in 1 .. n
      PROVE  Follows(v[m], v[m + 1].slice, v[m + 1].index)
  <2>1. CASE m = n
    <3>1. w # <<>> /\ v[m] = w[Len(w)] /\ v[m + 1] = u
      BY SMTT(30), <1>1, <1>5, <2>1, EmptySeq
    <3> QED
      BY <3>1, Zenon DEF Run
  <2>2. CASE m # n
    <3>1. m \in 1 .. Len(w) - 1 /\ v[m] = w[m] /\ v[m + 1] = w[m + 1]
      BY <1>1, <1>5, <2>2
    <3> QED
      BY <3>1, Zenon DEF Run
  <2> QED
    BY <2>1, <2>2, Zenon
<1>6. v[1].slice = k /\ v[1].index = i
  <2>1. CASE w = <<>>
    BY SMTT(30), <1>1, <2>1, EmptySeq DEF Run
  <2>2. CASE w # <<>>
    BY SMTT(30), <1>1, <2>2, EmptySeq DEF Run
  <2> QED
    BY <2>1, <2>2, Zenon
<1>7. Run(v, k, i, l, j)
  <2>1. Len(v) - 1 = n /\ \A m \in 1 .. Len(v) : m \in 1 .. n \/ m = n + 1
    BY SMTT(30), <1>1
  <2> QED
    BY ZenonT(40), <1>1, <1>3, <1>4, <1>5, <1>6, <2>1 DEF Run
<1> QED
  BY <1>3, <1>7, Zenon DEF v

\* A run of units shrinks by its first one, and its new first unit is not after
\* its end.
LEMMA RunTail ==
    ASSUME NEW w \in Seq(Units), w # <<>>, NEW k \in Nat, NEW i \in Nat,
           NEW l \in Nat, NEW j \in Nat, NEW a, NEW b,
           Run(w, a, b, l, j), Follows(w[1], k, i)
    PROVE  Run(Tail(w), k, i, l, j) /\ ~Before(l, j, k, i)
<1> DEFINE v == Tail(w)
           n == Len(w)
<1>1. /\ n \in Nat /\ n > 0 /\ Len(v) = n - 1 /\ v \in Seq(Units)
      /\ \A m \in 1 .. n - 1 : v[m] = w[m + 1]
      /\ \A m \in 1 .. n : w[m] \in Units
  BY HeadTailProperties, LenProperties, ElementOfSeq, EmptySeq
<1> HIDE DEF v
<1>2. w[1].slice \in Nat /\ w[1].index \in Nat /\ SliceBytes[w[1].slice] \in Nat
  BY <1>1, UnitType
<1>3. CASE n = 1
  <2>1. v = <<>> /\ Len(v) = 0 /\ Follows(w[1], l, j)
    BY <1>1, <1>3, EmptySeq DEF Run
  <2>2. k = l /\ i = j
    BY <2>1 DEF Follows
  <2> QED
    <3>1. ~Before(l, j, k, i)
      BY SMTT(30), <2>2 DEF Before
    <3>2. Run(v, k, i, l, j)
      BY <2>1, <2>2 DEF Run
    <3> QED
      BY <3>1, <3>2, Zenon DEF v
<1>4. CASE n # 1
  <2>1. /\ v # <<>> /\ v[1] = w[2] /\ v[Len(v)] = w[n]
        /\ 1 \in 1 .. n - 1 /\ 2 \in 1 .. n
    <3>1. n - 1 \in 1 .. n - 1 /\ (n - 1) + 1 = n /\ 1 \in 1 .. n - 1 /\ 2 \in 1 .. n
      BY <1>1, <1>4
    <3>2. v # <<>>
      BY <1>1, <3>1, EmptySeq
    <3> QED
      BY <1>1, <3>1, <3>2
  <2>2. Follows(w[1], w[2].slice, w[2].index) /\ Before(w[2].slice, w[2].index, l, j)
    BY <2>1 DEF Run
  <2>3. w[2].slice = k /\ w[2].index = i
    BY <2>2 DEF Follows
  <2>4. \A m \in 1 .. Len(v) : v[m] = w[m + 1] /\ m + 1 \in 1 .. n
    BY <1>1
  <2>5. \A m \in 1 .. Len(v) - 1 :
            v[m] = w[m + 1] /\ v[m + 1] = w[(m + 1) + 1] /\ m + 1 \in 1 .. n - 1
    BY SMTT(30), <1>1
  <2>6. \A m \in 1 .. Len(v) - 1 : Follows(v[m], v[m + 1].slice, v[m + 1].index)
    BY ZenonT(40), <2>5 DEF Run
  <2>7. ~Before(l, j, k, i)
    BY <2>2, <2>3 DEF Before
  <2>8. Run(v, k, i, l, j)
    BY ZenonT(40), <2>1, <2>3, <2>4, <2>6 DEF Run
  <2> QED
    BY <2>7, <2>8 DEF v
<1> QED
  BY <1>3, <1>4, Zenon

\* The places in the stream are numbers.
LEMMA PlaceType ==
    ASSUME TypeOK
    PROVE  SendSlice \in Nat /\ SendIndex \in Nat /\ RecvSlice \in Nat /\ RecvIndex \in Nat
<1>1. Len(read_units) \in Nat /\ step["S"] \in Nat /\ step["R"] \in Nat /\ sent_units \in Nat
  BY LenProperties, Zenon DEF TypeOK, ProxyType, Sides
<1> QED
  BY <1>1 DEF SendSlice, SendIndex, RecvSlice, RecvIndex

\* Only the two steps that handle units move along the stream.
LEMMA PlacesKept ==
    ASSUME TypeOK,
           \/ PublishSlice \/ ReadSlice \/ PostRecvCredit \/ SendLoop \/ SendPublish
           \/ RecvLoop \/ RecvPublish \/ Quiet
    PROVE  /\ UNCHANGED <<SendSlice, SendIndex, RecvSlice, RecvIndex, wire>>
           /\ fd["R"] = "closed" => fd'["R"] = "closed"
<1> USE DEF TypeOK, ProxyType, sendProxy, recvProxy
<1> DEFINE Sent == UNCHANGED <<SendSlice, SendIndex>>
           Received == UNCHANGED <<RecvSlice, RecvIndex>>
<1>1. ASSUME pc'["S"] = pc["S"], step'["S"] = step["S"], sent_units' = sent_units PROVE Sent
  BY <1>1, Zenon DEF SendSlice, SendIndex
<1>2. ASSUME pc'["R"] = pc["R"], step'["R"] = step["R"], UNCHANGED <<want, read_units>>
      PROVE  Received
  BY <1>2, Zenon DEF RecvSlice, RecvIndex
<1>3. CASE PublishSlice \/ ReadSlice \/ PostRecvCredit
  BY ZenonT(40), <1>1, <1>2, <1>3 DEF PublishSlice, ReadSlice, PostRecvCredit
<1>4. CASE SendLoop
  <2>1. /\ pc["S"] = "loop" /\ pc'["S"] \in {"exit", "transfer", "caught"} /\ sent_units' = 0
        /\ pc'["R"] = pc["R"] /\ UNCHANGED <<step, recvProxy, wire, fd>>
    BY ZenonT(40), <1>4 DEF SendLoop, Sides
  <2> QED
    BY <1>2, <2>1, Zenon DEF SendSlice, SendIndex
<1>5. CASE SendPublish
  <2>1. /\ pc["S"] = "publish" /\ pc'["S"] = "loop" /\ step'["S"] = step["S"] + 1
        /\ pc'["R"] = pc["R"] /\ step'["R"] = step["R"] /\ UNCHANGED <<recvProxy, wire, fd>>
    BY <1>5, Zenon DEF SendPublish, Sides
  <2> QED
    BY <1>2, <2>1, Zenon DEF SendSlice, SendIndex
<1>6. CASE RecvLoop
  <2>1. /\ pc["R"] = "loop" /\ pc'["R"] \in {"exit", "transfer"} /\ want' = -1
        /\ pc'["S"] = pc["S"] /\ UNCHANGED <<step, sendProxy, wire, fd>>
    BY <1>6, Zenon DEF RecvLoop, Sides
  <2> QED
    BY <1>1, <2>1, Zenon DEF RecvSlice, RecvIndex
<1>7. CASE RecvPublish
  <2>1. /\ pc["R"] = "publish" /\ pc'["R"] = "loop" /\ step'["R"] = step["R"] + 1
        /\ pc'["S"] = pc["S"] /\ step'["S"] = step["S"] /\ UNCHANGED <<sendProxy, wire, fd>>
    BY <1>7, Zenon DEF RecvPublish, Sides
  <2> QED
    BY <1>1, <2>1, Zenon DEF RecvSlice, RecvIndex
<1>8. CASE Quiet
  <2>1. /\ UNCHANGED <<step, sendProxy, recvProxy, wire>>
        /\ \A x \in Sides : pc'[x] = pc[x] \/ /\ pc[x] \notin {"loop", "publish"}
                                              /\ pc'[x] \notin {"loop", "publish"}
        /\ fd["R"] = "closed" => fd'["R"] = "closed"
    BY <1>8, Zenon DEF Quiet, Working
  <2>2. Sent
    BY <2>1, Zenon DEF SendSlice, SendIndex, Sides
  <2>3. Received
    BY <2>1, Zenon DEF RecvSlice, RecvIndex, Sides
  <2> QED
    BY <2>1, <2>2, <2>3, Zenon
<1> QED
  BY <1>3, <1>4, <1>5, <1>6, <1>7, <1>8, Zenon

\* What is on the wire stays a run of units from the receiver's place to the
\* sender's, and the receiver stays behind.
LEMMA NextWire ==
    ASSUME TypeOK, SendOk, RecvOrder, RecvOk, WireOk, Behind, OwnerOk, [Next]_vars
    PROVE  WireOk' /\ Behind'
<1>0. /\ SendSlice \in Nat /\ SendIndex \in Nat /\ RecvSlice \in Nat /\ RecvIndex \in Nat
      /\ SendSlice' \in Nat /\ SendIndex' \in Nat /\ RecvSlice' \in Nat /\ RecvIndex' \in Nat
      /\ wire \in Seq(Units) /\ read_units \in Seq(Int)
  <2>1. TypeOK'
    BY NextType, Zenon
  <2>2. (/\ Len(read_units) \in Nat /\ step["S"] \in Nat /\ step["R"] \in Nat
         /\ sent_units \in Nat)'
    BY <2>1, LenProperties, Zenon DEF TypeOK, ProxyType, Sides
  <2>3. (/\ SendSlice \in Nat /\ SendIndex \in Nat /\ RecvSlice \in Nat
         /\ RecvIndex \in Nat)'
    BY SMTT(30), <2>2 DEF SendSlice, SendIndex, RecvSlice, RecvIndex
  <2> QED
    BY <2>3, PlaceType, Zenon DEF TypeOK, WireType, ProxyType
<1>1. CASE SendUnit
  <2> DEFINE k == step["S"]
  <2>1. /\ pc["S"] = "transfer" /\ k \in Slices /\ NextUnit \in Units /\ sent_units \in Nat
        /\ SliceBytes[k] \in Nat /\ sent_units <= SliceBytes[k] /\ UNCHANGED <<step, fd>>
    BY <1>1, SendUnitCases, SocketAssumption
  <2>2. UNCHANGED <<RecvSlice, RecvIndex>>
    BY <1>1, SendUnitCases, Zenon DEF RecvSlice, RecvIndex, recvProxy
  <2>3. /\ SendSlice = k /\ SendIndex = sent_units
        /\ NextUnit.slice = k /\ NextUnit.index = sent_units
        /\ NextUnit.word = IF sent_units = 0 THEN SliceBytes[k] ELSE k
    BY <2>1, Zenon DEF SendSlice, SendIndex, NextUnit
  <2>4. CASE /\ \/ fd["R"] # "closed" /\ wire' = Append(wire, NextUnit)
                \/ fd["R"] = "closed" /\ UNCHANGED wire
             /\ sent_units' = sent_units + 1
             /\ pc' = [pc EXCEPT !["S"] = IF sent_units = SliceBytes[k]
                                          THEN "publish" ELSE "transfer"]
    <3>1. pc'["S"] = IF sent_units = SliceBytes[k] THEN "publish" ELSE "transfer"
      BY <2>4, Zenon DEF TypeOK, ProxyType, Sides
    <3>2. Follows(NextUnit, SendSlice', SendIndex')
      BY <2>1, <2>3, <2>4, <3>1 DEF SendSlice, SendIndex, Follows
    <3>3. Before(SendSlice, SendIndex, SendSlice', SendIndex')
      BY <1>0, <2>1, <2>3, <3>2 DEF Follows, Before
    <3>4. Behind'
      BY <1>0, <2>2, <3>3 DEF Behind, Before
    <3>5. WireOk'
      <4>1. CASE fd["R"] = "closed"
        BY ZenonT(40), <2>1, <4>1 DEF WireOk
      <4>2. CASE fd["R"] # "closed"
        <5>1. Run(wire, RecvSlice, RecvIndex, NextUnit.slice, NextUnit.index)
          BY <2>3, <4>2, Zenon DEF WireOk
        <5>2. /\ NextUnit.index <= SliceBytes[NextUnit.slice]
              /\ NextUnit.word = IF NextUnit.index = 0 THEN SliceBytes[NextUnit.slice]
                                 ELSE NextUnit.slice
          BY <2>1, <2>3, Zenon
        <5>3. Run(Append(wire, NextUnit), RecvSlice, RecvIndex, SendSlice', SendIndex')
          BY <1>0, <2>1, <3>2, <5>1, <5>2, RunAppend, Zenon
        <5> QED
          BY ZenonT(40), <2>2, <2>4, <4>2, <5>3 DEF WireOk
      <4> QED
        BY <4>1, <4>2, Zenon
    <3> QED
      BY <3>4, <3>5, Zenon
  <2>5. CASE pc' = [pc EXCEPT !["S"] = "caught"] /\ UNCHANGED <<wire, sent_units>>
    <3>1. pc'["S"] = "caught"
      BY <2>5, Zenon DEF TypeOK, ProxyType, Sides
    <3>2. UNCHANGED <<SendSlice, SendIndex>>
      BY <2>1, <2>5, <3>1, Zenon DEF SendSlice, SendIndex
    <3> QED
      BY ZenonT(40), <2>1, <2>2, <2>5, <3>2 DEF WireOk, Behind
  <2> QED
    BY <1>1, <2>4, <2>5, SendUnitCases, Zenon
<1>2. CASE RecvUnit
  <2> DEFINE k == step["R"]
  <2>1. /\ pc["R"] = "transfer" /\ fd["R"] # "closed" /\ UNCHANGED <<step, fd>>
    BY ZenonT(40), <1>2, RecvUnitCases
  <2>2. UNCHANGED <<SendSlice, SendIndex>>
    BY ZenonT(40), <1>2, RecvUnitCases DEF SendSlice, SendIndex, sendProxy
  <2>3. Run(wire, RecvSlice, RecvIndex, SendSlice, SendIndex)
    BY <2>1, Zenon DEF WireOk
  <2>4. ASSUME wire # <<>>, wire' = Tail(wire), Follows(wire[1], RecvSlice', RecvIndex')
        PROVE  WireOk' /\ Behind'
    <3>1. /\ Run(wire', RecvSlice', RecvIndex', SendSlice, SendIndex)
          /\ ~Before(SendSlice, SendIndex, RecvSlice', RecvIndex')
      BY <1>0, <2>3, <2>4, RunTail, Zenon
    <3> QED
      BY <2>2, <3>1, Zenon DEF WireOk, Behind
  <2>5. ASSUME k \in Slices, wire[1].slice = k,
               want = -1, want' = SliceBytes[k], wire[1].index = 0, UNCHANGED read_units,
               pc' = [pc EXCEPT !["R"] = IF SliceBytes[k] = 0 THEN "publish" ELSE "transfer"]
        PROVE  Follows(wire[1], RecvSlice', RecvIndex')
    <3>1. /\ pc'["R"] = IF SliceBytes[k] = 0 THEN "publish" ELSE "transfer"
          /\ SliceBytes[k] \in Nat
      BY SMTT(30), <2>5, SocketAssumption DEF TypeOK, ProxyType, Sides
    <3>2. Len(read_units') = 0
      <4>1. read_units' = <<>>
        BY Zenon, <2>1, <2>5 DEF RecvOk
      <4> QED
        BY <4>1, EmptySeq, Zenon
    <3> QED
      BY SMTT(30), <2>1, <2>5, <3>1, <3>2 DEF RecvSlice, RecvIndex, Follows
  <2>6. ASSUME k \in Slices, wire[1].slice = k,
               want # -1, UNCHANGED want, wire[1].index = Len(read_units) + 1,
               read_units' = Append(read_units, k),
               pc' = [pc EXCEPT !["R"] = IF Len(read_units) + 1 = want
                                         THEN "publish" ELSE "transfer"]
        PROVE  Follows(wire[1], RecvSlice', RecvIndex')
    <3>1. pc'["R"] = IF Len(read_units) + 1 = want THEN "publish" ELSE "transfer"
      BY <2>6, Zenon DEF TypeOK, ProxyType, Sides
    <3>2. /\ want = SliceBytes[k] /\ Len(read_units) < want /\ Len(read_units) \in Nat
          /\ SliceBytes[k] \in Nat
      BY SMTT(30), <1>0, <2>1, <2>6, SocketAssumption, LenProperties DEF RecvOk
    <3>3. Len(read_units') = Len(read_units) + 1
      BY <1>0, <2>6, AppendProperties, SocketAssumption DEF Slices
    <3> QED
      BY <2>1, <2>6, <3>1, <3>2, <3>3 DEF RecvSlice, RecvIndex, Follows
  <2>7. CASE pc' = [pc EXCEPT !["R"] = "caught"] /\ UNCHANGED <<wire, want, read_units, recv_fifo>>
    <3>1. pc'["R"] = "caught"
      BY <2>7, Zenon DEF TypeOK, ProxyType, Sides
    <3>2. UNCHANGED <<RecvSlice, RecvIndex>>
      BY <2>1, <2>7, <3>1, Zenon DEF RecvSlice, RecvIndex
    <3> QED
      BY <2>1, <2>2, <2>7, <3>2, Zenon DEF WireOk, Behind
  <2> QED
    BY ZenonT(40), <1>2, <2>4, <2>5, <2>6, <2>7, RecvUnitCases
<1>3. ASSUME UNCHANGED <<SendSlice, SendIndex, RecvSlice, RecvIndex, wire>>,
             fd["R"] = "closed" => fd'["R"] = "closed"
      PROVE  WireOk' /\ Behind'
  BY <1>3, Zenon DEF WireOk, Behind
<1> QED
  BY <1>1, <1>2, <1>3, PlacesKept, StepCases, Zenon

-----------------------------------------------------------------------------
(* Failures.                                                                *)

\* Why the proxy of side x leaves send_iov_all or recv_all with an exception.
BreaksOff(x) ==
    \/ fd[x] # "open" \/ broken
    \/ x = "S" /\ fd["R"] = "closed"
    \/ x = "R" /\ fd["S"] # "open"

\* Where a step on the data path can take the two proxies.
Moves(x) ==
    \/ pc'[x] = pc[x]
    \/ pc[x] \in Working /\ pc'[x] \in Working \cup {"exit"}
    \/ pc[x] = "transfer" /\ pc'[x] = "caught" /\ BreaksOff(x)

\* The data path leaves the owners and the error states alone.  A frame always
\* fits its slot, so a proxy fails only when its connection does.
LEMMA DataFrame ==
    ASSUME TypeOK, SendOk, RecvOrder, RecvOk, WireOk, OwnerOk,
           \/ PublishSlice \/ ReadSlice \/ PostRecvCredit
           \/ SendLoop \/ SendUnit \/ SendPublish
           \/ RecvLoop \/ RecvUnit \/ RecvPublish
    PROVE  /\ UNCHANGED <<kernel, fd, errors, environment, owner>>
           /\ \A x \in Sides : Moves(x)
<1> USE DEF TypeOK, ProxyType, Moves, Sides, Working
<1>1. UNCHANGED <<kernel, fd, errors, environment, owner>>
  BY Zenon DEF PublishSlice, ReadSlice, PostRecvCredit, SendLoop, SendUnit, SendPublish,
         RecvLoop, RecvUnit, RecvPublish, kernels
<1>2. CASE PublishSlice \/ ReadSlice \/ PostRecvCredit
  BY ZenonT(40), <1>1, <1>2 DEF PublishSlice, ReadSlice, PostRecvCredit
<1>3. CASE SendLoop
  <2>1. ASSUME send_tail > step["S"]
        PROVE  ~(SliceBytes[send_fifo[Slot(step["S"])]] > slot_bytes)
    <3>1. step["S"] \in Slices /\ step["S"] \in step["S"] .. send_tail - 1
      BY SMTT(30), <2>1, SocketAssumption DEF SendOk, Slices, KernelType
    <3>2. send_fifo[Slot(step["S"])] = step["S"]
      BY <3>1, Zenon DEF SendOk
    <3> QED
      BY <3>1, <3>2, SocketAssumption
  <2>2. pc["S"] = "loop" /\ pc'["S"] \in {"exit", "transfer"} /\ pc'["R"] = pc["R"]
    BY <1>3, <2>1, Zenon DEF SendLoop
  <2> QED
    BY <1>1, <2>2, Zenon
<1>4. CASE SendUnit
  <2>1. /\ pc["S"] = "transfer" /\ pc'["R"] = pc["R"]
        /\ pc'["S"] \in {"publish", "transfer"} \/ (pc'["S"] = "caught" /\ BreaksOff("S"))
    BY <1>4, SendUnitCases, Zenon DEF BreaksOff
  <2> QED
    BY <1>1, <2>1, Zenon
<1>5. CASE RecvUnit
  <2>1. /\ pc["R"] = "transfer" /\ pc'["S"] = pc["S"]
        /\ pc'["R"] \in {"publish", "transfer"} \/ (pc'["R"] = "caught" /\ BreaksOff("R"))
    BY ZenonT(40), <1>5, RecvUnitCases DEF BreaksOff
  <2> QED
    BY <1>1, <2>1, Zenon
<1>6. CASE SendPublish \/ RecvLoop \/ RecvPublish
  BY <1>1, <1>6, Zenon DEF SendPublish, RecvLoop, RecvPublish
<1> QED
  BY <1>2, <1>3, <1>4, <1>5, <1>6, Zenon

\* A finished side stays finished.
LEMMA FinishedStays ==
    ASSUME TypeOK, SendOk, RecvOrder, [Next]_vars, NEW x \in Sides, Finished(x)
    PROVE  Finished(x)'
<1> USE DEF TypeOK, KernelType, ProxyType, kernels
<1>1. CASE PublishSlice \/ ReadSlice
  BY SMTT(30), <1>1, SocketAssumption DEF PublishSlice, ReadSlice, Finished
<1>2. CASE PostRecvCredit
  BY <1>2, SocketAssumption DEF PostRecvCredit, Finished, RecvOrder, Sides
<1>3. CASE Quiet
  BY <1>3, Zenon DEF Quiet, Finished
<1>4. CASE \/ SendLoop \/ SendUnit \/ SendPublish \/ RecvLoop \/ RecvUnit \/ RecvPublish
  BY <1>4, Zenon DEF SendLoop, SendUnit, SendPublish, RecvLoop, RecvUnit, RecvPublish, Finished
<1> QED
  BY <1>1, <1>2, <1>3, <1>4, StepCases, Zenon

\* What one side does to itself leaves the state of the other side alone.
LEMMA OtherSide ==
    ASSUME TypeOK, NEW x \in Sides, NEW y \in Sides, x # y,
           \/ EndKernel(x) \/ Report(x) \/ FailElsewhere(x) \/ OwnerStep(x) \/ Leave(x)
    PROVE  /\ kernel'[y] = kernel[y] /\ pc'[y] = pc[y] /\ elsewhere'[y] = elsewhere[y]
           /\ user'[y] = user[y] /\ fd'[y] = fd[y] /\ result'[y] = result[y]
           /\ abort'[y] = abort[y] /\ has_error'[y] = has_error[y] /\ stop'[y] = stop[y]
<1> USE DEF TypeOK
<1>1. CASE EndKernel(x)
  BY ZenonT(40), <1>1 DEF EndKernel, KernelType, errors, environment, owner
<1>2. CASE Caught(x)
  BY ZenonT(40), <1>2 DEF Caught, ProxyType, kernels, errors, environment, owner
<1>3. CASE RecordFailure(x)
  BY ZenonT(40), <1>3 DEF RecordFailure, ProxyType, ErrorType, kernels, environment, owner
<1>4. CASE SetAbort(x)
  BY ZenonT(40), <1>4 DEF SetAbort, ProxyType, ErrorType, kernels, environment, owner
<1>5. CASE HangUp(x)
  BY ZenonT(40), <1>5 DEF HangUp, ProxyType, WireType, ShutFd, kernels, errors, environment,
     owner
<1>6. CASE FailElsewhere(x)
  BY ZenonT(40), <1>6 DEF FailElsewhere, ErrorType, kernels, owner
<1>7. CASE Synchronize(x)
  BY ZenonT(40), <1>7 DEF Synchronize, OwnerType, Go, kernels, errors, environment
<1>8. CASE Leave(x)
  BY ZenonT(40), <1>8 DEF Leave, OwnerType, Go, kernels, errors, environment
<1>9. CASE ReleaseAndDrain(x)
  BY <1>9, Zenon DEF ReleaseAndDrain, OwnerType, Go, kernels, errors, environment
<1>10. CASE CheckAsyncError(x)
  BY ZenonT(40), <1>10 DEF CheckAsyncError, OwnerType, Go, kernels, errors, environment
<1>11. CASE Destroy(x)
  BY ZenonT(40), <1>11 DEF Destroy, OwnerType, ErrorType, Go, kernels, environment
<1>12. CASE Shutdown(x)
  BY ZenonT(40), <1>12 DEF Shutdown, OwnerType, WireType, ShutFd, Go, kernels, errors,
     environment
<1>13. CASE Join(x)
  BY ZenonT(40), <1>13 DEF Join, OwnerType, WireType, Go, kernels, errors, environment
<1> QED
  BY ZenonT(40), <1>1, <1>2, <1>3, <1>4, <1>5, <1>6, <1>7, <1>8, <1>9, <1>10, <1>11, <1>12,
     <1>13
     DEF Report, OwnerStep

\* What the owners, the kernels and the error states know stays true.
LEMMA NextOwner ==
    ASSUME TypeOK, SendOk, RecvOrder, RecvOk, WireOk, OwnerOk, [Next]_vars
    PROVE  OwnerOk'
<1> SUFFICES ASSUME NEW y \in Sides PROVE Known(y)'
  BY Zenon DEF OwnerOk
<1>1. Known(y) /\ (Finished(y) => Finished(y)')
  BY FinishedStays, Zenon DEF OwnerOk
<1>2. CASE \/ PublishSlice \/ ReadSlice \/ PostRecvCredit
           \/ SendLoop \/ SendUnit \/ SendPublish
           \/ RecvLoop \/ RecvUnit \/ RecvPublish
  <2>1. UNCHANGED <<kernel, fd, errors, environment, owner>> /\ Moves(y)
    BY <1>2, DataFrame, Zenon
  <2> QED
    BY ZenonT(40), <1>1, <2>1 DEF Known, Moves, Working, errors, environment, owner
<1>3. ASSUME NEW x \in Sides, x # y,
             \/ EndKernel(x) \/ Report(x) \/ FailElsewhere(x) \/ OwnerStep(x) \/ Leave(x)
      PROVE  Known(y)'
  BY ZenonT(40), <1>1, <1>3, OtherSide DEF Known
<1>4. CASE EndKernel(y)
  BY ZenonT(40), <1>1, <1>4 DEF EndKernel, Known, errors, environment, owner, TypeOK, KernelType
<1>5. CASE Report(y)
  BY ZenonT(40), <1>1, <1>5 DEF Report, Caught, RecordFailure, SetAbort, HangUp, ShutFd, Known,
     kernels, errors, environment, owner, TypeOK, ProxyType, ErrorType, WireType
<1>6. CASE ResetConnection \/ UNCHANGED vars
  BY ZenonT(40), <1>1, <1>6 DEF ResetConnection, vars, Known, kernels, errors, environment,
     owner
<1>7. CASE FailElsewhere(y)
  BY ZenonT(40), <1>1, <1>7 DEF FailElsewhere, Known, kernels, owner, TypeOK, ErrorType
<1>8. CASE Synchronize(y) \/ Leave(y) \/ ReleaseAndDrain(y)
  BY ZenonT(40), <1>1, <1>8 DEF Synchronize, Leave, ReleaseAndDrain, Go, Known, kernels, errors,
     environment, TypeOK, OwnerType
<1>9. CASE CheckAsyncError(y)
  BY ZenonT(40), <1>1, <1>9 DEF CheckAsyncError, Go, Known, kernels, errors, environment,
     TypeOK, OwnerType, KernelType
<1>10. CASE Destroy(y) \/ Shutdown(y) \/ Join(y)
  BY ZenonT(40), <1>1, <1>10 DEF Destroy, Shutdown, ShutFd, Join, Go, Known, kernels, errors,
     environment,
     TypeOK, OwnerType, ErrorType, WireType
<1> QED
  BY <1>2, <1>3, <1>4, <1>5, <1>6, <1>7, <1>8, <1>9, <1>10, Zenon
     DEF Next, SendKernelStep, RecvKernelStep, SendProxyStep, RecvProxyStep, OwnerStep, Sides

\* Causes do not go away.
LEMMA CauseStays ==
    ASSUME TypeOK, SendOk, RecvOrder, RecvOk, WireOk, OwnerOk, [Next]_vars
    PROVE  /\ faults > 0 => faults' > 0
           /\ \A x \in Sides : /\ stop[x] => stop'[x]
                               /\ Cause(x) => Cause(x)'
<1>1. (faults > 0 => faults' > 0) /\ \A x \in Sides : stop[x] => stop'[x]
  <2>1. CASE \/ PublishSlice \/ ReadSlice \/ PostRecvCredit
             \/ SendLoop \/ SendUnit \/ SendPublish
             \/ RecvLoop \/ RecvUnit \/ RecvPublish
    BY <2>1, DataFrame, Zenon DEF environment, owner
  <2>2. CASE ResetConnection \/ \E x \in Sides : FailElsewhere(x)
    BY <2>2 DEF ResetConnection, FailElsewhere, owner, TypeOK, WireType
  <2>3. ASSUME NEW x \in Sides, EndKernel(x) \/ Report(x)
        PROVE  UNCHANGED <<faults, stop>>
    BY ZenonT(40), <2>3 DEF EndKernel, Report, Caught, RecordFailure, SetAbort, HangUp,
       environment, owner
  <2>4. ASSUME NEW x \in Sides, OwnerStep(x) \/ Leave(x)
        PROVE  UNCHANGED faults /\ \A y \in Sides : stop[y] => stop'[y]
    BY ZenonT(40), <2>4 DEF OwnerStep, Leave, Synchronize, CheckAsyncError, Destroy,
       ReleaseAndDrain,
       Shutdown, Join, environment, TypeOK, OwnerType
  <2>5. CASE UNCHANGED vars
    BY <2>5, Zenon DEF vars, environment, owner
  <2> QED
    BY <2>1, <2>2, <2>3, <2>4, <2>5, Zenon
       DEF Next, SendKernelStep, RecvKernelStep, SendProxyStep, RecvProxyStep, Sides
<1> QED
  BY <1>1, Zenon DEF Cause, Sides

\* A connection breaks off under a proxy because of its own shutdown or of a
\* cause of failure.  In particular the receiver closes its descriptor under a
\* slice that is being sent only after a failure: a receiver that has finished
\* has read all there is to send.
LEMMA BreakHasCause ==
    ASSUME IInv, NEW x \in Sides, pc[x] = "transfer", BreaksOff(x)
    PROVE  stop[x] \/ Cause(x)
<1> USE DEF IInv
<1>1. CASE fd[x] # "open" \/ broken
  BY <1>1, Zenon DEF CauseOk, Explained, Cause
<1>2. CASE x = "R" /\ fd["S"] # "open"
  BY <1>2, Zenon DEF CauseOk, Explained, Cause, Sides
<1>3. CASE x = "S" /\ fd["R"] = "closed"
  <2>1. pc["R"] = "exit" /\ kernel["R"] # "run"
    BY <1>3, Zenon DEF OwnerOk, Known, Sides
  <2>2. CASE kernel["R"] = "aborted"
    <3>1. has_error["R"]
      BY <2>2, Zenon DEF OwnerOk, Known, Sides
    <3>2. Cause("R")
      BY <3>1, Zenon DEF CauseOk, Explained, Sides
    <3> QED
      BY <1>3, <3>2, Zenon DEF Cause
  <2>3. CASE kernel["R"] = "done"
    <3>1. recv_head = TotalSlices
      BY <2>3, Zenon DEF OwnerOk, Known, Finished, Sides
    <3>2. step["R"] = TotalSlices /\ RecvSlice = TotalSlices
      BY SMTT(30), <2>1, <3>1, SocketAssumption
         DEF RecvOrder, RecvSlice, TypeOK, KernelType, ProxyType, Sides
    <3>3. SendSlice < TotalSlices
      BY <1>3, SocketAssumption
         DEF SendOk, SendSlice, TypeOK, KernelType, ProxyType, Sides
    <3> QED
      BY <3>2, <3>3, Zenon DEF Behind, Before
  <2> QED
    BY <2>1, <2>2, <2>3, Zenon DEF TypeOK, KernelType, Sides
<1> QED
  BY <1>1, <1>2, <1>3, Zenon DEF BreaksOff

\* Every failure and every descriptor that is not open keeps its explanation.
LEMMA NextCause ==
    ASSUME IInv, [Next]_vars
    PROVE  CauseOk'
<1> USE DEF IInv
<1>1. /\ faults > 0 => faults' > 0
      /\ \A x \in Sides : (stop[x] => stop'[x]) /\ (Cause(x) => Cause(x)')
  BY CauseStays, Zenon
<1>2. CASE \/ PublishSlice \/ ReadSlice \/ PostRecvCredit
           \/ SendLoop \/ SendUnit \/ SendPublish
           \/ RecvLoop \/ RecvUnit \/ RecvPublish
  <2>1. UNCHANGED <<fd, has_error, broken>> /\ \A x \in Sides : Moves(x)
    BY <1>2, DataFrame, Zenon DEF errors, environment
  <2>2. ASSUME NEW x \in Sides PROVE Explained(x)'
    <3>1. Explained(x) /\ Moves(x)
      BY <2>1, Zenon DEF CauseOk
    <3>2. pc'[x] = "caught" /\ pc[x] # "caught" => stop[x] \/ Cause(x)
      BY ZenonT(40), <3>1, BreakHasCause DEF Moves, Working
    <3> QED
      BY ZenonT(40), <1>1, <2>1, <3>1, <3>2 DEF Explained, Moves, Working
  <2> QED
    BY <1>1, <2>1, <2>2, Zenon DEF CauseOk
<1>3. ASSUME NEW x \in Sides,
             \/ EndKernel(x) \/ Report(x) \/ FailElsewhere(x) \/ OwnerStep(x) \/ Leave(x)
      PROVE  CauseOk'
  <2>1. ASSUME NEW y \in Sides, x # y PROVE Explained(y)'
    <3>1. pc'[y] = pc[y] /\ fd'[y] = fd[y] /\ has_error'[y] = has_error[y]
      BY ZenonT(40), <1>3, <2>1, OtherSide
    <3> QED
      BY ZenonT(40), <1>1, <3>1 DEF CauseOk, Explained
  <2>2. UNCHANGED broken
    BY ZenonT(40), <1>3 DEF EndKernel, Report, Caught, RecordFailure, SetAbort, HangUp,
       FailElsewhere,
       OwnerStep, Leave, Synchronize, CheckAsyncError, Destroy, ReleaseAndDrain, Shutdown,
       Join, environment
  <2>3. Explained(x) /\ Known(x) /\ (stop[x] => stop'[x]) /\ (Cause(x) => Cause(x)')
    BY <1>1, Zenon DEF CauseOk, OwnerOk
  <2>4. Explained(x)'
    <3>1. CASE EndKernel(x)
      BY ZenonT(40), <2>3, <3>1 DEF EndKernel, Explained, errors
    <3>2. CASE Report(x)
      <4>1. CASE Caught(x)
        BY <2>3, <4>1, Zenon DEF Caught, Explained, errors, owner, TypeOK, ProxyType
      <4>2. CASE RecordFailure(x)
        BY <2>3, <4>2, Zenon DEF RecordFailure, Explained, TypeOK, ProxyType, ErrorType
      <4>3. CASE SetAbort(x)
        BY <2>3, <4>3, Zenon DEF SetAbort, Explained, TypeOK, ProxyType
      <4>4. CASE HangUp(x)
        BY <2>3, <4>4, Zenon DEF HangUp, Explained, errors, TypeOK, ProxyType
      <4> QED
        BY <3>2, <4>1, <4>2, <4>3, <4>4, Zenon DEF Report
    <3>3. CASE FailElsewhere(x)
      <4>1. UNCHANGED <<pc, fd>>
        BY ZenonT(40), <3>3 DEF FailElsewhere
      <4>2. faults' > 0 \/ UNCHANGED has_error
        <5>1. faults' = faults + 1 \/ UNCHANGED has_error
          BY ZenonT(40), <3>3 DEF FailElsewhere
        <5> QED
          BY <5>1 DEF TypeOK, WireType
      <4> QED
        BY <2>3, <4>1, <4>2, Zenon DEF Explained, Cause
    <3>4. CASE \/ Synchronize(x) \/ Leave(x) \/ ReleaseAndDrain(x) \/ CheckAsyncError(x)
               \/ Destroy(x)
      BY ZenonT(40), <2>3, <3>4 DEF Synchronize, Leave, ReleaseAndDrain, CheckAsyncError,
         Destroy,
         Explained, errors
    <3>5. CASE Shutdown(x) \/ Join(x)
      <4>1. UNCHANGED <<pc, has_error>> /\ (fd'[x] = fd[x] \/ stop[x])
        BY ZenonT(40), <2>3, <3>5 DEF Shutdown, Join, Known, errors
      <4> QED
        BY ZenonT(40), <2>3, <4>1 DEF Explained
    <3> QED
      BY <1>3, <3>1, <3>2, <3>3, <3>4, <3>5, Zenon DEF OwnerStep
  <2> QED
    BY <1>1, <2>1, <2>2, <2>4, Zenon DEF CauseOk
<1>4. CASE ResetConnection
  <2>1. UNCHANGED <<pc, fd, has_error>> /\ faults' > 0
    BY SMTT(30), <1>4 DEF ResetConnection, errors, TypeOK, WireType
  <2> QED
    BY <2>1, Zenon DEF CauseOk, Explained, Cause
<1>5. CASE UNCHANGED vars
  BY <1>5, Zenon DEF vars, errors, environment, owner, CauseOk, Explained, Cause
<1> QED
  BY <1>2, <1>3, <1>4, <1>5, Zenon
     DEF Next, SendKernelStep, RecvKernelStep, SendProxyStep, RecvProxyStep, Sides

-----------------------------------------------------------------------------
(* The theorems.                                                            *)

\* The invariant holds before the collective starts.
LEMMA InitInv == Init => IInv
<1> SUFFICES ASSUME Init PROVE IInv
  OBVIOUS
<1>1. TypeOK
  BY InitType, Zenon
<1>2. SendOk
  BY SocketAssumption DEF Init, SendOk, Sides
<1>3. RecvOrder
  BY SMTT(30), SocketAssumption DEF Init, RecvOrder, Sides
<1>4. RecvOk
  BY SMTT(30) DEF Init, RecvOk, Sides
<1>5. SendSlice = 0 /\ SendIndex = 0 /\ RecvSlice = 0 /\ RecvIndex = 0 /\ Len(wire) = 0
  BY EmptySeq, Zenon DEF Init, SendSlice, SendIndex, RecvSlice, RecvIndex, Sides
<1>6. WireOk
  BY <1>5 DEF Init, WireOk, Run
<1>7. Behind
  BY SMTT(30), <1>5 DEF Behind, Before
<1>8. OwnerOk
  BY Zenon DEF Init, OwnerOk, Known
<1>9. CauseOk
  BY Zenon DEF Init, CauseOk, Explained
<1> QED
  BY <1>1, <1>2, <1>3, <1>4, <1>6, <1>7, <1>8, <1>9, Zenon DEF IInv

\* The invariant holds always, for every schedule, fault and teardown.
THEOREM Invariance == Spec => []IInv
<1>1. IInv /\ [Next]_vars => IInv'
  BY NextType, NextSendOk, NextRecvOrder, NextRecvOk, NextWire, NextOwner, NextCause, Zenon DEF IInv
<1> QED
  BY InitInv, <1>1, PTL DEF Spec

\* A slot is not written while its slice is needed, on either side of the edge.
THEOREM SlotsAreStable == Spec => []SlotsStable
<1>1. IInv => SlotsStable
  <2> SUFFICES ASSUME IInv PROVE SlotsStable
    BY Zenon
  <2>1. \A k \in step["S"] .. send_tail - 1 : send_fifo[Slot(k)] = k
    BY Zenon DEF IInv, SendOk
  <2>2. ASSUME NEW k \in recv_step .. recv_tail - 1, SliceBytes[k] > 0
        PROVE  Content(recv_fifo[Slot(k)], SliceBytes[k]) = k
    <3>1. k \in Slices /\ SliceBytes[k] \in Nat
      BY SocketAssumption DEF IInv, RecvOrder, Slices, TypeOK, KernelType, ProxyType, Sides
    <3>2. Holds(recv_fifo[Slot(k)], k)
      BY Zenon DEF IInv, RecvOk
    <3> QED
      BY <2>2, <3>1, <3>2 DEF Holds, Content
  <2> QED
    BY <2>1, <2>2, Zenon DEF SlotsStable
<1> QED
  BY Invariance, <1>1, PTL

\* A process whose check_async_error returns after its stream is synchronized
\* has a finished collective.
THEOREM CheckedMeansFinished == Spec => []SuccessMeansDone
<1>1. IInv => SuccessMeansDone
  BY Zenon DEF IInv, OwnerOk, Known, SuccessMeansDone
<1> QED
  BY Invariance, <1>1, PTL

\* A process reports an error only after a fault, or at the receiver after the
\* teardown of the sender.
THEOREM FailuresHaveCauses == Spec => []FailureHasCause
<1>1. IInv => FailureHasCause
  BY Zenon DEF IInv, CauseOk, Explained, Cause, FailureHasCause, Sides
<1> QED
  BY Invariance, <1>1, PTL

\* The edge implements a lossless in-order FIFO of slices, whatever breaks.
THEOREM EdgeImplementsFifo == Spec => EdgeIsFifo
<1>1. Init => Edge!Init
  BY Zenon DEF Init, Edge!Init
<1>2. IInv /\ [Next]_vars => [Edge!Next]_Edge!vars
  <2> SUFFICES ASSUME IInv, [Next]_vars PROVE [Edge!Next]_Edge!vars
    BY Zenon
  <2> USE DEF IInv
  <2>1. CASE PublishSlice
    BY <2>1, Zenon DEF PublishSlice, Edge!Next, Edge!Send
  <2>2. CASE ReadSlice
    <3>1. /\ recv_step \in Slices /\ recv_step \in recv_step .. recv_tail - 1
          /\ SliceBytes[recv_step] \in Nat /\ recv_step < step["R"]
      BY <2>2, SocketAssumption
         DEF ReadSlice, RecvOrder, Slices, TypeOK, KernelType, ProxyType, Sides
    <3>2. recv_step < send_tail
      <4>1. /\ step["S"] \in Nat /\ step["R"] \in Nat /\ send_tail \in Nat
            /\ RecvSlice <= SendSlice
        BY PlaceType DEF TypeOK, KernelType, ProxyType, Sides, Behind, Before
      <4>2. step["R"] <= RecvSlice
        BY <4>1 DEF RecvSlice
      <4>3. SendSlice <= send_tail
        BY SMTT(30), <4>1 DEF SendSlice, SendOk
      <4> QED
        BY <3>1, <4>1, <4>2, <4>3, PlaceType
    <3>3. SliceBytes[recv_step] > 0 =>
              Content(recv_fifo[Slot(recv_step)], SliceBytes[recv_step]) = recv_step
      <4>1. Holds(recv_fifo[Slot(recv_step)], recv_step)
        BY <3>1, Zenon DEF RecvOk
      <4> QED
        BY <3>1, <4>1 DEF Holds, Content
    <3>4. got' = IF SliceBytes[recv_step] = 0 THEN got ELSE recv_step
      BY <2>2, <3>1, <3>3 DEF ReadSlice
    <3> QED
      BY <2>2, <3>2, <3>4, Zenon DEF ReadSlice, Edge!Next, Edge!Take
  <2>3. ASSUME UNCHANGED <<send_tail, recv_step, got>> PROVE [Edge!Next]_Edge!vars
    BY <2>3, Zenon DEF Edge!vars
  <2>4. CASE \/ PostRecvCredit \/ SendLoop \/ SendUnit \/ SendPublish
             \/ RecvLoop \/ RecvUnit \/ RecvPublish \/ Quiet
    BY <2>3, <2>4, Zenon DEF PostRecvCredit, SendLoop, SendUnit, SendPublish, RecvLoop, RecvUnit,
       RecvPublish, Quiet, kernels
  <2> QED
    BY <2>1, <2>2, <2>4, StepCases, Zenon
<1> QED
  BY Invariance, <1>1, <1>2, PTL DEF Spec, EdgeIsFifo, Edge!Spec
=============================================================================
