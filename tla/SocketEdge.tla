----------------------------- MODULE SocketEdge -----------------------------
(***************************************************************************)
(* One directed ring edge over TCP, from the collective kernel of the      *)
(* sending process "S" to that of the receiving process "R": the two proxy *)
(* threads, the connection between them, the error state each process      *)
(* shares between its proxies, and the thread that owns the communicator,  *)
(* which waits for its collective, asks for errors and destroys the        *)
(* communicator.                                                           *)
(*                                                                         *)
(* Counters are in slices.  The connection carries units: the header of a  *)
(* slice, which holds its size, and SliceBytes[k] units of payload.  The   *)
(* word of a unit is what the receiver reads; its slice and index only say *)
(* where in the stream it belongs.                                         *)
(***************************************************************************)
EXTENDS Integers, Sequences

CONSTANTS slot_count,     \* FIFO slots on either side
          SliceBytes,     \* payload size of every slice, 0 for an empty one
          slot_bytes,     \* capacity of a slot
          TotalSlices,    \* bound: slices of the collective
          WireCap,        \* bound: units the two socket buffers hold
          MaxFaults       \* bound: faults of the environment

Slices == 0 .. TotalSlices - 1
Slots == 0 .. slot_count - 1
Slot(k) == k % slot_count
Sides == {"S", "R"}

ASSUME SocketAssumption ==
    /\ slot_count \in Nat \ {0} /\ slot_bytes \in Nat /\ TotalSlices \in Nat
    /\ SliceBytes \in [Slices -> 0 .. slot_bytes]
    /\ WireCap \in Nat \ {0} /\ MaxFaults \in Nat

VARIABLES
    \* the kernels: "run", "done" or "aborted"; what they store and read
    kernel, send_tail, send_fifo, recv_step, recv_head, got,
    \* the proxy threads: where they are in run(), their step, the units of the
    \* slice in hand, and what they publish
    pc, step, sent_units, want, read_units, send_head, recv_tail, recv_fifo,
    \* the connection: units on their way, each side's descriptor, a reset
    wire, fd, broken,
    \* SocketAsyncErrorState of each process; another proxy of the process
    \* that records a failure; faults so far
    has_error, abort, elsewhere, faults,
    \* the owner of the communicator: where it is, what check_async_error
    \* told it, stop_requested_ of its proxies
    user, result, stop

kernels == <<kernel, send_tail, send_fifo, recv_step, recv_head, got>>
sendProxy == <<sent_units, send_head>>
recvProxy == <<want, read_units, recv_tail, recv_fifo>>
errors == <<has_error, abort>>
environment == <<broken, elsewhere, faults>>
owner == <<user, result, stop>>
vars == <<kernels, pc, step, sendProxy, recvProxy, wire, fd, errors, environment, owner>>

Init ==
    /\ kernel = [x \in Sides |-> "run"]
    /\ send_tail = 0 /\ send_fifo = [s \in Slots |-> -1]
    /\ recv_step = 0 /\ recv_head = 0 /\ got = -1
    /\ pc = [x \in Sides |-> "loop"] /\ step = [x \in Sides |-> 0]
    /\ sent_units = 0 /\ send_head = 0
    /\ want = 0 /\ read_units = <<>> /\ recv_tail = 0 /\ recv_fifo = [s \in Slots |-> <<>>]
    /\ wire = <<>> /\ fd = [x \in Sides |-> "open"] /\ broken = FALSE
    /\ has_error = [x \in Sides |-> FALSE] /\ abort = [x \in Sides |-> FALSE]
    /\ elsewhere = [x \in Sides |-> "ok"] /\ faults = 0
    /\ user = [x \in Sides |-> "sync"] /\ result = [x \in Sides |-> "none"]
    /\ stop = [x \in Sides |-> FALSE]

-----------------------------------------------------------------------------
(* The kernels.  A wait looks at the abort flag before it looks for credit  *)
(* or data, and returns false when it is set.                               *)

\* A slice of direct_send.
PublishSlice ==
    /\ kernel["S"] = "run" /\ ~abort["S"] /\ send_tail < TotalSlices
    /\ send_head + slot_count >= send_tail + 1
    /\ send_fifo' = [send_fifo EXCEPT ![Slot(send_tail)] = send_tail]
    /\ send_tail' = send_tail + 1
    /\ UNCHANGED <<kernel, recv_step, recv_head, got>>
    /\ UNCHANGED <<pc, step, sendProxy, recvProxy, wire, fd, errors, environment, owner>>

\* The slice of n units that a slot holds, -2 when its units do not match.
Content(units, n) ==
    IF Len(units) = n /\ \A i \in 1 .. n : units[i] = units[1] THEN units[1] ELSE -2

\* A slice of direct_recv: the slot is read, then its credit is returned.
ReadSlice ==
    /\ kernel["R"] = "run" /\ ~abort["R"] /\ recv_step < TotalSlices
    /\ recv_head = recv_step /\ recv_tail >= recv_step + 1
    /\ got' = IF SliceBytes[recv_step] = 0 THEN got
              ELSE Content(recv_fifo[Slot(recv_step)], SliceBytes[recv_step])
    /\ recv_step' = recv_step + 1
    /\ UNCHANGED <<kernel, send_tail, send_fifo, recv_head>>
    /\ UNCHANGED <<pc, step, sendProxy, recvProxy, wire, fd, errors, environment, owner>>

PostRecvCredit ==
    /\ recv_head # recv_step
    /\ recv_head' = recv_step
    /\ UNCHANGED <<kernel, send_tail, send_fifo, recv_step, got>>
    /\ UNCHANGED <<pc, step, sendProxy, recvProxy, wire, fd, errors, environment, owner>>

Finished(x) == IF x = "S" THEN send_tail = TotalSlices ELSE recv_head = TotalSlices

\* Mutant: a kernel that found the abort flag set spins on.
EndKernelDone(x) ==
    /\ kernel[x] = "run" /\ Finished(x)
    /\ kernel' = [kernel EXCEPT ![x] = "done"]
    /\ UNCHANGED <<send_tail, send_fifo, recv_step, recv_head, got>>
    /\ UNCHANGED <<pc, step, sendProxy, recvProxy, wire, fd, errors, environment, owner>>

EndKernel(x) ==
    /\ kernel[x] = "run"
    /\ \/ Finished(x) /\ kernel' = [kernel EXCEPT ![x] = "done"]
       \/ ~Finished(x) /\ abort[x] /\ kernel' = [kernel EXCEPT ![x] = "aborted"]
    /\ UNCHANGED <<send_tail, send_fifo, recv_step, recv_head, got>>
    /\ UNCHANGED <<pc, step, sendProxy, recvProxy, wire, fd, errors, environment, owner>>

-----------------------------------------------------------------------------
(* SocketSendProxy::run.                                                    *)

LoopAgain(x) == ~stop[x] /\ ~has_error[x]

\* The head of the loop, up to the call of send_slice.
SendLoop ==
    /\ pc["S"] = "loop"
    /\ IF ~LoopAgain("S") THEN pc' = [pc EXCEPT !["S"] = "exit"]
       ELSE /\ send_tail > step["S"]
            /\ pc' = [pc EXCEPT !["S"] =
                        IF SliceBytes[send_fifo[Slot(step["S"])]] > slot_bytes
                        THEN "caught" ELSE "transfer"]
    /\ sent_units' = 0
    /\ UNCHANGED <<kernels, step, send_head, recvProxy, wire, fd, errors, environment, owner>>

\* send_iov_all: the next unit, the header first.  A peer that closed its end
\* may be noticed or not.
SendUnit ==
    /\ pc["S"] = "transfer"
    /\ LET slice == send_fifo[Slot(step["S"])]
           unit == [slice |-> slice, index |-> sent_units,
                    word |-> IF sent_units = 0 THEN SliceBytes[slice] ELSE slice]
       IN  \/ /\ fd["S"] = "open" /\ ~broken
              /\ \/ fd["R"] # "closed" /\ Len(wire) < WireCap /\ wire' = Append(wire, unit)
                 \/ fd["R"] = "closed" /\ UNCHANGED wire
              /\ sent_units' = sent_units + 1
              /\ pc' = [pc EXCEPT !["S"] =
                          IF sent_units = SliceBytes[slice] THEN "publish" ELSE @]
           \/ /\ fd["S"] # "open" \/ fd["R"] = "closed" \/ broken
              /\ pc' = [pc EXCEPT !["S"] = "caught"]
              /\ UNCHANGED <<wire, sent_units>>
    /\ UNCHANGED <<kernels, step, send_head, recvProxy, fd, errors, environment, owner>>

\* send_head and step_.
SendPublish ==
    /\ pc["S"] = "publish"
    /\ send_head' = step["S"] + 1
    /\ step' = [step EXCEPT !["S"] = @ + 1]
    /\ pc' = [pc EXCEPT !["S"] = "loop"]
    /\ UNCHANGED <<kernels, sent_units, recvProxy, wire, fd, errors, environment, owner>>

-----------------------------------------------------------------------------
(* SocketRecvProxy::run.                                                    *)

\* Mutant: a slot is used one slice before it is free.
RecvCreditOffByOne == recv_head + slot_count >= step["R"]

RecvCredit == recv_head + slot_count >= step["R"] + 1

RecvLoop ==
    /\ pc["R"] = "loop"
    /\ IF ~LoopAgain("R") THEN pc' = [pc EXCEPT !["R"] = "exit"]
       ELSE RecvCredit /\ pc' = [pc EXCEPT !["R"] = "transfer"]
    /\ want' = -1 /\ read_units' = <<>>
    /\ UNCHANGED <<kernels, step, sendProxy, recv_tail, recv_fifo, wire, fd, errors,
                   environment, owner>>

\* Mutant: a header is taken without a look at its size.
RecvUnitUnframed ==
    /\ pc["R"] = "transfer" /\ wire # <<>>
    /\ want' = 1 /\ read_units' = Append(read_units, Head(wire).word)
    /\ recv_fifo' = [recv_fifo EXCEPT ![Slot(step["R"])] = read_units']
    /\ wire' = Tail(wire)
    /\ pc' = [pc EXCEPT !["R"] = IF Len(read_units) = 1 THEN "publish" ELSE @]
    /\ UNCHANGED <<kernels, step, sendProxy, recv_tail, fd, errors, environment, owner>>

\* recv_slice: the header gives the size, the payload goes straight to the
\* slot.  recv returns 0 at the end of the stream, when the peer or this
\* process has shut the connection down.
RecvUnit ==
    /\ pc["R"] = "transfer"
    /\ \/ /\ wire # <<>>
          /\ wire' = Tail(wire)
          /\ IF want = -1
             THEN /\ want' = Head(wire).word
                  /\ pc' = [pc EXCEPT !["R"] = CASE want' > slot_bytes -> "caught"
                                                 [] want' = 0 -> "publish"
                                                 [] OTHER -> @]
                  /\ UNCHANGED <<read_units, recv_fifo>>
             ELSE /\ read_units' = Append(read_units, Head(wire).word)
                  /\ recv_fifo' = [recv_fifo EXCEPT ![Slot(step["R"])] = read_units']
                  /\ pc' = [pc EXCEPT !["R"] = IF Len(read_units') = want THEN "publish" ELSE @]
                  /\ UNCHANGED want
       \/ /\ (wire = <<>> /\ fd["S"] # "open") \/ fd["R"] # "open" \/ broken
          /\ pc' = [pc EXCEPT !["R"] = "caught"]
          /\ UNCHANGED <<wire, want, read_units, recv_fifo>>
    /\ UNCHANGED <<kernels, step, sendProxy, recv_tail, fd, errors, environment, owner>>

\* The slot's size, recv_tail and step_.
RecvPublish ==
    /\ pc["R"] = "publish"
    /\ recv_tail' = step["R"] + 1
    /\ step' = [step EXCEPT !["R"] = @ + 1]
    /\ pc' = [pc EXCEPT !["R"] = "loop"]
    /\ UNCHANGED <<kernels, sendProxy, want, read_units, recv_fifo, wire, fd, errors,
                   environment, owner>>

-----------------------------------------------------------------------------
(* The catch clause of either proxy, and record_failure.                    *)

\* Mutant: a stop that is under way is reported as a failure.
CaughtAlways(x) ==
    /\ pc[x] = "caught"
    /\ pc' = [pc EXCEPT ![x] = "record"]
    /\ UNCHANGED <<kernels, step, sendProxy, recvProxy, wire, fd, errors, environment, owner>>

Caught(x) ==
    /\ pc[x] = "caught"
    /\ pc' = [pc EXCEPT ![x] = IF stop[x] THEN "hang_up" ELSE "record"]
    /\ UNCHANGED <<kernels, step, sendProxy, recvProxy, wire, fd, errors, environment, owner>>

\* The exchange of has_error_: only the first failure goes on to the message
\* and the abort flag.
RecordFailure(x) ==
    /\ pc[x] = "record"
    /\ has_error' = [has_error EXCEPT ![x] = TRUE]
    /\ pc' = [pc EXCEPT ![x] = IF has_error[x] THEN "hang_up" ELSE "abort"]
    /\ UNCHANGED <<kernels, step, sendProxy, recvProxy, wire, fd, abort, environment, owner>>

SetAbort(x) ==
    /\ pc[x] = "abort"
    /\ abort' = [abort EXCEPT ![x] = TRUE]
    /\ pc' = [pc EXCEPT ![x] = "hang_up"]
    /\ UNCHANGED <<kernels, step, sendProxy, recvProxy, wire, fd, has_error, environment, owner>>

ShutFd(x) == fd' = [fd EXCEPT ![x] = IF @ = "open" THEN "shut" ELSE @]

HangUp(x) ==
    /\ pc[x] = "hang_up"
    /\ ShutFd(x)
    /\ pc' = [pc EXCEPT ![x] = "exit"]
    /\ UNCHANGED <<kernels, step, sendProxy, recvProxy, wire, errors, environment, owner>>

-----------------------------------------------------------------------------
(* The environment: the connection is reset; another proxy of the process   *)
(* fails and shares its error state with this one.                          *)

ResetConnection ==
    /\ faults < MaxFaults /\ ~broken
    /\ faults' = faults + 1 /\ broken' = TRUE
    /\ UNCHANGED <<kernels, pc, step, sendProxy, recvProxy, wire, fd, errors, elsewhere, owner>>

\* Mutant: the abort flag comes first and has_error_ after it.
FailElsewhereAbortFirst(x) ==
    /\ \/ /\ elsewhere[x] = "ok" /\ faults < MaxFaults /\ ~stop[x]
          /\ faults' = faults + 1
          /\ elsewhere' = [elsewhere EXCEPT ![x] = "recording"]
          /\ abort' = [abort EXCEPT ![x] = TRUE]
          /\ UNCHANGED has_error
       \/ /\ elsewhere[x] = "recording"
          /\ elsewhere' = [elsewhere EXCEPT ![x] = "recorded"]
          /\ has_error' = [has_error EXCEPT ![x] = TRUE]
          /\ UNCHANGED <<faults, abort>>
    /\ UNCHANGED <<kernels, pc, step, sendProxy, recvProxy, wire, fd, broken, owner>>

FailElsewhere(x) ==
    /\ \/ /\ elsewhere[x] = "ok" /\ faults < MaxFaults /\ ~stop[x]
          /\ faults' = faults + 1
          /\ elsewhere' = [elsewhere EXCEPT ![x] = IF has_error[x] THEN "recorded" ELSE "recording"]
          /\ has_error' = [has_error EXCEPT ![x] = TRUE]
          /\ UNCHANGED abort
       \/ /\ elsewhere[x] = "recording"
          /\ elsewhere' = [elsewhere EXCEPT ![x] = "recorded"]
          /\ abort' = [abort EXCEPT ![x] = TRUE]
          /\ UNCHANGED <<faults, has_error>>
    /\ UNCHANGED <<kernels, pc, step, sendProxy, recvProxy, wire, fd, broken, owner>>

-----------------------------------------------------------------------------
(* The owner of the communicator.  It may wait for the collective and ask   *)
(* for errors, or destroy the communicator with the collective in flight.   *)

Go(x, next) == user' = [user EXCEPT ![x] = next]

\* cudaStreamSynchronize
Synchronize(x) ==
    /\ user[x] = "sync" /\ kernel[x] # "run" /\ Go(x, "check")
    /\ UNCHANGED <<kernels, pc, step, sendProxy, recvProxy, wire, fd, errors, environment,
                   result, stop>>

\* check_async_error; a throw unwinds into the destructor.
CheckAsyncError(x) ==
    /\ user[x] = "check" /\ Go(x, "destroy")
    /\ result' = [result EXCEPT ![x] = IF has_error[x] THEN "threw" ELSE "ok"]
    /\ UNCHANGED <<kernels, pc, step, sendProxy, recvProxy, wire, fd, errors, environment, stop>>

Leave(x) ==
    /\ user[x] = "sync" /\ Go(x, "destroy")
    /\ UNCHANGED <<kernels, pc, step, sendProxy, recvProxy, wire, fd, errors, environment,
                   result, stop>>

\* ~Impl: the abort flag of an error that is already known.
Destroy(x) ==
    /\ user[x] = "destroy" /\ Go(x, "release")
    /\ abort' = [abort EXCEPT ![x] = @ \/ has_error[x]]
    /\ UNCHANGED <<kernels, pc, step, sendProxy, recvProxy, wire, fd, has_error, environment,
                   result, stop>>

\* ~Impl: release_lifetime_tracking waits for the kernel, drain for the proxy.
ReleaseAndDrain(x) ==
    /\ \/ user[x] = "release" /\ kernel[x] # "run" /\ Go(x, "drain")
       \/ /\ user[x] = "drain" /\ Go(x, "shutdown")
          /\ \/ has_error[x]
             \/ IF x = "S" THEN send_head >= send_tail ELSE recv_tail >= recv_head
    /\ UNCHANGED <<kernels, pc, step, sendProxy, recvProxy, wire, fd, errors, environment,
                   result, stop>>

\* ~Impl: shutdown of the proxy, stop_requested_ first.
Shutdown(x) ==
    /\ \/ /\ user[x] = "shutdown" /\ Go(x, "shutdown_fd")
          /\ stop' = [stop EXCEPT ![x] = TRUE]
          /\ UNCHANGED fd
       \/ user[x] = "shutdown_fd" /\ Go(x, "join") /\ ShutFd(x) /\ UNCHANGED stop
    /\ UNCHANGED <<kernels, pc, step, sendProxy, recvProxy, wire, errors, environment, result>>

\* ~Impl: join, then the members; the proxy closes its descriptor.
Join(x) ==
    /\ user[x] = "join" /\ Go(x, "gone")
    /\ pc[x] = "exit" /\ elsewhere[x] # "recording"
    /\ fd' = [fd EXCEPT ![x] = "closed"]
    /\ UNCHANGED <<kernels, pc, step, sendProxy, recvProxy, wire, errors, environment,
                   result, stop>>

-----------------------------------------------------------------------------
SendKernelStep == PublishSlice \/ EndKernel("S")
RecvKernelStep == ReadSlice \/ PostRecvCredit \/ EndKernel("R")
Report(x) == Caught(x) \/ RecordFailure(x) \/ SetAbort(x) \/ HangUp(x)
SendProxyStep == SendLoop \/ SendUnit \/ SendPublish \/ Report("S")
RecvProxyStep == RecvLoop \/ RecvUnit \/ RecvPublish \/ Report("R")
OwnerStep(x) == \/ Synchronize(x) \/ CheckAsyncError(x) \/ Destroy(x)
                \/ ReleaseAndDrain(x) \/ Shutdown(x) \/ Join(x)

Next == \/ SendKernelStep \/ RecvKernelStep \/ SendProxyStep \/ RecvProxyStep
        \/ ResetConnection
        \/ \E x \in Sides : FailElsewhere(x) \/ OwnerStep(x) \/ Leave(x)

Spec == Init /\ [][Next]_vars

\* The kernels are resident, the threads are scheduled, and a proxy that began
\* to record a failure goes on.
FairSpec == /\ Spec
            /\ WF_vars(SendKernelStep) /\ WF_vars(RecvKernelStep)
            /\ WF_vars(SendProxyStep) /\ WF_vars(RecvProxyStep)
            /\ \A x \in Sides : /\ WF_vars(OwnerStep(x))
                                /\ WF_vars(FailElsewhere(x) /\ elsewhere[x] = "recording")

-----------------------------------------------------------------------------
(* Properties.                                                              *)

\* A slot is not written while its slice is needed: on the sending side until
\* every unit of the slice is in the socket, on the receiving side until the
\* kernel has read it, faults and teardown included.
SlotsStable ==
    /\ \A k \in step["S"] .. send_tail - 1 :
            pc["S"] # "publish" \/ k > step["S"] => send_fifo[Slot(k)] = k
    /\ \A k \in recv_step .. recv_tail - 1 :
            SliceBytes[k] > 0 => Content(recv_fifo[Slot(k)], SliceBytes[k]) = k

\* The edge is a lossless in-order FIFO of slices: what the proxies make of the
\* byte stream is what the kernel published, also when the stream breaks off
\* in the middle of a slice.
Edge == INSTANCE SliceFifo WITH sent <- send_tail, taken <- recv_step, value <- got
EdgeIsFifo == Edge!Spec

\* A process that synchronizes its stream and then gets no error from
\* check_async_error has a finished collective: an aborted kernel is always
\* reported, whoever records the failure.
SuccessMeansDone == \A x \in Sides : result[x] = "ok" => kernel[x] = "done"

\* An error has a cause: a fault, or, on the receiving side, the teardown of
\* the sending one.  The orderly teardown of the receiver, which has all its
\* slices, is no error at the sender, and no process reports its own teardown.
FailureHasCause ==
    /\ has_error["S"] => faults > 0
    /\ has_error["R"] => faults > 0 \/ stop["S"]

\* Every owner gets to the end of the destructor, whatever fails: no kernel
\* waits for a slice or a credit that will not come, no drain for a proxy that
\* has left, no join for a proxy that is blocked in the socket.
EveryoneReturns == <>(\A x \in Sides : user[x] = "gone")

\* What the example of the README does on every rank (create, all_reduce,
\* synchronize, check, destroy) succeeds on every rank if nothing fails.
ExampleSucceeds ==
    /\ faults = 0
    /\ \A x \in Sides : user[x] \in {"sync", "check"} \/ result[x] # "none"
    => \A x \in Sides : result[x] # "threw"
=============================================================================
