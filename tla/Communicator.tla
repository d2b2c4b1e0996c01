---------------------------- MODULE Communicator ----------------------------
(***************************************************************************)
(* The life of one communicator on RDMA edges, seen from its process: the  *)
(* thread that calls collectives on CUDA streams, asks for errors and      *)
(* destroys the communicator; the streams and the kernels they run; the    *)
(* progress thread or threads behind the edges; the error state they all   *)
(* share.                                                                  *)
(*                                                                         *)
(* What the edges do in detail is RdmaEdge's subject.  Here the outgoing   *)
(* edge has one slot.  The kernel publishes a slice in it, a progress      *)
(* thread posts a send of the slot, the NIC reads the slot when it carries *)
(* the send out, and the completion, once polled, gives the kernel the     *)
(* slot back.                                                              *)
(***************************************************************************)
EXTENDS KernelWait, Sequences, FiniteSets

CONSTANTS Streams,    \* the caller's streams
          DTypes,     \* element types
          Program,    \* the slices of a kernel: the threads that wait for each
          MaxCalls,   \* bound: collective calls
          MaxFaults   \* bound: faults (CUDA calls and transport)

Calls == 1 .. MaxCalls

ASSUME CommunicatorAssumption ==
    /\ MaxCalls \in Nat /\ MaxFaults \in Nat
    /\ Program \in Seq((SUBSET Threads) \ {{}}) /\ Program # <<>>

VARIABLES
    \* the caller: where it is, the stream it synchronized
    user, synced,
    \* members of Impl
    slot_elems, has_launch, has_untracked_launch, fallback_stream,
    fallback_in_flight, completion_recorded,
    \* CUDA: the work of each stream, records of the completion event so far
    \* and the ones that happened, and every call's kernel
    queue, records, happened, kernel, stream_of,
    \* the running kernel: its slice, the incoming slice, and what it did
    slice, arrived, unwarranted,
    \* the outgoing edge: slices published and not posted, the send that the
    \* NIC has, what the slot holds
    unsent, nic, slot,
    \* progress threads, stop flags, has_error_, faults
    shared_progress, tpc, stop, has_error, faults

caller == <<user, synced>>
tracking == <<slot_elems, has_launch, has_untracked_launch, fallback_stream,
              fallback_in_flight, completion_recorded>>
cuda == <<queue, records, happened, kernel, stream_of>>
waiting == <<wait_status, wpc>>
block == <<slice, arrived, unwarranted>>
edge == <<unsent, nic, slot>>
progress == <<shared_progress, tpc, stop>>
vars == <<caller, tracking, cuda, waiting, block, edge, progress, abort, has_error, faults>>

\* The value of a stream variable that means nothing yet.
AnyStream == CHOOSE s \in Streams : TRUE

ProgressThreads == IF shared_progress THEN {"engine"} ELSE {"send", "recv"}

Init ==
    /\ user = "idle" /\ synced = AnyStream
    /\ slot_elems = [d \in DTypes |-> 0]
    /\ has_launch = FALSE /\ has_untracked_launch = FALSE
    /\ fallback_stream = AnyStream
    /\ fallback_in_flight = FALSE /\ completion_recorded = FALSE
    /\ queue = [s \in Streams |-> <<>>] /\ records = 0 /\ happened = {}
    /\ kernel = [i \in Calls |-> "none"]
    /\ stream_of = [i \in Calls |-> AnyStream]
    /\ wait_status = 1 /\ wpc = [t \in Threads |-> "done"]
    /\ slice = 0 /\ arrived = FALSE /\ unwarranted = 0
    /\ unsent = 0 /\ nic = "idle" /\ slot = "slice"
    /\ shared_progress \in BOOLEAN
    /\ tpc = [t \in ProgressThreads |-> "run"] /\ stop = FALSE
    /\ abort = FALSE /\ has_error = FALSE /\ faults = 0

-----------------------------------------------------------------------------
(* A collective call: all_reduce, all_gather or reduce_scatter.             *)

NextCall == Cardinality({i \in Calls : kernel[i] # "none"}) + 1

LatestHappened == records \in happened

\* require_previous_launch_complete
Busy == has_launch /\ ~LatestHappened

\* Mutant: a launch without a completion event is forgotten.
AdmitsUntracked(d) == ~has_error /\ (slot_elems[d] = 0 => ~Busy)

\* The call throws before it touches anything after an asynchronous error
\* (check_async_error), after a launch that could not be tracked, and, on the
\* first use of an element type, which allocates (ensure_fifo_buffers), while
\* the launch before it runs.
Admits(d) == ~has_error /\ ~has_untracked_launch /\ (slot_elems[d] = 0 => ~Busy)

\* The work a call puts on its stream before the CUDA call that fails.
Wait == IF has_launch THEN <<[op |-> "wait", n |-> records]>> ELSE <<>>
Kernel == <<[op |-> "kernel", n |-> NextCall]>>
Record == <<[op |-> "record", n |-> records + 1]>>

\* Mutant: the launch does not wait for the one before it.
WorkUnordered(failing) ==
    CASE failing = "none" -> Kernel \o Record
      [] failing = "wait" -> <<>>
      [] failing = "launch" -> <<>>
      [] failing = "record" -> Kernel

Work(failing) ==
    CASE failing = "none" -> Wait \o Kernel \o Record
      [] failing = "wait" -> <<>>
      [] failing = "launch" -> Wait
      [] failing = "record" -> Wait \o Kernel

\* Mutant: the fallback is only set by a call that failed to launch.
TrackLate(s, failing) ==
    /\ fallback_stream' = s
    /\ fallback_in_flight' = (failing = "launch")
    /\ completion_recorded' = (completion_recorded \/ failing = "none")
    /\ has_launch' = (has_launch \/ failing = "none")
    /\ has_untracked_launch' = (failing # "none")

\* begin_fallback_tracking, record_completion, the catch clause of run_typed.
Track(s, failing) ==
    /\ fallback_stream' = s
    /\ fallback_in_flight' = (failing # "none")
    /\ completion_recorded' = (completion_recorded \/ failing = "none")
    /\ has_launch' = (has_launch \/ failing = "none")
    /\ has_untracked_launch' = (failing # "none")

\* run_typed and launch_ring_simple.
Launch(s, d, failing) ==
    /\ failing = "wait" => has_launch
    /\ failing # "none" => faults < MaxFaults
    /\ faults' = IF failing = "none" THEN faults ELSE faults + 1
    /\ slot_elems' = [slot_elems EXCEPT ![d] = 1]
    /\ Track(s, failing)
    /\ queue' = [queue EXCEPT ![s] = @ \o Work(failing)]
    /\ IF failing \in {"none", "record"}
       THEN /\ kernel' = [kernel EXCEPT ![NextCall] = "queued"]
            /\ stream_of' = [stream_of EXCEPT ![NextCall] = s]
       ELSE UNCHANGED <<kernel, stream_of>>
    /\ records' = IF failing = "none" THEN records + 1 ELSE records
    /\ UNCHANGED happened

Call(s, d, failing) ==
    /\ user = "idle" /\ NextCall \in Calls
    /\ Admits(d) /\ Launch(s, d, failing)
    /\ UNCHANGED <<caller, waiting, block, edge, progress, abort, has_error>>

-----------------------------------------------------------------------------
(* The caller waits for a stream and asks for errors.                       *)

\* cudaStreamSynchronize
Synchronize(s) ==
    /\ user = "idle" /\ queue[s] = <<>>
    /\ \E i \in Calls : kernel[i] # "none" /\ stream_of[i] = s
    /\ user' = "check" /\ synced' = s
    /\ UNCHANGED <<tracking, cuda, waiting, block, edge, progress, abort, has_error, faults>>

CheckAsyncError ==
    /\ user = "check" /\ user' = "idle" /\ synced' = AnyStream
    /\ UNCHANGED <<tracking, cuda, waiting, block, edge, progress, abort, has_error, faults>>

-----------------------------------------------------------------------------
(* The streams (external): work of one stream in order, of two at once.     *)

WaitEvent(s) ==
    /\ queue[s] # <<>> /\ Head(queue[s]).op = "wait" /\ Head(queue[s]).n \in happened
    /\ queue' = [queue EXCEPT ![s] = Tail(@)]
    /\ UNCHANGED <<records, happened, kernel, stream_of>>
    /\ UNCHANGED <<caller, tracking, waiting, block, edge, progress, abort, has_error, faults>>

RecordEvent(s) ==
    /\ queue[s] # <<>> /\ Head(queue[s]).op = "record"
    /\ happened' = happened \cup {Head(queue[s]).n}
    /\ queue' = [queue EXCEPT ![s] = Tail(@)]
    /\ UNCHANGED <<records, kernel, stream_of>>
    /\ UNCHANGED <<caller, tracking, waiting, block, edge, progress, abort, has_error, faults>>

Running == {i \in Calls : kernel[i] = "running"}

\* The block of a second kernel would have counters of its own in registers;
\* this model follows one, which is all that InCallOrder admits.
StartKernel(s) ==
    /\ queue[s] # <<>> /\ Head(queue[s]).op = "kernel"
    /\ LET i == Head(queue[s]).n
       IN  /\ kernel[i] = "queued"
           /\ kernel' = [kernel EXCEPT ![i] = "running"]
           /\ IF Running = {}
              THEN slice' = 1 /\ unwarranted' = 0 /\ EnterWait(Program[1])
              ELSE UNCHANGED <<slice, unwarranted, waiting>>
    /\ UNCHANGED <<queue, records, happened, stream_of, arrived>>
    /\ UNCHANGED <<caller, tracking, edge, progress, abort, has_error, faults>>

-----------------------------------------------------------------------------
(* The kernel.                                                              *)

\* Mutant: send_head advances when the send is posted.
DrainedAtPost == unsent = 0

\* send_head = send_tail: the kernel has credit, and the edge is drained.
Drained == unsent = 0 /\ nic = "idle"

Ready(t) == IF t = 0 THEN arrived ELSE Drained

KernelPoll(t) ==
    /\ Running # {}
    /\ Poll(t, Ready(t))
    /\ UNCHANGED <<caller, tracking, cuda, block, edge, progress, has_error, faults>>

EndOfSlices(i, outcome) ==
    /\ \E s \in Streams : queue[s] # <<>> /\ Head(queue[s]) = [op |-> "kernel", n |-> i]
                          /\ queue' = [queue EXCEPT ![s] = Tail(@)]
    /\ kernel' = [kernel EXCEPT ![i] = outcome]
    /\ UNCHANGED <<slice, waiting>>

\* The block writes a slice into the slot and advances send_tail.  If it goes on
\* without credit, the slot may be one that the NIC has yet to read.
Publish(content) ==
    /\ unsent' = unsent + 1 /\ slot' = content
    /\ nic' = IF nic = "posted" THEN "overwritten" ELSE nic

\* A wait is over.  An aborted kernel returns; otherwise the slice is handled,
\* with data and a slot or, if wait_status was overwritten, without.
EndWait ==
    /\ WaitOver
    /\ \E i \in Running :
         LET waiters == Program[slice]
             warranted == \A t \in waiters : Ready(t)
         IN  IF wait_status = 0
             THEN /\ EndOfSlices(i, "bad")
                  /\ UNCHANGED <<arrived, unwarranted, edge>>
             ELSE /\ unwarranted' = IF warranted THEN unwarranted ELSE unwarranted + 1
                  /\ arrived' = IF 0 \in waiters THEN FALSE ELSE arrived
                  /\ IF 1 \in waiters
                     THEN Publish(IF unwarranted' = 0 THEN "slice" ELSE "garbage")
                     ELSE UNCHANGED edge
                  /\ IF slice < Len(Program)
                     THEN slice' = slice + 1 /\ EnterWait(Program[slice + 1])
                          /\ UNCHANGED <<queue, kernel>>
                     ELSE EndOfSlices(i, IF unwarranted' = 0 THEN "ok" ELSE "bad")
    /\ UNCHANGED <<records, happened, stream_of>>
    /\ UNCHANGED <<caller, tracking, progress, abort, has_error, faults>>

-----------------------------------------------------------------------------
(* The progress threads: the shared engine, or one thread per proxy.        *)

\* Mutant: a proxy goes on after an error.
MayProgressAfterError(t) == t \in ProgressThreads /\ tpc[t] = "run" /\ ~stop

\* The condition of progress() and of the loops around it.
MayProgress(t) == t \in ProgressThreads /\ tpc[t] = "run" /\ ~stop /\ ~has_error

MaySend == MayProgress("engine") \/ MayProgress("send")

\* ibv_post_send of the slot, up to max_inflight_ sends: here the one slot.
PostSlice ==
    /\ MaySend /\ unsent > 0 /\ nic = "idle"
    /\ unsent' = unsent - 1 /\ nic' = "posted" /\ UNCHANGED slot
    /\ UNCHANGED <<caller, tracking, cuda, waiting, block, progress, abort, has_error, faults>>

\* The NIC (external) reads the slot and sends what it holds now, whatever
\* became of the thread that posted, until the queue pair is destroyed.
Transmit ==
    /\ nic \in {"posted", "overwritten"} /\ user # "gone"
    /\ nic' = "completed" /\ UNCHANGED <<unsent, slot>>
    /\ UNCHANGED <<caller, tracking, cuda, waiting, block, progress, abort, has_error, faults>>

\* ibv_poll_cq finds the completion; send_head advances.
PollCompletion ==
    /\ MaySend /\ nic = "completed"
    /\ nic' = "idle" /\ UNCHANGED <<unsent, slot>>
    /\ UNCHANGED <<caller, tracking, cuda, waiting, block, progress, abort, has_error, faults>>

\* A slice of the predecessor for the running kernel.
ReceiveSlice ==
    /\ MayProgress("engine") \/ MayProgress("recv")
    /\ Running # {} /\ ~arrived /\ 0 \in Program[slice]
    /\ arrived' = TRUE
    /\ UNCHANGED <<slice, unwarranted>>
    /\ UNCHANGED <<caller, tracking, cuda, waiting, edge, progress, abort, has_error, faults>>

\* record_failure after an error of a proxy's queue pair, under the mutex:
\* the message and the abort flag, then has_error_.
RecordFailure(t) ==
    /\ t \in ProgressThreads
    /\ \/ /\ MayProgress(t) /\ faults < MaxFaults
          /\ \A u \in ProgressThreads : tpc[u] # "recording"
          /\ faults' = faults + 1
          /\ abort' = TRUE
          /\ tpc' = [tpc EXCEPT ![t] = "recording"]
          /\ UNCHANGED has_error
       \/ /\ tpc[t] = "recording"
          /\ has_error' = TRUE
          /\ tpc' = [tpc EXCEPT ![t] = "run"]
          /\ UNCHANGED <<abort, faults>>
    /\ UNCHANGED <<caller, tracking, cuda, waiting, block, edge, shared_progress, stop>>

ExitLoop(t) ==
    /\ t \in ProgressThreads /\ tpc[t] = "run" /\ (stop \/ has_error)
    /\ tpc' = [tpc EXCEPT ![t] = "exit"]
    /\ UNCHANGED <<caller, tracking, cuda, waiting, block, edge, shared_progress, stop, abort,
                   has_error, faults>>

-----------------------------------------------------------------------------
(* ~Impl.                                                                   *)

Go(place) == user' = place /\ UNCHANGED synced

Destroy ==
    /\ user = "idle" /\ Go("release_stream")
    /\ abort' = (abort \/ has_error)
    /\ UNCHANGED <<tracking, cuda, waiting, block, edge, progress, has_error, faults>>

\* release_lifetime_tracking
Release ==
    /\ \/ /\ user = "release_stream" /\ Go("release_event")
          /\ fallback_in_flight => queue[fallback_stream] = <<>>
       \/ /\ user = "release_event" /\ Go("drain")
          /\ completion_recorded => LatestHappened
    /\ UNCHANGED <<tracking, cuda, waiting, block, edge, progress, abort, has_error, faults>>

\* Mutant: drain only looks at the counters.
DrainBlind ==
    /\ user = "drain" /\ Go("shutdown")
    /\ Drained
    /\ UNCHANGED <<tracking, cuda, waiting, block, edge, progress, abort, has_error, faults>>

Drain ==
    /\ user = "drain" /\ Go("shutdown")
    /\ has_error \/ Drained
    /\ UNCHANGED <<tracking, cuda, waiting, block, edge, progress, abort, has_error, faults>>

\* shutdown of the proxies and the engine; join; then the members go.
ShutdownAndJoin ==
    /\ \/ user = "shutdown" /\ Go("join") /\ stop' = TRUE
       \/ /\ user = "join" /\ Go("gone")
          /\ \A t \in ProgressThreads : tpc[t] = "exit"
          /\ UNCHANGED stop
    /\ UNCHANGED <<tracking, cuda, waiting, block, edge, shared_progress, tpc, abort,
                   has_error, faults>>

-----------------------------------------------------------------------------
DestructorStep == Release \/ Drain \/ ShutdownAndJoin
CallerStep == \/ \E s \in Streams, d \in DTypes, f \in {"none", "wait", "launch", "record"} :
                    Call(s, d, f)
              \/ \E s \in Streams : Synchronize(s)
              \/ CheckAsyncError \/ Destroy
StreamStep(s) == WaitEvent(s) \/ RecordEvent(s) \/ StartKernel(s)
BlockStep(t) == KernelPoll(t)
ProgressStep(t) == RecordFailure(t) \/ ExitLoop(t)

Next == \/ CallerStep \/ DestructorStep
        \/ \E s \in Streams : StreamStep(s)
        \/ \E t \in Threads : BlockStep(t)
        \/ EndWait
        \/ PostSlice \/ Transmit \/ PollCompletion \/ ReceiveSlice
        \/ \E t \in {"engine", "send", "recv"} : ProgressStep(t)

Spec == Init /\ [][Next]_vars

\* What goes on by itself: the destructor, the GPU, the progress threads, and
\* the NIC as long as nothing has failed.  The peers take part in the
\* collectives.
SystemStep == \/ DestructorStep
              \/ \E s \in Streams : StreamStep(s)
              \/ \E t \in Threads : BlockStep(t)
              \/ EndWait
              \/ PostSlice \/ PollCompletion \/ ReceiveSlice
              \/ \E t \in {"engine", "send", "recv"} :
                    ExitLoop(t) \/ (RecordFailure(t) /\ tpc[t] = "recording")
              \/ ~abort /\ Transmit

\* None of them has work without end, so it is enough that one of those that
\* can take a step takes one.
FairSpec == Spec /\ WF_vars(SystemStep)

-----------------------------------------------------------------------------
(* Properties.                                                              *)

\* No kernel is left, queued or running, when the destructor frees what it
\* uses, whichever CUDA call of a launch failed before.
NothingInFlightWhenFreed ==
    user \in {"drain", "shutdown", "join", "gone"} =>
        \A i \in Calls : kernel[i] \notin {"queued", "running"}

\* Kernels run one at a time and in the order of the calls, on whatever
\* streams: they share the counters of the edges with each other and their
\* order with the peers.
InCallOrder ==
    \A i, j \in Calls : i < j /\ kernel[i] \in {"queued", "running"} =>
        kernel[j] \in {"none", "queued"}

\* FIFO storage is replaced only while no kernel can access it, also after a
\* launch whose completion event could not be recorded.
ReplacedOnlyWhenIdle ==
    [][slot_elems' # slot_elems =>
        \A i \in Calls : kernel[i] \notin {"queued", "running"}]_vars

\* Once the communicator failed, at most one slice of a kernel is handled
\* without data or without a free slot: the race on wait_status does not
\* outlive one wait.
OneUnwarrantedSlice == unwarranted <= 1

\* When one thread serves all proxies, a slice that a block handled without
\* data is never posted: the thread that records the failure is the one that
\* posts.  (A block that goes on without credit can still write over a slice
\* whose send the NIC already has; that is the state "overwritten".)
GarbageStaysHome == shared_progress /\ nic = "posted" => slot = "slice"

\* Only after a failure is a slot written that the NIC has yet to read: credit
\* comes back with the completion, whichever threads post and poll.
OverwrittenOnlyAfterFailure == nic = "overwritten" => abort

\* The destructor returns: no kernel, drain or join waits for a thread that
\* has left.
DestroyReturns == (user = "release_stream") ~> (user = "gone")

\* After cudaStreamSynchronize, a check_async_error that throws nothing means
\* that the collectives of the stream are done (the example of the README).
CheckedMeansDone ==
    [][CheckAsyncError /\ ~has_error =>
        \A i \in Calls : kernel[i] # "none" /\ stream_of[i] = synced => kernel[i] = "ok"]_vars
=============================================================================
