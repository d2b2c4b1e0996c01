# A TLA+ model of nano-nccl

nano-nccl runs ring AllReduce, AllGather and ReduceScatter between GPUs.  Each
rank launches one kernel per call; the blocks of a kernel (channels) pass slices
of the buffer around the ring through small FIFOs with step counters (the
"Simple" protocol).  An edge of the ring is shared memory, GPU peer memory, a
TCP socket or an RDMA queue pair; on the last two a host proxy on either side
moves the slices.  This directory models that protocol with its creation, failures
and teardown, checks it with TLC, and proves most of its safety with TLAPS.

## Inventory

| Part | Code | State | Operations | What must hold |
|---|---|---|---|---|
| Ring kernels | `kernels/ring_simple_kernel.cuh` | step registers, cached counters, persistent base steps, FIFO slots | slice operations `direct_send` ... `direct_recv`, waits, publications, start and end of a launch | no unread slot is overwritten; every input is combined once; launches end; both ends of an edge agree on its steps between launches |
| Geometry | `ring_simple_geometry.h`, `transport/simple/geometry.h` | none | `cbd_part`, `channel_part`, `slice_elems`, `nelem`, chunk schedules | peers compute the same slices; they fit a slot and cover the output once |
| RDMA SEND/RECV proxies | `transport/rdma/rdma_proxy.cc` | next step to post and to complete, requests in flight, heads, tails, slot sizes, queue pairs | post, elide, poll on either side; failures | lossless FIFO; slots stable while the NIC uses them; completion checks never misfire; drain ends |
| RDMA WRITE+CTS proxies | `rdma_proxy.cc`, `rdma_protocol.h` | as above, plus clear-to-send entries, their shadow and the requests that write them | post a write, clear the entry, grant a slot, post a receive for the immediate, poll | as above; a grant is used once, for its step, and is not lost |
| Socket proxies | `transport/socket/socket_proxy.cc` | step, connection, error state | blocking send and receive of a slice, stop, shutdown, drain, join | FIFO; drain and join end; a failure has a cause, and a receiver's orderly teardown is none |
| Progress engine | `rdma_progress.cc` | registered proxies, stop flag | one round over all proxies, shutdown, drain | progress of every proxy; it stops only on shutdown or error |
| Error state, abort | `rdma_proxy.cc`, `socket_proxy.cc`, `communicator.cu` | first message, error flag, device abort flag | `record_failure`, `message`, kernel waits that test the flag | an aborted collective is reported; no kernel waits forever; at most one slice is handled without data |
| Communicator | `communicator.cu` | FIFO storage, completion events, fallback stream, control reset | launch, FIFO growth, destruction | kernels run in call order; storage is not replaced or freed under a running kernel; destruction ends |
| Bootstrap | `mpi_communicator.cc`, `socket_endpoint.cc`, `rdma_qp.cc`, `rdma_endpoint.cc` | listeners, connections, ready bytes | connect, accept, hello, exchange of queue pair data | ranks enter the same MPI collectives; creation ends; no send before the peer is ready |
| P2P and SHM edges | `mpi_p2p.cc`, `mpi_shm.cc` | shared regions, close control | open, map, close handshake | no region is unmapped while the peer uses it |

What makes the system hard: kernels, proxy threads and NICs of all ranks
interleave freely and communicate through counters that are read from caches;
completions are requested only for some requests and cover the ones before;
slots are reused after a few slices; launches of different ranks overlap; queue
pairs fail between any two steps.

## Modules

Step counters move by `step_increment` (`kSliceSteps`), which divides the FIFO
length, so the models count in slices: a FIFO has `max_inflight` (or
`fifo_slots`) slots, 4 in the code, and slice k is in slot k modulo that number.

* `SliceFifo` - the abstract promise of an edge: slices are taken once each, in
  order and unaltered.
* `RdmaEdge` - one SEND/RECV edge: upstream kernel (`wait_send_credit`, copy,
  `post_send_ready`), `RdmaSendProxy::progress_send_recv` (one action per
  posted, elided or completed request), the reliable connection, `RdmaRecvProxy`,
  and the downstream kernel.  The content of a slice is its index.  The NIC
  reads a send slot when the request is carried out, and its writes become
  visible to the GPU at once or at the next flush.  `s_error` and `r_error` are
  the error state together with the abort flag of a rank.  Empty slices occur
  only with a receiver built with `elide_zero_payload`, which reads from its
  slot sizes which slots carry them, as `tests/rdma_proxy_test.cc` primes them;
  on the live path the kernels publish none.
* `RdmaEdge_proofs` - the theorems about `RdmaEdge`.
* `WriteCtsEdge` - one WRITE+CTS edge.  `ibv_post_send` and the store that
  clears the entry are two steps of the sending thread, because the receiver can
  act in between.  A kernel's handling of a slice is one step here.
* `WriteCtsEdge_proofs` - the theorems about `WriteCtsEdge`.
* `RingGeometry` - the functions that cut a buffer and the order of the slice
  operations of a rank (`SliceProgram`).  `RingSchedule` sweeps element counts.
* `SimpleRing` - the kernels of all ranks running their slice programs on edges
  both ends address directly, over a sequence of launches.  A slice carries its
  launch, position, size and the set of ranks combined into it, which stands for
  the arithmetic; operations publish credit and tail as separate steps.
* `SimpleRing_proofs` - the theorems about the slots of `SimpleRing`.
* `SocketEdge` - one TCP edge between two processes with everything around it:
  the kernels at both ends, `SocketSendProxy::run` and `SocketRecvProxy::run`
  from the head of the loop to the hang-up, the byte stream, the
  `SocketAsyncErrorState` of each process (`has_error` first, the abort flag
  later), a failure of another proxy of the same process, and the owner of the
  communicator, who synchronizes, checks and destroys, or destroys at once.  The
  stream carries a header and `SliceBytes[k]` units of payload per slice, so it
  can break off inside a slice.  A peer that has closed its end may be noticed by
  a sender at once or later.
* `SocketEdge_proofs` - the theorems about `SocketEdge`.
* `KernelWait` - the wait of a thread block: two threads poll, share the plain
  word `wait_status` and look at the abort flag
  (`wait_recv_ready_and_send_credit`).  The load and the store of
  `if (*wait_status != 0) *wait_status = 1` are two steps.
* `Communicator` - extends `KernelWait`: one communicator on RDMA edges, seen
  from its process.  A collective call is one action, with the CUDA call that
  fails as a parameter (`Launch(s, d, failing)`); streams execute waits, kernels
  and event records; `Impl`'s tracking members are variables; the destructor is
  split where it waits.  The outgoing edge has a single slot; a progress thread
  posts it (`PostSlice`), the NIC reads it later, also after that thread has
  stopped (`Transmit`), and credit comes back when a progress thread polls the
  completion (`PollCompletion`).  One progress engine or one thread per proxy is
  a choice of `Init`.
* `CommunicatorItems_proofs`, `Communicator_proofs` - the theorems about
  `Communicator`; the first holds the invariant and the part of its proof that
  concerns the streams.
* `Bootstrap` - `create_communicator_from_mpi` on every rank: device checks,
  topology, P2P probe, SHM and P2P regions, listeners, connections and HELLOs,
  the exchange of queue pairs and ready bytes, start of the proxies, and the
  close handshake of P2P regions.  The code between two MPI collectives is one
  step that may fail; a collective is over for a rank when all ranks have
  entered as many.  `stranding` records that a rank threw at a place where no
  consensus protects the ranks that wait for it.
* `Bootstrap_proofs` - the theorems about `Bootstrap`.
* `MCRdmaEdge`, `MCSimpleRing`, `MCSocketEdge`, `MCCommunicator`, `MCBootstrap` -
  constants for TLC.

## Runs

| Run | Instance | Result |
|---|---|---|
| `rdma_edge` | 3 slots, 5 slices, one slot of the round carries empty slices, queue pairs fail at any time, fair | safety, `EdgeIsFifo`, `DrainTerminates`, `SliceArrives` hold |
| `write_cts_edge` | 2 slots, 3 slices, fair | safety, FIFO and `DrainUnlessLost` hold |
| `write_cts_race` | the same | `CtsKept` is violated |
| `ring_schedule` | 3 ranks, 2 channels, all counts to 400 | `PeersAgree`, `SliceFitsSlot`, `OutputCoveredOnce` hold |
| `ring_one_launch` | 3 ranks, 4 slots, counts with an empty rank and with one and two slices per chunk, early credit for one-element slices, fair | safety and `Termination` hold |
| `ring_repeat_two_ranks` | 2 ranks, three calls in a row, any mix | holds |
| `ring_repeat_three_ranks` | 3 ranks, two AllReduce calls | `ResultCorrect` is violated |
| `socket_edge` | 2 slots, slices of 2, 0 and 1 units, room for 2 units on the wire, one fault, fair | safety, `EdgeIsFifo`, `EveryoneReturns` hold |
| `socket_teardown` | the same without faults | `ExampleSucceeds` is violated |
| `communicator` | 2 streams, 2 element types, 2 calls, kernels of two slices, one fault (a CUDA call or the transport), fair | safety (with `GarbageStaysHome`, `OverwrittenOnlyAfterFailure`), `ReplacedOnlyWhenIdle`, `DestroyReturns` hold |
| `missed_error` | the same | `CheckedMeansDone` is violated |
| `bootstrap` | 3 ranks, 1 channel, ten settings, up to two faults, fair | safety and `CreationEnds` hold |

Bounds.  `TotalSlices` lets slots be reused, on which all the slot hazards
depend; more rounds repeat the same modular situation.  The signaling period is
the code's 4, so with fewer slots both the "window full" and the "nothing more
pending" reasons to signal occur, and requests stay unsignaled.  Three ranks are
the fewest with a forwarding rank.  The sweep of counts crosses the channel,
loop, chunk and vector boundaries of its instance several times.  On the socket
the wire is smaller than a slice with its header, so a sender blocks inside a
slice; one fault is enough, because the teardown of either side is a second
event that needs none.  In `communicator` two calls give every order of streams
and a first use of a type behind a running kernel, and two slices give a wait
after the one whose status was overwritten.  The settings of `bootstrap` mix
network, SHM and P2P edges in one ring, and include flags that differ and a
device that is used twice; with two faults one rank can fail in the clean-up
that another one's failure causes.  Deadlock checking is off because every
behaviour ends: the slices, calls or launches are used up, an error stops the
edge, or a communicator is created or gone.

Fairness.  Kernels are resident and spin, proxy threads loop until stopped, and
NICs retry; a poll that finds nothing is no step, so weak fairness of each
thread is what the loops provide.  `retry_cnt` is finite, so a queue pair with
requests to a failed peer fails as well (`rnr_retry` 7 means without limit, so
waiting for a posted receive does not).  A proxy that has begun to record a
failure goes on; a fault need not happen.  In `SocketEdge` the owner follows the
example of the repository's README to its end, or destroys earlier; in
`Communicator` an owner inside the destructor goes on, but calls and the decision
to destroy need not happen, and the peers take part in the collectives
(`ReceiveSlice` is fair).  The NIC must carry out a posted send only as long as
nothing has failed.  No part of `Communicator` has work without end, so its one
fairness condition is that of all parts together (`SystemStep`), which is weaker
than fairness of each.  In `Bootstrap` MPI and TCP deliver.

## Disagreements found

* **Repeated launches on three or more ranks.**  A launch starts with
  `send_head_cache = send_base_step` (`ring_simple_kernel.cuh:1495`, `1601`,
  `1683`), as if the successor had consumed everything sent so far.  The end of
  a rank's launch implies that its predecessor has sent, not that its successor
  has read, and `wait_for_previous_launch_on_stream` waits for local events
  only.  In `ring_repeat_three_ranks` a rank that is already in its second
  launch overwrites a slice of the first that its successor has not read.  With
  two ranks the predecessor is the successor and `ring_repeat_two_ranks` holds.  `README.md:127` promises repeated use.
* **A lost clear-to-send entry.**  `rdma_proxy.cc:691-696` clears `ready` after
  the post.  Between the two the write may be delivered, consumed, and the entry
  of the next round written; the clear then erases it, and it is written only
  once.  `write_cts_race` shows the interleaving, which needs the sending thread
  to be delayed for a whole round trip.  `DrainUnlessLost` shows that nothing
  else stops the edge.
* **The example on sockets.**  A receive proxy waits for a header as soon as a
  slot is free, also when no more slices are due.  The rank that returns first
  from the example of `README.md:107-125` destroys its communicator and closes
  its connection; the proxy of its successor reads the end of the stream and
  records a failure (`socket_proxy.cc:354-358`), and a successor that has not
  reached `check_async_error` yet throws, without any fault.
  `socket_teardown` shows it.  `FailureHasCause` shows the other direction: a
  receiver that leaves never makes its sender fail.
* **A missed error.**  `rdma_proxy.cc:177-179` sets the device abort flag before
  `has_error_`.  The kernel may leave on the flag, the stream complete and
  `check_async_error` return before the second store, so the sequence of
  `README.md:119-120` accepts an aborted collective.  `missed_error` shows it;
  the socket error state has the other order and `SuccessMeansDone` is proved.

Smaller observations, which no run states as a property:

* `SocketAsyncErrorState` publishes `has_error` before the message, so an
  exception may carry an empty message.
* A slice that a block handled without data (`KernelWait`) is not posted by the
  shared engine (`GarbageStaysHome`); with one thread per proxy, and with sockets,
  it may be sent between the abort flag and the end of the loop.  With either, a
  block that goes on without credit writes over a slice whose send is posted and
  not completed, and the NIC, which reads the slot when it carries the send out,
  may send those bytes to the successor in place of the slice.  This is the state
  `nic = "overwritten"`; it takes a failure to get there
  (`OverwrittenOnlyAfterFailure`).
* The first call with an element type throws on a rank where an earlier
  collective is still running and not on one where it is done
  (`communicator.cu:1065`); the ranks then disagree on the sequence of calls.
* During creation, `cudaSetDevice` in `mpi_p2p.cc:238` and `:300`, a connect that
  fails and a listener without a timeout (`mpi_communicator.cc:393`) lie outside
  the points of consensus.  `CreationEnds` holds with exactly these excepted.
* On the WRITE+CTS plane a sender that is destroyed in order while entries of the
  receiver are on their way gives the receiver an error, as on sockets.

## Proofs

`RdmaEdge_proofs` proves, for every number of slots, signaling period, number of
slices and sizes allowed by `EdgeAssumption`:

* `Invariance`: `Spec => []IInv`, from which
* `TypeCorrect`, `SendSlotsAreStable`, `RecvSlotsAreStable` and
  `FailuresAreReal` follow, and
* `EdgeImplementsFifo`: `Spec => EdgeIsFifo`, the refinement of `SliceFifo`.

The properties are not inductive.  `IInv` adds the order of the counters on
either side (`SendOrder`, `RecvOrder`: completed <= acknowledged <= delivered <=
posted <= published <= completed + slots), what every slot in use holds
(`SendSlots`, `RecvSlots`), that the sizes the receiver tells empty slices by
stay those of the schedule (`RecvSizes`), and that the two ends have handed over
the same slices up to empty ones (`HandedOver`).  `SlotDistinct`, that two
slices less than a FIFO apart are in different slots, is the only arithmetic;
each `Next...` lemma treats one conjunct, action by action.

`EdgeAssumption` asks for at least one slot, a positive signaling period, and
that a slice is empty exactly when its slot is primed as empty.

`SocketEdge_proofs` proves, for every FIFO depth, number of slices, sizes, room
on the wire and number of faults (`SocketAssumption`):

* `Invariance`, and from it `SlotsAreStable`, `CheckedMeansFinished` and
  `FailuresHaveCauses`;
* `EdgeImplementsFifo`: the edge refines `SliceFifo`, whatever breaks off.

The argument follows places in the stream.  The next unit to send and the next
unit to read are pairs (slice, index).  `WireOk` says that the units on the wire
are a run (`Run`) from the second to the first, as long as the receiver has its
descriptor; `RunAppend` and `RunTail` are the two facts about runs, and
`PlacesKept` shows that only `SendUnit` and `RecvUnit` move a place.  Hence a
header is always the size of the slice the receiver is at, a slice is complete
when its slot is published (`RecvOk`), and a slice that is read was sent
(`Behind`).  `OwnerOk` ties together what kernels, error states and owners know
(an aborted kernel implies the abort flag, which implies `has_error`).  `CauseOk`
gives every failure and every closed descriptor its reason; its only hard case
is a sender whose peer is gone (`BreakHasCause`): a receiver that finished has
read everything, which by `Behind` leaves nothing to send, and one that was
aborted had an error with a cause.

`WriteCtsEdge_proofs` proves, for every number of slots and slices and every
signaling interval (`WriteCtsAssumption`), `TypeCorrect`,
`GrantedSlotsAreStable`, `FailuresAreReal` and `EdgeImplementsFifo`.  The
theorems cover behaviours in which an entry is lost (`write_cts_race`): a loss
stops the edge but never makes it wrong.  Besides the order of the
counters, `IInv` has a third chain, that of the entries (`CtsOrder`: a slice is
written only after its entry has arrived, and entries run at most a FIFO ahead of
the consumer), and `Ready`: an entry that is ready grants its own slot for a
slice that is not yet counted as posted.  `Ready` survives the window between the
post and the clear because it speaks of posts that are counted, not of posts that
are made.

`Communicator_proofs` proves, for any streams, element types, numbers of calls
and faults and any non-empty kernel program (`CommunicatorAssumption`):

* `KernelsInCallOrder`: kernels run one at a time in the order of the calls;
* `FreedWhenIdle` and the action property `StorageReplacedWhenIdle`: nothing is
  freed or replaced under a kernel, whichever CUDA call of a launch failed;
* `RaceLetsOneThrough`: the race on `wait_status` lets one slice through at most;
* `GarbageIsNotPosted`: with the shared engine that slice is not posted;
* `NicSlotsKept`: without a failure no block writes into a slot that the NIC has
  yet to read.

The invariant describes the work queued on every stream by position (`Items`): a
kernel that is not at the front stands behind a wait for the record of the call
before it, and at the front that record has happened; a record follows its
kernel.  `Once` and `Held` say that an unfinished kernel is in its stream exactly
once, `Tracked` that the calls with a kernel are the recorded ones, and at most
one more, on the fallback stream.  Together they give `Order`, that a kernel
starts only when the records of all earlier ones have happened.  `Released` keeps
what the destructor has waited for; `Waits` says that after an unwarranted slice
the abort flag is up, so that every thread stores 0 before it reads the status
again, and that the flag is up whenever the slot holds no proper slice or was
overwritten under the NIC; `Recording` says that a flag that is up has a thread about to set
`has_error_`.

`Bootstrap_proofs` proves, for every ring of at least two ranks, every setting
and any number of faults (`BootstrapAssumption`):

* `SameCollectives`: the n-th MPI collective is the same on all ranks;
* `RegionsOutlive`: no P2P region is freed while its sender has it mapped.

`Named` computes the name of the i-th collective from the transports of the
edges, which are determined once every rank has contributed to the last
collective before `resolve_interprocess_transports`; `Placed` gives the number of collectives
a rank has entered by where it is.  The crux is that no rank is beyond that point
before the transports are determined (`Agreed`), and that they do not change
afterwards (`Settled`, `Known`).  For the regions, `Mapping` says that a sender
with a region open has reported it, and its receiver either has not looked yet or
waits for the close; `Past` that a receiver that is through with the set-up has
looked at everybody's answer.

`SimpleRing_proofs` proves, for every ring, geometry, FIFO depth, threshold for
early credit and sequence of calls (`GeometryAssumption`, `RingAssumption`):

* `FirstLaunchIsSafe`: in the first launch of a communicator no rank overwrites a
  slot that its successor has yet to read;
* `DrainedStartsAreSafe`: nor does it in any later one, if every launch starts
  when the successor has consumed what earlier launches sent on the edge
  (`StartsDrained`), which `send_head_cache = send_base_step` takes for granted.

`NoSlotOverwritten` without a condition is false (`ring_repeat_three_ranks`), and
the second theorem names what is missing.  The condition is sufficient, not
necessary: with two ranks a launch may start on an edge that is not drained, and
the results are still right.  `IInv` consists of the order of the counters of an edge
(`Ordered`: cached head <= head <= read <= tail <= written <= read + slots) and of
`Kept`, that every slice written and not read is in its slot; only
`StartKernel` can break it, through the cached head.

The inductive invariants are not listed in the runs; each was tried with TLC on
the instance of its component's run before it was proved (`SimpleRing`'s on that
of `ring_one_launch`, with `StartsDrained` as an action property).

Model-checked only:

* liveness: `DrainTerminates`, `SliceArrives`, `DrainUnlessLost`, `Termination`,
  `EveryoneReturns`, `DestroyReturns`, `CreationEnds`; the prover has no rules for
  fairness;
* `PeersAgree`, `SliceFitsSlot`, `OutputCoveredOnce`, and with them `TypeOK`,
  `ResultCorrect` and `WatermarksAligned` of `SimpleRing`: they depend on what the
  folds that build a rank's slice program compute, which takes induction over
  sequences;
* `FailureHasCause` and `ReceiversFirst` of `Bootstrap`, which rest on facts about
  filtered message queues of the same nature.

## Not modelled

Element arithmetic and types; NUMA placement, registration of memory and other
resource wrappers; profiling; argument checks; the C API, and the lease on the
MPI runtime, a count under one mutex.  A failing `ibv_post_send` or
`ibv_post_recv` call, which ends in the same error state as a failed queue pair.
The checks of an immediate's opcode, step and length (`rdma_proxy.cc:1300-1313`),
which cannot fail on an ordered queue pair.  A proxy thread that cannot be
started (`communicator.cu:860-875`).
`stop()` of the socket proxies, which only tests call.  A process that drives
several GPUs: it runs the same kernels, but its calls track one event per GPU.
Failures on rings of SHM and P2P edges only, where the code has no detection and
so makes no promise.

The models are joined at `SliceFifo` rather than composed: `RdmaEdge` and
`SocketEdge` show that an edge is a FIFO, `SimpleRing` runs the collectives over
edges that are one.  Teardown on RDMA edges uses the abstract edge of
`Communicator`.
