------------------------------ MODULE Bootstrap ------------------------------
(***************************************************************************)
(* Creating a communicator over MPI: create_communicator_from_mpi          *)
(* (mpi_communicator.cc) with the SHM and P2P set-up it calls (mpi_shm.cc, *)
(* mpi_p2p.cc), the TCP bootstrap (socket_endpoint.cc) and the start of    *)
(* the proxies (communicator.cu, setup_socket_transport and                *)
(* setup_rdma_transport), and the release of the exported P2P regions.     *)
(*                                                                         *)
(* Every rank is one process.  The code between two MPI collectives is one *)
(* step.  MPI collectives that follow each other with no local work in     *)
(* between are one collective here.  calls[r] records the collectives that *)
(* r has entered and what it contributed; a collective is over for r when  *)
(* every rank has entered as many.                                         *)
(***************************************************************************)
EXTENDS Integers, Sequences, FiniteSets

CONSTANTS kRanks,     \* processes, one GPU each
          kChannels,  \* channels, one TCP connection per channel and edge
          Settings,   \* what the processes may be started with (see below)
          MaxFaults   \* system calls, CUDA calls and allocations that fail

ASSUME BootstrapAssumption ==
    kRanks \in Nat \ {0, 1} /\ kChannels \in Nat \ {0} /\ MaxFaults \in Nat

Ranks == 0 .. kRanks - 1
Next1(r) == (r + 1) % kRanks
Prev1(r) == (r + kRanks - 1) % kRanks
Hellos == [source : Ranks, channel : 1 .. kChannels]

VARIABLES
    setting,      \* [requested, host, device, ipc, flags]: the configured
                  \* transport; per rank the node, the GPU and the RDMA flags;
                  \* per edge whether CUDA IPC works on it
    pc, result,   \* per rank: the next step; "none", "ready" or "threw"
    calls,        \* per rank: the collectives entered, in order
    edge_kinds,   \* per rank: the transport of every edge, once resolved
    probe,        \* per rank: its probe allocation "none", "live" or "freed"
    shm_name,     \* per rank: the name of its incoming region
    region,       \* per rank: its incoming P2P region
    control_name, \* per rank: the name of its close control
    closed,       \* per rank: its close control, set by the sender
    mapped,       \* per rank: it has its receiver's P2P region open
    wait_for_close,
    conns,        \* per rank: the connections vector
    backlog,      \* per rank: connections waiting in its listener
    script,       \* per rank: socket operations of the exchange still to do
    sent,         \* per rank: what it has written and on which connection
    prepared,     \* per rank: its receive proxies have posted
    started,      \* per rank: its send proxies run
    faults,
    stranding     \* a rank left where another one waits for it for ever

mpi == <<setting, calls>>
shm == <<shm_name>>
p2p == <<region, control_name, closed, mapped, wait_for_close>>
tcp == <<conns, backlog, script, sent, prepared, started>>
vars == <<setting, pc, result, calls, edge_kinds, probe, shm_name, region, control_name,
          closed, mapped, wait_for_close, conns, backlog, script, sent, prepared,
          started, faults, stranding>>

PerRank(v) == [r \in Ranks |-> v]

Init ==
    /\ setting \in Settings
    /\ pc = PerRank("device") /\ result = PerRank("none")
    /\ calls = PerRank(<<>>) /\ edge_kinds = PerRank(PerRank("unknown"))
    /\ probe = PerRank("none") /\ shm_name = PerRank("none")
    /\ region = PerRank("none") /\ control_name = PerRank("none")
    /\ closed = PerRank(FALSE) /\ mapped = PerRank(FALSE)
    /\ wait_for_close = PerRank(FALSE)
    /\ conns = PerRank(<<>>) /\ backlog = PerRank(<<>>)
    /\ script = PerRank(<<>>) /\ sent = PerRank({})
    /\ prepared = PerRank(FALSE) /\ started = PerRank(FALSE)
    /\ faults = 0 /\ stranding = FALSE
-----------------------------------------------------------------------------
(* MPI and the fault model *)

At(r, label) == pc[r] = label
Goto(r, label) == pc' = [pc EXCEPT ![r] = label]

\* The exception leaves create_communicator_from_mpi: the destructors run next.
Throw(r) == Goto(r, "close") /\ result' = [result EXCEPT ![r] = "threw"]

\* A local call succeeds, or it is one of the faults.
Outcome(ok) == faults' = faults + (IF ok THEN 0 ELSE 1) /\ faults' <= MaxFaults

\* r enters its next collective with a status and a value.
Enter(r, name, ok, value) ==
    calls' = [calls EXCEPT ![r] = Append(@, [name |-> name, ok |-> ok, value |-> value])]

\* The collective r is in is over; what q contributed to it; the MPI_MIN.
Over(r) == \A q \in Ranks : Len(calls[q]) >= Len(calls[r])
From(q, r) == calls[q][Len(calls[r])]
AllOk(r) == \A q \in Ranks : From(q, r).ok
-----------------------------------------------------------------------------
(* Device checks, topology and the P2P probe *)

\* validate_local_device_with_consensus up to its Allreduce.
ValidateDevice(r) ==
    /\ At(r, "device")
    /\ \E ok \in BOOLEAN : Outcome(ok) /\ Enter(r, "device", ok, 0)
    /\ Goto(r, "nodes")
    /\ UNCHANGED <<setting, result, edge_kinds, probe, shm, p2p, tcp, stranding>>

\* The Allreduce is over; discover_node_ids up to its Allgather.
DiscoverNodes(r) ==
    /\ At(r, "nodes") /\ Over(r)
    /\ IF AllOk(r)
       THEN Enter(r, "nodes", TRUE, setting.host[r]) /\ Goto(r, "identity")
            /\ UNCHANGED result
       ELSE Throw(r) /\ UNCHANGED calls
    /\ UNCHANGED <<setting, edge_kinds, probe, shm, p2p, tcp, faults, stranding>>

\* validate_unique_device_per_node up to its Allreduce.
DeviceIdentity(r) ==
    /\ At(r, "identity") /\ Over(r)
    /\ \E ok \in BOOLEAN : Outcome(ok) /\ Enter(r, "identity", ok, setting.device[r])
    /\ Goto(r, "unique")
    /\ UNCHANGED <<setting, result, edge_kinds, probe, shm, p2p, tcp, stranding>>

SameDevice(r) ==
    \E p, q \in Ranks : /\ p # q /\ setting.host[p] = setting.host[q]
                        /\ From(p, r).value = From(q, r).value

Probing == setting.requested \in {"Auto", "P2p", "Rdma"}

\* The rest of validate_unique_device_per_node.
UniqueDevice(r) ==
    /\ At(r, "unique") /\ Over(r)
    /\ IF AllOk(r) /\ ~SameDevice(r)
       THEN Goto(r, IF Probing THEN "probe" ELSE "resolve") /\ UNCHANGED result
       ELSE Throw(r)
    /\ UNCHANGED <<mpi, edge_kinds, probe, shm, p2p, tcp, faults, stranding>>

\* cudaSetDevice outside the consensus: a rank that throws here leaves the
\* others in the Allgather.
SetDeviceOrStrand(r, label) ==
    \E ok \in BOOLEAN :
        /\ Outcome(ok)
        /\ IF ok THEN Goto(r, label) /\ UNCHANGED <<result, stranding>>
                 ELSE Throw(r) /\ stranding' = TRUE

ProbeDevice(r) ==
    /\ At(r, "probe") /\ SetDeviceOrStrand(r, "probe_alloc")
    /\ UNCHANGED <<mpi, edge_kinds, probe, shm, p2p, tcp>>

\* probe_mpi_p2p_edges: allocate, then Allgather the handles.
ProbeAllocate(r) ==
    /\ At(r, "probe_alloc")
    /\ probe' = [probe EXCEPT ![r] = "live"]
    /\ Enter(r, "probe_handles", TRUE, 0)
    /\ Goto(r, "probe_open")
    /\ UNCHANGED <<setting, result, edge_kinds, shm, p2p, tcp, faults, stranding>>

\* Open and close the receiver's allocation, then the Barrier.
ProbeOpen(r) ==
    /\ At(r, "probe_open") /\ Over(r)
    /\ LET q == Next1(r)
           outgoing_ok == /\ setting.host[r] = setting.host[q] /\ setting.ipc[r]
                          /\ From(r, r).ok /\ From(q, r).ok /\ probe[q] = "live"
       IN  Enter(r, "probe_barrier", outgoing_ok, 0)
    /\ Goto(r, "probe_free")
    /\ UNCHANGED <<setting, result, edge_kinds, probe, shm, p2p, tcp, faults, stranding>>

\* Free it, then Allgather which edges work.
ProbeFree(r) ==
    /\ At(r, "probe_free") /\ Over(r)
    /\ probe' = [probe EXCEPT ![r] = "freed"]
    /\ Enter(r, "probe_edges", From(r, r).ok, 0)
    /\ Goto(r, "resolve")
    /\ UNCHANGED <<setting, result, edge_kinds, shm, p2p, tcp, faults, stranding>>

\* resolve_interprocess_transports for one edge; "none" stands for its throws.
resolve(edge, capable) ==
    LET same_host == setting.host[edge] = setting.host[Next1(edge)]
        nearby == IF capable THEN "P2p" ELSE "Shm"
    IN  CASE setting.requested = "Auto"   -> IF same_host THEN nearby ELSE "Socket"
          [] setting.requested = "Rdma"   -> IF same_host THEN nearby ELSE "Rdma"
          [] setting.requested = "Shm"    -> IF same_host THEN "Shm" ELSE "none"
          [] setting.requested = "P2p"    -> IF same_host /\ capable THEN "P2p" ELSE "none"
          [] setting.requested = "Socket" -> "Socket"

Resolve(r) ==
    /\ At(r, "resolve") /\ Over(r)
    /\ LET kinds == [e \in Ranks |-> resolve(e, Probing /\ From(e, r).ok)]
       IN  IF \E e \in Ranks : kinds[e] = "none"
           THEN Throw(r) /\ UNCHANGED edge_kinds
           ELSE /\ edge_kinds' = [edge_kinds EXCEPT ![r] = kinds]
                /\ Goto(r, "shm") /\ UNCHANGED result
    /\ UNCHANGED <<mpi, probe, shm, p2p, tcp, faults, stranding>>

Incoming(r, kind) == edge_kinds[r][Prev1(r)] = kind
Outgoing(r, kind) == edge_kinds[r][r] = kind

\* Mutant: a rank looks at its own edges only.
UsesLocally(r, kind) == Incoming(r, kind) \/ Outgoing(r, kind)

\* Some edge of the ring is of that kind, maybe none of r's.
Uses(r, kind) == \E e \in Ranks : edge_kinds[r][e] = kind
-----------------------------------------------------------------------------
(* create_mpi_shm_connections *)

\* Create and zero the incoming region, then Allreduce and Allgather of names.
ShmCreate(r) ==
    /\ At(r, "shm")
    /\ IF Uses(r, "Shm")
       THEN /\ \E ok, created \in BOOLEAN :
                 /\ Outcome(ok) /\ (ok => created) /\ (~ok => Incoming(r, "Shm"))
                 /\ Enter(r, "shm_create", ok, 0)
                 /\ shm_name' = [shm_name EXCEPT ![r] =
                                   IF Incoming(r, "Shm") /\ created THEN "linked" ELSE @]
            /\ Goto(r, "shm_open")
       ELSE Goto(r, "p2p") /\ UNCHANGED <<calls, faults, shm_name>>
    /\ UNCHANGED <<setting, result, edge_kinds, probe, p2p, tcp, stranding>>

\* The owner's destructor, and the call after the Barrier.
Unlink(name, r) == [name EXCEPT ![r] = IF @ = "linked" THEN "unlinked" ELSE @]

\* Open the receiver's region by name and register both, then Allreduce.
ShmOpen(r) ==
    /\ At(r, "shm_open") /\ Over(r)
    /\ IF AllOk(r)
       THEN /\ \E ok \in BOOLEAN :
                 LET found == Outgoing(r, "Shm") => shm_name[Next1(r)] = "linked"
                 IN  Outcome(ok) /\ Enter(r, "shm_map", ok /\ found, 0)
            /\ Goto(r, "shm_unlink") /\ UNCHANGED <<result, shm_name>>
       ELSE Throw(r) /\ shm_name' = Unlink(shm_name, r) /\ UNCHANGED <<calls, faults>>
    /\ UNCHANGED <<setting, edge_kinds, probe, p2p, tcp, stranding>>

\* Everyone has mapped what it needs: the name goes, on success and on failure.
ShmUnlink(r) ==
    /\ At(r, "shm_unlink") /\ Over(r)
    /\ shm_name' = Unlink(shm_name, r)
    /\ IF AllOk(r) THEN Goto(r, "p2p") /\ UNCHANGED result ELSE Throw(r)
    /\ UNCHANGED <<mpi, edge_kinds, probe, p2p, tcp, faults, stranding>>
-----------------------------------------------------------------------------
(* create_mpi_p2p_connections *)

P2pDevice(r) ==
    /\ At(r, "p2p")
    /\ IF Uses(r, "P2p")
       THEN SetDeviceOrStrand(r, "p2p_export")
       ELSE Goto(r, "network") /\ UNCHANGED <<result, faults, stranding>>
    /\ UNCHANGED <<mpi, edge_kinds, probe, shm, p2p, tcp>>

\* Allocate and export the incoming region with its close control, then
\* Allgather and Allreduce.  A failure may leave the region without a control.
P2pExport(r) ==
    /\ At(r, "p2p_export")
    /\ \E ok, allocated \in BOOLEAN :
         /\ Outcome(ok) /\ (ok => allocated) /\ (~ok => Incoming(r, "P2p"))
         /\ Enter(r, "p2p_export", ok, 0)
         /\ region' = [region EXCEPT ![r] =
                         IF Incoming(r, "P2p") /\ allocated THEN "live" ELSE @]
         /\ control_name' = [control_name EXCEPT ![r] =
                         IF Incoming(r, "P2p") /\ ok THEN "linked" ELSE @]
    /\ Goto(r, "p2p_open")
    /\ UNCHANGED <<setting, result, edge_kinds, probe, shm, closed, mapped, wait_for_close,
                   tcp, stranding>>

\* Open the receiver's control and region, then Allreduce and Allgather of
\* who has opened its edge.
P2pOpen(r) ==
    /\ At(r, "p2p_open") /\ Over(r)
    /\ IF AllOk(r)
       THEN \E ok, opened \in BOOLEAN :
              LET q == Next1(r)
                  found == control_name[q] = "linked" /\ region[q] = "live"
              IN  /\ Outcome(ok) /\ (ok => opened = (Outgoing(r, "P2p") /\ found))
                  /\ ~ok => Outgoing(r, "P2p")
                  /\ opened => Outgoing(r, "P2p") /\ found
                  /\ Enter(r, "p2p_map", ok /\ (Outgoing(r, "P2p") => found), opened)
                  /\ mapped' = [mapped EXCEPT ![r] = opened]
                  /\ Goto(r, "p2p_arm") /\ UNCHANGED result
       ELSE Throw(r) /\ UNCHANGED <<calls, faults, mapped>>
    /\ UNCHANGED <<setting, edge_kinds, probe, shm, region, control_name, closed,
                   wait_for_close, tcp, stranding>>

\* Mutant: a failed set-up does not wait for the senders.
P2pArmOnSuccess(r) ==
    /\ At(r, "p2p_arm") /\ Over(r)
    /\ wait_for_close' = [wait_for_close EXCEPT ![r] =
                            Incoming(r, "P2p") /\ AllOk(r)]
    /\ IF AllOk(r)
       THEN Goto(r, "network") /\ control_name' = Unlink(control_name, r) /\ UNCHANGED result
       ELSE Throw(r) /\ UNCHANGED control_name
    /\ UNCHANGED <<mpi, edge_kinds, probe, shm, region, closed, mapped, tcp, faults, stranding>>

\* arm_local_close_wait; on success the Barrier and unlink_local_control.
P2pArm(r) ==
    /\ At(r, "p2p_arm") /\ Over(r)
    /\ wait_for_close' = [wait_for_close EXCEPT ![r] =
                            Incoming(r, "P2p") /\ From(Prev1(r), r).value]
    /\ IF AllOk(r)
       THEN Goto(r, "network") /\ control_name' = Unlink(control_name, r) /\ UNCHANGED result
       ELSE Throw(r) /\ UNCHANGED control_name
    /\ UNCHANGED <<mpi, edge_kinds, probe, shm, region, closed, mapped, tcp, faults, stranding>>
-----------------------------------------------------------------------------
(* ~MpiP2pOwner, after a throw or in the destructor of the communicator *)

\* Close the peer's region and tell the peer; closing may fail.
P2pClose(r) ==
    /\ At(r, "close")
    /\ \E ok \in BOOLEAN :
         /\ Outcome(ok) /\ (~ok => mapped[r])
         /\ mapped' = [mapped EXCEPT ![r] = @ /\ ~ok]
         /\ closed' = [closed EXCEPT ![Next1(r)] = @ \/ (mapped[r] /\ ok)]
    /\ Goto(r, "await")
    /\ UNCHANGED <<mpi, result, edge_kinds, probe, shm, region, control_name, wait_for_close,
                   tcp, stranding>>

\* Wait for the sender, at most kCloseTimeout; free the region only if the
\* sender has closed it or never opened it.
P2pFree(r) ==
    /\ At(r, "await")
    /\ region' = [region EXCEPT ![r] =
                    CASE @ # "live" -> @
                      [] ~wait_for_close[r] \/ closed[r] -> "freed"
                      [] OTHER -> "leaked"]
    /\ control_name' = Unlink(control_name, r)
    /\ Goto(r, "end")
    /\ UNCHANGED <<mpi, result, edge_kinds, probe, shm, closed, mapped, wait_for_close, tcp,
                   faults, stranding>>
-----------------------------------------------------------------------------
(* The TCP bootstrap *)

Networked(kind) == kind \in {"Socket", "Rdma"}
UsesNetwork(r) == Uses(r, "Socket") \/ Uses(r, "Rdma")

\* create_listener_with_consensus up to its Allreduce, or nothing to do.
CreateListener(r) ==
    /\ At(r, "network")
    /\ IF UsesNetwork(r)
       THEN /\ \E ok \in BOOLEAN : Outcome(ok) /\ Enter(r, "listener", ok, 0)
            /\ Goto(r, "endpoints")
       ELSE Enter(r, "endpoints", TRUE, 0) /\ Goto(r, "connect") /\ UNCHANGED faults
    /\ UNCHANGED <<setting, result, edge_kinds, probe, shm, p2p, tcp, stranding>>

\* The Allreduce is over; Allgather of the endpoints.
ExchangeEndpoints(r) ==
    /\ At(r, "endpoints") /\ Over(r)
    /\ IF AllOk(r)
       THEN Enter(r, "endpoints", TRUE, 0) /\ Goto(r, "connect") /\ UNCHANGED result
       ELSE Throw(r) /\ UNCHANGED calls
    /\ UNCHANGED <<setting, edge_kinds, probe, shm, p2p, tcp, faults, stranding>>

\* The other end of a connection of r.
Peer(r, h) == IF h.source = r THEN Next1(r) ELSE h.source

\* The connections of r, in the order of the loop over edges and channels.
Mine(r) ==
    LET all == [i \in 1 .. kRanks * kChannels |->
                  [source |-> (i - 1) \div kChannels, channel |-> ((i - 1) % kChannels) + 1]]
    IN  SelectSeq(all, LAMBDA h : /\ r \in {h.source, Next1(h.source)}
                                  /\ Networked(edge_kinds[r][h.source]))
Connects(r) == SelectSeq(Mine(r), LAMBDA h : r < Peer(r, h))
expected_accepts(r) == Len(Mine(r)) - Len(Connects(r))

\* r has its listener until it is done with the bootstrap.
Listening(r) == result[r] = "none"

\* SocketEndpoint::connect with the HELLO: the lower rank of an edge connects.
\* It does not wait for the accept.
Connect(r) ==
    /\ At(r, "connect") /\ Over(r)
    /\ IF Len(conns[r]) = Len(Connects(r))
       THEN Goto(r, "accept") /\ UNCHANGED <<result, tcp, faults, stranding>>
       ELSE LET h == Connects(r)[Len(conns[r]) + 1]
                q == Peer(r, h)
            IN  \E ok \in BOOLEAN :
                  /\ Outcome(ok)
                  /\ IF ok /\ Listening(q)
                     THEN /\ conns' = [conns EXCEPT ![r] = Append(@, h)]
                          /\ backlog' = [backlog EXCEPT ![q] = Append(@, h)]
                          /\ UNCHANGED <<pc, result, stranding>>
                     ELSE /\ Throw(r) /\ stranding' = TRUE
                          /\ UNCHANGED <<conns, backlog>>
                  /\ UNCHANGED <<script, sent, prepared, started>>
    /\ UNCHANGED <<mpi, edge_kinds, probe, shm, p2p>>

\* Mutant: only the predecessor is expected to connect.
is_incoming_hello(h, r) ==
    /\ Networked(edge_kinds[r][h.source])
    /\ r = Next1(h.source)

is_expected_hello(h, r) ==
    /\ Networked(edge_kinds[r][h.source])
    /\ r \in {h.source, Next1(h.source)}
    /\ r > Peer(r, h)

\* accept, read_hello and the checks of the loop; it ends when all are there.
Accept(r) ==
    /\ At(r, "accept")
    /\ LET accepted == Len(conns[r]) - Len(Connects(r))
       IN  IF accepted = expected_accepts(r)
           THEN Goto(r, "setup") /\ UNCHANGED <<result, conns, backlog, faults>>
           ELSE /\ backlog[r] # <<>>
                /\ backlog' = [backlog EXCEPT ![r] = Tail(@)]
                /\ \E ok \in BOOLEAN :
                     LET h == Head(backlog[r])
                         fresh == \A i \in 1 .. Len(conns[r]) : conns[r][i] # h
                     IN  /\ Outcome(ok)
                         /\ IF ok /\ is_expected_hello(h, r) /\ fresh
                            THEN conns' = [conns EXCEPT ![r] = Append(@, h)]
                                 /\ UNCHANGED <<pc, result>>
                            ELSE Throw(r) /\ UNCHANGED conns
    /\ UNCHANGED <<mpi, edge_kinds, probe, shm, p2p, script, sent, prepared, started, stranding>>
-----------------------------------------------------------------------------
(* Communicator::Impl: setup_socket_transport and setup_rdma_transport *)

RdmaConns(r) == SelectSeq(conns[r], LAMBDA h : edge_kinds[r][h.source] = "Rdma")

\* Mutant: the ready bytes are sent and not awaited.
ExchangeUnconfirmed(r, message) ==
    LET cs == RdmaConns(r)
        n == Len(cs)
    IN  [i \in 1 .. (IF message = "ready" THEN n ELSE 2 * n) |->
            [op |-> IF i <= n THEN "send" ELSE "recv",
             on |-> cs[IF i <= n THEN i ELSE i - n], message |-> message]]

\* Mutant: send and receive, one connection after the other.
ExchangePairwise(r, message) ==
    LET cs == RdmaConns(r)
    IN  [i \in 1 .. 2 * Len(cs) |->
            [op |-> IF i % 2 = 1 THEN "send" ELSE "recv",
             on |-> cs[(i + 1) \div 2], message |-> message]]

\* All sends, then all receives, on the connections in the order of connections.
Exchange(r, message) ==
    LET cs == RdmaConns(r)
        n == Len(cs)
    IN  [i \in 1 .. 2 * n |->
            [op |-> IF i <= n THEN "send" ELSE "recv",
             on |-> cs[IF i <= n THEN i ELSE i - n], message |-> message]]

\* setup_socket_transport: allocate, hand the connections of Socket edges to
\* proxies and start them.
SetupSocket(r) ==
    /\ At(r, "setup")
    /\ \E ok \in BOOLEAN :
         /\ Outcome(ok)
         /\ IF ok THEN Goto(r, "setup_rdma") /\ UNCHANGED result ELSE Throw(r)
    /\ UNCHANGED <<mpi, edge_kinds, probe, shm, p2p, tcp, stranding>>

\* setup_rdma_transport up to the exchange: open the device, allocate, create
\* the queue pairs.
SetupRdma(r) ==
    /\ At(r, "setup_rdma")
    /\ IF Uses(r, "Rdma")
       THEN \E ok \in BOOLEAN :
              /\ Outcome(ok)
              /\ IF ok THEN /\ script' = [script EXCEPT ![r] = Exchange(r, "info")]
                            /\ Goto(r, "info") /\ UNCHANGED result
                       ELSE Throw(r) /\ UNCHANGED script
       ELSE /\ Goto(r, "ready") /\ result' = [result EXCEPT ![r] = "ready"]
            /\ UNCHANGED <<script, faults>>
    /\ UNCHANGED <<mpi, edge_kinds, probe, shm, p2p, conns, backlog, sent, prepared, started,
                   stranding>>

\* send_all or recv_all of one message.  A peer that threw has closed, or is
\* about to close, its end.
Transfer(r) ==
    /\ pc[r] \in {"info", "confirm"} /\ script[r] # <<>>
    /\ LET op == Head(script[r])
           q == Peer(r, op.on)
       IN  \/ /\ op.op = "send" \/ [on |-> op.on, message |-> op.message] \in sent[q]
              /\ script' = [script EXCEPT ![r] = Tail(@)]
              /\ sent' = IF op.op = "recv" THEN sent
                         ELSE [sent EXCEPT ![r] =
                                 @ \cup {[on |-> op.on, message |-> op.message]}]
              /\ UNCHANGED <<pc, result>>
           \/ result[q] = "threw" /\ Throw(r) /\ UNCHANGED <<script, sent>>
    /\ UNCHANGED <<mpi, edge_kinds, probe, shm, p2p, conns, backlog, prepared, started, faults,
                   stranding>>

\* Both ends of every connection of r run the same data plane and placement.
FlagsMatch(r) == \A i \in 1 .. Len(RdmaConns(r)) :
                    setting.flags[Peer(r, RdmaConns(r)[i])] = setting.flags[r]

\* Every peer's info is there: check it, connect the queue pairs, post the
\* receives (or start the receive proxies), then exchange the ready bytes.
Prepare(r) ==
    /\ At(r, "info") /\ script[r] = <<>>
    /\ \E ok \in BOOLEAN :
         /\ Outcome(ok)
         /\ IF ok /\ FlagsMatch(r)
            THEN /\ prepared' = [prepared EXCEPT ![r] = TRUE]
                 /\ script' = [script EXCEPT ![r] = Exchange(r, "ready")]
                 /\ Goto(r, "confirm") /\ UNCHANGED result
            ELSE Throw(r) /\ UNCHANGED <<prepared, script>>
    /\ UNCHANGED <<mpi, edge_kinds, probe, shm, p2p, conns, backlog, sent, started, stranding>>

\* Start the send proxies (or the shared engine); the constructor returns.
Start(r) ==
    /\ At(r, "confirm") /\ script[r] = <<>>
    /\ started' = [started EXCEPT ![r] = TRUE]
    /\ Goto(r, "ready") /\ result' = [result EXCEPT ![r] = "ready"]
    /\ UNCHANGED <<mpi, edge_kinds, probe, shm, p2p, conns, backlog, script, sent, prepared,
                   faults, stranding>>

\* The owner destroys the communicator.
Destroy(r) ==
    /\ At(r, "ready") /\ Goto(r, "close")
    /\ UNCHANGED <<mpi, result, edge_kinds, probe, shm, p2p, tcp, faults, stranding>>
-----------------------------------------------------------------------------
DeviceStep(r) == ValidateDevice(r) \/ DiscoverNodes(r) \/ DeviceIdentity(r) \/ UniqueDevice(r)
ProbeStep(r) == ProbeDevice(r) \/ ProbeAllocate(r) \/ ProbeOpen(r) \/ ProbeFree(r)
ShmStep(r) == ShmCreate(r) \/ ShmOpen(r) \/ ShmUnlink(r)
P2pStep(r) == P2pDevice(r) \/ P2pExport(r) \/ P2pOpen(r) \/ P2pArm(r)
TcpStep(r) == CreateListener(r) \/ ExchangeEndpoints(r) \/ Connect(r) \/ Accept(r)
SetupStep(r) == SetupSocket(r) \/ SetupRdma(r) \/ Transfer(r) \/ Prepare(r) \/ Start(r)
TeardownStep(r) == P2pClose(r) \/ P2pFree(r)

\* What the thread of r does by itself.
Process(r) == DeviceStep(r) \/ ProbeStep(r) \/ Resolve(r) \/ ShmStep(r) \/ P2pStep(r)
              \/ TcpStep(r) \/ SetupStep(r) \/ TeardownStep(r)

Next == \E r \in Ranks : Process(r) \/ Destroy(r)

Spec == Init /\ [][Next]_vars

\* Every process runs, MPI and TCP make progress.
FairSpec == Spec /\ \A r \in Ranks : WF_vars(Process(r))
-----------------------------------------------------------------------------
(* Properties *)

\* All processes go through the same MPI collectives in the same order,
\* whatever transports their own edges use and whatever fails at whom: a
\* collective never meets a different one.
CollectivesMatch ==
    \A p, q \in Ranks : \A i \in 1 .. Len(calls[p]) :
        i <= Len(calls[q]) => calls[p][i].name = calls[q][i].name

\* Nothing fails by itself: a process throws only after a fault, for devices
\* or transports that the setting does not allow, or for flags that differ.
\* In particular regions are there when peers open them, and every HELLO that
\* arrives is expected.
Unsupported ==
    \/ \E p, q \in Ranks : /\ p # q /\ setting.host[p] = setting.host[q]
                           /\ setting.device[p] = setting.device[q]
    \/ \E e \in Ranks : resolve(e, setting.ipc[e]) = "none"
    \/ \E p, q \in Ranks : setting.flags[p] # setting.flags[q]
FailureHasCause == (\E r \in Ranks : result[r] = "threw") => faults > 0 \/ Unsupported

\* An exported region is never freed while the sender has it open: not after
\* a failed set-up, not when the wait for the sender times out.
RegionOutlivesMapping == \A r \in Ranks : mapped[r] => region[Next1(r)] # "freed"

\* No send proxy starts before the peer has posted its receives, and both run
\* the same data plane.
ReceiversFirst ==
    \A r \in Ranks : started[r] /\ edge_kinds[r][r] = "Rdma" =>
        prepared[Next1(r)] /\ setting.flags[r] = setting.flags[Next1(r)]

\* Creation ends everywhere, with a communicator or an exception and its
\* clean-up, unless a process was left waiting by one that threw between the
\* points of consensus.
CreationEnds == \A r \in Ranks : <>(stranding \/ pc[r] \in {"ready", "end"})
=============================================================================
