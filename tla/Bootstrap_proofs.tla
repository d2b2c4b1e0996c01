-------------------------- MODULE Bootstrap_proofs --------------------------
(***************************************************************************)
(* Proofs, for every number of ranks and channels, every setting and every *)
(* number of faults, that the processes go through the same collectives    *)
(* and that no exported region is freed while a peer has it open.          *)
(***************************************************************************)
EXTENDS Bootstrap, TLAPS, SequenceTheorems

(* The collectives, by position.  The transports of the edges, once every   *)
(* rank has contributed to the last collective before resolve, decide which *)
(* ones follow.                                                             *)

Base == IF Probing THEN 6 ELSE 3
Agreed == \A q \in Ranks : Len(calls[q]) >= Base
Kinds == [e \in Ranks |-> resolve(e, Probing /\ Len(calls[e]) >= 6 /\ calls[e][6].ok)]

Some(kind) == \E e \in Ranks : Kinds[e] = kind
Net == Some("Socket") \/ Some("Rdma")
ShmEnd == Base + (IF Some("Shm") THEN 2 ELSE 0)
P2pEnd == ShmEnd + (IF Some("P2p") THEN 2 ELSE 0)
NetEnd == P2pEnd + (IF Net THEN 2 ELSE 1)

\* The name of the i-th collective.
Named(i, name) ==
    /\ (i = 1 => name = "device") /\ (i = 2 => name = "nodes") /\ (i = 3 => name = "identity")
    /\ Probing => /\ (i = 4 => name = "probe_handles") /\ (i = 5 => name = "probe_barrier")
                  /\ (i = 6 => name = "probe_edges")
    /\ Some("Shm") => (i = Base + 1 => name = "shm_create") /\ (i = Base + 2 => name = "shm_map")
    /\ Some("P2p") => (i = ShmEnd + 1 => name = "p2p_export") /\ (i = ShmEnd + 2 => name = "p2p_map")
    /\ IF Net THEN (i = P2pEnd + 1 => name = "listener") /\ (i = P2pEnd + 2 => name = "endpoints")
              ELSE i = P2pEnd + 1 => name = "endpoints"

(* The inductive invariant.                                                 *)

Early == {"device", "nodes", "identity", "unique", "probe", "probe_alloc", "probe_open",
          "probe_free", "resolve"}
Network == {"connect", "accept", "setup", "setup_rdma", "info", "confirm", "ready"}
Late == {"shm", "shm_open", "shm_unlink", "p2p", "p2p_export", "p2p_open", "p2p_arm",
         "network", "endpoints"} \cup Network
Closing == {"close", "await", "end"}

Values == {0, TRUE, FALSE} \cup {setting.host[r] : r \in Ranks} \cup {setting.device[r] : r \in Ranks}
Collectives == {"device", "nodes", "identity", "probe_handles", "probe_barrier", "probe_edges",
                "shm_create", "shm_map", "p2p_export", "p2p_map", "listener", "endpoints"}
Entry == [name : Collectives, ok : BOOLEAN, value : Values]

TypeInv ==
    /\ pc \in [Ranks -> Early \cup Late \cup Closing]
    /\ calls \in [Ranks -> Seq(Entry)]
    /\ DOMAIN edge_kinds = Ranks /\ DOMAIN region = Ranks /\ DOMAIN wait_for_close = Ranks
    /\ closed \in [Ranks -> BOOLEAN] /\ mapped \in [Ranks -> BOOLEAN]

\* How many collectives a rank has entered, by where it is.  From Resolve on it
\* knows the transports, which are the same everywhere.
Placed(r) ==
    LET l == pc[r]
        n == Len(calls[r])
    IN  /\ (l = "device" => n = 0) /\ (l = "nodes" => n = 1) /\ (l = "identity" => n = 2)
        /\ l \in {"unique", "probe", "probe_alloc"} => n = 3
        /\ (l = "probe_open" => n = 4) /\ (l = "probe_free" => n = 5)
        /\ l \in {"probe", "probe_alloc", "probe_open", "probe_free"} => Probing
        /\ l \in {"resolve", "shm"} => n = Base
        /\ l \in Late => Agreed /\ edge_kinds[r] = Kinds
        /\ (l = "shm_open" => n = Base + 1) /\ (l = "shm_unlink" => n = Base + 2)
        /\ l \in {"shm_open", "shm_unlink"} => Some("Shm")
        /\ l \in {"p2p", "p2p_export"} => n = ShmEnd
        /\ (l = "p2p_open" => n = ShmEnd + 1) /\ (l = "p2p_arm" => n = ShmEnd + 2)
        /\ l \in {"p2p_export", "p2p_open", "p2p_arm"} => Some("P2p")
        /\ (l = "network" => n = P2pEnd)
        /\ (l = "endpoints" => n = P2pEnd + 1 /\ Net)
        /\ (l \in Network => n = NetEnd)
        /\ n <= Base \/ (Agreed /\ n <= NetEnd)

Names == \A r \in Ranks : \A i \in 1 .. Len(calls[r]) : Named(i, calls[r][i].name)

\* Every rank has exported what it must.
Exported == Some("P2p") /\ \A x \in Ranks : /\ Len(calls[x]) >= ShmEnd + 1
                                            /\ calls[x][ShmEnd + 1].ok

\* A rank that is done with the P2P set-up has seen a failed export or
\* everyone's answer to whether it has opened its edge.
Past(q) ==
    pc[q] \in Closing \cup Network \cup {"network", "endpoints"} /\ Agreed /\ Some("P2p")
            /\ Len(calls[q]) >= ShmEnd + 1 =>
        \/ \E x \in Ranks : Len(calls[x]) >= ShmEnd + 1 /\ ~calls[x][ShmEnd + 1].ok
        \/ \A x \in Ranks : Len(calls[x]) >= ShmEnd + 2

\* What a sender that has opened its receiver's region has seen and said.
Sender(r) == /\ Agreed /\ Exported /\ Kinds[r] = "P2p"
             /\ Len(calls[r]) >= ShmEnd + 2 /\ calls[r][ShmEnd + 2].value = TRUE

\* A rank that has its receiver's region open has said so; the receiver has
\* not looked yet or waits for the close.
Mapping(r) ==
    mapped[r] => /\ Sender(r)
                 /\ region[Next1(r)] # "freed"
                 /\ pc[Next1(r)] \in {"p2p_open", "p2p_arm"} \/ wait_for_close[Next1(r)]

\* A close control is only set by the sender, which has closed the region.
Closed(r) == closed[Next1(r)] => ~mapped[r] /\ pc[r] \in {"await", "end"}

IInv == /\ TypeInv /\ Names
        /\ \A r \in Ranks : Placed(r) /\ Past(r) /\ Mapping(r) /\ Closed(r)
-----------------------------------------------------------------------------
(* The ring, the sequences and what does not change.                        *)

\* Successors and predecessors in a ring of at least two ranks.
LEMMA Ring ==
    ASSUME NEW r \in Ranks
    PROVE  /\ Next1(r) \in Ranks /\ Next1(r) # r /\ Prev1(Next1(r)) = r
           /\ \A q \in Ranks : Next1(q) = Next1(r) => q = r
<1>1. kRanks \in Nat /\ kRanks >= 2
  BY BootstrapAssumption
<1>2. \A q \in Ranks : Next1(q) = IF q = kRanks - 1 THEN 0 ELSE q + 1
  BY <1>1 DEF Next1, Ranks
<1>3. \A q \in Ranks : Prev1(q) = IF q = 0 THEN kRanks - 1 ELSE q - 1
  BY <1>1 DEF Prev1, Ranks
<1> QED
  BY <1>1, <1>2, <1>3 DEF Ranks

\* The positions of the collectives.
LEMMA Positions ==
    /\ Base \in Nat /\ ShmEnd \in Nat /\ P2pEnd \in Nat /\ NetEnd \in Nat
    /\ (Probing => Base = 6) /\ (~Probing => Base = 3)
    /\ (Some("Shm") => ShmEnd = Base + 2) /\ (~Some("Shm") => ShmEnd = Base)
    /\ (Some("P2p") => P2pEnd = ShmEnd + 2) /\ (~Some("P2p") => P2pEnd = ShmEnd)
    /\ (Net => NetEnd = P2pEnd + 2) /\ (~Net => NetEnd = P2pEnd + 1)
<1>1. Base \in Nat /\ (Probing => Base = 6) /\ (~Probing => Base = 3)
  BY Zenon DEF Base
<1>2. ShmEnd \in Nat /\ (Some("Shm") => ShmEnd = Base + 2) /\ (~Some("Shm") => ShmEnd = Base)
  BY <1>1 DEF ShmEnd
<1>3. P2pEnd \in Nat /\ (Some("P2p") => P2pEnd = ShmEnd + 2) /\ (~Some("P2p") => P2pEnd = ShmEnd)
  BY <1>2 DEF P2pEnd
<1>4. NetEnd \in Nat /\ (Net => NetEnd = P2pEnd + 2) /\ (~Net => NetEnd = P2pEnd + 1)
  BY <1>3 DEF NetEnd
<1> QED
  BY <1>1, <1>2, <1>3, <1>4, Zenon

\* Collectives are only added.
Grows ==
    /\ setting' = setting
    /\ \A q \in Ranks : /\ Len(calls'[q]) \in Nat /\ Len(calls'[q]) >= Len(calls[q])
                        /\ \A i \in 1 .. Len(calls[q]) : calls'[q][i] = calls[q][i]

\* Once all ranks have entered the collectives before Resolve, what follows is
\* settled.
LEMMA Settled ==
    ASSUME TypeInv, Grows
    PROVE  /\ (Probing' <=> Probing) /\ Base' = Base
           /\ Agreed => /\ Agreed' /\ Kinds' = Kinds /\ \A k : Some(k)' <=> Some(k)
                        /\ (Net' <=> Net) /\ ShmEnd' = ShmEnd /\ P2pEnd' = P2pEnd /\ NetEnd' = NetEnd
<1>0. \A q \in Ranks : Len(calls[q]) \in Nat
  BY LenProperties, Zenon DEF TypeInv
<1>1. Probing' <=> Probing
  BY Zenon DEF Grows, Probing
<1>2. Base' = Base /\ Base \in Nat
  BY <1>1, Zenon DEF Base
<1> SUFFICES ASSUME Agreed
             PROVE  /\ Agreed' /\ Kinds' = Kinds /\ \A k : Some(k)' <=> Some(k)
                    /\ (Net' <=> Net) /\ ShmEnd' = ShmEnd /\ P2pEnd' = P2pEnd /\ NetEnd' = NetEnd
  BY <1>1, <1>2, Zenon
<1>3. Agreed'
  BY <1>0, <1>2 DEF Agreed, Grows
<1>4. \A e \in Ranks : \A c : resolve(e, c)' = resolve(e, c)
  BY Zenon DEF Grows, resolve
<1>5. ASSUME NEW e \in Ranks
      PROVE  resolve(e, Probing /\ Len(calls[e]) >= 6 /\ calls[e][6].ok)'
             = resolve(e, Probing /\ Len(calls[e]) >= 6 /\ calls[e][6].ok)
  <2>1. CASE Probing
    <3>1. Len(calls[e]) >= 6 /\ Len(calls'[e]) >= 6
      BY <1>0, <2>1 DEF Agreed, Base, Grows
    <3>2. calls'[e][6] = calls[e][6]
      BY <1>0, <3>1 DEF Grows
    <3> QED
      BY <1>1, <3>1, <3>2, Zenon DEF resolve, Grows
  <2>2. CASE ~Probing
    BY <1>1, <2>2, Zenon DEF resolve, Grows
  <2> QED
    BY <2>1, <2>2, Zenon
<1>6. Kinds' = Kinds
  BY <1>5, Zenon DEF Kinds
<1>7. \A k : Some(k)' <=> Some(k)
  BY <1>6, Zenon DEF Some
<1>8. Net' <=> Net
  BY <1>7, Zenon DEF Net
<1>9. ShmEnd' = ShmEnd
  BY <1>2, <1>7, Zenon DEF ShmEnd
<1>10. P2pEnd' = P2pEnd
  BY <1>7, <1>9, Zenon DEF P2pEnd
<1>11. NetEnd' = NetEnd
  BY <1>8, <1>10, Zenon DEF NetEnd
<1> QED
  BY <1>3, <1>6, <1>7, <1>8, <1>9, <1>10, <1>11, Zenon
-----------------------------------------------------------------------------
(* The steps of a rank, by what they do to its place and its collectives.   *)

Move(r, from, to) == At(r, from) /\ Goto(r, to)
Adds(r, name) == \E ok \in BOOLEAN, v \in Values : Enter(r, name, ok, v)

\* Steps that enter a collective.
Entering(r) ==
    \/ Move(r, "device", "nodes") /\ Adds(r, "device")
    \/ Move(r, "nodes", "identity") /\ Adds(r, "nodes")
    \/ Move(r, "identity", "unique") /\ Adds(r, "identity")
    \/ Move(r, "probe_alloc", "probe_open") /\ Adds(r, "probe_handles")
    \/ Move(r, "probe_open", "probe_free") /\ Adds(r, "probe_barrier")
    \/ Move(r, "probe_free", "resolve") /\ Adds(r, "probe_edges")
    \/ Move(r, "shm", "shm_open") /\ Adds(r, "shm_create") /\ Uses(r, "Shm")
    \/ Move(r, "shm_open", "shm_unlink") /\ Adds(r, "shm_map")
    \/ Move(r, "p2p_export", "p2p_open") /\ Adds(r, "p2p_export")
    \/ Move(r, "p2p_open", "p2p_arm") /\ Adds(r, "p2p_map")
    \/ Move(r, "network", "endpoints") /\ Adds(r, "listener") /\ UsesNetwork(r)
    \/ Move(r, "network", "connect") /\ Adds(r, "endpoints") /\ ~UsesNetwork(r)
    \/ Move(r, "endpoints", "connect") /\ Adds(r, "endpoints")

\* Steps that do not.
Passing(r) ==
    \/ Move(r, "unique", "probe") /\ Probing
    \/ Move(r, "unique", "resolve") /\ ~Probing
    \/ Move(r, "probe", "probe_alloc")
    \/ Move(r, "shm", "p2p") /\ ~Uses(r, "Shm")
    \/ Move(r, "shm_unlink", "p2p")
    \/ Move(r, "p2p", "p2p_export") /\ Uses(r, "P2p")
    \/ Move(r, "p2p", "network") /\ ~Uses(r, "P2p")
    \/ Move(r, "p2p_arm", "network") /\ Over(r)
    \/ pc[r] \in Network /\ (UNCHANGED pc \/ \E l \in Network : Goto(r, l))
    \/ Goto(r, "close") /\ (At(r, "p2p_open") => ~AllOk(r)) /\ (At(r, "p2p_open") \/ At(r, "p2p_arm") => Over(r))
       /\ pc[r] \notin Closing
    \/ Move(r, "close", "await")
    \/ Move(r, "await", "end")

Resolving(r) ==
    /\ Move(r, "resolve", "shm") /\ Over(r) /\ UNCHANGED calls
    /\ edge_kinds' = [edge_kinds EXCEPT ![r] = [e \in Ranks |-> resolve(e, Probing /\ From(e, r).ok)]]

\* Every step of a rank is one of these.
LEMMA StepCases ==
    ASSUME TypeInv, NEW r \in Ranks, Placed(r), Process(r) \/ Destroy(r)
    PROVE  /\ setting' = setting
           /\ \/ Entering(r) /\ edge_kinds' = edge_kinds
              \/ Passing(r) /\ UNCHANGED <<calls, edge_kinds>>
              \/ Resolving(r)
<1> DEFINE Goal == /\ setting' = setting
                   /\ \/ Entering(r) /\ edge_kinds' = edge_kinds
                      \/ Passing(r) /\ UNCHANGED <<calls, edge_kinds>>
                      \/ Resolving(r)
<1> SUFFICES Goal
  BY Zenon
<1>0. ASSUME NEW ok \in BOOLEAN, NEW name, Enter(r, name, ok, 0) \/ Enter(r, name, ok, TRUE)
                \/ Enter(r, name, ok, FALSE) \/ Enter(r, name, ok, setting.host[r])
                \/ Enter(r, name, ok, setting.device[r])
      PROVE  Adds(r, name)
  BY <1>0, Zenon DEF Adds, Values
<1>1. CASE ValidateDevice(r)
  BY <1>0, <1>1, Zenon DEF ValidateDevice, Entering, Move
<1>2. CASE DiscoverNodes(r)
  <2>1. CASE AllOk(r)
    BY <1>0, <1>2, <2>1, Zenon DEF DiscoverNodes, Entering, Move
  <2>2. CASE ~AllOk(r)
    BY <1>2, <2>2, Zenon DEF DiscoverNodes, Throw, Passing, At, Closing
  <2> QED
    BY <2>1, <2>2, Zenon
<1>3. CASE DeviceIdentity(r)
  BY <1>0, <1>3, Zenon DEF DeviceIdentity, Entering, Move
<1>4. CASE UniqueDevice(r)
  BY <1>4, Zenon DEF UniqueDevice, Throw, Passing, Move, At, Closing, mpi
<1>5. CASE ProbeDevice(r)
  BY <1>5, Zenon DEF ProbeDevice, SetDeviceOrStrand, Throw, Passing, Move, At, Closing, mpi
<1>6. CASE ProbeAllocate(r)
  BY <1>0, <1>6, Zenon DEF ProbeAllocate, Entering, Move
<1>7. CASE ProbeOpen(r)
  BY <1>0, <1>7, Zenon DEF ProbeOpen, Entering, Move
<1>8. CASE ProbeFree(r)
  <2>1. Len(calls[r]) = 5 /\ calls[r] \in Seq(Entry)
    BY <1>8, Zenon DEF ProbeFree, At, Placed, TypeInv
  <2>2. From(r, r).ok \in BOOLEAN
    <3>1. calls[r][5] \in Entry
      BY <2>1, ElementOfSeq
    <3> QED
      BY <2>1, <3>1, Zenon DEF From, Entry
  <2> QED
    BY <1>0, <1>8, <2>2, Zenon DEF ProbeFree, Entering, Move
<1>9. CASE Resolve(r)
  BY <1>9, Zenon DEF Resolve, Resolving, Throw, Passing, Move, At, Closing, mpi
<1>10. CASE ShmCreate(r)
  BY <1>0, <1>10, Zenon DEF ShmCreate, Entering, Passing, Move
<1>11. CASE ShmOpen(r)
  BY <1>0, <1>11, Zenon DEF ShmOpen, Throw, Entering, Passing, Move, At, Closing
<1>12. CASE ShmUnlink(r)
  BY <1>12, Zenon DEF ShmUnlink, Throw, Passing, Move, At, Closing, mpi
<1>13. CASE P2pDevice(r)
  BY <1>13, Zenon DEF P2pDevice, SetDeviceOrStrand, Throw, Passing, Move, At, Closing, mpi
<1>14. CASE P2pExport(r)
  BY <1>0, <1>14, Zenon DEF P2pExport, Entering, Move
<1>15. CASE P2pOpen(r)
  BY <1>0, <1>15, Zenon DEF P2pOpen, Throw, Entering, Passing, Move, At, Closing
<1>16. CASE P2pArm(r)
  BY <1>16, Zenon DEF P2pArm, Throw, Passing, Move, At, Closing, mpi
<1>17. CASE CreateListener(r)
  BY <1>0, <1>17, Zenon DEF CreateListener, Entering, Move
<1>18. CASE ExchangeEndpoints(r)
  BY <1>0, <1>18, Zenon DEF ExchangeEndpoints, Throw, Entering, Passing, Move, At, Closing
<1>19. CASE Connect(r)
  BY <1>19, Zenon DEF Connect, Throw, Passing, At, Closing, Network, mpi
<1>20. CASE Accept(r)
  BY <1>20, Zenon DEF Accept, Throw, Passing, At, Closing, Network, mpi
<1>21. CASE SetupSocket(r) \/ SetupRdma(r)
  BY <1>21, Zenon DEF SetupSocket, SetupRdma, Throw, Passing, At, Closing, Network, mpi
<1>22. CASE Transfer(r)
  BY <1>22, Zenon DEF Transfer, Throw, Passing, At, Closing, Network, mpi
<1>23. CASE Prepare(r) \/ Start(r) \/ Destroy(r)
  BY <1>23, Zenon DEF Prepare, Start, Destroy, Throw, Passing, At, Closing, Network, mpi
<1>24. CASE P2pClose(r) \/ P2pFree(r)
  BY <1>24, Zenon DEF P2pClose, P2pFree, Passing, Move, mpi
<1> QED
  BY <1>1, <1>2, <1>3, <1>4, <1>5, <1>6, <1>7, <1>8, <1>9, <1>10, <1>11, <1>12, <1>13, <1>14,
     <1>15, <1>16, <1>17, <1>18, <1>19, <1>20, <1>21, <1>22, <1>23, <1>24, Zenon
     DEF Process, DeviceStep, ProbeStep, ShmStep, P2pStep, TcpStep, SetupStep, TeardownStep

\* What entering a collective does to the sequences.
LEMMA AddsOne ==
    ASSUME TypeInv, setting' = setting, NEW r \in Ranks, NEW name \in Collectives, Adds(r, name)
    PROVE  /\ calls' \in [Ranks -> Seq(Entry')] /\ Grows
           /\ Len(calls[r]) \in Nat /\ Len(calls'[r]) = Len(calls[r]) + 1
           /\ calls'[r][Len(calls[r]) + 1].name = name
           /\ \A q \in Ranks \ {r} : calls'[q] = calls[q]
<1>1. PICK ok \in BOOLEAN, v \in Values : Enter(r, name, ok, v)
  BY Zenon DEF Adds
<1>2. PICK e \in Entry : e.name = name /\ calls' = [calls EXCEPT ![r] = Append(@, e)]
  BY <1>1, Zenon DEF Enter, Entry
<1>3. Entry' = Entry
  BY Zenon DEF Entry, Values
<1>4. calls \in [Ranks -> Seq(Entry)]
  BY Zenon DEF TypeInv
<1>5. \A q \in Ranks \ {r} : calls'[q] = calls[q]
  BY <1>2, <1>4, Zenon
<1>6. calls'[r] = Append(calls[r], e) /\ calls[r] \in Seq(Entry)
  BY <1>2, <1>4, Zenon
<1>7. /\ Append(calls[r], e) \in Seq(Entry)
      /\ Len(calls[r]) \in Nat /\ Len(Append(calls[r], e)) = Len(calls[r]) + 1
      /\ Append(calls[r], e)[Len(calls[r]) + 1] = e
      /\ \A i \in 1 .. Len(calls[r]) : Append(calls[r], e)[i] = calls[r][i]
  BY <1>6, AppendProperties, LenProperties
<1>8. calls' \in [Ranks -> Seq(Entry)]
  BY <1>2, <1>4, <1>6, <1>7, Zenon
<1>9. \A q \in Ranks : Len(calls[q]) \in Nat
  BY <1>4, LenProperties, Zenon
<1>10. Grows
  <2>1. ASSUME NEW q \in Ranks
        PROVE  /\ Len(calls'[q]) \in Nat /\ Len(calls'[q]) >= Len(calls[q])
               /\ \A i \in 1 .. Len(calls[q]) : calls'[q][i] = calls[q][i]
    <3>1. CASE q = r
      <4>1. Len(calls'[r]) = Len(calls[r]) + 1
        BY <1>6, <1>7, Zenon
      <4>2. \A i \in 1 .. Len(calls[r]) : calls'[r][i] = calls[r][i]
        BY <1>6, <1>7, Zenon
      <4> QED
        BY <1>9, <3>1, <4>1, <4>2
    <3>2. CASE q # r
      <4>1. calls'[q] = calls[q]
        BY <1>5, <3>2, Zenon
      <4> QED
        BY <1>9, <4>1
    <3> QED
      BY <3>1, <3>2, Zenon
  <2> QED
    BY <2>1, Zenon DEF Grows
<1> QED
  BY <1>2, <1>3, <1>5, <1>6, <1>7, <1>8, <1>10, Zenon

\* Steps that enter nothing keep the sequences.
LEMMA AddsNone ==
    ASSUME TypeInv, setting' = setting, calls' = calls
    PROVE  calls' \in [Ranks -> Seq(Entry')] /\ Grows
<1>1. \A q \in Ranks : Len(calls[q]) \in Nat
  BY LenProperties, Zenon DEF TypeInv
<1>2. Entry' = Entry
  BY Zenon DEF Entry, Values
<1> QED
  BY <1>1, <1>2 DEF TypeInv, Grows

\* A step of r is a step of r only, as far as places and collectives go.
LEMMA Local ==
    ASSUME TypeInv, NEW r \in Ranks, Placed(r), Process(r) \/ Destroy(r)
    PROVE  /\ Grows /\ calls' \in [Ranks -> Seq(Entry')]
           /\ pc' \in [Ranks -> Early \cup Late \cup Closing]
           /\ DOMAIN edge_kinds' = Ranks
           /\ \A q \in Ranks \ {r} : /\ pc'[q] = pc[q] /\ calls'[q] = calls[q]
                                     /\ edge_kinds'[q] = edge_kinds[q]
<1>0. setting' = setting
  BY StepCases, Zenon
<1>1. CASE Entering(r) /\ edge_kinds' = edge_kinds
  <2>0. /\ \E name \in Collectives : Adds(r, name)
        /\ \E l \in Early \cup Late : Goto(r, l)
    <3>1. \E name \in Collectives : Adds(r, name)
      BY <1>1, Zenon DEF Entering, Collectives
    <3>2. \E l \in Early \cup Late : Goto(r, l)
      BY <1>1, Zenon DEF Entering, Move, Early, Late, Network
    <3> QED
      BY <3>1, <3>2, Zenon
  <2>1. PICK name \in Collectives, l \in Early \cup Late : Goto(r, l) /\ Adds(r, name)
    BY <2>0, Zenon
  <2>2. Grows /\ calls' \in [Ranks -> Seq(Entry')] /\ \A q \in Ranks \ {r} : calls'[q] = calls[q]
    BY <1>0, <2>1, AddsOne, Zenon
  <2>3. pc' \in [Ranks -> Early \cup Late \cup Closing] /\ \A q \in Ranks \ {r} : pc'[q] = pc[q]
    BY <2>1, Zenon DEF Goto, TypeInv
  <2> QED
    BY <1>1, <2>2, <2>3, Zenon DEF TypeInv
<1>2. CASE Passing(r) /\ UNCHANGED <<calls, edge_kinds>>
  <2>1. Grows /\ calls' \in [Ranks -> Seq(Entry')]
    BY <1>0, <1>2, AddsNone, Zenon
  <2>2. pc' = pc \/ \E l \in Early \cup Late \cup Closing : Goto(r, l)
    BY <1>2, Zenon DEF Passing, Move, Early, Late, Network, Closing
  <2>3. pc' \in [Ranks -> Early \cup Late \cup Closing] /\ \A q \in Ranks \ {r} : pc'[q] = pc[q]
    BY <2>2, Zenon DEF Goto, TypeInv
  <2> QED
    BY <1>2, <2>1, <2>3, Zenon DEF TypeInv
<1>3. CASE Resolving(r)
  <2>1. Grows /\ calls' \in [Ranks -> Seq(Entry')]
    BY <1>0, <1>3, AddsNone, Zenon DEF Resolving
  <2>2. pc' \in [Ranks -> Early \cup Late \cup Closing] /\ \A q \in Ranks \ {r} : pc'[q] = pc[q]
    BY <1>3, Zenon DEF Resolving, Move, Goto, TypeInv, Late
  <2>3. /\ DOMAIN edge_kinds' = Ranks
        /\ \A q \in Ranks \ {r} : edge_kinds'[q] = edge_kinds[q]
    BY <1>3, Zenon DEF Resolving, TypeInv
  <2> QED
    BY <1>3, <2>1, <2>2, <2>3, Zenon DEF Resolving
<1> QED
  BY <1>1, <1>2, <1>3, StepCases, Zenon

\* The place of a rank that does not move.
LEMMA PlaceKept ==
    ASSUME TypeInv, Grows, NEW q \in Ranks, Placed(q),
           pc'[q] = pc[q], calls'[q] = calls[q], edge_kinds'[q] = edge_kinds[q]
    PROVE  Placed(q)'
<1>1. /\ (Probing' <=> Probing) /\ Base' = Base
      /\ Agreed => /\ Agreed' /\ Kinds' = Kinds /\ \A k : Some(k)' <=> Some(k)
                   /\ (Net' <=> Net) /\ ShmEnd' = ShmEnd /\ P2pEnd' = P2pEnd /\ NetEnd' = NetEnd
  BY Settled, Zenon
<1>2. CASE Agreed
  BY <1>1, <1>2 DEF Placed
<1>3. CASE ~Agreed
  <2>1. pc[q] \notin Late
    BY <1>3, Zenon DEF Placed
  <2> QED
    BY <1>1, <1>3, <2>1, Zenon DEF Placed, Late, Network
<1> QED
  BY <1>2, <1>3, Zenon

\* After Resolve a rank knows which transports the ring uses.
LEMMA Known ==
    ASSUME NEW r \in Ranks, Placed(r), pc[r] \in Late
    PROVE  /\ Agreed /\ edge_kinds[r] = Kinds
           /\ \A k : Uses(r, k) <=> Some(k)
           /\ UsesNetwork(r) <=> Net
<1>1. Agreed /\ edge_kinds[r] = Kinds
  BY Zenon DEF Placed
<1>2. \A k : Uses(r, k) <=> Some(k)
  BY <1>1, Zenon DEF Uses, Some
<1> QED
  BY <1>1, <1>2, Zenon DEF UsesNetwork, Net

\* The place of the rank that moves.
LEMMA PlaceMoved ==
    ASSUME TypeInv, NEW r \in Ranks, Placed(r), Process(r) \/ Destroy(r)
    PROVE  Placed(r)'
<1>0. /\ Grows /\ setting' = setting
      /\ \/ Entering(r) /\ edge_kinds' = edge_kinds
         \/ Passing(r) /\ UNCHANGED <<calls, edge_kinds>>
         \/ Resolving(r)
  BY Local, StepCases, Zenon
<1>1. /\ (Probing' <=> Probing) /\ Base' = Base
      /\ Agreed => /\ Agreed' /\ Kinds' = Kinds /\ \A k : Some(k)' <=> Some(k)
                   /\ (Net' <=> Net) /\ ShmEnd' = ShmEnd /\ P2pEnd' = P2pEnd /\ NetEnd' = NetEnd
  BY <1>0, Settled, Zenon
<1>2. r \in DOMAIN pc /\ Len(calls[r]) \in Nat
  BY LenProperties, Zenon DEF TypeInv
<1>3. \A l : Goto(r, l) => pc'[r] = l
  BY <1>2, Zenon DEF Goto
<1>4. \A name \in Collectives : Adds(r, name) => Len(calls'[r]) = Len(calls[r]) + 1
  BY <1>0, AddsOne, Zenon
<1>5. CASE Entering(r) /\ edge_kinds' = edge_kinds
  <2>1. Len(calls'[r]) = Len(calls[r]) + 1
    BY <1>4, <1>5, Zenon DEF Entering, Collectives
  <2>2. CASE pc[r] \in Early
    <3>1. \/ pc[r] = "device" /\ pc'[r] = "nodes"
          \/ pc[r] = "nodes" /\ pc'[r] = "identity"
          \/ pc[r] = "identity" /\ pc'[r] = "unique"
          \/ pc[r] = "probe_alloc" /\ pc'[r] = "probe_open"
          \/ pc[r] = "probe_open" /\ pc'[r] = "probe_free"
          \/ pc[r] = "probe_free" /\ pc'[r] = "resolve"
      BY <1>3, <1>5, <2>2, Zenon DEF Entering, Move, At, Early
    <3> QED
      <4>1. pc'[r] \notin Late
        BY <3>1, Zenon DEF Late, Network
      <4>2. /\ (pc[r] = "device" => Len(calls[r]) = 0) /\ (pc[r] = "nodes" => Len(calls[r]) = 1)
            /\ (pc[r] = "identity" => Len(calls[r]) = 2)
            /\ (pc[r] = "probe_alloc" => Len(calls[r]) = 3 /\ Probing)
            /\ (pc[r] = "probe_open" => Len(calls[r]) = 4 /\ Probing)
            /\ (pc[r] = "probe_free" => Len(calls[r]) = 5 /\ Probing)
        BY Zenon DEF Placed
      <4>3. Base' \in Nat /\ Base' >= 3 /\ (Probing => Base' = 6 /\ Probing')
        BY <1>1, Positions
      <4> HIDE DEF Probing, Base
      <4>4. \/ pc'[r] = "nodes" /\ Len(calls'[r]) = 1
            \/ pc'[r] = "identity" /\ Len(calls'[r]) = 2
            \/ pc'[r] = "unique" /\ Len(calls'[r]) = 3
            \/ pc'[r] = "probe_open" /\ Len(calls'[r]) = 4 /\ Probing
            \/ pc'[r] = "probe_free" /\ Len(calls'[r]) = 5 /\ Probing
            \/ pc'[r] = "resolve" /\ Len(calls'[r]) = 6 /\ Probing
        <5> DEFINE n == Len(calls[r])
                   m == Len(calls'[r])
        <5>1. n \in Nat /\ m = n + 1
          BY <1>2, <2>1, Zenon
        <5> HIDE DEF n, m
        <5>2. /\ (n = 0 => m = 1) /\ (n = 1 => m = 2) /\ (n = 2 => m = 3) /\ (n = 3 => m = 4)
              /\ (n = 4 => m = 5) /\ (n = 5 => m = 6)
          BY <5>1
        <5> QED
          BY <3>1, <4>2, <5>2, Zenon DEF n, m
      <4>5. Len(calls'[r]) <= Base'
        <5> DEFINE m == Len(calls'[r])
                   b == Base'
        <5>1. m \in {1, 2, 3} \/ (m \in {4, 5, 6} /\ Probing)
          BY <4>4, Zenon
        <5>2. b \in Nat /\ b >= 3 /\ (Probing => b = 6)
          BY <4>3, Zenon
        <5> HIDE DEF m, b
        <5>3. m <= b
          BY <5>1, <5>2
        <5> QED
          BY <5>3, Zenon DEF m, b
      <4> QED
        BY <4>1, <4>3, <4>4, <4>5, Zenon DEF Placed, Late, Network
  <2>3. CASE pc[r] \in Late
    <3>1. /\ Agreed /\ edge_kinds[r] = Kinds
          /\ \A k : Uses(r, k) <=> Some(k)
          /\ UsesNetwork(r) <=> Net
      BY <2>3, Known, Zenon
    <3>2. \/ pc[r] = "shm" /\ pc'[r] = "shm_open" /\ Some("Shm")
          \/ pc[r] = "shm_open" /\ pc'[r] = "shm_unlink"
          \/ pc[r] = "p2p_export" /\ pc'[r] = "p2p_open"
          \/ pc[r] = "p2p_open" /\ pc'[r] = "p2p_arm"
          \/ pc[r] = "network" /\ pc'[r] = "endpoints" /\ Net
          \/ pc[r] = "network" /\ pc'[r] = "connect" /\ ~Net
          \/ pc[r] = "endpoints" /\ pc'[r] = "connect"
      BY <1>3, <1>5, <2>3, <3>1, Zenon DEF Entering, Move, At, Late, Network
    <3>3. /\ Agreed' /\ Kinds' = Kinds /\ (Some("Shm")' <=> Some("Shm"))
          /\ (Some("P2p")' <=> Some("P2p"))
          /\ (Net' <=> Net) /\ ShmEnd' = ShmEnd /\ P2pEnd' = P2pEnd /\ NetEnd' = NetEnd
      BY <1>1, <3>1, Zenon
    <3>4. edge_kinds'[r] = Kinds
      BY <1>5, <3>1, Zenon
    <3> QED
      BY <1>1, <1>2, <2>1, <3>1, <3>2, <3>3, <3>4, Positions, SMTT(30) DEF Placed, Late, Network
  <2> QED
    BY <1>5, <2>2, <2>3, Zenon DEF Entering, Move, At, Early, Late
<1>6. CASE Passing(r) /\ UNCHANGED <<calls, edge_kinds>>
  <2>1. CASE pc'[r] \in Closing
    <3>1. Len(calls[r]) <= Base \/ (Agreed /\ Len(calls[r]) <= NetEnd)
      BY Zenon DEF Placed
    <3> QED
      BY <1>1, <1>6, <2>1, <3>1, Zenon DEF Placed, Closing, Late, Network
  <2>2. CASE pc[r] \in Early /\ pc'[r] \notin Closing
    <3>1. \/ pc[r] = "unique" /\ pc'[r] = "probe" /\ Probing
          \/ pc[r] = "unique" /\ pc'[r] = "resolve" /\ ~Probing
          \/ pc[r] = "probe" /\ pc'[r] = "probe_alloc"
      BY <1>3, <1>6, <2>2, Zenon DEF Passing, Move, At, Early, Network, Closing
    <3> QED
      BY <1>1, <1>2, <1>6, <3>1, Positions, Zenon DEF Placed, Late, Network
  <2>3. CASE pc[r] \in Late /\ pc'[r] \notin Closing
    <3>1. /\ Agreed /\ edge_kinds[r] = Kinds
          /\ \A k : Uses(r, k) <=> Some(k)
      BY <2>3, Known, Zenon
    <3>2. \/ pc[r] = "shm" /\ pc'[r] = "p2p" /\ ~Some("Shm")
          \/ pc[r] = "shm_unlink" /\ pc'[r] = "p2p"
          \/ pc[r] = "p2p" /\ pc'[r] = "p2p_export" /\ Some("P2p")
          \/ pc[r] = "p2p" /\ pc'[r] = "network" /\ ~Some("P2p")
          \/ pc[r] = "p2p_arm" /\ pc'[r] = "network"
          \/ pc[r] \in Network /\ pc'[r] \in Network
      BY <1>3, <1>6, <2>3, <3>1, Zenon DEF Passing, Move, At, Late, Network, Closing
    <3>3. /\ Agreed' /\ Kinds' = Kinds /\ (Some("Shm")' <=> Some("Shm"))
          /\ (Some("P2p")' <=> Some("P2p"))
          /\ (Net' <=> Net) /\ ShmEnd' = ShmEnd /\ P2pEnd' = P2pEnd /\ NetEnd' = NetEnd
      BY <1>1, <3>1, Zenon
    <3>4. edge_kinds'[r] = Kinds
      BY <1>6, <3>1, Zenon
    <3> QED
      BY <1>1, <1>2, <1>6, <3>1, <3>2, <3>3, <3>4, Positions DEF Placed, Late, Network
  <2>4. pc[r] \in Closing => pc'[r] \in Closing
    BY <1>3, <1>6, Zenon DEF Passing, Move, At, Closing, Network
  <2> QED
    BY <2>1, <2>2, <2>3, <2>4, Zenon DEF TypeInv
<1>7. CASE Resolving(r)
  <2>1. Len(calls[r]) = Base /\ pc'[r] = "shm" /\ calls' = calls
    BY <1>3, <1>7, Zenon DEF Resolving, Move, At, Placed
  <2>2. Agreed
    BY <1>7, <2>1, Zenon DEF Resolving, Over, Agreed
  <2>3. ASSUME NEW e \in Ranks
        PROVE  resolve(e, Probing /\ From(e, r).ok)
               = resolve(e, Probing /\ Len(calls[e]) >= 6 /\ calls[e][6].ok)
    <3>1. Probing => From(e, r).ok = calls[e][6].ok /\ Len(calls[e]) >= 6
      BY <2>1, <2>2, Positions, Zenon DEF From, Agreed
    <3>2. CASE Probing
      <4>1. CASE calls[e][6].ok
        BY <3>1, <3>2, <4>1, Zenon DEF resolve
      <4>2. CASE ~calls[e][6].ok
        BY <3>1, <3>2, <4>2, Zenon DEF resolve
      <4> QED
        BY <4>1, <4>2, Zenon
    <3>3. CASE ~Probing
      BY <3>3, Zenon DEF resolve
    <3> QED
      BY <3>2, <3>3, Zenon
  <2>4. edge_kinds'[r] = [e \in Ranks |-> resolve(e, Probing /\ From(e, r).ok)]
    BY <1>7, Zenon DEF Resolving, TypeInv
  <2>5. edge_kinds'[r] = Kinds
    BY <2>3, <2>4, Zenon DEF Kinds
  <2> QED
    BY <1>1, <1>2, <2>1, <2>2, <2>5, Zenon DEF Placed, Late, Network
<1> QED
  BY <1>0, <1>5, <1>6, <1>7, Zenon

\* The name of a collective does not change any more once it has been entered.
LEMMA NamedKept ==
    ASSUME TypeInv, Grows, NEW i \in Nat, NEW name, i <= Base \/ Agreed
    PROVE  Named(i, name)' <=> Named(i, name)
<1>1. /\ (Probing' <=> Probing) /\ Base' = Base
      /\ Agreed => /\ Agreed' /\ Kinds' = Kinds /\ \A k : Some(k)' <=> Some(k)
                   /\ (Net' <=> Net) /\ ShmEnd' = ShmEnd /\ P2pEnd' = P2pEnd /\ NetEnd' = NetEnd
  BY Settled, Zenon
<1>2. CASE Agreed
  BY <1>1, <1>2, Zenon DEF Named
<1>3. CASE i <= Base
  <2>1. Base \in Nat /\ ShmEnd >= Base /\ P2pEnd >= Base /\ ShmEnd \in Nat /\ P2pEnd \in Nat
    BY Positions
  <2>2. ShmEnd' >= Base' /\ P2pEnd' >= Base' /\ ShmEnd' \in Nat /\ P2pEnd' \in Nat
    <3>1. ShmEnd' >= Base' /\ ShmEnd' \in Nat /\ Base' \in Nat
      BY <1>1, <2>1 DEF ShmEnd
    <3>2. P2pEnd' = ShmEnd' \/ P2pEnd' = ShmEnd' + 2
      <4> DEFINE s == ShmEnd'
      <4>1. s \in Nat /\ P2pEnd' = s + (IF Some("P2p")' THEN 2 ELSE 0)
        BY <3>1, Zenon DEF P2pEnd
      <4> HIDE DEF s
      <4>2. s + 0 = s
        BY <4>1
      <4>3. P2pEnd' = s \/ P2pEnd' = s + 2
        BY <4>1, <4>2, Zenon
      <4> QED
        BY <4>3, Zenon DEF s
    <3> QED
      BY <3>1, <3>2
  <2>3. /\ i # Base + 1 /\ i # Base + 2 /\ i # ShmEnd + 1 /\ i # ShmEnd + 2
        /\ i # P2pEnd + 1 /\ i # P2pEnd + 2
    BY <1>3, <2>1
  <2>4. /\ i # Base' + 1 /\ i # Base' + 2 /\ i # ShmEnd' + 1 /\ i # ShmEnd' + 2
        /\ i # P2pEnd' + 1 /\ i # P2pEnd' + 2
    <3>1. Base' = Base
      BY <1>1, Zenon
    <3> QED
      <4> DEFINE b == Base
                 s == ShmEnd'
                 p == P2pEnd'
      <4>1. b \in Nat /\ s \in Nat /\ p \in Nat /\ s >= b /\ p >= b /\ i <= b
        BY <1>3, <2>1, <2>2, <3>1, Zenon
      <4> HIDE DEF b, s, p
      <4>2. /\ i # b + 1 /\ i # b + 2 /\ i # s + 1 /\ i # s + 2
            /\ i # p + 1 /\ i # p + 2
        BY <4>1
      <4> QED
        BY <3>1, <4>2, Zenon DEF b, s, p
  <2> QED
    BY <1>1, <2>3, <2>4, Zenon DEF Named
<1> QED
  BY <1>2, <1>3, Zenon

\* The collective that a rank enters is the one of its position.
LEMMA NamedNew ==
    ASSUME TypeInv, NEW r \in Ranks, Placed(r), Entering(r), NEW p \in Nat, p = Len(calls[r]) + 1
    PROVE  \E name \in Collectives : /\ Adds(r, name) /\ Named(p, name)
                                     /\ p <= Base \/ Agreed
<1>0. Len(calls[r]) \in Nat
  BY LenProperties, Zenon DEF TypeInv
<1> DEFINE n == Len(calls[r])
           b == Base
           s == ShmEnd
           e == P2pEnd
<1>1. /\ n \in Nat /\ p = n + 1 /\ b \in Nat /\ s \in Nat /\ e \in Nat /\ b >= 3 /\ s >= b /\ e >= s
      /\ (Probing => b = 6) /\ (~Probing => b = 3)
      /\ (Some("Shm") => s = b + 2) /\ (~Some("Shm") => s = b)
      /\ (Some("P2p") => e = s + 2) /\ (~Some("P2p") => e = s)
  BY <1>0, Positions
<1>2. /\ (pc[r] = "device" => n = 0) /\ (pc[r] = "nodes" => n = 1) /\ (pc[r] = "identity" => n = 2)
      /\ (pc[r] = "probe_alloc" => n = 3 /\ Probing) /\ (pc[r] = "probe_open" => n = 4 /\ Probing)
      /\ (pc[r] = "probe_free" => n = 5 /\ Probing)
      /\ (pc[r] = "shm" => n = b) /\ (pc[r] = "shm_open" => n = b + 1 /\ Some("Shm"))
      /\ (pc[r] = "p2p_export" => n = s /\ Some("P2p"))
      /\ (pc[r] = "p2p_open" => n = s + 1 /\ Some("P2p"))
      /\ (pc[r] = "network" => n = e) /\ (pc[r] = "endpoints" => n = e + 1 /\ Net)
  BY Zenon DEF Placed
<1>3. pc[r] \in Late => /\ Agreed /\ (Uses(r, "Shm") <=> Some("Shm")) /\ (UsesNetwork(r) <=> Net)
  BY Known, Zenon
<1>4. \A name : Named(p, name) <=>
        /\ (p = 1 => name = "device") /\ (p = 2 => name = "nodes") /\ (p = 3 => name = "identity")
        /\ Probing => /\ (p = 4 => name = "probe_handles") /\ (p = 5 => name = "probe_barrier")
                      /\ (p = 6 => name = "probe_edges")
        /\ Some("Shm") => (p = b + 1 => name = "shm_create") /\ (p = b + 2 => name = "shm_map")
        /\ Some("P2p") => (p = s + 1 => name = "p2p_export") /\ (p = s + 2 => name = "p2p_map")
        /\ IF Net THEN (p = e + 1 => name = "listener") /\ (p = e + 2 => name = "endpoints")
                  ELSE p = e + 1 => name = "endpoints"
  BY Zenon DEF Named
<1> HIDE DEF n, b, s, e
<1>5. CASE Move(r, "device", "nodes") /\ Adds(r, "device")
  <2>1. p = 1 /\ p <= b
    BY <1>1, <1>2, <1>5 DEF Move, At
  <2> QED
    BY <1>1, <1>4, <1>5, <2>1 DEF Collectives, b
<1>6. CASE Move(r, "nodes", "identity") /\ Adds(r, "nodes")
  <2>1. p = 2 /\ p <= b
    BY <1>1, <1>2, <1>6 DEF Move, At
  <2> QED
    BY <1>1, <1>4, <1>6, <2>1 DEF Collectives, b
<1>7. CASE Move(r, "identity", "unique") /\ Adds(r, "identity")
  <2>1. p = 3 /\ p <= b
    BY <1>1, <1>2, <1>7 DEF Move, At
  <2> QED
    BY <1>1, <1>4, <1>7, <2>1 DEF Collectives, b
<1>8. CASE Move(r, "probe_alloc", "probe_open") /\ Adds(r, "probe_handles")
  <2>1. p = 4 /\ p <= b
    BY <1>1, <1>2, <1>8 DEF Move, At
  <2> QED
    BY <1>1, <1>4, <1>8, <2>1 DEF Collectives, b
<1>9. CASE Move(r, "probe_open", "probe_free") /\ Adds(r, "probe_barrier")
  <2>1. p = 5 /\ p <= b
    BY <1>1, <1>2, <1>9 DEF Move, At
  <2> QED
    BY <1>1, <1>4, <1>9, <2>1 DEF Collectives, b
<1>10. CASE Move(r, "probe_free", "resolve") /\ Adds(r, "probe_edges")
  <2>1. p = 6 /\ p <= b
    BY <1>1, <1>2, <1>10 DEF Move, At
  <2> QED
    BY <1>1, <1>4, <1>10, <2>1 DEF Collectives, b
<1>11. CASE Move(r, "shm", "shm_open") /\ Adds(r, "shm_create") /\ Uses(r, "Shm")
  <2>1. p = b + 1 /\ Some("Shm") /\ Agreed
    BY <1>1, <1>2, <1>3, <1>11, Zenon DEF Move, At, Late
  <2>2. Named(p, "shm_create")
    BY <1>1, <1>4, <2>1
  <2> QED
    BY <1>11, <2>1, <2>2, Zenon DEF Collectives
<1>12. CASE Move(r, "shm_open", "shm_unlink") /\ Adds(r, "shm_map")
  <2>1. p = b + 2 /\ Some("Shm") /\ Agreed
    BY <1>1, <1>2, <1>3, <1>12 DEF Move, At, Late
  <2>2. Named(p, "shm_map")
    BY <1>1, <1>4, <2>1
  <2> QED
    BY <1>12, <2>1, <2>2, Zenon DEF Collectives
<1>13. CASE Move(r, "p2p_export", "p2p_open") /\ Adds(r, "p2p_export")
  <2>1. p = s + 1 /\ Some("P2p") /\ Agreed
    BY <1>1, <1>2, <1>3, <1>13, Zenon DEF Move, At, Late
  <2>2. Named(p, "p2p_export")
    BY <1>1, <1>4, <2>1, SMTT(30)
  <2> QED
    BY <1>13, <2>1, <2>2, Zenon DEF Collectives
<1>14. CASE Move(r, "p2p_open", "p2p_arm") /\ Adds(r, "p2p_map")
  <2>1. p = s + 2 /\ Some("P2p") /\ Agreed
    BY <1>1, <1>2, <1>3, <1>14 DEF Move, At, Late
  <2>2. Named(p, "p2p_map")
    BY <1>1, <1>4, <2>1, SMTT(30)
  <2> QED
    BY <1>14, <2>1, <2>2, Zenon DEF Collectives
<1>15. CASE Move(r, "network", "endpoints") /\ Adds(r, "listener") /\ UsesNetwork(r)
  <2>1. p = e + 1 /\ Net /\ Agreed
    BY <1>1, <1>2, <1>3, <1>15, Zenon DEF Move, At, Late
  <2>2. Named(p, "listener")
    BY <1>1, <1>4, <2>1
  <2> QED
    BY <1>15, <2>1, <2>2, Zenon DEF Collectives
<1>16. CASE Move(r, "network", "connect") /\ Adds(r, "endpoints") /\ ~UsesNetwork(r)
  <2>1. p = e + 1 /\ ~Net /\ Agreed
    BY <1>1, <1>2, <1>3, <1>16, Zenon DEF Move, At, Late
  <2>2. Named(p, "endpoints")
    BY <1>1, <1>4, <2>1
  <2> QED
    BY <1>16, <2>1, <2>2, Zenon DEF Collectives
<1>17. CASE Move(r, "endpoints", "connect") /\ Adds(r, "endpoints")
  <2>1. p = e + 2 /\ Net /\ Agreed
    BY <1>1, <1>2, <1>3, <1>17 DEF Move, At, Late
  <2>2. Named(p, "endpoints")
    BY <1>1, <1>4, <2>1
  <2> QED
    BY <1>17, <2>1, <2>2, Zenon DEF Collectives
<1> QED
  BY <1>5, <1>6, <1>7, <1>8, <1>9, <1>10, <1>11, <1>12, <1>13, <1>14, <1>15, <1>16, <1>17, Zenon
     DEF Entering

\* Every collective that has been entered has the name of its position.
LEMMA NextNames ==
    ASSUME TypeInv, Names, \A q \in Ranks : Placed(q), NEW r \in Ranks, Process(r) \/ Destroy(r)
    PROVE  Names'
<1>1. Grows /\ \A q \in Ranks \ {r} : calls'[q] = calls[q]
  BY Local, Zenon
<1>2. \A q \in Ranks : Len(calls[q]) \in Nat
  BY LenProperties, Zenon DEF TypeInv
<1>3. ASSUME NEW q \in Ranks, NEW i \in 1 .. Len(calls[q]), NEW name, name = calls'[q][i].name
      PROVE  Named(i, name)'
  <2>1. i \in Nat /\ i \in 1 .. Len(calls'[q]) /\ calls'[q][i] = calls[q][i]
    BY <1>1, <1>2 DEF Grows
  <2>2. i <= Base \/ Agreed
    BY <1>2, Positions DEF Placed
  <2>3. Named(i, calls[q][i].name)
    BY Zenon DEF Names
  <2>4. Named(i, name)
    BY <1>3, <2>1, <2>3, Zenon
  <2> QED
    BY <1>1, <2>1, <2>2, <2>4, NamedKept, Zenon
<1> SUFFICES ASSUME NEW q \in Ranks, NEW i \in 1 .. Len(calls'[q]), NEW name, name = calls'[q][i].name
             PROVE  Named(i, name)'
  BY DEF Names, Named
<1>4. CASE calls' = calls
  BY <1>3, <1>4, Zenon
<1>5. CASE Entering(r)
  <2>0. PICK p \in Nat : p = Len(calls[r]) + 1
    BY <1>2
  <2>1. PICK new \in Collectives : Adds(r, new) /\ Named(p, new) /\ (p <= Base \/ Agreed)
    BY <1>5, <2>0, NamedNew, Zenon
  <2>2. Len(calls'[r]) = p /\ calls'[r][p].name = new
    BY <1>1, <2>0, <2>1, AddsOne, Zenon DEF Grows
  <2>3. Named(p, new)'
    BY <1>1, <2>0, <2>1, NamedKept, Zenon
  <2>4. CASE i \in 1 .. Len(calls[q])
    BY <1>3, <2>4, Zenon
  <2>5. CASE i \notin 1 .. Len(calls[q])
    <3>1. q = r /\ i = p
      BY <1>1, <1>2, <2>0, <2>2, <2>5
    <3>2. name = new
      BY <2>2, <3>1, Zenon
    <3> QED
      BY <2>3, <3>1, <3>2, Zenon
  <2> QED
    BY <2>4, <2>5, Zenon
<1> QED
  BY <1>4, <1>5, StepCases, Zenon DEF Resolving
-----------------------------------------------------------------------------
(* The exported regions.                                                    *)

\* The steps that touch regions, mappings and close controls.
LEMMA P2pCases ==
    ASSUME NEW r \in Ranks, Process(r) \/ Destroy(r)
    PROVE  \/ P2pExport(r) \/ P2pOpen(r) \/ P2pArm(r) \/ P2pClose(r) \/ P2pFree(r)
           \/ UNCHANGED p2p /\ pc[r] \notin {"p2p_open", "p2p_arm"} \cup Closing
<1> DEFINE Other == UNCHANGED p2p /\ pc[r] \notin {"p2p_open", "p2p_arm"} \cup Closing
<1>1. ASSUME DeviceStep(r) PROVE Other
  BY <1>1, Zenon DEF DeviceStep, ValidateDevice, DiscoverNodes, DeviceIdentity, UniqueDevice, At, Closing
<1>2. ASSUME ProbeStep(r) PROVE Other
  BY <1>2, ZenonT(40) DEF ProbeStep, ProbeDevice, ProbeAllocate, ProbeOpen, ProbeFree, At, Closing
<1>3. ASSUME Resolve(r) \/ Destroy(r) PROVE Other
  BY <1>3, Zenon DEF Resolve, Destroy, At, Closing
<1>4. ASSUME ShmStep(r) PROVE Other
  BY <1>4, Zenon DEF ShmStep, ShmCreate, ShmOpen, ShmUnlink, At, Closing
<1>5. ASSUME P2pDevice(r) PROVE Other
  BY <1>5, Zenon DEF P2pDevice, At, Closing
<1>6. ASSUME TcpStep(r) PROVE Other
  BY <1>6, Zenon DEF TcpStep, CreateListener, ExchangeEndpoints, Connect, Accept, At, Closing
<1>7. ASSUME SetupStep(r) PROVE Other
  BY <1>7, Zenon DEF SetupStep, SetupSocket, SetupRdma, Transfer, Prepare, Start, At, Closing
<1> QED
  BY <1>1, <1>2, <1>3, <1>4, <1>5, <1>6, <1>7, Zenon DEF Process, P2pStep, TeardownStep

\* The types of the state that the invariant reads.
LEMMA NextType ==
    ASSUME TypeInv, NEW r \in Ranks, Placed(r), Process(r) \/ Destroy(r)
    PROVE  TypeInv'
<1>1. /\ calls' \in [Ranks -> Seq(Entry')]
      /\ pc' \in [Ranks -> Early \cup Late \cup Closing]
      /\ DOMAIN edge_kinds' = Ranks
  BY Local, Zenon
<1>2. /\ DOMAIN region' = Ranks /\ DOMAIN wait_for_close' = Ranks
      /\ closed' \in [Ranks -> BOOLEAN] /\ mapped' \in [Ranks -> BOOLEAN]
  <2>0. /\ DOMAIN region = Ranks /\ DOMAIN wait_for_close = Ranks
        /\ closed \in [Ranks -> BOOLEAN] /\ mapped \in [Ranks -> BOOLEAN]
    BY Zenon DEF TypeInv
  <2>1. CASE P2pExport(r)
    BY <2>0, <2>1, Zenon DEF P2pExport
  <2>2. CASE P2pOpen(r)
    BY <2>0, <2>2, Zenon DEF P2pOpen
  <2>3. CASE P2pArm(r)
    BY <2>0, <2>3, Zenon DEF P2pArm
  <2>4. CASE P2pClose(r)
    <3>1. PICK ok \in BOOLEAN : /\ mapped' = [mapped EXCEPT ![r] = @ /\ ~ok]
                                /\ closed' = [closed EXCEPT ![Next1(r)] = @ \/ (mapped[r] /\ ok)]
      BY <2>4, Zenon DEF P2pClose
    <3> QED
      BY <2>0, <2>4, <3>1, Zenon DEF P2pClose
  <2>5. CASE P2pFree(r)
    BY <2>0, <2>5, Zenon DEF P2pFree
  <2>6. CASE UNCHANGED p2p
    BY <2>0, <2>6, Zenon DEF p2p
  <2> QED
    BY <2>1, <2>2, <2>3, <2>4, <2>5, <2>6, P2pCases, Zenon
<1> QED
  BY <1>1, <1>2, Zenon DEF TypeInv

\* Before Resolve a rank has entered at most the collectives up to there.
LEMMA InEarly ==
    ASSUME NEW r \in Ranks, Placed(r), pc[r] \in Early
    PROVE  Len(calls[r]) <= Base
<1> DEFINE n == Len(calls[r])
           b == Base
<1>1. b \in Nat /\ b >= 3 /\ (Probing => b = 6)
  BY Positions
<1>2. \/ n \in {0, 1, 2, 3} \/ n = b
      \/ n \in {4, 5} /\ Probing
  BY Zenon DEF Placed, Early
<1> HIDE DEF n, b
<1>3. n <= b
  BY <1>1, <1>2
<1> QED
  BY <1>3, Zenon DEF n, b

\* Before the exports it has entered at most those of the SHM set-up.
LEMMA BeforeP2p ==
    ASSUME NEW r \in Ranks, Placed(r),
           pc[r] \in {"shm", "shm_open", "shm_unlink", "p2p", "p2p_export"}
    PROVE  Len(calls[r]) <= ShmEnd
<1>1. CASE pc[r] \in {"shm", "shm_open", "shm_unlink"}
  BY <1>1, Positions DEF Placed
<1>2. CASE pc[r] \in {"p2p", "p2p_export"}
  BY <1>2, Positions DEF Placed
<1> QED
  BY <1>1, <1>2, Zenon

\* A failed export, and everyone's answer.
Refused == \E x \in Ranks : Len(calls[x]) >= ShmEnd + 1 /\ ~calls[x][ShmEnd + 1].ok
Answered == \A x \in Ranks : Len(calls[x]) >= ShmEnd + 2
Beyond == Closing \cup Network \cup {"network", "endpoints"}

\* Neither goes away.
LEMMA SeenKept ==
    ASSUME TypeInv, Grows, Agreed
    PROVE  (Refused => Refused') /\ (Answered => Answered')
<1>1. ShmEnd' = ShmEnd /\ ShmEnd \in Nat
  BY Settled, Positions, Zenon
<1>2. \A x \in Ranks : Len(calls[x]) \in Nat
  BY LenProperties, Zenon DEF TypeInv
<1>3. PICK s \in Nat : s = ShmEnd /\ s = ShmEnd'
  BY <1>1, Zenon
<1>4. \A x \in Ranks : Len(calls[x]) >= s + 1 => /\ Len(calls'[x]) >= s + 1
                                                 /\ calls'[x][s + 1] = calls[x][s + 1]
  BY <1>2, <1>3 DEF Grows
<1>5. \A x \in Ranks : Len(calls[x]) >= s + 2 => Len(calls'[x]) >= s + 2
  BY <1>2, <1>3 DEF Grows
<1>6. Refused => Refused'
  BY <1>3, <1>4, Zenon DEF Refused
<1>7. Answered => Answered'
  BY <1>3, <1>5, Zenon DEF Answered
<1> QED
  BY <1>6, <1>7, Zenon

\* A rank that has not got that far, or that has, keeps Past.
LEMMA PastKept ==
    ASSUME TypeInv, Grows, NEW q \in Ranks, Placed(q), Past(q), pc'[q] = pc[q], calls'[q] = calls[q]
    PROVE  Past(q)'
<1>0. /\ Base' = Base
      /\ Agreed => /\ Agreed' /\ (Some("P2p")' <=> Some("P2p")) /\ ShmEnd' = ShmEnd
  BY Settled, Zenon
<1>1. Len(calls[q]) \in Nat
  BY LenProperties, Zenon DEF TypeInv
<1>2. CASE Agreed
  <2>1. Past(q) => (pc[q] \in Beyond /\ Some("P2p") /\ Len(calls[q]) >= ShmEnd + 1 => Refused \/ Answered)
    BY <1>2, Zenon DEF Past, Beyond, Refused, Answered
  <2>2. (pc'[q] \in Beyond /\ Some("P2p")' /\ Len(calls'[q]) >= ShmEnd' + 1 => Refused' \/ Answered')
        => Past(q)'
    BY Zenon DEF Past, Beyond, Refused, Answered
  <2> QED
    BY <1>0, <1>2, <2>1, <2>2, SeenKept, Zenon
<1>3. CASE ~Agreed
  <2>1. Len(calls[q]) <= Base
    BY <1>3, Zenon DEF Placed
  <2>2. ShmEnd' \in Nat /\ ShmEnd' >= Base
    BY <1>0, Positions DEF ShmEnd
  <2>3. PICK s \in Nat : s = ShmEnd' /\ s >= Base
    BY <2>2, Zenon
  <2>4. ~(Len(calls'[q]) >= s + 1)
    BY <1>1, <2>1, <2>3, Positions
  <2> QED
    BY <2>3, <2>4, Zenon DEF Past
<1> QED
  BY <1>2, <1>3, Zenon

\* The rank that moves: it leaves the P2P set-up after a failed export or when
\* all have answered.
LEMMA PastMoved ==
    ASSUME TypeInv, NEW r \in Ranks, Placed(r), Past(r), Process(r) \/ Destroy(r)
    PROVE  Past(r)'
<1>0. Grows /\ Placed(r)'
  BY Local, PlaceMoved, Zenon
<1>1. /\ Base' = Base
      /\ Agreed => /\ Agreed' /\ (Some("P2p")' <=> Some("P2p")) /\ ShmEnd' = ShmEnd
  BY <1>0, Settled, Zenon
<1>2. Len(calls[r]) \in Nat /\ r \in DOMAIN pc
  BY LenProperties, Zenon DEF TypeInv
<1>3. \A l : Goto(r, l) => pc'[r] = l
  BY <1>2, Zenon DEF Goto
<1>4. SUFFICES ASSUME pc'[r] \in Beyond, Agreed', Some("P2p")', Len(calls'[r]) >= ShmEnd' + 1
               PROVE  Refused' \/ Answered'
  BY Zenon DEF Past, Beyond, Refused, Answered
<1>5. /\ \/ Entering(r)
         \/ Passing(r) /\ calls' = calls
         \/ Resolving(r)
      /\ setting' = setting
  BY StepCases, Zenon
<1>6. ~Resolving(r)
  BY <1>3, <1>4, Zenon DEF Resolving, Move, Beyond, Closing, Network
<1>7. Agreed
  <2>1. CASE Entering(r)
    <3>1. pc[r] \in {"network", "endpoints"}
      BY <1>3, <1>4, <2>1, Zenon DEF Entering, Move, At, Beyond, Closing, Network
    <3> QED
      BY <3>1, Zenon DEF Placed, Late
  <2>2. CASE calls' = calls
    BY <1>1, <1>4, <2>2, Zenon DEF Agreed
  <2> QED
    BY <1>5, <1>6, <2>1, <2>2, Zenon
<1>8. Some("P2p") /\ ShmEnd' = ShmEnd
  BY <1>1, <1>4, <1>7, Zenon
<1>9. SUFFICES Refused \/ Answered
  BY <1>0, <1>7, SeenKept, Zenon
<1>10. PICK s \in Nat : s = ShmEnd /\ P2pEnd = s + 2 /\ s >= Base /\ (Some("Shm") => s = Base + 2)
  BY <1>8, Positions
<1>11. pc[r] \in Beyond /\ Len(calls[r]) >= s + 1 => Refused \/ Answered
  BY <1>7, <1>8, <1>10, Zenon DEF Past, Beyond, Refused, Answered
<1>12. CASE Entering(r)
  <2>1. pc[r] \in {"network", "endpoints"}
    BY <1>3, <1>4, <1>12, Zenon DEF Entering, Move, At, Beyond, Closing, Network
  <2>2. Len(calls[r]) = s + 2 \/ Len(calls[r]) = s + 3
    BY <1>10, <2>1 DEF Placed
  <2> QED
    BY <1>10, <1>11, <2>1, <2>2 DEF Beyond
<1>13. CASE Passing(r) /\ calls' = calls
  <2>1. Len(calls[r]) >= s + 1
    BY <1>4, <1>8, <1>10, <1>13, Zenon
  <2>2. CASE pc[r] \in Beyond
    BY <1>11, <2>1, <2>2, Zenon
  <2>3. CASE pc[r] = "p2p_arm"
    <3>1. Over(r)
      BY <1>3, <1>4, <1>13, <2>3, Zenon DEF Passing, Move, At, Network
    <3>2. Len(calls[r]) = s + 2
      BY <1>10, <2>3, Zenon DEF Placed
    <3> QED
      BY <1>10, <3>1, <3>2, Zenon DEF Over, Answered
  <2>4. CASE pc[r] = "p2p_open"
    <3>1. Over(r) /\ ~AllOk(r)
      BY <1>3, <1>4, <1>13, <2>4, Zenon DEF Passing, Move, At, Network
    <3>2. Len(calls[r]) = s + 1
      BY <1>10, <2>4, Zenon DEF Placed
    <3> QED
      BY <1>10, <3>1, <3>2, Zenon DEF Over, AllOk, From, Refused
  <2>5. CASE pc[r] \notin Beyond \cup {"p2p_arm", "p2p_open"}
    <3>1. CASE pc[r] \in Early
      <4>1. Len(calls[r]) <= Base
        BY <3>1, InEarly, Zenon
      <4> QED
        BY <1>2, <1>10, <2>1, <4>1, Positions
    <3>2. CASE pc[r] \in {"shm", "shm_open", "shm_unlink", "p2p", "p2p_export"}
      <4>1. Len(calls[r]) <= s
        BY <1>10, <3>2, BeforeP2p, Zenon
      <4> QED
        BY <1>2, <2>1, <4>1
    <3> QED
      BY <2>5, <3>1, <3>2, Zenon DEF TypeInv, Beyond, Late, Early, Network, Closing
  <2> QED
    BY <2>2, <2>3, <2>4, <2>5, Zenon
<1> QED
  BY <1>5, <1>6, <1>12, <1>13, Zenon

\* What a sender has seen and said stays.
LEMMA SenderKept ==
    ASSUME TypeInv, Grows, NEW u \in Ranks, Sender(u)
    PROVE  Sender(u)'
<1>1. /\ Agreed' /\ Kinds' = Kinds /\ Some("P2p")' /\ ShmEnd' = ShmEnd /\ ShmEnd \in Nat
  BY Settled, Positions, Zenon DEF Sender, Exported
<1>2. PICK s \in Nat : s = ShmEnd /\ s = ShmEnd'
  BY <1>1, Zenon
<1>3. \A x \in Ranks : Len(calls[x]) \in Nat
  BY LenProperties, Zenon DEF TypeInv
<1>4. \A x \in Ranks : Len(calls[x]) >= s + 1 => /\ Len(calls'[x]) >= s + 1
                                                 /\ calls'[x][s + 1] = calls[x][s + 1]
  BY <1>2, <1>3 DEF Grows
<1>5. Len(calls[u]) >= s + 2 => /\ Len(calls'[u]) >= s + 2
                                /\ calls'[u][s + 2] = calls[u][s + 2]
  BY <1>2, <1>3 DEF Grows
<1>6. \A x \in Ranks : Len(calls[x]) >= s + 1 /\ calls[x][s + 1].ok
  BY <1>2, Zenon DEF Sender, Exported
<1>7. Exported'
  BY <1>1, <1>2, <1>4, <1>6, Zenon DEF Exported
<1>8. Kinds'[u] = "P2p" /\ Len(calls'[u]) >= s + 2 /\ calls'[u][s + 2].value = TRUE
  BY <1>1, <1>2, <1>5, Zenon DEF Sender
<1> QED
  BY <1>1, <1>2, <1>7, <1>8, Zenon DEF Sender

\* A rank opens its receiver's region only while the receiver is in the set-up.
LEMMA Opened ==
    ASSUME TypeInv, \A q \in Ranks : Placed(q) /\ Past(q), NEW r \in Ranks, Mapping(r),
           P2pOpen(r), mapped'[r]
    PROVE  /\ Sender(r)' /\ region'[Next1(r)] # "freed"
           /\ pc'[Next1(r)] \in {"p2p_open", "p2p_arm"}
<1> DEFINE q == Next1(r)
<1>1. q \in Ranks /\ q # r
  BY Ring, Zenon
<1>2. /\ pc[r] = "p2p_open" /\ Over(r) /\ Agreed /\ edge_kinds[r] = Kinds /\ Some("P2p")
      /\ Len(calls[r]) = ShmEnd + 1
  BY Zenon DEF P2pOpen, At, Placed, Late
<1>3. PICK s \in Nat : s = ShmEnd /\ s >= Base /\ Base \in Nat
  BY Positions
<1>4. \A x \in Ranks : Len(calls[x]) \in Nat
  BY LenProperties, Zenon DEF TypeInv
<1>5. CASE AllOk(r)
  <2>1. PICK ok \in BOOLEAN, opened \in BOOLEAN :
              /\ opened => Outgoing(r, "P2p") /\ control_name[q] = "linked" /\ region[q] = "live"
              /\ Enter(r, "p2p_map", ok /\ (Outgoing(r, "P2p") => control_name[q] = "linked" /\ region[q] = "live"),
                       opened)
              /\ mapped' = [mapped EXCEPT ![r] = opened]
    BY <1>5, Zenon DEF P2pOpen
  <2>2. opened = TRUE
    <3>1. mapped' = [mapped EXCEPT ![r] = opened]
      BY <2>1, Zenon
    <3> QED
      BY <3>1, Zenon DEF TypeInv
  <2>3. Outgoing(r, "P2p") /\ region[q] = "live" /\ region' = region /\ setting' = setting
    BY <2>1, <2>2, Zenon DEF P2pOpen
  <2>4. Kinds[r] = "P2p"
    BY <1>2, <2>3, Zenon DEF Outgoing
  <2>5. \A x \in Ranks : Len(calls[x]) >= s + 1 /\ calls[x][s + 1].ok
    BY <1>2, <1>3, <1>5, Zenon DEF AllOk, From, Over
  <2>6. Exported
    BY <1>2, <1>3, <2>5, Zenon DEF Exported
  <2>7. Adds(r, "p2p_map")
    BY <2>1, Zenon DEF Adds, Values
  <2>8. Grows
    BY <2>3, <2>7, AddsOne, Zenon DEF Collectives
  <2>9. Len(calls'[r]) = s + 2 /\ calls'[r][s + 2].value = TRUE
    <3> DEFINE e == [name |-> "p2p_map",
                     ok |-> ok /\ (Outgoing(r, "P2p") => control_name[q] = "linked" /\ region[q] = "live"),
                     value |-> opened]
    <3>1. calls' = [calls EXCEPT ![r] = Append(@, e)] /\ e.value = TRUE
      BY <2>1, <2>2, Zenon DEF Enter
    <3> HIDE DEF e
    <3>2. calls'[r] = Append(calls[r], e) /\ calls[r] \in Seq(Entry)
      BY <3>1, Zenon DEF TypeInv
    <3>3. Len(calls'[r]) = Len(calls[r]) + 1
      BY <2>3, <2>7, AddsOne, Zenon DEF Collectives
    <3>4. Append(calls[r], e)[Len(calls[r]) + 1] = e
      BY <3>2
    <3>5. Len(calls[r]) + 1 = s + 2
      BY <1>2, <1>3
    <3> QED
      BY <3>1, <3>2, <3>3, <3>4, <3>5, Zenon
  <2>10. /\ Agreed' /\ Kinds' = Kinds /\ Some("P2p")' /\ ShmEnd' = s
    BY <1>2, <1>3, <2>8, Settled, Zenon
  <2>11. Exported'
    <3>1. \A x \in Ranks : Len(calls'[x]) >= s + 1 /\ calls'[x][s + 1] = calls[x][s + 1]
      BY <1>3, <1>4, <2>5, <2>8 DEF Grows
    <3> QED
      BY <2>5, <2>10, <3>1, Zenon DEF Exported
  <2>12. Sender(r)'
    <3>1. Kinds'[r] = "P2p" /\ Len(calls'[r]) >= s + 2
      BY <1>3, <2>4, <2>9, <2>10
    <3> QED
      BY <2>9, <2>10, <2>11, <3>1, Zenon DEF Sender
  <2>13. pc[q] \notin Beyond
    <3>1. ~Refused
      BY <1>3, <2>5, Zenon DEF Refused
    <3>2. ~Answered
      BY <1>2, <1>3, <1>4 DEF Answered
    <3>3. Len(calls[q]) >= ShmEnd + 1
      BY <1>1, <1>3, <2>5, Zenon
    <3> QED
      BY <1>1, <1>2, <3>1, <3>2, <3>3, Zenon DEF Past, Beyond, Refused, Answered
  <2>14. pc[q] \in {"p2p_open", "p2p_arm"}
    <3>1. Len(calls[q]) \in Nat /\ Len(calls[q]) >= s + 1 /\ Placed(q)
      BY <1>1, <1>4, <2>5, Zenon
    <3>2. pc[q] \notin Early
      <4>1. ASSUME pc[q] \in Early PROVE Len(calls[q]) <= Base
        BY <1>1, <3>1, <4>1, InEarly, Zenon
      <4> QED
        BY <1>3, <3>1, <4>1
    <3>3. pc[q] \notin {"shm", "shm_open", "shm_unlink", "p2p", "p2p_export"}
      BY <1>1, <1>3, <3>1, BeforeP2p, SMTT(30)
    <3> QED
      BY <1>1, <2>13, <3>2, <3>3, Zenon DEF TypeInv, Beyond, Late, Network, Closing
  <2>15. pc'[q] = pc[q]
    BY <1>1, <1>5, Zenon DEF P2pOpen, Goto, TypeInv
  <2> QED
    BY <2>3, <2>12, <2>14, <2>15, Zenon
<1>6. CASE ~AllOk(r)
  <2>1. mapped[r]
    BY <1>6, Zenon DEF P2pOpen
  <2>2. Len(calls[r]) >= s + 2
    BY <1>3, <2>1, Zenon DEF Mapping, Sender
  <2> QED
    BY <1>2, <1>3, <1>4, <2>2, SMTT(30)
<1> QED
  BY <1>5, <1>6, Zenon

\* A receiver that a sender has mapped stays in the set-up or waits for it.
LEMMA ReceiverWaits ==
    ASSUME TypeInv, NEW u \in Ranks, NEW r \in Ranks, r = Next1(u), Placed(r), Sender(u),
           Process(r) \/ Destroy(r), ~closed[r], region[r] # "freed",
           pc[r] \in {"p2p_open", "p2p_arm"} \/ wait_for_close[r]
    PROVE  /\ region'[r] # "freed"
           /\ pc'[r] \in {"p2p_open", "p2p_arm"} \/ wait_for_close'[r]
<1>0. DOMAIN region = Ranks /\ DOMAIN wait_for_close = Ranks /\ DOMAIN pc = Ranks
  BY Zenon DEF TypeInv
<1>1. PICK s \in Nat : s = ShmEnd
  BY Positions, Zenon
<1>2. /\ \A x \in Ranks : Len(calls[x]) >= s + 1 /\ calls[x][s + 1].ok
      /\ Kinds[u] = "P2p" /\ calls[u][s + 2].value = TRUE
  BY <1>1, Zenon DEF Sender, Exported
<1>3. CASE P2pExport(r)
  BY <1>0, <1>3, Zenon DEF P2pExport, Goto
<1>4. CASE P2pOpen(r)
  <2>1. Len(calls[r]) = s + 1
    BY <1>1, <1>4, Zenon DEF P2pOpen, At, Placed
  <2>2. AllOk(r)
    BY <1>2, <2>1, Zenon DEF AllOk, From
  <2> QED
    BY <1>0, <1>4, <2>2, Zenon DEF P2pOpen, Goto
<1>5. CASE P2pArm(r)
  <2>1. Len(calls[r]) = s + 2 /\ edge_kinds[r] = Kinds
    BY <1>1, <1>5, Zenon DEF P2pArm, At, Placed, Late
  <2>2. Prev1(r) = u
    BY Ring, Zenon
  <2>3. Incoming(r, "P2p") /\ From(Prev1(r), r).value
    BY <1>2, <2>1, <2>2, Zenon DEF Incoming, From
  <2> QED
    BY <1>0, <1>5, <2>3, Zenon DEF P2pArm
<1>6. CASE P2pClose(r)
  BY <1>6, Zenon DEF P2pClose, At
<1>7. CASE P2pFree(r)
  <2>1. wait_for_close[r]
    BY <1>7, Zenon DEF P2pFree, At
  <2> QED
    BY <1>0, <1>7, <2>1, Zenon DEF P2pFree
<1>8. CASE UNCHANGED p2p /\ pc[r] \notin {"p2p_open", "p2p_arm"} \cup Closing
  BY <1>8, Zenon DEF p2p
<1> QED
  BY <1>3, <1>4, <1>5, <1>6, <1>7, <1>8, P2pCases, Zenon

\* A step leaves regions, mappings and waits of other ranks alone, and the close
\* control of all but the receiver.
LEMMA P2pLocal ==
    ASSUME TypeInv, NEW r \in Ranks, Process(r) \/ Destroy(r), NEW q \in Ranks, q # r
    PROVE  /\ region'[q] = region[q] /\ mapped'[q] = mapped[q] /\ wait_for_close'[q] = wait_for_close[q]
           /\ closed'[Next1(q)] = closed[Next1(q)]
<1>0. /\ Next1(q) # Next1(r) /\ Next1(q) \in Ranks /\ Next1(r) \in Ranks
  BY Ring, Zenon
<1>1. CASE P2pExport(r)
  BY <1>1, Zenon DEF P2pExport, TypeInv
<1>2. CASE P2pOpen(r)
  BY <1>2, Zenon DEF P2pOpen, TypeInv
<1>3. CASE P2pArm(r)
  BY <1>3, Zenon DEF P2pArm, TypeInv
<1>4. CASE P2pClose(r)
  BY <1>0, <1>4, Zenon DEF P2pClose, TypeInv
<1>5. CASE P2pFree(r)
  BY <1>5, Zenon DEF P2pFree, TypeInv
<1>6. CASE UNCHANGED p2p
  BY <1>6, Zenon DEF p2p
<1> QED
  BY <1>1, <1>2, <1>3, <1>4, <1>5, <1>6, P2pCases, Zenon

\* Open mappings, after any step.
LEMMA NextMapping ==
    ASSUME IInv, NEW r \in Ranks, Process(r) \/ Destroy(r), NEW u \in Ranks
    PROVE  Mapping(u)'
<1>0. TypeInv /\ \A q \in Ranks : Placed(q) /\ Past(q) /\ Mapping(q) /\ Closed(q)
  BY Zenon DEF IInv
<1>1. Grows /\ \A q \in Ranks \ {r} : pc'[q] = pc[q]
  BY <1>0, Local, Zenon
<1>2. Next1(u) \in Ranks /\ Next1(u) # u
  BY Ring, Zenon
<1> SUFFICES ASSUME mapped'[u]
             PROVE  /\ Sender(u)' /\ region'[Next1(u)] # "freed"
                    /\ pc'[Next1(u)] \in {"p2p_open", "p2p_arm"} \/ wait_for_close'[Next1(u)]
  BY Zenon DEF Mapping
<1>3. CASE u = r /\ P2pOpen(r)
  BY <1>0, <1>3, Opened, Zenon
<1>4. CASE ~(u = r /\ P2pOpen(r))
  <2>1. mapped[u]
    <3>1. CASE u # r
      BY <1>0, <3>1, P2pLocal, Zenon
    <3>2. CASE u = r
      <4>1. P2pExport(r) \/ P2pArm(r) \/ P2pClose(r) \/ P2pFree(r) \/ UNCHANGED p2p
        BY <1>4, <3>2, P2pCases, Zenon
      <4>2. CASE P2pClose(r)
        BY <1>0, <3>2, <4>2, Zenon DEF P2pClose, TypeInv
      <4>3. CASE ~P2pClose(r)
        <5>1. mapped' = mapped
          BY <4>1, <4>3, Zenon DEF P2pExport, P2pArm, P2pFree, p2p
        <5> QED
          BY <5>1, Zenon
      <4> QED
        BY <4>2, <4>3, Zenon
    <3> QED
      BY <3>1, <3>2, Zenon
  <2>2. /\ Sender(u) /\ region[Next1(u)] # "freed"
        /\ pc[Next1(u)] \in {"p2p_open", "p2p_arm"} \/ wait_for_close[Next1(u)]
        /\ ~closed[Next1(u)]
    BY <1>0, <2>1, Zenon DEF Mapping, Closed
  <2>3. Sender(u)'
    BY <1>0, <1>1, <2>2, SenderKept, Zenon
  <2>4. CASE Next1(u) = r
    BY <1>0, <2>2, <2>3, <2>4, ReceiverWaits, Zenon
  <2>5. CASE Next1(u) # r
    <3>1. /\ region'[Next1(u)] = region[Next1(u)] /\ wait_for_close'[Next1(u)] = wait_for_close[Next1(u)]
          /\ pc'[Next1(u)] = pc[Next1(u)]
      BY <1>0, <1>1, <1>2, <2>5, P2pLocal, Zenon
    <3> QED
      BY <2>2, <2>3, <3>1, Zenon
  <2> QED
    BY <2>4, <2>5, Zenon
<1> QED
  BY <1>3, <1>4, Zenon

\* Close controls, after any step.
LEMMA NextClosed ==
    ASSUME IInv, NEW r \in Ranks, Process(r) \/ Destroy(r), NEW u \in Ranks
    PROVE  Closed(u)'
<1>0. TypeInv /\ Placed(r) /\ Closed(u)
  BY Zenon DEF IInv
<1>1. CASE u # r
  <2>1. pc'[u] = pc[u] /\ closed'[Next1(u)] = closed[Next1(u)] /\ mapped'[u] = mapped[u]
    BY <1>0, <1>1, Local, P2pLocal, Zenon
  <2> QED
    BY <1>0, <2>1, Zenon DEF Closed
<1>2. CASE u = r
  <2>1. CASE P2pClose(r)
    <3>1. pc[r] = "close" /\ pc'[r] = "await"
      BY <1>0, <2>1, Zenon DEF P2pClose, At, Goto, TypeInv
    <3>2. ~closed[Next1(r)]
      BY <1>0, <1>2, <3>1, Zenon DEF Closed
    <3>3. PICK ok \in BOOLEAN : /\ mapped' = [mapped EXCEPT ![r] = @ /\ ~ok]
                                /\ closed' = [closed EXCEPT ![Next1(r)] = @ \/ (mapped[r] /\ ok)]
      BY <2>1, Zenon DEF P2pClose
    <3>4. Next1(r) \in Ranks
      BY Ring, Zenon
    <3>5. closed'[Next1(r)] => ok
      BY <1>0, <3>2, <3>3, <3>4, Zenon DEF TypeInv
    <3>6. ok => ~mapped'[r]
      BY <1>0, <3>3, Zenon DEF TypeInv
    <3> QED
      BY <1>2, <3>1, <3>5, <3>6, Zenon DEF Closed
  <2>2. CASE P2pFree(r)
    <3>1. pc'[r] = "end" /\ UNCHANGED <<closed, mapped>>
      BY <1>0, <2>2, Zenon DEF P2pFree, Goto, TypeInv
    <3> QED
      BY <1>0, <1>2, <3>1, Zenon DEF Closed
  <2>3. CASE ~P2pClose(r) /\ ~P2pFree(r)
    <3>1. closed' = closed /\ pc[r] \notin Closing
      BY <2>3, P2pCases, Zenon DEF P2pExport, P2pOpen, P2pArm, p2p, At, Closing
    <3> QED
      BY <1>0, <1>2, <3>1, Zenon DEF Closed, Closing
  <2> QED
    BY <2>1, <2>2, <2>3, Zenon
<1> QED
  BY <1>1, <1>2, Zenon
-----------------------------------------------------------------------------
(* The theorems.                                                            *)

\* The invariant holds when the processes start.
LEMMA InitInv == Init => IInv
<1> SUFFICES ASSUME Init PROVE IInv
  BY Zenon
<1>1. /\ pc = [r \in Ranks |-> "device"] /\ calls = [r \in Ranks |-> <<>>]
      /\ closed = [r \in Ranks |-> FALSE] /\ mapped = [r \in Ranks |-> FALSE]
      /\ region = [r \in Ranks |-> "none"] /\ wait_for_close = [r \in Ranks |-> FALSE]
      /\ DOMAIN edge_kinds = Ranks
  BY Zenon DEF Init, PerRank
<1>2. <<>> \in Seq(Entry) /\ Len(<<>>) = 0
  OBVIOUS
<1>3. TypeInv
  BY <1>1, <1>2, Zenon DEF TypeInv, Early
<1>4. \A r \in Ranks : pc[r] = "device" /\ Len(calls[r]) = 0 /\ ~closed[r] /\ ~mapped[r]
  BY <1>1, <1>2, Zenon
<1>5. Names
  BY <1>4 DEF Names
<1>6. ASSUME NEW r \in Ranks PROVE Placed(r)
  BY <1>4, Positions DEF Placed, Late, Network
<1>7. ASSUME NEW r \in Ranks PROVE Past(r) /\ Mapping(r) /\ Closed(r)
  BY <1>4, Ring, Zenon DEF Past, Mapping, Closed, Closing, Network
<1> QED
  BY <1>3, <1>5, <1>6, <1>7, Zenon DEF IInv

\* Every step keeps it.
LEMMA NextInv == IInv /\ [Next]_vars => IInv'
<1> SUFFICES ASSUME IInv, [Next]_vars PROVE IInv'
  BY Zenon
<1>0. TypeInv /\ Names /\ \A q \in Ranks : Placed(q) /\ Past(q) /\ Mapping(q) /\ Closed(q)
  BY Zenon DEF IInv
<1>1. ASSUME NEW r \in Ranks, Process(r) \/ Destroy(r)
      PROVE  IInv'
  <2>1. TypeInv' /\ Names'
    BY <1>0, <1>1, NextType, NextNames, Zenon
  <2>2. ASSUME NEW q \in Ranks PROVE Placed(q)' /\ Past(q)'
    <3>1. CASE q = r
      BY <1>0, <1>1, <3>1, PlaceMoved, PastMoved, Zenon
    <3>2. CASE q # r
      <4>1. /\ Grows /\ pc'[q] = pc[q] /\ calls'[q] = calls[q] /\ edge_kinds'[q] = edge_kinds[q]
        BY <1>0, <1>1, <3>2, Local, Zenon
      <4> QED
        BY <1>0, <4>1, PlaceKept, PastKept, Zenon
    <3> QED
      BY <3>1, <3>2, Zenon
  <2>3. ASSUME NEW q \in Ranks PROVE Mapping(q)' /\ Closed(q)'
    BY <1>1, NextMapping, NextClosed, Zenon
  <2> QED
    BY <2>1, <2>2, <2>3, Zenon DEF IInv
<1>2. CASE UNCHANGED vars
  <2>1. /\ setting' = setting /\ pc' = pc /\ calls' = calls /\ edge_kinds' = edge_kinds
        /\ region' = region /\ closed' = closed /\ mapped' = mapped
        /\ wait_for_close' = wait_for_close
    BY <1>2, Zenon DEF vars
  <2>2. Probing' = Probing /\ Base' = Base
    BY <2>1, Zenon DEF Probing, Base
  <2>3. Kinds' = Kinds
    BY <2>1, <2>2 DEF Kinds, resolve
  <2>4. (\A k : Some(k)' <=> Some(k)) /\ (Agreed' <=> Agreed) /\ (Net' <=> Net)
    BY <2>1, <2>2, <2>3, Zenon DEF Some, Agreed, Net
  <2>5. ShmEnd' = ShmEnd /\ P2pEnd' = P2pEnd /\ NetEnd' = NetEnd
    BY <2>2, <2>4, Zenon DEF ShmEnd, P2pEnd, NetEnd
  <2>6. Grows
    BY <1>0, <2>1, AddsNone, Zenon
  <2>7. TypeInv'
    BY <1>0, <2>1, ZenonT(40) DEF TypeInv, Entry, Values
  <2>8. ASSUME NEW q \in Ranks PROVE Placed(q)' /\ Past(q)'
    BY <1>0, <2>1, <2>6, PlaceKept, PastKept, Zenon
  <2>9. ASSUME NEW q \in Ranks PROVE Mapping(q)' /\ Closed(q)'
    <3>1. Sender(q) => Sender(q)'
      BY <1>0, <2>6, SenderKept, Zenon
    <3> QED
      BY <1>0, <2>1, <3>1, Zenon DEF Mapping, Closed
  <2>10. Names'
    <3>1. ASSUME NEW i, NEW name PROVE Named(i, name)' <=> Named(i, name)
      BY <2>2, <2>4, <2>5, Zenon DEF Named
    <3> QED
      BY <1>0, <2>1, <3>1, Zenon DEF Names
  <2> QED
    BY <2>7, <2>8, <2>9, <2>10, Zenon DEF IInv
<1> QED
  BY <1>1, <1>2, Zenon DEF Next

\* The inductive invariant holds throughout.
THEOREM Invariance == Spec => []IInv
  BY InitInv, NextInv, PTL DEF Spec

\* A position determines the name of the collective.
LEMMA OneName ==
    ASSUME NEW i \in Nat \ {0}, NEW m, NEW n, Named(i, m), Named(i, n), i <= Base \/ i <= NetEnd
    PROVE  m = n
<1> DEFINE b == Base
           s == ShmEnd
           e == P2pEnd
           t == NetEnd
<1>1. /\ b \in Nat /\ s \in Nat /\ e \in Nat /\ t \in Nat
      /\ (Probing => b = 6) /\ (~Probing => b = 3)
      /\ (Some("Shm") => s = b + 2) /\ (~Some("Shm") => s = b)
      /\ (Some("P2p") => e = s + 2) /\ (~Some("P2p") => e = s)
      /\ (Net => t = e + 2) /\ (~Net => t = e + 1)
      /\ i <= b \/ i <= t
  BY Positions, Zenon
<1> HIDE DEF b, s, e, t
<1>2. i <= t
  BY <1>1
<1>3. CASE i <= b
  <2>1. i \in {1, 2, 3} \/ (Probing /\ i \in {4, 5, 6})
    BY <1>1, <1>3
  <2> QED
    BY <2>1 DEF Named
<1>4. CASE i > b /\ i <= s
  <2>1. Some("Shm") /\ (i = b + 1 \/ i = b + 2)
    BY <1>1, <1>4
  <2> QED
    BY <2>1 DEF Named, b
<1>5. CASE i > s /\ i <= e
  <2>1. Some("P2p") /\ (i = s + 1 \/ i = s + 2)
    BY <1>1, <1>5
  <2> QED
    BY <2>1 DEF Named, s
<1>6. CASE i > e
  <2>1. (Net /\ (i = e + 1 \/ i = e + 2)) \/ (~Net /\ i = e + 1)
    BY <1>1, <1>2, <1>6
  <2> QED
    BY <2>1 DEF Named, e
<1> QED
  BY <1>1, <1>3, <1>4, <1>5, <1>6

\* create_communicator_from_mpi: all processes go through the same MPI
\* collectives in the same order, for every ring, every configured transport,
\* every placement of the ranks and whatever fails at whom.
THEOREM SameCollectives == Spec => []CollectivesMatch
<1>1. IInv => CollectivesMatch
  <2> SUFFICES ASSUME IInv, NEW p \in Ranks, NEW q \in Ranks, NEW i \in 1 .. Len(calls[p]),
                      i <= Len(calls[q])
               PROVE  calls[p][i].name = calls[q][i].name
    BY Zenon DEF CollectivesMatch
  <2>1. Len(calls[p]) \in Nat /\ Len(calls[q]) \in Nat
    BY LenProperties, Zenon DEF IInv, TypeInv
  <2>2. i \in Nat \ {0} /\ i \in 1 .. Len(calls[q])
    BY <2>1
  <2>3. Named(i, calls[p][i].name) /\ Named(i, calls[q][i].name)
    BY <2>2, Zenon DEF IInv, Names
  <2>4. Len(calls[p]) <= Base \/ Len(calls[p]) <= NetEnd
    BY Zenon DEF IInv, Placed
  <2>5. i <= Base \/ i <= NetEnd
    BY <2>1, <2>4, Positions
  <2> QED
    BY <2>2, <2>3, <2>5, OneName, Zenon
<1> QED
  BY <1>1, Invariance, PTL

\* ~MpiP2pOwner: a rank that still has its receiver's region open never sees it
\* freed: the receiver waits for the sender, or gives up and leaves the region
\* allocated, also after a failed set-up.
THEOREM RegionsOutlive == Spec => []RegionOutlivesMapping
<1>1. IInv => RegionOutlivesMapping
  BY Zenon DEF IInv, Mapping, RegionOutlivesMapping
<1> QED
  BY <1>1, Invariance, PTL
=============================================================================
