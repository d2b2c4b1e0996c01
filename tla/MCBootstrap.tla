---------------------------- MODULE MCBootstrap ----------------------------
(* Instances of Bootstrap for TLC. *)
EXTENDS Bootstrap

Distinct == [r \in Ranks |-> r]
Same(v) == [r \in Ranks |-> v]

\* Ranks 0 and 1 share a node; or every rank has its own; or all share one.
TwoAndOne == [r \in Ranks |-> IF r = kRanks - 1 THEN r ELSE 0]
OneNode == Same(0)

With(requested, host, ipc) ==
    [requested |-> requested, host |-> host, device |-> Distinct, ipc |-> ipc,
     flags |-> Same("send_recv")]

\* One edge without CUDA IPC, so that a ring mixes P2P and SHM.
PartialIpc == [e \in Ranks |-> e # 0]

SomeSettings ==
    { With("Rdma", Distinct, Same(TRUE)), With("Rdma", TwoAndOne, Same(TRUE)),
      With("Socket", TwoAndOne, Same(TRUE)), With("Auto", TwoAndOne, Same(FALSE)),
      With("Auto", OneNode, PartialIpc), With("P2p", OneNode, PartialIpc),
      With("P2p", OneNode, Same(TRUE)), With("Shm", OneNode, Same(TRUE)),
      [With("Rdma", Distinct, Same(TRUE)) EXCEPT
          !.flags = [Same("send_recv") EXCEPT ![0] = "write_cts"]],
      [With("Shm", OneNode, Same(TRUE)) EXCEPT !.device = Same(0)] }
=============================================================================
