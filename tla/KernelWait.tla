----------------------------- MODULE KernelWait -----------------------------
(***************************************************************************)
(* How the thread block of a collective kernel waits for a slice: thread 0 *)
(* polls for the incoming slice, thread 1 for a free slot of the outgoing  *)
(* edge, and either gives up when the abort flag is set.  In               *)
(* wait_recv_ready_and_send_credit both poll at once and share one plain   *)
(* word of shared memory, wait_status, between two barriers; wait_recv_    *)
(* ready and wait_send_credit have one of the two threads poll alone.      *)
(***************************************************************************)
EXTENDS Integers

VARIABLES abort,         \* the flag that record_failure sets
          wait_status,   \* 1: go on; 0: aborted
          wpc            \* where threads 0 and 1 are in the wait

Threads == {0, 1}

\* The first barrier: the given threads poll, the others go to the second one.
EnterWait(waiters) ==
    /\ wait_status' = 1
    /\ wpc' = [t \in Threads |-> IF t \in waiters THEN "enter" ELSE "done"]

At(t, place) == wpc[t] = place
GoTo(t, place) == wpc' = [wpc EXCEPT ![t] = place]

\* Mutant: the flag is not looked at before the first poll.
SkipEnter(t) == At(t, "enter") /\ GoTo(t, "spin") /\ UNCHANGED <<abort, wait_status>>

\* load_abort before the loop.
Enter(t) ==
    /\ At(t, "enter") /\ GoTo(t, "spin")
    /\ wait_status' = IF abort THEN 0 ELSE wait_status
    /\ UNCHANGED abort

\* The loop: it ends when there is something, when the other thread gave up,
\* or when the flag is set.
Spin(t, ready) ==
    /\ At(t, "spin")
    /\ ready \/ wait_status = 0 \/ abort
    /\ wait_status' = IF ~ready /\ abort THEN 0 ELSE wait_status
    /\ GoTo(t, "test")
    /\ UNCHANGED abort

\* if (*wait_status != 0) *wait_status = 1, a load and a store.
Test(t) ==
    /\ At(t, "test")
    /\ GoTo(t, IF wait_status # 0 THEN "store" ELSE "done")
    /\ UNCHANGED <<abort, wait_status>>

Store(t) ==
    /\ At(t, "store") /\ GoTo(t, "done")
    /\ wait_status' = 1
    /\ UNCHANGED abort

Poll(t, ready) == Enter(t) \/ Spin(t, ready) \/ Test(t) \/ Store(t)

\* The second barrier.
WaitOver == \A t \in Threads : At(t, "done")
=============================================================================
