--------------------------- MODULE MCCommunicator ---------------------------
(* Instances of Communicator for TLC. *)
EXTENDS Communicator

\* A kernel that twice receives and sends.
RingSlices == <<{0, 1}, {0, 1}>>
=============================================================================
