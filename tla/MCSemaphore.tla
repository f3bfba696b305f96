---------------------------- MODULE MCSemaphore ----------------------------
(* Instances of Semaphore for TLC. *)
EXTENDS Semaphore, TLC

CONSTANTS c1, c2, c3, c4

\* One request is like another, and the run checks no liveness.
Alike == Permutations(Client)
=============================================================================
