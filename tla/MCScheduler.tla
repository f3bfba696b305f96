---------------------------- MODULE MCScheduler ----------------------------
(* Instances of Scheduler for TLC. *)
EXTENDS Scheduler, TLC

CONSTANTS p1, p2, t1, t2, t3

\* Two goroutines in a process and one in another.
TwoAndOne == t1 :> p1 @@ t2 :> p1 @@ t3 :> p2

\* Two goroutines in one process.
TwoInOne == t1 :> p1 @@ t2 :> p1

\* The goroutines of a process can be swapped.
Swap == Permutations({t1, t2})
=============================================================================
