------------------------------ MODULE LeaseLock ------------------------------
(***************************************************************************)
(* What storage/lock promises, as its Locker interface words it: one key,  *)
(* held by at most one owner for a lease that runs out by itself.  A free  *)
(* key can be taken, only its holder gives it back or renews it, and no    *)
(* step but the end of the lease takes it from a holder that kept it.      *)
(***************************************************************************)
EXTENDS Naturals

CONSTANTS Owner,     \* the lock.Redis objects that compete for the key
          Nobody     \* the value of "holder" while the key is free

VARIABLES holder,    \* the owner whose ID the key stores
          left       \* ticks before the key expires, 0 when it is free

vars == <<holder, left>>

Init == holder = Nobody /\ left = 0

\* TryLock: "if the lock is held, return false at once".
Acquire(o) ==
  /\ holder = Nobody
  /\ holder' = o
  /\ left' \in Nat \ {0}

\* Unlock: "only the holder can release the lock".
Release(o) ==
  /\ holder = o
  /\ holder' = Nobody
  /\ left' = 0

\* Extend: "only the holder can extend".
Renew(o) ==
  /\ holder = o
  /\ holder' = o
  /\ left' \in Nat \ {0}

\* The lease runs down, and at its end the key is free again.
Elapse ==
  /\ holder # Nobody
  /\ left' = left - 1
  /\ holder' = IF left' = 0 THEN Nobody ELSE holder

Next == Elapse \/ \E o \in Owner : Acquire(o) \/ Release(o) \/ Renew(o)

Spec == Init /\ [][Next]_vars
=============================================================================
