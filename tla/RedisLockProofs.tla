--------------------------- MODULE RedisLockProofs ---------------------------
(* Theorems about RedisLock, for any set of instances, goroutines and ttls. *)
EXTENDS RedisLock, TLAPS

-----------------------------------------------------------------------------
(* Typing.                                                                 *)

\* The variables of every step have their types, the initial state included.
LEMMA InitTyped == Init => TypeOK
BY LockAssumption DEF Init, TypeOK, Call, State, Idle

LEMMA NextTyped == TypeOK /\ [Next]_vars => TypeOK'
<1> SUFFICES ASSUME TypeOK, [Next]_vars PROVE TypeOK'
  OBVIOUS
<1> USE LockAssumption DEF TypeOK, Call, State, Idle, Goto
<1>1. CASE UNCHANGED vars
  BY <1>1 DEF vars
<1>2. CASE Tick
  BY <1>2 DEF Tick
<1>3. ASSUME NEW i \in Instance, Crash(i) PROVE TypeOK'
  BY <1>3 DEF Crash
<1>4. ASSUME NEW w \in Worker, Locking(w) PROVE TypeOK'
  <2>1. CASE Begin(w)
    <3>1. PICK op \in {"Lock", "TryLock"}, t \in LockTTL :
            call' = [call EXCEPT ![w] = [op |-> op, ttl |-> t, tries |-> 0]]
      BY <2>1 DEF Begin
    <3> QED BY <2>1, <3>1 DEF Begin
  <2>2. CASE Grant(w) BY <2>2 DEF Grant
  <2>3. CASE Refuse(w) BY <2>3 DEF Refuse
  <2>4. CASE AskFails(w) BY <2>4 DEF AskFails
  <2>5. CASE Enter(w) BY <2>5 DEF Enter
  <2>6. CASE Refused(w) BY <2>6 DEF Refused
  <2>7. CASE Retry(w) BY <2>7 DEF Retry
  <2>8. CASE Cancel(w) BY <2>8 DEF Cancel
  <2> QED BY <1>4, <2>1, <2>2, <2>3, <2>4, <2>5, <2>6, <2>7, <2>8 DEF Locking
<1>5. ASSUME NEW w \in Worker, Unlocking(w) PROVE TypeOK'
  <2>1. CASE Unlock(w) BY <2>1 DEF Unlock
  <2>2. CASE ServerUnlock(w) BY <2>2 DEF ServerUnlock
  <2>3. CASE UnlockFails(w) BY <2>3 DEF UnlockFails
  <2>4. CASE Unlocked(w) BY <2>4 DEF Unlocked
  <2>5. CASE Abandon(w) BY <2>5 DEF Abandon
  <2> QED BY <1>5, <2>1, <2>2, <2>3, <2>4, <2>5 DEF Unlocking
<1>6. ASSUME NEW w \in Worker, Extending(w) PROVE TypeOK'
  <2>1. CASE Extend(w) BY <2>1 DEF Extend
  <2>2. CASE ServerGet(w) BY <2>2 DEF ServerGet
  <2>3. CASE Denied(w) BY <2>3 DEF Denied
  <2>4. CASE ServerExpire(w) BY <2>4 DEF ServerExpire
  <2>5. CASE ExpireFails(w) BY <2>5 DEF ExpireFails
  <2> QED BY <1>6, <2>1, <2>2, <2>3, <2>4, <2>5 DEF Extending
<1> QED BY <1>1, <1>2, <1>3, <1>4, <1>5, <1>6 DEF Next

\* Type correctness of the whole Locker interface.
THEOREM TypeCorrect == Spec => []TypeOK
BY InitTyped, NextTyped, PTL DEF Spec

-----------------------------------------------------------------------------
(* Keys and leases.                                                        *)

\* The ttl of a call never gets lost: neither a retry nor a lost reply sends
\* a SETNX with another one.
LEMMA NextCallHasTTL ==
  TypeOK /\ CallHasTTL /\ [Next]_vars => CallHasTTL'
<1> SUFFICES ASSUME TypeOK, CallHasTTL, [Next]_vars PROVE CallHasTTL'
  OBVIOUS
<1> USE LockAssumption DEF TypeOK, CallHasTTL, Goto, Call
<1>1. CASE UNCHANGED vars
  BY <1>1 DEF vars
<1>2. CASE Tick
  BY <1>2 DEF Tick
<1>3. ASSUME NEW i \in Instance, Crash(i) PROVE CallHasTTL'
  BY <1>3 DEF Crash
<1>4. ASSUME NEW w \in Worker, Locking(w) PROVE CallHasTTL'
  <2>1. CASE Begin(w)
    <3>1. PICK op \in {"Lock", "TryLock"}, t \in LockTTL :
            call' = [call EXCEPT ![w] = [op |-> op, ttl |-> t, tries |-> 0]]
      BY <2>1 DEF Begin
    <3> QED BY <2>1, <3>1 DEF Begin
  <2>2. CASE Grant(w) BY <2>2 DEF Grant
  <2>3. CASE Refuse(w) BY <2>3 DEF Refuse
  <2>4. CASE AskFails(w) BY <2>4 DEF AskFails
  <2>5. CASE Enter(w) BY <2>5 DEF Enter
  <2>6. CASE Refused(w) BY <2>6 DEF Refused
  <2>7. CASE Retry(w) BY <2>7 DEF Retry
  <2>8. CASE Cancel(w) BY <2>8 DEF Cancel
  <2> QED BY <1>4, <2>1, <2>2, <2>3, <2>4, <2>5, <2>6, <2>7, <2>8 DEF Locking
<1>5. ASSUME NEW w \in Worker, Unlocking(w) PROVE CallHasTTL'
  <2>1. CASE Unlock(w) BY <2>1 DEF Unlock
  <2>2. CASE ServerUnlock(w) BY <2>2 DEF ServerUnlock
  <2>3. CASE UnlockFails(w) BY <2>3 DEF UnlockFails
  <2>4. CASE Unlocked(w) BY <2>4 DEF Unlocked
  <2>5. CASE Abandon(w) BY <2>5 DEF Abandon
  <2> QED BY <1>5, <2>1, <2>2, <2>3, <2>4, <2>5 DEF Unlocking
<1>6. ASSUME NEW w \in Worker, Extending(w) PROVE CallHasTTL'
  <2>1. CASE Extend(w) BY <2>1 DEF Extend
  <2>2. CASE ServerGet(w) BY <2>2 DEF ServerGet
  <2>3. CASE Denied(w) BY <2>3 DEF Denied
  <2>4. CASE ServerExpire(w) BY <2>4 DEF ServerExpire
  <2>5. CASE ExpireFails(w) BY <2>5 DEF ExpireFails
  <2> QED BY <1>6, <2>1, <2>2, <2>3, <2>4, <2>5 DEF Extending
<1> QED BY <1>1, <1>2, <1>3, <1>4, <1>5, <1>6 DEF Next

\* No step stores a key without a ttl or leaves time on a free key.
LEMMA NextKeyHasTTL ==
  TypeOK /\ CallHasTTL /\ KeyHasTTL /\ [Next]_vars => KeyHasTTL'
<1> SUFFICES ASSUME TypeOK, CallHasTTL, KeyHasTTL, [Next]_vars PROVE KeyHasTTL'
  OBVIOUS
<1> USE LockAssumption DEF TypeOK, CallHasTTL, KeyHasTTL
<1>1. CASE UNCHANGED vars
  BY <1>1 DEF vars
<1>2. CASE Tick
  BY <1>2 DEF Tick
<1>3. ASSUME NEW i \in Instance, Crash(i) PROVE KeyHasTTL'
  BY <1>3 DEF Crash
<1>4. ASSUME NEW w \in Worker, Locking(w) PROVE KeyHasTTL'
  <2>1. CASE Grant(w) BY <2>1 DEF Grant
  <2>2. CASE UNCHANGED <<owner, left>> BY <2>2
  <2> QED BY <1>4, <2>1, <2>2
      DEF Locking, Begin, Refuse, AskFails, Enter, Refused, Retry, Cancel
<1>5. ASSUME NEW w \in Worker, Unlocking(w) PROVE KeyHasTTL'
  BY <1>5 DEF Unlocking, Unlock, ServerUnlock, UnlockFails, Unlocked, Abandon
<1>6. ASSUME NEW w \in Worker, Extending(w) PROVE KeyHasTTL'
  BY <1>6 DEF Extending, Extend, ServerGet, Denied, ServerExpire, ExpireFails
<1> QED BY <1>1, <1>2, <1>3, <1>4, <1>5, <1>6 DEF Next

KeyInv == TypeOK /\ CallHasTTL /\ KeyHasTTL

LEMMA InitKey == Init => KeyInv
BY InitTyped DEF Init, KeyInv, CallHasTTL, KeyHasTTL

LEMMA NextKey == KeyInv /\ [Next]_vars => KeyInv'
BY NextTyped, NextCallHasTTL, NextKeyHasTTL DEF KeyInv

\* However clients crash, lose replies or extend each other's key, the server
\* never stores a lock without a time to live.
THEOREM NoEternalKey == Spec => []KeyHasTTL
<1>1. KeyInv => KeyHasTTL BY DEF KeyInv
<1> QED BY InitKey, NextKey, <1>1, PTL DEF Spec

-----------------------------------------------------------------------------
(* Mutual exclusion.                                                       *)

\* Of the steps of a Lock or TryLock call only the grant touches the key.
LEMMA LockingLocal ==
  ASSUME NEW w \in Worker, Locking(w), ~ Grant(w)
  PROVE  UNCHANGED <<owner, left, lease>>
<1>1. CASE Begin(w) BY <1>1 DEF Begin
<1>2. CASE Refuse(w) BY <1>2 DEF Refuse
<1>3. CASE AskFails(w) BY <1>3 DEF AskFails
<1>4. CASE Enter(w) BY <1>4 DEF Enter
<1>5. CASE Refused(w) BY <1>5, Zenon DEF Refused
<1>6. CASE Retry(w) BY <1>6 DEF Retry
<1>7. CASE Cancel(w) BY <1>7 DEF Cancel
<1> QED BY <1>1, <1>2, <1>3, <1>4, <1>5, <1>6, <1>7 DEF Locking

\* No lease is longer than the time Extend asks for: why an EXPIRE that hits
\* somebody else's key does not shorten it.
LeaseBounded == \A w \in Worker : lease[w] <= ExtendTTL

LeaseInv == KeyInv /\ GrantBacked /\ LeaseBounded

LEMMA InitLease == Init => LeaseInv
BY InitKey, LockAssumption DEF Init, LeaseInv, GrantBacked, LeaseBounded

\* While the key is free or another instance's, a goroutine has no lease left.
LEMMA NoLeaseWithoutKey ==
  ASSUME LeaseInv, NEW v \in Worker, owner # Home[v]
  PROVE  lease[v] = 0
BY DEF LeaseInv, GrantBacked, KeyInv, TypeOK

\* Only the clock, a grant, an Unlock script and an EXPIRE touch a lease or the
\* key, and each leaves every running lease backed by the key.
LEMMA NextLease ==
  ASSUME OneWorkerPerInstance, LongExtend
  PROVE  LeaseInv /\ [Next]_vars => LeaseInv'
<1> SUFFICES ASSUME LeaseInv, [Next]_vars PROVE LeaseInv'
  OBVIOUS
<1>0. KeyInv' BY NextKey DEF LeaseInv
<1> SUFFICES (GrantBacked /\ LeaseBounded)'
  BY <1>0 DEF LeaseInv
<1>k. ~ (\E v \in Worker : owner = Nobody /\ lease[v] # 0)
  BY NoLeaseWithoutKey, LockAssumption
<1> USE LockAssumption DEF TypeOK, LeaseInv, KeyInv, GrantBacked, LeaseBounded
<1>1. CASE UNCHANGED <<owner, left, lease>>
  BY <1>1
<1>2. CASE Tick
  BY <1>2 DEF Tick
<1>3. ASSUME NEW w \in Worker, Grant(w) PROVE (GrantBacked /\ LeaseBounded)'
  <2>1. call[w].ttl \in LockTTL /\ owner = Nobody
    BY <1>3 DEF Grant, CallHasTTL
  <2>2. call[w].ttl <= ExtendTTL
    BY <2>1 DEF LongExtend
  <2>3. owner' = Home[w] /\ left' = call[w].ttl
    BY <1>3 DEF Grant
  <2>4. \A v \in Worker : lease[v] = 0
    BY <2>1, <1>k
  <2>5. \A v \in Worker : lease'[v] = 0 \/ (v = w /\ lease'[v] = call[w].ttl)
    BY <1>3, <2>4 DEF Grant
  <2>6. call[w].ttl \in Nat /\ ExtendTTL \in Nat
    BY <2>1
  <2>7. ASSUME NEW v \in Worker
        PROVE  /\ lease'[v] > 0 => owner' = Home[v] /\ left' >= lease'[v]
               /\ lease'[v] <= ExtendTTL
    <3>1. CASE lease'[v] = 0 BY <3>1, <2>6
    <3>2. CASE v = w /\ lease'[v] = call[w].ttl BY <3>2, <2>2, <2>3, <2>6
    <3> QED BY <3>1, <3>2, <2>5
  <2> QED BY <2>7
<1>4. ASSUME NEW w \in Worker, ServerUnlock(w)
      PROVE (GrantBacked /\ LeaseBounded)'
  <2>1. CASE owner # Home[w]
    BY <1>4, <2>1 DEF ServerUnlock
  <2>2. CASE owner = Home[w]
    <3>1. \A v \in Worker : v # w => lease[v] = 0
      BY <2>2, NoLeaseWithoutKey DEF OneWorkerPerInstance
    <3>2. \A v \in Worker : lease'[v] = 0
      BY <1>4, <2>2, <3>1 DEF ServerUnlock
    <3> QED BY <3>2
  <2> QED BY <2>1, <2>2
<1>5. ASSUME NEW w \in Worker, ServerExpire(w)
      PROVE (GrantBacked /\ LeaseBounded)'
  <2>1. owner' = owner /\ (owner = Nobody \/ left' = ExtendTTL)
    BY <1>5 DEF ServerExpire
  <2>2. CASE owner # Home[w]
    <3>1. lease' = lease
      BY <1>5, <2>2 DEF ServerExpire
    <3> QED BY <2>1, <3>1, <1>k
  <2>3. CASE owner = Home[w]
    <3>1. \A v \in Worker : v # w => lease[v] = 0
      BY <2>3, NoLeaseWithoutKey DEF OneWorkerPerInstance
    <3>2. \A v \in Worker : lease'[v] = IF v = w THEN ExtendTTL ELSE 0
      BY <1>5, <2>3, <3>1 DEF ServerExpire
    <3>3. owner # Nobody BY <2>3
    <3> QED BY <2>1, <2>3, <3>2, <3>3
  <2> QED BY <2>2, <2>3
<1>6. ASSUME NEW i \in Instance, Crash(i) PROVE UNCHANGED <<owner, left, lease>>
  BY <1>6 DEF Crash
<1>7. ASSUME NEW w \in Worker, Locking(w), ~ Grant(w)
      PROVE UNCHANGED <<owner, left, lease>>
  BY <1>7, LockingLocal
<1>8. ASSUME NEW w \in Worker, Unlocking(w), ~ ServerUnlock(w)
      PROVE UNCHANGED <<owner, left, lease>>
  BY <1>8 DEF Unlocking, Unlock, UnlockFails, Unlocked, Abandon
<1>9. ASSUME NEW w \in Worker, Extending(w), ~ ServerExpire(w)
      PROVE UNCHANGED <<owner, left, lease>>
  BY <1>9 DEF Extending, Extend, ServerGet, Denied, ExpireFails
<1> QED BY <1>1, <1>2, <1>3, <1>4, <1>5, <1>6, <1>7, <1>8, <1>9
    DEF Next, vars

\* Two goroutines with backed leases have the same owner ID, that is the same
\* instance, and so are one.
LEMMA LeaseExcludes ==
  ASSUME OneWorkerPerInstance
  PROVE  LeaseInv => MutualExclusion
BY DEF OneWorkerPerInstance, LeaseInv, GrantBacked, MutualExclusion, InSection

\* The lock excludes, for every number of clients, crash, lost message and
\* expiry, provided no two goroutines share an instance and Extend never asks
\* for less time than Lock did.
THEOREM Mutex ==
  ASSUME OneWorkerPerInstance, LongExtend
  PROVE  Spec => []MutualExclusion
<1>1. LeaseInv /\ [Next]_vars => LeaseInv' BY NextLease
<1>2. LeaseInv => MutualExclusion BY LeaseExcludes
<1> QED BY InitLease, <1>1, <1>2, PTL DEF Spec

\* The same invariant: a lease that still runs is backed by the stored key.
THEOREM Backed ==
  ASSUME OneWorkerPerInstance, LongExtend
  PROVE  Spec => []GrantBacked
<1>1. LeaseInv /\ [Next]_vars => LeaseInv' BY NextLease
<1>2. LeaseInv => GrantBacked BY DEF LeaseInv
<1> QED BY InitLease, <1>1, <1>2, PTL DEF Spec

-----------------------------------------------------------------------------
(* Refinement.                                                             *)

\* The invariant that the run checks, for every value of the constants.
THEOREM Sound ==
  ASSUME OneWorkerPerInstance, LongExtend
  PROVE  Spec => []KeySound
<1>1. LeaseInv /\ [Next]_vars => LeaseInv' BY NextLease
<1>2. LeaseInv => KeySound BY DEF LeaseInv, KeyInv, KeySound
<1> QED BY InitLease, <1>1, <1>2, PTL DEF Spec

LEMMA InitRefines == Init => Lease!Init
BY DEF Init, Lease!Init

LEMMA NextRefines == KeyInv /\ [Next]_vars => [Lease!Next \/ Stray]_key
<1> SUFFICES ASSUME KeyInv, [Next]_vars PROVE [Lease!Next \/ Stray]_key
  OBVIOUS
<1> USE LockAssumption DEF KeyInv, TypeOK, key
<1>1. CASE UNCHANGED key
  BY <1>1
<1>2. CASE Tick
  <2>1. CASE left = 0
    BY <1>2, <2>1 DEF Tick
  <2>2. CASE left # 0
    <3>1. owner # Nobody /\ left' = left - 1
      BY <1>2, <2>2 DEF Tick, KeyHasTTL
    <3>2. owner' = IF left' = 0 THEN Nobody ELSE owner
      BY <1>2, <2>2, <3>1 DEF Tick
    <3>3. Lease!Elapse BY <3>1, <3>2 DEF Lease!Elapse
    <3> QED BY <3>3 DEF Lease!Next
  <2> QED BY <2>1, <2>2
<1>3. ASSUME NEW w \in Worker, Grant(w) PROVE Lease!Next
  <2>1. call[w].ttl \in Nat \ {0} BY <1>3 DEF Grant, CallHasTTL
  <2>2. Lease!Acquire(Home[w]) BY <1>3, <2>1 DEF Grant, Lease!Acquire
  <2> QED BY <2>2 DEF Lease!Next
<1>4. ASSUME NEW w \in Worker, ServerUnlock(w)
      PROVE [Lease!Next \/ Stray]_key
  <2>1. CASE owner # Home[w]
    BY <1>4, <2>1 DEF ServerUnlock
  <2>2. CASE owner = Home[w]
    <3>1. Lease!Release(Home[w]) BY <1>4, <2>2 DEF ServerUnlock, Lease!Release
    <3> QED BY <3>1 DEF Lease!Next
  <2> QED BY <2>1, <2>2
<1>5. ASSUME NEW w \in Worker, ServerExpire(w)
      PROVE Lease!Next \/ Stray
  <2>1. CASE owner # Home[w]
    BY <1>5, <2>1 DEF Stray
  <2>2. CASE owner = Home[w]
    <3>1. Lease!Renew(Home[w]) BY <1>5, <2>2 DEF ServerExpire, Lease!Renew
    <3> QED BY <3>1 DEF Lease!Next
  <2> QED BY <2>1, <2>2
<1>6. ASSUME NEW i \in Instance, Crash(i) PROVE UNCHANGED key
  BY <1>6 DEF Crash
<1>7. ASSUME NEW w \in Worker, Locking(w), ~ Grant(w)
      PROVE UNCHANGED key
  BY <1>7, LockingLocal
<1>8. ASSUME NEW w \in Worker, Unlocking(w), ~ ServerUnlock(w)
      PROVE UNCHANGED key
  BY <1>8 DEF Unlocking, Unlock, UnlockFails, Unlocked, Abandon
<1>9. ASSUME NEW w \in Worker, Extending(w), ~ ServerExpire(w)
      PROVE UNCHANGED key
  BY <1>9 DEF Extending, Extend, ServerGet, Denied, ExpireFails
<1> QED BY <1>1, <1>2, <1>3, <1>4, <1>5, <1>6, <1>7, <1>8, <1>9
    DEF Next, vars, key

\* But for a stray EXPIRE the key is the abstract lock of the Locker
\* interface, even when goroutines share an instance.
THEOREM Refines == Spec => ImplementsLease
<1> QED BY InitKey, NextKey, InitRefines, NextRefines, PTL
    DEF Spec, ImplementsLease
=============================================================================
