------------------------------ MODULE RedisLock ------------------------------
(***************************************************************************)
(* storage/lock/redis.go over storage/cache/redis.go: one lock key of one  *)
(* Redis server, and the goroutines that lock it through lock.Redis        *)
(* objects ("instances").  An instance has ONE owner ID and ONE entry of   *)
(* its held map for the key, whatever number of goroutines use it: the     *)
(* scheduler shares one instance between all the jobs of a process.        *)
(*                                                                         *)
(* Every call is split where another goroutine, another process or the     *)
(* server's clock can come between: the request as the server executes it, *)
(* and what the caller does with the reply.  A reply can be lost, in which *)
(* case go-redis sends the command again (Config.MaxRetries) or reports an *)
(* error.  Time is counted as the ticks a lease has left.                  *)
(***************************************************************************)
EXTENDS Naturals, FiniteSets

CONSTANTS Instance,   \* lock.Redis objects, one owner ID each
          Worker,     \* goroutines
          Home,       \* Home[w]: the instance goroutine w uses
          LockTTL,    \* the ttl arguments given to Lock and TryLock
          ExtendTTL,  \* the ttl argument given to Extend
          MaxRetries, \* WithMaxRetries; 0: retry until the context is done
          Nobody      \* no owner

ASSUME LockAssumption ==
  /\ Home \in [Worker -> Instance]
  /\ LockTTL \subseteq Nat \ {0}
  /\ ExtendTTL \in Nat \ {0}
  /\ MaxRetries \in Nat
  /\ Nobody \notin Instance

VARIABLES owner,  \* the owner ID stored under the key, or Nobody
          left,   \* ticks before the server expires the key, 0: never
          held,   \* held[i]: instance i's map says it holds the key
          pc,     \* where each goroutine is
          call,   \* the Lock or TryLock call a goroutine is in
          lease   \* lease[w]: ticks left of the lease w was granted

vars == <<owner, left, held, pc, call, lease>>

-----------------------------------------------------------------------------
Idle == [op |-> "none", ttl |-> 0, tries |-> 0]

Call == [op : {"none", "Lock", "TryLock"}, ttl : LockTTL \cup {0}, tries : Nat]

\* asking, checking, renewing and releasing: a command is on its way to the
\* server.  won, refused, gone: its reply is on its way back.
State == {"idle", "asking", "won", "refused", "sleeping", "critical",
          "checking", "renewing", "denied", "releasing", "gone", "kept", "dead"}

TypeOK ==
  /\ owner \in Instance \cup {Nobody}
  /\ left \in Nat
  /\ held \in [Instance -> BOOLEAN]
  /\ pc \in [Worker -> State]
  /\ call \in [Worker -> Call]
  /\ lease \in [Worker -> Nat]

Init ==
  /\ owner = Nobody
  /\ left = 0
  /\ held = [i \in Instance |-> FALSE]
  /\ pc = [w \in Worker |-> "idle"]
  /\ call = [w \in Worker |-> Idle]
  /\ lease = [w \in Worker |-> 0]

Goto(w, s) == pc' = [pc EXCEPT ![w] = s]

key == <<owner, left>>

-----------------------------------------------------------------------------
(* Lock and TryLock.                                                       *)

\* A goroutine calls Lock (the blocking loop) or TryLock (one attempt).
Begin(w) ==
  /\ pc[w] = "idle"
  /\ \E op \in {"Lock", "TryLock"}, t \in LockTTL :
       call' = [call EXCEPT ![w] = [op |-> op, ttl |-> t, tries |-> 0]]
  /\ Goto(w, "asking")
  /\ UNCHANGED <<owner, left, held, lease>>

\* Mutant of Grant: the key is stored without the ttl.
GrantForEver(w) ==
  /\ pc[w] = "asking"
  /\ owner = Nobody
  /\ owner' = Home[w]
  /\ left' = 0
  /\ Goto(w, "won")
  /\ lease' = [lease EXCEPT ![w] = call[w].ttl]
  /\ UNCHANGED <<held, call>>

\* Mutant of Grant: SET where SETNX should be.
GrantAnyway(w) ==
  /\ pc[w] = "asking"
  /\ owner' = Home[w]
  /\ left' = call[w].ttl
  /\ Goto(w, "won")
  /\ lease' = [lease EXCEPT ![w] = call[w].ttl]
  /\ UNCHANGED <<held, call>>

\* SETNX finds no key: the server stores the owner ID with the ttl.
Grant(w) ==
  /\ pc[w] = "asking"
  /\ owner = Nobody
  /\ owner' = Home[w]
  /\ left' = call[w].ttl
  /\ \/ /\ Goto(w, "won")                      \* the reply arrives
        /\ lease' = [lease EXCEPT ![w] = call[w].ttl]
        /\ UNCHANGED call
     \/ /\ Goto(w, "refused")                  \* lost; the resent SETNX fails
        /\ UNCHANGED <<lease, call>>
     \/ /\ Goto(w, "idle")                     \* lost for good: an error
        /\ call' = [call EXCEPT ![w] = Idle]
        /\ UNCHANGED lease
  /\ UNCHANGED held

\* SETNX finds the key, whoever's it is.
Refuse(w) ==
  /\ pc[w] = "asking"
  /\ owner # Nobody
  /\ Goto(w, "refused")
  /\ UNCHANGED <<owner, left, held, call, lease>>

\* SETNX never reaches the server: Lock and TryLock return the error.
AskFails(w) ==
  /\ pc[w] = "asking"
  /\ Goto(w, "idle")
  /\ call' = [call EXCEPT ![w] = Idle]
  /\ UNCHANGED <<owner, left, held, lease>>

\* TryLock returns true: the goroutine enters its critical section.
Enter(w) ==
  /\ pc[w] = "won"
  /\ held' = [held EXCEPT ![Home[w]] = TRUE]
  /\ Goto(w, "critical")
  /\ call' = [call EXCEPT ![w] = Idle]
  /\ UNCHANGED <<owner, left, lease>>

\* Mutant of Refused: the attempts are not counted.
RefusedUncounted(w) ==
  /\ pc[w] = "refused"
  /\ IF call[w].op = "TryLock"
     THEN Goto(w, "idle") /\ call' = [call EXCEPT ![w] = Idle]
     ELSE Goto(w, "sleeping") /\ UNCHANGED call
  /\ UNCHANGED <<owner, left, held, lease>>

\* Mutant of Refused: the next attempt goes without the ttl.
RefusedForgetful(w) ==
  /\ pc[w] = "refused"
  /\ IF call[w].op = "TryLock"
     THEN Goto(w, "idle") /\ call' = [call EXCEPT ![w] = Idle]
     ELSE Goto(w, "sleeping") /\ call' = [call EXCEPT ![w].ttl = 0]
  /\ UNCHANGED <<owner, left, held, lease>>

\* TryLock returns false.  A TryLock call ends; Lock counts the attempt and
\* gives up at MaxRetries, and otherwise waits.
Refused(w) ==
  /\ pc[w] = "refused"
  /\ LET tries == IF MaxRetries > 0 THEN call[w].tries + 1 ELSE 0
         over  == call[w].op = "TryLock" \/ (MaxRetries > 0 /\ tries >= MaxRetries)
     IN  IF over
         THEN Goto(w, "idle") /\ call' = [call EXCEPT ![w] = Idle]
         ELSE Goto(w, "sleeping") /\ call' = [call EXCEPT ![w].tries = tries]
  /\ UNCHANGED <<owner, left, held, lease>>

\* retryWait is over: Lock calls TryLock again.
Retry(w) ==
  /\ pc[w] = "sleeping"
  /\ Goto(w, "asking")
  /\ UNCHANGED <<owner, left, held, call, lease>>

\* The context of a waiting Lock is done.
Cancel(w) ==
  /\ pc[w] = "sleeping"
  /\ Goto(w, "idle")
  /\ call' = [call EXCEPT ![w] = Idle]
  /\ UNCHANGED <<owner, left, held, lease>>

-----------------------------------------------------------------------------
(* Unlock.  A goroutine whose Unlock failed ("kept") may call it again, or *)
(* drop the matter as WithLock's deferred Unlock does.                     *)

\* The local check of the held map, and the command if it passes.
Unlock(w) ==
  /\ pc[w] \in {"critical", "kept"}
  /\ Goto(w, IF held[Home[w]] THEN "releasing" ELSE "idle")
  /\ UNCHANGED <<owner, left, held, call, lease>>

\* Mutant of ServerUnlock: a plain DEL.
ServerDelete(w) ==
  /\ pc[w] = "releasing"
  /\ owner' = Nobody
  /\ left' = 0
  /\ lease' = [lease EXCEPT ![w] = 0]
  /\ Goto(w, "gone")
  /\ UNCHANGED <<held, call>>

\* The Lua script: delete the key if it stores this instance's owner ID.
ServerUnlock(w) ==
  /\ pc[w] = "releasing"
  /\ IF owner = Home[w]
     THEN /\ owner' = Nobody
          /\ left' = 0
          /\ lease' = [lease EXCEPT ![w] = 0]
     ELSE UNCHANGED <<owner, left, lease>>
  /\ Goto(w, "gone")
  /\ UNCHANGED <<held, call>>

\* The script is never run, or its reply is lost; then go-redis sends it again
\* or gives up with an error.
UnlockFails(w) ==
  /\ pc[w] \in {"releasing", "gone"}
  /\ \/ Goto(w, "kept")
     \/ pc[w] = "gone" /\ Goto(w, "releasing")
  /\ UNCHANGED <<owner, left, held, call, lease>>

\* The script deleted the key or reported ErrLockNotHeld: either way the held
\* entry goes.
Unlocked(w) ==
  /\ pc[w] = "gone"
  /\ held' = [held EXCEPT ![Home[w]] = FALSE]
  /\ Goto(w, "idle")
  /\ UNCHANGED <<owner, left, call, lease>>

\* The caller ignores the error of Unlock.
Abandon(w) ==
  /\ pc[w] = "kept"
  /\ Goto(w, "idle")
  /\ UNCHANGED <<owner, left, held, call, lease>>

-----------------------------------------------------------------------------
(* Extend: a GET and then an EXPIRE, two commands.                         *)

\* The local check; without the entry Extend returns ErrLockNotHeld.
Extend(w) ==
  /\ pc[w] = "critical"
  /\ held[Home[w]]
  /\ Goto(w, "checking")
  /\ UNCHANGED <<owner, left, held, call, lease>>

\* GET: the stored ID is this instance's, or it is not, or the call fails.
ServerGet(w) ==
  /\ pc[w] = "checking"
  /\ \/ owner = Home[w] /\ Goto(w, "renewing")
     \/ Goto(w, "denied")                      \* a network error, or:
  /\ UNCHANGED <<owner, left, held, call, lease>>

\* Any failure of the check drops the held entry.
Denied(w) ==
  /\ pc[w] = "denied"
  /\ held' = [held EXCEPT ![Home[w]] = FALSE]
  /\ Goto(w, "critical")
  /\ UNCHANGED <<owner, left, call, lease>>

\* EXPIRE acts on whatever key is there now.  A missing key is no error: the
\* server answers 0 and Expire returns nil.
ServerExpire(w) ==
  /\ pc[w] = "renewing"
  /\ left' = IF owner = Nobody THEN left ELSE ExtendTTL
  /\ lease' = IF owner = Home[w] THEN [lease EXCEPT ![w] = ExtendTTL] ELSE lease
  /\ Goto(w, "critical")
  /\ UNCHANGED <<owner, held, call>>

\* EXPIRE does not reach the server: Extend returns the error.
ExpireFails(w) ==
  /\ pc[w] = "renewing"
  /\ Goto(w, "critical")
  /\ UNCHANGED <<owner, left, held, call, lease>>

-----------------------------------------------------------------------------
\* The process of an instance dies and takes the held map with it.  A restart
\* draws a new owner ID, which is another element of Instance.
Crash(i) ==
  /\ \E w \in Worker : Home[w] = i /\ pc[w] # "dead"
  /\ pc' = [w \in Worker |-> IF Home[w] = i THEN "dead" ELSE pc[w]]
  /\ held' = [held EXCEPT ![i] = FALSE]
  /\ UNCHANGED <<owner, left, call, lease>>

\* Mutant of Tick: the leases of the dead go on counting.
TickThrough ==
  /\ left > 0 \/ \E w \in Worker : lease[w] > 0
  /\ left' = IF left > 0 THEN left - 1 ELSE 0
  /\ owner' = IF left = 1 THEN Nobody ELSE owner
  /\ lease' = [w \in Worker |-> lease[w] - 1]
  /\ UNCHANGED <<held, pc, call>>

\* A tick of the server's clock; at the end of its time the key is gone.
Tick ==
  /\ left > 0 \/ \E w \in Worker : lease[w] > 0
  /\ left' = IF left > 0 THEN left - 1 ELSE 0
  /\ owner' = IF left = 1 THEN Nobody ELSE owner
  /\ lease' = [w \in Worker |-> IF lease[w] > 0 THEN lease[w] - 1 ELSE 0]
  /\ UNCHANGED <<held, pc, call>>

Locking(w) ==
  \/ Begin(w) \/ Grant(w) \/ Refuse(w) \/ AskFails(w) \/ Enter(w)
  \/ Refused(w) \/ Retry(w) \/ Cancel(w)

Unlocking(w) ==
  \/ Unlock(w) \/ ServerUnlock(w) \/ UnlockFails(w) \/ Unlocked(w) \/ Abandon(w)

Extending(w) ==
  \/ Extend(w) \/ ServerGet(w) \/ Denied(w) \/ ServerExpire(w) \/ ExpireFails(w)

Next ==
  \/ Tick
  \/ \E i \in Instance : Crash(i)
  \/ \E w \in Worker : Locking(w) \/ Unlocking(w) \/ Extending(w)

Spec == Init /\ [][Next]_vars

\* The server's clock runs, and a goroutine that is in a call, or in its
\* section, gets on with it: commands and the retry timer all end, by their
\* timeouts at the latest.
LiveSpec ==
  /\ Spec
  /\ WF_vars(Tick)
  /\ \A w \in Worker :
       WF_vars((Locking(w) \/ Unlocking(w) \/ Extending(w)) /\ pc[w] # "idle")

-----------------------------------------------------------------------------
(* Properties.                                                             *)

\* The goroutines inside the section they locked, in time.
InSection(w) ==
  /\ pc[w] \in {"critical", "checking", "denied", "renewing", "releasing", "kept"}
  /\ lease[w] > 0

\* lock.go: "only one client at a time can execute the operation".  No two
\* goroutines are in the section with leases that have not run out.
MutualExclusion ==
  \A v, w \in Worker : v # w => ~ (InSection(v) /\ InSection(w))

\* When MutualExclusion holds: no two goroutines share an instance, and Extend
\* asks for no less than Lock did.
OneWorkerPerInstance == \A v, w \in Worker : Home[v] = Home[w] => v = w

LongExtend == \A t \in LockTTL : t <= ExtendTTL

\* What MutualExclusion rests on: as long as a granted lease runs, the key is
\* there, stores its owner's ID and will not expire earlier than the lease.
GrantBacked ==
  \A w \in Worker : lease[w] > 0 => owner = Home[w] /\ left >= lease[w]

\* lock.go: the ttl prevents deadlock.  No key is stored that would stay for
\* ever, and a free key has no time left over.
KeyHasTTL == owner = Nobody <=> left = 0

\* A Lock, TryLock or retrying Lock call has the ttl it was called with.
CallHasTTL ==
  \A w \in Worker :
    pc[w] \in {"asking", "won", "refused", "sleeping"} => call[w].ttl \in LockTTL

\* All of this in every state: what mutual exclusion and the refinement below
\* rest on (redis.go 96-102, 168-179).
KeySound == TypeOK /\ GrantBacked /\ KeyHasTTL /\ CallHasTTL

\* A key does not outlive its holder: whoever crashes, loses a reply or
\* forgets to unlock, the key is free again, if not extended for ever.
KeyFreed ==
  <>[][\A w \in Worker : ~ ServerExpire(w)]_vars
    => (owner # Nobody ~> owner = Nobody)

\* WithMaxRetries: a Lock call that may retry only so often returns, whatever
\* the other clients do.
LockReturns ==
  \A w \in Worker :
    pc[w] = "asking" ~> pc[w] \in {"critical", "idle", "dead"}

\* The one step that is not of the Locker interface (lock.go: "only the holder
\* of the lock can extend it"): the lease ended between Extend's GET and its
\* EXPIRE, which changes the time of another owner's key.
Stray == \E w \in Worker : ServerExpire(w) /\ owner # Home[w]

\* Instances use the key as the lock the Locker interface promises: but for a
\* stray EXPIRE this module implements LeaseLock.
Lease == INSTANCE LeaseLock WITH Owner <- Instance, holder <- owner

ImplementsLease == Lease!Init /\ [][Lease!Next \/ Stray]_key
=============================================================================
