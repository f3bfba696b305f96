-------------------------------- MODULE Cache --------------------------------
(***************************************************************************)
(* storage/cache: the Cache interface over its two implementations, the    *)
(* memory cache of memory.go and the Redis client of redis.go.  NewCache   *)
(* picks one; the specification starts with either.                        *)
(*                                                                         *)
(* The memory cache is a map of pointers to items.  Get and Exists take    *)
(* the pointer under the read lock, look at the item without any lock, and *)
(* take the write lock again to delete an item they found expired: three   *)
(* steps between which the other callers run.  Every other operation holds *)
(* the lock throughout.  An expired item stays in the map until it is      *)
(* cleaned up, evicted, replaced or read.                                  *)
(*                                                                         *)
(* Redis is modelled from its use: it drops a key when it expires, and     *)
(* every command is one step, but go-redis sends a command again when the  *)
(* reply was lost, so that one call can be executed twice.                 *)
(***************************************************************************)
EXTENDS Integers, FiniteSets

CONSTANTS Caller,     \* the goroutines that use the cache
          Key,        \* the keys in use
          LockKey,    \* the key used with TryLock and Unlock only (and read)
          Text,       \* a value that is no integer
          Absent,     \* no value: ErrNotFound
          MaxValue,   \* bound: counters are kept in 0 .. MaxValue
          MaxTTL,     \* the longest expiry, in ticks
          AskTTL,     \* the expiries that callers of their own ask for
          MaxCount,   \* bound: such callers count no further
          MaxSize,    \* Config.MaxSize of the memory cache
          Faults      \* of {"resend", "serialize", "kv", "crash"}

ASSUME CacheAssumption ==
  /\ IsFiniteSet(Caller) /\ IsFiniteSet(Key)
  /\ LockKey \in Key
  /\ Absent \notin (0 .. MaxValue) \cup {Text} \cup Caller
  /\ MaxValue \in Nat
  /\ MaxTTL \in Nat \ {0}
  /\ AskTTL \subseteq 1 .. MaxTTL
  /\ MaxSize \in Nat \ {0}
  /\ Faults \subseteq {"resend", "serialize", "kv", "crash"}

VARIABLES type,    \* Config.Type
          data,    \* m.data: each key's item, or None
          closed,  \* Close was called: the clean-up goroutine is gone
          pc,      \* where each caller's Get or Exists is
          at,      \* the key it reads, the item it took a pointer to, and
                   \* whether the map still has that item
          seen,    \* during that call, the key had that item's value, live
          holds,   \* ticks the caller may still take the lock for its own
          robbed   \* a live lock was deleted by one that did not own it

Lock == <<holds, robbed>>
reading == <<pc, at, seen>>
cacheVars == <<type, data, closed, reading, Lock>>

-----------------------------------------------------------------------------
Forever == -1

\* Config.Type, as Validate lets it be.
Types == {"memory", "redis"}

\* A caller stands for the token it locks with.
Value == (0 .. MaxValue) \cup {Text} \cup Caller

TTLs == AskTTL \cup {Forever}

\* Ticks left before it expires; 0 when it has.
Item == [value : Value, left : (0 .. MaxTTL) \cup {Forever}]

None == [value |-> Absent, left |-> 0]

New(v, ttl) == [value |-> v, left |-> ttl]

isExpired(i) == i.left = 0

\* What a reader of the item may take to be there.
Held(i) == IF isExpired(i) THEN Absent ELSE i.value

Live(k) == ~ isExpired(data[k])

Stored == {k \in Key : data[k] # None}

NoRead == [key |-> LockKey, item |-> None, current |-> FALSE]

Witness(d) ==
  seen' = [c \in Caller |->
             \/ seen[c]
             \/ pc[c] # "idle" /\ Held(d[at[c].key]) = at[c].item.value]

\* The step makes the map d, with new items (or none) at the keys of ks.  A
\* reader keeps the item it points to, which the map may not have any more;
\* its call has seen one more state of the key.
Becomes(d, ks) ==
  /\ data' = d
  /\ at' = [c \in Caller |->
              [at[c] EXCEPT !.current = @ /\ at[c].key \notin ks]]
  /\ Witness(d)
  /\ UNCHANGED <<type, pc>>

\* One key gets a new item.
Put(k, i) == Becomes([data EXCEPT ![k] = i], {k})

Open == type = "redis" => ~ closed
-----------------------------------------------------------------------------
TypeOK ==
  /\ type \in Types
  /\ data \in [Key -> Item \cup {None}]
  /\ closed \in BOOLEAN
  /\ pc \in [Caller -> {"idle", "checking", "deleting"}]
  /\ at \in [Caller -> [key : Key, item : Item \cup {None}, current : BOOLEAN]]
  /\ seen \in [Caller -> BOOLEAN]
  /\ holds \in [Caller -> 0 .. MaxTTL]
  /\ robbed \in BOOLEAN

NewMemoryCache == data = [k \in Key |-> None] /\ closed = FALSE

\* NewCache: either implementation, empty, with its clean-up goroutine.
CacheInit ==
  /\ type \in Types
  /\ NewMemoryCache
  /\ pc = [c \in Caller |-> "idle"]
  /\ at = [c \in Caller |-> NoRead]
  /\ seen = [c \in Caller |-> FALSE]
  /\ holds = [c \in Caller |-> 0]
  /\ robbed = FALSE
-----------------------------------------------------------------------------
(* Get and Exists: the same steps, and the same answer seen as a value or  *)
(* as a Boolean.  On Redis they are one command that changes nothing, and  *)
(* so they are on a key the map does not have.                             *)

\* The pointer is read under the read lock.
Get(c, k) ==
  /\ type = "memory"
  /\ pc[c] = "idle"
  /\ data[k] # None
  /\ pc' = [pc EXCEPT ![c] = "checking"]
  /\ at' = [at EXCEPT ![c] = [key |-> k, item |-> data[k], current |-> TRUE]]
  /\ seen' = [seen EXCEPT ![c] = Live(k)]
  /\ UNCHANGED <<type, data, closed, Lock>>

Done(c) ==
  /\ pc' = [pc EXCEPT ![c] = "idle"]
  /\ at' = [at EXCEPT ![c] = NoRead]
  /\ seen' = [seen EXCEPT ![c] = FALSE]

\* Mutant of Check: the value is returned whatever its expiry.
CheckUnexpired(c) ==
  /\ pc[c] = "checking"
  /\ Done(c)
  /\ UNCHANGED <<type, data, closed, Lock>>

\* item.isExpired(), on the pointer and without the lock.  Expire writes the
\* item's fields meanwhile, the time before the flag; a reader that sees the
\* flag sees the time, so that it answers as before or as after the Expire.
Check(c) ==
  /\ pc[c] = "checking"
  /\ IF isExpired(at[c].item)
     THEN /\ pc' = [pc EXCEPT ![c] = "deleting"]
          /\ UNCHANGED <<at, seen>>
     ELSE Done(c)
  /\ UNCHANGED <<type, data, closed, Lock>>

\* The key is deleted under the write lock, whatever it points to by now.
DeleteExpired(c) ==
  /\ pc[c] = "deleting"
  /\ data' = [data EXCEPT ![at[c].key] = None]
  /\ robbed' = (robbed \/ (at[c].key = LockKey /\ Live(LockKey)))
  /\ pc' = [pc EXCEPT ![c] = "idle"]
  /\ at' = [d \in Caller |->
              IF d = c THEN NoRead
              ELSE [at[d] EXCEPT !.current = @ /\ at[d].key # at[c].key]]
  /\ seen' = [seen EXCEPT ![c] = FALSE]
  /\ UNCHANGED <<type, closed, holds>>
-----------------------------------------------------------------------------
(* Writes.                                                                 *)

Writable == Key \ {LockKey}

\* The maps evictOne can leave: an expired item goes first, if there is one,
\* else the first that the iteration meets, a lock or a counter too.
evictOne ==
  LET dead == {k \in Stored : isExpired(data[k])}
  IN  {[data EXCEPT ![k] = None] : k \in IF dead = {} THEN Stored ELSE dead}

\* A full map loses an item even when the key is there already.
MemorySet(k, v, ttl) ==
  /\ type = "memory"
  /\ \E d \in IF Cardinality(Stored) >= MaxSize THEN evictOne ELSE {data} :
       /\ Becomes([d EXCEPT ![k] = New(v, ttl)],
                  {k} \cup {j \in Key : d[j] # data[j]})
       /\ robbed' = (robbed \/ (Live(LockKey) /\ d[LockKey] = None))

RedisSet(k, v, ttl) ==
  /\ type = "redis" /\ ~ closed
  /\ Put(k, New(v, ttl))
  /\ UNCHANGED robbed

Set(k, v, ttl) ==
  /\ MemorySet(k, v, ttl) \/ RedisSet(k, v, ttl)
  /\ UNCHANGED <<closed, holds>>

\* Pairs are stored in the order of the iteration, with no look at MaxSize.
\* A value that does not serialize ends it: the memory cache keeps what it
\* stored so far, while the Redis pipeline was never sent.
MSet(v, ttl) ==
  /\ Open
  /\ \E stored \in {Writable} \cup
          (IF "serialize" \in Faults /\ type = "memory"
           THEN SUBSET Writable ELSE {}) :
       Becomes([k \in Key |-> IF k \in stored THEN New(v, ttl) ELSE data[k]],
               stored)
  /\ UNCHANGED <<closed, Lock>>

Del(k) ==
  /\ Open
  /\ Put(k, None)
  /\ UNCHANGED <<closed, Lock>>

\* The counter's new value, from what is there and live.
NewCount(k, n) ==
  LET v == n + IF Live(k) THEN data[k].value ELSE 0
  IN  IF v < 0 THEN 0 ELSE IF v > MaxValue THEN MaxValue ELSE v

\* ErrNotInteger, from Sscanf or from Redis.
IsCounter(k) == Held(data[k]) \in (0 .. MaxValue) \cup {Absent}

\* The new item never expires, whatever the one it replaces did.
MemoryIncrementBy(k, n) ==
  /\ type = "memory"
  /\ IsCounter(k)
  /\ Put(k, New(NewCount(k, n), Forever))

\* INCRBY keeps the expiry; sent again, it counts twice.
RedisIncrementBy(k, n) ==
  /\ type = "redis" /\ ~ closed
  /\ IsCounter(k)
  /\ \E times \in {1} \cup (IF "resend" \in Faults THEN {2} ELSE {}) :
       Put(k, New(NewCount(k, n * times),
                  IF Live(k) THEN data[k].left ELSE Forever))

IncrementBy(k, n) ==
  /\ MemoryIncrementBy(k, n) \/ RedisIncrementBy(k, n)
  /\ UNCHANGED <<closed, Lock>>

Increment(k) == IncrementBy(k, 1)

Decrement(k) == IncrementBy(k, -1)

\* In place, on the item its readers point to.  The memory cache does not look
\* whether the item has expired: one that is still in the map lives again.
MemoryExpire(k, ttl) ==
  /\ type = "memory"
  /\ data[k] # None
  /\ data' = [data EXCEPT ![k].left = ttl]
  /\ at' = [c \in Caller |-> IF at[c].current /\ at[c].key = k
                             THEN [at[c] EXCEPT !.item.left = ttl] ELSE at[c]]
  /\ Witness(data')
  /\ UNCHANGED <<type, pc>>

\* EXPIRE with no time at all deletes the key.
RedisExpire(k, ttl) ==
  /\ type = "redis" /\ ~ closed
  /\ Live(k)
  /\ Put(k, IF ttl = Forever THEN None ELSE New(data[k].value, ttl))

Expire(k, ttl) ==
  /\ MemoryExpire(k, ttl) \/ RedisExpire(k, ttl)
  /\ UNCHANGED <<closed, Lock>>

\* -2: no such key, or an expired one; -1: it never expires.
TTL(k) == IF ~ Live(k) THEN -2 ELSE data[k].left

\* A live item is left alone, and the caller answered FALSE.
SetNX(k, v, ttl) ==
  /\ Open
  /\ ~ Live(k)
  /\ Put(k, New(v, ttl))
  /\ UNCHANGED closed
-----------------------------------------------------------------------------
(* The lock: SetNX with a value of the caller's own.                       *)

\* Redis answers FALSE to the one whose command it got twice.
TryLock(c, ttl) ==
  /\ holds[c] = 0
  /\ SetNX(LockKey, c, ttl)
  /\ \/ holds' = [holds EXCEPT ![c] = ttl]
     \/ "resend" \in Faults /\ type = "redis" /\ UNCHANGED holds
  /\ UNCHANGED robbed

\* Mutant of Unlock: the value is not compared.
UnlockAny(c) ==
  /\ Open
  /\ data[LockKey] # None
  /\ Put(LockKey, None)
  /\ holds' = [holds EXCEPT ![c] = 0]
  /\ UNCHANGED <<closed, robbed>>

\* ErrLockNotHeld leaves everything as it is.
Unlock(c) ==
  /\ Open
  /\ data[LockKey].value = c
  /\ Put(LockKey, None)
  /\ holds' = [holds EXCEPT ![c] = 0]
  /\ UNCHANGED <<closed, robbed>>
-----------------------------------------------------------------------------
(* Time.                                                                   *)

\* cleanupLoop's tick.
cleanup ==
  /\ type = "memory" /\ ~ closed
  /\ \E k \in Stored : ~ Live(k)
  /\ Becomes([k \in Key |-> IF Live(k) THEN data[k] ELSE None],
             {k \in Key : ~ Live(k)})
  /\ UNCHANGED <<closed, Lock>>

\* Close ends the clean-up goroutine: the map can still be used, and what
\* expires in it stays.  A Redis client refuses every call after it.
Close ==
  /\ ~ closed
  /\ closed' = TRUE
  /\ UNCHANGED <<type, data, reading, Lock>>

Older(i) == IF i.left > 0 THEN [i EXCEPT !.left = @ - 1] ELSE i

\* A tick of the clock; Redis drops what expires.
Elapse ==
  /\ data' = [k \in Key |->
                IF type = "redis" /\ isExpired(Older(data[k])) THEN None
                ELSE Older(data[k])]
  /\ at' = [c \in Caller |-> [at[c] EXCEPT !.item = Older(@)]]
  /\ Witness(data')
  /\ holds' = [c \in Caller |-> IF holds[c] > 0 THEN holds[c] - 1 ELSE 0]
  /\ UNCHANGED <<type, closed, pc, robbed>>

CacheNext ==
  \/ \E c \in Caller, k \in Key : Get(c, k)
  \/ \E c \in Caller : \/ Check(c)
                       \/ DeleteExpired(c)
                       \/ Unlock(c)
                       \/ \E ttl \in AskTTL : TryLock(c, ttl)
  \/ \E k \in Writable : \/ \E ttl \in TTLs : Set(k, Text, ttl)
                         \/ Del(k)
                         \/ /\ IsCounter(k) /\ NewCount(k, 1) <= MaxCount
                            /\ Increment(k)
                         \/ Decrement(k)
                         \/ \E ttl \in TTLs : Expire(k, ttl)
  \/ \E ttl \in TTLs : MSet(0, ttl)
  \/ cleanup
  \/ Close
  \/ Elapse
-----------------------------------------------------------------------------
(* Properties.                                                             *)

\* Get reads an item in one step and judges it in another, and Expire changes
\* items in place meanwhile.  Still, a value that Get returns was the key's
\* value, and had not expired, at some moment of the call.
AnswerIsTrue ==
  [][\A c \in Caller :
       pc[c] = "checking" /\ pc'[c] = "idle"
         => seen[c]]_cacheVars

\* Two callers of TryLock both in the time they asked for means that the lock
\* was taken from the first while it lived, and only two places do that: a Get
\* or Exists that found an earlier item expired and deletes what the key
\* points to by then, and an eviction, which does not spare locks.
LockExclusive ==
  (\E c, d \in Caller : c # d /\ holds[c] > 0 /\ holds[d] > 0) => robbed
=============================================================================
