------------------------------ MODULE Semaphore ------------------------------
(***************************************************************************)
(* middleware/semaphore: the distributed semaphore, a counter under one    *)
(* key of a KV server, and the middlewares that take a permit before a     *)
(* request and give it back after it.                                      *)
(*                                                                         *)
(* TryAcquire is up to three round trips (INCR, EXPIRE, and EXPIRE or      *)
(* DECR), Release one.  The key has ONE expiry time for all the permits it *)
(* counts, set by whoever got a permit last; DECR of a key that is gone    *)
(* makes a new one, negative and without expiry.                           *)
(***************************************************************************)
EXTENDS Integers, FiniteSets

CONSTANTS Client,    \* the requests that compete for the permits
          Size,      \* the number of permits
          TTL,       \* WithTTL, in ticks
          HoldMax,   \* most ticks a request keeps its permit
          MaxCount,  \* bound on the counter, either way
          Faults     \* of {"crash", "kv", "resend", "expire"}: what happens

ASSUME SemaphoreAssumption ==
  /\ IsFiniteSet(Client)
  /\ Size \in Nat \ {0}
  /\ TTL \in Nat \ {0}
  /\ HoldMax \in Nat
  /\ MaxCount \in Nat
  /\ Faults \subseteq {"crash", "kv", "resend", "expire"}

VARIABLES present, \* the key exists
          count,   \* its number, 0 without the key
          left,    \* ticks before it expires, 0: never
          pc,      \* where each request is
          spent,   \* ticks since the request got its permit
          leaked,  \* ghost: what the counter counts too much (permits of dead
                   \* requests, INCRs sent twice), or too little: below 0
          short,   \* ghost: the most it has counted too little
          lost     \* ghost: something happened that makes it count too little:
                   \* an EXPIRE was lost, a DECR was sent twice and found no
                   \* permit counted too much, or the key expired between an
                   \* INCR and the EXPIRE or DECR that follows it, or under a
                   \* request that has had its permit for the whole ttl

vars == <<present, count, left, pc, spent, leaked, short, lost>>

key == <<present, count, left>>

-----------------------------------------------------------------------------
\* Between its INCR and its DECR a request is counted.  dating: EXPIRE of a
\* counter that was 0.  undoing: DECR of a permit too many.
Calling == {"dating", "undoing", "renewing"}

Holding == {"holding", "releasing"}

Counted == Calling \cup Holding

TypeOK ==
  /\ present \in BOOLEAN
  /\ count \in - MaxCount .. MaxCount
  /\ left \in 0 .. TTL
  /\ pc \in [Client -> Counted \cup {"idle", "asking", "waiting", "dead"}]
  /\ spent \in [Client -> 0 .. HoldMax]
  /\ leaked \in Int /\ leaked <= MaxCount
  /\ short \in Nat
  /\ lost \in BOOLEAN

Init ==
  /\ present = FALSE
  /\ count = 0
  /\ left = 0
  /\ pc = [c \in Client |-> "idle"]
  /\ spent = [c \in Client |-> 0]
  /\ leaked = 0
  /\ short = 0
  /\ lost = FALSE

Goto(c, s) == pc' = [pc EXCEPT ![c] = s]

\* INCR and DECR: a missing key counts from 0, and has no expiry.
Add(n) ==
  /\ count + n \in - MaxCount .. MaxCount
  /\ present' = TRUE
  /\ count' = count + n
  /\ UNCHANGED left

\* Mutant of Expire: the ttl comes on top of what is left.
Prolong ==
  /\ left' = IF present THEN left + TTL ELSE 0
  /\ UNCHANGED <<present, count, lost>>

\* The permit stays counted, or is counted twice.
Leak == leaked < MaxCount /\ leaked' = leaked + 1 /\ UNCHANGED short

\* The counter is n off what it should be.
Off(n) == leaked' = n /\ short' = IF short + n < 0 THEN 0 - n ELSE short

\* DECR, sent once or twice, or lost.
Decrement ==
  \/ Add(-1) /\ UNCHANGED <<leaked, short, lost>>
  \/ "kv" \in Faults /\ Leak /\ UNCHANGED <<key, lost>>
  \/ /\ "resend" \in Faults
     /\ Add(-2) /\ Off(leaked - 1)
     /\ lost' = (lost \/ leaked' < 0)

\* EXPIRE: nothing happens without the key.
Expire ==
  /\ left' = IF present THEN TTL ELSE 0
  /\ UNCHANGED <<present, count, lost>>

\* EXPIRE fails, and its error is ignored.
LoseExpire ==
  /\ "expire" \in Faults
  /\ lost' = TRUE
  /\ UNCHANGED key

-----------------------------------------------------------------------------
\* The middleware calls Acquire or TryAcquire.
Begin(c) ==
  /\ pc[c] = "idle"
  /\ Goto(c, "asking")
  /\ spent' = [spent EXCEPT ![c] = 0]
  /\ UNCHANGED <<key, leaked, short, lost>>

\* No permit: TryAcquire ends the request, Acquire waits to ask again.
NoPermit(c) == Goto(c, "idle") \/ Goto(c, "waiting")

\* Mutant of Increment: the number before the INCR is compared with the size.
IncrementLate(c) ==
  /\ pc[c] = "asking"
  /\ Add(1)
  /\ Goto(c, IF count' = 1 THEN "dating"
             ELSE IF count > Size THEN "undoing" ELSE "renewing")
  /\ UNCHANGED <<spent, leaked, short, lost>>

\* INCR.  The reply decides what comes next; an error is "no permit", whether
\* the server counted the request or not.
Increment(c) ==
  /\ pc[c] = "asking"
  /\ \/ /\ \/ Add(1) /\ UNCHANGED <<leaked, short>>
           \/ "resend" \in Faults /\ Add(2) /\ Leak
        /\ Goto(c, IF count' = 1 THEN "dating"
                   ELSE IF count' > Size THEN "undoing" ELSE "renewing")
     \/ "kv" \in Faults /\ NoPermit(c) /\ Add(1) /\ Leak
     \/ "kv" \in Faults /\ NoPermit(c) /\ UNCHANGED <<key, leaked, short>>
  /\ UNCHANGED <<spent, lost>>

\* EXPIRE of a new counter.
SetExpiry(c) ==
  /\ pc[c] = "dating"
  /\ Expire \/ LoseExpire
  /\ Goto(c, "renewing")
  /\ UNCHANGED <<spent, leaked, short>>

\* Mutant of Undo: the counter keeps the permit too many.
UndoNothing(c) ==
  /\ pc[c] = "undoing"
  /\ NoPermit(c)
  /\ UNCHANGED <<key, spent, leaked, short, lost>>

\* DECR of a permit too many; its error is ignored.
Undo(c) ==
  /\ pc[c] = "undoing"
  /\ Decrement
  /\ NoPermit(c)
  /\ UNCHANGED spent

\* EXPIRE again: every permit granted renews the key.
Refresh(c) ==
  /\ pc[c] = "renewing"
  /\ Expire \/ LoseExpire
  /\ Goto(c, "holding")
  /\ UNCHANGED <<spent, leaked, short>>

\* The handler returns or panics, and the deferred Release runs.
EndRequest(c) ==
  /\ pc[c] = "holding"
  /\ Goto(c, "releasing")
  /\ UNCHANGED <<key, spent, leaked, short, lost>>

\* DECR.  Nobody looks at its error: the request's own context, done when the
\* client is gone, is enough to lose it.
Release(c) ==
  /\ pc[c] = "releasing"
  /\ Decrement
  /\ Goto(c, "idle")
  /\ UNCHANGED spent

\* retryWait is over.
Retry(c) ==
  /\ pc[c] = "waiting"
  /\ Goto(c, "asking")
  /\ UNCHANGED <<key, spent, leaked, short, lost>>

\* The context of a waiting Acquire is done.
Cancel(c) ==
  /\ pc[c] = "waiting"
  /\ Goto(c, "idle")
  /\ UNCHANGED <<key, spent, leaked, short, lost>>

\* The process of a request dies with what it holds.
Crash(c) ==
  /\ "crash" \in Faults
  /\ pc[c] # "dead"
  /\ Goto(c, "dead")
  /\ IF pc[c] \in Counted THEN Leak ELSE UNCHANGED <<leaked, short>>
  /\ UNCHANGED <<key, spent, lost>>

\* The requests the counter has to count.
Counting == {c \in Client : pc[c] \in Counted}

\* The requests that the key may expire under: nothing renews it for a request
\* that runs on, and a command comes whenever it comes.
Exposed ==
  {c \in Client : \/ pc[c] \in Calling
                  \/ pc[c] \in Holding /\ spent[c] + 1 >= TTL}

\* The server's clock.  When the key expires the counter knows nothing of the
\* requests that have or are getting a permit.
Tick ==
  /\ \A c \in Client : pc[c] \in Holding => spent[c] < HoldMax
  /\ spent' = [c \in Client |->
                 IF pc[c] \in Holding THEN spent[c] + 1 ELSE spent[c]]
  /\ left' = IF left > 0 THEN left - 1 ELSE 0
  /\ IF left = 1
     THEN /\ present' = FALSE /\ count' = 0 /\ Off(0 - Cardinality(Counting))
          /\ lost' = (lost \/ Exposed # {})
     ELSE UNCHANGED <<present, count, leaked, short, lost>>
  /\ UNCHANGED pc

Serve(c) ==
  \/ Increment(c) \/ SetExpiry(c) \/ Undo(c) \/ Refresh(c) \/ EndRequest(c)
  \/ Release(c) \/ Retry(c) \/ Cancel(c)

Next == Tick \/ \E c \in Client : Begin(c) \/ Serve(c) \/ Crash(c)

Spec == Init /\ [][Next]_vars

-----------------------------------------------------------------------------
(* Properties.                                                             *)

Admitted == {c \in Client : pc[c] \in Holding}

\* distributed.go: "size: the maximum concurrency".  Never more requests run than
\* there are permits and than the counter ever missed, however the permits come
\* and go; and it misses none, whoever dies, whichever INCR or DECR is lost or
\* sent twice, until one of these: an EXPIRE is lost, the key expires under a
\* TryAcquire (distributed.go:92-110) or under a request that ran for the whole
\* ttl, or a DECR is sent again and finds no permit counted too much.
AtMostSize ==
  /\ Cardinality(Admitted) <= Size + short
  /\ ~ lost => short = 0

\* The counter counts the requests that have a permit and those whose permit
\* was lost with them, and the key is there as long as one of them counts: no
\* release makes the counter negative.
CountExact ==
  /\ count = Cardinality(Counting) + leaked
  /\ ~ lost => leaked >= 0 /\ (count # 0 => present)

\* distributed.go 91-99: the counter gets its expiry in a command after the
\* INCR.  Between calls, a counter that never expires is one whose first
\* request died, or whose INCR was lost or counted twice: its permit never
\* comes back.
EternalIsLeaked ==
  ~ lost /\ count # 0 /\ left = 0 /\ (\A c \in Client : pc[c] \notin Calling)
    => leaked > 0

CountSound == TypeOK /\ CountExact /\ EternalIsLeaked
=============================================================================
