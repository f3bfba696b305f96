------------------------------ MODULE Activity ------------------------------
(***************************************************************************)
(* request/activity: the middlewares that report a user's request, the     *)
(* Tracker that writes it to Redis or sends it to a topic, the consumers   *)
(* that read the topic (one message at a time, or a batch), and the        *)
(* RedisStore they write to.                                               *)
(*                                                                         *)
(* Whoever writes to the store, a request or the consumer, is an actor     *)
(* with a program counter.  SetLastActive and SetOnline are a pipeline     *)
(* each: the server runs its commands one by one, others can come between  *)
(* them, and a connection that breaks leaves the rest out.  The 30 days    *)
(* that the last activity is kept are longer than any behaviour here.      *)
(***************************************************************************)
EXTENDS Integers, Sequences, FiniteSets

CONSTANTS
  Visits,          \* requests: records of id, user, path and door
  SkipPaths,       \* HTTP paths whose visits are not reported
  SkipMethods,     \* gRPC methods as well: service and name, or "*"
  Anonymous,       \* the user of a request without a principal
  OnlineTTL,       \* in ticks
  BatchSize,       \* bound on the messages of one batch
  MaxClock,        \* bound on the clock
  ActivityConfigs  \* async, batch, sampled, the dedupe window, and bounds:
                   \* the visits there are and how many failures (slips)

ASSUME ActivityAssumption ==
  /\ Visits # {} /\ [id |-> 0] \notin Visits
  /\ OnlineTTL \in Nat \ {0} /\ BatchSize \in Nat
  /\ \A c \in ActivityConfigs : c.window \in Nat /\ c.batch \in BOOLEAN

VARIABLES
  acfg,     \* the set-up
  clock,    \* ticks
  where,    \* where each actor is, and the event it has
  queue,    \* the topic: events the consumer has not finished with
  inHand,   \* how many of them it has taken
  todo,     \* the events of its batch it has yet to write
  last,     \* the hash of the user: the time of the last activity
  online,   \* ticks left of the user's online key
  members,  \* the set of users that are counted
  setLeft,  \* ticks left of that set
  slips,    \* failures so far
  mislaid,  \* ghost: visits whose event a failure took
  newest,   \* ghost: the latest activity the user's hash has ever held
  cut       \* ghost: a pipeline was cut short, or lasted over a tick

activityVars == <<acfg, clock, where, queue, inHand, todo, last, online,
                  members, setLeft, slips, mislaid, newest, cut>>
redis == <<last, newest, online, members, setLeft>>

Never == -1
Forever == -1
Users == {v.user : v \in Visits}
Reader == [id |-> 0]
Actors == Visits \cup {Reader}

Event(v, now) == [by |-> v, user |-> v.user, ts |-> now]
Resting(pc) == [pc |-> pc, ev |-> Event(CHOOSE v \in Visits : TRUE, Never)]

ActivityInit(used) ==
  /\ acfg \in ActivityConfigs
  /\ used \/ acfg = (CHOOSE c \in ActivityConfigs : TRUE)
  /\ where = [a \in Actors |-> Resting(IF ~used THEN "off"
                                       ELSE IF a = Reader THEN "idle"
                                       ELSE IF a \in acfg.visits THEN "new"
                                       ELSE "done")]
  /\ clock = 0 /\ queue = <<>> /\ inHand = 0 /\ todo = {}
  /\ last = [u \in Users |-> Never] /\ online = [u \in Users |-> 0]
  /\ members = {} /\ setLeft = 0
  /\ slips = 0 /\ mislaid = {} /\ newest = last /\ cut = FALSE

Slip == slips < acfg.slips /\ slips' = slips + 1
Goes(a, pc) == where' = [where EXCEPT ![a].pc = pc]

-----------------------------------------------------------------------------
(* The request *)

\* A path of the list is not reported, nor a user nobody knows.
HTTPMiddleware(v) == v.path \notin SkipPaths /\ v.user # Anonymous

ShouldSkipMethod(m) ==
  \E s \in SkipMethods : s[1] = m[1] /\ s[2] \in {m[2], "*"}

UnaryServerInterceptor(v) == ~ShouldSkipMethod(v.path) /\ v.user # Anonymous

Reported(v) ==
  IF v.door = "http" THEN HTTPMiddleware(v) ELSE UnaryServerInterceptor(v)

\* The event gets its time where Track begins.  What is not reported, or
\* not sampled, goes straight to its handler.
Visit(v) ==
  /\ where[v].pc = "new"
  /\ \E sampled \in (IF acfg.sampled THEN BOOLEAN ELSE {TRUE}) :
       where' = [where EXCEPT ![v] = IF sampled /\ Reported(v)
                                  THEN [pc |-> "tracking",
                                        ev |-> Event(v, clock)]
                                  ELSE Resting("done")]
  /\ UNCHANGED <<acfg, clock, queue, inHand, todo, redis, slips, mislaid, cut>>

\* isDuplicate, of what the store says now; an unknown answer is no.
IsDuplicate(u) == last[u] # Never /\ clock - last[u] < acfg.window

\* The middle of Track: dropped as a duplicate, or left to a goroutine that
\* publishes while the request goes on, or written at once.
Track(v) ==
  /\ where[v].pc = "tracking"
  /\ \/ IsDuplicate(v.user) /\ Goes(v, "done") /\ UNCHANGED slips
     \/ /\ Goes(v, IF acfg.async THEN "sending" ELSE "storing")
        /\ IF IsDuplicate(v.user) THEN Slip ELSE UNCHANGED slips
  /\ UNCHANGED <<acfg, clock, queue, inHand, todo, redis, mislaid, cut>>

\* The producer has sent it, under the user's key: one partition, in order.
SendEvent(v) ==
  /\ where[v].pc = "sending" /\ Goes(v, "done")
  /\ \/ queue' = Append(queue, where[v].ev) /\ UNCHANGED <<slips, mislaid>>
     \/ Slip /\ mislaid' = mislaid \cup {v} /\ UNCHANGED queue
  /\ UNCHANGED <<acfg, clock, inHand, todo, redis, cut>>

-----------------------------------------------------------------------------
(* The consumer *)

ConsumerIdle == where[Reader].pc = "idle"

HandleOne ==
  /\ ~acfg.batch /\ ConsumerIdle /\ queue # <<>>
  /\ inHand' = 1
  /\ where' = [where EXCEPT ![Reader] = [pc |-> "storing", ev |-> Head(queue)]]
  /\ UNCHANGED <<acfg, clock, queue, todo, redis, slips, mislaid, cut>>

\* Mutant of Latest: of a user's events the first one stays.
LatestFirst(evs) ==
  {evs[i] : i \in {j \in DOMAIN evs :
                     \A k \in 1..j - 1 : evs[k].user # evs[j].user}}

\* The newest event of every user, the first of those.
Latest(evs) ==
  {evs[i] : i \in {j \in DOMAIN evs : \A k \in DOMAIN evs :
                     evs[k].user = evs[j].user =>
                       \/ evs[k].ts < evs[j].ts
                       \/ evs[k].ts = evs[j].ts /\ k >= j}}

HandleBatch ==
  /\ acfg.batch /\ ConsumerIdle /\ todo = {}
  /\ \E n \in 1..BatchSize :
       /\ n <= Len(queue) /\ inHand' = n
       /\ todo' = Latest(SubSeq(queue, 1, n))
  /\ UNCHANGED <<acfg, clock, where, queue, redis, slips, mislaid, cut>>

\* The users of a batch come in any order.
NextUser ==
  /\ ConsumerIdle /\ todo # {}
  /\ \E e \in todo :
       where' = [where EXCEPT ![Reader] = [pc |-> "storing", ev |-> e]]
  /\ UNCHANGED <<acfg, clock, queue, inHand, todo, redis, slips, mislaid, cut>>

\* An actor is through with its event: a request is answered, the consumer
\* takes the next user or is done with the messages in its hand.
Finish(a) ==
  LET rest == IF a = Reader THEN todo \ {where[a].ev} ELSE todo
      over == a = Reader /\ rest = {}
  IN  /\ Goes(a, IF a = Reader THEN "idle" ELSE "done")
      /\ todo' = rest
      /\ inHand' = IF over THEN 0 ELSE inHand
      /\ queue' = IF over THEN SubSeq(queue, inHand + 1, Len(queue)) ELSE queue

\* The consumer dies; what it had not finished with is delivered again.
Die ==
  /\ inHand > 0 /\ Slip
  /\ where' = [where EXCEPT ![Reader] = Resting("idle")]
  /\ inHand' = 0 /\ todo' = {}
  /\ cut' = (cut \/ where[Reader].pc \in {"adding", "expiring"})
  /\ UNCHANGED <<acfg, clock, queue, redis, mislaid>>

-----------------------------------------------------------------------------
(* The store *)

\* The visits that an actor's event stands for: in a batch, all of its user.
Stands(a) ==
  IF a # Reader THEN {a}
  ELSE {queue[i].by :
          i \in {j \in 1..inHand : queue[j].user = where[a].ev.user}}

HSet(e) ==
  /\ last' = [last EXCEPT ![e.user] = e.ts]
  /\ newest' = [newest EXCEPT ![e.user] = IF e.ts > @ THEN e.ts ELSE @]

SetLastActive(a) ==
  /\ where[a].pc = "storing" /\ HSet(where[a].ev)
  /\ Goes(a, "marking")
  /\ UNCHANGED <<acfg, clock, queue, inHand, todo, online, members, setLeft,
                 slips, mislaid, cut>>

\* An error, whether the hash was set or not.  A batch goes on; a message is
\* given up, a request has its error ignored.
SetLastActiveFails(a) ==
  /\ where[a].pc = "storing" /\ Slip
  /\ mislaid' = mislaid \cup Stands(a)
  /\ HSet(where[a].ev) \/ UNCHANGED <<last, newest>>
  /\ IF a = Reader /\ acfg.batch
     THEN Goes(a, "marking") /\ UNCHANGED <<queue, inHand, todo>>
     ELSE Finish(a)
  /\ UNCHANGED <<acfg, clock, online, members, setLeft, cut>>

\* The three commands of SetOnline.
Mark(a) ==
  /\ where[a].pc = "marking" /\ Goes(a, "adding")
  /\ online' = [online EXCEPT ![where[a].ev.user] = OnlineTTL]
  /\ UNCHANGED <<acfg, clock, queue, inHand, todo, last, newest, members,
                 setLeft, slips, mislaid, cut>>

Add(a) ==
  /\ where[a].pc = "adding" /\ Goes(a, "expiring")
  /\ members' = members \cup {where[a].ev.user}
  /\ setLeft' = IF members = {} THEN Forever ELSE setLeft
  /\ UNCHANGED <<acfg, clock, queue, inHand, todo, last, newest, online, slips,
                 mislaid, cut>>

ExpireSet(a) ==
  /\ where[a].pc = "expiring" /\ Finish(a)
  /\ setLeft' = IF members = {} THEN setLeft ELSE OnlineTTL
  /\ UNCHANGED <<acfg, clock, last, newest, online, members, slips, mislaid,
                 cut>>

\* The connection breaks within SetOnline: go-redis sends the pipeline again,
\* or it fails.  Then a message is given up or delivered again, a batch and
\* a request go on.
Break(a) ==
  /\ where[a].pc \in {"marking", "adding", "expiring"} /\ Slip
  /\ cut' = TRUE
  /\ \/ Finish(a)
     \/ /\ \/ Goes(a, "marking")
           \/ a = Reader /\ ~acfg.batch /\ Goes(a, "storing")
        /\ UNCHANGED <<queue, inHand, todo>>
  /\ UNCHANGED <<acfg, clock, redis, mislaid>>

SetOnline(a) == Mark(a) \/ Add(a) \/ ExpireSet(a) \/ Break(a)
Store(a) == SetLastActive(a) \/ SetLastActiveFails(a) \/ SetOnline(a)

-----------------------------------------------------------------------------
Less1(n) == IF n > 0 THEN n - 1 ELSE n

Passes ==
  /\ where[Reader].pc # "off" /\ clock < MaxClock /\ clock' = clock + 1
  /\ online' = [u \in Users |-> Less1(online[u])]
  /\ setLeft' = Less1(setLeft)
  /\ members' = IF setLeft = 1 THEN {} ELSE members
  /\ cut' = (cut \/ \E a \in Actors : where[a].pc \in {"adding", "expiring"})
  /\ UNCHANGED <<acfg, where, queue, inHand, todo, last, newest, slips,
                 mislaid>>

Consume == HandleOne \/ HandleBatch \/ NextUser

ActivityNext ==
  \/ \E v \in Visits : Visit(v) \/ Track(v) \/ SendEvent(v)
  \/ \E a \in Actors : Store(a)
  \/ Consume \/ Die \/ Passes
=============================================================================
