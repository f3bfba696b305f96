------------------------------ MODULE EventBus ------------------------------
(***************************************************************************)
(* The domain events (domain/): an aggregate root raises events, and a bus  *)
(* calls the handlers subscribed for an event's name, then those subscribed *)
(* for all of them.                                                         *)
(*                                                                         *)
(* Publish puts the two lists together with append under the read lock and  *)
(* walks the result without it.  Where the first list's array has room,     *)
(* the result lies in that array, which a later Subscribe writes to; the    *)
(* arrays are therefore part of the state.                                  *)
(***************************************************************************)
EXTENDS Integers, Sequences, FiniteSets, SequencesExt

CONSTANTS
  MaxEvents,  \* bound: events of the aggregate
  BusConfigs  \* the handlers subscribed at first for the name and for "*",
              \* and those that may be subscribed later

\* A handler stands for one subscription: none is there twice.  The largest
\* array of the model has four places (Capacities).
ASSUME BusAssumption ==
  /\ MaxEvents \in Nat
  /\ \A c \in BusConfigs :
       /\ c.named \in Seq(Range(c.named)) /\ Len(c.named) <= 4
       /\ c.all \in Seq(Range(c.all)) /\ IsInjective(c.named \o c.all)

VARIABLES
  bcfg,    \* the set-up
  array,   \* the arrays the name's list has had, by their capacity
  cap,     \* the capacity of the one it has
  named,   \* how long that list is
  all,     \* the handlers of "*"
  pub,     \* who publishes: the dispatcher and another goroutine
  raised,  \* events the aggregate has raised
  events,  \* those it still holds
  batch,   \* those the running Dispatch was given
  heard,   \* ghost: events whose Publish returned nil
  late     \* ghost: events raised while a Dispatch ran

busVars == <<bcfg, array, cap, named, all, pub, raised, events, batch, heard,
             late>>

Capacities == {0, 1, 2, 4}
Publishers == {"dispatch", "publish"}
NotPublishing == [pc |-> "idle", cap |-> 0, own |-> <<>>, len |-> 0,
                  called |-> <<>>, due |-> {}, crossed |-> FALSE]

\* The capacity of a list that grew one by one.
CapFor(n) == CHOOSE k \in Capacities : n <= k /\ (k = 0 \/ 2 * n > k)

BusInit(used) ==
  /\ bcfg \in BusConfigs
  /\ used \/ bcfg = (CHOOSE c \in BusConfigs : TRUE)
  /\ named = Len(bcfg.named) /\ all = bcfg.all /\ cap = CapFor(named)
  /\ array = [k \in Capacities |-> IF k = cap THEN bcfg.named ELSE <<>>]
  /\ pub = [p \in Publishers |->
              [NotPublishing EXCEPT !.pc = IF used THEN "idle" ELSE "off"]]
  /\ raised = 0 /\ events = <<>> /\ batch = <<>> /\ heard = {} /\ late = {}

Named == SubSeq(array[cap], 1, named)
Subscribed == Range(Named) \cup Range(all)
Publishing(p) == pub[p].pc = "calling"
Dispatching == batch # <<>>

\* Values written from place n + 1 on.
Overwrite(slots, n, new) ==
  [i \in 1..(IF n + Len(new) > Len(slots) THEN n + Len(new) ELSE Len(slots)) |->
     IF i > n /\ i <= n + Len(new) THEN new[i - n] ELSE slots[i]]

\* append for one element: in place, or in an array twice as large.
Subscribe(h) ==
  /\ h \in bcfg.later \ Subscribed /\ pub["publish"].pc # "off"
  /\ LET room == named < cap
         next == IF room THEN cap ELSE IF cap = 0 THEN 1 ELSE 2 * cap
         base == IF room THEN array[cap] ELSE Named
     IN /\ next \in Capacities
        /\ array' = [array EXCEPT ![next] = Overwrite(base, named, <<h>>)]
        /\ cap' = next
  /\ named' = named + 1
  /\ pub' = [p \in Publishers |->
               [pub[p] EXCEPT !.crossed = @ \/ Publishing(p)]]
  /\ UNCHANGED <<bcfg, all, raised, events, batch, heard, late>>

SubscribeAll(h) ==
  /\ h \in bcfg.later \ Subscribed /\ pub["publish"].pc # "off"
  /\ all' = Append(all, h)
  /\ UNCHANGED <<bcfg, array, cap, named, pub, raised, events, batch, heard,
                 late>>

\* Publish: the list is put together ...
Begin(p) ==
  LET fits == named + Len(all) <= cap
      slots == Overwrite(array[cap], named, all)
  IN /\ array' = IF fits THEN [array EXCEPT ![cap] = slots] ELSE array
     /\ pub' = [pub EXCEPT ![p] =
          [pc |-> "calling", cap |-> IF fits THEN cap ELSE 0,
           own |-> IF fits THEN <<>> ELSE Named \o all,
           len |-> named + Len(all), called |-> <<>>, due |-> Subscribed,
           crossed |-> FALSE]]

\* ... and its handlers called in turn, up to the first error.
List(r) == IF r.cap = 0 THEN r.own ELSE array[r.cap]

Call(p) ==
  LET r == pub[p] IN
  /\ Publishing(p) /\ Len(r.called) < r.len
  /\ \E ok \in BOOLEAN :
       pub' = [pub EXCEPT ![p].called = Append(@, List(r)[Len(@) + 1]),
                          ![p].pc = IF ok THEN "calling" ELSE "failed"]
  /\ UNCHANGED <<bcfg, array, cap, named, all, raised, events, batch, heard,
                 late>>

Return(p) ==
  /\ Publishing(p) /\ Len(pub[p].called) = pub[p].len
  /\ pub' = [pub EXCEPT ![p].pc = "returned"]
  /\ UNCHANGED <<bcfg, array, cap, named, all, raised, events, batch, heard,
                 late>>

\* Publish of another goroutine.
BusPublish ==
  /\ pub["publish"].pc = "idle"
  /\ Begin("publish")
  /\ UNCHANGED <<bcfg, cap, named, all, raised, events, batch, heard, late>>

RaiseEvent ==
  /\ pub["dispatch"].pc # "off" /\ raised < MaxEvents
  /\ raised' = raised + 1 /\ events' = Append(events, raised + 1)
  /\ late' = IF Dispatching THEN late \cup {raised + 1} ELSE late
  /\ UNCHANGED <<bcfg, array, cap, named, all, pub, batch, heard>>

\* Dispatch publishes what DomainEvents gave it, one after the other.
Dispatch ==
  /\ pub["dispatch"].pc = "idle" /\ events # <<>>
  /\ batch' = events
  /\ Begin("dispatch")
  /\ UNCHANGED <<bcfg, cap, named, all, raised, events, heard, late>>

\* Mutant of Continue: the events are cleared after an error too.
ContinueClearing ==
  LET ok == pub["dispatch"].pc = "returned" IN
  /\ pub["dispatch"].pc \in {"returned", "failed"}
  /\ heard' = IF ok THEN heard \cup {Head(batch)} ELSE heard
  /\ IF ok /\ Len(batch) > 1
     THEN /\ batch' = Tail(batch) /\ Begin("dispatch") /\ UNCHANGED events
     ELSE /\ batch' = <<>> /\ events' = <<>>
          /\ pub' = [pub EXCEPT !["dispatch"] = NotPublishing]
          /\ UNCHANGED array
  /\ UNCHANGED <<bcfg, cap, named, all, raised, late>>

\* After an event it goes on, or clears whatever the aggregate then holds;
\* after an error it returns it and clears nothing.
Continue ==
  LET ok == pub["dispatch"].pc = "returned" IN
  /\ pub["dispatch"].pc \in {"returned", "failed"}
  /\ heard' = IF ok THEN heard \cup {Head(batch)} ELSE heard
  /\ IF ok /\ Len(batch) > 1
     THEN /\ batch' = Tail(batch) /\ Begin("dispatch") /\ UNCHANGED events
     ELSE /\ batch' = <<>> /\ events' = IF ok THEN <<>> ELSE events
          /\ pub' = [pub EXCEPT !["dispatch"] = NotPublishing]
          /\ UNCHANGED array
  /\ UNCHANGED <<bcfg, cap, named, all, raised, late>>

BusNext ==
  \/ \E h \in bcfg.later : Subscribe(h) \/ SubscribeAll(h)
  \/ \E p \in Publishers : Call(p) \/ Return(p)
  \/ BusPublish \/ RaiseEvent \/ Dispatch \/ Continue
=============================================================================
