------------------------------- MODULE Fanout -------------------------------
(***************************************************************************)
(* The ways the kit hands one message to many receivers in a process: the   *)
(* WebSocket hub, the SSE server and its topics (Hub), the domain event bus *)
(* (EventBus); and the two that record what many requests do, users'        *)
(* activity (Activity) and the log (LogFiles).  An application of this       *)
(* module uses one of them.                                                 *)
(***************************************************************************)
EXTENDS Hub, EventBus, Activity, LogFiles

VARIABLE uses  \* which one

fanoutVars == <<uses, hubVars, busVars, activityVars, logVars>>

FanoutInit ==
  /\ uses \in {"hub", "bus", "activity", "log"}
  /\ HubInit(uses = "hub") /\ BusInit(uses = "bus")
  /\ ActivityInit(uses = "activity") /\ LogInit(uses = "log")

FanoutNext ==
  \/ HubNext /\ UNCHANGED <<uses, busVars, activityVars, logVars>>
  \/ BusNext /\ UNCHANGED <<uses, hubVars, activityVars, logVars>>
  \/ ActivityNext /\ UNCHANGED <<uses, hubVars, busVars, logVars>>
  \/ LogNext /\ UNCHANGED <<uses, hubVars, busVars, activityVars>>

FanoutSpec == FanoutInit /\ [][FanoutNext]_fanoutVars /\ HubFairness

-----------------------------------------------------------------------------
\* When a connection has ended its client is out of the map for good, unless
\* Run read the two channels the wrong way round (websocket.go:195,
\* sse.go:256) or has stopped, or a send panicked on the closed channel
\* (sse.go:177), or the application closed an SSE client, whose ServeHTTP then
\* returns without unregistering it (sse.go:331).
Ended(c) == conn[c].pc # "new" /\ ~conn[c].peer

MapForgets ==
  \A c \in Clients :
    Ended(c) ~> [](\/ c \notin clients \/ c \in ghosts
                   \/ SSE /\ conn[c].kicked
                   \/ hubClosed \/ crashed)

\* Both goroutines of a client whose connection has ended, or that was closed,
\* end.  ServeHTTP of the SSE server may wait for good on a full channel that
\* nobody reads once Run has stopped (sse.go:309, 325).
Jammed(c) ==
  /\ SSE /\ ~running
  /\ \/ conn[c].pc = "joining" /\ Len(register) = Capacity
     \/ conn[c].pc = "leaving" /\ Len(unregister) = Capacity

HandlersEnd ==
  \A c \in Clients :
    (Ended(c) \/ conn[c].closed)
      ~> \/ conn[c].pc = "gone" /\ ~conn[c].writing
         \/ Jammed(c) \/ crashed

\* Nothing of a connection outlives it.
ConnectionsEnd == MapForgets /\ HandlersEnd

\* A client gets broadcasts in the order they were made, as long as
\* no broadcast found the channel full: then the caller's goroutine
\* sends past the queue (websocket.go:246).
InOrder ==
  [][\A c \in Clients : overflow' \/ conn'[c].last >= conn[c].last]_fanoutVars

\* A Publish that returns nil has called every handler that was subscribed
\* when it began, once; unless one subscribed meanwhile overwrote the shared
\* array (eventbus.go:37).  An aggregate loses no event that was not
\* published, unless it was raised while Dispatch ran (eventbus.go:55).
AllCalled ==
  \A p \in Publishers :
    pub[p].pc = "returned" /\ ~pub[p].crossed =>
      /\ Range(pub[p].called) = pub[p].due
      /\ Len(pub[p].called) = Cardinality(pub[p].due)

NoneForgotten == 1..raised \subseteq Range(events) \cup heard \cup late

EventsHeard == AllCalled /\ NoneForgotten

\* Whoever is online is counted (store_redis.go:167-169), however the
\* commands of two requests mix, and the set that counts has a time to live;
\* only a pipeline that was cut short, or took longer than a tick, leaves
\* one out.
Adds(u) == \E a \in Actors : where[a].pc = "adding" /\ where[a].ev.user = u

OnlineCounted ==
  \/ cut
  \/ /\ \A u \in Users : online[u] > 0 => u \in members \/ Adds(u)
     /\ members # {} /\ setLeft = Forever =>
          \E a \in Actors : where[a].pc = "expiring"

\* A visit that reached Track and has been dealt with is known: at some time
\* the store said the user was active then, or later, or less than the dedupe
\* window before (activity.go:153), through batches, redeliveries and
\* goroutines that publish out of order; unless a failing store or broker
\* took it.
DealtWith(v) ==
  /\ where[v].pc = "done" /\ where[v].ev.by = v /\ where[v].ev.ts # Never
  /\ \A i \in DOMAIN queue : queue[i].by # v

Recorded ==
  \A v \in Visits :
    DealtWith(v) =>
      \/ v \in mislaid
      \/ newest[v.user] # Never
         /\ \/ newest[v.user] >= where[v].ev.ts
            \/ newest[v.user] > where[v].ev.ts - acfg.window

ActivityKnown == OnlineCounted /\ Recorded
=============================================================================
