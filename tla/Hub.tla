--------------------------------- MODULE Hub ---------------------------------
(***************************************************************************)
(* Pushing to connections: the WebSocket hub with its clients               *)
(* (transport/websocket) and the SSE server with its own, and the topics of *)
(* its Broker (transport/sse).  Both keep a map of clients that a goroutine *)
(* (Run) changes as it reads three channels: register, unregister and       *)
(* broadcast.  They differ in what a full channel means: the hub then works *)
(* in the caller's goroutine, the SSE server blocks; a client's own channel *)
(* makes the hub wait and the SSE server drop the event.                    *)
(*                                                                         *)
(* Messages are sent by Run and by one goroutine of the application; both   *)
(* look whether a client is closed before they write to its channel, and a  *)
(* channel closed in between is a panic.                                    *)
(***************************************************************************)
EXTENDS Integers, Sequences, FiniteSets, SequencesExt

CONSTANTS
  Clients,     \* the connections
  Capacity,    \* of register, unregister and broadcast (256 in the code)
  Buffer,      \* of a client's own channel
  HubConfigs   \* kind, whether clients must authenticate, whether messages
               \* go to chosen clients and topics, whether it is closed,
               \* whether the application closes clients itself and peers
               \* send too much at once, and (a bound) how many messages the
               \* application sends

ASSUME HubAssumption ==
  /\ Capacity \in Nat \ {0} /\ Buffer \in Nat \ {0}
  /\ \A c \in HubConfigs : c.kind \in {"ws", "sse"} /\ c.messages \in Nat

VARIABLES
  hcfg,        \* the set-up
  running,     \* whether Run runs
  hubClosed,   \* Close was called
  register, unregister, broadcast,  \* the channels
  clients,     \* the map
  sending,     \* Run's and the application's: the message, who is left,
               \* the client they have looked at, whether they hold the lock
  conn,        \* the connections and their clients
  topic,       \* subscribers of the Broker's topic
  sent,        \* messages the application has sent
  crashed,     \* a goroutine panicked
  overflow,    \* ghost: a broadcast found its channel full
  ghosts       \* ghost: clients unregistered before they were registered

channels == <<register, unregister, broadcast>>
hubVars == <<hcfg, running, hubClosed, channels, clients, sending, conn,
             topic, sent, crashed, overflow, ghosts>>

WS == hcfg.kind = "ws"
SSE == hcfg.kind = "sse"
NoClient == "nobody"
Idle == [msg |-> 0, todo |-> {}, to |-> NoClient, locked |-> FALSE]
Busy(a) == sending[a] # Idle
Unlocked == \A a \in DOMAIN sending : ~sending[a].locked

\* A client: "new" until it connects, "joining" until it is in the register
\* channel, "on" while its readPump or ServeHTTP runs, "leaving" until it is in
\* the unregister channel, "gone"; writing, while its writePump or ServeHTTP
\* does; kicked, if the application closed it itself.  Of its channel we keep
\* how many messages are in it and the number of the last broadcast put there.
NewConn == [pc |-> "new", peer |-> TRUE, closed |-> FALSE, kicked |-> FALSE,
            writing |-> FALSE, queued |-> 0, last |-> 0, known |-> FALSE]

\* A hub whose Run was started, or none.
HubInit(used) ==
  /\ hcfg \in HubConfigs
  /\ used \/ hcfg = (CHOOSE c \in HubConfigs : TRUE)
  /\ running = used /\ hubClosed = FALSE
  /\ register = <<>> /\ unregister = <<>> /\ broadcast = <<>>
  /\ clients = {} /\ topic = {} /\ sent = 0
  /\ sending = [a \in {"run", "app"} |-> Idle]
  /\ conn = [c \in Clients |-> NewConn]
  /\ crashed = ~used /\ overflow = FALSE /\ ghosts = {}

\* The request whose ServeHTTP has returned is over.
Gone(r) == [r EXCEPT !.pc = "gone", !.peer = FALSE, !.writing = FALSE]

\* Client.Close: the second call does nothing.
Closed(r) == [r EXCEPT !.closed = TRUE]
CloseAll(cs) ==
  [c \in Clients |-> IF c \in cs THEN Closed(conn[c]) ELSE conn[c]]

-----------------------------------------------------------------------------
(***************************************************************************)
(* A client connects.                                                       *)
(***************************************************************************)

\* Upgrade: the hub registers the client and starts its two pumps.
Upgrade(c) ==
  /\ WS /\ conn[c].pc = "new"
  /\ conn' = [conn EXCEPT ![c].pc = "on", ![c].writing = TRUE]
  /\ \/ /\ Len(register) < Capacity
        /\ register' = Append(register, c) /\ UNCHANGED clients
     \/ /\ Len(register) = Capacity /\ Unlocked
        /\ clients' = clients \cup {c} /\ UNCHANGED register
  /\ UNCHANGED <<hcfg, running, hubClosed, unregister, broadcast, sending,
                 topic, sent, crashed, overflow, ghosts>>

\* ServeHTTP blocks where the channel is full.
ServeHTTP(c) ==
  /\ SSE /\ conn[c].pc = "new"
  /\ conn' = [conn EXCEPT ![c].pc = "joining"]
  /\ UNCHANGED <<hcfg, running, hubClosed, channels, clients, sending, topic,
                 sent, crashed, overflow, ghosts>>

Join(c) ==
  /\ conn[c].pc = "joining" /\ Len(register) < Capacity
  /\ register' = Append(register, c)
  /\ conn' = [conn EXCEPT ![c].pc = "on", ![c].writing = TRUE]
  /\ UNCHANGED <<hcfg, running, hubClosed, unregister, broadcast, clients,
                 sending, topic, sent, crashed, overflow, ghosts>>

-----------------------------------------------------------------------------
(***************************************************************************)
(* Its goroutines: writePump writes what is in the client's channel, and    *)
(* pings, until that is closed or the connection fails, and closes the      *)
(* connection; readPump ends with the connection, or at a message it cannot *)
(* read, and unregisters the client.  ServeHTTP's loop does both, but leaves*)
(* without a word when the channel was closed.                              *)
(***************************************************************************)

PeerLeaves(c) ==
  /\ conn[c].pc # "new" /\ conn[c].peer
  /\ conn' = [conn EXCEPT ![c].peer = FALSE]
  /\ UNCHANGED <<hcfg, running, hubClosed, channels, clients, sending, topic,
                 sent, crashed, overflow, ghosts>>

\* What a write to the peer takes from the channel; a write that fails and a
\* closed client end writePump.
WriteOne(r) == r.queued > 0 /\ (SSE \/ (r.peer /\ ~r.closed))
WriteStops(r) == WS /\ (r.closed \/ ~r.peer)

\* Mutant of Write: ServeHTTP does not see that the channel is closed.
WriteUnchecked(c) ==
  LET r == conn[c] IN
  /\ r.writing
  /\ \/ WriteOne(r) /\ conn' = [conn EXCEPT ![c].queued = @ - 1]
     \/ /\ WriteStops(r)
        /\ conn' = [conn EXCEPT ![c].writing = FALSE, ![c].peer = FALSE]
  /\ UNCHANGED <<hcfg, running, hubClosed, channels, clients, sending, topic,
                 sent, crashed, overflow, ghosts>>

Write(c) ==
  LET r == conn[c] IN
  /\ r.writing
  /\ \/ WriteOne(r) /\ conn' = [conn EXCEPT ![c].queued = @ - 1]
     \/ /\ WriteStops(r)
        /\ conn' = [conn EXCEPT ![c].writing = FALSE, ![c].peer = FALSE]
     \/ /\ SSE /\ r.closed /\ r.queued = 0
        /\ conn' = [conn EXCEPT ![c] = Gone(r)]
  /\ UNCHANGED <<hcfg, running, hubClosed, channels, clients, sending, topic,
                 sent, crashed, overflow, ghosts>>

\* The application closes a client it found in the map.
Kick(c) ==
  /\ hcfg.kicks /\ c \in clients /\ ~conn[c].closed
  /\ conn' = [conn EXCEPT ![c] = [Closed(@) EXCEPT !.kicked = TRUE]]
  /\ UNCHANGED <<hcfg, running, hubClosed, channels, clients, sending, topic,
                 sent, crashed, overflow, ghosts>>

\* A message of the peer reaches the handler.  Behind AuthMiddleware the first
\* must be a token; a wrong one closes the client.
HandleMessage(c) ==
  /\ WS /\ hcfg.auth /\ conn[c].pc = "on" /\ conn[c].peer
  /\ ~conn[c].closed /\ ~conn[c].known
  /\ \/ conn' = [conn EXCEPT ![c].known = TRUE]
     \/ conn' = [conn EXCEPT ![c] = Closed(@)]
  /\ UNCHANGED <<hcfg, running, hubClosed, channels, clients, sending, topic,
                 sent, crashed, overflow, ghosts>>

\* Mutant of Forget: the client stays in the map.
ForgetOnlyCloses(c, closing) ==
  /\ UNCHANGED clients
  /\ conn' = [conn EXCEPT ![c] = IF c \in clients THEN Closed(closing)
                                 ELSE closing]
  /\ ghosts' = IF c \in clients \/ hubClosed THEN ghosts ELSE ghosts \cup {c}

\* What Run does with a client that leaves, and the caller where the hub's
\* channel is full.
Forget(c, closing) ==
  /\ clients' = clients \ {c}
  /\ conn' = [conn EXCEPT ![c] = IF c \in clients THEN Closed(closing)
                                 ELSE closing]
  /\ ghosts' = IF c \in clients \/ hubClosed THEN ghosts ELSE ghosts \cup {c}

\* The peer sends what is longer than MaxMessageSize: only reading fails.
ReadFails(c) ==
  /\ WS /\ hcfg.oversized /\ conn[c].pc = "on" /\ conn[c].peer
  /\ conn' = [conn EXCEPT ![c].pc = "leaving"]
  /\ UNCHANGED <<hcfg, running, hubClosed, channels, clients, sending, topic,
                 sent, crashed, overflow, ghosts>>

\* readPump's Unregister.
ReadEnds(c) ==
  LET r == [conn[c] EXCEPT !.pc = "gone"] IN
  /\ WS
  /\ \/ conn[c].pc = "leaving"
     \/ conn[c].pc = "on" /\ (~conn[c].peer \/ conn[c].closed)
  /\ \/ /\ Len(unregister) < Capacity
        /\ unregister' = Append(unregister, c)
        /\ conn' = [conn EXCEPT ![c] = r]
        /\ UNCHANGED <<clients, ghosts>>
     \/ /\ Len(unregister) = Capacity /\ Unlocked
        /\ Forget(c, r)
        /\ UNCHANGED unregister
  /\ UNCHANGED <<hcfg, running, hubClosed, register, broadcast, sending,
                 topic, sent, crashed, overflow>>

\* The request's context is done.
RequestEnds(c) ==
  /\ SSE /\ conn[c].pc = "on" /\ ~conn[c].peer
  /\ conn' = [conn EXCEPT ![c].pc = "leaving", ![c].writing = FALSE]
  /\ UNCHANGED <<hcfg, running, hubClosed, channels, clients, sending, topic,
                 sent, crashed, overflow, ghosts>>

Leave(c) ==
  /\ SSE /\ conn[c].pc = "leaving" /\ Len(unregister) < Capacity
  /\ unregister' = Append(unregister, c)
  /\ conn' = [conn EXCEPT ![c] = Gone(@)]
  /\ UNCHANGED <<hcfg, running, hubClosed, register, broadcast, clients,
                 sending, topic, sent, crashed, overflow, ghosts>>

-----------------------------------------------------------------------------
(***************************************************************************)
(* Run: one ready channel after the other, in no order.                     *)
(***************************************************************************)

RunRegister ==
  /\ running /\ ~Busy("run") /\ register # <<>> /\ Unlocked
  /\ register' = Tail(register)
  /\ clients' = clients \cup {Head(register)}
  /\ UNCHANGED <<hcfg, running, hubClosed, unregister, broadcast, sending,
                 conn, topic, sent, crashed, overflow, ghosts>>

RunUnregister ==
  /\ running /\ ~Busy("run") /\ unregister # <<>> /\ Unlocked
  /\ unregister' = Tail(unregister)
  /\ Forget(Head(unregister), conn[Head(unregister)])
  /\ UNCHANGED <<hcfg, running, hubClosed, register, broadcast, sending,
                 topic, sent, crashed, overflow>>

RunBroadcast ==
  /\ running /\ ~Busy("run") /\ broadcast # <<>>
  /\ broadcast' = Tail(broadcast)
  /\ sending' = [sending EXCEPT !["run"] =
       [msg |-> Head(broadcast), todo |-> clients, to |-> NoClient,
        locked |-> TRUE]]
  /\ UNCHANGED <<hcfg, running, hubClosed, register, unregister, clients,
                 conn, topic, sent, crashed, overflow, ghosts>>

RunStops ==
  /\ running /\ ~Busy("run") /\ hubClosed
  /\ running' = FALSE
  /\ UNCHANGED <<hcfg, hubClosed, channels, clients, sending, conn, topic,
                 sent, crashed, overflow, ghosts>>

\* Close, of the application or of Run whose context is done.
CloseHub ==
  /\ hcfg.closes /\ ~hubClosed /\ Unlocked
  /\ hubClosed' = TRUE
  /\ conn' = CloseAll(clients) /\ clients' = {}
  /\ UNCHANGED <<hcfg, running, channels, sending, topic, sent, crashed,
                 overflow, ghosts>>

-----------------------------------------------------------------------------
(***************************************************************************)
(* Sending.  The application broadcasts through the channel or, where that  *)
(* is full, itself; to some clients it sends itself in any case, and so     *)
(* does the Broker to its subscribers.                                      *)
(***************************************************************************)

Direct(msg, to, locked) ==
  sending' = [sending EXCEPT !["app"] =
    [msg |-> msg, todo |-> to, to |-> NoClient, locked |-> locked]]

CanSend == ~Busy("app") /\ sent < hcfg.messages /\ sent' = sent + 1

\* Mutant of Broadcast: the caller may send itself although there is room.
BroadcastItself ==
  /\ CanSend
  /\ \/ /\ Len(broadcast) < Capacity
        /\ broadcast' = Append(broadcast, sent + 1)
        /\ UNCHANGED sending
     \/ Direct(sent + 1, clients, TRUE) /\ UNCHANGED broadcast
  /\ overflow' = (overflow \/ Len(broadcast) = Capacity)
  /\ UNCHANGED <<hcfg, running, hubClosed, register, unregister, clients,
                 conn, topic, crashed, ghosts>>

Broadcast ==
  /\ CanSend
  /\ \/ /\ Len(broadcast) < Capacity
        /\ broadcast' = Append(broadcast, sent + 1)
        /\ UNCHANGED sending
     \/ /\ Len(broadcast) = Capacity
        /\ Direct(sent + 1, clients, TRUE)
        /\ UNCHANGED broadcast
  /\ overflow' = (overflow \/ Len(broadcast) = Capacity)
  /\ UNCHANGED <<hcfg, running, hubClosed, register, unregister, clients,
                 conn, topic, crashed, ghosts>>

\* Messages that are not broadcast have no number.
BroadcastTo ==
  /\ hcfg.direct /\ CanSend
  /\ \E cs \in SUBSET clients : cs # {} /\ Direct(0, cs, TRUE)
  /\ UNCHANGED <<hcfg, running, hubClosed, channels, clients, conn, topic,
                 crashed, overflow, ghosts>>

Send ==
  /\ hcfg.direct /\ CanSend
  /\ \E c \in clients : Direct(0, {c}, FALSE)
  /\ UNCHANGED <<hcfg, running, hubClosed, channels, clients, conn, topic,
                 crashed, overflow, ghosts>>

\* The Broker keeps whom it was given until Unsubscribe, connected or not.
SubscribeTopic(c) ==
  /\ hcfg.direct /\ c \in clients \ topic
  /\ topic' = topic \cup {c}
  /\ UNCHANGED <<hcfg, running, hubClosed, channels, clients, sending, conn,
                 sent, crashed, overflow, ghosts>>

UnsubscribeTopic(c) ==
  /\ c \in topic
  /\ topic' = topic \ {c}
  /\ UNCHANGED <<hcfg, running, hubClosed, channels, clients, sending, conn,
                 sent, crashed, overflow, ghosts>>

PublishTopic ==
  /\ topic # {} /\ CanSend
  /\ Direct(0, topic, FALSE)
  /\ UNCHANGED <<hcfg, running, hubClosed, channels, clients, conn, topic,
                 crashed, overflow, ghosts>>

\* Client.Send looks whether the client is closed, and lets its lock go ...
Look(a) ==
  /\ Busy(a) /\ sending[a].to = NoClient
  /\ IF sending[a].todo = {}
     THEN sending' = [sending EXCEPT ![a] = Idle]
     ELSE \E c \in sending[a].todo :
            sending' = [sending EXCEPT ![a].todo = @ \ {c},
                                       ![a].to = IF conn[c].closed THEN NoClient
                                                 ELSE c]
  /\ UNCHANGED <<hcfg, running, hubClosed, channels, clients, conn, topic,
                 sent, crashed, overflow, ghosts>>

\* ... before it writes to the channel.  A full one makes the hub wait and
\* give up in the end, the SSE server drop the event.
Put(a) ==
  LET c == sending[a].to IN
  /\ c # NoClient
  /\ crashed' = conn[c].closed
  /\ sending' = [sending EXCEPT ![a].to = NoClient]
  /\ conn' = IF conn[c].closed \/ conn[c].queued = Buffer THEN conn
             ELSE [conn EXCEPT ![c].queued = @ + 1,
                               ![c].last = IF sending[a].msg = 0 THEN @
                                           ELSE sending[a].msg]
  /\ UNCHANGED <<hcfg, running, hubClosed, channels, clients, topic, sent,
                 overflow, ghosts>>

Life(c) ==
  \/ Join(c) \/ Write(c) \/ ReadEnds(c) \/ RequestEnds(c) \/ Leave(c)

Loop == RunRegister \/ RunUnregister \/ RunBroadcast \/ RunStops

Sending == \E a \in {"run", "app"} : Look(a) \/ Put(a)

HubNext ==
  /\ ~crashed
  /\ \/ Loop \/ CloseHub \/ Sending
     \/ Broadcast \/ BroadcastTo \/ Send \/ PublishTopic
     \/ \E c \in Clients :
          \/ Upgrade(c) \/ ServeHTTP(c) \/ Life(c)
          \/ PeerLeaves(c) \/ HandleMessage(c) \/ ReadFails(c) \/ Kick(c)
          \/ SubscribeTopic(c) \/ UnsubscribeTopic(c)

HubFairness ==
  /\ WF_hubVars(~crashed /\ RunRegister) /\ WF_hubVars(~crashed /\ RunStops)
  /\ WF_hubVars(~crashed /\ RunUnregister)
  /\ WF_hubVars(~crashed /\ RunBroadcast)
  /\ WF_hubVars(~crashed /\ Sending)
  /\ \A c \in Clients : WF_hubVars(~crashed /\ Life(c))
=============================================================================
