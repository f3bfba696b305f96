------------------------------- MODULE Rabbit -------------------------------
(***************************************************************************)
(* A RabbitMQ producer or consumer with its connection:                     *)
(* messaging/rabbitmq_connection.go, rabbitmq_producer.go and               *)
(* rabbitmq_consumer.go.  Each client dials a connection of its own, so one *)
(* client is a system; which of the two it is, is part of its set-up.       *)
(*                                                                         *)
(* The connection's goroutine (watch) learns of a lost link, dials again    *)
(* and tells the client's goroutine (helper), which opens a new channel.    *)
(* Links are numbered; a channel is named by the link it was opened on.     *)
(* The broker and the AMQP library are external.                            *)
(***************************************************************************)
EXTENDS Integers, Sequences, FiniteSets

CONSTANTS
  Senders,        \* goroutines that call the producer's SendMessage
  Messages,       \* messages of the consumer's queue
  MaxDrops,       \* bound: how often a link is lost
  MaxFails,       \* bound: how often the handler fails
  RabbitConfigs   \* role, confirm mode, autoAck, whether the application
                  \* calls CommitMessage, whether it closes the client

NoMessage == "none"

ASSUME RabbitAssumption ==
  /\ IsFiniteSet(Senders) /\ NoMessage \notin Messages
  /\ MaxDrops \in Nat /\ MaxFails \in Nat
  /\ \A c \in RabbitConfigs : c.role \in {"producer", "consumer"}

VARIABLES
  rcfg,      \* the set-up
  link,      \* number of the newest connection
  up,        \* whether it is up
  watch,     \* the connection's handleReconnect goroutine
  notice,    \* what NotifyClose's channel holds
  helper,    \* the client's handleReconnect goroutine
  missed,    \* ghost: the last notification found the helper busy
  refused,   \* ghost: the last channel could not be set up
  closed,    \* Close was called
  drops,     \* how many links were lost
  chan,      \* the link of the client's channel
  chanUp,    \* whether that channel is open
  sender,    \* the senders
  confirms,  \* of each link: publishings unconfirmed, the confirm channel
  acked,     \* ghost: publishings the broker has acknowledged
  at,        \* where each of the consumer's messages is
  handled,   \* ghost: messages whose handler returned nil
  loop,      \* Consume: the message in hand and on which channel it came
  fails      \* how often the handler failed

connVars == <<link, up, watch, notice, helper, missed, refused, closed, drops>>
chanVars == <<chan, chanUp>>
sendVars == <<sender, confirms, acked>>
takeVars == <<at, handled, loop, fails>>
rabbitVars == <<rcfg, connVars, chanVars, sendVars, takeVars>>

Links == 1..(MaxDrops + 1)
Producer == rcfg.role = "producer"
Consumer == rcfg.role = "consumer"

\* The consumer reads the deliveries of its first channel, whatever channel
\* handleReconnect opens later.
Read == 1

\* A client that is connected, consumes if it is a consumer; or none.
RabbitInit(used) ==
  /\ rcfg \in RabbitConfigs
  /\ used \/ rcfg = (CHOOSE c \in RabbitConfigs : c.role = "producer")
  /\ link = 1 /\ up = used /\ notice = "nothing"
  /\ watch = (IF used THEN "watching" ELSE "gone")
  /\ helper = (IF used THEN "wait" ELSE "gone")
  /\ missed = FALSE /\ refused = FALSE /\ closed = ~used /\ drops = 0
  /\ chan = 1 /\ chanUp = used
  /\ sender = [s \in Senders |->
                 [pc |-> IF used THEN "idle" ELSE "err", on |-> 0]]
  /\ confirms = [l \in Links |->
                   [due |-> 0, box |-> <<>>, open |-> l = 1]]
  /\ acked = 0
  /\ at = [m \in Messages |-> "queue"]
  /\ handled = {} /\ fails = 0
  /\ loop = [msg |-> NoMessage, acked |-> FALSE]

-----------------------------------------------------------------------------
(***************************************************************************)
(* What the end of a channel does: its confirm channel is closed, what is   *)
(* in it stays, and the broker puts what was not acknowledged back.         *)
(***************************************************************************)

ConfirmsEnd(l) ==
  confirms' = [confirms EXCEPT ![l].due = 0, ![l].open = FALSE]

Requeue ==
  at' = [m \in Messages |->
           IF at[m] \notin {"inbox", "hand", "unread"} THEN at[m]
           ELSE IF rcfg.autoAck THEN "done" ELSE "queue"]

ChannelEnds ==
  /\ chanUp' = FALSE
  /\ IF chanUp THEN ConfirmsEnd(chan) /\ Requeue
     ELSE UNCHANGED <<confirms, at>>

-----------------------------------------------------------------------------
(***************************************************************************)
(* The connection.                                                          *)
(***************************************************************************)

\* A link is lost.  Between Dial and NotifyClose nobody is told.
Drop ==
  /\ up /\ drops < MaxDrops
  /\ drops' = drops + 1 /\ up' = FALSE
  /\ notice' = IF watch = "dialled" THEN notice ELSE "error"
  /\ IF chan = link THEN ChannelEnds
     ELSE UNCHANGED <<chanUp, confirms, at>>
  /\ UNCHANGED <<rcfg, link, watch, helper, missed, refused, closed, chan,
                 sender, acked, handled, loop, fails>>

\* handleReconnect wakes up: an error starts the redialling, a closed channel
\* ends the goroutine, and so does an error after Close.
Notice ==
  /\ watch = "watching" /\ notice # "nothing"
  /\ watch' = IF notice = "error" /\ ~closed THEN "redial" ELSE "gone"
  /\ notice' = IF notice = "error" THEN "nothing" ELSE notice
  /\ UNCHANGED <<rcfg, link, up, helper, missed, refused, closed, drops,
                 chanVars, sendVars, takeVars>>

\* It looks whether it is closed, sleeps, and dials; a failed Dial is one
\* more turn, and by default there is no last one.
Redial ==
  /\ watch = "redial"
  /\ watch' = IF closed THEN "gone" ELSE "asleep"
  /\ UNCHANGED <<rcfg, link, up, notice, helper, missed, refused, closed, drops,
                 chanVars, sendVars, takeVars>>

DialFails ==
  /\ watch = "asleep" /\ watch' = "redial"
  /\ UNCHANGED <<rcfg, link, up, notice, helper, missed, refused, closed, drops,
                 chanVars, sendVars, takeVars>>

Connect ==
  /\ watch = "asleep"
  /\ watch' = "dialled" /\ link' = link + 1 /\ up' = TRUE
  /\ UNCHANGED <<rcfg, notice, helper, missed, refused, closed, drops,
                 chanVars, sendVars, takeVars>>

\* NotifyClose: on a connection that is gone the channel is closed at once.
Register ==
  /\ watch = "dialled" /\ watch' = "notify"
  /\ notice' = IF up THEN "nothing" ELSE "closed"
  /\ UNCHANGED <<rcfg, link, up, helper, missed, refused, closed, drops,
                 chanVars, sendVars, takeVars>>

\* Mutant of Notify: a reconnected client is not told.
NotifyNobody ==
  /\ watch = "notify" /\ watch' = "watching"
  /\ UNCHANGED <<rcfg, link, up, notice, helper, missed, refused, closed, drops,
                 chanVars, sendVars, takeVars>>

\* The notification reaches a helper that waits for it, or nobody.
Notify ==
  /\ watch = "notify" /\ watch' = "watching"
  /\ IF helper = "wait"
     THEN helper' = "reset" /\ missed' = FALSE
     ELSE missed' = TRUE /\ UNCHANGED helper
  /\ UNCHANGED <<rcfg, link, up, notice, refused, closed, drops, chanVars,
                 sendVars, takeVars>>

\* Close of the client: its channel, then the connection it knows.  One that
\* is being dialled stays open for good.
Known == up /\ watch # "dialled"

Close ==
  /\ rcfg.closes /\ ~closed
  /\ closed' = TRUE /\ up' = (up /\ ~Known)
  /\ notice' = IF Known THEN "closed" ELSE notice
  /\ ChannelEnds
  /\ UNCHANGED <<rcfg, link, watch, helper, missed, refused, drops, chan,
                 sender, acked, handled, loop, fails>>

-----------------------------------------------------------------------------
(***************************************************************************)
(* The client's handleReconnect: it closes the old channel, then opens one  *)
(* on the connection there is.  If that fails it waits for the next notice. *)
(***************************************************************************)

ResetChannel ==
  /\ helper = "reset"
  /\ IF closed
     THEN helper' = "gone" /\ UNCHANGED <<chanUp, confirms, at>>
     ELSE helper' = "setup" /\ ChannelEnds
  /\ UNCHANGED <<rcfg, link, up, watch, notice, missed, refused, closed, drops,
                 chan, sender, acked, handled, loop, fails>>

\* The consumer's goroutine ends with Consume's context; the producer's waits
\* for notices that no longer come.
StopHelper ==
  /\ Consumer /\ closed /\ helper = "wait" /\ helper' = "gone"
  /\ UNCHANGED <<rcfg, link, up, watch, notice, missed, refused, closed, drops,
                 chanVars, sendVars, takeVars>>

\* A channel for the producer: in confirm mode, with a new confirm channel.
\* One for the consumer: its queue is consumed once more.  The broker may refuse
\* the channel or what is asked on it; the consumer that cannot set up its queue
\* keeps the channel, which the broker has closed.
ChannelOpens ==
  /\ chan' = link /\ chanUp' = TRUE /\ refused' = FALSE
  /\ confirms' = [confirms EXCEPT ![link].open = TRUE]

ChannelRefused ==
  /\ refused' = TRUE
  /\ \/ UNCHANGED chan
     \/ Consumer /\ chan' = link
  /\ UNCHANGED <<chanUp, confirms>>

SetupChannel ==
  /\ helper = "setup" /\ helper' = "wait"
  /\ IF Known /\ ~closed
     THEN ChannelOpens \/ ChannelRefused
     ELSE UNCHANGED <<refused, chan, chanUp, confirms>>
  /\ UNCHANGED <<rcfg, link, up, watch, notice, missed, closed, drops, sender,
                 acked, takeVars>>

-----------------------------------------------------------------------------
(***************************************************************************)
(* The producer.  A sender publishes on the channel it finds, and waits on  *)
(* the confirm channel it finds afterwards, which all senders share; where  *)
(* confirms are off it is content with having published.                    *)
(***************************************************************************)

Publish(s) ==
  /\ Producer /\ sender[s].pc = "idle"
  /\ IF chanUp /\ ~closed
     THEN /\ sender' = [sender EXCEPT ![s].pc = "sent"]
          /\ confirms' = IF rcfg.confirm
                         THEN [confirms EXCEPT ![chan].due = @ + 1]
                         ELSE confirms
     ELSE /\ sender' = [sender EXCEPT ![s].pc = "err"]
          /\ UNCHANGED confirms
  /\ UNCHANGED <<rcfg, connVars, chanVars, acked, takeVars>>

Await(s) ==
  /\ sender[s].pc = "sent"
  /\ sender' = [sender EXCEPT ![s] = IF rcfg.confirm
                                     THEN [pc |-> "await", on |-> chan]
                                     ELSE [pc |-> "ok", on |-> 0]]
  /\ UNCHANGED <<rcfg, connVars, chanVars, confirms, acked, takeVars>>

\* The broker confirms a publishing, or refuses it.
BrokerConfirms ==
  /\ chanUp /\ confirms[chan].due > 0
  /\ \E ack \in BOOLEAN :
       /\ confirms' = [confirms EXCEPT ![chan].due = @ - 1,
                                       ![chan].box = Append(@, ack)]
       /\ acked' = IF ack THEN acked + 1 ELSE acked
  /\ UNCHANGED <<rcfg, connVars, chanVars, sender, takeVars>>

\* A sender takes the first confirmation there is, its own or not; a closed
\* channel gives one that does not acknowledge.
\* AnswerAny is a mutant of Answer: whether it acknowledges is not looked at.
AnswerAny(box) == "ok"

Answer(box) == IF Head(box) THEN "ok" ELSE "err"

Receive(s) ==
  LET l == sender[s].on IN
  /\ sender[s].pc = "await"
  /\ \/ /\ confirms[l].box # <<>>
        /\ sender' = [sender EXCEPT ![s].pc = Answer(confirms[l].box)]
        /\ confirms' = [confirms EXCEPT ![l].box = Tail(@)]
     \/ /\ confirms[l].box = <<>> /\ ~confirms[l].open
        /\ sender' = [sender EXCEPT ![s].pc = "err"]
        /\ UNCHANGED confirms
  /\ UNCHANGED <<rcfg, connVars, chanVars, acked, takeVars>>

\* The caller's context ends: the confirmation is left to the others.
GiveUp(s) ==
  /\ sender[s].pc = "await"
  /\ sender' = [sender EXCEPT ![s].pc = "gaveup"]
  /\ UNCHANGED <<rcfg, connVars, chanVars, confirms, acked, takeVars>>

-----------------------------------------------------------------------------
(***************************************************************************)
(* The consumer.  The broker pushes; with autoAck it forgets what it sent.  *)
(***************************************************************************)

Deliver(m) ==
  /\ Consumer /\ chanUp /\ at[m] = "queue"
  /\ at' = [at EXCEPT ![m] =
              CASE chan # Read -> IF rcfg.autoAck THEN "done" ELSE "unread"
                [] OTHER -> "inbox"]
  /\ UNCHANGED <<rcfg, connVars, chanVars, sendVars, handled, loop, fails>>

TakeDelivery(m) ==
  /\ at[m] = "inbox" /\ loop.msg = NoMessage /\ ~closed
  /\ at' = [at EXCEPT ![m] = IF rcfg.autoAck THEN "done" ELSE "hand"]
  /\ loop' = [msg |-> m, acked |-> rcfg.autoAck]
  /\ UNCHANGED <<rcfg, connVars, chanVars, sendVars, handled, fails>>

\* A delivery can be answered while the channel it came on is open.
Intact == chanUp /\ chan = Read

\* Ack or Nack of the delivery in hand.  The broker ends the channel where a
\* delivery is answered twice.
Answered(m, to) ==
  /\ loop' = [msg |-> NoMessage, acked |-> FALSE]
  /\ IF rcfg.autoAck \/ ~Intact
     THEN UNCHANGED <<at, chanUp, confirms>>
     ELSE IF loop.acked
          THEN ChannelEnds
          ELSE /\ at' = [at EXCEPT ![m] = to]
               /\ UNCHANGED <<chanUp, confirms>>

HandlerAcks(m) ==
  /\ loop.msg = m /\ handled' = handled \cup {m}
  /\ Answered(m, "done")
  /\ UNCHANGED <<rcfg, connVars, chan, sender, acked, fails>>

HandlerNacks(m) ==
  /\ loop.msg = m /\ fails < MaxFails /\ fails' = fails + 1
  /\ Answered(m, "queue")
  /\ UNCHANGED <<rcfg, connVars, chan, sender, acked, handled>>

\* CommitMessage acknowledges the delivery the loop took last, whatever
\* message it is called with: a handler commits the one in hand when its work
\* is done, another goroutine means one that was handled before.
CommitDelivery ==
  /\ Intact
  /\ IF loop.msg = NoMessage \/ loop.acked
     THEN ChannelEnds /\ UNCHANGED loop
     ELSE /\ at' = [at EXCEPT ![loop.msg] = "done"]
          /\ loop' = [loop EXCEPT !.acked = TRUE]
          /\ UNCHANGED <<chanUp, confirms>>
  /\ UNCHANGED <<rcfg, connVars, chan, sender, acked, fails>>

AckLatest ==
  \/ /\ rcfg.commits = "handler" /\ loop.msg # NoMessage
     /\ handled' = handled \cup {loop.msg}
     /\ CommitDelivery
  \/ /\ rcfg.commits = "later" /\ handled # {}
     /\ UNCHANGED handled
     /\ CommitDelivery

-----------------------------------------------------------------------------

Connection ==
  \/ Notice \/ Redial \/ Register \/ Notify \/ ResetChannel \/ SetupChannel
  \/ StopHelper

RabbitNext ==
  \/ Drop \/ Connection \/ DialFails \/ Connect \/ Close
  \/ \E s \in Senders : Publish(s) \/ Await(s) \/ Receive(s) \/ GiveUp(s)
  \/ BrokerConfirms
  \/ \E m \in Messages :
       Deliver(m) \/ TakeDelivery(m) \/ HandlerAcks(m) \/ HandlerNacks(m)
  \/ AckLatest

\* The goroutines go on, a broker that is asked answers, one that is down
\* comes back; no application must send, commit or close.
RabbitFairness ==
  /\ WF_rabbitVars(Notice) /\ WF_rabbitVars(Redial) /\ WF_rabbitVars(Register)
  /\ SF_rabbitVars(Connect) /\ WF_rabbitVars(Notify)
  /\ WF_rabbitVars(ResetChannel) /\ WF_rabbitVars(SetupChannel)
  /\ WF_rabbitVars(BrokerConfirms)
  /\ \A s \in Senders : WF_rabbitVars(Await(s)) /\ WF_rabbitVars(Receive(s))
  /\ \A m \in Messages :
       /\ WF_rabbitVars(Deliver(m)) /\ WF_rabbitVars(TakeDelivery(m))
       /\ WF_rabbitVars(HandlerAcks(m) \/ HandlerNacks(m))
=============================================================================
