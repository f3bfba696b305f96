-------------------------------- MODULE Kafka --------------------------------
(***************************************************************************)
(* A Kafka consumer group over one partition: messaging/kafka_consumer.go,  *)
(* kafka_producer.go and the Client of client.go that owns both.  A member  *)
(* is a process with one client, one consumer and one producer, which the   *)
(* application publishes with and the consumer sends dead letters with.     *)
(*                                                                         *)
(* Sarama and the brokers are external: the coordinator gives the partition *)
(* to one member at a time and takes it away, a session's context ends      *)
(* before its claim does, and a member that lost the partition may go on    *)
(* with the message in hand but not commit.                                 *)
(***************************************************************************)
EXTENDS Integers, FiniteSets, FiniteSetsExt

CONSTANTS
  Members,       \* the processes of the group
  Stoppers,      \* those that may shut their client down
  MaxSent,       \* bound: messages published
  MaxFaults,     \* bound: crashes, rebalances, refused dead letters
  KafkaConfigs   \* retries, whether there is a dead-letter topic, whether the
                 \* application calls CommitMessage, whether it sends batches

ASSUME KafkaAssumption ==
  /\ Stoppers \subseteq Members /\ MaxSent \in Nat /\ MaxFaults \in Nat
  /\ \A c \in KafkaConfigs : c.retries \in Nat /\ c.dlq \in BOOLEAN

VARIABLES
  kcfg,       \* the set-up of the consumers
  end,        \* the partition's next offset
  began,      \* ghost: where the last session began that found no offset
  committed,  \* the group's committed offset, or NoOffset
  owner,      \* the member the coordinator has given the partition
  verdict,    \* ghost: the best that became of each message
  mem,        \* the members
  faults      \* how many faults there were

kafkaVars == <<kcfg, end, began, committed, owner, verdict, mem, faults>>

NoOffset == -1
Nobody == "nobody"
Offsets == 0..(MaxSent - 1)

\* A member between sessions, its client open.
Fresh == [pc |-> "out", pos |-> 0, att |-> 0, live |-> FALSE,
          marked |-> NoOffset, done |-> NoOffset,
          producer |-> "open", shut |-> FALSE]
Dead(r) == [Fresh EXCEPT !.pc = "dead", !.shut = r.shut]
Absent == [Fresh EXCEPT !.pc = "dead", !.shut = TRUE]

\* The members start, or the application does not use Kafka.
KafkaInit(used) ==
  /\ kcfg \in KafkaConfigs
  /\ used \/ kcfg = (CHOOSE c \in KafkaConfigs : TRUE)
  /\ end = 0 /\ began = 0 /\ committed = NoOffset /\ owner = Nobody
  /\ verdict = [o \in Offsets |-> "none"]
  /\ mem = [m \in Members |-> IF used THEN Fresh ELSE Absent]
  /\ faults = 0

Alive(m) == mem[m].pc # "dead"
InSession(m) == mem[m].pc \notin {"out", "closed", "dead"}
Fault == faults < MaxFaults /\ faults' = faults + 1

Rank(v) ==
  CASE v = "none" -> 0 [] v = "skipped" -> 1
    [] v \in {"lost", "ended", "refused"} -> 2
    [] v = "dlq" -> 3 [] v = "ok" -> 4

Settle(o, v) ==
  verdict' = [verdict EXCEPT ![o] = IF Rank(v) > Rank(@) THEN v ELSE @]

-----------------------------------------------------------------------------
(***************************************************************************)
(* Producing: SendMessage and SendBatch of a producer that is not closed.   *)
(* A batch is not all or nothing: a part of it may be in the log although   *)
(* the call fails.                                                          *)
(***************************************************************************)

SendMessage(m) ==
  /\ Alive(m) /\ mem[m].producer = "open" /\ end < MaxSent
  /\ end' = end + 1
  /\ UNCHANGED <<kcfg, began, committed, owner, verdict, mem, faults>>

SendBatch(m) ==
  /\ kcfg.batch /\ Alive(m) /\ mem[m].producer = "open"
  /\ \E sent \in 1..2 : end + sent <= MaxSent /\ end' = end + sent
  /\ UNCHANGED <<kcfg, began, committed, owner, verdict, mem, faults>>

-----------------------------------------------------------------------------
(***************************************************************************)
(* A session: the coordinator gives the partition away and Setup runs.      *)
(* Without a committed offset it starts at the newest one, so that what was *)
(* published before is never seen, not even what a member had in hand when  *)
(* it crashed.                                                              *)
(***************************************************************************)

Setup(m) ==
  LET start == IF committed = NoOffset THEN end ELSE committed
  IN /\ owner = Nobody /\ mem[m].pc = "out" /\ ~mem[m].shut
     /\ owner' = m
     /\ mem' = [mem EXCEPT ![m] =
                  [@ EXCEPT !.pc = "claim", !.pos = start, !.live = TRUE,
                            !.marked = NoOffset]]
     /\ verdict' = [o \in Offsets |->
                      IF o < start /\ verdict[o] = "none"
                      THEN "skipped" ELSE verdict[o]]
     /\ began' = IF committed = NoOffset THEN end ELSE began
     /\ UNCHANGED <<kcfg, end, committed, faults>>

\* A rebalance ends the session's context; the claim goes on until it sees it.
Rebalance(m) ==
  /\ owner = m /\ mem[m].live /\ Fault
  /\ mem' = [mem EXCEPT ![m].live = FALSE]
  /\ UNCHANGED <<kcfg, end, began, committed, owner, verdict>>

\* The coordinator does not wait for a member whose session is over or dead.
Evict(m) ==
  /\ owner = m /\ ~mem[m].live
  /\ owner' = Nobody
  /\ UNCHANGED <<kcfg, end, began, committed, verdict, mem, faults>>

\* ConsumeClaim takes the next message; when the session has ended too, the
\* select may still choose the message.
Take(m) ==
  /\ mem[m].pc = "claim" /\ mem[m].pos < end
  /\ mem' = [mem EXCEPT ![m].pc = "handle", ![m].att = 1]
  /\ UNCHANGED <<kcfg, end, began, committed, owner, verdict, faults>>

LeaveClaim(m) ==
  /\ mem[m].pc = "claim" /\ ~mem[m].live
  /\ mem' = [mem EXCEPT ![m].pc = "cleanup"]
  /\ UNCHANGED <<kcfg, end, began, committed, owner, verdict, faults>>

\* The end of processMessage: the message is marked whatever became of it.
Processed(r) ==
  [r EXCEPT !.pc = "claim", !.pos = r.pos + 1, !.att = 0,
            !.marked = r.pos + 1]

HandlerReturns(m) ==
  LET r == mem[m] IN
  /\ r.pc = "handle"
  /\ Settle(r.pos, "ok")
  /\ mem' = [mem EXCEPT ![m] =
              [Processed(r) EXCEPT !.done = IF kcfg.commits THEN r.pos + 1
                                            ELSE NoOffset]]
  /\ UNCHANGED <<kcfg, end, began, committed, owner, faults>>

\* The handler fails: a retry after a backoff that nothing interrupts, then
\* the dead-letter topic, then nothing.
HandlerFails(m) ==
  LET r == mem[m] IN
  /\ r.pc = "handle"
  /\ \/ /\ r.att <= kcfg.retries
        /\ mem' = [mem EXCEPT ![m].pc = "backoff"]
        /\ UNCHANGED verdict
     \/ /\ r.att > kcfg.retries /\ kcfg.dlq
        /\ mem' = [mem EXCEPT ![m].pc = "check"]
        /\ UNCHANGED verdict
     \/ /\ r.att > kcfg.retries /\ ~kcfg.dlq
        /\ mem' = [mem EXCEPT ![m] = Processed(r)]
        /\ Settle(r.pos, "lost")
  /\ UNCHANGED <<kcfg, end, began, committed, owner, faults>>

\* Mutant of Retry: the attempt is not counted.
RetryForever(m) ==
  /\ mem[m].pc = "backoff"
  /\ mem' = [mem EXCEPT ![m].pc = "handle"]
  /\ UNCHANGED <<kcfg, end, began, committed, owner, verdict, faults>>

Retry(m) ==
  /\ mem[m].pc = "backoff"
  /\ mem' = [mem EXCEPT ![m].pc = "handle", ![m].att = @ + 1]
  /\ UNCHANGED <<kcfg, end, began, committed, owner, verdict, faults>>

\* sendToDeadLetterQueue: SendMessage under the session's context looks
\* whether that is done and whether the producer is closed, and sends later.
CheckDeadLetter(m) ==
  LET r == mem[m] IN
  /\ r.pc = "check"
  /\ IF r.live /\ r.producer = "open"
     THEN /\ mem' = [mem EXCEPT ![m].pc = "send"]
          /\ UNCHANGED verdict
     ELSE /\ mem' = [mem EXCEPT ![m] = Processed(r)]
          /\ Settle(r.pos, "ended")
  /\ UNCHANGED <<kcfg, end, began, committed, owner, faults>>

\* Sarama answers; a producer closed in between fails the call or panics, and
\* a panic in a claim ends the process.
SendDeadLetter(m) ==
  LET r == mem[m] IN
  /\ r.pc = "send"
  /\ \/ /\ r.producer = "open"
        /\ mem' = [mem EXCEPT ![m] = Processed(r)] /\ Settle(r.pos, "dlq")
        /\ UNCHANGED faults
     \/ /\ r.producer = "open" /\ Fault
        /\ mem' = [mem EXCEPT ![m] = Processed(r)] /\ Settle(r.pos, "refused")
     \/ /\ r.producer = "closed"
        /\ mem' = [mem EXCEPT ![m] = Processed(r)] /\ Settle(r.pos, "ended")
        /\ UNCHANGED faults
     \/ /\ r.producer = "closed"
        /\ mem' = [mem EXCEPT ![m] = Dead(r)]
        /\ UNCHANGED <<verdict, faults>>
  /\ UNCHANGED <<kcfg, end, began, committed, owner>>

\* session.Commit: what is marked, if the coordinator still knows the member.
Commit(m, mark) ==
  committed' = IF owner = m /\ mark # NoOffset THEN Max({mark, committed})
               ELSE committed

Cleanup(m) ==
  /\ mem[m].pc = "cleanup"
  /\ Commit(m, mem[m].marked)
  /\ owner' = IF owner = m THEN Nobody ELSE owner
  /\ mem' = [mem EXCEPT ![m] =
               [@ EXCEPT !.pc = "out", !.pos = 0, !.marked = NoOffset]]
  /\ UNCHANGED <<kcfg, end, began, verdict, faults>>

\* CommitMessage: the handler commits the message in hand when its work is
\* done, another goroutine one that was handled, perhaps in an earlier
\* session.  Without a session it is ErrNoActiveSession.
CommitMessage(m) ==
  LET r == mem[m]
      mark == IF r.pc = "handle" THEN r.pos + 1 ELSE r.done
      marked == Max({mark, r.marked})
  IN /\ kcfg.commits /\ InSession(m) /\ mark # NoOffset
     /\ IF r.pc = "handle" THEN Settle(r.pos, "ok") ELSE UNCHANGED verdict
     /\ mem' = [mem EXCEPT ![m].marked = marked,
                           ![m].done = Max({mark, @})]
     /\ Commit(m, marked)
     /\ UNCHANGED <<kcfg, end, began, owner, faults>>

-----------------------------------------------------------------------------
(***************************************************************************)
(* Client.Shutdown closes consumers and producers at the same time; it and  *)
(* the process may end before they do.                                      *)
(***************************************************************************)

\* Consumer.Close cancels the loop's context, and with it the session's.
ClientShutdown(m) ==
  /\ m \in Stoppers /\ Alive(m) /\ ~mem[m].shut
  /\ mem' = [mem EXCEPT ![m].shut = TRUE, ![m].live = FALSE]
  /\ UNCHANGED <<kcfg, end, began, committed, owner, verdict, faults>>

ProducerClose(m) ==
  /\ Alive(m) /\ mem[m].shut /\ mem[m].producer = "open"
  /\ mem' = [mem EXCEPT ![m].producer = "closed"]
  /\ UNCHANGED <<kcfg, end, began, committed, owner, verdict, faults>>

\* Close has waited for the loop and leaves the group.
ConsumerClose(m) ==
  /\ mem[m].pc = "out" /\ mem[m].shut
  /\ mem' = [mem EXCEPT ![m].pc = "closed"]
  /\ UNCHANGED <<kcfg, end, began, committed, owner, verdict, faults>>

\* The shutdown's deadline passes and the process exits.
ShutdownTimesOut(m) ==
  /\ Alive(m) /\ mem[m].shut /\ mem[m].pc # "closed"
  /\ mem' = [mem EXCEPT ![m] = Dead(@)]
  /\ UNCHANGED <<kcfg, end, began, committed, owner, verdict, faults>>

Crash(m) ==
  /\ Alive(m) /\ Fault
  /\ mem' = [mem EXCEPT ![m] = Dead(@)]
  /\ UNCHANGED <<kcfg, end, began, committed, owner, verdict>>

Restart(m) ==
  /\ mem[m].pc = "dead" /\ ~mem[m].shut
  /\ mem' = [mem EXCEPT ![m] = Fresh]
  /\ UNCHANGED <<kcfg, end, began, committed, owner, verdict, faults>>

Claim(m) ==
  \/ Take(m) \/ LeaveClaim(m) \/ HandlerReturns(m) \/ HandlerFails(m)
  \/ Retry(m) \/ CheckDeadLetter(m) \/ SendDeadLetter(m) \/ Cleanup(m)
  \/ ConsumerClose(m)

KafkaNext ==
  \E m \in Members :
    \/ SendMessage(m) \/ SendBatch(m)
    \/ Setup(m) \/ Rebalance(m) \/ Evict(m)
    \/ Claim(m) \/ CommitMessage(m)
    \/ ClientShutdown(m) \/ ProducerClose(m) \/ ShutdownTimesOut(m)
    \/ Crash(m) \/ Restart(m)

\* Handlers return, members go on and come back, the coordinator hands the
\* partition out.
KafkaFairness ==
  /\ WF_kafkaVars(\E m \in Members : Setup(m))
  /\ \A m \in Members :
       /\ WF_kafkaVars(Claim(m)) /\ WF_kafkaVars(Evict(m))
       /\ WF_kafkaVars(Restart(m))
=============================================================================
