------------------------------ MODULE Messaging ------------------------------
(***************************************************************************)
(* The messaging package: NewProducer and NewConsumer (messaging.go) make a *)
(* client of the broker the configuration names, Kafka when it names none,  *)
(* and a name they do not know is an error.  The properties below are what  *)
(* the package promises whatever the broker.                                *)
(***************************************************************************)
EXTENDS Kafka, Rabbit

VARIABLE broker  \* what the configuration's type selects

vars == <<broker, kafkaVars, rabbitVars>>

Broker(type) ==
  CASE type \in {"kafka", ""} -> "kafka"
    [] type = "rabbitmq" -> "rabbitmq"
    [] OTHER -> "unsupported"

Init ==
  /\ \E type \in {"kafka", "", "rabbitmq", "nats"} : broker = Broker(type)
  /\ KafkaInit(broker = "kafka")
  /\ RabbitInit(broker = "rabbitmq")

Next ==
  \/ KafkaNext /\ UNCHANGED <<broker, rabbitVars>>
  \/ RabbitNext /\ UNCHANGED <<broker, kafkaVars>>

Spec == Init /\ [][Next]_vars /\ KafkaFairness /\ RabbitFairness

-----------------------------------------------------------------------------
\* Kafka: an offset is committed only when every message before it was handled,
\* dead-lettered or given up on after its retries.  With a dead-letter topic it
\* is given up on when its own session or producer ended before the letter was
\* sent or Kafka refused it (kafka_consumer.go:423).  Excepted are messages that
\* were published before the first session that committed: as long as there is
\* no committed offset every session starts at the newest (OffsetNewest), and
\* skips even what a member had in hand when it crashed or was replaced.
OffsetsSettled ==
  \A o \in Offsets : o < committed =>
    \/ verdict[o] \in {"ok", "dlq"}
    \/ verdict[o] \in IF kcfg.dlq THEN {"ended", "refused"} ELSE {"lost"}
    \/ verdict[o] = "skipped" /\ o < began

\* RabbitMQ: the broker forgets a message only when it was handled.  Excepted
\* are autoAck, and CommitMessage from another goroutine, which answers for
\* the message in hand (rabbitmq_consumer.go:307).
ForgottenIsHandled ==
  \A m \in Messages :
    at[m] = "done" => m \in handled \/ rcfg.autoAck \/ rcfg.commits = "later"

\* A message the broker considers taken was settled by a handler.
TakenIsSettled == OffsetsSettled /\ ForgottenIsHandled

\* Senders share a confirm channel and may take each other's confirmation;
\* yet no more of them succeed than the broker acknowledged, and as many as
\* long as nobody gave up and the link held (rabbitmq_producer.go:197).
\* Without confirms a send that succeeds says nothing of the broker.
Successes == Cardinality({s \in Senders : sender[s].pc = "ok"})

AsManyAcks ==
  rcfg.confirm =>
  /\ Successes <= acked
  /\ (\A s \in Senders : sender[s].pc \in {"ok", "err"})
       /\ drops = 0 /\ ~closed => Successes = acked

\* What a broker and its clients believe of each other is true.
AcksTrue == TakenIsSettled /\ AsManyAcks

\* Every message published over Kafka gets a verdict; every message queued by
\* RabbitMQ is handled and every send is answered, unless the link was lost:
\* the consumer then reads a channel that is closed (rabbitmq_consumer.go:
\* 270), and a sender may wait on a channel it did not publish on.
EverySettled ==
  /\ \A o \in Offsets : (o < end) ~> (verdict[o] # "none")
  /\ \A m \in Messages :
       Consumer ~> \/ m \in handled \/ drops > 0 \/ closed
                   \/ rcfg.autoAck \/ rcfg.commits # "no"
  /\ \A s \in Senders :
       (sender[s].pc = "await") ~> (sender[s].pc # "await" \/ drops > 0)

\* After a lost link the client has an open channel again, unless it was
\* closed, the notification found its goroutine busy (rabbitmq_connection.go:
\* 115), the new link was lost before NotifyClose (rabbitmq_connection.go:79),
\* which ends the reconnecting, or the broker refused the new channel, its QoS,
\* exchange, queue or confirm mode, which is logged and not tried again before
\* the next link (rabbitmq_producer.go:141, rabbitmq_consumer.go:265).
LinkLost == ~chanUp /\ ~(up /\ chan = link)

Resumes == LinkLost ~> (chanUp \/ closed \/ missed \/ refused \/ watch = "gone")
=============================================================================
