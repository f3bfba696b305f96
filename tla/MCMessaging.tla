----------------------------- MODULE MCMessaging -----------------------------
(***************************************************************************)
(* Kafka with and without a dead-letter topic and retries, with an          *)
(* application that commits or sends batches; a RabbitMQ producer that      *)
(* waits for confirms, closed or not, and one that does not; a RabbitMQ     *)
(* consumer for every way to acknowledge.                                   *)
(***************************************************************************)
EXTENDS Messaging

Topic(retries, dlq, commits, batch) ==
  [retries |-> retries, dlq |-> dlq, commits |-> commits, batch |-> batch]

MCKafkaConfigs ==
  {Topic(0, FALSE, TRUE, FALSE), Topic(1, TRUE, FALSE, FALSE),
   Topic(0, FALSE, FALSE, TRUE)}

Client(role, confirm, autoAck, commits, closes) ==
  [role |-> role, confirm |-> confirm, autoAck |-> autoAck,
   commits |-> commits, closes |-> closes]

MCRabbitConfigs ==
  {Client("producer", TRUE, FALSE, "no", FALSE),
   Client("producer", TRUE, FALSE, "no", TRUE),
   Client("producer", FALSE, FALSE, "no", FALSE),
   Client("consumer", FALSE, FALSE, "no", FALSE),
   Client("consumer", FALSE, FALSE, "no", TRUE),
   Client("consumer", FALSE, TRUE, "no", FALSE),
   Client("consumer", FALSE, FALSE, "handler", FALSE),
   Client("consumer", FALSE, FALSE, "later", FALSE)}
=============================================================================
