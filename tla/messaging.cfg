SPECIFICATION Spec
CONSTANTS
  Members = {"a", "b"}
  Stoppers = {"a"}
  MaxSent = 2
  MaxFaults = 1
  KafkaConfigs <- MCKafkaConfigs
  Senders = {"s", "t"}
  Messages = {"m", "n"}
  MaxDrops = 2
  MaxFails = 1
  RabbitConfigs <- MCRabbitConfigs
INVARIANTS AcksTrue
PROPERTIES EverySettled Resumes
CHECK_DEADLOCK FALSE
