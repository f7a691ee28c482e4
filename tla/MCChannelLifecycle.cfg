\* Two channels, so that one is up while the other starts, fails or stops, and
\* room for one summary, so that a callback meets a full MQTT queue.
SPECIFICATION FairSpec
CONSTANTS
  N = 2
  MqttCapacity = 1
INVARIANTS
  ClosedQueuesHaveNoProducer
  SourceHasItsConsumers
  ExitLeavesNothing
PROPERTIES
  SchedulerIsTheService
  ShutdownEnds
\* The process ends.
CHECK_DEADLOCK FALSE
