SPECIFICATION Spec
CONSTANTS
  CommandCapacity = 1
  ReceiveCapacity = 1
  QueueCapacity = 1
  MaxDatagrams = 2
  MaxPackets = 2
  MaxInvalid = 2
  MaxSessions = 2
INVARIANTS PolicyBeforeData BackpressureLosesNothing
PROPERTIES DeliversInOrder BridgeEnds
CHECK_DEADLOCK FALSE
