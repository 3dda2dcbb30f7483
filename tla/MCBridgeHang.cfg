SPECIFICATION Spec
CONSTANTS
  CommandCapacity = 1
  ReceiveCapacity = 1
  QueueCapacity = 1
  MaxDatagrams = 2
  MaxPackets = 1
  MaxInvalid = 2
  MaxSessions = 1
PROPERTIES WorkerStopsAfterShutdown
CHECK_DEADLOCK FALSE
