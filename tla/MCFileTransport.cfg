CONSTANTS
  SecureCarriers = {"mule"}
  ClassicCarriers = {"mesh"}
  MaxRuns = 3
  MaxSend = 2
  MaxNow = 2
  MaxFaults = 1
  MaxSeen = 1
  MaxAge = 1
  Quota = 3
SPECIFICATION Spec
CHECK_DEADLOCK FALSE
INVARIANTS EnvelopesAccounted
PROPERTIES DeliversInOrder
