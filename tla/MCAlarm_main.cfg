SPECIFICATION Spec
CONSTANTS
  Modulus = 3
  Retries = 1
  QueueSize = 1
  WireSize = 1
  MaxStale = 1
  Loads <- MainLoads
INVARIANT Tracked
PROPERTIES Serves AlarmsFinish
