SPECIFICATION MessagesSpec
CONSTANTS
  Requests <- MainRequests
  Plugged <- MainPlugged
  MinInterval = 32
  MaxAr = 2
  MaxCr = 3
  MaxApi = 1
  MaxSlots = 3
  MaxSubslots = 3
  MaxEntries = 3
  MaxConnects = 3
INVARIANTS
    PeersUnderstood  RequestWhole ResponseWhole
