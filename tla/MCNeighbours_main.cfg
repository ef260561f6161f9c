SPECIFICATION Spec
CONSTANTS
  NbrPorts = 1
  Infos <- MCInfos
  Wanted <- MCWanted
  Begins <- MCBegins
  MaxTimers = 2
  MaxDcp = 1
  MaxRecords = 1
INVARIANTS
  
  PeerExpires
  SendsAsTold
