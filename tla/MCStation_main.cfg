SPECIFICATION StationSpec
CONSTANTS
  Names = {"", "a", "b"}
  Ips = {0, 1, 2}
  Heads = {"", "x"}
  Default <- Configured
  Dhcp = FALSE
  SendHello = TRUE
  HelloRetry = 1
  Modes = {1, 2, 99}
  MaxOps = 4
  Macs = {"m1", "m2"}
  Aliases = {"p1", "p2"}
  Ours = {"p1"}
  MaxBlocks = 3
  MaxBefore = 0
INVARIANTS ArsUnderTheirName OneAnswer
PROPERTIES PermanentSurvives IdentifyExact
CHECK_DEADLOCK FALSE
CONSTRAINT Bounded
