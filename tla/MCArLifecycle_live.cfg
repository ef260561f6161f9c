SPECIFICATION FairSpec
CONSTANTS
  u1 = u1
  u2 = u2
  c1 = c1
  c2 = c2
  l1 = l1
  NoUuid = NoUuid
  NoAct = NoAct
  Uuids = {u1, u2}
  Acts = {c1, c2}
  Home <- TwoActs
  MaxAr = 1
  MaxSess = 3
  Roaming = TRUE
  Legacy = {u2}
  Refusals = {"apdu", "user", "silent", "cpm"}
  Lookups = {}
  Resends = 2
  MaxPolls = 2
PROPERTY AllEnds
