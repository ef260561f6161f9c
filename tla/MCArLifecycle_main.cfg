SPECIFICATION Spec
CONSTANTS
  u1 = u1
  u2 = u2
  c1 = c1
  c2 = c2
  l1 = l1
  NoUuid = NoUuid
  NoAct = NoAct
  Uuids = {u1, u2}
  Acts = {c1, c2, l1}
  Home <- TwoActs
  MaxAr = 2
  MaxSess = 3
  Roaming = FALSE
  Legacy = {u2}
  Refusals = {"apdu"}
  Lookups = {l1}
  Resends = 2
  MaxPolls = 2
INVARIANTS SessionsSound NeverStuck Agreement 
PROPERTIES ApiOrder
