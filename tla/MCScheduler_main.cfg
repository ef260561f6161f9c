SPECIFICATION Spec
CONSTANTS
  main = main
  eth = eth
  h1 = h1
  h2 = h2
  h3 = h3
  NoHandle = NoHandle
  NSlots = 2
  Handles = {h1, h2, h3}
  NameOf <- MainNames
  Threads = {main, eth}
  Main = main
  Adders <- MainAdders
  Removers <- MainRemovers
  Delays = {1, 2}
  MaxDelay = 2
  MaxLate = 1
  ClockMod = 7
INVARIANTS PoolPartition BusyInOrder 
PROPERTIES FiresWhenDue RemovesOwnTimer
SYMMETRY CpmSymmetry
