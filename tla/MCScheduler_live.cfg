SPECIFICATION FairSpec
CONSTANTS
  main = main
  eth = eth
  h1 = h1
  h2 = h2
  h3 = h3
  NoHandle = NoHandle
  NSlots = 2
  Handles = {h1, h2}
  NameOf <- FewNames
  Threads = {main}
  Main = main
  Adders <- FewThreads
  Removers <- FewThreads
  Delays = {2}
  MaxDelay = 2
  MaxLate = 1
  ClockMod = 7
PROPERTY TimersServed
