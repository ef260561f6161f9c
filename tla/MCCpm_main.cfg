SPECIFICATION Spec
CONSTANTS
  Hold = 2
  Modulus = 5
  Window = 3
  Reorder = 1
  MaxFrames = 6
  RaceSets <- MainRaces
INVARIANTS BuffersOwned Supervised
PROPERTIES DataTrue Watched
