SPECIFICATION TreeSpec
CONSTANTS
  MaxAr = 2
  MaxSlots = 1
  MaxSubs = 2
  SlotNbrs = {1}
  SubNbrs = {1, 2}
  Modules = {1, 2}
  Submodules = {1, 2}
  Expectations <- MainExpectations
INVARIANTS NoneForgotten DiffTruthful
PROPERTIES Owned Inherited
