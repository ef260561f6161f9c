SPECIFICATION Spec
CONSTANTS
  Ars = {"a1", "a2"}
  Interval <- TwoArs
  Step = 6
  CycleMod = 16
  ClockMod = 12
  MaxDelay = 5
  MaxLate = 2
  MaxWrites = 1
  Subs = {"s1", "s2"}
  NItems = 2
  Keys = {"k1"}
  Usis = {"u1"}
  Callers = {"app"}
  MaxCalls = 4
  MaxNow = 7
CONSTRAINT Bounded
INVARIANTS OnSchedule SilentOnlyWhenRefused 
PROPERTY FramesRight
