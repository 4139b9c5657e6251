SPECIFICATION FairSpec
CONSTANTS
  Readers = {}
  Cyclers = {}
  Warmers = {w1, w2}
  Tasks = {t1}
  MaxU64 = 15
  Panics = TRUE
  MaxCycles = 0
  MaxClock = 3
  MaxFlips = 1
  MaxOpens = 0
  MaxRestarts = 1
INVARIANT WarmCovered
PROPERTIES RefreshEnds WarmReturns
CHECK_DEADLOCK FALSE
