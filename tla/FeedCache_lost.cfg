SPECIFICATION Spec
CONSTANTS
  Readers = {r1}
  Cyclers = {c1}
  Warmers = {}
  Tasks = {t1, t2}
  MaxU64 = 15
  Panics = FALSE
  MaxCycles = 1
  MaxClock = 1
  MaxFlips = 0
  MaxOpens = 1
  MaxRestarts = 0
INVARIANT EveryCycleGetsAPass
CHECK_DEADLOCK FALSE
