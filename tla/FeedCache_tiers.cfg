SPECIFICATION Spec
CONSTANTS
  Readers = {r1, r2}
  Cyclers = {c1}
  Warmers = {}
  Tasks = {t1, t2}
  MaxU64 = 15
  Panics = TRUE
  MaxCycles = 1
  MaxClock = 1
  MaxFlips = 1
  MaxOpens = 2
  MaxRestarts = 0
SYMMETRY MCSymmetry
INVARIANTS TypeOK SingleFlight TierSafe FreshMeansCurrent
PROPERTY RestoredWhileRebuilding
CHECK_DEADLOCK FALSE
