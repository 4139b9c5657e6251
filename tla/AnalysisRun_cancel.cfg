SPECIFICATION Spec
CONSTANTS
  Foreground = {f1}
  Cycles = {c1}
  Cancels = {k1}
  Interests = {s1}
  NoFeed = NoFeed
PROPERTY CancelHitsItsRun
