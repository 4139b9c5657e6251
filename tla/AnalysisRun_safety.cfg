SPECIFICATION Spec
CONSTANTS
  Foreground = {f1, f2}
  Cycles = {c1}
  Cancels = {k1}
  Interests = {s1}
  NoFeed = NoFeed
SYMMETRY MCSymmetry
INVARIANTS TypeOK RunningHasTask StatusTold FlagMatchesFeed FeedIsComplete GateHeldByWork
