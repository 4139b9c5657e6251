SPECIFICATION FairSpec
CONSTANTS
  Procs = {"window", "engine"}
  Pids = {1, 2}
  Foreign = {2}
  Lefts <- MCLefts
  MaxFaults = 1
INVARIANT TypeOK
PROPERTIES CrashIsSeen CorruptionIsFound
