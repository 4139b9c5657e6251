SPECIFICATION FairSpec
CONSTANTS
  Procs = {"window", "engine"}
  Pids = {1, 2}
  Foreign = {2}
  Lefts <- MCSound
  MaxFaults = 1
PROPERTY DestructionNeedsEvidence
