SPECIFICATION Spec
CONSTANTS
  Items = {1, 2}
  Corpora <- MCCorpora
  Pasts <- MCPasts
  MaxAttempts = 2
  DrainSlice = 1
  MaxBatch = 1
  MaxEvents = 1
INVARIANTS TypeOK MarkerOpposes ReasonsExplain
PROPERTIES AdmissionHolds FeedIsDamped
