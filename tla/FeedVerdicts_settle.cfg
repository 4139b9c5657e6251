SPECIFICATION FairSpec
CONSTANTS
  Items = {1, 2}
  Corpora <- MCCopies
  Pasts <- MCPast
  MaxAttempts = 2
  DrainSlice = 1
  MaxBatch = 1
  MaxEvents = 1
PROPERTIES OrphansReturn MarkersResolve NothingWaitsForNobody FeedSettles
