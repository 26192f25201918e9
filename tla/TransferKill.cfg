SPECIFICATION FairSpec
CONSTANTS
  Payloads <- TwoVersions
  Unit <- Units
  Zero = 0
  ChunkLen = 2
  CheckpointLen = 3
  MaxTotal = 5
  SourceStable = TRUE
  PowerLoss = FALSE
  MaxInFlight = 2
  MaxCover = 1
  MaxFaults = 3
INVARIANTS
  AckMeansDelivered
PROPERTIES
  CrashCostsOneCheckpoint
  AttemptEnds
  CleanAttemptDelivers
