SPECIFICATION MCSpec
CONSTANTS
  Payloads <- TwoVersions
  Unit <- Units
  Zero = 0
  ChunkLen = 1
  CheckpointLen = 2
  MaxTotal = 5
  SourceStable = TRUE
  PowerLoss = TRUE
  MaxInFlight = 2
  MaxCover = 1
  MaxFaults = 4
INVARIANTS
  DestIsOneVersion
  SeamHolds
  AckHonest
PROPERTIES
  DeliversAtomically
  KillCostsOneCheckpoint
  AttemptEnds
  CleanAttemptDelivers
