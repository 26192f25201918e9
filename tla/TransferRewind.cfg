SPECIFICATION Spec
CONSTANTS
  Payloads <- TwoVersions
  Unit <- Units
  Zero = 0
  ChunkLen = 1
  CheckpointLen = 2
  MaxTotal = 5
  SourceStable = FALSE
  PowerLoss = FALSE
  MaxInFlight = 2
  MaxCover = 1
  MaxFaults = 2
PROPERTIES
  RewindsToDivergence
