SPECIFICATION Spec
CONSTANTS
  Names = {a, b}
  LongNames = {b}
  ChunkCounts = {0, 2}
  MetaLimit = 6
  VaultUnderStaging = TRUE
  FaultPoints <- InPlaceFaults
  MaxImports = 2
  MaxFaults = 1
  MaxCrashes = 1
INVARIANTS
  SourceOutlivesCommit
  LiveChunksIntact
  OpensToBeforeOrAfter
  OpensWhenSettled
  RemovedIsShredded
CHECK_DEADLOCK FALSE
