SPECIFICATION Spec
CONSTANTS
  Names = {a, b}
  LongNames = {b}
  ChunkCounts = {0, 1, 2}
  MetaLimit = 6
  VaultUnderStaging = TRUE
  FaultPoints <- NoFaults
  MaxImports = 2
  MaxFaults = 0
  MaxCrashes = 1
INVARIANTS
  TypeOK
  LiveChunksIntact
  OpensToBeforeOrAfter
  OpensWhenSettled
  RemovedIsShredded
  SourceOutlivesCommit
  VacuumReclaims
CHECK_DEADLOCK FALSE
