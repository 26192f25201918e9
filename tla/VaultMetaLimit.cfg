SPECIFICATION Spec
CONSTANTS
  Names = {a, b, c}
  LongNames = {b}
  ChunkCounts = {0, 2}
  MetaLimit = 2
  VaultUnderStaging = TRUE
  FaultPoints <- NoFaults
  MaxImports = 2
  MaxFaults = 0
  MaxCrashes = 0
INVARIANTS
  RenameSurvivesReopen
CHECK_DEADLOCK FALSE
