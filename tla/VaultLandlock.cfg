SPECIFICATION Spec
CONSTANTS
  Names = {a, b}
  LongNames = {b}
  ChunkCounts = {0, 2}
  MetaLimit = 6
  VaultUnderStaging = FALSE
  FaultPoints <- NoFaults
  MaxImports = 2
  MaxFaults = 0
  MaxCrashes = 0
INVARIANTS
  VacuumEliminatesDeadRegions
CHECK_DEADLOCK FALSE
