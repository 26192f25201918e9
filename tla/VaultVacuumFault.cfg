SPECIFICATION Spec
CONSTANTS
  Names = {a, b}
  LongNames = {b}
  ChunkCounts = {0, 2}
  MetaLimit = 6
  VaultUnderStaging = TRUE
  FaultPoints <- VacuumFaults
  MaxImports = 2
  MaxFaults = 1
  MaxCrashes = 0
INVARIANTS
  VacuumIsAtomic
CHECK_DEADLOCK FALSE
