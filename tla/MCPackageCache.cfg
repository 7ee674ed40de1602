CONSTANTS
  p1 = p1
  p2 = p2
  Processes = {p1, p2}
  Registry <- RegistryOrder
  Deps <- MCDeps
  Commands <- MCCommands
  InitialDirs <- MCDirs
  MaxRetries = 2
  MaxFaults = 2
SPECIFICATION MCSpec
INVARIANTS
  TypeOK
  AloneDownloadedIsWhole
  CleanRunsRepair
  VerifiedSource
PROPERTIES
  KeepsWhole
  CommandsEnd
