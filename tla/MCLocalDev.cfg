CONSTANTS
  Names = {"lib"}
  Others = {"x"}
  Versions = {1, 2}
  Apps = {"app"}
  Commands <- MCCommands
  Faults <- MCFaults
  MaxCode = 2
  MaxTroubles = 1
  InitialApps <- MCApps
  Tools = {"a", "b", "c"}
  Sources <- MCSources
SPECIFICATION KitSpec
ACTION_CONSTRAINT Orderly
INVARIANTS
  TypeOK
  RegisteredIsTracked
  DependentsFollow
  KitUsable
PROPERTIES
  BuildsUseTheSource
  KitDelivers
  KitLeavesNothing
