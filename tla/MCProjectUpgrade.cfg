CONSTANTS
  Packages = {"a", "b", "c", "t"}
  Published <- MCPublished
  Needs <- MCNeeds
  Commands <- UpgradeCommands
  InitialProjects <- ConsistentProjects
  InitialCaches <- MCCaches
  Outages <- NoOutage
  MaxCommands = 1
SPECIFICATION Spec
PROPERTIES
  UpgradeDelivers
CHECK_DEADLOCK FALSE
