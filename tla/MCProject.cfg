CONSTANTS
  Packages = {"a", "b", "c", "t"}
  Published <- MCPublished
  Needs <- MCNeeds
  Commands <- MCCommands
  InitialProjects <- MCProjects
  InitialCaches <- MCCaches
  Outages <- MCOutages
  MaxCommands = 2
SPECIFICATION Spec
INVARIANTS
  TypeOK
PROPERTIES
  OneMapEach
  ProductionSolved
  TestsPinProduction
  WithinMajor
  PackagesKeepConstraints
  RemoveCleansUp
CHECK_DEADLOCK FALSE
