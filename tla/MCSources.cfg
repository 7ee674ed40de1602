CONSTANTS
  Dirs = 2
  Modules <- MCModules
  Published <- MCPublished
  New = 9
  Core = 1
  Selections <- MCSelections
  Starts <- MCStarts
SPECIFICATION Spec
INVARIANTS
  TypeOK
  SourcesSurvive
  PackageStandsAlone
  AppKeepsImports
  
CHECK_DEADLOCK FALSE
