CONSTANTS
  U16 = 4
  Packages = {0, 1, 2, 3}
  Root = 0
  RootVersion <- MCRootVersion
  Registries <- Either
  get_versions <- EitherVersions
  get_dependencies <- EitherDependencies
  ProviderError = ProviderError
  RootRequirements <- MCRootRequirements
  MaxRootRequirements = 2
  DependencyBuffer = 8
  VersionBuffer = 8
  MaxDecisions = 30
  MaxPropagations = 60
  MaxConflicts = 20
  MaxPackages = 10
  MaxTrail = 100
  MaxIncompatibilities = 100
SPECIFICATION Spec
ACTION_CONSTRAINT RootsOfOverlaps
INVARIANTS
  Inv
  TypeOK
  PropagationComplete
  SolutionValid
  SelectionNeeded
  RootRequirementsHonoured
  NoInternalError
PROPERTIES
  RootRequirementsKept
