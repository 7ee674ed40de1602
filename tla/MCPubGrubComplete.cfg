CONSTANTS
  U16 = 3
  Packages = {0, 1, 2, 3}
  Root = 0
  RootVersion <- MCRootVersion
  Registries <- MCRegistries
  get_versions <- MCget_versions
  get_dependencies <- MCget_dependencies
  ProviderError = ProviderError
  RootRequirements = {}
  MaxRootRequirements = 0
  DependencyBuffer = 8
  VersionBuffer = 8
  MaxDecisions = 30
  MaxPropagations = 60
  MaxConflicts = 20
  MaxPackages = 10
  MaxTrail = 100
  MaxIncompatibilities = 100
SPECIFICATION Spec
INVARIANTS
  Complete
