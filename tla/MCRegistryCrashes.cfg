CONSTANTS
  Processes = {p1}
  NoFile = NoFile
  Torn = Torn
  Commands <- MaintenanceCommands
  Merged <- MCMerged
  InitialFiles <- WrapCache
  Faults = {"crash", "sidecar", "etag"}
  MaxPublished = 3
  MaxCount = 4
SPECIFICATION FairSpec
INVARIANTS
  EtagHonest
  UpToDateMeansComplete
  NeverTorn
PROPERTIES
  CatchesUp
