CONSTANTS
  Processes = {p1}
  NoFile = NoFile
  Torn = Torn
  Commands <- EveryCommand
  Merged <- MCMerged
  InitialFiles <- AnyCache
  Faults = {"crash", "dat", "sidecar", "etag", "delete", "flush"}
  MaxPublished = 3
  MaxCount = 4
SPECIFICATION Spec
ACTION_CONSTRAINT OneUser
INVARIANTS
  NothingSkipped
  KnownIsHonest
