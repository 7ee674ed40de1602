CONSTANTS
  Processes = {p1}
  NoFile = NoFile
  Torn = Torn
  Commands <- SyncCommands
  Merged = {}
  InitialFiles <- WrapCache
  Faults = {"dat"}
  MaxPublished = 3
  MaxCount = 4
SPECIFICATION Spec
INVARIANTS
  EtagHonest
