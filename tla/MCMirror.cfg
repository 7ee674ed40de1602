CONSTANTS
  Packages = {1, 2}
  Hash <- MCHash
  Blacklist = {}
  Commands <- MCCommands
  MaxVersions = 2
  MaxTroubles = 0
SPECIFICATION Spec
INVARIANT SkippedIsMirrored
CHECK_DEADLOCK FALSE
