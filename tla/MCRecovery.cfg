\* Two engines, one of them with a legacy log, and the offline commands.
SPECIFICATION Spec
CONSTANTS
  Legacy = {"kv"}
  KeepsBackups = FALSE
  Points <- MCPoints
  MaxCommits <- MCCommits
  MaxCheckpoints = 2
  MaxBackups = 1
  MaxTime = 2
  MaxAdoptions = 1
INVARIANTS RestoredIsReal ManifestIsReachable PruneKeepsLaterBackups
PROPERTIES RecoverableIsRestored TimeIsExact
