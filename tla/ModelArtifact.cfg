SPECIFICATION Spec
CONSTANTS
  Sizes <- MCSizes
  Patch <- MCPatch
  Blocks = 2
  Chunk = 2
  MaxAttempts = 2
  MaxCommands = 5
  MaxChecks = 2
  MaxSyncs = 1
  MaxEdits = 1
INVARIANTS CacheIsPrefix ValidatedIsRepaired AdmittedIsPinned
CHECK_DEADLOCK FALSE
