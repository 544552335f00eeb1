SPECIFICATION Spec
CONSTANTS
  Attempts = {"a"}
  Schedules <- MCSchedules
INVARIANTS FilesInStep PassIsOneLaunch PassMeansDispatched NobodyStranded
CHECK_DEADLOCK FALSE
