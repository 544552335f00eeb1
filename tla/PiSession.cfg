SPECIFICATION FairSpec
CONSTANTS
  MaxTree = 3
  MaxRequests = 6
INVARIANTS OneScope
PROPERTIES OriginalWrittenOnce DeadlinedOpsEnd
CHECK_DEADLOCK FALSE
