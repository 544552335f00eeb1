SPECIFICATION FairSpec
CONSTANTS
  MaxTree = 1
  MaxRequests = 4
PROPERTY AbortEnds
CHECK_DEADLOCK FALSE
