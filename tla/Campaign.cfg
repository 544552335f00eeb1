SPECIFICATION Spec
CONSTANTS
  N = 4
  MaxLaunches = 3
  MaxEpoch = 2
INVARIANTS SentOnce PassIsEarned FailIsReal
CHECK_DEADLOCK FALSE
