SPECIFICATION Spec
CONSTANTS
  MaxTree = 2
  MaxRequests = 6
PROPERTY AppliedTurnCompleted
CHECK_DEADLOCK FALSE
