SPECIFICATION Spec
CONSTANTS
  p1 = p1
  p2 = p2
  x = x
  y = y
  Procs <- MCTwoProcs
  Outputs <- MCOutputs
  MaxLaunches = 2
  MaxFaults = 1
SYMMETRY MCSymmetry
INVARIANTS UnsettledIsMarked AdmittedOverSettledPair
PROPERTIES MarkerClearedOnlySettled
CHECK_DEADLOCK FALSE
