SPECIFICATION FairSpec
CONSTANTS
  p1 = p1
  p2 = p2
  x = x
  y = y
  Procs <- MCOneProc
  Outputs <- MCOutputs
  MaxLaunches = 2
  MaxFaults = 1
PROPERTIES LockAlwaysComesFree DrainEnds
CHECK_DEADLOCK FALSE
