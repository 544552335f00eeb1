SPECIFICATION Spec
CONSTANTS
  p1 = p1
  p2 = p2
  x = x
  y = y
  Procs <- MCOneProc
  Outputs <- MCOutputs
  MaxLaunches = 4
  MaxFaults = 2
INVARIANT RunningUnitsAreRecorded
PROPERTIES KeepsPromise
CHECK_DEADLOCK FALSE
