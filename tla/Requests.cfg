SPECIFICATION Request
CONSTANTS
  Capacity = 2
  MaxFrames = 4
  Changed = {1, 2, 3}
  New = {2}
  MaxApplies = 2
  MaxEdits = 2
INVARIANTS NoSendOnClosed TerminalOnlyAgreed NoSilentTruncation ApplyIsHonest
PROPERTY StreamEnds
CHECK_DEADLOCK FALSE
