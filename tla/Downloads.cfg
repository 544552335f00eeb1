SPECIFICATION FairSpec
CONSTANTS
  Jobs = {j1}
  NoJob = NoJob
  Count = 2
  Size = 2
  MaxVersion = 2
INVARIANTS PublishedIsWhole RecordedIsThere
PROPERTIES RecordedIsKept StopIsHonoured RunEnds
CHECK_DEADLOCK FALSE
