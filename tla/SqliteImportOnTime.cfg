SPECIFICATION TimestampSpec
CONSTANTS
  Base = 3
  Seconds = 3
  ReleaseDelays = {0, 1, 5, 27}
INVARIANTS
  ImportedOnTime
CHECK_DEADLOCK FALSE
