\* One loop with a cursor and a single failure.
SPECIFICATION FairSpec
CONSTANTS
  i1 = i1
  i2 = i2
  None = None
  Items = {i1}
  MaxVersion = 2
  Dropped <- NothingDropped
  Comments = TRUE
  Cursor = TRUE
  Loops = {l1}
  Pushers = {}
  First = l1
  MaxFaults = 1
  MaxPushes = 0
  MaxRuns = 0
  MaxRestarts = 0
PROPERTIES CaughtUp
CHECK_DEADLOCK FALSE
