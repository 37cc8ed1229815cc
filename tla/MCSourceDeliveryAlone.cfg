\* One loop without a cursor, polled for ever; two writes may fail and the
\* application may restart once.
SPECIFICATION FairSpec
CONSTANTS
  i1 = i1
  i2 = i2
  None = None
  Items = {i1, i2}
  MaxVersion = 2
  Dropped <- FirstStateDropped
  Comments = TRUE
  Cursor = FALSE
  Loops = {l1}
  Pushers = {}
  First = l1
  MaxFaults = 2
  MaxPushes = 0
  MaxRuns = 1
  MaxRestarts = 1
INVARIANTS TypeOK RememberedWasSaid UnshownCostFaults
PROPERTIES CaughtUp
CHECK_DEADLOCK FALSE
