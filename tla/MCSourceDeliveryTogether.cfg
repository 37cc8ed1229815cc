\* Two loops that may overlap and an address anybody may send to.
SPECIFICATION Spec
CONSTANTS
  i1 = i1
  i2 = i2
  None = None
  Items = {i1}
  MaxVersion = 2
  Dropped <- NothingDropped
  Comments = FALSE
  Cursor = TRUE
  Loops = {l1, l2}
  Pushers = {p1}
  First = l1
  MaxFaults = 1
  MaxPushes = 1
  MaxRuns = 1
  MaxRestarts = 1
INVARIANTS SecondCardExplained
PROPERTIES CardKept
CHECK_DEADLOCK FALSE
