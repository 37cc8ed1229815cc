SPECIFICATION FairSpec
CONSTANTS
  work = work  review = review  done = done
  Nodes = {work, review, done}
  Works = {work, review}
  Edges <- ReviewRoute
  Off = Off
  Starts = {review}
  Sessions = {s1}
  Loop = Loop
  Watch = Watch
  Drains = {d}
  MaxChances = 2
  None = None
PROPERTIES OutcomeHeeded MergeMovesOn
CHECK_DEADLOCK FALSE
