SPECIFICATION PatientSpec
CONSTANTS
  c1 = c1  c2 = c2  k1 = k1  k2 = k2  a1 = a1
  Cards = {c1, c2}
  Columns = {k1}
  Agents = {a1}
  Sessions = {s1, s2, s3}
  Crew <- NarrowCrew
  Rank <- MCRank
  MaxRunning <- NarrowLimit
  EventBuffer = 2
  Faults = FALSE
  MaxMoves = 2
  MaxEdits = 0
  MaxRestarts = 0
  Elsewhere = Elsewhere
  Person = Person
  Nobody = Nobody
  Loop = Loop
  None = None
PROPERTIES StartsByItself
CHECK_DEADLOCK FALSE
