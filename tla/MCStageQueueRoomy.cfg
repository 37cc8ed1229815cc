SPECIFICATION FairSpec
CONSTANTS
  c1 = c1  c2 = c2  k1 = k1  k2 = k2  a1 = a1
  Cards = {c1, c2}
  Columns = {k1, k2}
  Agents = {a1}
  Sessions = {s1, s2}
  Crew <- RoomyCrew
  Rank <- MCRank
  MaxRunning <- RoomyLimit
  EventBuffer = 1
  Faults = TRUE
  MaxMoves = 3
  MaxEdits = 1
  MaxRestarts = 1
  Elsewhere = Elsewhere
  Person = Person
  Nobody = Nobody
  Loop = Loop
  None = None
INVARIANTS TypeOK ByCardLive OneSessionPerCard LeavingWorkCancels
PROPERTIES Settles
CHECK_DEADLOCK FALSE
