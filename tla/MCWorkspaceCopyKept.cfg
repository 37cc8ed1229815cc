SPECIFICATION Spec
CONSTANTS
  Cards = {c1, c2}
  Terminals = {c1}
  Bases = {"named"}
  MaxVisits = 2
  MaxChances = 0
  Trunk = Trunk
  None = None
PROPERTIES CopyKept
CHECK_DEADLOCK FALSE
