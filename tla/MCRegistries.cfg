SPECIFICATION Spec
CONSTANTS
  n1 = n1  n2 = n2  b1 = b1
  Names = {n1, n2}
  Boards = {b1}
  MaxEdits = 3
  MaxChances = 2
  None = None
INVARIANTS TypeOK Stored
PROPERTIES KeptUnlessRemoved NetworkKept
SYMMETRY MCSymmetry
CHECK_DEADLOCK FALSE
