SPECIFICATION FairSpec
CONSTANTS
  Cards = {c1, c2}
  Terminals = {c1}
  Bases = {"named", "HEAD"}
  MaxVisits = 2
  MaxChances = 2
  Trunk = Trunk
  None = None
INVARIANTS TypeOK FolderAlone OwnBranch CopyHasRow
PROPERTIES WorkLostOnlyInWindow TerminalKeepsCopy MergedFolderFreed
CHECK_DEADLOCK FALSE
