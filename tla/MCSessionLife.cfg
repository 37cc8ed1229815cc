SPECIFICATION FairSpec
CONSTANTS
  Sessions = {s1}
  Questions = {q1, q2}
  MaxTurns = 1
  Kinds = {"acp", "terminal"}
  MaxCalls = 1
  MaxReports = 2
  None = None
INVARIANTS TypeOK ReportCounts SilentOnlyIfStopped StoredAsEnded AskShown
PROPERTIES RevivedOnlyByItsTask SessionEnds NothingLeftAsking VerdictSpec
CHECK_DEADLOCK FALSE
