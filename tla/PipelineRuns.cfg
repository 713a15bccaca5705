CONSTANTS
  Files <- MCFiles
  Target = "main.iia"
  Stem = "main"
  Sources <- MCSources
  Absent = Absent
  Unreadable = Unreadable
  Projects <- MCProjects
  Edits <- MCEdits
  Cels <- MCCels
  Options <- MCOptions
  Breakages <- MCBreakages
  Empty = Empty
  MaxRuns = 2
  MaxEdits = 1
SPECIFICATION Spec
INVARIANTS ReportIsTrue SuccessIsBuilt RejectedTouchesNothing
PROPERTIES Consent RunEnds
CHECK_DEADLOCK FALSE
