CONSTANTS
  Files <- MCFiles
  Target = "main.iia"
  Stem = "main"
  Sources <- MCSources
  Absent = Absent
  Unreadable = Unreadable
  Projects <- MCHiddenProjects
  Edits <- MCHiddenEdits
  Cels <- MCCels
  Options <- MCOptions
  Breakages <- MCBreakages
  Empty = Empty
  MaxRuns = 2
  MaxEdits = 1
SPECIFICATION Spec
INVARIANT EveryRiskRecorded
CHECK_DEADLOCK FALSE
