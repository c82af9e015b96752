\* Three rows in two projects, one more than a history has, polls of one row.
CONSTANTS
  Shapes <- TwoShapes
  Views <- OneView
  HistoryLimit = 2
  PollLimit = 1
  MaxProjects = 2
  MaxRows = 3
  MaxRuns = 1
  MaxErrors = 1
SPECIFICATION FairSpec
CHECK_DEADLOCK FALSE
INVARIANTS
  ListIsComplete
  ViewAddsUp
PROPERTIES
  RecordedIsShown
