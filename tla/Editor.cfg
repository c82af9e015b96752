SPECIFICATION EditorSpec
CONSTANTS
  Texts = {"x"}
  Names = {n1, n2}
  Files = {p1, p2}
  NoFile = NoFile
  MaxRows = 3
  MaxReads = 2
CHECK_DEADLOCK FALSE
INVARIANTS
  CleanMeansSame
  RowsAreWhole
PROPERTIES
  PathRowsFollowUrl
