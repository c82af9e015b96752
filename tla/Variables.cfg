SPECIFICATION Spec
CONSTANTS
    Requests = {r1, r2}
    Names = {g1, g2}
    Tabs = {t1}
    Keys = {k1}
    Values = {v1, v2}
    EnvIds = {e1, e2}
    NoGroup = NoGroup
    None = None
    MaxRows = 2
    MaxChanges = 2
SYMMETRY Symmetry
CHECK_DEADLOCK FALSE
INVARIANTS
  CopiesAreCurrent
PROPERTIES
  NoRevival
  RenameKeepsValues
