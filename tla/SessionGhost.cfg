\* No failure at all: a closed tab comes back.
CONSTANTS
  MaxTabs = 2
  MaxSaves = 0
  MaxEdits = 1
  MaxBacklog = 2
  MaxFailures = 0
SPECIFICATION Spec
CHECK_DEADLOCK FALSE
PROPERTIES
  ClosedStaysClosed
