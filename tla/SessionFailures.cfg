\* Two tabs, one save, two edits, one failed write or one kill.
CONSTANTS
  MaxTabs = 2
  MaxSaves = 1
  MaxEdits = 2
  MaxBacklog = 1
  MaxFailures = 1
SPECIFICATION FairSpec
CHECK_DEADLOCK FALSE
INVARIANTS
  LinksAreSound
  CleanMeansSaved
PROPERTIES
  EditsReachDisk
