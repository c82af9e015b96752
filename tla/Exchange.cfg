\* Two requests with a cancel or clear between them, bodies up to two chunks.
CONSTANTS
  MaxGeneration = 3
  MaxChunks = 2
  ChannelSize = 1
  Threshold = 1
  LiveCap = 1
  MaxSaving = 1
  MaxSweeps = 1
SPECIFICATION FairSpec
CHECK_DEADLOCK FALSE
INVARIANTS
  ShownBelongs
  FirstDeltaKnown
  SpillFileKept
PROPERTIES
  Released
