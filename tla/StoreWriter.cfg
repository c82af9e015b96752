\* Two files, three operations, a flush, one failure, one kill or power cut.
CONSTANTS
  p1 = p1  p2 = p2  a1 = a1
  Path = {p1, p2}
  Call = {a1}
  Delay = 1
  FlushTimeout = 1
  MaxOps = 3
  MaxFaults = 1
  MaxCrashes = 1
SPECIFICATION FairSpec
INVARIANTS
  FlushComplete
PROPERTIES
  ImplementsDurableStore
  WriterGetsDone
