\* One request of up to two hops, two changes of page, four events waiting.
CONSTANTS
  Requests = {r1}
  MaxHops = 2
  MaxPages = 2
  MaxBacklog = 4
SPECIFICATION FairSpec
CHECK_DEADLOCK FALSE
INVARIANTS
  RowsFollowHops
  ExtraMergedOnce
PROPERTIES
  LastHopStored
