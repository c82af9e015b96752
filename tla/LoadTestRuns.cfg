\* Two workers, up to four requests, two tests one after the other.
CONSTANTS
  w1 = w1  w2 = w2
  Worker = {w1, w2}
  MaxRequests = 4
  MaxSamples = 2
  MaxRuns = 2
SPECIFICATION FairSpec
INVARIANTS
  ReportsAreTrue
  SamplesEvenlySpaced
PROPERTIES
  CancelStopsWorkers
