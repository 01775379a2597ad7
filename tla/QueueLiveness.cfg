SPECIFICATION FairSpec
CONSTANTS
  w1 = w1
  w2 = w2
  r1 = r1
  r2 = r2
  c1 = c1
  c2 = c2
  None = None
  Run = {r1}
  Worker = {w1, w2}
  Client = {c1}
  MaxEnqueues = 2
  MaxPhases = 1
  MaxOrphans = 0
  MaxCrashes = 1
  MaxDeletes = 0
CHECK_DEADLOCK FALSE
PROPERTIES LostLeaseStopsWork ActiveRunsSettle QueuedRunsAreTaken
