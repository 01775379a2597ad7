SPECIFICATION FairSpec
CONSTANTS
  p1 = p1
  p2 = p2
  c1 = c1
  c2 = c2
  None = None
  Pass = {p1, p2}
  Reviewer = {c1, c2}
  NTasks = 1
  MAX_RETRIES = 1
  MaxEnqueues = 3
  MaxFaults = 0
  MaxCrashes = 0
  MaxExpiries = 0
  MaxDeletes = 0
CHECK_DEADLOCK FALSE
INVARIANTS ToolCallsOnRecord VerifiedIsOnRecord
PROPERTIES PassEnds RunSettles
