SPECIFICATION FairSpec
CONSTANTS
  p1 = p1
  c1 = c1
  None = None
  Pass = {p1}
  Reviewer = {c1}
  NTasks = 1
  MAX_RETRIES = 1
  MaxEnqueues = 2
  MaxFaults = 0
  MaxCrashes = 0
  MaxExpiries = 0
  MaxDeletes = 0
CHECK_DEADLOCK FALSE
PROPERTY SentBackIsExecuted
