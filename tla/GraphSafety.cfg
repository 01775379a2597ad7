SPECIFICATION FairSpec
CONSTANTS
  p1 = p1
  p2 = p2
  c1 = c1
  c2 = c2
  None = None
  Pass = {p1, p2}
  Reviewer = {c1}
  NTasks = 2
  MAX_RETRIES = 1
  MaxEnqueues = 2
  MaxFaults = 1
  MaxCrashes = 1
  MaxExpiries = 1
  MaxDeletes = 1
CHECK_DEADLOCK FALSE
INVARIANTS TypeOK ToolCallsBounded CompletedIsVerified EscalatedIsReviewable NeedsReviewIsReviewable OnePendingEscalation VerifiedIsOnRecord
PROPERTIES VerifiedStays RequeueIsKept PassEnds RunSettles
