SPECIFICATION FairSpec
CONSTANTS
  None = None
  MAX_RETRIES = 1
  THRESHOLD = 75
INVARIANTS TypeOK VerifiedHasEvidence OnlyDoubtIsJudged
PROPERTIES FinalFailuresAreNotRetried SeenIsNotRepeated TaskSettles
