SPECIFICATION FairSpec
CONSTANTS
  STREAM_MAX_RECONNECT_ATTEMPTS = 1
  MaxSent = 1
  MaxWrites = 3
CHECK_DEADLOCK FALSE
INVARIANTS TypeOK 
  
