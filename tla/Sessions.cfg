SPECIFICATION FairSpec
CONSTANTS
  Tokens = {t1, t2, t3}
  Members = {t1, t2}
  Games = {g1}
  Ttl = 1
  DayLength = 2
  GcEvery = 1
  MaxTime = 3
CHECK_DEADLOCK FALSE
INVARIANTS
  
  SessionsLapse
PROPERTIES
  GcSparesLive
  
