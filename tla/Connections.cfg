SPECIFICATION FairSpec
CONSTANTS
  Players = {"ann", "bob"}
  Conns = {1, 2}
  Owners <- MCOwners
  NoConn = 0
  Speakers = {1, 2}
  Capacity = 1
  MaxVersion = 2
  Vanishing = {1}
CHECK_DEADLOCK FALSE
INVARIANTS
  TypeOK
  RegistryIsLive
  
  InvisibleOnlyAfterSecond
  SilentOnlyAfterTick

  
