SPECIFICATION Spec
CONSTANTS
  Players = {"ann", "bob"}
  Conns = {1, 2}
  Owners <- MCOwners
  NoConn = 0
  Speakers = {1, 2}
  Capacity = 1
  MaxVersion = 1
  Vanishing = {}
CHECK_DEADLOCK FALSE
INVARIANTS
  ConnectedIsOnline
