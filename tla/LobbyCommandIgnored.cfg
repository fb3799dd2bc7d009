SPECIFICATION FairSpec
CONSTANTS
  Users = {u1}
  NoUser = none
  MinPlayers = 1
  MaxPlayers = 2
  Requests = {r1}
  Faults = {}
  MaxInstances = 1
  CleanupEnabled = FALSE
  MaxLives = 1
  GameReads = {"event"}
  Stoppers = {"cleanup", "shutdown"}
CHECK_DEADLOCK FALSE
PROPERTIES
  StartReachesGame
