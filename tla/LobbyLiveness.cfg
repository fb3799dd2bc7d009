SPECIFICATION FairSpec
CONSTANTS
  Users = {u1}
  NoUser = none
  MinPlayers = 1
  MaxPlayers = 2
  Requests = {r1}
  Faults = {"exit", "stall"}
  MaxInstances = 1
  CleanupEnabled = FALSE
  MaxLives = 2
  GameReads = {"event"}
  Stoppers = {"cleanup", "shutdown"}
CHECK_DEADLOCK FALSE
PROPERTIES
  StopReturns
  StartResolves
  ShutdownEnds
