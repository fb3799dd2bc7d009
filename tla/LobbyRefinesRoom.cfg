SPECIFICATION Spec
CONSTANTS
  Users = {u1, u2}
  NoUser = none
  MinPlayers = 1
  MaxPlayers = 2
  Requests = {r1, r2}
  Faults = {"cancel", "spawn"}
  MaxInstances = 1
  CleanupEnabled = FALSE
  MaxLives = 1
  GameReads = {"event"}
  Stoppers = {"cleanup", "shutdown"}
CHECK_DEADLOCK FALSE
SYMMETRY Symmetry
INVARIANTS
  SeatsDistinct
  
PROPERTIES
  OpenSpec
