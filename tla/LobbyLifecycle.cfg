SPECIFICATION Spec
CONSTANTS
  Users = {u1}
  NoUser = none
  MinPlayers = 1
  MaxPlayers = 2
  Requests = {r1}
  Faults = {"spawn", "exit", "stall", "crash"}
  MaxInstances = 1
  CleanupEnabled = TRUE
  MaxLives = 2
  GameReads = {"cmd"}
  Stoppers = {"cleanup", "shutdown"}
CHECK_DEADLOCK FALSE
SYMMETRY Symmetry
INVARIANTS
  LobbyTypeOK
  NoStrayProcess
  OrphanRowsClosed
