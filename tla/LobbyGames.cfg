SPECIFICATION Spec
CONSTANTS
  Users = {u1}
  NoUser = none
  MinPlayers = 1
  MaxPlayers = 2
  Requests = {r1, r2}
  Faults = {"exit", "spawn"}
  MaxInstances = 2
  CleanupEnabled = FALSE
  MaxLives = 1
  GameReads = {"event"}
  Stoppers = {"cleanup", "shutdown"}
CHECK_DEADLOCK FALSE
SYMMETRY Symmetry
INVARIANTS
  RoomMatchesGames
  RunningHasRow
