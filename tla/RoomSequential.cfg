SPECIFICATION RoomSpec
CONSTANTS
  Users = {u1, u2, u3}
  NoUser = none
  MinPlayers = 2
  MaxPlayers = 3
  Requests = {r1}
  Faults = {"spawn"}
SYMMETRY Symmetry
INVARIANTS
  RoomTypeOK
  HostIsMember
  EmptyMeansDestroyed
  DestroyedIsEmpty
