------------------------------ MODULE RoomTables ------------------------------
(***************************************************************************)
(* The rows of tables rooms and room_players that belong to one room       *)
(* (crates/lobby/src/db/schema.sql), shared by the HTTP handlers (Room),   *)
(* the instance manager (InstanceManager) and the lobby's background tasks *)
(* (Lobby).  Rooms share no row, so one room is enough; a second room only *)
(* delays the tasks that walk over rooms, which the interleavings cover.   *)
(***************************************************************************)
EXTENDS Integers, FiniteSets

CONSTANTS
  Users,       \* the registered users, a finite set
  NoUser,      \* not a user: an unset uid
  MinPlayers,  \* RegistryEntry.min_players of the room's game
  MaxPlayers,  \* RegistryEntry.max_players of the room's game
  Faults       \* the faults the environment may inject, see AllFaults

ASSUME UsersAssumption == IsFiniteSet(Users) /\ NoUser \notin Users
ASSUME PlayersAssumption == MinPlayers \in Nat /\ MaxPlayers \in Nat \ {0}

AllFaults == { "cancel",  \* a client disconnects and its handler is dropped
               "spawn",   \* the game binary cannot be spawned
               "exit",    \* a game process dies on its own
               "stall",   \* a game process stops being scheduled for a while
               "slow",    \* a game process needs more than READY_TIMEOUT to start
               "crash" }  \* the lobby process is killed
ASSUME FaultsAssumption == Faults \subseteq AllFaults

VARIABLES
  roomStatus,  \* rooms.status, "None" before the room is created
  host,        \* rooms.host_uid
  viewed,      \* rooms.last_active_at: NULL, recent, or past the cleanup limit
  seat,        \* room_players.seat of each user, NoSeat for a non-member
  senior       \* ORDER BY joined_at, seat: <<a, b>> when a comes before b

roomVars == <<roomStatus, host, viewed, seat, senior>>

RoomStatuses == {"None", "Waiting", "Starting", "Running", "Finished", "Destroyed"}
Seats == 0 .. MaxPlayers - 1
NoSeat == -1

TablesTypeOK ==
  /\ roomStatus \in RoomStatuses
  /\ host \in Users \cup {NoUser}
  /\ viewed \in {"never", "fresh", "old"}
  /\ seat \in [Users -> Seats \cup {NoSeat}]
  /\ senior \in SUBSET (Users \X Users)

TablesInit ==
  /\ roomStatus = "None"
  /\ host = NoUser
  /\ viewed = "never"
  /\ seat = [u \in Users |-> NoSeat]
  /\ senior = {}

Members == {u \in Users : seat[u] # NoSeat}
FreeSeats == Seats \ {seat[u] : u \in Members}

\* The member that ORDER BY joined_at ASC, seat ASC LIMIT 1 returns.
Earliest(u) == u \in Members /\ \A m \in Members \ {u} : <<u, m>> \in senior

\* DELETE FROM room_players of the users in S.
RemoveMembers(S) ==
  /\ seat' = [u \in Users |-> IF u \in S THEN NoSeat ELSE seat[u]]
  /\ senior' = {p \in senior : p[1] \notin S /\ p[2] \notin S}

SetStatus(s) == roomStatus' = s
===============================================================================
