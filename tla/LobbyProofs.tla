----------------------------- MODULE LobbyProofs -----------------------------
(***************************************************************************)
(* The lobby implements the open room: whatever the manager's tasks, the   *)
(* cleanup task, shutdowns, crashes and boots do to the rows of a room is  *)
(* a step of Room's OpenNext.  What RoomProofs proves of OpenSpec holds of *)
(* the whole lobby.                                                        *)
(***************************************************************************)
EXTENDS Lobby, RoomProofs

\* Before the room exists no request, task or game works on it.
NoRoomNoWork ==
  roomStatus = "None" =>
    /\ AtRest
    /\ \A i \in Instances : /\ row[i] = "none" /\ entry[i] = "none" /\ game[i] = "none"
                            /\ reader[i] = "none" /\ watchdog[i] = "off"
    /\ timedOut = 0
    /\ \A c \in Stoppers : stopping[c].pc = "idle"
    /\ sweep.pc = "idle"

LeavingOK == leaving \in [Instances -> SUBSET Users]

LobbyInv == NoRoomNoWork /\ LeavingOK

LEMMA InitLobbyInv == LobbyInit => LobbyInv
  BY DEF LobbyInit, LobbyInv, NoRoomNoWork, LeavingOK, RoomInit, TablesInit, ReqInit, Idle, AtRest,
         ManagerInit, MapInit, NotStopping, SweepIdle

-----------------------------------------------------------------------------
(* A room that does not exist: only its creation, its being asked for and *)
(* the life of the lobby process go on.                                    *)

LEMMA NoTaskWithoutRoom ==
  ASSUME LobbyInv, roomStatus = "None"
  PROVE  /\ ~ManagerTasks
         /\ \A i \in Instances : ~GameOver(i)
         /\ ~Sweep
         /\ \A r \in Requests, i \in Instances :
              ~Proceed(r) /\ ~Cancel(r) /\ ~StartSpawned(r) /\ ~StartReturn(r)
<1> USE DEF LobbyInv, NoRoomNoWork
<1>1. ASSUME NEW i \in Instances PROVE ~Game(i) /\ ~GameOver(i)
  BY DEF Game, GameReady, GameStart, GameStop, GameOver, GameExit, GameStall, Runs, Alive
<1>2. ASSUME NEW i \in Instances PROVE ~Reader(i) /\ ~OnHeartbeat(i) /\ ~OnAction(i)
  BY DEF Reader, Reads, OnReady, OnReadyRoom, OnRunning, OnFinished, OnFinishedRoom, OnFinishedList,
         OnFinishedPurge, OnFinishedReap, OnFinishedDrop, OnShutdown, OnEof, OnEofRoom,
         OnHeartbeat, OnAction
<1>3. ASSUME NEW i \in Instances PROVE ~Watchdog(i)
  BY DEF Watchdog, WatchdogEnd, WatchdogFire, WatchdogRoom, WatchdogKill, WatchdogDrop
<1>4. ASSUME NEW i \in Instances PROVE ~BeatLate(i) /\ ~TimeoutMark(i) /\ ~TimeoutRoom(i)
  BY DEF BeatLate, TimeoutMark, TimeoutRoom, Live, Instances
<1>5. ASSUME NEW c \in Stoppers PROVE ~Stop(c)
  BY DEF Stop, StopGone, StopKill, StopRow, StopRoom
<1>6. ~Sweep
  BY DEF Sweep, SweepRunningStuck, SweepWaitingStale, SweepList, SweepStop, SweepSkip,
         SweepStopped, SweepRow, SweepMembers, SweepRoom
<1>7. ASSUME NEW r \in Requests
      PROVE  ~Proceed(r) /\ ~Cancel(r) /\ ~StartSpawned(r) /\ ~StartReturn(r)
  BY DEF AtRest, At, Proceed, LeaveDelete, LeaveSelect, LeaveDestroy, LeavePromote, StartTokens,
         StartMark, StartFail, Rollback, Cancel, StartSpawned, StartReturn, LeavePCs, StartPCs
<1> QED
  BY <1>1, <1>2, <1>3, <1>4, <1>5, <1>6, <1>7 DEF ManagerTasks, InstanceTasks

-----------------------------------------------------------------------------
(* Every step of the lobby is a step of the open room, or changes neither *)
(* the room's rows nor its requests.                                       *)

LEMMA RequestingImplements == Requesting => OpenNext
<1>1. Take => OpenNext
  BY DEF Take, OpenNext, RoomNext
<1>2. ASSUME NEW r \in Requests, Serve(r) \/ StartOn(r) \/ HangUp(r) \/ StartAbandon(r)
      PROVE  OpenNext
  BY <1>2 DEF Serve, StartOn, StartSpawn, StartInsert, HangUp, StartAbandon, OpenNext, RoomNext
<1> QED
  BY <1>1, <1>2 DEF Requesting

\* A task that writes the status of the room, or deletes members.
LEMMA StatusWrite ==
  ASSUME roomStatus # "None", req' = req, UNCHANGED <<host, viewed, seat, senior>>,
         NEW s \in {"Waiting", "Running", "Finished", "Destroyed"}, SetStatus(s)
  PROVE  OpenNext
  BY DEF OpenNext, Environment, GameOutcome

LEMMA MemberDelete ==
  ASSUME roomStatus # "None", req' = req, UNCHANGED <<roomStatus, host, viewed>>,
         NEW S \in SUBSET Users, RemoveMembers(S)
  PROVE  OpenNext
  BY DEF OpenNext, Environment, Removal

LEMMA ManagerImplements ==
  ASSUME LobbyInv, roomStatus # "None", req' = req,
         ManagerTasks \/ \E i \in Instances : GameOver(i)
  PROVE  [OpenNext]_handlerVars
<1> USE DEF roomVars
<1>1. ASSUME NEW i \in Instances, Game(i) \/ GameOver(i) PROVE UNCHANGED roomVars
  BY <1>1 DEF Game, GameReady, GameStart, GameStop, GameOver, GameExit, GameStall
<1>2. ASSUME NEW i \in Instances, Reader(i) PROVE UNCHANGED roomVars \/ OpenNext
  <2>1. CASE OnReady(i) \/ OnRunning(i) \/ OnFinished(i) \/ OnFinishedList(i)
    BY <2>1 DEF OnReady, OnRunning, OnFinished, OnFinishedList
  <2>2. CASE OnFinishedReap(i) \/ OnFinishedDrop(i) \/ OnShutdown(i) \/ OnEof(i)
    BY <2>2 DEF OnFinishedReap, OnFinishedDrop, OnShutdown, OnEof
  <2>3. CASE OnReadyRoom(i)
    BY <2>3, StatusWrite DEF OnReadyRoom, SetRoomOf
  <2>4. CASE OnFinishedRoom(i)
    BY <2>4, StatusWrite DEF OnFinishedRoom, SetRoomOf
  <2>5. CASE OnFinishedPurge(i)
    <3>1. PICK u \in leaving[i] : RemoveMembers({u})
      BY <2>5 DEF OnFinishedPurge
    <3>2. {u} \in SUBSET Users
      BY <3>1 DEF LobbyInv, LeavingOK
    <3> QED
      BY <2>5, <3>1, <3>2, MemberDelete DEF OnFinishedPurge
  <2>6. CASE OnEofRoom(i)
    BY <2>6, StatusWrite DEF OnEofRoom
  <2> QED
    BY <1>2, <2>1, <2>2, <2>3, <2>4, <2>5, <2>6 DEF Reader
<1>3. ASSUME NEW i \in Instances, Watchdog(i) PROVE UNCHANGED roomVars \/ OpenNext
  <2>1. CASE WatchdogEnd(i) \/ WatchdogFire(i) \/ WatchdogKill(i) \/ WatchdogDrop(i)
    BY <2>1 DEF WatchdogEnd, WatchdogFire, WatchdogKill, WatchdogDrop
  <2>2. CASE WatchdogRoom(i)
    BY <2>2, StatusWrite DEF WatchdogRoom
  <2> QED
    BY <1>3, <2>1, <2>2 DEF Watchdog
<1>4. ASSUME NEW i \in Instances, OnHeartbeat(i) \/ OnAction(i) \/ BeatLate(i) \/ TimeoutMark(i)
      PROVE  UNCHANGED roomVars
  BY <1>4 DEF OnHeartbeat, OnAction, BeatLate, TimeoutMark
<1>5. ASSUME NEW i \in Instances, TimeoutRoom(i) PROVE OpenNext
  BY <1>5, StatusWrite DEF TimeoutRoom
<1>6. ASSUME NEW c \in Stoppers, StopGone(c) \/ StopKill(c) \/ StopRow(c) PROVE UNCHANGED roomVars
  BY <1>6 DEF StopGone, StopKill, StopRow
<1>7. ASSUME NEW c \in Stoppers, StopRoom(c) PROVE OpenNext
  BY <1>7, StatusWrite DEF StopRoom
<1> QED
  BY <1>1, <1>2, <1>3, <1>4, <1>5, <1>6, <1>7 DEF ManagerTasks, InstanceTasks, Stop, handlerVars

LEMMA SweepImplements ==
  ASSUME roomStatus # "None", Sweep
  PROVE  [OpenNext]_handlerVars
<1> USE DEF handlerVars, roomVars
<1>1. CASE SweepRunningStuck \/ SweepWaitingStale \/ SweepList \/ SweepStopped \/ SweepRow
  BY <1>1 DEF SweepRunningStuck, SweepWaitingStale, SweepList, SweepStopped, SweepRow
<1>2. ASSUME NEW i \in Instances, SweepStop(i) \/ SweepSkip(i) PROVE UNCHANGED handlerVars
  BY <1>2 DEF SweepStop, SweepSkip, StopBegin
<1>3. CASE SweepMembers
  BY <1>3, MemberDelete DEF SweepMembers
<1>4. CASE SweepRoom
  BY <1>4, StatusWrite DEF SweepRoom
<1> QED
  BY <1>1, <1>2, <1>3, <1>4 DEF Sweep

LEMMA ProcessImplements ==
  ASSUME Process
  PROVE  [OpenNext]_handlerVars
<1> USE DEF handlerVars, roomVars
<1>1. CASE Close \/ Drain \/ Boot \/ BootRows
  BY <1>1 DEF Close, Drain, Boot, BootRows
<1>2. ASSUME NEW i \in Instances, DrainStop(i) PROVE UNCHANGED handlerVars
  BY <1>2 DEF DrainStop, StopBegin
<1>3. CASE Exit \/ Crash
  BY <1>3 DEF Exit, Crash, LoseMemory, OpenNext, Environment, DropRequests
<1>4. CASE BootRooms
  BY <1>4, StatusWrite DEF BootRooms
<1> QED
  BY <1>1, <1>2, <1>3, <1>4 DEF Process

LEMMA StepImplements == LobbyInv /\ [Next]_vars => [OpenNext]_handlerVars
<1> SUFFICES ASSUME LobbyInv, [Next]_vars PROVE [OpenNext]_handlerVars
  OBVIOUS
<1>1. CASE UNCHANGED vars
  BY <1>1 DEF vars
<1>2. CASE Requesting
  BY <1>2, RequestingImplements
<1>3. CASE Manage \/ \E i \in Instances : Finish(i)
  BY <1>3, NoTaskWithoutRoom, ManagerImplements DEF Manage, Finish, Run
<1>4. CASE Sweep
  BY <1>4, NoTaskWithoutRoom, SweepImplements
<1>5. CASE GrowOld
  BY <1>5 DEF GrowOld, OpenNext, Environment
<1>6. CASE Process
  BY <1>6, ProcessImplements
<1> QED
  BY <1>1, <1>2, <1>3, <1>4, <1>5, <1>6 DEF Next

-----------------------------------------------------------------------------
(* The invariant. *)

\* Without a room only the process itself changes, and it gives nobody work.
LEMMA NoRoomNoWorkStep == LobbyInv /\ [Next]_vars => NoRoomNoWork'
<1> SUFFICES ASSUME LobbyInv, [Next]_vars, roomStatus' = "None" PROVE NoRoomNoWork'
  BY DEF NoRoomNoWork
<1>1. roomStatus = "None"
  BY StepImplements, RoomStays
<1> USE DEF NoRoomNoWork, LobbyInv
<1>2. ~ManagerTasks /\ ~Sweep /\ \A i \in Instances : ~GameOver(i)
  BY <1>1, NoTaskWithoutRoom
<1>3. CASE UNCHANGED vars
  BY <1>1, <1>3 DEF vars, handlerVars, roomVars, managerVars, instVars, mapVars, gameVars, taskVars,
                    lobbyVars, AtRest
<1>4. CASE Requesting
  <2>1. \A r \in Requests : ~Serve(r) /\ ~StartOn(r) /\ ~HangUp(r) /\ ~StartAbandon(r)
    BY <1>1, NoTaskWithoutRoom
    DEF Serve, StartOn, StartSpawn, StartInsert, HangUp, StartAbandon, AtRest, At, StartSpawned,
        StartReturn, Proceed, Cancel, LeavePCs, StartPCs, LeaveDelete, LeaveSelect, LeaveDestroy,
        LeavePromote, StartTokens, StartMark, StartFail, Rollback
  <2>2. Take
    BY <1>4, <2>1 DEF Requesting
  <2>3. FALSE
    BY <1>1, <2>2 DEF Take, Arrive, Create, SetStatus, Join, View, LeaveRead, StartRead
  <2> QED
    BY <2>3
<1>5. CASE Manage \/ \E i \in Instances : Finish(i)
  BY <1>2, <1>5 DEF Manage, Finish, Run
<1>6. CASE GrowOld
  BY <1>1, <1>6 DEF GrowOld, Unviewed, mapVars, taskVars, gameVars, lobbyVars, instVars,
                    handlerVars, AtRest
<1>7. CASE Process
  <2> USE DEF handlerVars, roomVars, managerVars, instVars, mapVars, gameVars, taskVars, AtRest
  <2>1. CASE Close \/ Drain \/ Boot \/ BootRooms
    BY <1>1, <1>7, <2>1 DEF Close, Drain, Boot, BootRooms
  <2>2. CASE \E i \in Instances : DrainStop(i)
    BY <1>1, <2>2 DEF DrainStop, StopBegin
  <2>3. CASE Exit \/ Crash
    BY <1>1, <2>3 DEF Exit, Crash, LoseMemory, MapReset, ReqReset, Idle, NotStopping, SweepIdle, Alive
  <2>4. CASE BootRows
    BY <1>1, <2>4 DEF BootRows, Active
  <2> QED
    BY <1>7, <2>1, <2>2, <2>3, <2>4 DEF Process
<1> QED
  BY <1>2, <1>3, <1>4, <1>5, <1>6, <1>7 DEF Next

LEMMA LeavingOKStep == LobbyInv /\ [Next]_vars => LeavingOK'
<1> SUFFICES ASSUME LobbyInv, [Next]_vars PROVE LeavingOK'
  OBVIOUS
<1> USE DEF LobbyInv, LeavingOK, managerVars, taskVars
<1>1. CASE UNCHANGED vars
  BY <1>1 DEF vars
<1>2. CASE Requesting
  BY <1>2 DEF Requesting, Take, Serve, HangUp, StartAbandon, StartOn, StartSpawn, StartInsert,
              Spawn, Insert
<1>3. ASSUME NEW i \in Instances, Game(i) \/ GameOver(i) PROVE LeavingOK'
  BY <1>3 DEF Game, GameReady, GameStart, GameStop, GameOver, GameExit, GameStall
<1>4. ASSUME NEW i \in Instances, InstanceTasks(i) PROVE LeavingOK'
  <2>1. CASE OnFinishedList(i)
    BY <2>1 DEF OnFinishedList, Members
  <2>2. CASE OnFinishedPurge(i)
    BY <2>2 DEF OnFinishedPurge
  <2>3. CASE Watchdog(i)
    BY <2>3 DEF Watchdog, WatchdogEnd, WatchdogFire, WatchdogRoom, WatchdogKill, WatchdogDrop
  <2>4. CASE \/ OnReady(i) \/ OnReadyRoom(i) \/ OnRunning(i) \/ OnFinished(i) \/ OnFinishedRoom(i)
             \/ OnFinishedReap(i) \/ OnFinishedDrop(i) \/ OnShutdown(i) \/ OnEof(i) \/ OnEofRoom(i)
    BY <2>4 DEF OnReady, OnReadyRoom, OnRunning, OnFinished, OnFinishedRoom, OnFinishedReap,
                OnFinishedDrop, OnShutdown, OnEof, OnEofRoom
  <2>5. CASE OnHeartbeat(i) \/ OnAction(i) \/ BeatLate(i) \/ TimeoutMark(i) \/ TimeoutRoom(i)
    BY <2>5 DEF OnHeartbeat, OnAction, BeatLate, TimeoutMark, TimeoutRoom
  <2> QED
    BY <1>4, <2>1, <2>2, <2>3, <2>4, <2>5 DEF InstanceTasks, Reader
<1>5. ASSUME NEW c \in Stoppers, Stop(c) PROVE LeavingOK'
  BY <1>5 DEF Stop, StopGone, StopKill, StopRow, StopRoom
<1>6. CASE Sweep
  BY <1>6 DEF Sweep, SweepRunningStuck, SweepWaitingStale, SweepList, SweepStop, StopBegin, SweepSkip,
              SweepStopped, SweepRow, SweepMembers, SweepRoom
<1>7. CASE GrowOld
  BY <1>7 DEF GrowOld
<1>8. CASE Process
  BY <1>8 DEF Process, Close, Drain, DrainStop, StopBegin, Exit, Crash, LoseMemory, MapReset,
              Boot, BootRows, BootRooms
<1> QED
  BY <1>1, <1>2, <1>3, <1>4, <1>5, <1>6, <1>7, <1>8 DEF Next, Manage, Finish, Run, ManagerTasks

-----------------------------------------------------------------------------
\* Nothing happens to a room that does not exist yet, and the members that a
\* finished game still has to delete are users.
THEOREM LobbyInvariant == Spec => []LobbyInv
<1>1. LobbyInv /\ [Next]_vars => LobbyInv'
  BY NoRoomNoWorkStep, LeavingOKStep DEF LobbyInv
<1> QED
  BY InitLobbyInv, <1>1, PTL DEF Spec

\* The lobby implements the open room.
THEOREM LobbyImplementsRoom == Spec => OpenSpec
<1>1. LobbyInit => RoomInit
  BY DEF LobbyInit
<1>2. LobbyInv /\ [Next]_vars => [OpenNext]_handlerVars
  BY StepImplements
<1> QED
  BY LobbyInvariant, <1>1, <1>2, PTL DEF Spec, OpenSpec

\* In the lobby, with its crashes, purges and cleanups, no two members of a
\* room sit on the same seat.
THEOREM LobbySeatsAreDistinct == Spec => []SeatsDistinct
  BY LobbyImplementsRoom, SeatsAreDistinct, PTL
=============================================================================
