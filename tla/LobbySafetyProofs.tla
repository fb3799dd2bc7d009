-------------------------- MODULE LobbySafetyProofs --------------------------
(***************************************************************************)
(* Type correctness of the whole lobby, and that no game process runs      *)
(* unknown to the manager, for any number of users, requests, games and    *)
(* restarts.                                                               *)
(***************************************************************************)
EXTENDS LobbyProofs

-----------------------------------------------------------------------------
(* The types of the manager's state. *)

LEMMA GameTypeOK ==
  ASSUME ManagerTypeOK, NEW i \in Instances, Game(i) \/ GameOver(i)
  PROVE  ManagerTypeOK'
<1> USE DEF ManagerTypeOK, Events, Alive, Emit, GameTo, Die, instVars, mapVars, taskVars
<1>1. CASE GameReady(i)
  BY <1>1 DEF GameReady
<1>2. CASE GameStart(i)
  BY <1>2 DEF GameStart
<1>3. CASE GameStop(i)
  BY <1>3 DEF GameStop
<1>4. CASE GameOver(i)
  BY <1>4 DEF GameOver
<1>5. CASE GameExit(i)
  BY <1>5 DEF GameExit
<1>6. CASE GameStall(i)
  BY <1>6 DEF GameStall
<1> QED
  BY <1>1, <1>2, <1>3, <1>4, <1>5, <1>6 DEF Game

LEMMA ReaderTypeOK ==
  ASSUME ManagerTypeOK, NEW i \in Instances, Reader(i) \/ OnHeartbeat(i) \/ OnAction(i)
  PROVE  ManagerTypeOK'
<1> USE DEF ManagerTypeOK, Events, Alive, GameTo, Die, instVars, mapVars, gameVars, taskVars,
            ReaderTo, SetRow, SetEntry, Mark, Reads, Active, Live, ReaderLocked
<1>1. CASE OnReady(i)
  BY <1>1 DEF OnReady
<1>2. CASE OnReadyRoom(i)
  BY <1>2 DEF OnReadyRoom, Send
<1>3. CASE OnRunning(i)
  BY <1>3 DEF OnRunning
<1>4. CASE OnFinished(i)
  BY <1>4 DEF OnFinished
<1>5. CASE OnFinishedRoom(i)
  BY <1>5 DEF OnFinishedRoom
<1>6. CASE OnFinishedList(i)
  BY <1>6 DEF OnFinishedList, Members
<1>7. CASE OnFinishedPurge(i)
  BY <1>7 DEF OnFinishedPurge
<1>8. CASE OnFinishedReap(i)
  BY <1>8 DEF OnFinishedReap
<1>9. CASE OnFinishedDrop(i)
  BY <1>9 DEF OnFinishedDrop, DropEntry
<1>10. CASE OnShutdown(i)
  BY <1>10 DEF OnShutdown
<1>11. CASE OnEof(i)
  <2>1. CASE entry[i] \in Live
    <3>1. /\ entry' = [entry EXCEPT ![i] = "Abnormal"]
          /\ row' = [row EXCEPT ![i] = "abnormal"]
          /\ reader' = [reader EXCEPT ![i] = "eof_room"]
      BY <1>11, <2>1 DEF OnEof
    <3> QED
      BY <1>11, <3>1 DEF OnEof
  <2>2. CASE entry[i] \notin Live
    <3>1. reader' = [reader EXCEPT ![i] = "end"] /\ UNCHANGED <<row, entry>>
      BY <1>11, <2>2 DEF OnEof
    <3>2. reader' \in [Instances -> ReaderLocked \cup {"none", "read", "reap", "drop", "end"}]
      BY <3>1
    <3>3. UNCHANGED <<acted, beat, game, stalled, out, inbox, leaving, watchdog, timedOut, stopping>>
      BY <1>11 DEF OnEof
    <3> QED
      BY <3>1, <3>2, <3>3
  <2> QED
    BY <2>1, <2>2
<1>12. CASE OnEofRoom(i)
  BY <1>12 DEF OnEofRoom
<1>13. CASE OnHeartbeat(i)
  BY <1>13 DEF OnHeartbeat
<1>14. CASE OnAction(i)
  BY <1>14 DEF OnAction
<1> QED
  BY <1>1, <1>2, <1>3, <1>4, <1>5, <1>6, <1>7, <1>8, <1>9, <1>10, <1>11, <1>12, <1>13, <1>14
  DEF Reader

LEMMA WatchdogTypeOK ==
  ASSUME ManagerTypeOK, NEW i \in Instances,
         Watchdog(i) \/ BeatLate(i) \/ TimeoutMark(i) \/ TimeoutRoom(i)
  PROVE  ManagerTypeOK'
<1> USE DEF ManagerTypeOK, Alive, GameTo, Die, instVars, mapVars, gameVars, taskVars,
            WatchdogTo, SetRow, SetEntry, DropEntry, Active, Live
<1>1. CASE WatchdogEnd(i)
  BY <1>1 DEF WatchdogEnd
<1>2. CASE WatchdogFire(i)
  BY <1>2 DEF WatchdogFire
<1>3. CASE WatchdogRoom(i)
  BY <1>3 DEF WatchdogRoom
<1>4. CASE WatchdogKill(i)
  BY <1>4 DEF WatchdogKill
<1>5. CASE WatchdogDrop(i)
  BY <1>5 DEF WatchdogDrop
<1>6. CASE BeatLate(i)
  BY <1>6 DEF BeatLate
<1>7. CASE TimeoutMark(i)
  BY <1>7 DEF TimeoutMark
<1>8. CASE TimeoutRoom(i)
  BY <1>8 DEF TimeoutRoom
<1> QED
  BY <1>1, <1>2, <1>3, <1>4, <1>5, <1>6, <1>7, <1>8 DEF Watchdog

LEMMA StopTypeOK ==
  ASSUME ManagerTypeOK, NEW c \in Stoppers, Stop(c) \/ \E i \in Instances : StopBegin(c, i)
  PROVE  ManagerTypeOK'
<1> USE DEF ManagerTypeOK, Alive, GameTo, Die, instVars, mapVars, gameVars, taskVars,
            StopTo, SetRow, SetEntry, DropEntry
<1>1. CASE \E i \in Instances : StopBegin(c, i)
  BY <1>1 DEF StopBegin, Send
<1>2. CASE StopGone(c)
  BY <1>2 DEF StopGone
<1>3. CASE StopKill(c)
  BY <1>3 DEF StopKill
<1>4. CASE StopRow(c)
  BY <1>4 DEF StopRow
<1>5. CASE StopRoom(c)
  BY <1>5 DEF StopRoom
<1> QED
  BY <1>1, <1>2, <1>3, <1>4, <1>5 DEF Stop

\* The part of the lobby's state that no other module has.
OwnTypeOK ==
  /\ life \in {"down", "boot_rows", "boot_rooms", "up", "closing", "stopping"}
  /\ lives \in 0 .. MaxLives
  /\ sweep \in [pc : {"idle", "list", "next", "stop", "row", "room"},
                todo : SUBSET Instances, inst : Instances \cup {0}]
  /\ inserting \in [Requests -> Instances \cup {0}]
  /\ draining \in SUBSET Instances

TypeInv == ManagerTypeOK /\ OwnTypeOK

LEMMA InitTypeInv == LobbyInit => TypeInv
<1> USE DEF LobbyInit
<1>1. LobbyInit => ManagerTypeOK
  BY InstancesAssumption
  DEF ManagerInit, MapInit, NotStopping, ManagerTypeOK, Instances, Events
<1>2. LobbyInit => OwnTypeOK
  BY LivesAssumption DEF OwnTypeOK, SweepIdle, Instances
<1> QED
  BY <1>1, <1>2 DEF TypeInv

LEMMA RequestingTypeOK ==
  ASSUME TypeInv, Requesting
  PROVE  TypeInv'
<1> USE DEF TypeInv
<1>1. CASE UNCHANGED <<managerVars, lobbyVars>>
  BY <1>1 DEF managerVars, instVars, mapVars, gameVars, taskVars, lobbyVars, ManagerTypeOK, OwnTypeOK
<1>2. ASSUME NEW r \in Requests, NEW i \in Instances, StartSpawn(r, i) PROVE TypeInv'
  <2>1. ManagerTypeOK'
    BY <1>2 DEF StartSpawn, Spawn, SetRow, GameTo, ReaderTo, mapVars, ManagerTypeOK, Active, Alive
  <2>2. OwnTypeOK'
    BY <1>2 DEF StartSpawn, OwnTypeOK
  <2> QED
    BY <2>1, <2>2
<1>3. ASSUME NEW r \in Requests, StartInsert(r) PROVE TypeInv'
  <2>1. ManagerTypeOK'
    BY <1>3 DEF StartInsert, Insert, SetEntry, WatchdogTo, instVars, gameVars, ManagerTypeOK, Live
  <2>2. OwnTypeOK'
    BY <1>3 DEF StartInsert, OwnTypeOK
  <2> QED
    BY <2>1, <2>2
<1>4. ASSUME NEW r \in Requests, StartAbandon(r) PROVE TypeInv'
  BY <1>4 DEF StartAbandon, managerVars, instVars, mapVars, gameVars, taskVars, ManagerTypeOK, OwnTypeOK
<1> QED
  BY <1>1, <1>2, <1>3, <1>4 DEF Requesting, Take, Serve, HangUp, StartOn

LEMMA RunTypeOK ==
  ASSUME TypeInv, Manage \/ \E i \in Instances : Finish(i)
  PROVE  TypeInv'
<1> USE DEF TypeInv
<1>1. OwnTypeOK'
  BY DEF Manage, Finish, Run, lobbyVars, OwnTypeOK
<1>2. ManagerTypeOK'
  BY GameTypeOK, ReaderTypeOK, WatchdogTypeOK, StopTypeOK
  DEF Manage, Finish, Run, ManagerTasks, InstanceTasks
<1> QED
  BY <1>1, <1>2

LEMMA SweepTypeOK ==
  ASSUME TypeInv, Sweep
  PROVE  TypeInv'
<1> USE DEF TypeInv, SweepTo
<1>1. ASSUME UNCHANGED managerVars PROVE ManagerTypeOK'
  BY <1>1 DEF managerVars, instVars, mapVars, gameVars, taskVars, ManagerTypeOK
<1>2. CASE SweepRunningStuck \/ SweepWaitingStale \/ SweepStopped \/ SweepMembers \/ SweepRoom
  <2>1. ManagerTypeOK'
    BY <1>1, <1>2 DEF SweepRunningStuck, SweepWaitingStale, SweepStopped, SweepMembers, SweepRoom
  <2>2. OwnTypeOK'
    BY <1>2 DEF SweepRunningStuck, SweepWaitingStale, SweepStopped, SweepMembers, SweepRoom, OwnTypeOK
  <2> QED
    BY <2>1, <2>2
<1>3. CASE SweepList
  BY <1>1, <1>3 DEF SweepList, OwnTypeOK
<1>4. ASSUME NEW i \in Instances, SweepStop(i) PROVE TypeInv'
  <2>1. ManagerTypeOK'
    BY <1>4, StopTypeOK, StoppersAssumption DEF SweepStop
  <2>2. OwnTypeOK'
    BY <1>4 DEF SweepStop, OwnTypeOK
  <2> QED
    BY <2>1, <2>2
<1>5. ASSUME NEW i \in Instances, SweepSkip(i) PROVE TypeInv'
  BY <1>1, <1>5 DEF SweepSkip, OwnTypeOK
<1>6. CASE SweepRow
  <2>1. ManagerTypeOK'
    BY <1>6 DEF SweepRow, SetRow, mapVars, gameVars, taskVars, ManagerTypeOK
  <2>2. OwnTypeOK'
    BY <1>6 DEF SweepRow, OwnTypeOK
  <2> QED
    BY <2>1, <2>2
<1> QED
  BY <1>2, <1>3, <1>4, <1>5, <1>6 DEF Sweep

LEMMA ProcessTypeOK ==
  ASSUME TypeInv, Process \/ GrowOld
  PROVE  TypeInv'
<1> USE DEF TypeInv, LifeTo
<1>1. ASSUME UNCHANGED managerVars PROVE ManagerTypeOK'
  BY <1>1 DEF managerVars, instVars, mapVars, gameVars, taskVars, ManagerTypeOK
<1>2. CASE Close \/ Drain \/ Boot \/ BootRooms
  <2>1. ManagerTypeOK'
    BY <1>1, <1>2 DEF Close, Drain, Boot, BootRooms
  <2>2. OwnTypeOK'
    BY <1>2, LivesAssumption DEF Close, Drain, Boot, BootRooms, OwnTypeOK
  <2> QED
    BY <2>1, <2>2
<1>3. ASSUME NEW i \in Instances, DrainStop(i) PROVE TypeInv'
  <2>1. ManagerTypeOK'
    BY <1>1, <1>3, StopTypeOK, StoppersAssumption DEF DrainStop
  <2>2. OwnTypeOK'
    BY <1>3 DEF DrainStop, OwnTypeOK
  <2> QED
    BY <2>1, <2>2
<1>4. CASE Exit \/ Crash
  <2>1. game' \in [Instances -> Alive \cup {"none", "dead", "orphan"}]
    BY <1>4 DEF Exit, Crash, ManagerTypeOK
  <2>2. LoseMemory
    BY <1>4 DEF Exit, Crash
  <2>3. out' \in [Instances -> Seq(Events)]
    BY <2>2 DEF LoseMemory
  <2>4. stopping' \in [Stoppers -> [pc : {"idle", "wait", "row", "room"}, inst : Instances \cup {0}]]
    BY <2>2 DEF LoseMemory, MapReset, NotStopping
  <2>5. ManagerTypeOK'
    BY <2>1, <2>2, <2>3, <2>4 DEF LoseMemory, MapReset, instVars, ManagerTypeOK
  <2>6. OwnTypeOK'
    BY <2>2, <1>4 DEF Exit, Crash, LoseMemory, SweepIdle, OwnTypeOK
  <2> QED
    BY <2>5, <2>6
<1>5. CASE BootRows
  <2>1. ManagerTypeOK'
    BY <1>5 DEF BootRows, mapVars, gameVars, taskVars, ManagerTypeOK
  <2>2. OwnTypeOK'
    BY <1>5 DEF BootRows, OwnTypeOK
  <2> QED
    BY <2>1, <2>2
<1>6. CASE GrowOld
  <2>1. ManagerTypeOK'
    BY <1>6 DEF GrowOld, instVars, mapVars, gameVars, taskVars, ManagerTypeOK
  <2>2. OwnTypeOK'
    BY <1>6 DEF GrowOld, lobbyVars, OwnTypeOK
  <2> QED
    BY <2>1, <2>2
<1> QED
  BY <1>2, <1>3, <1>4, <1>5, <1>6 DEF Process

LEMMA TypeInvStep == TypeInv /\ [Next]_vars => TypeInv'
<1> SUFFICES ASSUME TypeInv, [Next]_vars PROVE TypeInv'
  OBVIOUS
<1>1. CASE UNCHANGED vars
  BY <1>1 DEF vars, managerVars, instVars, mapVars, gameVars, taskVars, lobbyVars, TypeInv,
              ManagerTypeOK, OwnTypeOK
<1> QED
  BY <1>1, RequestingTypeOK, RunTypeOK, SweepTypeOK, ProcessTypeOK DEF Next

\* All variables of the lobby keep their types.
THEOREM LobbyTypeCorrect == Spec => []LobbyTypeOK
<1>1. Spec => []TypeInv
  BY InitTypeInv, TypeInvStep, PTL DEF Spec
<1>2. Spec => []RoomTypeOK
  BY LobbyImplementsRoom, RoomTypeCorrect, PTL
<1>3. TypeInv /\ RoomTypeOK => LobbyTypeOK
  BY DEF TypeInv, OwnTypeOK, LobbyTypeOK
<1> QED
  BY <1>1, <1>2, <1>3, PTL

-----------------------------------------------------------------------------
(* No game process runs unknown to the manager, as long as no client hangs *)
(* up on a start request.                                                   *)

\* An instance on its way into the map belongs to one request that is about
\* to insert it.
InsertingInv ==
  \A r \in Requests : inserting[r] # 0 => At(r, "start_insert") /\ row[inserting[r]] # "none"

\* Who is about to remove an entry has reaped the child; the two tasks exist
\* only for instances that were spawned, so Spawn revives no such child.
ReapedInv ==
  \A i \in Instances :
    /\ watchdog[i] # "off" => row[i] # "none"
    /\ reader[i] = "drop" \/ watchdog[i] = "drop" => game[i] \notin Alive

StrayInv == TypeInv /\ InsertingInv /\ ReapedInv /\ NoStrayProcess

LEMMA InitStrayInv == LobbyInit => StrayInv
  BY InitTypeInv
  DEF LobbyInit, StrayInv, InsertingInv, ReapedInv, NoStrayProcess, ManagerInit, MapInit, Alive

\* A step after which the map and the processes are what they were.
LEMMA StrayUnchanged ==
  ASSUME StrayInv, UNCHANGED <<row, entry, game, reader, watchdog, inserting>>,
         \A r \in Requests : At(r, "start_insert") => At(r, "start_insert")'
  PROVE  InsertingInv' /\ ReapedInv' /\ NoStrayProcess'
  BY DEF StrayInv, InsertingInv, ReapedInv, NoStrayProcess

\* Only StartReturn and the end of the lobby take a request from start_insert.
LEMMA InsertersStay ==
  ASSUME NEW r \in Requests, Arrive \/ \E q \in Requests : Proceed(q) \/ Cancel(q),
         At(r, "start_insert"), ReqTypeOK
  PROVE  At(r, "start_insert")'
<1> USE DEF At, ReqTypeOK, roomVars
<1>1. CASE Arrive
  BY <1>1 DEF Arrive, Create, Join, View, LeaveRead, StartRead
<1>2. ASSUME NEW q \in Requests, Proceed(q) PROVE At(r, "start_insert")'
  BY <1>2 DEF Proceed, LeaveDelete, LeaveSelect, LeaveDestroy, LeavePromote, StartTokens, StartMark,
              StartFail, Rollback, Goto, Return
<1>3. ASSUME NEW q \in Requests, Cancel(q) PROVE At(r, "start_insert")'
  BY <1>3 DEF Cancel, Return, LeavePCs, StartPCs
<1> QED
  BY <1>1, <1>2, <1>3

LEMMA RequestingStray ==
  ASSUME StrayInv, ReqTypeOK, "cancel" \notin Faults, Requesting
  PROVE  InsertingInv' /\ ReapedInv' /\ NoStrayProcess'
<1>1. CASE Take \/ \E r \in Requests : Serve(r) \/ HangUp(r)
  <2>1. \A r \in Requests : At(r, "start_insert") => At(r, "start_insert")'
    BY <1>1, InsertersStay DEF Take, Serve, HangUp
  <2>2. UNCHANGED <<row, entry, game, reader, watchdog, inserting>>
    BY <1>1 DEF Take, Serve, HangUp, managerVars, instVars, mapVars, gameVars, taskVars, lobbyVars
  <2> QED
    BY <2>1, <2>2, StrayUnchanged
<1>2. ASSUME NEW r \in Requests, NEW i \in Instances, StartSpawn(r, i)
      PROVE  InsertingInv' /\ ReapedInv' /\ NoStrayProcess'
  <2> USE <1>2 DEF StrayInv, TypeInv, ManagerTypeOK, OwnTypeOK
  <2>1. /\ row[i] = "none" /\ row' = [row EXCEPT ![i] = "starting"]
        /\ game' = [game EXCEPT ![i] = "boot"] /\ reader' = [reader EXCEPT ![i] = "read"]
        /\ UNCHANGED <<entry, watchdog>>
        /\ inserting' = [inserting EXCEPT ![r] = i]
        /\ At(r, "start_spawn") /\ req' = [req EXCEPT ![r].pc = "start_insert"]
    BY DEF StartSpawn, StartSpawned, Spawn, SetRow, GameTo, ReaderTo, mapVars, Goto
  <2>2. inserting[r] = 0
    BY <2>1 DEF InsertingInv, At
  <2>3. InsertingInv'
    BY <2>1 DEF InsertingInv, At, ReqTypeOK, Instances
  <2>4. ReapedInv'
    BY <2>1 DEF ReapedInv
  <2>5. NoStrayProcess'
    BY <2>1, <2>2 DEF NoStrayProcess, Instances
  <2> QED
    BY <2>3, <2>4, <2>5
<1>3. ASSUME NEW r \in Requests, StartInsert(r)
      PROVE  InsertingInv' /\ ReapedInv' /\ NoStrayProcess'
  <2> USE <1>3 DEF StrayInv, TypeInv, ManagerTypeOK, OwnTypeOK
  <2> DEFINE i == inserting[r]
  <2>1. /\ entry' = [entry EXCEPT ![i] = "Starting"]
        /\ watchdog' = [watchdog EXCEPT ![i] = "on"]
        /\ UNCHANGED <<row, game, reader>>
        /\ inserting' = [inserting EXCEPT ![r] = 0]
        /\ req' = [req EXCEPT ![r] = Idle]
    BY DEF StartInsert, StartReturn, Insert, SetEntry, WatchdogTo, instVars, gameVars, Return
  <2>2. InsertingInv'
    BY <2>1 DEF InsertingInv, At, ReqTypeOK
  <2>3. ReapedInv'
    BY <2>1 DEF ReapedInv, InsertingInv, Instances
  <2>4. NoStrayProcess'
    BY <2>1 DEF NoStrayProcess
  <2> QED
    BY <2>2, <2>3, <2>4
<1>4. ASSUME NEW r \in Requests PROVE ~StartAbandon(r)
  BY DEF StartAbandon
<1> QED
  BY <1>1, <1>2, <1>3, <1>4 DEF Requesting, StartOn

\* What a step that starts nothing owes the invariant of each instance.
Harmless(j) ==
  /\ row[j] # "none" => row'[j] # "none"
  /\ entry'[j] = "none" /\ game'[j] \in Alive => entry[j] = "none" /\ game[j] \in Alive
  /\ watchdog'[j] # "off" => watchdog[j] # "off"
  /\ reader'[j] = "drop" \/ watchdog'[j] = "drop" => game'[j] \notin Alive

LEMMA HarmlessStep ==
  ASSUME StrayInv, req' = req, inserting' = inserting, \A j \in Instances : Harmless(j)
  PROVE  InsertingInv' /\ ReapedInv' /\ NoStrayProcess'
<1> USE DEF StrayInv, Harmless
<1>1. InsertingInv'
  BY DEF InsertingInv, At, TypeInv, OwnTypeOK
<1>2. ReapedInv'
  BY DEF ReapedInv
<1>3. NoStrayProcess'
  BY DEF NoStrayProcess
<1> QED
  BY <1>1, <1>2, <1>3

LEMMA RunHarmless ==
  ASSUME StrayInv, ManagerTasks \/ \E i \in Instances : GameOver(i), NEW j \in Instances
  PROVE  Harmless(j)
<1> USE DEF StrayInv, TypeInv, ManagerTypeOK, ReapedInv, Harmless, Active, Live, Alive, Die, GameTo,
            SetRow, SetEntry, ReaderTo, WatchdogTo, instVars, mapVars, gameVars, taskVars
<1>1. ASSUME NEW i \in Instances, Game(i) \/ GameOver(i) PROVE Harmless(j)
  <2>1. CASE GameReady(i) \/ GameStart(i)
    BY <2>1 DEF GameReady, GameStart, Runs
  <2>2. CASE GameStop(i) \/ GameExit(i) \/ GameStall(i)
    BY <2>2 DEF GameStop, GameExit, GameStall
  <2>3. CASE GameOver(i)
    BY <2>3 DEF GameOver, Runs
  <2> QED
    BY <1>1, <2>1, <2>2, <2>3 DEF Game
<1>2. ASSUME NEW i \in Instances, Reader(i) PROVE Harmless(j)
  <2>1. CASE OnReady(i)
    BY <2>1 DEF OnReady, Mark
  <2>2. CASE OnRunning(i) \/ OnShutdown(i)
    BY <2>2 DEF OnRunning, OnShutdown, Mark
  <2>3. CASE OnFinished(i)
    BY <2>3 DEF OnFinished, Mark
  <2>4. CASE OnReadyRoom(i) \/ OnFinishedRoom(i) \/ OnFinishedList(i) \/ OnFinishedPurge(i) \/ OnEofRoom(i)
    BY <2>4 DEF OnReadyRoom, OnFinishedRoom, OnFinishedList, OnFinishedPurge, OnEofRoom
  <2>5. CASE OnFinishedReap(i)
    BY <2>5 DEF OnFinishedReap
  <2>6. CASE OnFinishedDrop(i)
    BY <2>6 DEF OnFinishedDrop, DropEntry
  <2>7. CASE OnEof(i)
    BY <2>7 DEF OnEof
  <2> QED
    BY <1>2, <2>1, <2>2, <2>3, <2>4, <2>5, <2>6, <2>7 DEF Reader
<1>3. ASSUME NEW i \in Instances, Watchdog(i) PROVE Harmless(j)
  <2>1. CASE WatchdogEnd(i) \/ WatchdogRoom(i)
    BY <2>1 DEF WatchdogEnd, WatchdogRoom
  <2>2. CASE WatchdogFire(i)
    BY <2>2 DEF WatchdogFire
  <2>3. CASE WatchdogKill(i)
    BY <2>3 DEF WatchdogKill
  <2>4. CASE WatchdogDrop(i)
    BY <2>4 DEF WatchdogDrop, DropEntry
  <2> QED
    BY <1>3, <2>1, <2>2, <2>3, <2>4 DEF Watchdog
<1>4. ASSUME NEW i \in Instances, OnHeartbeat(i) \/ OnAction(i) \/ BeatLate(i) \/ TimeoutRoom(i)
      PROVE  Harmless(j)
  BY <1>4 DEF OnHeartbeat, OnAction, BeatLate, TimeoutRoom
<1>5. ASSUME NEW i \in Instances, TimeoutMark(i) PROVE Harmless(j)
  BY <1>5 DEF TimeoutMark
<1>6. ASSUME NEW c \in Stoppers, Stop(c) PROVE Harmless(j)
  <2>1. CASE StopGone(c) \/ StopRow(c) \/ StopRoom(c)
    BY <2>1 DEF StopGone, StopRow, StopRoom
  <2>2. CASE StopKill(c)
    BY <2>2 DEF StopKill, DropEntry
  <2> QED
    BY <1>6, <2>1, <2>2 DEF Stop
<1> QED
  BY <1>1, <1>2, <1>3, <1>4, <1>5, <1>6 DEF ManagerTasks, InstanceTasks

LEMMA StopBeginHarmless ==
  ASSUME StrayInv, NEW c \in Stoppers, NEW i \in Instances, StopBegin(c, i), NEW j \in Instances
  PROVE  Harmless(j)
  BY DEF StrayInv, TypeInv, ManagerTypeOK, ReapedInv, Harmless, StopBegin, SetEntry, instVars

LEMMA OthersStray ==
  ASSUME StrayInv, Manage \/ (\E i \in Instances : Finish(i)) \/ Sweep \/ GrowOld \/ Process
  PROVE  InsertingInv' /\ ReapedInv' /\ NoStrayProcess'
<1> DEFINE Kept == req' = req /\ inserting' = inserting /\ \A j \in Instances : Harmless(j)
<1> USE DEF managerVars, instVars, mapVars, gameVars, taskVars
<1>1. ASSUME UNCHANGED <<row, entry, game, reader, watchdog>> PROVE \A j \in Instances : Harmless(j)
  BY <1>1 DEF Harmless, StrayInv, ReapedInv
<1>2. CASE Manage \/ \E i \in Instances : Finish(i)
  <2>1. Kept
    BY <1>2, RunHarmless DEF Manage, Finish, Run, lobbyVars
  <2> QED
    BY <2>1, HarmlessStep
<1>3. CASE Sweep
  <2> USE DEF handlerVars
  <2>1. CASE \/ SweepRunningStuck \/ SweepWaitingStale \/ SweepList \/ SweepStopped
             \/ SweepMembers \/ SweepRoom \/ \E i \in Instances : SweepSkip(i)
    BY <1>1, <2>1, HarmlessStep
    DEF SweepRunningStuck, SweepWaitingStale, SweepList, SweepStopped, SweepMembers, SweepRoom, SweepSkip
  <2>2. ASSUME NEW i \in Instances, SweepStop(i) PROVE Kept
    BY <2>2, StopBeginHarmless, StoppersAssumption DEF SweepStop
  <2>3. CASE SweepRow
    <3>1. Kept
      BY <2>3 DEF SweepRow, SetRow, Harmless, StrayInv, TypeInv, ManagerTypeOK, ReapedInv
    <3> QED
      BY <3>1, HarmlessStep
  <2> QED
    BY <1>3, <2>1, <2>2, <2>3, HarmlessStep DEF Sweep
<1>4. CASE GrowOld
  <2>1. UNCHANGED <<row, entry, game, reader, watchdog>> /\ req' = req /\ inserting' = inserting
    BY <1>4 DEF GrowOld, Unviewed, lobbyVars, handlerVars
  <2> QED
    BY <1>1, <2>1, HarmlessStep
<1>5. CASE Process
  <2> USE DEF handlerVars
  <2>1. CASE Close \/ Drain \/ Boot \/ BootRooms
    BY <1>1, <2>1, HarmlessStep DEF Close, Drain, Boot, BootRooms
  <2>2. ASSUME NEW i \in Instances, DrainStop(i) PROVE Kept
    BY <1>1, <2>2, StopBeginHarmless, StoppersAssumption DEF DrainStop
  <2>3. CASE BootRows
    <3>1. Kept
      BY <2>3 DEF BootRows, Harmless, StrayInv, TypeInv, ManagerTypeOK, ReapedInv
    <3> QED
      BY <3>1, HarmlessStep
  <2>4. CASE Exit \/ Crash
    <3>1. \A i \in Instances : game'[i] \notin Alive
      BY <2>4 DEF Exit, Crash, Alive
    <3>2. (\A r \in Requests : inserting'[r] = 0) /\ \A i \in Instances : watchdog'[i] = "off"
      BY <2>4 DEF Exit, Crash, LoseMemory, MapReset
    <3> QED
      BY <3>1, <3>2 DEF InsertingInv, ReapedInv, NoStrayProcess
  <2> QED
    BY <1>5, <2>1, <2>2, <2>3, <2>4, HarmlessStep DEF Process
<1> QED
  BY <1>2, <1>3, <1>4, <1>5

LEMMA StrayInvStep ==
  "cancel" \notin Faults /\ StrayInv /\ ReqTypeOK /\ [Next]_vars => StrayInv'
<1> SUFFICES ASSUME "cancel" \notin Faults, StrayInv, ReqTypeOK, [Next]_vars PROVE StrayInv'
  OBVIOUS
<1>1. TypeInv'
  BY TypeInvStep DEF StrayInv
<1>2. InsertingInv' /\ ReapedInv' /\ NoStrayProcess'
  <2>1. CASE UNCHANGED vars
    BY <2>1, StrayUnchanged
    DEF vars, handlerVars, managerVars, instVars, mapVars, gameVars, taskVars, lobbyVars, At
  <2> QED
    BY <2>1, RequestingStray, OthersStray DEF Next
<1> QED
  BY <1>1, <1>2 DEF StrayInv

\* A game process that runs is always known to the manager, or about to be,
\* in every interleaving of readers, watchdogs, stops, cleanups, shutdowns
\* and crashes, unless a client hangs up on its start request.
THEOREM NoProcessIsStray ==
  ASSUME "cancel" \notin Faults
  PROVE  Spec => []NoStrayProcess
<1>1. Spec => []ReqTypeOK
  <2>1. RoomTypeOK => ReqTypeOK
    BY DEF RoomTypeOK
  <2> QED
    BY LobbyImplementsRoom, RoomTypeCorrect, <2>1, PTL
<1>2. StrayInv /\ ReqTypeOK /\ [Next]_vars => StrayInv'
  BY StrayInvStep
<1>3. StrayInv => NoStrayProcess
  BY DEF StrayInv
<1> QED
  BY InitStrayInv, <1>1, <1>2, <1>3, PTL DEF Spec
-----------------------------------------------------------------------------
(* The rows of the games that a lobby process left behind.                  *)

\* A process that nobody reaped has a row, and no reader follows one that a
\* crash put out of reach: nothing can make its row active again.
Unreaped == Alive \cup {"orphan"}

OrphanInv ==
  \A i \in Instances :
    /\ game[i] \in Unreaped => row[i] # "none"
    /\ game[i] = "orphan" => reader[i] = "none"

RowsInv == TypeInv /\ OrphanInv /\ OrphanRowsClosed

LEMMA InitRowsInv == LobbyInit => RowsInv
  BY InitTypeInv
  DEF LobbyInit, RowsInv, OrphanInv, OrphanRowsClosed, ManagerInit, Unreaped, Alive

\* What a step that starts no process and ends no lobby owes each instance.
KeepsRow(j) ==
  /\ row[j] # "none" => row'[j] # "none"
  /\ game'[j] \in Unreaped => game[j] \in Unreaped
  /\ game'[j] = "orphan" => game[j] = "orphan"
  /\ reader[j] = "none" => reader'[j] = "none"
  /\ row'[j] \in Active => row[j] \in Active \/ reader[j] = "read"

\* Only BootRows takes the lobby past its boot sweep.
Swept == life' \notin {"down", "boot_rows"} => life \notin {"down", "boot_rows"}

LEMMA KeepsRowStep ==
  ASSUME RowsInv, Swept, \A j \in Instances : KeepsRow(j)
  PROVE  OrphanInv' /\ OrphanRowsClosed'
<1>1. OrphanInv'
  BY DEF RowsInv, OrphanInv, KeepsRow
<1>2. OrphanRowsClosed'
  BY DEF RowsInv, OrphanInv, OrphanRowsClosed, KeepsRow, Swept
<1> QED
  BY <1>1, <1>2

LEMMA RunKeepsRow ==
  ASSUME TypeInv, ManagerTasks \/ \E i \in Instances : GameOver(i), NEW j \in Instances
  PROVE  KeepsRow(j)
<1> USE DEF TypeInv, ManagerTypeOK, KeepsRow, Active, Unreaped, Alive, Die, GameTo,
            SetRow, ReaderTo, ReaderLocked, instVars, mapVars, gameVars, taskVars
<1>1. ASSUME NEW i \in Instances, Game(i) \/ GameOver(i) PROVE KeepsRow(j)
  <2>1. CASE GameReady(i) \/ GameStart(i)
    BY <2>1 DEF GameReady, GameStart, Runs
  <2>2. CASE GameStop(i) \/ GameExit(i) \/ GameStall(i)
    BY <2>2 DEF GameStop, GameExit, GameStall, Runs
  <2>3. CASE GameOver(i)
    BY <2>3 DEF GameOver, Runs
  <2> QED
    BY <1>1, <2>1, <2>2, <2>3 DEF Game
<1>2. ASSUME NEW i \in Instances, Reader(i) PROVE KeepsRow(j)
  <2>1. CASE OnReady(i)
    BY <2>1 DEF OnReady, Reads
  <2>2. CASE OnRunning(i) \/ OnShutdown(i)
    BY <2>2 DEF OnRunning, OnShutdown, Reads
  <2>3. CASE OnFinished(i)
    BY <2>3 DEF OnFinished, Reads
  <2>4. CASE OnReadyRoom(i) \/ OnFinishedRoom(i) \/ OnFinishedList(i) \/ OnFinishedPurge(i) \/ OnEofRoom(i)
    BY <2>4 DEF OnReadyRoom, OnFinishedRoom, OnFinishedList, OnFinishedPurge, OnEofRoom
  <2>5. CASE OnFinishedReap(i)
    BY <2>5 DEF OnFinishedReap
  <2>6. CASE OnFinishedDrop(i)
    BY <2>6 DEF OnFinishedDrop, DropEntry
  <2>7. CASE OnEof(i)
    BY <2>7 DEF OnEof
  <2> QED
    BY <1>2, <2>1, <2>2, <2>3, <2>4, <2>5, <2>6, <2>7 DEF Reader
<1>3. ASSUME NEW i \in Instances, Watchdog(i) PROVE KeepsRow(j)
  <2>1. CASE WatchdogEnd(i) \/ WatchdogRoom(i) \/ WatchdogKill(i)
    BY <2>1 DEF WatchdogEnd, WatchdogRoom, WatchdogKill
  <2>2. CASE WatchdogFire(i) \/ WatchdogDrop(i)
    BY <2>2 DEF WatchdogFire, WatchdogDrop
  <2> QED
    BY <1>3, <2>1, <2>2 DEF Watchdog
<1>4. ASSUME NEW i \in Instances, OnHeartbeat(i) \/ OnAction(i) \/ BeatLate(i) \/ TimeoutRoom(i)
      PROVE  KeepsRow(j)
  BY <1>4 DEF OnHeartbeat, OnAction, BeatLate, TimeoutRoom
<1>5. ASSUME NEW i \in Instances, TimeoutMark(i) PROVE KeepsRow(j)
  BY <1>5 DEF TimeoutMark
<1>6. ASSUME NEW c \in Stoppers, Stop(c) PROVE KeepsRow(j)
  <2>1. CASE StopGone(c) \/ StopRow(c) \/ StopRoom(c)
    BY <2>1 DEF StopGone, StopRow, StopRoom
  <2>2. CASE StopKill(c)
    BY <2>2 DEF StopKill
  <2> QED
    BY <1>6, <2>1, <2>2 DEF Stop
<1> QED
  BY <1>1, <1>2, <1>3, <1>4, <1>5, <1>6 DEF ManagerTasks, InstanceTasks

\* A start inserts the row of a process that no reader followed before.
LEMMA StartRows ==
  ASSUME RowsInv, NEW r \in Requests, NEW i \in Instances, StartSpawn(r, i)
  PROVE  OrphanInv' /\ OrphanRowsClosed'
<1> USE DEF RowsInv, TypeInv, ManagerTypeOK, OrphanInv
<1>1. /\ row[i] = "none" /\ row' = [row EXCEPT ![i] = "starting"]
      /\ game' = [game EXCEPT ![i] = "boot"] /\ reader' = [reader EXCEPT ![i] = "read"]
      /\ life' = life
  BY DEF StartSpawn, Spawn, SetRow, GameTo, ReaderTo
<1>2. OrphanInv'
  BY <1>1
<1>3. OrphanRowsClosed'
  BY <1>1 DEF OrphanRowsClosed
<1> QED
  BY <1>2, <1>3

LEMMA OthersKeepRows ==
  ASSUME RowsInv,
         \/ Requesting /\ ~\E r \in Requests, i \in Instances : StartSpawn(r, i)
         \/ Manage \/ (\E i \in Instances : Finish(i)) \/ Sweep \/ GrowOld
  PROVE  Swept /\ \A j \in Instances : KeepsRow(j)
<1> USE DEF RowsInv, Swept, managerVars, instVars, mapVars, gameVars, taskVars, lobbyVars
<1>1. ASSUME UNCHANGED <<row, game, reader, life>> PROVE Swept /\ \A j \in Instances : KeepsRow(j)
  BY <1>1 DEF KeepsRow
<1>2. CASE Requesting /\ ~\E r \in Requests, i \in Instances : StartSpawn(r, i)
  <2>1. UNCHANGED <<row, game, reader, life>>
    BY <1>2 DEF Requesting, Take, Serve, HangUp, StartOn, StartInsert, Insert, StartAbandon
  <2> QED
    BY <1>1, <2>1
<1>3. CASE Manage \/ \E i \in Instances : Finish(i)
  BY <1>3, RunKeepsRow DEF Manage, Finish, Run
<1>4. CASE Sweep /\ ~SweepRow
  <2>1. UNCHANGED <<row, game, reader, life>>
    BY <1>4 DEF Sweep, SweepRunningStuck, SweepWaitingStale, SweepList, SweepStopped, SweepMembers,
                SweepRoom, SweepSkip, SweepStop, StopBegin
  <2> QED
    BY <1>1, <2>1
<1>5. CASE SweepRow
  BY <1>5 DEF SweepRow, SetRow, TypeInv, ManagerTypeOK, KeepsRow, Active
<1>6. CASE GrowOld
  BY <1>1, <1>6 DEF GrowOld
<1> QED
  BY <1>2, <1>3, <1>4, <1>5, <1>6

LEMMA ProcessRows ==
  ASSUME RowsInv, Process
  PROVE  OrphanInv' /\ OrphanRowsClosed'
<1> USE DEF RowsInv, LifeTo
<1>1. CASE Close \/ Drain \/ Boot \/ BootRooms \/ \E i \in Instances : DrainStop(i)
  <2>1. UNCHANGED <<row, game, reader>> /\ Swept
    BY <1>1 DEF Close, Drain, Boot, BootRooms, DrainStop, StopBegin, Swept,
                managerVars, instVars, mapVars, gameVars, taskVars
  <2>2. \A j \in Instances : KeepsRow(j)
    BY <2>1 DEF KeepsRow
  <2> QED
    BY <2>1, <2>2, KeepsRowStep
<1>2. CASE Exit \/ Crash
  <2>1. row' = row /\ life' = "down"
    BY <1>2 DEF Exit, Crash, LoseMemory, instVars
  <2>2. \A i \in Instances : reader'[i] = "none" /\ (game'[i] \in Unreaped => game[i] \in Unreaped)
    BY <1>2 DEF Exit, Crash, LoseMemory, MapReset, Unreaped, Alive
  <2> QED
    BY <2>1, <2>2 DEF OrphanInv, OrphanRowsClosed
<1>3. CASE BootRows
  <2>1. UNCHANGED <<game, reader>>
    BY <1>3 DEF BootRows, gameVars, taskVars
  <2>2. \A i \in Instances : row'[i] \notin Active /\ (row[i] # "none" => row'[i] # "none")
    BY <1>3 DEF BootRows, Active
  <2> QED
    BY <2>1, <2>2 DEF OrphanInv, OrphanRowsClosed
<1> QED
  BY <1>1, <1>2, <1>3 DEF Process

LEMMA RowsInvStep == RowsInv /\ [Next]_vars => RowsInv'
<1> SUFFICES ASSUME RowsInv, [Next]_vars PROVE RowsInv'
  OBVIOUS
<1>1. TypeInv'
  BY TypeInvStep DEF RowsInv
<1>2. OrphanInv' /\ OrphanRowsClosed'
  <2>1. CASE UNCHANGED vars
    BY <2>1 DEF vars, managerVars, instVars, gameVars, taskVars, lobbyVars,
                RowsInv, OrphanInv, OrphanRowsClosed
  <2> QED
    BY <2>1, StartRows, OthersKeepRows, KeepsRowStep, ProcessRows DEF Next
<1> QED
  BY <1>1, <1>2 DEF RowsInv

\* Once the boot sweep has run, the row of a game that outlived its lobby is
\* closed and stays closed, however often and wherever the lobby crashed.
THEOREM OrphansAreClosed == Spec => []OrphanRowsClosed
<1>1. RowsInv => OrphanRowsClosed
  BY DEF RowsInv
<1> QED
  BY InitRowsInv, RowsInvStep, <1>1, PTL DEF Spec
==============================================================================
