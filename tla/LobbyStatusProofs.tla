-------------------------- MODULE LobbyStatusProofs --------------------------
(***************************************************************************)
(* That the room's status fits its games, in one life of the lobby and     *)
(* between two ticks of its cleanup task, for any number of users,         *)
(* requests and games: who writes Running vouches for it with a row and an *)
(* entry until it writes something else, and who writes Starting has       *)
(* somebody at work who will write the next status.                        *)
(***************************************************************************)
EXTENDS LobbySafetyProofs

\* One life of the lobby, too short for the cleanup task to tick.
Undisturbed == CleanupEnabled = FALSE /\ MaxLives = 1

\* Games may die, not spawn, or lose their client; they are never late.
Punctual == Faults \subseteq {"exit", "spawn", "cancel"}

\* The lines that the reader of i has not taken yet.
Lines(i) == {out[i][n] : n \in DOMAIN out[i]}

\* No process is delayed, nothing is stopped, nothing times out.
Quiet ==
  /\ life = "up" /\ lives = 1 /\ timedOut = 0
  /\ \A c \in Stoppers : stopping[c].pc = "idle"

Calm(i) ==
  ~stalled[i] /\ beat[i] = "fresh" /\ "stop" \notin inbox[i] /\ "shutdown" \notin Lines(i)

\* Before its row an instance is nothing; with it, a process and a reader.
Known(i) ==
  IF row[i] = "none"
    THEN game[i] = "none" /\ entry[i] = "none" /\ reader[i] = "none" /\ watchdog[i] = "off"
    ELSE reader[i] # "none" /\ game[i] \in Alive \cup {"dead"}

\* The watchdog has given the instance up ...
Fired(i) == watchdog[i] \in {"room", "kill", "drop"}

\* ... which it does only when no ready line can come any more, because the
\* reader took it before the map had the entry, or the process died.
PastReady(i) == Fired(i) => game[i] # "boot" /\ "ready" \notin Lines(i)

\* Between the two writes of ready the instance is what the reader left.
ReadyHeld(i) ==
  reader[i] = "ready_room" => entry[i] \in {"none", "Ready"} /\ row[i] = "ready" /\ ~Fired(i)

Sound(i) == Calm(i) /\ Known(i) /\ PastReady(i) /\ ReadyHeld(i)

\* A start that is about to insert has an instance of its own with no entry.
Newcomers ==
  \A r \in Requests :
    /\ At(r, "start_insert") <=> inserting[r] # 0
    /\ inserting[r] # 0 => /\ row[inserting[r]] # "none" /\ entry[inserting[r]] = "none"
                           /\ \A q \in Requests \ {r} : inserting[q] # inserting[r]

GamesSound == Quiet /\ Newcomers /\ \A i \in Instances : Sound(i)

-----------------------------------------------------------------------------
(* The lines of a pipe. *)

LEMMA AppendLines ==
  ASSUME ManagerTypeOK, NEW i \in Instances, NEW e, Emit(i, e), e \in Events
  PROVE  Lines(i)' = Lines(i) \cup {e}
<1> DEFINE s == out[i]
<1>1. s \in Seq(Events) /\ out'[i] = Append(s, e)
  BY DEF ManagerTypeOK, Emit
<1>2. DOMAIN out'[i] = DOMAIN s \cup {Len(s) + 1} /\ out'[i][Len(s) + 1] = e
      /\ \A n \in DOMAIN s : out'[i][n] = s[n]
  BY <1>1
<1> QED
  BY <1>2 DEF Lines

LEMMA TailLines ==
  ASSUME ManagerTypeOK, NEW i \in Instances, NEW e, Reads(i, e)
  PROVE  Lines(i)' \subseteq Lines(i) /\ e \in Lines(i)
<1> DEFINE s == out[i]
<1>1. s \in Seq(Events) /\ s # <<>> /\ Head(s) = e /\ out'[i] = Tail(s)
  BY DEF ManagerTypeOK, Reads
<1>2. Len(s) \in Nat \ {0} /\ DOMAIN s = 1 .. Len(s) /\ s[1] = e
  BY <1>1
<1>3. DOMAIN Tail(s) = 1 .. Len(s) - 1 /\ \A n \in 1 .. Len(s) - 1 : Tail(s)[n] = s[n + 1]
  BY <1>1
<1> QED
  BY <1>1, <1>2, <1>3 DEF Lines

LEMMA SameLines ==
  ASSUME NEW i, out'[i] = out[i] PROVE Lines(i)' = Lines(i)
  BY DEF Lines

LEMMA NoLines ==
  ASSUME NEW i PROVE (out[i] = <<>> => Lines(i) = {}) /\ (out'[i] = <<>> => Lines(i)' = {})
  BY DEF Lines

-----------------------------------------------------------------------------
(* The steps that are left. *)

\* What may happen to instance i: no stall, no timeout, no stop.
Working(i) ==
  \/ GameReady(i) \/ GameStart(i) \/ GameExit(i)
  \/ Reader(i) \/ OnHeartbeat(i) \/ OnAction(i) \/ Watchdog(i)

Works(i) == Run(Working(i)) \/ Finish(i)

LEMMA StepsLeft ==
  ASSUME Undisturbed, Punctual, TypeInv, GamesSound, [Next]_vars
  PROVE  UNCHANGED vars \/ Requesting \/ \E i \in Instances : Works(i)
<1> USE DEF Undisturbed, Punctual, TypeInv, OwnTypeOK, GamesSound, Quiet, Sound, Calm
<1>1. ~Sweep /\ ~GrowOld
  BY DEF Sweep, GrowOld
<1>2. ~Process
  BY DEF Process, Close, Drain, DrainStop, Exit, Crash, Boot, BootRows, BootRooms
<1>3. ASSUME NEW c \in Stoppers PROVE ~Stop(c)
  BY DEF Stop, StopGone, StopKill, StopRow, StopRoom
<1>4. ASSUME NEW i \in Instances
      PROVE  ~(GameStop(i) \/ GameStall(i) \/ BeatLate(i) \/ TimeoutMark(i) \/ TimeoutRoom(i))
  BY DEF GameStop, GameStall, BeatLate, TimeoutMark, TimeoutRoom, Instances
<1>5. Manage => \E i \in Instances : Works(i)
  <2> SUFFICES ASSUME Manage PROVE \E i \in Instances : Works(i)
    OBVIOUS
  <2>1. PICK i \in Instances : Game(i) \/ InstanceTasks(i)
    BY <1>3 DEF Manage, Run, ManagerTasks
  <2>2. Working(i)
    BY <1>4, <2>1 DEF Game, InstanceTasks, Working
  <2> QED
    BY <2>2 DEF Manage, Run, Works
<1> QED
  BY <1>1, <1>2, <1>5 DEF Next, Works

\* A step at instance i leaves the other instances alone.
Elsewhere(i) ==
  \A j \in Instances \ {i} :
    /\ row'[j] = row[j] /\ entry'[j] = entry[j] /\ beat'[j] = beat[j] /\ game'[j] = game[j]
    /\ stalled'[j] = stalled[j] /\ out'[j] = out[j] /\ inbox'[j] = inbox[j]
    /\ reader'[j] = reader[j] /\ watchdog'[j] = watchdog[j]

LEMMA WorksAlone ==
  ASSUME TypeInv, NEW i \in Instances, Works(i)
  PROVE  Elsewhere(i)
<1> USE DEF TypeInv, ManagerTypeOK, Elsewhere, GameTo, Emit, Die, SetRow, SetEntry, Mark, ReaderTo, WatchdogTo,
            Reads, Send, DropEntry, instVars, mapVars, gameVars, taskVars
<1>1. CASE GameReady(i) \/ GameStart(i)
  BY <1>1 DEF GameReady, GameStart
<1>2. CASE GameExit(i) \/ GameOver(i)
  BY <1>2 DEF GameExit, GameOver
<1>3. CASE OnReady(i) \/ OnReadyRoom(i)
  BY <1>3 DEF OnReady, OnReadyRoom
<1>4. CASE OnRunning(i) \/ OnFinished(i) \/ OnShutdown(i)
  BY <1>4 DEF OnRunning, OnFinished, OnShutdown
<1>5. CASE OnFinishedRoom(i) \/ OnFinishedList(i) \/ OnFinishedPurge(i)
  BY <1>5 DEF OnFinishedRoom, OnFinishedList, OnFinishedPurge
<1>6. CASE OnFinishedReap(i) \/ OnFinishedDrop(i)
  BY <1>6 DEF OnFinishedReap, OnFinishedDrop
<1>7. CASE OnEof(i)
  BY <1>7 DEF OnEof
<1>8. CASE OnEofRoom(i) \/ OnHeartbeat(i) \/ OnAction(i)
  BY <1>8 DEF OnEofRoom, OnHeartbeat, OnAction
<1>9. CASE Watchdog(i)
  BY <1>9 DEF Watchdog, WatchdogEnd, WatchdogFire, WatchdogRoom, WatchdogKill, WatchdogDrop
<1> QED
  BY <1>1, <1>2, <1>3, <1>4, <1>5, <1>6, <1>7, <1>8, <1>9 DEF Works, Run, Finish, Working, Reader

\* Every step at an instance leaves it sound.
LEMMA GameSound ==
  ASSUME TypeInv, NEW i \in Instances, Sound(i), GameReady(i) \/ GameStart(i) \/ GameExit(i) \/ GameOver(i)
  PROVE  Sound(i)'
<1> USE DEF TypeInv, ManagerTypeOK, Sound, Calm, Known, Fired, PastReady, ReadyHeld, Alive, GameTo, Die, Runs,
            instVars, mapVars, gameVars, taskVars
<1>1. CASE GameReady(i)
  <2>1. Lines(i)' = Lines(i) \cup {"ready"}
    BY <1>1, AppendLines DEF GameReady, Events
  <2> QED
    BY <1>1, <2>1 DEF GameReady
<1>2. CASE GameStart(i)
  <2>1. Lines(i)' = Lines(i) \cup {"running"}
    BY <1>2, AppendLines DEF GameStart, Events
  <2> QED
    BY <1>2, <2>1 DEF GameStart
<1>3. CASE GameExit(i)
  BY <1>3, SameLines DEF GameExit
<1>4. CASE GameOver(i)
  <2>1. Lines(i)' = Lines(i) \cup {"finished"}
    BY <1>4, AppendLines DEF GameOver, Events
  <2> QED
    BY <1>4, <2>1 DEF GameOver
<1> QED
  BY <1>1, <1>2, <1>3, <1>4

LEMMA ReaderSound ==
  ASSUME TypeInv, NEW i \in Instances, Sound(i), Reader(i) \/ OnHeartbeat(i) \/ OnAction(i)
  PROVE  Sound(i)'
<1> USE DEF TypeInv, ManagerTypeOK, Sound, Calm, Known, Fired, PastReady, ReadyHeld, Die, GameTo,
            SetRow, SetEntry, ReaderTo, Mark, DropEntry, Live, instVars, mapVars, gameVars, taskVars
<1>1. CASE OnReady(i)
  <2>1. Lines(i)' \subseteq Lines(i) /\ "ready" \in Lines(i)
    BY <1>1, TailLines DEF OnReady
  <2> QED
    BY <1>1, <2>1 DEF OnReady, Reads
<1>2. CASE OnReadyRoom(i)
  BY <1>2, SameLines DEF OnReadyRoom, Send
<1>3. CASE OnRunning(i)
  <2>1. Lines(i)' \subseteq Lines(i)
    BY <1>3, TailLines DEF OnRunning
  <2> QED
    BY <1>3, <2>1 DEF OnRunning, Reads
<1>4. CASE OnFinished(i)
  <2>1. Lines(i)' \subseteq Lines(i)
    BY <1>4, TailLines DEF OnFinished
  <2> QED
    BY <1>4, <2>1 DEF OnFinished, Reads
<1>5. CASE OnFinishedRoom(i) \/ OnFinishedList(i) \/ OnFinishedPurge(i)
  <2>1. UNCHANGED <<row, entry, beat, game, stalled, out, inbox, watchdog>> /\ Lines(i)' = Lines(i)
    BY <1>5, SameLines DEF OnFinishedRoom, OnFinishedList, OnFinishedPurge
  <2>2. reader[i] # "none" /\ reader'[i] \notin {"none", "ready_room"}
    BY <1>5 DEF OnFinishedRoom, OnFinishedList, OnFinishedPurge
  <2> QED
    BY <2>1, <2>2
<1>6. CASE OnFinishedReap(i)
  BY <1>6, NoLines DEF OnFinishedReap
<1>7. CASE OnFinishedDrop(i)
  BY <1>7, SameLines DEF OnFinishedDrop
<1>8. ~OnShutdown(i)
  BY TailLines DEF OnShutdown
<1>9. CASE OnEof(i)
  <2>1. CASE entry[i] \in Live
    BY <1>9, <2>1, SameLines DEF OnEof
  <2>2. CASE entry[i] \notin Live
    BY <1>9, <2>2, SameLines DEF OnEof
  <2> QED
    BY <2>1, <2>2
<1>10. CASE OnEofRoom(i)
  BY <1>10, SameLines DEF OnEofRoom
<1>11. CASE OnHeartbeat(i) \/ OnAction(i)
  <2>1. UNCHANGED <<row, entry, game, stalled, out, inbox, reader, watchdog>> /\ Lines(i)' = Lines(i)
    BY <1>11, SameLines DEF OnHeartbeat, OnAction
  <2>2. beat'[i] = "fresh"
    BY <1>11 DEF OnHeartbeat, OnAction
  <2> QED
    BY <2>1, <2>2
<1> QED
  BY <1>1, <1>2, <1>3, <1>4, <1>5, <1>6, <1>7, <1>8, <1>9, <1>10, <1>11 DEF Reader

LEMMA WatchdogSound ==
  ASSUME Punctual, TypeInv, NEW i \in Instances, Sound(i), Watchdog(i)
  PROVE  Sound(i)'
<1> USE DEF TypeInv, ManagerTypeOK, Sound, Calm, Known, Fired, PastReady, ReadyHeld, Die, GameTo,
            SetRow, SetEntry, WatchdogTo, DropEntry, ReaderLocked, instVars, mapVars, gameVars, taskVars
<1>1. CASE WatchdogEnd(i)
  BY <1>1, SameLines DEF WatchdogEnd
<1>2. CASE WatchdogRoom(i)
  BY <1>2, SameLines DEF WatchdogRoom
<1>3. CASE WatchdogFire(i)
  <2>1. out[i] = <<>> /\ game[i] # "boot"
    BY <1>3 DEF WatchdogFire, Punctual
  <2>2. Lines(i)' = {} /\ reader[i] # "ready_room"
    BY <1>3, <2>1, NoLines, SameLines DEF WatchdogFire, LockFree
  <2> QED
    BY <1>3, <2>1, <2>2 DEF WatchdogFire
<1>4. CASE WatchdogKill(i)
  BY <1>4, SameLines DEF WatchdogKill
<1>5. CASE WatchdogDrop(i)
  BY <1>5, SameLines DEF WatchdogDrop
<1> QED
  BY <1>1, <1>2, <1>3, <1>4, <1>5 DEF Watchdog

-----------------------------------------------------------------------------
(* The steps of requests. *)

\* Requests touch an instance only to start it and to put it in the map.
LEMMA RequestingSound ==
  ASSUME TypeInv, GamesSound, Requesting, NEW i \in Instances
  PROVE  Sound(i)'
<1> USE DEF TypeInv, ManagerTypeOK, OwnTypeOK, GamesSound, Sound, Calm, Known, Fired, PastReady, ReadyHeld
<1>1. CASE UNCHANGED managerVars
  BY <1>1, SameLines DEF managerVars, instVars, mapVars, gameVars, taskVars
<1>2. ASSUME NEW r \in Requests, NEW k \in Instances, StartSpawn(r, k) PROVE Sound(i)'
  BY <1>2, SameLines DEF StartSpawn, Spawn, SetRow, GameTo, ReaderTo, mapVars, Alive
<1>3. ASSUME NEW r \in Requests, StartInsert(r) PROVE Sound(i)'
  <2>1. LockFree /\ entry' = [entry EXCEPT ![inserting[r]] = "Starting"]
        /\ beat' = [beat EXCEPT ![inserting[r]] = "fresh"]
        /\ watchdog' = [watchdog EXCEPT ![inserting[r]] = "on"]
        /\ UNCHANGED <<row, game, stalled, out, inbox, reader>> /\ At(r, "start_insert")
    BY <1>3 DEF StartInsert, StartReturn, Insert, SetEntry, WatchdogTo, instVars, gameVars
  <2>2. inserting[r] \in Instances /\ row[inserting[r]] # "none"
    BY <2>1 DEF Newcomers
  <2>3. reader[i] # "ready_room" /\ Lines(i)' = Lines(i)
    BY <2>1, SameLines DEF LockFree, ReaderLocked
  <2> QED
    BY <2>1, <2>2, <2>3
<1> QED
  BY <1>1, <1>2, <1>3 DEF Requesting, Take, Serve, HangUp, StartOn, StartAbandon, managerVars

\* Only StartSpawn takes a request to start_insert.
LEMMA InsertersCome ==
  ASSUME NEW r \in Requests, Arrive \/ \E q \in Requests : Proceed(q) \/ Cancel(q),
         At(r, "start_insert")', ReqTypeOK
  PROVE  At(r, "start_insert")
<1> USE DEF At, ReqTypeOK, roomVars, Idle
<1>1. CASE Arrive
  BY <1>1 DEF Arrive, Create, Join, View, LeaveRead, StartRead
<1>2. ASSUME NEW q \in Requests, Proceed(q) PROVE At(r, "start_insert")
  BY <1>2 DEF Proceed, LeaveDelete, LeaveSelect, LeaveDestroy, LeavePromote, StartTokens, StartMark,
              StartFail, Rollback, Goto, Return
<1>3. ASSUME NEW q \in Requests, Cancel(q) PROVE At(r, "start_insert")
  BY <1>3 DEF Cancel, Return
<1> QED
  BY <1>1, <1>2, <1>3

LEMMA RequestingNewcomers ==
  ASSUME TypeInv, ReqTypeOK, GamesSound, Requesting
  PROVE  Newcomers'
<1> USE DEF TypeInv, ManagerTypeOK, OwnTypeOK, GamesSound, ReqTypeOK
<1>1. CASE Take \/ \E r \in Requests : Serve(r) \/ HangUp(r)
  <2>1. \A r \in Requests : At(r, "start_insert") <=> At(r, "start_insert")'
    BY <1>1, InsertersStay, InsertersCome DEF Take, Serve, HangUp
  <2>2. UNCHANGED <<row, entry, inserting>>
    BY <1>1 DEF Take, Serve, HangUp, managerVars, instVars, mapVars, lobbyVars
  <2> QED
    BY <2>1, <2>2 DEF Newcomers
<1>2. ASSUME NEW r \in Requests, NEW i \in Instances, StartSpawn(r, i) PROVE Newcomers'
  <2>1. /\ row[i] = "none" /\ row' = [row EXCEPT ![i] = "starting"] /\ entry' = entry
        /\ inserting' = [inserting EXCEPT ![r] = i]
        /\ req' = [req EXCEPT ![r].pc = "start_insert"]
    BY <1>2 DEF StartSpawn, StartSpawned, Spawn, SetRow, mapVars, Goto
  <2>2. entry[i] = "none" /\ i # 0
    BY <2>1 DEF Sound, Known, Instances
  <2> QED
    BY <2>1, <2>2 DEF Newcomers, At
<1>3. ASSUME NEW r \in Requests, StartInsert(r) PROVE Newcomers'
  <2>1. /\ entry' = [entry EXCEPT ![inserting[r]] = "Starting"] /\ row' = row
        /\ inserting' = [inserting EXCEPT ![r] = 0]
        /\ req' = [req EXCEPT ![r] = Idle]
    BY <1>3 DEF StartInsert, StartReturn, Insert, SetEntry, instVars, Return
  <2> QED
    BY <2>1 DEF Newcomers, At, Idle
<1>4. ASSUME NEW r \in Requests, StartAbandon(r) PROVE Newcomers'
  <2>1. /\ UNCHANGED <<entry, row>>
        /\ inserting' = [inserting EXCEPT ![r] = 0]
        /\ req' = [req EXCEPT ![r] = Idle]
    BY <1>4 DEF StartAbandon, StartReturn, managerVars, instVars, mapVars, Return
  <2> QED
    BY <2>1 DEF Newcomers, At, Idle
<1> QED
  BY <1>1, <1>2, <1>3, <1>4 DEF Requesting, StartOn

\* No step at an instance takes its row away or gives it an entry.
LEMMA WorksNewcomers ==
  ASSUME TypeInv, NEW i \in Instances, GamesSound, Works(i), Sound(i)'
  PROVE  Newcomers'
<1> USE DEF TypeInv, ManagerTypeOK, OwnTypeOK
<1>1. entry[i] = "none" => entry'[i] = "none"
  <2> USE DEF Mark, SetEntry, DropEntry, mapVars
  <2>1. CASE Reader(i)
    BY <2>1 DEF Reader, OnReady, OnReadyRoom, OnRunning, OnFinished, OnFinishedRoom, OnFinishedList,
                OnFinishedPurge, OnFinishedReap, OnFinishedDrop, OnShutdown, OnEof, OnEofRoom, Live
  <2>2. CASE Watchdog(i)
    BY <2>2 DEF Watchdog, WatchdogEnd, WatchdogFire, WatchdogRoom, WatchdogKill, WatchdogDrop
  <2>3. CASE GameReady(i) \/ GameStart(i) \/ GameExit(i) \/ GameOver(i) \/ OnHeartbeat(i) \/ OnAction(i)
    BY <2>3 DEF GameReady, GameStart, GameExit, GameOver, OnHeartbeat, OnAction
  <2> QED
    BY <2>1, <2>2, <2>3 DEF Works, Run, Finish, Working
<1>2. row[i] # "none" => row'[i] # "none"
  <2> USE DEF SetRow, instVars
  <2>1. CASE Reader(i)
    BY <2>1 DEF Reader, OnReady, OnReadyRoom, OnRunning, OnFinished, OnFinishedRoom, OnFinishedList,
                OnFinishedPurge, OnFinishedReap, OnFinishedDrop, OnShutdown, OnEof, OnEofRoom
  <2>2. CASE Watchdog(i)
    BY <2>2 DEF Watchdog, WatchdogEnd, WatchdogFire, WatchdogRoom, WatchdogKill, WatchdogDrop
  <2>3. CASE GameReady(i) \/ GameStart(i) \/ GameExit(i) \/ GameOver(i) \/ OnHeartbeat(i) \/ OnAction(i)
    BY <2>3 DEF GameReady, GameStart, GameExit, GameOver, OnHeartbeat, OnAction
  <2> QED
    BY <2>1, <2>2, <2>3 DEF Works, Run, Finish, Working
<1>3. UNCHANGED <<req, inserting>>
  BY DEF Works, Run, Finish, lobbyVars
<1> QED
  BY <1>1, <1>2, <1>3, WorksAlone DEF GamesSound, Newcomers, At, Elsewhere

LEMMA InitGamesSound == LobbyInit => GamesSound
<1> SUFFICES ASSUME LobbyInit PROVE GamesSound
  OBVIOUS
<1>1. \A i \in Instances : Lines(i) = {}
  BY NoLines DEF LobbyInit, ManagerInit
<1>2. Quiet
  BY DEF LobbyInit, ManagerInit, MapInit, NotStopping, Quiet
<1>3. Newcomers
  BY DEF LobbyInit, RoomInit, ReqInit, Idle, Newcomers, At
<1>4. \A i \in Instances : Sound(i)
  BY <1>1 DEF LobbyInit, ManagerInit, MapInit, Sound, Calm, Known, Fired, PastReady, ReadyHeld
<1> QED
  BY <1>2, <1>3, <1>4 DEF GamesSound

LEMMA GamesSoundStep ==
  ASSUME Undisturbed, Punctual, TypeInv, ReqTypeOK, GamesSound, [Next]_vars
  PROVE  GamesSound'
<1>1. CASE UNCHANGED vars
  <2>1. UNCHANGED <<req, managerVars, lobbyVars>>
    BY <1>1 DEF vars, handlerVars
  <2> QED
    BY <2>1, SameLines DEF managerVars, instVars, mapVars, gameVars, taskVars, lobbyVars, GamesSound, Quiet,
                Newcomers, At, Sound, Calm, Known, Fired, PastReady, ReadyHeld
<1>2. CASE Requesting
  <2>1. Quiet'
    BY <1>2 DEF GamesSound, Quiet, Requesting, Take, Serve, HangUp, StartOn, StartSpawn, Spawn, StartInsert,
                Insert, StartAbandon, managerVars, taskVars, lobbyVars
  <2> QED
    BY <1>2, <2>1, RequestingSound, RequestingNewcomers DEF GamesSound
<1>3. ASSUME NEW i \in Instances, Works(i) PROVE GamesSound'
  <2>1. Sound(i)'
    BY <1>3, GameSound, ReaderSound, WatchdogSound DEF GamesSound, Works, Run, Finish, Working
  <2>2. ASSUME NEW j \in Instances \ {i} PROVE Sound(j)'
    BY <1>3, <2>2, WorksAlone, SameLines
    DEF GamesSound, Elsewhere, Sound, Calm, Known, Fired, PastReady, ReadyHeld
  <2>3. UNCHANGED <<timedOut, stopping>>
    <3>1. CASE Reader(i)
      BY <3>1 DEF Reader, OnReady, OnReadyRoom, OnRunning, OnFinished, OnFinishedRoom, OnFinishedList,
                  OnFinishedPurge, OnFinishedReap, OnFinishedDrop, OnShutdown, OnEof, OnEofRoom, taskVars
    <3>2. CASE Watchdog(i)
      BY <3>2 DEF Watchdog, WatchdogEnd, WatchdogFire, WatchdogRoom, WatchdogKill, WatchdogDrop
    <3>3. CASE GameReady(i) \/ GameStart(i) \/ GameExit(i) \/ GameOver(i) \/ OnHeartbeat(i) \/ OnAction(i)
      BY <3>3 DEF GameReady, GameStart, GameExit, GameOver, OnHeartbeat, OnAction, taskVars
    <3> QED
      BY <1>3, <3>1, <3>2, <3>3 DEF Works, Run, Finish, Working
  <2>4. Quiet'
    BY <1>3, <2>3 DEF GamesSound, Quiet, Works, Run, Finish, lobbyVars
  <2> QED
    BY <1>3, <2>1, <2>2, <2>4, WorksNewcomers DEF GamesSound
<1> QED
  BY <1>1, <1>2, <1>3, StepsLeft

-----------------------------------------------------------------------------
(* A Running room. *)

\* Instance i vouches for a Running room: its row is active, and its entry
\* stays until its reader has seen how it ends ...
Keeper(i) ==
  /\ entry[i] \in {"Ready", "Running"} /\ row[i] \in Active
  /\ reader[i] \in {"read", "ready_room"} /\ ~Fired(i)

\* ... and is about to write what becomes of the room.
Ender(i) == reader[i] = "eof_room" \/ (reader[i] = "finish_room" /\ entry[i] # "none")

Vouches(i) == Keeper(i) \/ Ender(i)

RunningKept == roomStatus = "Running" => \E i \in Instances : Vouches(i)

RunningInv == GamesSound /\ RunningKept

\* An instance that becomes or is a voucher stays one until the status is
\* overwritten.
LEMMA VoucherStays ==
  ASSUME Punctual, TypeInv, NEW i \in Instances, GamesSound, Works(i),
         Vouches(i), roomStatus' = "Running"
  PROVE  Vouches(i)'
<1> USE DEF TypeInv, ManagerTypeOK, Vouches, Keeper, Ender, Fired, instVars, mapVars, taskVars
<1>1. CASE GameReady(i) \/ GameStart(i) \/ GameExit(i) \/ GameOver(i) \/ OnHeartbeat(i) \/ OnAction(i)
  BY <1>1 DEF GameReady, GameStart, GameExit, GameOver, OnHeartbeat, OnAction
<1>2. CASE OnReady(i)
  BY <1>2 DEF OnReady, Reads, Mark, SetRow, ReaderTo, Active
<1>3. CASE OnReadyRoom(i)
  BY <1>3 DEF OnReadyRoom, ReaderTo
<1>4. CASE OnRunning(i)
  BY <1>4 DEF OnRunning, Reads, Mark, SetRow, Active
<1>5. CASE OnFinished(i)
  BY <1>5 DEF OnFinished, Reads, Mark, ReaderTo
<1>6. CASE OnFinishedRoom(i)
  BY <1>6 DEF OnFinishedRoom, SetRoomOf, SetStatus
<1>7. CASE OnFinishedList(i) \/ OnFinishedPurge(i) \/ OnFinishedReap(i) \/ OnFinishedDrop(i)
  BY <1>7 DEF OnFinishedList, OnFinishedPurge, OnFinishedReap, OnFinishedDrop
<1>8. ~OnShutdown(i)
  BY TailLines DEF OnShutdown, GamesSound, Sound, Calm
<1>9. CASE OnEof(i)
  BY <1>9 DEF OnEof, ReaderTo, Live
<1>10. ~OnEofRoom(i)
  BY DEF OnEofRoom, SetStatus
<1>11. CASE WatchdogEnd(i)
  BY <1>11 DEF WatchdogEnd, WatchdogTo
<1>12. CASE WatchdogFire(i)
  BY <1>12 DEF WatchdogFire, LockFree, ReaderLocked
<1>13. ~WatchdogRoom(i)
  BY DEF WatchdogRoom, SetStatus
<1>14. CASE WatchdogKill(i) \/ WatchdogDrop(i)
  BY <1>14 DEF WatchdogKill, WatchdogDrop, LockFree, ReaderLocked
<1> QED
  BY <1>1, <1>2, <1>3, <1>4, <1>5, <1>6, <1>7, <1>8, <1>9, <1>10, <1>11, <1>12, <1>13, <1>14
  DEF Works, Run, Finish, Working, Reader, Watchdog

\* Of all steps at an instance, only the second write of ready makes a room
\* Running, and the instance vouches for it.
LEMMA VoucherComes ==
  ASSUME TypeInv, NEW i \in Instances, GamesSound, Works(i), roomStatus' = "Running", roomStatus # "Running"
  PROVE  Keeper(i)'
<1> USE DEF SetStatus, SetRoomOf, roomVars
<1>1. OnReadyRoom(i)
  <2>1. ~(GameReady(i) \/ GameStart(i) \/ GameExit(i) \/ GameOver(i) \/ OnHeartbeat(i) \/ OnAction(i))
    BY DEF GameReady, GameStart, GameExit, GameOver, OnHeartbeat, OnAction
  <2>2. ~Watchdog(i)
    BY DEF Watchdog, WatchdogEnd, WatchdogFire, WatchdogRoom, WatchdogKill, WatchdogDrop
  <2>3. Reader(i) => OnReadyRoom(i)
    BY DEF Reader, OnReady, OnRunning, OnFinished, OnFinishedRoom, OnFinishedList, OnFinishedPurge,
           OnFinishedReap, OnFinishedDrop, OnShutdown, OnEof, OnEofRoom
  <2> QED
    BY <2>1, <2>2, <2>3 DEF Works, Run, Finish, Working
<1>2. entry[i] = "Ready" /\ row[i] = "ready" /\ ~Fired(i)
  BY <1>1 DEF OnReadyRoom, GamesSound, Sound, ReadyHeld
<1> QED
  BY <1>1, <1>2 DEF OnReadyRoom, ReaderTo, instVars, mapVars, Keeper, Fired, Active, TypeInv, ManagerTypeOK

\* A request neither makes a room Running nor touches what vouches for it.
LEMMA RequestingRunning ==
  ASSUME TypeInv, GamesSound, Requesting, roomStatus' = "Running"
  PROVE  /\ roomStatus = "Running"
         /\ \A i \in Instances : Vouches(i) => Vouches(i)'
<1> USE DEF TypeInv, ManagerTypeOK, GamesSound, Vouches, Keeper, Ender, Fired, SetStatus, roomVars
<1>1. CASE UNCHANGED managerVars
  <2>1. roomStatus = "Running"
    <3>1. ~\E r \in Requests : StartMark(r) \/ Rollback(r) \/ LeaveDestroy(r)
      BY DEF StartMark, Rollback, LeaveDestroy
    <3> QED
      BY <1>1, <3>1 DEF Requesting, Take, Arrive, Create, Join, View, LeaveRead, StartRead, Serve, Proceed, HangUp,
           Cancel, LeaveDelete, LeaveSelect, LeavePromote, StartTokens, StartFail, StartOn, StartSpawn,
           StartSpawned, StartInsert, StartReturn, StartAbandon
  <2> QED
    BY <1>1, <2>1 DEF managerVars, instVars, mapVars, taskVars
<1>2. ASSUME NEW r \in Requests, NEW k \in Instances, StartSpawn(r, k)
      PROVE  roomStatus = "Running" /\ \A i \in Instances : Vouches(i) => Vouches(i)'
  <2>1. /\ row[k] = "none" /\ row' = [row EXCEPT ![k] = "starting"] /\ UNCHANGED <<entry, watchdog>>
        /\ reader' = [reader EXCEPT ![k] = "read"] /\ roomStatus' = roomStatus
    BY <1>2 DEF StartSpawn, StartSpawned, Spawn, SetRow, ReaderTo, mapVars
  <2>2. ~Vouches(k)
    BY <2>1 DEF Sound, Known
  <2> QED
    BY <2>1, <2>2
<1>3. ASSUME NEW r \in Requests, StartInsert(r)
      PROVE  roomStatus = "Running" /\ \A i \in Instances : Vouches(i) => Vouches(i)'
  <2>1. /\ LockFree /\ entry' = [entry EXCEPT ![inserting[r]] = "Starting"] /\ UNCHANGED <<row, reader>>
        /\ watchdog' = [watchdog EXCEPT ![inserting[r]] = "on"] /\ At(r, "start_insert")
        /\ roomStatus' = roomStatus
    BY <1>3 DEF StartInsert, StartReturn, Insert, SetEntry, WatchdogTo, instVars
  <2>2. entry[inserting[r]] = "none"
    BY <2>1 DEF Newcomers
  <2>3. \A i \in Instances : Vouches(i) => i # inserting[r]
    BY <2>1, <2>2 DEF LockFree, ReaderLocked
  <2> QED
    BY <2>1, <2>3
<1> QED
  BY <1>1, <1>2, <1>3 DEF Requesting, Take, Serve, HangUp, StartOn, StartAbandon, managerVars

LEMMA RunningKeptStep ==
  ASSUME Undisturbed, Punctual, TypeInv, RunningInv, [Next]_vars
  PROVE  RunningKept'
<1> USE DEF RunningInv
<1> SUFFICES ASSUME roomStatus' = "Running" PROVE \E i \in Instances : Vouches(i)'
  BY DEF RunningKept
<1>1. CASE UNCHANGED vars
  BY <1>1 DEF vars, handlerVars, roomVars, managerVars, instVars, mapVars, taskVars,
              RunningKept, Vouches, Keeper, Ender, Fired
<1>2. CASE Requesting
  BY <1>2, RequestingRunning DEF RunningKept
<1>3. ASSUME NEW i \in Instances, Works(i) PROVE \E j \in Instances : Vouches(j)'
  <2>1. CASE roomStatus = "Running"
    <3>1. PICK j \in Instances : Vouches(j)
      BY <2>1 DEF RunningKept
    <3>2. CASE j = i
      BY <1>3, <3>1, <3>2, VoucherStays
    <3>3. CASE j # i
      BY <1>3, <3>1, <3>3, WorksAlone DEF Elsewhere, Vouches, Keeper, Ender, Fired
    <3> QED
      BY <3>2, <3>3
  <2>2. CASE roomStatus # "Running"
    BY <1>3, <2>2, VoucherComes DEF Vouches
  <2> QED
    BY <2>1, <2>2
<1> QED
  BY <1>1, <1>2, <1>3, StepsLeft

LEMMA RunningInvariant ==
  ASSUME Undisturbed, Punctual
  PROVE  Spec => [](TypeInv /\ RunningInv)
<1>1. Spec => []ReqTypeOK
  <2>1. RoomTypeOK => ReqTypeOK
    BY DEF RoomTypeOK
  <2> QED
    BY LobbyImplementsRoom, RoomTypeCorrect, <2>1, PTL
<1>2. LobbyInit => TypeInv /\ RunningInv
  BY InitTypeInv, InitGamesSound DEF LobbyInit, RoomInit, TablesInit, RunningInv, RunningKept
<1>3. TypeInv /\ RunningInv /\ ReqTypeOK /\ [Next]_vars => (TypeInv /\ RunningInv)'
  BY TypeInvStep, GamesSoundStep, RunningKeptStep DEF RunningInv
<1> QED
  BY <1>1, <1>2, <1>3, PTL DEF Spec

\* A room that is Running has an active instance row whenever no task is
\* between its two writes: for any number of requests that start games at the
\* same time, clients that hang up, and games that die, the last game to get
\* ready has not ended.
THEOREM RunningAlwaysHasRow ==
  ASSUME Undisturbed, Punctual
  PROVE  Spec => []RunningHasRow
<1>1. RunningInv => RunningHasRow
  BY DEF RunningInv, RunningKept, Vouches, Keeper, Ender, RunningHasRow, LockFree, ReaderLocked
<1> QED
  BY RunningInvariant, <1>1, PTL

-----------------------------------------------------------------------------
(* A Starting room. *)

\* No client hangs up, and the game does not look for commands under the
\* lobby's tag.
Answered == "cancel" \notin Faults /\ CommandTag \notin GameReads

\* Nobody tells the game to run: its status goes from ready to finished.
Mute(i) == inbox[i] = {} /\ "running" \notin Lines(i)

\* A game does not end before the map has it.
Unborn(i) == row[i] = "none" \/ \E r \in Requests : inserting[r] = i

Unended(i) ==
  Unborn(i) => /\ game[i] # "over" /\ "finished" \notin Lines(i)
               /\ reader[i] \in {"none", "read", "ready_room", "end"}

\* An entry that is still Starting has a reader that saw nothing of the game,
\* or its end, too early.
StartingRead(i) == entry[i] = "Starting" => reader[i] \in {"read", "end"}

Prompt(i) == Mute(i) /\ Unended(i) /\ StartingRead(i)

\* Who will write the status that follows Starting: the request, or an
\* instance, by its watchdog or by its reader.
Starter(r) == req[r].pc \in {"start_spawn", "start_insert", "rollback"}

Awaited(i) == entry[i] = "Starting" /\ watchdog[i] = "on"

Resolver(i) ==
  \/ Awaited(i)
  \/ reader[i] = "ready_room" /\ entry[i] # "none"
  \/ Ender(i)
  \/ watchdog[i] = "room"

StartingKept ==
  roomStatus = "Starting" => (\E r \in Requests : Starter(r)) \/ \E i \in Instances : Resolver(i)

StartingInv == (\A i \in Instances : Prompt(i)) /\ StartingKept

LEMMA WorksPrompt ==
  ASSUME Answered, TypeInv, NEW i \in Instances, GamesSound, Prompt(i), Works(i)
  PROVE  Prompt(i)'
<1> USE DEF TypeInv, ManagerTypeOK, Prompt, Mute, Unended, StartingRead, Die, GameTo, SetRow, SetEntry,
            ReaderTo, WatchdogTo, Mark, DropEntry, instVars, mapVars, gameVars, taskVars
<1>1. Known(i)
  BY DEF GamesSound, Sound
<1>2. Unborn(i)' => Unborn(i)
  <2>1. inserting' = inserting
    BY DEF Works, Run, Finish, lobbyVars
  <2>2. row'[i] = "none" => row[i] = "none"
    <3>1. CASE Reader(i)
      BY <3>1 DEF Reader, OnReady, OnReadyRoom, OnRunning, OnFinished, OnFinishedRoom, OnFinishedList,
                  OnFinishedPurge, OnFinishedReap, OnFinishedDrop, OnShutdown, OnEof, OnEofRoom
    <3>2. CASE Watchdog(i)
      BY <3>2 DEF Watchdog, WatchdogEnd, WatchdogFire, WatchdogRoom, WatchdogKill, WatchdogDrop
    <3>3. CASE GameReady(i) \/ GameStart(i) \/ GameExit(i) \/ GameOver(i) \/ OnHeartbeat(i) \/ OnAction(i)
      BY <3>3 DEF GameReady, GameStart, GameExit, GameOver, OnHeartbeat, OnAction
    <3> QED
      BY <3>1, <3>2, <3>3 DEF Works, Run, Finish, Working
  <2> QED
    BY <2>1, <2>2 DEF Unborn
<1>3. CASE GameReady(i)
  <2>1. Lines(i)' = Lines(i) \cup {"ready"}
    BY <1>3, AppendLines DEF GameReady, Events
  <2> QED
    BY <1>2, <1>3, <2>1 DEF GameReady
<1>4. ~GameStart(i)
  BY DEF GameStart
<1>5. CASE GameExit(i)
  BY <1>2, <1>5, SameLines DEF GameExit
<1>6. CASE Finish(i)
  <2>1. Lines(i)' = Lines(i) \cup {"finished"}
    BY <1>6, AppendLines DEF Finish, Run, GameOver, Events
  <2>2. ~Unborn(i)
    BY <1>1, <1>6 DEF Finish, Run, GameOver, Runs, Unborn, Known
  <2> QED
    BY <1>2, <1>6, <2>1, <2>2 DEF Finish, Run, GameOver
<1>7. CASE OnReady(i)
  <2>1. Lines(i)' \subseteq Lines(i)
    BY <1>7, TailLines DEF OnReady
  <2> QED
    BY <1>2, <1>7, <2>1 DEF OnReady, Reads
<1>8. CASE OnReadyRoom(i)
  <2>1. entry[i] # "Starting"
    BY <1>8 DEF OnReadyRoom, GamesSound, Sound, ReadyHeld
  <2> QED
    BY <1>2, <1>8, <2>1, SameLines DEF OnReadyRoom, Send, Answered
<1>9. ~OnRunning(i) /\ ~OnShutdown(i)
  BY TailLines DEF OnRunning, OnShutdown, GamesSound, Sound, Calm
<1>10. CASE OnFinished(i)
  <2>1. Lines(i)' \subseteq Lines(i) /\ "finished" \in Lines(i)
    BY <1>10, TailLines DEF OnFinished
  <2> QED
    BY <1>2, <1>10, <2>1 DEF OnFinished, Reads
<1>11. CASE OnFinishedRoom(i) \/ OnFinishedList(i) \/ OnFinishedPurge(i)
  <2>1. UNCHANGED <<entry, game, inbox>> /\ Lines(i)' = Lines(i)
    BY <1>11, SameLines DEF OnFinishedRoom, OnFinishedList, OnFinishedPurge
  <2>2. reader[i] \in {"finish_room", "finish_list", "finish_purge"}
    BY <1>11 DEF OnFinishedRoom, OnFinishedList, OnFinishedPurge
  <2> QED
    BY <1>2, <2>1, <2>2
<1>12. CASE OnFinishedReap(i)
  BY <1>2, <1>12, NoLines DEF OnFinishedReap
<1>13. CASE OnFinishedDrop(i)
  BY <1>2, <1>13, SameLines DEF OnFinishedDrop
<1>14. CASE OnEof(i)
  <2>1. entry[i] \in Live => entry[i] # "none"
    BY DEF Live
  <2>2. Unborn(i) => entry[i] = "none"
    BY <1>1 DEF Unborn, Known, GamesSound, Newcomers, Instances
  <2>3. CASE entry[i] \in Live
    BY <1>2, <1>14, <2>1, <2>2, <2>3, SameLines DEF OnEof
  <2>4. CASE entry[i] \notin Live
    BY <1>2, <1>14, <2>4, SameLines DEF OnEof
  <2> QED
    BY <2>3, <2>4
<1>15. CASE OnEofRoom(i)
  BY <1>2, <1>15, SameLines DEF OnEofRoom
<1>16. CASE OnHeartbeat(i) \/ OnAction(i)
  <2>1. UNCHANGED <<entry, game, inbox, reader>> /\ Lines(i)' = Lines(i)
    BY <1>16, SameLines DEF OnHeartbeat, OnAction
  <2> QED
    BY <1>2, <2>1
<1>17. CASE WatchdogEnd(i) \/ WatchdogRoom(i)
  BY <1>2, <1>17, SameLines DEF WatchdogEnd, WatchdogRoom
<1>18. CASE WatchdogFire(i)
  BY <1>2, <1>18, SameLines DEF WatchdogFire
<1>19. CASE WatchdogKill(i)
  BY <1>2, <1>19, SameLines DEF WatchdogKill
<1>20. CASE WatchdogDrop(i)
  BY <1>2, <1>20, SameLines DEF WatchdogDrop
<1> QED
  BY <1>3, <1>4, <1>5, <1>6, <1>7, <1>8, <1>9, <1>10, <1>11, <1>12, <1>13, <1>14, <1>15, <1>16, <1>17,
     <1>18, <1>19, <1>20 DEF Works, Run, Working, Reader, Watchdog

LEMMA RequestingPrompt ==
  ASSUME TypeInv, GamesSound, \A i \in Instances : Prompt(i), Requesting, NEW i \in Instances
  PROVE  Prompt(i)'
<1> USE DEF TypeInv, ManagerTypeOK, OwnTypeOK, Prompt, Mute, Unended, Unborn, StartingRead
<1>1. CASE UNCHANGED <<managerVars, inserting>>
  BY <1>1, SameLines DEF managerVars, instVars, mapVars, gameVars, taskVars
<1>2. ASSUME NEW r \in Requests, NEW k \in Instances, StartSpawn(r, k) PROVE Prompt(i)'
  <2>1. /\ row[k] = "none" /\ row' = [row EXCEPT ![k] = "starting"]
        /\ game' = [game EXCEPT ![k] = "boot"] /\ reader' = [reader EXCEPT ![k] = "read"]
        /\ UNCHANGED <<entry, out, inbox>> /\ inserting' = [inserting EXCEPT ![r] = k]
        /\ At(r, "start_spawn")
    BY <1>2 DEF StartSpawn, StartSpawned, Spawn, SetRow, GameTo, ReaderTo, mapVars
  <2>2. Unborn(i)' => Unborn(i)
    BY <2>1
  <2>3. entry[k] = "none" /\ Lines(i)' = Lines(i)
    BY <2>1, SameLines DEF GamesSound, Sound, Known
  <2> QED
    BY <2>1, <2>2, <2>3
<1>3. ASSUME NEW r \in Requests, StartInsert(r) PROVE Prompt(i)'
  <2>1. /\ LockFree /\ entry' = [entry EXCEPT ![inserting[r]] = "Starting"]
        /\ UNCHANGED <<row, game, out, inbox, reader>> /\ inserting' = [inserting EXCEPT ![r] = 0]
        /\ At(r, "start_insert")
    BY <1>3 DEF StartInsert, StartReturn, Insert, SetEntry, instVars, gameVars
  <2>2. reader[i] # "ready_room" /\ Lines(i)' = Lines(i) /\ (row[i] # "none" => reader[i] # "none")
    BY <2>1, SameLines DEF LockFree, ReaderLocked, GamesSound, Sound, Known
  <2>3. Unborn(i)' => Unborn(i)
    BY <2>1 DEF Instances
  <2>4. i = inserting[r] => row[i] # "none" /\ Unborn(i)
    BY <2>1 DEF GamesSound, Newcomers
  <2> QED
    BY <2>1, <2>2, <2>3, <2>4
<1>4. ASSUME NEW r \in Requests, StartAbandon(r) PROVE Prompt(i)'
  <2>1. UNCHANGED managerVars /\ inserting' = [inserting EXCEPT ![r] = 0]
    BY <1>4 DEF StartAbandon
  <2> QED
    BY <2>1, SameLines DEF managerVars, instVars, mapVars, gameVars, taskVars, Instances
<1> QED
  BY <1>1, <1>2, <1>3, <1>4 DEF Requesting, Take, Serve, HangUp, StartOn, managerVars, lobbyVars

\* An instance that owes the room a status owes it until it is written.
LEMMA ResolverStays ==
  ASSUME TypeInv, NEW i \in Instances, GamesSound, Prompt(i), Works(i), Resolver(i),
         roomStatus' = "Starting"
  PROVE  Resolver(i)'
<1> USE DEF TypeInv, ManagerTypeOK, Resolver, Awaited, Ender, instVars, mapVars, taskVars
<1>1. CASE GameReady(i) \/ GameStart(i) \/ GameExit(i) \/ GameOver(i) \/ OnHeartbeat(i) \/ OnAction(i)
  BY <1>1 DEF GameReady, GameStart, GameExit, GameOver, OnHeartbeat, OnAction
<1>2. CASE OnReady(i)
  BY <1>2 DEF OnReady, Reads, Mark, ReaderTo, LockFree
<1>3. CASE OnReadyRoom(i)
  BY <1>3 DEF OnReadyRoom, ReaderTo, SetRoomOf, SetStatus, Prompt, StartingRead
<1>4. ~OnRunning(i) /\ ~OnShutdown(i)
  BY TailLines DEF OnRunning, OnShutdown, GamesSound, Sound, Calm, Prompt, Mute
<1>5. CASE OnFinished(i)
  BY <1>5 DEF OnFinished, Reads, Mark, ReaderTo, LockFree
<1>6. CASE OnFinishedRoom(i)
  BY <1>6 DEF OnFinishedRoom, ReaderTo, SetRoomOf, SetStatus, Prompt, StartingRead
<1>7. CASE OnFinishedList(i) \/ OnFinishedPurge(i) \/ OnFinishedReap(i)
  BY <1>7 DEF OnFinishedList, OnFinishedPurge, OnFinishedReap, ReaderTo
<1>8. CASE OnFinishedDrop(i)
  BY <1>8 DEF OnFinishedDrop, LockFree, Prompt, StartingRead
<1>9. CASE OnEof(i)
  BY <1>9 DEF OnEof, ReaderTo, LockFree, Live
<1>10. ~OnEofRoom(i) /\ ~WatchdogRoom(i)
  BY DEF OnEofRoom, WatchdogRoom, SetStatus
<1>11. CASE WatchdogEnd(i)
  BY <1>11 DEF WatchdogEnd, WatchdogTo, LockFree, ReaderLocked
<1>12. CASE WatchdogFire(i)
  BY <1>12 DEF WatchdogFire, WatchdogTo
<1>13. CASE WatchdogKill(i)
  BY <1>13 DEF WatchdogKill, WatchdogTo
<1>14. CASE WatchdogDrop(i)
  BY <1>14 DEF WatchdogDrop, LockFree, ReaderLocked
<1> QED
  BY <1>1, <1>2, <1>3, <1>4, <1>5, <1>6, <1>7, <1>8, <1>9, <1>10, <1>11, <1>12, <1>13, <1>14
  DEF Works, Run, Finish, Working, Reader, Watchdog

\* The manager never makes a room Starting.
LEMMA WorksStartNothing ==
  ASSUME NEW i \in Instances, Works(i), roomStatus' = "Starting"
  PROVE  roomStatus = "Starting"
<1> USE DEF SetStatus, SetRoomOf, roomVars
<1>1. CASE GameReady(i) \/ GameStart(i) \/ GameExit(i) \/ GameOver(i) \/ OnHeartbeat(i) \/ OnAction(i)
  BY <1>1 DEF GameReady, GameStart, GameExit, GameOver, OnHeartbeat, OnAction
<1>2. CASE Watchdog(i)
  BY <1>2 DEF Watchdog, WatchdogEnd, WatchdogFire, WatchdogRoom, WatchdogKill, WatchdogDrop
<1>3. CASE Reader(i)
  BY <1>3 DEF Reader, OnReady, OnReadyRoom, OnRunning, OnFinished, OnFinishedRoom, OnFinishedList,
              OnFinishedPurge, OnFinishedReap, OnFinishedDrop, OnShutdown, OnEof, OnEofRoom
<1> QED
  BY <1>1, <1>2, <1>3 DEF Works, Run, Finish, Working

\* A request that made the room Starting goes on, or hands the room over to
\* the instance it puts in the map.
LEMMA RequestingStarting ==
  ASSUME Answered, TypeInv, ReqTypeOK, GamesSound, Requesting, StartingKept, roomStatus' = "Starting"
  PROVE  (\E r \in Requests : Starter(r)') \/ \E i \in Instances : Resolver(i)'
<1> USE DEF TypeInv, ManagerTypeOK, OwnTypeOK, ReqTypeOK, Starter
<1>1. CASE UNCHANGED managerVars /\ ~\E r \in Requests : StartAbandon(r)
  <2>1. \A i \in Instances : Resolver(i) => Resolver(i)'
    BY <1>1 DEF managerVars, mapVars, taskVars, Resolver, Awaited, Ender
  <2>2. CASE \E r \in Requests : StartMark(r)
    BY <2>2 DEF StartMark, Goto
  <2>3. CASE ~\E r \in Requests : StartMark(r)
    <3>1. roomStatus = "Starting"
      BY <1>1, <2>3
      DEF Requesting, Take, Arrive, Create, Join, View, LeaveRead, StartRead, Serve, Proceed, HangUp, Cancel,
          LeaveDelete, LeaveSelect, LeavePromote, LeaveDestroy, StartTokens, StartFail, Rollback, StartOn,
          StartSpawn, StartSpawned, StartInsert, StartReturn, SetStatus, roomVars
    <3>2. ASSUME NEW r \in Requests, Starter(r) PROVE Starter(r)' \/ \E i \in Instances : Resolver(i)'
      <4>1. ASSUME NEW q \in Requests, Proceed(q) PROVE Starter(r)'
        <5>1. CASE q # r
          BY <4>1, <5>1, <3>2
          DEF Proceed, LeaveDelete, LeaveSelect, LeavePromote, LeaveDestroy, StartTokens, StartMark, StartFail,
              Rollback, Goto, Return
        <5>2. CASE q = r
          <6>1. StartFail(r)
            BY <4>1, <5>2, <3>2, <2>3
            DEF Proceed, LeaveDelete, LeaveSelect, LeavePromote, LeaveDestroy, StartTokens, Rollback, At, SetStatus
          <6> QED
            BY <6>1 DEF StartFail, Goto
        <5> QED
          BY <5>1, <5>2
      <4>2. CASE Arrive
        <5>1. CASE UNCHANGED req
          BY <3>2, <5>1
        <5>2. ASSUME NEW q \in Requests, NEW u \in Users, LeaveRead(q, u) \/ StartRead(q, u) PROVE Starter(r)'
          <6>1. At(q, "idle") /\ q # r
            BY <3>2, <5>2 DEF LeaveRead, StartRead, At
          <6> QED
            BY <3>2, <5>2, <6>1 DEF LeaveRead, StartRead
        <5> QED
          BY <4>2, <5>1, <5>2 DEF Arrive, Create, Join, View
      <4>3. ASSUME NEW q \in Requests, NEW k \in Instances, StartSpawn(q, k) PROVE Starter(r)'
        BY <3>2, <4>3 DEF StartSpawn, StartSpawned, Goto
      <4>4. ASSUME NEW q \in Requests, StartInsert(q) PROVE FALSE
        BY <1>1, <4>4 DEF StartInsert, StartReturn, Insert, SetEntry, managerVars, mapVars, GamesSound, Newcomers
      <4> QED
        BY <1>1, <4>1, <4>2, <4>3, <4>4 DEF Answered, Requesting, Take, Serve, HangUp, Cancel, StartOn
    <3> QED
      BY <2>1, <3>1, <3>2 DEF StartingKept
  <2> QED
    BY <2>2, <2>3
<1>2. ASSUME NEW r \in Requests, NEW k \in Instances, StartSpawn(r, k) PROVE Starter(r)'
  BY <1>2 DEF StartSpawn, StartSpawned, Goto
<1>3. ASSUME NEW r \in Requests, StartInsert(r) PROVE \E i \in Instances : Resolver(i)'
  <2>1. PICK k \in Instances : k = inserting[r]
    BY <1>3 DEF StartInsert, StartReturn, GamesSound, Newcomers
  <2>2. entry'[k] = "Starting" /\ watchdog'[k] = "on"
    BY <1>3, <2>1 DEF StartInsert, Insert, SetEntry, WatchdogTo
  <2> QED
    BY <2>2 DEF Resolver, Awaited
<1>4. ~\E r \in Requests : StartAbandon(r)
  BY DEF Answered, StartAbandon
<1> QED
  BY <1>1, <1>2, <1>3, <1>4 DEF Requesting, Take, Serve, HangUp, StartOn

LEMMA StartingInvStep ==
  ASSUME Undisturbed, Punctual, Answered, TypeInv, ReqTypeOK, GamesSound, StartingInv, [Next]_vars
  PROVE  StartingInv'
<1> USE DEF StartingInv
<1>1. CASE UNCHANGED vars
  <2>1. UNCHANGED <<roomStatus, req, managerVars, lobbyVars>>
    BY <1>1 DEF vars, handlerVars, roomVars
  <2>2. \A i \in Instances : Prompt(i)'
    BY <2>1, SameLines DEF managerVars, instVars, mapVars, gameVars, taskVars, lobbyVars,
                           Prompt, Mute, Unended, Unborn, StartingRead
  <2>3. StartingKept'
    BY <2>1 DEF managerVars, mapVars, taskVars, StartingKept, Starter, Resolver, Awaited, Ender
  <2> QED
    BY <2>2, <2>3
<1>2. CASE Requesting
  BY <1>2, RequestingPrompt, RequestingStarting DEF StartingKept
<1>3. ASSUME NEW i \in Instances, Works(i) PROVE StartingInv'
  <2>1. \A j \in Instances \ {i} : Prompt(j)'
    <3>1. UNCHANGED <<req, inserting>>
      BY <1>3 DEF Works, Run, Finish, lobbyVars
    <3> QED
      BY <1>3, <3>1, WorksAlone, SameLines DEF Elsewhere, Prompt, Mute, Unended, Unborn, StartingRead
  <2>2. Prompt(i)'
    BY <1>3, WorksPrompt
  <2>3. StartingKept'
    <3> SUFFICES ASSUME roomStatus' = "Starting"
                 PROVE  (\E r \in Requests : Starter(r)') \/ \E j \in Instances : Resolver(j)'
      BY DEF StartingKept
    <3>1. roomStatus = "Starting"
      BY <1>3, WorksStartNothing
    <3>2. \A r \in Requests : Starter(r) => Starter(r)'
      BY <1>3 DEF Works, Run, Finish, Starter
    <3>3. \A j \in Instances \ {i} : Resolver(j) => Resolver(j)'
      BY <1>3, WorksAlone DEF Elsewhere, Resolver, Awaited, Ender
    <3>4. Resolver(i) => Resolver(i)'
      BY <1>3, ResolverStays
    <3> QED
      BY <3>1, <3>2, <3>3, <3>4 DEF StartingKept
  <2> QED
    BY <2>1, <2>2, <2>3
<1> QED
  BY <1>1, <1>2, <1>3, StepsLeft

LEMMA StartingInvariant ==
  ASSUME Undisturbed, Punctual, Answered
  PROVE  Spec => []StartingInv
<1>1. Spec => []ReqTypeOK
  <2>1. RoomTypeOK => ReqTypeOK
    BY DEF RoomTypeOK
  <2> QED
    BY LobbyImplementsRoom, RoomTypeCorrect, <2>1, PTL
<1>2. LobbyInit => StartingInv
  <2> SUFFICES ASSUME LobbyInit PROVE StartingInv
    OBVIOUS
  <2>1. \A i \in Instances : Lines(i) = {}
    BY NoLines DEF LobbyInit, ManagerInit
  <2> QED
    BY <2>1 DEF LobbyInit, ManagerInit, MapInit, RoomInit, TablesInit,
                StartingInv, Prompt, Mute, Unended, StartingRead, StartingKept
<1>3. TypeInv /\ RunningInv /\ ReqTypeOK /\ StartingInv /\ [Next]_vars => StartingInv'
  BY StartingInvStep DEF RunningInv
<1> QED
  BY RunningInvariant, <1>1, <1>2, <1>3, PTL DEF Spec

\* When the short tasks are over, no room is still Starting, and a Running
\* room has a game that runs and that the manager knows: for any number of
\* requests and games, if clients wait for their answers and no game is late.
THEOREM RoomAlwaysMatchesGames ==
  ASSUME Undisturbed, Punctual, Answered
  PROVE  Spec => []RoomMatchesGames
<1>1. TypeInv /\ RunningInv /\ StartingInv => RoomMatchesGames
  <2> SUFFICES ASSUME TypeInv, RunningInv, StartingInv, LongWait
               PROVE  /\ roomStatus # "Starting"
                      /\ roomStatus = "Running" =>
                           \E i \in Instances : game[i] \in Alive /\ entry[i] \in {"Ready", "Running"}
    BY DEF RoomMatchesGames
  <2> USE DEF LongWait, LockFree, ReaderLocked
  <2>1. roomStatus # "Starting"
    BY DEF StartingInv, StartingKept, Starter, AtRest, Resolver, Awaited, Ender
  <2>2. ASSUME roomStatus = "Running"
        PROVE  \E i \in Instances : game[i] \in Alive /\ entry[i] \in {"Ready", "Running"}
    <3>1. PICK i \in Instances : Keeper(i)
      BY <2>2 DEF RunningInv, RunningKept, Vouches, Ender
    <3>2. row[i] # "none" /\ reader[i] = "read"
      BY <3>1 DEF Keeper, Active
    <3>3. game[i] \in Alive
      BY <3>2 DEF RunningInv, GamesSound, Sound, Known
    <3> QED
      BY <3>1, <3>3 DEF Keeper
  <2> QED
    BY <2>1, <2>2
<1> QED
  BY RunningInvariant, StartingInvariant, <1>1, PTL
==============================================================================
