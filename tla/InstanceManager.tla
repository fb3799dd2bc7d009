--------------------------- MODULE InstanceManager ---------------------------
(***************************************************************************)
(* crates/lobby/src/instance/manager.rs: the manager's map of instances,   *)
(* the game_instances rows, and the tasks that work on them: per instance  *)
(* a stdout reader and a ready watchdog, and the callers of stop() and     *)
(* check_timeouts().  The game processes they watch follow the SDK's       *)
(* runtime loop (crates/game-sdk/src/lib.rs, run).                         *)
(*                                                                         *)
(* The map's mutex is held across database writes: a task is at a program  *)
(* counter that holds the lock between two writes, and LockFree says that  *)
(* none is.  HTTP handlers and the cleanup task write the same rows        *)
(* without the lock.                                                       *)
(***************************************************************************)
EXTENDS RoomTables, Sequences

CONSTANTS
  MaxInstances,  \* bound: the instances spawned in a behaviour
  Stoppers,      \* the tasks that call stop()
  GameReads      \* the JSON tags under which the game looks for commands

ASSUME InstancesAssumption == MaxInstances \in Nat \ {0}

VARIABLES
  row,       \* game_instances.status, "none" before the INSERT
  acted,     \* COALESCE(last_action_at, start_time): recent or past the limit
  entry,     \* ActiveInstance.status, "none" when the map has no entry
  beat,      \* last_heartbeat: recent, or more than 15 s ago
  game,      \* the game process: how far it got, dead, or out of reach
  stalled,   \* the game process is not being scheduled
  out,       \* the event lines in the game's stdout pipe
  inbox,     \* the commands the game understood and has not handled
  reader,    \* program counter of the stdout reader task
  leaving,   \* the members the reader still has to delete
  watchdog,  \* program counter of the ready watchdog
  timedOut,  \* the instance check_timeouts is marking, 0 for none
  stopping   \* [pc, inst] of each caller of stop()

instVars == <<row, acted>>
mapVars == <<entry, beat>>
gameVars == <<game, stalled, out, inbox>>
taskVars == <<reader, leaving, watchdog, timedOut, stopping>>
managerVars == <<instVars, mapVars, gameVars, taskVars>>

Instances == 1 .. MaxInstances
Active == {"starting", "ready", "running"}
Live == {"Starting", "Ready", "Running"}
ReaderLocked == {"ready_room", "finish_room", "finish_list", "finish_purge", "eof_room"}
Alive == {"boot", "ready", "running", "over"}
Events == {"ready", "running", "finished", "shutdown"}

ManagerTypeOK ==
  /\ row \in [Instances -> Active \cup {"none", "finished", "abnormal", "stopped"}]
  /\ acted \in [Instances -> {"fresh", "old"}]
  /\ entry \in [Instances -> Live \cup {"none", "Finished", "Abnormal", "Stopped"}]
  /\ beat \in [Instances -> {"fresh", "late"}]
  /\ game \in [Instances -> Alive \cup {"none", "dead", "orphan"}]
  /\ stalled \in [Instances -> BOOLEAN]
  /\ out \in [Instances -> Seq(Events)]
  /\ inbox \in [Instances -> SUBSET {"start", "stop"}]
  /\ reader \in [Instances -> ReaderLocked \cup {"none", "read", "reap", "drop", "end"}]
  /\ leaving \in [Instances -> SUBSET Users]
  /\ watchdog \in [Instances -> {"off", "on", "room", "kill", "drop"}]
  /\ timedOut \in Instances \cup {0}
  /\ stopping \in [Stoppers -> [pc : {"idle", "wait", "row", "room"}, inst : Instances \cup {0}]]

NotStopping == [pc |-> "idle", inst |-> 0]

\* InstanceManager::new: no entry, no task.
MapInit ==
  /\ entry = [i \in Instances |-> "none"]
  /\ beat = [i \in Instances |-> "fresh"]
  /\ reader = [i \in Instances |-> "none"]
  /\ leaving = [i \in Instances |-> {}]
  /\ watchdog = [i \in Instances |-> "off"]
  /\ timedOut = 0
  /\ stopping = [c \in Stoppers |-> NotStopping]

\* The lobby process is gone, and its tasks with it.
MapReset ==
  /\ entry' = [i \in Instances |-> "none"]
  /\ beat' = [i \in Instances |-> "fresh"]
  /\ reader' = [i \in Instances |-> "none"]
  /\ leaving' = [i \in Instances |-> {}]
  /\ watchdog' = [i \in Instances |-> "off"]
  /\ timedOut' = 0
  /\ stopping' = [c \in Stoppers |-> NotStopping]

ManagerInit ==
  /\ MapInit
  /\ row = [i \in Instances |-> "none"]
  /\ acted = [i \in Instances |-> "fresh"]
  /\ game = [i \in Instances |-> "none"]
  /\ stalled = [i \in Instances |-> FALSE]
  /\ out = [i \in Instances |-> <<>>]
  /\ inbox = [i \in Instances |-> {}]

LockFree ==
  /\ \A i \in Instances : reader[i] \notin ReaderLocked /\ watchdog[i] # "room"
  /\ timedOut = 0
  /\ \A c \in Stoppers : stopping[c].pc \notin {"row", "room"}

SetRow(i, s) == row' = [row EXCEPT ![i] = s]
SetEntry(i, s) == entry' = [entry EXCEPT ![i] = s]
ReaderTo(i, p) == reader' = [reader EXCEPT ![i] = p]
WatchdogTo(i, p) == watchdog' = [watchdog EXCEPT ![i] = p]

\* g.get_mut(&id): the handlers update the entry only where there is one.
Mark(i, s) == entry' = [entry EXCEPT ![i] = IF @ = "none" THEN "none" ELSE s]

\* UPDATE rooms .. WHERE room_id = h_room_id(..): id 0, no row, without an entry.
SetRoomOf(i, s) == IF entry[i] = "none" THEN UNCHANGED roomStatus ELSE SetStatus(s)

\* instances.remove(&id)
DropEntry(i) == SetEntry(i, "none") /\ beat' = [beat EXCEPT ![i] = "fresh"]

GameTo(i, p) == game' = [game EXCEPT ![i] = p]
Runs(i) == game[i] \in Alive /\ ~stalled[i]

\* The process is gone, by its own doing or by start_kill() and wait(), which
\* do nothing to a child that was reaped before: nobody reads its stdin.
Die(i) ==
  /\ GameTo(i, "dead")
  /\ stalled' = [stalled EXCEPT ![i] = FALSE]
  /\ inbox' = [inbox EXCEPT ![i] = {}]

\* A GameCommand line carries its name under the tag "cmd".
CommandTag == "cmd"
Send(i, c) ==
  inbox' = [inbox EXCEPT ![i] =
             IF game[i] \in Alive /\ CommandTag \in GameReads THEN @ \cup {c} ELSE @]

------------------------------------------------------------------------------
\* spawn(), joint with the start handler: the process runs, its row is
\* inserted and the reader task is started ...
Spawn(i) ==
  /\ row[i] = "none" /\ \A j \in Instances : j < i => row[j] # "none"
  /\ SetRow(i, "starting")
  /\ GameTo(i, "boot")
  /\ ReaderTo(i, "read")
  /\ UNCHANGED <<acted, mapVars, stalled, out, inbox, leaving, watchdog, timedOut, stopping>>

\* ... and only then is the instance put in the map, with its watchdog.
Insert(i) ==
  /\ LockFree
  /\ SetEntry(i, "Starting")
  /\ beat' = [beat EXCEPT ![i] = "fresh"]
  /\ WatchdogTo(i, "on")
  /\ UNCHANGED <<instVars, gameVars, reader, leaving, timedOut, stopping>>

------------------------------------------------------------------------------
(* The game process. *)

Emit(i, e) == out' = [out EXCEPT ![i] = Append(@, e)]

\* The listener is bound: the game prints ready.
GameReady(i) ==
  /\ Runs(i) /\ game[i] = "boot"
  /\ GameTo(i, "ready")
  /\ Emit(i, "ready")
  /\ UNCHANGED <<roomVars, instVars, mapVars, stalled, inbox, taskVars>>

\* cmd:start makes the game print running.
GameStart(i) ==
  /\ Runs(i) /\ game[i] = "ready" /\ "start" \in inbox[i]
  /\ GameTo(i, "running")
  /\ inbox' = [inbox EXCEPT ![i] = @ \ {"start"}]
  /\ Emit(i, "running")
  /\ UNCHANGED <<roomVars, instVars, mapVars, stalled, taskVars>>

\* cmd:stop makes the game print shutdown and exit.
GameStop(i) ==
  /\ Runs(i) /\ game[i] # "boot" /\ "stop" \in inbox[i]
  /\ Die(i)
  /\ Emit(i, "shutdown")
  /\ UNCHANGED <<roomVars, instVars, mapVars, taskVars>>

\* The game is over: the game prints finished with the uids online.
GameOver(i) ==
  /\ Runs(i) /\ game[i] \in {"ready", "running"}
  /\ GameTo(i, "over")
  /\ Emit(i, "finished")
  /\ UNCHANGED <<roomVars, instVars, mapVars, stalled, inbox, taskVars>>

\* The process dies on its own.
GameExit(i) ==
  /\ "exit" \in Faults /\ Runs(i)
  /\ Die(i)
  /\ UNCHANGED <<roomVars, instVars, mapVars, out, taskVars>>

\* The process stops being scheduled, and is scheduled again.
GameStall(i) ==
  /\ "stall" \in Faults /\ game[i] \in Alive
  /\ stalled' = [stalled EXCEPT ![i] = ~@]
  /\ UNCHANGED <<roomVars, instVars, mapVars, game, out, inbox, taskVars>>

Game(i) ==
  GameReady(i) \/ GameStart(i) \/ GameStop(i) \/ GameExit(i) \/ GameStall(i)

------------------------------------------------------------------------------
(* The stdout reader. *)

\* The reader takes the next line, then the lock.
Reads(i, e) ==
  /\ reader[i] = "read" /\ LockFree
  /\ out[i] # <<>> /\ Head(out[i]) = e
  /\ out' = [out EXCEPT ![i] = Tail(@)]

OnReady(i) ==
  /\ Reads(i, "ready")
  /\ Mark(i, "Ready")
  /\ SetRow(i, "ready")
  /\ ReaderTo(i, "ready_room")
  /\ UNCHANGED <<roomVars, acted, beat, game, stalled, inbox, leaving, watchdog, timedOut, stopping>>

OnReadyRoom(i) ==
  /\ reader[i] = "ready_room"
  /\ SetRoomOf(i, "Running")
  /\ Send(i, "start")
  /\ ReaderTo(i, "read")
  /\ UNCHANGED <<host, viewed, seat, senior, instVars, mapVars, game, stalled, out,
                 leaving, watchdog, timedOut, stopping>>

OnRunning(i) ==
  /\ Reads(i, "running")
  /\ Mark(i, "Running")
  /\ SetRow(i, "running")
  /\ UNCHANGED <<roomVars, acted, beat, game, stalled, inbox, taskVars>>

OnFinished(i) ==
  /\ Reads(i, "finished")
  /\ Mark(i, "Finished")
  /\ SetRow(i, "finished")
  /\ ReaderTo(i, "finish_room")
  /\ UNCHANGED <<roomVars, acted, beat, game, stalled, inbox, leaving, watchdog, timedOut, stopping>>

OnFinishedRoom(i) ==
  /\ reader[i] = "finish_room"
  /\ SetRoomOf(i, "Finished")
  /\ ReaderTo(i, "finish_list")
  /\ UNCHANGED <<host, viewed, seat, senior, instVars, mapVars, gameVars,
                 leaving, watchdog, timedOut, stopping>>

\* SELECT the members: those that the result does not list as online go.
OnFinishedList(i) ==
  /\ reader[i] = "finish_list"
  /\ \E online \in SUBSET Users :
       leaving' = [leaving EXCEPT ![i] = IF entry[i] = "none" THEN {} ELSE Members \ online]
  /\ ReaderTo(i, "finish_purge")
  /\ UNCHANGED <<roomVars, instVars, mapVars, gameVars, watchdog, timedOut, stopping>>

\* Mutant of OnFinishedPurge: a host that goes is cleared from the room.
OnFinishedPurgeClearHost(i) ==
  /\ reader[i] = "finish_purge"
  /\ \E u \in leaving[i] :
       /\ RemoveMembers({u})
       /\ leaving' = [leaving EXCEPT ![i] = @ \ {u}]
       /\ host' = IF host = u THEN NoUser ELSE host
  /\ UNCHANGED <<roomStatus, viewed, instVars, mapVars, gameVars,
                 reader, watchdog, timedOut, stopping>>

\* DELETE one member at a time.
OnFinishedPurge(i) ==
  /\ reader[i] = "finish_purge"
  /\ \E u \in leaving[i] :
       RemoveMembers({u}) /\ leaving' = [leaving EXCEPT ![i] = @ \ {u}]
  /\ UNCHANGED <<roomStatus, host, viewed, instVars, mapVars, gameVars,
                 reader, watchdog, timedOut, stopping>>

\* drop(g), then reap the child without the lock ...
OnFinishedReap(i) ==
  /\ reader[i] = "finish_purge" /\ leaving[i] = {}
  /\ Die(i)
  /\ out' = [out EXCEPT ![i] = <<>>]
  /\ ReaderTo(i, "drop")
  /\ UNCHANGED <<roomVars, instVars, mapVars, leaving, watchdog, timedOut, stopping>>

\* ... and take the lock again to remove the entry.
OnFinishedDrop(i) ==
  /\ reader[i] = "drop" /\ LockFree
  /\ DropEntry(i)
  /\ ReaderTo(i, "end")
  /\ UNCHANGED <<roomVars, instVars, gameVars, leaving, watchdog, timedOut, stopping>>

OnShutdown(i) ==
  /\ Reads(i, "shutdown")
  /\ Mark(i, "Stopped")
  /\ UNCHANGED <<roomVars, instVars, beat, game, stalled, inbox, taskVars>>

\* A heartbeat or action line of a game that keeps up, printed and handled.
OnHeartbeat(i) ==
  /\ Runs(i) /\ game[i] # "boot" /\ out[i] = <<>>
  /\ reader[i] = "read" /\ LockFree
  /\ entry[i] # "none" /\ beat' = [beat EXCEPT ![i] = "fresh"]
  /\ UNCHANGED <<roomVars, instVars, entry, gameVars, taskVars>>

OnAction(i) ==
  /\ Runs(i) /\ game[i] \in {"ready", "running"} /\ out[i] = <<>>
  /\ reader[i] = "read" /\ LockFree
  /\ acted' = [acted EXCEPT ![i] = "fresh"]
  /\ UNCHANGED <<roomVars, row, mapVars, gameVars, taskVars>>

\* stdout closed: an instance that nobody ended yet failed.
OnEof(i) ==
  /\ reader[i] = "read" /\ LockFree /\ out[i] = <<>> /\ game[i] = "dead"
  /\ IF entry[i] \in Live
       THEN SetEntry(i, "Abnormal") /\ SetRow(i, "abnormal") /\ ReaderTo(i, "eof_room")
       ELSE ReaderTo(i, "end") /\ UNCHANGED <<row, entry>>
  /\ UNCHANGED <<roomVars, acted, beat, gameVars, leaving, watchdog, timedOut, stopping>>

\* Mutant of OnEofRoom: the room is not rolled back.
OnEofKeepRoom(i) ==
  /\ reader[i] = "eof_room"
  /\ ReaderTo(i, "end")
  /\ UNCHANGED <<roomVars, instVars, mapVars, gameVars, leaving, watchdog, timedOut, stopping>>

OnEofRoom(i) ==
  /\ reader[i] = "eof_room"
  /\ SetStatus("Waiting")
  /\ ReaderTo(i, "end")
  /\ UNCHANGED <<host, viewed, seat, senior, instVars, mapVars, gameVars,
                 leaving, watchdog, timedOut, stopping>>

Reader(i) ==
  \/ OnReady(i) \/ OnReadyRoom(i) \/ OnRunning(i)
  \/ OnFinished(i) \/ OnFinishedRoom(i) \/ OnFinishedList(i) \/ OnFinishedPurge(i)
  \/ OnFinishedReap(i) \/ OnFinishedDrop(i)
  \/ OnShutdown(i) \/ OnEof(i) \/ OnEofRoom(i)

------------------------------------------------------------------------------
(* The ready watchdog. *)

\* The next tick finds the entry gone or past Starting: the task ends.
WatchdogEnd(i) ==
  /\ watchdog[i] = "on" /\ LockFree /\ entry[i] # "Starting"
  /\ WatchdogTo(i, "off")
  /\ UNCHANGED <<roomVars, instVars, mapVars, gameVars, reader, leaving, timedOut, stopping>>

\* READY_TIMEOUT has passed: the game is slow or not scheduled, or the reader
\* saw its ready line before the map had the entry.  Lines do not wait in the
\* pipe for that long, only the line of a slow game may come in this moment.
WatchdogFire(i) ==
  /\ watchdog[i] = "on" /\ LockFree /\ entry[i] = "Starting"
  /\ "slow" \in Faults \/ (out[i] = <<>> /\ (stalled[i] \/ game[i] # "boot"))
  /\ SetEntry(i, "Abnormal")
  /\ SetRow(i, "abnormal")
  /\ WatchdogTo(i, "room")
  /\ UNCHANGED <<roomVars, acted, beat, gameVars, reader, leaving, timedOut, stopping>>

\* Mutant of WatchdogRoom: the room is not rolled back.
WatchdogKeepRoom(i) ==
  /\ watchdog[i] = "room"
  /\ WatchdogTo(i, "kill")
  /\ UNCHANGED <<roomVars, instVars, mapVars, gameVars, reader, leaving, timedOut, stopping>>

WatchdogRoom(i) ==
  /\ watchdog[i] = "room"
  /\ SetStatus("Waiting")
  /\ WatchdogTo(i, "kill")
  /\ UNCHANGED <<host, viewed, seat, senior, instVars, mapVars, gameVars,
                 reader, leaving, timedOut, stopping>>

WatchdogKill(i) ==
  /\ watchdog[i] = "kill"
  /\ Die(i)
  /\ WatchdogTo(i, "drop")
  /\ UNCHANGED <<roomVars, instVars, mapVars, out, reader, leaving, timedOut, stopping>>

WatchdogDrop(i) ==
  /\ watchdog[i] = "drop" /\ LockFree
  /\ DropEntry(i)
  /\ WatchdogTo(i, "off")
  /\ UNCHANGED <<roomVars, instVars, gameVars, reader, leaving, timedOut, stopping>>

Watchdog(i) ==
  \/ WatchdogEnd(i) \/ WatchdogFire(i) \/ WatchdogRoom(i) \/ WatchdogKill(i) \/ WatchdogDrop(i)

------------------------------------------------------------------------------
(* check_timeouts(), every 5 s. *)

\* 15 s pass without a heartbeat of a process that is not scheduled.
BeatLate(i) ==
  /\ entry[i] # "none" /\ stalled[i] /\ out[i] = <<>> /\ beat[i] = "fresh"
  /\ beat' = [beat EXCEPT ![i] = "late"]
  /\ UNCHANGED <<roomVars, instVars, entry, gameVars, taskVars>>

TimeoutMark(i) ==
  /\ LockFree /\ entry[i] \in Live /\ beat[i] = "late"
  /\ SetEntry(i, "Abnormal")
  /\ SetRow(i, "abnormal")
  /\ timedOut' = i
  /\ UNCHANGED <<roomVars, acted, beat, gameVars, reader, leaving, watchdog, stopping>>

TimeoutRoom(i) ==
  /\ timedOut = i
  /\ SetStatus("Waiting")
  /\ timedOut' = 0
  /\ UNCHANGED <<host, viewed, seat, senior, instVars, mapVars, gameVars,
                 reader, leaving, watchdog, stopping>>

------------------------------------------------------------------------------
(* stop(), called by c for instance i; it returns by going back to idle. *)

StopTo(c, p, i) == stopping' = [stopping EXCEPT ![c] = [pc |-> p, inst |-> i]]

StopBegin(c, i) ==
  /\ stopping[c].pc = "idle" /\ LockFree /\ entry[i] # "none"
  /\ Send(i, "stop")
  /\ SetEntry(i, "Stopped")
  /\ StopTo(c, "wait", i)
  /\ UNCHANGED <<roomVars, instVars, beat, game, stalled, out, reader, leaving, watchdog, timedOut>>

\* Mutant of StopGone: stop() does not look for the entry.
StopGoneUnseen(c) == FALSE

\* A poll finds that the entry is gone.
StopGone(c) ==
  /\ stopping[c].pc = "wait" /\ LockFree /\ entry[stopping[c].inst] = "none"
  /\ StopTo(c, "idle", 0)
  /\ UNCHANGED <<roomVars, instVars, mapVars, gameVars, reader, leaving, watchdog, timedOut>>

\* Mutant of StopKill: the deadline is missing.
StopKillNever(c) == FALSE

\* Mutant of StopKill: the entry is removed, the child is forgotten.
StopForget(c) ==
  LET i == stopping[c].inst IN
  /\ stopping[c].pc = "wait" /\ LockFree /\ entry[i] # "none"
  /\ DropEntry(i)
  /\ StopTo(c, "row", i)
  /\ UNCHANGED <<roomVars, instVars, gameVars, reader, leaving, watchdog, timedOut>>

\* The grace period is over: kill and reap the child, remove the entry.
StopKill(c) ==
  LET i == stopping[c].inst IN
  /\ stopping[c].pc = "wait" /\ LockFree /\ entry[i] # "none"
  /\ Die(i)
  /\ DropEntry(i)
  /\ StopTo(c, "row", i)
  /\ UNCHANGED <<roomVars, instVars, out, reader, leaving, watchdog, timedOut>>

\* Mutant of StopRow: the status is written under its Rust name.
StopRowDebugName(c) ==
  LET i == stopping[c].inst IN
  /\ stopping[c].pc = "row"
  /\ SetRow(i, "Stopped")
  /\ StopTo(c, "room", i)
  /\ UNCHANGED <<roomVars, acted, mapVars, gameVars, reader, leaving, watchdog, timedOut>>

StopRow(c) ==
  LET i == stopping[c].inst IN
  /\ stopping[c].pc = "row"
  /\ SetRow(i, "stopped")
  /\ StopTo(c, "room", i)
  /\ UNCHANGED <<roomVars, acted, mapVars, gameVars, reader, leaving, watchdog, timedOut>>

StopRoom(c) ==
  /\ stopping[c].pc = "room"
  /\ SetStatus("Destroyed")
  /\ StopTo(c, "idle", 0)
  /\ UNCHANGED <<host, viewed, seat, senior, instVars, mapVars, gameVars,
                 reader, leaving, watchdog, timedOut>>

Stop(c) == StopGone(c) \/ StopKill(c) \/ StopRow(c) \/ StopRoom(c)

------------------------------------------------------------------------------
\* The steps of the manager's own tasks, and of the game processes.
InstanceTasks(i) ==
  \/ Reader(i) \/ OnHeartbeat(i) \/ OnAction(i) \/ Watchdog(i)
  \/ BeatLate(i) \/ TimeoutMark(i) \/ TimeoutRoom(i)

ManagerTasks ==
  \/ \E i \in Instances : Game(i) \/ InstanceTasks(i)
  \/ \E c \in Stoppers : Stop(c)
==============================================================================
