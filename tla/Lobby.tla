-------------------------------- MODULE Lobby --------------------------------
(***************************************************************************)
(* The lobby process: the room handlers and the instance manager running   *)
(* concurrently, the stale-room cleanup task (cleanup.rs), and the life of *)
(* the process itself (main.rs): boot with its orphan sweep, graceful      *)
(* shutdown, and crashes that lose the memory and keep the database.       *)
(***************************************************************************)
EXTENDS Room, InstanceManager

CONSTANTS
  MaxLives,        \* bound: how often the lobby process is started
  CleanupEnabled   \* FALSE: a cleanup interval longer than the behaviour

Cleanup == "cleanup"     \* the stale-room cleanup task
Shutdown == "shutdown"   \* main() after the server has stopped

ASSUME LivesAssumption == MaxLives \in Nat \ {0}
ASSUME StoppersAssumption == Stoppers = {Cleanup, Shutdown}

VARIABLES
  life,      \* what the lobby process is doing
  lives,     \* how often it was started
  sweep,     \* [pc, todo, inst] of the cleanup task's destroy_room
  inserting, \* the instance that a start request is about to put in the map
  draining   \* the instances that shutdown_all has not stopped yet

lobbyVars == <<life, lives, sweep, inserting, draining>>
vars == <<handlerVars, managerVars, lobbyVars>>

LobbyTypeOK ==
  /\ RoomTypeOK
  /\ ManagerTypeOK
  /\ life \in {"down", "boot_rows", "boot_rooms", "up", "closing", "stopping"}
  /\ lives \in 0 .. MaxLives
  /\ sweep \in [pc : {"idle", "list", "next", "stop", "row", "room"},
                todo : SUBSET Instances, inst : Instances \cup {0}]
  /\ inserting \in [Requests -> Instances \cup {0}]
  /\ draining \in SUBSET Instances

SweepIdle == [pc |-> "idle", todo |-> {}, inst |-> 0]

LobbyInit ==
  /\ RoomInit
  /\ ManagerInit
  /\ life = "up"
  /\ lives = 1
  /\ sweep = SweepIdle
  /\ inserting = [r \in Requests |-> 0]
  /\ draining = {}

------------------------------------------------------------------------------
(* The requests: the server takes new ones while it is up, and finishes the *)
(* ones in flight while it closes.                                          *)

\* Bound: a start is requested only when an instance is left for it.
StartsBounded ==
  Cardinality({r \in Requests : req[r].pc \in StartPCs \ {"start_insert"}}) <=
    Cardinality({i \in Instances : row[i] = "none"})

Take ==
  /\ life = "up"
  /\ Arrive
  /\ UNCHANGED <<managerVars, lobbyVars>>
  /\ StartsBounded'

Serve(r) == Proceed(r) /\ UNCHANGED <<managerVars, lobbyVars>>
HangUp(r) == Cancel(r) /\ UNCHANGED <<managerVars, lobbyVars>>

StartSpawn(r, i) ==
  /\ StartSpawned(r)
  /\ Spawn(i)
  /\ inserting' = [inserting EXCEPT ![r] = i]
  /\ UNCHANGED <<life, lives, sweep, draining>>

StartInsert(r) ==
  /\ StartReturn(r)
  /\ Insert(inserting[r])
  /\ inserting' = [inserting EXCEPT ![r] = 0]
  /\ UNCHANGED <<life, lives, sweep, draining>>

\* The handler waits for the manager's lock when its client hangs up: the
\* reader task keeps the child, the map never gets the entry.
StartAbandon(r) ==
  /\ "cancel" \in Faults /\ ~LockFree
  /\ StartReturn(r)
  /\ inserting' = [inserting EXCEPT ![r] = 0]
  /\ UNCHANGED <<managerVars, life, lives, sweep, draining>>

StartOn(r) == StartInsert(r) \/ \E i \in Instances : StartSpawn(r, i)

Requesting ==
  \/ Take
  \/ \E r \in Requests : Serve(r) \/ StartOn(r) \/ HangUp(r) \/ StartAbandon(r)

\* A step of the manager's tasks or of a game process.
Run(A) == A /\ UNCHANGED <<req, lobbyVars>>

Manage == life # "down" /\ Run(ManagerTasks)

\* A game lasts longer than it takes to put its instance in the map.
Finish(i) == (\A r \in Requests : inserting[r] # i) /\ Run(GameOver(i))

------------------------------------------------------------------------------
(* cleanup.rs *)

SweepTo(p) == sweep' = [sweep EXCEPT !.pc = p]

\* 300 s pass; the short tasks of the room are over long before.
LongWait ==
  /\ AtRest /\ LockFree
  /\ \A i \in Instances : /\ watchdog[i] = "off"
                          /\ reader[i] \in {"none", "read", "end"}
                          /\ reader[i] = "read" => out[i] = <<>> /\ game[i] # "dead"

GrowOld ==
  /\ CleanupEnabled /\ LongWait
  /\ \/ Unviewed /\ UNCHANGED instVars
     \/ \E i \in Instances :
          /\ row[i] # "none" /\ acted[i] = "fresh"
          /\ acted' = [acted EXCEPT ![i] = "old"]
          /\ UNCHANGED <<handlerVars, row>>
  /\ UNCHANGED <<mapVars, gameVars, taskVars, lobbyVars>>

\* sweep_running_stuck: a game without an action for 300 s.
SweepRunningStuck ==
  /\ sweep.pc = "idle"
  /\ roomStatus \in {"Running", "Starting"}
  /\ \E i \in Instances : row[i] \in Active /\ acted[i] = "old"
  /\ SweepTo("list")
  /\ UNCHANGED <<handlerVars, managerVars, life, lives, inserting, draining>>

\* sweep_waiting_stale: a waiting room nobody viewed for 300 s, or ever.
SweepWaitingStale ==
  /\ sweep.pc = "idle"
  /\ roomStatus = "Waiting"
  /\ viewed # "fresh"
  /\ SweepTo("list")
  /\ UNCHANGED <<handlerVars, managerVars, life, lives, inserting, draining>>

\* destroy_room: the instances to stop ...
SweepList ==
  /\ sweep.pc = "list"
  /\ sweep' = [sweep EXCEPT !.pc = "next", !.todo = {i \in Instances : row[i] \in Active}]
  /\ UNCHANGED <<handlerVars, managerVars, life, lives, inserting, draining>>

\* ... stopping each one that the map still has ...
SweepStop(i) ==
  /\ sweep.pc = "next" /\ i \in sweep.todo
  /\ StopBegin(Cleanup, i)
  /\ sweep' = [sweep EXCEPT !.pc = "stop", !.inst = i]
  /\ UNCHANGED <<req, life, lives, inserting, draining>>

SweepSkip(i) ==
  /\ sweep.pc = "next" /\ i \in sweep.todo
  /\ LockFree /\ entry[i] = "none"
  /\ sweep' = [sweep EXCEPT !.pc = "row", !.inst = i]
  /\ UNCHANGED <<handlerVars, managerVars, life, lives, inserting, draining>>

SweepStopped ==
  /\ sweep.pc = "stop" /\ stopping[Cleanup].pc = "idle"
  /\ SweepTo("row")
  /\ UNCHANGED <<handlerVars, managerVars, life, lives, inserting, draining>>

\* ... and marking its row, whatever happened to it since the list ...
SweepRow ==
  /\ sweep.pc = "row"
  /\ SetRow(sweep.inst, "abnormal")
  /\ sweep' = [pc |-> "next", todo |-> sweep.todo \ {sweep.inst}, inst |-> 0]
  /\ UNCHANGED <<handlerVars, acted, mapVars, gameVars, taskVars, life, lives, inserting, draining>>

\* ... then the members, then the room.
SweepMembers ==
  /\ sweep.pc = "next" /\ sweep.todo = {}
  /\ RemoveMembers(Users)
  /\ SweepTo("room")
  /\ UNCHANGED <<roomStatus, host, viewed, req, managerVars, life, lives, inserting, draining>>

SweepRoom ==
  /\ sweep.pc = "room"
  /\ SetStatus("Destroyed")
  /\ SweepTo("idle")
  /\ UNCHANGED <<host, viewed, seat, senior, req, managerVars, life, lives, inserting, draining>>

Sweep ==
  /\ CleanupEnabled /\ life # "down"
  /\ \/ SweepRunningStuck \/ SweepWaitingStale
     \/ SweepList \/ \E i \in Instances : SweepStop(i) \/ SweepSkip(i)
     \/ SweepStopped \/ SweepRow \/ SweepMembers \/ SweepRoom

------------------------------------------------------------------------------
(* main.rs *)

LifeTo(p) == life' = p

\* Every request was answered; a rollback is a task of its own.
Served == \A r \in Requests : req[r].pc \in {"idle", "rollback"}

\* SIGTERM: the server takes no more requests and drains the ones in flight ...
Close ==
  /\ life = "up" /\ lives < MaxLives
  /\ LifeTo("closing")
  /\ UNCHANGED <<handlerVars, managerVars, lives, sweep, inserting, draining>>

\* ... shutdown_all then stops the instances the map has at that moment ...
Drain ==
  /\ life = "closing" /\ Served /\ LockFree
  /\ LifeTo("stopping")
  /\ draining' = {i \in Instances : entry[i] # "none"}
  /\ UNCHANGED <<handlerVars, managerVars, lives, sweep, inserting>>

DrainStop(i) ==
  /\ life = "stopping" /\ i \in draining
  /\ \/ StopBegin(Shutdown, i)
     \/ stopping[Shutdown].pc = "idle" /\ LockFree /\ entry[i] = "none" /\ UNCHANGED <<roomVars, managerVars>>
  /\ draining' = draining \ {i}
  /\ UNCHANGED <<req, life, lives, sweep, inserting>>

\* The memory of the lobby process is gone, what it had sent to the database
\* is there.
LoseMemory ==
  /\ MapReset
  /\ ReqReset
  /\ sweep' = SweepIdle
  /\ inserting' = [r \in Requests |-> 0]
  /\ draining' = {}
  /\ LifeTo("down")
  /\ out' = [i \in Instances |-> <<>>]
  /\ inbox' = [i \in Instances |-> {}]
  /\ stalled' = [i \in Instances |-> FALSE]
  /\ UNCHANGED <<roomVars, instVars, lives>>

\* ... and the process exits, killing the children it still holds.
Exit ==
  /\ life = "stopping" /\ draining = {} /\ stopping[Shutdown].pc = "idle"
  /\ game' = [i \in Instances |-> IF game[i] \in Alive THEN "dead" ELSE game[i]]
  /\ LoseMemory

\* The process is killed: its children stay.
Crash ==
  /\ "crash" \in Faults /\ life # "down" /\ lives < MaxLives
  /\ game' = [i \in Instances |-> IF game[i] \in Alive THEN "orphan" ELSE game[i]]
  /\ LoseMemory

\* A new process: the background tasks run from here on.
Boot ==
  /\ life = "down" /\ lives < MaxLives
  /\ LifeTo("boot_rows")
  /\ lives' = lives + 1
  /\ UNCHANGED <<handlerVars, managerVars, sweep, inserting, draining>>

\* Mutant of BootRows: rows of games that had not started are left alone.
BootRunningRows ==
  /\ life = "boot_rows"
  /\ row' = [i \in Instances |-> IF row[i] = "running" THEN "abnormal" ELSE row[i]]
  /\ LifeTo(IF \E i \in Instances : row[i] = "running" THEN "boot_rooms" ELSE "up")
  /\ UNCHANGED <<handlerVars, acted, mapVars, gameVars, taskVars, lives, sweep, inserting, draining>>

\* The orphan sweep closes the rows the previous process left active ...
BootRows ==
  /\ life = "boot_rows"
  /\ row' = [i \in Instances |-> IF row[i] \in Active THEN "abnormal" ELSE row[i]]
  /\ LifeTo(IF \E i \in Instances : row[i] \in Active THEN "boot_rooms" ELSE "up")
  /\ UNCHANGED <<handlerVars, acted, mapVars, gameVars, taskVars, lives, sweep, inserting, draining>>

\* ... and, if there were any, rolls back rooms that were Running.
BootRooms ==
  /\ life = "boot_rooms"
  /\ IF roomStatus = "Running" /\ \E i \in Instances : row[i] = "abnormal"
       THEN SetStatus("Waiting") ELSE UNCHANGED roomStatus
  /\ LifeTo("up")
  /\ UNCHANGED <<host, viewed, seat, senior, req, managerVars, lives, sweep, inserting, draining>>

Process ==
  \/ Close \/ Drain \/ \E i \in Instances : DrainStop(i)
  \/ Exit \/ Crash \/ Boot \/ BootRows \/ BootRooms

Next ==
  \/ Requesting \/ Manage \/ \E i \in Instances : Finish(i)
  \/ Sweep \/ GrowOld \/ Process

Spec == LobbyInit /\ [][Next]_vars

\* tokio schedules every task that can go on and its mutex is first come, first
\* served; timers fire, the watchdog's even for a game that is scheduled every
\* now and then (SF); a game that runs handles its stdin.  Nothing makes a
\* client send a request, a game finish, or a stalled process run again.
Fairness ==
  /\ \A r \in Requests : WF_vars(Serve(r)) /\ WF_vars(StartOn(r))
  /\ \A i \in Instances : /\ WF_vars(Run(Reader(i)))
                          /\ SF_vars(Run(Watchdog(i)))
                          /\ WF_vars(Run(BeatLate(i)))
                          /\ WF_vars(Run(TimeoutMark(i) \/ TimeoutRoom(i)))
                          /\ WF_vars(Run(GameReady(i)))
                          /\ WF_vars(Run(GameStart(i) \/ GameStop(i)))
                          /\ WF_vars(DrainStop(i))
  /\ \A c \in Stoppers : WF_vars(Run(Stop(c)))
  /\ WF_vars(Drain) /\ WF_vars(Exit)

FairSpec == Spec /\ Fairness

------------------------------------------------------------------------------
(* What holds. *)

\* A game process that runs has an entry in the map, or a start request is
\* about to give it one: reader, watchdog and stop() all remove entries, and
\* each has reaped the child first.  (A start abandoned by its client while it
\* waits for the lock is the exception, fault "cancel".)
NoStrayProcess ==
  \A i \in Instances :
    game[i] \in Alive => entry[i] # "none" \/ \E r \in Requests : inserting[r] = i

\* A room that is Running has an active instance row, but for the moments
\* between the two writes of a task that holds the lock: whatever games run,
\* the status is last written for the game that was last to end.
RunningHasRow ==
  roomStatus = "Running" /\ LockFree => \E i \in Instances : row[i] \in Active

\* Once the boot sweep has run, no row of a game of an earlier life is active.
OrphanRowsClosed ==
  life \notin {"down", "boot_rows"} =>
    \A i \in Instances : game[i] = "orphan" => row[i] \notin Active

\* When all short tasks are over, a Running room has a running game that the
\* manager knows, and no room is still Starting (docs/room_lifecycle.md:49-51).
RoomMatchesGames ==
  life = "up" /\ LongWait =>
    /\ roomStatus # "Starting"
    /\ roomStatus = "Running" =>
         \E i \in Instances : game[i] \in Alive /\ entry[i] \in {"Ready", "Running"}

\* stop() returns, whatever the game does with its stdin and its stdout.
StopReturns ==
  \A c \in Stoppers : stopping[c].pc # "idle" ~> stopping[c].pc = "idle"

\* SIGTERM ends the lobby process.
ShutdownEnds == life = "closing" ~> life = "down"

\* A room does not stay Starting: the game gets ready or the room goes back.
StartResolves == roomStatus = "Starting" ~> roomStatus # "Starting"

------------------------------------------------------------------------------
(* What the documents say and the code does not do. *)

\* The command that answers ready makes the game run
\* (docs/room_lifecycle.md:71), unless the game ends before.  It holds when
\* GameReads is {"cmd"}, the tag of protocol_spec.md, and not for the SDK.
StartReachesGame ==
  \A i \in Instances : row[i] = "ready" ~> row[i] # "ready" \/ game[i] \notin Alive

\* A room that is Running is not started again (docs/protocol_spec.md:59): no
\* two games of it run at a time.
OneRunningGame ==
  \A i, j \in Instances :
    entry[i] \in {"Ready", "Running"} /\ entry[j] \in {"Ready", "Running"} => i = j

\* Destroyed is final (docs/room_lifecycle.md:59).
DestroyedIsFinal == [][roomStatus = "Destroyed" => roomStatus' = "Destroyed"]_vars

\* The host of a Finished room that has members is one of them
\* (docs/room_lifecycle.md:63, docs/protocol_spec.md:61).
FinishedHostIsMember ==
  AtRest /\ LockFree /\ roomStatus = "Finished" /\ Members # {} => host \in Members

\* An instance without heartbeat is killed (docs/design.md:188).
AbnormalKilled ==
  \A i \in Instances : entry[i] = "Abnormal" ~> game[i] \notin Alive
==============================================================================
