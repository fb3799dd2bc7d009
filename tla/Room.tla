-------------------------------- MODULE Room --------------------------------
(***************************************************************************)
(* The HTTP handlers of crates/lobby/src/http/room.rs on one room.  create *)
(* and join run in a transaction and are single steps; leave and start     *)
(* issue their statements one by one, so a request in flight has a program *)
(* counter and keeps what it read.  A request that is refused changes      *)
(* nothing and is left out unless it had already begun.                    *)
(***************************************************************************)
EXTENDS RoomTables

CONSTANT Requests  \* slots for the requests that can be in flight together

VARIABLE req  \* [pc, user, host] of each request

handlerVars == <<roomVars, req>>

LeavePCs == {"leave_delete", "leave_select", "leave_destroy", "leave_promote"}
StartPCs == {"start_tokens", "start_mark", "start_spawn", "start_insert"}
RequestPCs == {"idle", "rollback"} \cup LeavePCs \cup StartPCs

Idle == [pc |-> "idle", user |-> NoUser, host |-> NoUser]

ReqTypeOK ==
  req \in [Requests -> [pc : RequestPCs, user : Users \cup {NoUser}, host : Users \cup {NoUser}]]

ReqInit == req = [r \in Requests |-> Idle]
ReqReset == req' = [r \in Requests |-> Idle]

AtRest == \A r \in Requests : req[r].pc = "idle"

At(r, p) == req[r].pc = p
SlotFree == \E r \in Requests : At(r, "idle")
Goto(r, p) == req' = [req EXCEPT ![r].pc = p]
Return(r) == req' = [req EXCEPT ![r] = Idle]

-----------------------------------------------------------------------------
\* POST /api/rooms: one transaction inserts the room and seats its host.
Create(u) ==
  /\ SlotFree
  /\ roomStatus = "None"
  /\ SetStatus("Waiting")
  /\ host' = u
  /\ seat' = [seat EXCEPT ![u] = 0]
  /\ UNCHANGED <<viewed, senior, req>>

\* GET /api/rooms/:id: viewing the room page is the room's heartbeat.
View ==
  /\ roomStatus # "None"
  /\ viewed' = "fresh"
  /\ UNCHANGED <<roomStatus, host, seat, senior, req>>

\* Mutant of SeatFor: the next seat is the number of members.
SeatByCount(s) == s = Cardinality(Members)

\* (0..max_p).find(not taken).unwrap_or(0)
SeatFor(s) == \/ s \in FreeSeats /\ \A t \in FreeSeats : s <= t
              \/ FreeSeats = {} /\ s = 0

\* Mutant of Sit: members of the same second are not ordered by seat.
SitUntied(u, s) ==
  \E after \in SUBSET {m \in Members : seat[m] > s} :
    /\ seat' = [seat EXCEPT ![u] = s]
    /\ senior' = senior \cup ((Members \ after) \X {u})

\* INSERT INTO room_players: the members that joined in the same second and
\* sit on a higher seat sort after u.
Sit(u, s) ==
  \E after \in SUBSET {m \in Members : seat[m] > s} :
    /\ \A m \in after, n \in Members : <<m, n>> \in senior => n \in after
    /\ seat' = [seat EXCEPT ![u] = s]
    /\ senior' = senior \cup ((Members \ after) \X {u}) \cup ({u} \X after)

\* Mutant of Join: the status of the room is not checked.
JoinAnyStatus(u) ==
  /\ SlotFree
  /\ roomStatus # "None"
  /\ Cardinality(Members) < MaxPlayers
  /\ u \notin Members
  /\ \E s \in Seats : SeatFor(s) /\ Sit(u, s)
  /\ UNCHANGED <<roomStatus, host, viewed, req>>

\* Mutant of Join: seats are numbered from 1.
JoinFromOne(u) ==
  /\ SlotFree
  /\ roomStatus = "Waiting"
  /\ Cardinality(Members) < MaxPlayers
  /\ u \notin Members
  /\ \E s \in 1 .. MaxPlayers : s \notin {seat[m] : m \in Members} /\ Sit(u, s)
  /\ UNCHANGED <<roomStatus, host, viewed, req>>

\* POST /api/rooms/:id/join: one transaction (SQLite refuses the commit of a
\* transaction whose snapshot is stale, which changes nothing).
Join(u) ==
  /\ SlotFree
  /\ roomStatus = "Waiting"
  /\ Cardinality(Members) < MaxPlayers
  /\ u \notin Members
  /\ \E s \in Seats : SeatFor(s) /\ Sit(u, s)
  /\ UNCHANGED <<roomStatus, host, viewed, req>>

-----------------------------------------------------------------------------
\* POST /api/rooms/:id/leave, statement 1: read host_uid.
LeaveRead(r, u) ==
  /\ At(r, "idle")
  /\ roomStatus # "None"
  /\ req' = [req EXCEPT ![r] = [pc |-> "leave_delete", user |-> u, host |-> host]]
  /\ UNCHANGED roomVars

\* Statement 2: DELETE the membership; no row is NOT_IN_ROOM.
LeaveDelete(r) ==
  /\ At(r, "leave_delete")
  /\ IF req[r].user \in Members THEN Goto(r, "leave_select") ELSE Return(r)
  /\ RemoveMembers({req[r].user})
  /\ UNCHANGED <<roomStatus, host, viewed>>

\* Mutant of LeaveSelect: the host is never replaced.
LeaveSelectKeepHost(r) ==
  /\ At(r, "leave_select")
  /\ IF Members = {} THEN Goto(r, "leave_destroy") ELSE Return(r)
  /\ UNCHANGED roomVars

\* Mutant of LeaveSelect: an empty room is not closed.
LeaveSelectKeepRoom(r) ==
  /\ At(r, "leave_select")
  /\ \/ Members = {} /\ Return(r)
     \/ /\ req[r].host = req[r].user
        /\ \E m \in Members :
             Earliest(m) /\ req' = [req EXCEPT ![r].pc = "leave_promote", ![r].host = m]
     \/ Members # {} /\ req[r].host # req[r].user /\ Return(r)
  /\ UNCHANGED roomVars

\* Statement 3: SELECT the earliest remaining member.  Whether to promote it
\* is decided by the host_uid that statement 1 read.
LeaveSelect(r) ==
  /\ At(r, "leave_select")
  /\ \/ Members = {} /\ Goto(r, "leave_destroy")
     \/ /\ req[r].host = req[r].user
        /\ \E m \in Members :
             Earliest(m) /\ req' = [req EXCEPT ![r].pc = "leave_promote", ![r].host = m]
     \/ Members # {} /\ req[r].host # req[r].user /\ Return(r)
  /\ UNCHANGED roomVars

\* Statement 4, nobody was left: close the room.
LeaveDestroy(r) ==
  /\ At(r, "leave_destroy")
  /\ SetStatus("Destroyed")
  /\ Return(r)
  /\ UNCHANGED <<host, viewed, seat, senior>>

\* Statement 4, the host left: promote the member that statement 3 returned.
LeavePromote(r) ==
  /\ At(r, "leave_promote")
  /\ host' = req[r].host
  /\ Return(r)
  /\ UNCHANGED <<roomStatus, viewed, seat, senior>>

-----------------------------------------------------------------------------
\* POST /api/rooms/:id/start: read the room, check the caller and the status.
StartRead(r, u) ==
  /\ At(r, "idle")
  /\ host = u
  /\ roomStatus \in {"Waiting", "Finished"}
  /\ req' = [req EXCEPT ![r] = [pc |-> "start_tokens", user |-> u, host |-> host]]
  /\ UNCHANGED roomVars

\* Read the members that hold an unexpired session, check their number.
StartTokens(r) ==
  /\ At(r, "start_tokens")
  /\ \E players \in SUBSET Members :
       IF Cardinality(players) \in MinPlayers .. MaxPlayers
         THEN Goto(r, "start_mark")
         ELSE Return(r)
  /\ UNCHANGED roomVars

\* UPDATE rooms SET status='Starting', whatever the status is by now.
StartMark(r) ==
  /\ At(r, "start_mark")
  /\ SetStatus("Starting")
  /\ Goto(r, "start_spawn")
  /\ UNCHANGED <<host, viewed, seat, senior>>

\* The part of InstanceManager::spawn the handler awaits: the process runs and
\* its row is inserted, then the instance is put in the manager's map.
StartSpawned(r) == At(r, "start_spawn") /\ Goto(r, "start_insert") /\ UNCHANGED roomVars
StartReturn(r) == At(r, "start_insert") /\ Return(r) /\ UNCHANGED roomVars

\* spawn failed: a detached task rolls the room back to Waiting.
StartFail(r) ==
  /\ "spawn" \in Faults
  /\ At(r, "start_spawn")
  /\ Goto(r, "rollback")
  /\ UNCHANGED roomVars

\* Mutant of Rollback: the room stays Starting.
RollbackNothing(r) ==
  /\ At(r, "rollback")
  /\ Return(r)
  /\ UNCHANGED roomVars

\* The detached task that rolls the room back.
Rollback(r) ==
  /\ At(r, "rollback")
  /\ SetStatus("Waiting")
  /\ Return(r)
  /\ UNCHANGED <<host, viewed, seat, senior>>

\* The client hangs up and hyper drops the handler's future where it awaits.
Cancel(r) ==
  /\ "cancel" \in Faults
  /\ req[r].pc \in LeavePCs \cup (StartPCs \ {"start_insert"})
  /\ Return(r)
  /\ UNCHANGED roomVars

\* A request arrives; create, get and join are over in that step.
Arrive ==
  \/ \E u \in Users : Create(u) \/ Join(u)
  \/ View
  \/ \E r \in Requests, u \in Users : LeaveRead(r, u) \/ StartRead(r, u)

\* A request in flight proceeds, but for the steps joint with the manager.
Proceed(r) ==
  \/ LeaveDelete(r) \/ LeaveSelect(r) \/ LeaveDestroy(r) \/ LeavePromote(r)
  \/ StartTokens(r) \/ StartMark(r) \/ StartFail(r) \/ Rollback(r)

-----------------------------------------------------------------------------
\* What the rest of the lobby may do to the room's rows.
GameOutcome ==
  /\ roomStatus # "None"
  /\ \E s \in {"Waiting", "Running", "Finished", "Destroyed"} : SetStatus(s)
  /\ UNCHANGED <<host, viewed, seat, senior, req>>

Removal ==
  /\ roomStatus # "None"
  /\ \E S \in SUBSET Users : RemoveMembers(S)
  /\ UNCHANGED <<roomStatus, host, viewed, req>>

Unviewed ==
  /\ viewed = "fresh"
  /\ viewed' = "old"
  /\ UNCHANGED <<roomStatus, host, seat, senior, req>>

\* A lobby that dies takes its requests with it.
DropRequests == ReqReset /\ UNCHANGED roomVars

Environment == GameOutcome \/ Removal \/ Unviewed \/ DropRequests

RoomNext ==
  \/ Arrive
  \/ \E r \in Requests : Proceed(r) \/ StartSpawned(r) \/ StartReturn(r)
OpenNext == RoomNext \/ (\E r \in Requests : Cancel(r)) \/ Environment

RoomInit == TablesInit /\ ReqInit

RoomSpec == RoomInit /\ [][RoomNext]_handlerVars
OpenSpec == RoomInit /\ [][OpenNext]_handlerVars

-----------------------------------------------------------------------------
\* The types of the room's rows and of the requests.
RoomTypeOK == TablesTypeOK /\ ReqTypeOK

\* No two members sit on the same seat, whatever joins and leaves are in
\* flight: join's unwrap_or(0) can never hand out an occupied seat.
SeatsDistinct ==
  \A u, v \in Members : seat[u] = seat[v] => u = v

\* senior orders the members totally: the promoted host is well defined.
SeniorityTotal ==
  /\ senior \subseteq Members \X Members
  /\ \A u, v \in Members : u # v => (<<u, v>> \in senior <=> <<v, u>> \notin senior)

\* While no request is in flight, the host of a room that exists is one of its
\* members (docs/room_lifecycle.md:63 and :121).
HostIsMember ==
  AtRest /\ roomStatus \notin {"None", "Destroyed"} => host \in Members

\* While no request is in flight, only a destroyed room has no members.
EmptyMeansDestroyed ==
  AtRest /\ Members = {} => roomStatus \in {"None", "Destroyed"}

\* While no request is in flight, a destroyed room has no members: destroyed
\* means that everybody left (docs/protocol_spec.md:38).
DestroyedIsEmpty ==
  AtRest /\ roomStatus = "Destroyed" => Members = {}
=============================================================================
