----------------------------- MODULE RoomProofs -----------------------------
(***************************************************************************)
(* Safety of the room handlers, for any number of users, seats and         *)
(* concurrent requests and whatever else the lobby does to the room's rows *)
(* (OpenSpec): the rows keep their types, no two members share a seat, and *)
(* the members are totally ordered by seniority.                           *)
(***************************************************************************)
EXTENDS Room, FiniteSetTheorems, TLAPS

\* A room that does not exist has no members.  Neither of the invariants below
\* is inductive without it: create seats the host without looking.
NoRoomNoMembers == roomStatus = "None" => Members = {}

RoomInv == RoomTypeOK /\ NoRoomNoMembers /\ SeatsDistinct /\ SeniorityTotal

\* While fewer than max_p members are seated, a seat is free: the query of
\* join finds one and its unwrap_or(0) is never taken.
LEMMA FreeSeatExists ==
  ASSUME TablesTypeOK, Cardinality(Members) < MaxPlayers
  PROVE  FreeSeats # {}
<1> SUFFICES ASSUME FreeSeats = {} PROVE FALSE
  OBVIOUS
<1> DEFINE f == [m \in Members |-> seat[m]]
<1>1. IsFiniteSet(Members)
  BY FS_Subset, UsersAssumption DEF Members
<1>2. f \in Surjection(Members, Seats)
  BY DEF Surjection, FreeSeats, Members, TablesTypeOK, NoSeat, Seats
<1>3. Cardinality(Seats) <= Cardinality(Members)
  BY <1>1, <1>2, FS_Surjection
<1>4. Cardinality(Seats) = MaxPlayers
  BY FS_Interval, PlayersAssumption DEF Seats
<1>5. Cardinality(Members) \in Nat
  BY <1>1, FS_CardinalityType
<1> QED
  BY <1>3, <1>4, <1>5, PlayersAssumption

LEMMA InitRoomInv == RoomInit => RoomInv
  BY UsersAssumption
  DEF RoomInit, RoomInv, NoRoomNoMembers, TablesInit, ReqInit, Idle, RoomTypeOK, TablesTypeOK, ReqTypeOK,
      SeatsDistinct, SeniorityTotal, Members, Seats, NoSeat, RoomStatuses, RequestPCs

-----------------------------------------------------------------------------
(* Types. *)

LEMMA ArriveTypeOK == RoomTypeOK /\ Arrive => RoomTypeOK'
<1> SUFFICES ASSUME RoomTypeOK, Arrive PROVE RoomTypeOK'
  OBVIOUS
<1> USE DEF RoomTypeOK, TablesTypeOK, ReqTypeOK, RoomStatuses, RequestPCs, LeavePCs, StartPCs, Seats
<1>1. CASE \E u \in Users : Create(u)
  BY <1>1, PlayersAssumption DEF Create, SetStatus
<1>2. CASE \E u \in Users : Join(u)
  <2>1. PICK u \in Users : Join(u)
    BY <1>2
  <2>2. seat' \in [Users -> Seats \cup {NoSeat}]
    BY <2>1 DEF Join, Sit
  <2>3. senior' \in SUBSET (Users \X Users)
    BY <2>1 DEF Join, Sit, Members
  <2> QED
    BY <2>1, <2>2, <2>3 DEF Join
<1>3. CASE View
  BY <1>3 DEF View
<1>4. CASE \E r \in Requests, u \in Users : LeaveRead(r, u) \/ StartRead(r, u)
  BY <1>4 DEF LeaveRead, StartRead, roomVars
<1> QED
  BY <1>1, <1>2, <1>3, <1>4 DEF Arrive

LEMMA RemoveMembersTypeOK ==
  ASSUME NEW S, seat \in [Users -> Seats \cup {NoSeat}], senior \in SUBSET (Users \X Users),
         RemoveMembers(S)
  PROVE  seat' \in [Users -> Seats \cup {NoSeat}] /\ senior' \in SUBSET (Users \X Users)
  BY DEF RemoveMembers

LEMMA ProceedTypeOK ==
  ASSUME RoomTypeOK, NEW r \in Requests, Proceed(r) \/ Cancel(r) \/ StartSpawned(r) \/ StartReturn(r)
  PROVE  RoomTypeOK'
<1> USE DEF RoomTypeOK, TablesTypeOK, ReqTypeOK, RoomStatuses, RequestPCs, LeavePCs, StartPCs,
            Goto, Return, Idle, roomVars, SetStatus
<1>1. CASE LeaveDelete(r)
  BY <1>1, RemoveMembersTypeOK DEF LeaveDelete
<1>2. CASE LeaveSelect(r)
  BY <1>2 DEF LeaveSelect, Members
<1>3. CASE LeaveDestroy(r)
  BY <1>3 DEF LeaveDestroy
<1>4. CASE LeavePromote(r)
  BY <1>4 DEF LeavePromote
<1>5. CASE StartTokens(r)
  BY <1>5 DEF StartTokens
<1>6. CASE StartMark(r) \/ StartFail(r) \/ Rollback(r)
  BY <1>6 DEF StartMark, StartFail, Rollback
<1>7. CASE Cancel(r) \/ StartSpawned(r) \/ StartReturn(r)
  BY <1>7 DEF Cancel, StartSpawned, StartReturn
<1> QED
  BY <1>1, <1>2, <1>3, <1>4, <1>5, <1>6, <1>7 DEF Proceed

\* Whatever the rest of the lobby does to the rows keeps their types.
LEMMA EnvironmentTypeOK == RoomTypeOK /\ Environment => RoomTypeOK'
<1> USE DEF RoomTypeOK, TablesTypeOK, ReqTypeOK, RoomStatuses, RequestPCs, roomVars, SetStatus
<1>1. RoomTypeOK /\ GameOutcome => RoomTypeOK'
  BY DEF GameOutcome
<1>2. RoomTypeOK /\ Removal => RoomTypeOK'
  BY RemoveMembersTypeOK DEF Removal
<1>3. RoomTypeOK /\ Unviewed => RoomTypeOK'
  BY DEF Unviewed
<1>4. RoomTypeOK /\ DropRequests => RoomTypeOK'
  BY DEF DropRequests, ReqReset, Idle
<1> QED
  BY <1>1, <1>2, <1>3, <1>4 DEF Environment

LEMMA TypeOKStep == RoomTypeOK /\ [OpenNext]_handlerVars => RoomTypeOK'
<1> SUFFICES ASSUME RoomTypeOK, [OpenNext]_handlerVars PROVE RoomTypeOK'
  OBVIOUS
<1>1. CASE UNCHANGED handlerVars
  BY <1>1 DEF handlerVars, roomVars, RoomTypeOK, TablesTypeOK, ReqTypeOK
<1>2. CASE Arrive \/ Environment
  BY <1>2, ArriveTypeOK, EnvironmentTypeOK
<1>3. CASE \E r \in Requests : Proceed(r) \/ Cancel(r) \/ StartSpawned(r) \/ StartReturn(r)
  BY <1>3, ProceedTypeOK
<1> QED
  BY <1>1, <1>2, <1>3 DEF OpenNext, RoomNext

-----------------------------------------------------------------------------
(* Seats and seniority change in three ways only. *)

LEMMA MembershipChanges ==
  [OpenNext]_handlerVars =>
    \/ UNCHANGED <<seat, senior>>
    \/ \E u \in Users : Create(u) \/ Join(u)
    \/ \E S : RemoveMembers(S)
<1> SUFFICES ASSUME [OpenNext]_handlerVars
             PROVE  \/ UNCHANGED <<seat, senior>>
                    \/ \E u \in Users : Create(u) \/ Join(u)
                    \/ \E S : RemoveMembers(S)
  OBVIOUS
<1> USE DEF roomVars
<1>1. CASE UNCHANGED handlerVars
  BY <1>1 DEF handlerVars
<1>2. CASE Arrive
  BY <1>2 DEF Arrive, View, LeaveRead, StartRead
<1>3. CASE Environment
  BY <1>3 DEF Environment, GameOutcome, Removal, Unviewed, DropRequests
<1>4. ASSUME NEW r \in Requests, Proceed(r)
      PROVE  UNCHANGED <<seat, senior>> \/ \E S : RemoveMembers(S)
  BY <1>4 DEF Proceed, LeaveDelete, LeaveSelect, LeaveDestroy, LeavePromote, StartTokens,
              StartMark, StartFail, Rollback
<1>5. ASSUME NEW r \in Requests, Cancel(r) \/ StartSpawned(r) \/ StartReturn(r)
      PROVE  UNCHANGED <<seat, senior>>
  BY <1>5 DEF Cancel, StartSpawned, StartReturn
<1> QED
  BY <1>1, <1>2, <1>3, <1>4, <1>5 DEF OpenNext, RoomNext

\* A room once created is never un-created.
LEMMA RoomStays == [OpenNext]_handlerVars /\ roomStatus' = "None" => roomStatus = "None"
<1> SUFFICES ASSUME [OpenNext]_handlerVars, roomStatus' = "None" PROVE roomStatus = "None"
  OBVIOUS
<1> USE DEF SetStatus, roomVars
<1>1. CASE UNCHANGED handlerVars
  BY <1>1 DEF handlerVars
<1>2. CASE Arrive
  BY <1>2 DEF Arrive, Create, Join, View, LeaveRead, StartRead
<1>3. CASE Environment
  BY <1>3 DEF Environment, GameOutcome, Removal, Unviewed, DropRequests
<1>4. ASSUME NEW r \in Requests, Proceed(r) PROVE roomStatus' = roomStatus \/ roomStatus' # "None"
  BY <1>4 DEF Proceed, LeaveDelete, LeaveSelect, LeaveDestroy, LeavePromote, StartTokens,
              StartMark, StartFail, Rollback
<1>5. ASSUME NEW r \in Requests, Cancel(r) \/ StartSpawned(r) \/ StartReturn(r)
      PROVE  roomStatus' = roomStatus
  BY <1>5 DEF Cancel, StartSpawned, StartReturn
<1> QED
  BY <1>1, <1>2, <1>3, <1>4, <1>5 DEF OpenNext, RoomNext

\* Nobody joins a room before it is created.
LEMMA NoRoomNoMembersStep ==
  RoomTypeOK /\ NoRoomNoMembers /\ [OpenNext]_handlerVars => NoRoomNoMembers'
<1> SUFFICES ASSUME RoomTypeOK, NoRoomNoMembers, [OpenNext]_handlerVars, roomStatus' = "None"
             PROVE  Members' = {}
  BY DEF NoRoomNoMembers
<1>1. roomStatus = "None"
  BY RoomStays
<1>2. Members = {}
  BY <1>1 DEF NoRoomNoMembers
<1>3. ASSUME NEW u \in Users PROVE ~Create(u) /\ ~Join(u)
  BY <1>1 DEF Create, Join, SetStatus
<1>4. CASE UNCHANGED <<seat, senior>>
  BY <1>2, <1>4 DEF Members
<1>5. ASSUME NEW S, RemoveMembers(S) PROVE Members' = {}
  BY <1>2, <1>5 DEF RemoveMembers, Members, NoSeat
<1> QED
  BY <1>3, <1>4, <1>5, MembershipChanges

\* Nobody shares a seat: join seats on a free one (FreeSeatExists).
LEMMA SeatsDistinctStep ==
  RoomInv /\ [OpenNext]_handlerVars => SeatsDistinct'
<1> SUFFICES ASSUME RoomInv, [OpenNext]_handlerVars PROVE SeatsDistinct'
  OBVIOUS
<1> USE DEF RoomInv, SeatsDistinct, RoomTypeOK, TablesTypeOK, NoSeat
<1>1. CASE UNCHANGED <<seat, senior>>
  BY <1>1 DEF Members
<1>2. ASSUME NEW u \in Users, Create(u) PROVE SeatsDistinct'
  <2>1. \A v \in Users : seat[v] = NoSeat
    BY <1>2 DEF Create, NoRoomNoMembers, Members
  <2> QED
    BY <1>2, <2>1 DEF Create, Members
<1>3. ASSUME NEW u \in Users, Join(u) PROVE SeatsDistinct'
  <2>1. FreeSeats # {}
    BY <1>3, FreeSeatExists DEF Join
  <2>2. PICK s \in FreeSeats : seat' = [seat EXCEPT ![u] = s]
    BY <1>3, <2>1 DEF Join, SeatFor, Sit
  <2> QED
    BY <2>2 DEF FreeSeats, Members
<1>4. ASSUME NEW S, RemoveMembers(S) PROVE SeatsDistinct'
  BY <1>4 DEF RemoveMembers, Members
<1> QED
  BY <1>1, <1>2, <1>3, <1>4, MembershipChanges

\* A newcomer is placed in the order of the members, before or after each.
LEMMA SeniorityTotalStep ==
  RoomInv /\ [OpenNext]_handlerVars => SeniorityTotal'
<1> SUFFICES ASSUME RoomInv, [OpenNext]_handlerVars PROVE SeniorityTotal'
  OBVIOUS
<1> USE DEF RoomInv, SeniorityTotal, RoomTypeOK, TablesTypeOK, NoSeat
<1>1. CASE UNCHANGED <<seat, senior>>
  BY <1>1 DEF Members
<1>2. ASSUME NEW u \in Users, Create(u) PROVE SeniorityTotal'
  <2>1. Members = {} /\ senior = {} /\ senior' = {}
    BY <1>2 DEF Create, NoRoomNoMembers
  <2>2. Members' = {u}
    BY <1>2, <2>1 DEF Create, Members
  <2> QED
    BY <2>1, <2>2
<1>3. ASSUME NEW u \in Users, Join(u) PROVE SeniorityTotal'
  <2>1. PICK s \in Seats, after \in SUBSET Members :
          /\ seat' = [seat EXCEPT ![u] = s]
          /\ senior' = senior \cup ((Members \ after) \X {u}) \cup ({u} \X after)
    BY <1>3 DEF Join, Sit
  <2>2. Members' = Members \cup {u} /\ u \notin Members
    BY <1>3, <2>1 DEF Join, Members, Seats
  <2>3. senior' \subseteq Members' \X Members'
    BY <2>1, <2>2
  <2>4. ASSUME NEW a \in Members', NEW b \in Members', a # b
        PROVE  <<a, b>> \in senior' <=> <<b, a>> \notin senior'
    BY <2>1, <2>2, <2>4
  <2> QED
    BY <2>3, <2>4
<1>4. ASSUME NEW S, RemoveMembers(S) PROVE SeniorityTotal'
  <2>1. Members' = Members \ S
    BY <1>4 DEF RemoveMembers, Members
  <2> QED
    BY <1>4, <2>1 DEF RemoveMembers
<1> QED
  BY <1>1, <1>2, <1>3, <1>4, MembershipChanges

-----------------------------------------------------------------------------
\* The inductive invariant, under every interleaving of requests and under
\* everything the rest of the lobby does.
THEOREM RoomInvariant == OpenSpec => []RoomInv
<1>1. RoomInv /\ [OpenNext]_handlerVars => RoomInv'
  BY TypeOKStep, NoRoomNoMembersStep, SeatsDistinctStep, SeniorityTotalStep DEF RoomInv
<1> QED
  BY InitRoomInv, <1>1, PTL DEF OpenSpec

\* The rows of a room and its requests keep their types.
THEOREM RoomTypeCorrect == OpenSpec => []RoomTypeOK
  BY RoomInvariant, PTL DEF RoomInv

\* No two members ever sit on the same seat.
THEOREM SeatsAreDistinct == OpenSpec => []SeatsDistinct
  BY RoomInvariant, PTL DEF RoomInv

\* The members are always totally ordered: the host that leave promotes is
\* well defined.
THEOREM SeniorityIsTotal == OpenSpec => []SeniorityTotal
  BY RoomInvariant, PTL DEF RoomInv
-----------------------------------------------------------------------------
(* The host, when requests come one after the other: leave and start are   *)
(* then interrupted by nothing but views of the room.  The statements of   *)
(* leave put the host and the members out of step, and the program counter *)
(* says by how much.                                                       *)

Open == roomStatus \notin {"None", "Destroyed"}

\* The room as its members see it between two requests.
Whole == (Open => host \in Members) /\ (~Open => Members = {})

\* What is true of the rows at each statement of the one request.
LeaveInv(r) ==
  /\ At(r, "leave_delete") => Whole /\ roomStatus # "None" /\ req[r].host = host
  /\ At(r, "leave_select") =>
       /\ Open
       /\ req[r].host = host
       /\ req[r].user \notin Members
       /\ host # req[r].user => host \in Members
  /\ At(r, "leave_destroy") => Open /\ Members = {}
  /\ At(r, "leave_promote") => Open /\ req[r].host \in Members

StartInv(r) == req[r].pc \in StartPCs \cup {"rollback"} => Whole /\ Open

OneRequestInv(r) ==
  /\ RoomTypeOK
  /\ At(r, "idle") => Whole
  /\ LeaveInv(r)
  /\ StartInv(r)

LEMMA InitOneRequest ==
  ASSUME NEW r \in Requests
  PROVE  RoomInit => OneRequestInv(r)
  BY InitRoomInv
  DEF RoomInv, RoomInit, TablesInit, ReqInit, Idle, OneRequestInv, Whole, Open, Members, LeaveInv,
      StartInv, StartPCs, At

LEMMA ArriveOneRequest ==
  ASSUME NEW r \in Requests, Requests = {r}, OneRequestInv(r), Arrive
  PROVE  (At(r, "idle") => Whole)' /\ LeaveInv(r)' /\ StartInv(r)'
<1> USE DEF OneRequestInv, At, Whole, Open, StartPCs, LeaveInv, StartInv
<1>1. ASSUME NEW u \in Users, Create(u)
      PROVE  (At(r, "idle") => Whole)' /\ LeaveInv(r)' /\ StartInv(r)'
  <2>1. At(r, "idle") /\ req' = req /\ roomStatus' = "Waiting" /\ host' = u
    BY <1>1 DEF Create, SlotFree, SetStatus
  <2>2. u \in Members'
    BY <1>1, PlayersAssumption DEF Create, Members, NoSeat, RoomTypeOK, TablesTypeOK
  <2> QED
    BY <2>1, <2>2
<1>2. ASSUME NEW u \in Users, Join(u)
      PROVE  (At(r, "idle") => Whole)' /\ LeaveInv(r)' /\ StartInv(r)'
  <2>1. At(r, "idle") /\ roomStatus = "Waiting" /\ UNCHANGED <<req, roomStatus, host>>
    BY <1>2 DEF Join, SlotFree
  <2>2. Members \subseteq Members'
    BY <1>2 DEF Join, Sit, Members, Seats, NoSeat, RoomTypeOK, TablesTypeOK
  <2> QED
    BY <2>1, <2>2
<1>3. CASE View
  BY <1>3 DEF View, Members
<1>4. ASSUME NEW u \in Users, LeaveRead(r, u) \/ StartRead(r, u)
      PROVE  (At(r, "idle") => Whole)' /\ LeaveInv(r)' /\ StartInv(r)'
  BY <1>4 DEF LeaveRead, StartRead, roomVars, Members, RoomTypeOK, ReqTypeOK
<1> QED
  BY <1>1, <1>2, <1>3, <1>4 DEF Arrive

LEMMA ProceedOneRequest ==
  ASSUME NEW r \in Requests, OneRequestInv(r), Proceed(r) \/ StartSpawned(r) \/ StartReturn(r)
  PROVE  (At(r, "idle") => Whole)' /\ LeaveInv(r)' /\ StartInv(r)'
<1> USE DEF OneRequestInv, At, Whole, Open, StartPCs, LeaveInv, StartInv, RoomTypeOK, ReqTypeOK,
            Goto, Return, Idle, SetStatus, roomVars
<1>1. CASE LeaveDelete(r)
  <2> DEFINE u == req[r].user
  <2>1. Members' = Members \ {u} /\ UNCHANGED <<roomStatus, host>>
    BY <1>1 DEF LeaveDelete, RemoveMembers, Members, TablesTypeOK
  <2>2. CASE u \in Members
    <3>1. req' = [req EXCEPT ![r].pc = "leave_select"]
      BY <1>1, <2>2 DEF LeaveDelete
    <3> QED
      BY <1>1, <2>1, <2>2, <3>1 DEF LeaveDelete
  <2>3. CASE u \notin Members
    <3>1. req' = [req EXCEPT ![r] = Idle]
      BY <1>1, <2>3 DEF LeaveDelete
    <3> QED
      BY <1>1, <2>1, <2>3, <3>1 DEF LeaveDelete
  <2> QED
    BY <2>2, <2>3
<1>2. CASE LeaveSelect(r)
  <2>1. Members' = Members /\ UNCHANGED <<roomStatus, host>>
    BY <1>2 DEF LeaveSelect, Members
  <2>2. CASE Members = {} /\ Goto(r, "leave_destroy")
    BY <1>2, <2>1, <2>2 DEF LeaveSelect
  <2>3. ASSUME NEW m \in Members, req' = [req EXCEPT ![r].pc = "leave_promote", ![r].host = m]
        PROVE  (At(r, "idle") => Whole)' /\ LeaveInv(r)' /\ StartInv(r)'
    <3>1. req'[r].pc = "leave_promote" /\ req'[r].host = m
      BY <2>3
    <3>2. Open /\ Open' /\ m \in Members'
      BY <1>2, <2>1 DEF LeaveSelect
    <3> QED
      BY <3>1, <3>2
  <2>4. CASE Members # {} /\ req[r].host # req[r].user /\ Return(r)
    BY <1>2, <2>1, <2>4 DEF LeaveSelect
  <2> QED
    BY <1>2, <2>2, <2>3, <2>4 DEF LeaveSelect
<1>3. CASE LeaveDestroy(r)
  BY <1>3 DEF LeaveDestroy, Members
<1>4. CASE LeavePromote(r)
  BY <1>4 DEF LeavePromote, Members
<1>5. CASE StartTokens(r) \/ StartSpawned(r) \/ StartReturn(r)
  BY <1>5 DEF StartTokens, StartSpawned, StartReturn, Members
<1>6. CASE StartMark(r) \/ StartFail(r) \/ Rollback(r)
  BY <1>6 DEF StartMark, StartFail, Rollback, Members
<1> QED
  BY <1>1, <1>2, <1>3, <1>4, <1>5, <1>6 DEF Proceed

\* One request at a time: nothing undoes what its statements established.
LEMMA OneRequestInvariant ==
  ASSUME NEW r \in Requests, Requests = {r}
  PROVE  RoomSpec => []OneRequestInv(r)
<1>1. OneRequestInv(r) /\ [RoomNext]_handlerVars => OneRequestInv(r)'
  <2> SUFFICES ASSUME OneRequestInv(r), [RoomNext]_handlerVars PROVE OneRequestInv(r)'
    OBVIOUS
  <2>1. RoomTypeOK'
    BY TypeOKStep DEF OneRequestInv, OpenNext
  <2>2. (At(r, "idle") => Whole)' /\ LeaveInv(r)' /\ StartInv(r)'
    <3>1. CASE UNCHANGED handlerVars
      BY <3>1 DEF handlerVars, roomVars, OneRequestInv, At, Whole, Open, Members, LeaveInv, StartInv
    <3> QED
      BY <3>1, ArriveOneRequest, ProceedOneRequest DEF RoomNext
  <2> QED
    BY <2>1, <2>2 DEF OneRequestInv
<1> QED
  BY InitOneRequest, <1>1, PTL DEF RoomSpec

\* Requests that are handled one at a time leave every room that exists with
\* a host who is one of its members.
THEOREM OneRequestKeepsHost ==
  ASSUME NEW r \in Requests, Requests = {r}
  PROVE  RoomSpec => []HostIsMember
<1>1. OneRequestInv(r) => HostIsMember
  BY DEF OneRequestInv, HostIsMember, Whole, Open, AtRest, At
<1> QED
  BY OneRequestInvariant, <1>1, PTL

\* Requests that are handled one at a time destroy every room that they empty.
THEOREM OneRequestClosesEmptyRoom ==
  ASSUME NEW r \in Requests, Requests = {r}
  PROVE  RoomSpec => []EmptyMeansDestroyed
<1>1. OneRequestInv(r) => EmptyMeansDestroyed
  BY DEF OneRequestInv, EmptyMeansDestroyed, Whole, Open, AtRest, At
<1> QED
  BY OneRequestInvariant, <1>1, PTL

\* Requests that are handled one at a time destroy no room that has members.
THEOREM OneRequestSparesMembers ==
  ASSUME NEW r \in Requests, Requests = {r}
  PROVE  RoomSpec => []DestroyedIsEmpty
<1>1. OneRequestInv(r) => DestroyedIsEmpty
  BY DEF OneRequestInv, DestroyedIsEmpty, Whole, Open, AtRest, At
<1> QED
  BY OneRequestInvariant, <1>1, PTL
=============================================================================
