------------------------------ MODULE Sessions -------------------------------
(***************************************************************************)
(* Session tokens in the lobby and in the games: login, logout, expiry and *)
(* garbage collection (crates/lobby/src/http/user.rs, auth/, main.rs), the *)
(* tokens start hands to a game (http/room.rs), and the task that pushes   *)
(* later ones to the running games (main.rs, broadcast_session of          *)
(* instance/manager.rs, SessionRegistry of the SDK).                       *)
(*                                                                         *)
(* Time is the clock of datetime('now'), in steps as fine as created_at is *)
(* stored; DayLength of them make a day.                                   *)
(***************************************************************************)
EXTENDS Integers, FiniteSets, FiniteSetsExt

CONSTANTS
  Tokens,     \* tokens, each created by one login
  Members,    \* those of users who sit in the rooms of the games
  Games,
  Ttl,        \* session_ttl_days
  DayLength,
  GcEvery,    \* period of the garbage collection
  MaxTime     \* bound: the time runs until then

ASSUME SessionsAssumption ==
  /\ Members \subseteq Tokens
  /\ Ttl \in Nat /\ DayLength \in Nat \ {0} /\ GcEvery \in Nat \ {0} /\ MaxTime \in Nat

VARIABLES
  now,
  created,   \* created_at of a token; Never before its login, Gone when the
             \* row is deleted
  game,      \* off, starting, live (in the manager's map) or over
  accepted,  \* the tokens a game lets in
  sync,      \* the sync task: sleep, push or advance
  batch,     \* the tokens it still has to push
  cursor,    \* last_seen
  nextGc,    \* when the garbage collection is due
  during,    \* the tokens created while the sync task is at work
  raced      \* <<game, token>>: see Overlooked

syncVars == <<sync, batch, cursor>>
vars == <<now, created, game, accepted, syncVars, nextGc, during, raced>>

Never == -1
Gone == -2
Rows == {t \in Tokens : created[t] >= 0}  \* the rows of the table
Delete(gone) == created' = [t \in Tokens |-> IF t \in gone THEN Gone ELSE created[t]]

Expires(t) == created[t] + Ttl
Day(time) == time \div DayLength

\* expires_at >= datetime('now') compares text, and the two are formatted
\* differently: "..T..Z" is greater than "..  .." on the same day.
Unexpired(t) == Day(Expires(t)) >= Day(now)

\* CurrentUser: the expiry, written with a Z and parsed without, is not looked at.
Authorized(t) == t \in Rows

\* The cursor starts before the lobby does.
Init ==
  /\ now = 0 /\ nextGc = GcEvery
  /\ created = [t \in Tokens |-> Never]
  /\ game = [g \in Games |-> "off"] /\ accepted = [g \in Games |-> {}]
  /\ sync = "sleep" /\ batch = {} /\ cursor = Never
  /\ during = {} /\ raced = {}

------------------------------------------------------------------------------

\* Logins a game may never hear of: one while it starts, and one during a pass
\* of the sync task that another login of a later second follows in that pass.
Overlooked(t) ==
  {<<g, t>> : g \in {h \in Games : game[h] = "starting"}}
  \cup {g \in Games : game[g] = "live"} \X {u \in during : 0 <= created[u] /\ created[u] < now}

Login(t) ==
  /\ created[t] = Never
  /\ created' = [created EXCEPT ![t] = now]
  /\ raced' = raced \cup Overlooked(t)
  /\ during' = IF sync = "sleep" THEN during ELSE during \cup {t}
  /\ UNCHANGED <<now, game, accepted, syncVars, nextGc>>

\* Whoever has the token may log out, expired or not.
Logout(t) ==
  /\ Authorized(t)
  /\ Delete({t})
  /\ UNCHANGED <<now, game, accepted, syncVars, nextGc, during, raced>>

\* start reads the members' tokens ...
StartRead(g) ==
  /\ game[g] = "off"
  /\ game' = [game EXCEPT ![g] = "starting"]
  /\ accepted' = [accepted EXCEPT ![g] = {t \in Members \cap Rows : Unexpired(t)}]
  /\ UNCHANGED <<now, created, syncVars, nextGc, during, raced>>

\* ... and after the spawn the instance is in the manager's map.
Insert(g) ==
  /\ game[g] = "starting"
  /\ game' = [game EXCEPT ![g] = "live"]
  /\ UNCHANGED <<now, created, accepted, syncVars, nextGc, during, raced>>

GameEnds(g) ==
  /\ game[g] = "live"
  /\ game' = [game EXCEPT ![g] = "over"]
  /\ accepted' = [accepted EXCEPT ![g] = {}]
  /\ UNCHANGED <<now, created, syncVars, nextGc, during, raced>>

------------------------------------------------------------------------------
(* The sync task.                                                          *)

\* Mutant of Fresh: the cursor's own second is not read again.
FreshAfter == {t \in Rows : created[t] > cursor /\ Unexpired(t)}

Fresh == {t \in Rows : created[t] >= cursor /\ Unexpired(t)}

Query ==
  /\ sync = "sleep" /\ Fresh # {}
  /\ sync' = "push" /\ batch' = Fresh
  /\ UNCHANGED <<now, created, game, accepted, cursor, nextGc, during, raced>>

\* broadcast_session: to every game in the map.
PushTo(games, t) ==
  accepted' = [g \in Games |-> IF g \in games THEN accepted[g] \cup {t} ELSE accepted[g]]

Push ==
  /\ sync = "push"
  /\ \E t \in batch :
       /\ \A u \in batch : created[t] <= created[u]
       /\ PushTo({g \in Games : game[g] = "live"}, t)
       /\ batch' = batch \ {t}
       /\ sync' = IF batch' = {} THEN "advance" ELSE "push"
  /\ UNCHANGED <<now, created, game, cursor, nextGc, during, raced>>

\* Mutant of Newest: the cursor goes to the present.
NewestNow == now

\* The newest created_at of the table, not of the tokens that were pushed.
Newest == Max({cursor} \cup {created[t] : t \in {u \in Rows : Unexpired(u)}})

Advance ==
  /\ sync = "advance"
  /\ cursor' = Newest
  /\ sync' = "sleep" /\ during' = {}
  /\ UNCHANGED <<now, created, game, accepted, batch, nextGc, raced>>

------------------------------------------------------------------------------

\* Mutant of Expired: the last day counts as over.
ExpiredToday == {t \in Rows : Day(Expires(t)) <= Day(now)}

\* Mutant of Expired: the rows of the last two days are kept.
ExpiredLate == {t \in Rows : Day(Expires(t)) + 1 < Day(now)}

\* DELETE FROM sessions WHERE expires_at < datetime('now')
Expired == {t \in Rows : ~Unexpired(t)}

Gc ==
  /\ now = nextGc
  /\ Delete(Expired)
  /\ nextGc' = now + GcEvery
  /\ UNCHANGED <<now, game, accepted, syncVars, during, raced>>

\* The interval of the garbage collection is kept.
Tick ==
  /\ now < MaxTime /\ now < nextGc
  /\ now' = now + 1
  /\ UNCHANGED <<created, game, accepted, syncVars, nextGc, during, raced>>

SyncStep == Query \/ Push \/ Advance

Next ==
  \/ \E t \in Tokens : Login(t) \/ Logout(t)
  \/ \E g \in Games : StartRead(g) \/ Insert(g) \/ GameEnds(g)
  \/ SyncStep \/ Gc \/ Tick

Spec == Init /\ [][Next]_vars

\* The interval tasks of main.rs run.
FairSpec == Spec /\ WF_vars(SyncStep) /\ WF_vars(Gc) /\ WF_vars(Tick)

------------------------------------------------------------------------------
(* Properties                                                              *)

Due(g, t) == game[g] = "live" /\ t \in Members \cap Rows /\ Unexpired(t)

(* A running game lacks a member's session only as long as the sync task   *)
(* still has to look at it, or if the login was overlooked: the cursor     *)
(* passes over nothing else (main.rs:169-213, room.rs:441).                *)
MissedOnlyInWindow ==
  \A g \in Games, t \in Tokens :
    Due(g, t) /\ t \notin accepted[g] =>
      created[t] >= cursor \/ t \in batch \/ <<g, t>> \in raced

(* A login that is not overlooked reaches every running game of its user,  *)
(* whenever it is and whatever other logins come with it.                  *)
LoginReachesGames ==
  \A g \in Games, t \in Tokens :
    Due(g, t) ~> t \in accepted[g] \/ ~Due(g, t) \/ <<g, t>> \in raced

(* The text comparison makes a session last until its day is over and no   *)
(* longer than the next garbage collection.                                *)
SessionsLapse ==
  \A t \in Rows : now < DayLength * (Day(Expires(t)) + 1) + GcEvery

(* Nobody is signed out early: a row goes by a logout, or after its time.  *)
GcSparesLive ==
  [][\A t \in Rows \ Rows' : nextGc' # nextGc => Expires(t) < now]_vars
==============================================================================
