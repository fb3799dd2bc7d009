----------------------------- MODULE Connections -----------------------------
(***************************************************************************)
(* The players' connections: handle_socket and what it shares in           *)
(* crates/game-sdk/src/lib.rs, joint with the lobby's WebSocket bridge     *)
(* (crates/lobby/src/ws_proxy/handler.rs).  A connection is a task; the    *)
(* tasks share the game's logic and the registry of outbound channels,     *)
(* each behind a mutex.  The logic is a version that grows with every      *)
(* accepted action; a snapshot is the version it shows.                    *)
(*                                                                         *)
(* A lock that is taken and released without waiting is one step.  Two are *)
(* held across a wait: the logic's while a broadcast waits for the         *)
(* registry, and the registry's while a snapshot waits for a full channel. *)
(***************************************************************************)
EXTENDS Integers, Sequences, FiniteSets

CONSTANTS
  Players,     \* uids
  Conns,       \* connections that are opened in a behaviour
  Owners,      \* the ways to share the connections out among the players
  NoConn,      \* no entry in the registry
  Speakers,    \* the connections whose clients send actions and pings
  Capacity,    \* slots of an outbound channel (16)
  MaxVersion,  \* bound: actions the game accepts
  Vanishing    \* the connections whose client may go without a close frame

ASSUME ConnectionsAssumption ==
  /\ Owners \subseteq [Conns -> Players] /\ NoConn \notin Conns /\ Speakers \subseteq Conns
  /\ Vanishing \subseteq Conns
  /\ Capacity \in Nat \ {0} /\ MaxVersion \in Nat

VARIABLES
  owner,     \* the uid that logs in on a connection
  pc,        \* where the task of a connection is
  then,      \* where it goes after a broadcast or a reply
  registry,  \* ConnRegistry: the connection whose sender a uid has
  channel,   \* the messages queued for a connection
  pump,      \* the outbound task: off, on or done
  link,      \* the bridge: up; gone: the client left and the game is not
             \* told; cut: the game left and the client is not told; down
  version,
  over,      \* what ended the game: no, tick or action
  reported,  \* a finished event has been printed
  snap,      \* the version a task is sending
  todo,      \* the uids it still has to send it to
  pressing,  \* NoConn, or the full channel it waits for with the registry's lock
  newest     \* the newest version an open connection has shown

taskVars == <<pc, then, snap, todo, pressing>>
wireVars == <<channel, pump, link, newest>>
gameVars == <<version, over>>
vars == <<owner, taskVars, registry, wireVars, gameVars, reported>>

Note == -1  \* pong, game_error and error: messages that show no version

Message == {Note} \cup 0..MaxVersion

TypeOK ==
  /\ owner \in [Conns -> Players]
  /\ pc \in [Conns -> {"idle", "greet", "initial", "open", "reply", "check",
                       "report", "collect", "list", "deliver", "leave", "await", "closed"}]
  /\ then \in [Conns -> {"open", "check", "leave"}]
  /\ registry \in [Players -> Conns \cup {NoConn}]
  /\ channel \in [Conns -> Seq(Message)] /\ \A c \in Conns : Len(channel[c]) <= Capacity
  /\ pump \in [Conns -> {"off", "on", "done"}]
  /\ link \in [Conns -> {"up", "gone", "cut", "down"}]
  /\ version \in 0..MaxVersion /\ over \in {"no", "tick", "action"}
  /\ reported \in BOOLEAN
  /\ snap \in [Conns -> 0..MaxVersion] /\ todo \in [Conns -> SUBSET Players]
  /\ pressing \in [Conns -> Conns \cup {NoConn}]
  /\ newest \in [Conns -> {Note} \cup 0..MaxVersion]

Init ==
  /\ owner \in Owners
  /\ pc = [c \in Conns |-> "idle"] /\ then = [c \in Conns |-> "open"]
  /\ registry = [u \in Players |-> NoConn]
  /\ channel = [c \in Conns |-> <<>>] /\ pump = [c \in Conns |-> "off"]
  /\ link = [c \in Conns |-> "up"]
  /\ version = 0 /\ over = "no" /\ reported = FALSE
  /\ snap = [c \in Conns |-> 0] /\ todo = [c \in Conns |-> {}]
  /\ pressing = [c \in Conns |-> NoConn]
  /\ newest = [c \in Conns |-> Note]

LogicFree == \A c \in Conns : pc[c] # "list"
RegistryFree == \A c \in Conns : pressing[c] = NoConn

At(c, p) == pc[c] = p
To(c, p) == pc' = [pc EXCEPT ![c] = p]

\* Mutant of Takes: one slot too many.
TakesOneMore(c) == pump[c] = "done" \/ Len(channel[c]) <= Capacity

\* Whether tx.send(..) returns at once, and what it does.
Takes(c) == pump[c] = "done" \/ Len(channel[c]) < Capacity
Push(c, m) ==
  channel' = [channel EXCEPT ![c] = IF pump[c] = "done" THEN <<>> ELSE Append(@, m)]

\* send_msg through the bridge: a client that is gone ends it and the message
\* is lost without an error.
Sees(c, m) == newest' = [newest EXCEPT ![c] = IF link[c] = "up" /\ m > @ THEN m ELSE @]
Bridge(c) == link' = [link EXCEPT ![c] = IF @ = "gone" THEN "down" ELSE @]

------------------------------------------------------------------------------
(* From the first frame to the inbound loop.                               *)

\* A first frame with a good session: on_player_login, and the channel.
Register(c) ==
  /\ At(c, "idle") /\ RegistryFree
  /\ registry' = [registry EXCEPT ![owner[c]] = c]
  /\ To(c, "greet")
  /\ UNCHANGED <<owner, then, snap, todo, pressing, wireVars, gameVars, reported>>

\* Mutant of Greet: the snapshot was built before the channel was registered.
GreetEarly(c) ==
  /\ At(c, "greet") /\ LogicFree
  /\ UNCHANGED snap
  /\ Bridge(c)
  /\ To(c, "initial")
  /\ UNCHANGED <<owner, then, todo, pressing, registry, channel, pump, newest, gameVars, reported>>

\* login_ok; then the initial snapshot is built ...
Greet(c) ==
  /\ At(c, "greet") /\ LogicFree
  /\ snap' = [snap EXCEPT ![c] = version]
  /\ Bridge(c)
  /\ To(c, "initial")
  /\ UNCHANGED <<owner, then, todo, pressing, registry, channel, pump, newest, gameVars, reported>>

\* ... and sent, with the uids online; then the outbound pump starts.  An
\* error on the way ends the task.
Initial(c) ==
  /\ At(c, "initial") /\ RegistryFree
  /\ IF link[c] = "down" THEN To(c, "leave") /\ pump' = [pump EXCEPT ![c] = "done"]
     ELSE To(c, "open") /\ pump' = [pump EXCEPT ![c] = "on"]
  /\ channel' = [channel EXCEPT ![c] = IF link[c] = "down" THEN <<>> ELSE @]
  /\ Sees(c, snap[c]) /\ Bridge(c)
  /\ snap' = [snap EXCEPT ![c] = 0]
  /\ UNCHANGED <<owner, then, todo, pressing, registry, gameVars, reported>>

------------------------------------------------------------------------------
(* The inbound loop.                                                       *)

\* Mutant of Act: a game that an action ends is not reported.
ActSilent(c) ==
  /\ At(c, "open") /\ c \in Speakers /\ link[c] = "up" /\ LogicFree
  /\ version < MaxVersion
  /\ version' = version + 1
  /\ \/ over = "no" /\ UNCHANGED over
     \/ over' = "action"
  /\ To(c, "collect") /\ then' = [then EXCEPT ![c] = "leave"]
  /\ UNCHANGED <<owner, snap, todo, pressing, registry, wireVars, reported>>

\* A client that is up sends; what it sends is a game action ...
Act(c) ==
  /\ At(c, "open") /\ c \in Speakers /\ link[c] = "up" /\ LogicFree
  /\ version < MaxVersion
  /\ version' = version + 1
  /\ \/ /\ over = "no" /\ UNCHANGED over
        /\ To(c, "collect") /\ then' = [then EXCEPT ![c] = "check"]
     \/ /\ over' = "action"
        /\ To(c, "report") /\ then' = [then EXCEPT ![c] = "leave"]
  /\ UNCHANGED <<owner, snap, todo, pressing, registry, wireVars, reported>>

\* ... that is rejected, or a ping or a second login: the reply is queued, or
\* the task waits until there is room.
Reply(c, next) ==
  /\ At(c, "open") /\ c \in Speakers /\ link[c] = "up"
  /\ next = "check" => LogicFree
  /\ IF Takes(c) THEN Push(c, Note) /\ To(c, next) /\ UNCHANGED then
     ELSE To(c, "reply") /\ then' = [then EXCEPT ![c] = next] /\ UNCHANGED channel
  /\ UNCHANGED <<owner, snap, todo, pressing, registry, pump, link, newest, gameVars, reported>>

SendReply(c) ==
  /\ At(c, "reply") /\ Takes(c)
  /\ Push(c, Note)
  /\ To(c, then[c]) /\ then' = [then EXCEPT ![c] = "open"]
  /\ UNCHANGED <<owner, snap, todo, pressing, registry, pump, link, newest, gameVars, reported>>

\* logic.lock().await.is_over()
Check(c) ==
  /\ At(c, "check") /\ LogicFree
  /\ IF over # "no" THEN To(c, "report") /\ then' = [then EXCEPT ![c] = "leave"]
     ELSE To(c, "open") /\ UNCHANGED then
  /\ UNCHANGED <<owner, snap, todo, pressing, registry, wireVars, gameVars, reported>>

\* println_online_finished
Report(c) ==
  /\ At(c, "report") /\ RegistryFree
  /\ reported' = TRUE
  /\ To(c, "collect")
  /\ UNCHANGED <<owner, then, snap, todo, pressing, registry, wireVars, gameVars>>

\* broadcast_snapshot takes the logic's lock and then the registry's, for
\* which it may have to wait ...
AwaitRegistry(c) ==
  /\ At(c, "collect") /\ LogicFree /\ ~RegistryFree
  /\ To(c, "list")
  /\ UNCHANGED <<owner, then, snap, todo, pressing, registry, wireVars, gameVars, reported>>

\* ... and builds a snapshot for every uid that is registered, ...
List(c) ==
  /\ At(c, "list") \/ (At(c, "collect") /\ LogicFree)
  /\ RegistryFree
  /\ snap' = [snap EXCEPT ![c] = version]
  /\ todo' = [todo EXCEPT ![c] = {u \in Players : registry[u] # NoConn}]
  /\ To(c, "deliver")
  /\ UNCHANGED <<owner, then, pressing, registry, wireVars, gameVars, reported>>

\* Mutant of Deliver: a send that fails removes the uid.
DeliverPrune(c, u) ==
  /\ At(c, "deliver") /\ u \in todo[c] /\ RegistryFree
  /\ todo' = [todo EXCEPT ![c] = @ \ {u}]
  /\ LET d == registry[u] IN
     \/ d = NoConn /\ UNCHANGED <<registry, channel, pressing>>
     \/ d # NoConn /\ Takes(d) /\ Push(d, snap[c]) /\ UNCHANGED pressing
        /\ registry' = [registry EXCEPT ![u] = IF pump[d] = "done" THEN NoConn ELSE d]
     \/ d # NoConn /\ ~Takes(d) /\ pressing' = [pressing EXCEPT ![c] = d]
        /\ UNCHANGED <<registry, channel>>
  /\ UNCHANGED <<owner, pc, then, snap, pump, link, newest, gameVars, reported>>

\* ... then one uid after the other, each with the registry's lock again: no
\* sender any more, a channel that takes the snapshot, or one to wait for.
Deliver(c, u) ==
  /\ At(c, "deliver") /\ u \in todo[c] /\ RegistryFree
  /\ todo' = [todo EXCEPT ![c] = @ \ {u}]
  /\ LET d == registry[u] IN
     \/ d = NoConn /\ UNCHANGED <<channel, pressing>>
     \/ d # NoConn /\ Takes(d) /\ Push(d, snap[c]) /\ UNCHANGED pressing
     \/ d # NoConn /\ ~Takes(d) /\ pressing' = [pressing EXCEPT ![c] = d] /\ UNCHANGED channel
  /\ UNCHANGED <<owner, pc, then, snap, registry, pump, link, newest, gameVars, reported>>

\* Mutant of Press: a receiver that is gone does not end the wait.
PressOn(c) ==
  /\ pressing[c] # NoConn /\ Takes(pressing[c]) /\ pump[pressing[c]] # "done"
  /\ Push(pressing[c], snap[c])
  /\ pressing' = [pressing EXCEPT ![c] = NoConn]
  /\ UNCHANGED <<owner, pc, then, snap, todo, registry, pump, link, newest, gameVars, reported>>

Press(c) ==
  /\ pressing[c] # NoConn /\ Takes(pressing[c])
  /\ Push(pressing[c], snap[c])
  /\ pressing' = [pressing EXCEPT ![c] = NoConn]
  /\ UNCHANGED <<owner, pc, then, snap, todo, registry, pump, link, newest, gameVars, reported>>

Delivered(c) ==
  /\ At(c, "deliver") /\ todo[c] = {} /\ pressing[c] = NoConn
  /\ To(c, then[c]) /\ then' = [then EXCEPT ![c] = "open"]
  /\ snap' = [snap EXCEPT ![c] = 0]
  /\ UNCHANGED <<owner, todo, pressing, registry, wireVars, gameVars, reported>>

\* A close frame, or the end of the stream.
HangUp(c) ==
  /\ At(c, "open")
  /\ \/ link[c] = "up" /\ link' = [link EXCEPT ![c] = "gone"]
     \/ link[c] = "down" /\ UNCHANGED link
  /\ To(c, "leave")
  /\ UNCHANGED <<owner, then, snap, todo, pressing, registry, channel, pump, newest, gameVars, reported>>

------------------------------------------------------------------------------
(* The end of a connection, its pump and its bridge.                       *)

\* Mutant of Cleanup: a task that never got to its loop leaves its entry.
CleanupOpened(c) ==
  /\ At(c, "leave") /\ RegistryFree
  /\ registry' = [registry EXCEPT ![owner[c]] = IF newest[c] = Note THEN @ ELSE NoConn]
  /\ To(c, "await")
  /\ UNCHANGED <<owner, then, snap, todo, pressing, wireVars, gameVars, reported>>

\* cleanup(..): the entry of the uid goes, whoever made it.
Cleanup(c) ==
  /\ At(c, "leave") /\ RegistryFree
  /\ registry' = [registry EXCEPT ![owner[c]] = NoConn]
  /\ To(c, "await")
  /\ UNCHANGED <<owner, then, snap, todo, pressing, wireVars, gameVars, reported>>

\* The pump has ended, by an error or because it is drained and both senders,
\* the task's and the registry's, are dropped: the task returns and both
\* halves of the socket go.
End(c) ==
  /\ At(c, "await")
  /\ pump[c] = "done" \/ (channel[c] = <<>> /\ registry[owner[c]] # c)
  /\ To(c, "closed")
  /\ pump' = [pump EXCEPT ![c] = "done"]
  /\ link' = [link EXCEPT ![c] = IF @ = "up" THEN "cut" ELSE "down"]
  /\ newest' = [newest EXCEPT ![c] = Note]
  /\ UNCHANGED <<owner, then, snap, todo, pressing, registry, channel, gameVars, reported>>

\* rx.recv() and send_msg: the pump ends with the first error.
Pump(c) ==
  /\ pump[c] = "on" /\ channel[c] # <<>>
  /\ IF link[c] = "down"
       THEN pump' = [pump EXCEPT ![c] = "done"] /\ channel' = [channel EXCEPT ![c] = <<>>]
       ELSE UNCHANGED pump /\ channel' = [channel EXCEPT ![c] = Tail(@)]
  /\ Sees(c, Head(channel[c])) /\ Bridge(c)
  /\ UNCHANGED <<owner, taskVars, registry, gameVars, reported>>

\* The client goes without a close frame: the bridge's pump towards the game
\* ends, the other one waits for a message to send.
Vanish(c) ==
  /\ c \in Vanishing
  /\ pc[c] \notin {"idle", "closed"} /\ link[c] = "up"
  /\ link' = [link EXCEPT ![c] = "gone"]
  /\ UNCHANGED <<owner, taskVars, registry, channel, pump, newest, gameVars, reported>>

\* g.tick() may end the game, and tells nobody.  (A game that is over stays
\* over: the vote that would deal again is preceded by one that reports.)
Tick ==
  /\ LogicFree /\ over = "no"
  /\ over' = "tick"
  /\ UNCHANGED <<owner, taskVars, registry, wireVars, version, reported>>

------------------------------------------------------------------------------

Task(c) ==
  \/ Greet(c) \/ Initial(c)
  \/ SendReply(c) \/ Check(c) \/ Report(c)
  \/ AwaitRegistry(c) \/ List(c) \/ (\E u \in Players : Deliver(c, u)) \/ Press(c) \/ Delivered(c)
  \/ (HangUp(c) /\ link[c] = "down")
  \/ Cleanup(c) \/ End(c)

Next ==
  \/ \E c \in Conns :
       \/ Task(c) \/ Pump(c)
       \/ Register(c) \/ Act(c) \/ Reply(c, "open") \/ Reply(c, "check") \/ HangUp(c)
       \/ Vanish(c)
  \/ Tick

Spec == Init /\ [][Next]_vars

\* Tokio runs every task that can run and serves those that wait for a slot of
\* a channel in their order; clients read what they are sent, and need not do
\* anything else.
FairSpec ==
  Spec /\ \A c \in Conns : WF_vars(Task(c)) /\ SF_vars(Press(c)) /\ WF_vars(Pump(c))

------------------------------------------------------------------------------
(* Properties                                                              *)

Registered(c) == registry[owner[c]] = c

(* The registry never names a connection whose task is gone: every path    *)
(* out of handle_socket passes cleanup (lib.rs:405-420, 497-499).          *)
RegistryIsLive ==
  \A u \in Players : registry[u] # NoConn =>
    owner[registry[u]] = u /\ pc[registry[u]] \notin {"idle", "await", "closed"}

Busy(c) == pc[c] \in {"check", "report", "collect", "list", "deliver"}
Quiet == \A c \in Conns : ~Busy(c)

(* When no broadcast is on its way, every client that is registered, up    *)
(* and served has seen the last action, also when it logged in while the   *)
(* action was being handled and when its channel was full.                 *)
NobodyIsBehind ==
  Quiet =>
    \A c \in Conns :
      Registered(c) /\ pc[c] = "open" /\ channel[c] = <<>> /\ pump[c] = "on" /\ link[c] = "up"
        => newest[c] = version

(* A player with an open connection is missing from the registry, and so   *)
(* from `online`, only if another connection of the player has come and    *)
(* gone (the insert at lib.rs:399, the remove at lib.rs:504).              *)
InvisibleOnlyAfterSecond ==
  \A c \in Conns :
    pc[c] = "open" /\ registry[owner[c]] = NoConn =>
      \E d \in Conns \ {c} : owner[d] = owner[c] /\ pc[d] \in {"await", "closed"}

(* A game that an action ended has been reported to the lobby when all is  *)
(* quiet; only the tick can end one in silence (lib.rs:212-222).           *)
SilentOnlyAfterTick == Quiet /\ over = "action" => reported

(* `online` lists the uids with a live WebSocket (lib.rs:535).             *)
ConnectedIsOnline ==
  \A c \in Conns : pc[c] = "open" /\ link[c] = "up" => registry[owner[c]] # NoConn

\* A broadcast waits for a channel that nobody empties yet.
Jammed == \E c \in Conns : pressing[c] # NoConn /\ pc[pressing[c]] \in {"greet", "initial"}

(* Nobody waits for a lock or a channel for ever: a task in the middle of  *)
(* its work gets back to its loop or ends, as long as clients read and     *)
(* unless a broadcast has filled the channel of a connection that still    *)
(* needs the registry to get to its pump (lib.rs:412, 529).                *)
TasksComplete ==
  \A c \in Conns :
    pc[c] \notin {"idle", "open", "closed"}
      ~> pc[c] \in {"open", "closed"} \/ Jammed

(* A login that is accepted is answered with a snapshot, unless the client *)
(* is lost (docs/protocol_spec.md:136).                                    *)
LoginAnswered ==
  \A c \in Conns :
    pc[c] = "greet" ~> newest[c] # Note \/ link[c] # "up"
==============================================================================
