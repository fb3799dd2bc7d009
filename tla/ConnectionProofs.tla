-------------------------- MODULE ConnectionProofs --------------------------
(***************************************************************************)
(* Proofs about Connections, for any number of players, connections, slots *)
(* of a channel and actions.                                               *)
(***************************************************************************)
EXTENDS Connections, SequenceTheorems, TLAPS

\* The task of c is between its login and its cleanup.
Engaged(c) == pc[c] \notin {"idle", "await", "closed"}

Accounted ==
  \A c \in Conns :
    Engaged(c) /\ registry[owner[c]] = NoConn =>
      \E d \in Conns \ {c} : owner[d] = owner[c] /\ pc[d] \in {"await", "closed"}

Reporting == over = "action" => reported \/ \E c \in Conns : pc[c] = "report"

\* No snapshot shows more than the game's version.
NoFuture ==
  \A c \in Conns :
    /\ snap[c] <= version /\ newest[c] <= version
    /\ \A i \in 1..Len(channel[c]) : channel[c][i] <= version

\* A broadcast that will show the newest version to x.
Sending(b, x) ==
  \/ pc[b] \in {"report", "collect", "list"}
  \/ pc[b] = "deliver" /\ snap[b] = version /\ (owner[x] \in todo[b] \/ pressing[b] = x)

Stored(s, v) == \E i \in 1..Len(s) : s[i] = v

Shown(x) == newest[x] = version \/ Stored(channel[x], version)

\* x can be reached: it has an entry, a client and a channel in use.
Reachable(x) ==
  Registered(x) /\ link[x] = "up" /\ pc[x] \notin {"idle", "greet"} /\ pump[x] # "done"

\* Whoever can be reached has the newest version, has it in its channel, or
\* somebody is about to send it.
Served(x) ==
  \/ Shown(x)
  \/ \E b \in Conns : Sending(b, x)
  \/ pc[x] = "initial" /\ snap[x] = version

UpToDate == \A x \in Conns : Reachable(x) => Served(x)

\* The outbound task starts with the inbound loop.
PumpStarts == \A c \in Conns : pc[c] \in {"idle", "greet", "initial"} => pump[c] = "off"

Inv ==
  /\ TypeOK /\ RegistryIsLive /\ Accounted /\ Reporting
  /\ NoFuture /\ PumpStarts /\ UpToDate

(* One step of the whole, by its actions.                                  *)
LEMMA Steps ==
  ASSUME Next
  PROVE  \/ Tick
         \/ \E c \in Conns :
              \/ Register(c) \/ Greet(c) \/ Initial(c) \/ Act(c)
              \/ (\E next \in {"open", "check"} : Reply(c, next))
              \/ SendReply(c) \/ Check(c) \/ Report(c) \/ AwaitRegistry(c) \/ List(c)
              \/ (\E u \in Players : Deliver(c, u))
              \/ Press(c) \/ Delivered(c) \/ HangUp(c) \/ Cleanup(c) \/ End(c) \/ Pump(c) \/ Vanish(c)
  BY DEF Next, Task

-----------------------------------------------------------------------------
(* Types                                                                   *)

(* What a send leaves in a channel.                                        *)
LEMMA PushType ==
  ASSUME TypeOK, NEW d \in Conns, NEW m \in Message, Takes(d), Push(d, m)
  PROVE  /\ channel' \in [Conns -> Seq(Message)]
         /\ \A c \in Conns : Len(channel'[c]) <= Capacity
  <1>1. channel[d] \in Seq(Message) /\ Len(channel[d]) \in Nat /\ Capacity \in Nat \ {0}
    BY ConnectionsAssumption DEF TypeOK
  <1>2. CASE pump[d] = "done"
    <2>1. channel' = [channel EXCEPT ![d] = <<>>]
      BY <1>2 DEF Push
    <2> QED
      BY <1>1, <2>1 DEF TypeOK
  <1>3. CASE pump[d] # "done"
    <2>1. channel' = [channel EXCEPT ![d] = Append(channel[d], m)]
      BY <1>3 DEF Push
    <2>2. Append(channel[d], m) \in Seq(Message) /\ Len(Append(channel[d], m)) = Len(channel[d]) + 1
      BY <1>1, AppendProperties
    <2>3. Len(channel[d]) < Capacity
      BY <1>3 DEF Takes
    <2> QED
      BY <1>1, <2>1, <2>2, <2>3 DEF TypeOK
  <1> QED
    BY <1>2, <1>3

LEMMA WireType ==
  ASSUME TypeOK, NEW c \in Conns, NEW m \in Message
  PROVE  /\ Sees(c, m) => newest' \in [Conns -> {Note} \cup 0..MaxVersion]
         /\ Bridge(c) => link' \in [Conns -> {"up", "gone", "cut", "down"}]
  <1>1. Sees(c, m) => newest' \in [Conns -> {Note} \cup 0..MaxVersion]
    <2>1. newest \in [Conns -> {Note} \cup 0..MaxVersion] /\ m \in {Note} \cup 0..MaxVersion
      BY DEF TypeOK, Message
    <2> QED
      BY <2>1 DEF Sees
  <1>2. Bridge(c) => link' \in [Conns -> {"up", "gone", "cut", "down"}]
    BY DEF TypeOK, Bridge
  <1> QED
    BY <1>1, <1>2

LEMMA InitType == Init => TypeOK
  <1> SUFFICES ASSUME Init PROVE TypeOK
    OBVIOUS
  <1>1. MaxVersion \in Nat /\ 0 \in 0..MaxVersion /\ Capacity \in Nat
    BY ConnectionsAssumption
  <1>2. owner \in [Conns -> Players]
    BY ConnectionsAssumption DEF Init
  <1>3. channel \in [Conns -> Seq(Message)] /\ \A c \in Conns : Len(channel[c]) <= Capacity
    BY <1>1 DEF Init
  <1>4. newest \in [Conns -> {Note} \cup 0..MaxVersion]
    BY DEF Init
  <1> QED
    BY <1>1, <1>2, <1>3, <1>4 DEF Init, TypeOK

LEMMA TypeStep == TypeOK /\ [Next]_vars => TypeOK'
  <1> SUFFICES ASSUME TypeOK, [Next]_vars PROVE TypeOK'
    OBVIOUS
  <1> USE DEF To, At, taskVars, wireVars, gameVars
  <1>0. MaxVersion \in Nat /\ 0 \in 0..MaxVersion /\ Note \in Message /\ 0..MaxVersion \subseteq Message
    BY ConnectionsAssumption DEF Message
  <1>1. ASSUME NEW c \in Conns, Register(c) PROVE TypeOK'
    BY <1>1 DEF TypeOK, Register
  <1>2. ASSUME NEW c \in Conns, Greet(c) PROVE TypeOK'
    BY <1>0, <1>2, WireType DEF TypeOK, Greet
  <1>3. ASSUME NEW c \in Conns, Initial(c) PROVE TypeOK'
    <2>1. snap[c] \in Message
      BY <1>0 DEF TypeOK
    <2>2. channel' \in [Conns -> Seq(Message)] /\ \A d \in Conns : Len(channel'[d]) <= Capacity
      BY <1>3, ConnectionsAssumption DEF TypeOK, Initial
    <2> QED
      BY <1>0, <1>3, <2>1, <2>2, WireType DEF TypeOK, Initial
  <1>4. ASSUME NEW c \in Conns, Act(c) PROVE TypeOK'
    <2>1. version' \in 0..MaxVersion
      BY <1>0, <1>4 DEF TypeOK, Act
    <2> QED
      BY <1>4, <2>1 DEF TypeOK, Act
  <1>5. ASSUME NEW c \in Conns, NEW next \in {"open", "check"}, Reply(c, next) PROVE TypeOK'
    <2>1. channel' \in [Conns -> Seq(Message)] /\ \A d \in Conns : Len(channel'[d]) <= Capacity
      BY <1>0, <1>5, PushType DEF TypeOK, Reply
    <2> QED
      BY <1>5, <2>1 DEF TypeOK, Reply
  <1>6. ASSUME NEW c \in Conns, SendReply(c) PROVE TypeOK'
    <2>1. channel' \in [Conns -> Seq(Message)] /\ \A d \in Conns : Len(channel'[d]) <= Capacity
      BY <1>0, <1>6, PushType DEF SendReply
    <2> QED
      BY <1>6, <2>1 DEF TypeOK, SendReply
  <1>7. ASSUME NEW c \in Conns, Check(c) \/ Report(c) \/ AwaitRegistry(c) PROVE TypeOK'
    BY <1>7 DEF TypeOK, Check, Report, AwaitRegistry
  <1>8. ASSUME NEW c \in Conns, List(c) PROVE TypeOK'
    BY <1>8 DEF TypeOK, List
  <1>9. ASSUME NEW c \in Conns, NEW u \in Players, Deliver(c, u) PROVE TypeOK'
    <2>1. snap[c] \in Message
      BY <1>0 DEF TypeOK
    <2>2. registry[u] # NoConn => registry[u] \in Conns
      BY DEF TypeOK
    <2>3. channel' \in [Conns -> Seq(Message)] /\ \A d \in Conns : Len(channel'[d]) <= Capacity
      BY <1>9, <2>1, <2>2, PushType DEF TypeOK, Deliver
    <2> QED
      BY <1>9, <2>2, <2>3 DEF TypeOK, Deliver
  <1>10. ASSUME NEW c \in Conns, Press(c) PROVE TypeOK'
    <2>1. snap[c] \in Message /\ pressing[c] \in Conns
      BY <1>0, <1>10 DEF TypeOK, Press
    <2>2. channel' \in [Conns -> Seq(Message)] /\ \A d \in Conns : Len(channel'[d]) <= Capacity
      BY <1>10, <2>1, PushType DEF Press
    <2> QED
      BY <1>10, <2>2 DEF TypeOK, Press
  <1>11. ASSUME NEW c \in Conns, Delivered(c) PROVE TypeOK'
    BY <1>0, <1>11 DEF TypeOK, Delivered
  <1>12. ASSUME NEW c \in Conns, HangUp(c) \/ Cleanup(c) \/ Vanish(c) PROVE TypeOK'
    BY <1>12 DEF TypeOK, HangUp, Cleanup, Vanish
  <1>13. ASSUME NEW c \in Conns, End(c) PROVE TypeOK'
    BY <1>13 DEF TypeOK, End
  <1>14. ASSUME NEW c \in Conns, Pump(c) PROVE TypeOK'
    <2>1. channel[c] \in Seq(Message) /\ channel[c] # <<>>
      BY <1>14 DEF TypeOK, Pump
    <2>2. Head(channel[c]) \in Message /\ Tail(channel[c]) \in Seq(Message)
          /\ Len(Tail(channel[c])) = Len(channel[c]) - 1 /\ Len(channel[c]) \in Nat
      BY <2>1, HeadTailProperties, LenProperties
    <2>3. channel' \in [Conns -> Seq(Message)] /\ \A d \in Conns : Len(channel'[d]) <= Capacity
      <3>1. CASE link[c] = "down"
        <4>1. channel' = [channel EXCEPT ![c] = <<>>]
          BY <1>14, <3>1 DEF Pump
        <4> QED
          BY <4>1, ConnectionsAssumption DEF TypeOK
      <3>2. CASE link[c] # "down"
        <4>1. channel' = [channel EXCEPT ![c] = Tail(channel[c])]
          BY <1>14, <3>2 DEF Pump
        <4>2. Len(Tail(channel[c])) <= Capacity
          BY <2>2, ConnectionsAssumption DEF TypeOK
        <4> QED
          BY <2>2, <4>1, <4>2 DEF TypeOK
      <3> QED
        BY <3>1, <3>2
    <2> QED
      BY <1>14, <2>2, <2>3, WireType DEF TypeOK, Pump
  <1>15. CASE Tick
    BY <1>15 DEF TypeOK, Tick
  <1>16. CASE UNCHANGED vars
    BY <1>16 DEF TypeOK, vars
  <1> QED
    BY <1>1, <1>2, <1>3, <1>4, <1>5, <1>6, <1>7, <1>8, <1>9, <1>10, <1>11, <1>12, <1>13, <1>14,
       <1>15, <1>16, Steps

-----------------------------------------------------------------------------
(* The registry and the report                                             *)

(* Only logging in, cleaning up and returning change the registry or       *)
(* whether a task is engaged.                                              *)
LEMMA OtherSteps ==
  ASSUME TypeOK, [Next]_vars,
         \A c \in Conns : ~Register(c) /\ ~Cleanup(c) /\ ~End(c)
  PROVE  /\ UNCHANGED <<owner, registry>>
         /\ \A d \in Conns : pc'[d] = pc[d] \/ (Engaged(d) /\ Engaged(d)')
  <1> DEFINE Same == /\ UNCHANGED <<owner, registry>>
                     /\ \A d \in Conns : pc'[d] = pc[d] \/ (Engaged(d) /\ Engaged(d)')
  <1> USE DEF To, At, Engaged, TypeOK
  <1>1. ASSUME NEW c \in Conns, Greet(c) \/ Initial(c) \/ Act(c) PROVE Same
    BY <1>1 DEF Greet, Initial, Act
  <1>2. ASSUME NEW c \in Conns, NEW next \in {"open", "check"}, Reply(c, next) PROVE Same
    BY <1>2 DEF Reply
  <1>3. ASSUME NEW c \in Conns, SendReply(c) PROVE Same
    BY <1>3 DEF SendReply
  <1>4. ASSUME NEW c \in Conns, Check(c) \/ Report(c) \/ AwaitRegistry(c) \/ List(c) PROVE Same
    BY <1>4 DEF Check, Report, AwaitRegistry, List
  <1>5. ASSUME NEW c \in Conns, NEW u \in Players, Deliver(c, u) PROVE Same
    BY <1>5 DEF Deliver
  <1>6. ASSUME NEW c \in Conns, Press(c) \/ Delivered(c) \/ HangUp(c) PROVE Same
    BY <1>6 DEF Press, Delivered, HangUp
  <1>7. ASSUME NEW c \in Conns, Pump(c) \/ Vanish(c) PROVE Same
    BY <1>7 DEF Pump, Vanish, taskVars
  <1>8. Tick => Same
    BY DEF Tick, taskVars
  <1>9. UNCHANGED vars => Same
    BY DEF vars, taskVars
  <1> QED
    BY <1>1, <1>2, <1>3, <1>4, <1>5, <1>6, <1>7, <1>8, <1>9, Steps

LEMMA RegistryStep ==
  ASSUME TypeOK, RegistryIsLive, Accounted, [Next]_vars
  PROVE  RegistryIsLive' /\ Accounted'
  <1> USE DEF To, At, Engaged, TypeOK, RegistryIsLive, Accounted
  <1>0. NoConn \notin Conns
    BY ConnectionsAssumption
  <1>1. ASSUME NEW c \in Conns, Register(c) PROVE RegistryIsLive' /\ Accounted'
    BY <1>0, <1>1 DEF Register
  <1>2. ASSUME NEW c \in Conns, Cleanup(c) PROVE RegistryIsLive' /\ Accounted'
    <2>1. RegistryIsLive'
      BY <1>0, <1>2 DEF Cleanup
    <2>2. Accounted'
      BY <1>0, <1>2 DEF Cleanup
    <2> QED
      BY <2>1, <2>2
  <1>3. ASSUME NEW c \in Conns, End(c) PROVE RegistryIsLive' /\ Accounted'
    <2>1. RegistryIsLive'
      BY <1>0, <1>3 DEF End
    <2>2. Accounted'
      BY <1>0, <1>3 DEF End
    <2> QED
      BY <2>1, <2>2
  <1>4. CASE \A c \in Conns : ~Register(c) /\ ~Cleanup(c) /\ ~End(c)
    <2>1. /\ UNCHANGED <<owner, registry>>
          /\ \A d \in Conns : pc'[d] = pc[d] \/ (Engaged(d) /\ Engaged(d)')
      BY <1>4, OtherSteps
    <2>2. RegistryIsLive'
      BY <2>1
    <2>3. ASSUME NEW c \in Conns, Engaged(c)', registry'[owner'[c]] = NoConn
          PROVE  \E d \in Conns \ {c} : owner'[d] = owner'[c] /\ pc'[d] \in {"await", "closed"}
      <3>1. Engaged(c) /\ registry[owner[c]] = NoConn
        BY <2>1, <2>3
      <3>2. PICK d \in Conns \ {c} : owner[d] = owner[c] /\ pc[d] \in {"await", "closed"}
        BY <3>1
      <3>3. pc'[d] = pc[d]
        BY <2>1, <3>2
      <3> QED
        BY <2>1, <3>2, <3>3
    <2> QED
      BY <2>2, <2>3
  <1> QED
    BY <1>1, <1>2, <1>3, <1>4

LEMMA ReportingStep ==
  ASSUME TypeOK, Reporting, [Next]_vars
  PROVE  Reporting'
  <1> DEFINE Kept == /\ over' = over \/ over' = "tick"
                     /\ reported' = reported
                     /\ \A d \in Conns : pc[d] = "report" => pc'[d] = "report"
  <1> USE DEF To, At, TypeOK
  <1>1. ASSUME NEW c \in Conns, Act(c) PROVE Reporting'
    BY <1>1 DEF Act, Reporting
  <1>2. ASSUME NEW c \in Conns, Report(c) PROVE Reporting'
    BY <1>2 DEF Report, Reporting
  <1>3. ASSUME NEW c \in Conns, Register(c) \/ Greet(c) \/ Initial(c) PROVE Kept
    BY <1>3 DEF Register, Greet, Initial, gameVars
  <1>4. ASSUME NEW c \in Conns, NEW next \in {"open", "check"}, Reply(c, next) PROVE Kept
    BY <1>4 DEF Reply, gameVars
  <1>5. ASSUME NEW c \in Conns, SendReply(c) \/ Check(c) \/ AwaitRegistry(c) \/ List(c) PROVE Kept
    BY <1>5 DEF SendReply, Check, AwaitRegistry, List, gameVars
  <1>6. ASSUME NEW c \in Conns, NEW u \in Players, Deliver(c, u) PROVE Kept
    BY <1>6 DEF Deliver, gameVars
  <1>7. ASSUME NEW c \in Conns, Press(c) \/ Delivered(c) \/ HangUp(c) PROVE Kept
    BY <1>7 DEF Press, Delivered, HangUp, gameVars
  <1>8. ASSUME NEW c \in Conns, Cleanup(c) \/ End(c) \/ Pump(c) \/ Vanish(c) PROVE Kept
    BY <1>8 DEF Cleanup, End, Pump, Vanish, taskVars, gameVars
  <1>9. Tick => Kept
    BY DEF Tick, taskVars
  <1>10. UNCHANGED vars => Kept
    BY DEF vars, taskVars, gameVars
  <1>11. Kept => Reporting'
    BY DEF Reporting
  <1> QED
    BY <1>1, <1>2, <1>3, <1>4, <1>5, <1>6, <1>7, <1>8, <1>9, <1>10, <1>11, Steps

-----------------------------------------------------------------------------
(* What the clients have been shown                                        *)

(* What a send does to what is stored.                                     *)
LEMMA PushStores ==
  ASSUME TypeOK, NEW d \in Conns, NEW m \in Message, Takes(d), Push(d, m)
  PROVE  /\ \A c \in Conns : c # d => channel'[c] = channel[c]
         /\ \A i \in 1..Len(channel'[d]) :
              channel'[d][i] = m \/ \E j \in 1..Len(channel[d]) : channel'[d][i] = channel[d][j]
         /\ pump[d] # "done" =>
              /\ Stored(channel'[d], m)
              /\ \A v : Stored(channel[d], v) => Stored(channel'[d], v)
  <1>1. channel[d] \in Seq(Message) /\ Len(channel[d]) \in Nat /\ channel \in [Conns -> Seq(Message)]
    BY DEF TypeOK
  <1>2. CASE pump[d] = "done"
    <2>1. channel' = [channel EXCEPT ![d] = <<>>]
      BY <1>2 DEF Push
    <2> QED
      BY <1>1, <1>2, <2>1
  <1>3. CASE pump[d] # "done"
    <2>1. channel' = [channel EXCEPT ![d] = Append(channel[d], m)]
      BY <1>3 DEF Push
    <2>2. channel'[d] = Append(channel[d], m) /\ \A c \in Conns : c # d => channel'[c] = channel[c]
      BY <1>1, <2>1
    <2>3. /\ Len(Append(channel[d], m)) = Len(channel[d]) + 1
          /\ \A i \in 1..Len(channel[d]) : Append(channel[d], m)[i] = channel[d][i]
          /\ Append(channel[d], m)[Len(channel[d]) + 1] = m
      BY <1>1, AppendProperties
    <2>4. Stored(channel'[d], m)
      BY <1>1, <2>2, <2>3 DEF Stored
    <2>5. ASSUME NEW v, Stored(channel[d], v) PROVE Stored(channel'[d], v)
      BY <1>1, <2>2, <2>3, <2>5 DEF Stored
    <2>6. \A i \in 1..Len(channel'[d]) :
            channel'[d][i] = m \/ \E j \in 1..Len(channel[d]) : channel'[d][i] = channel[d][j]
      <3> SUFFICES ASSUME NEW i \in 1..Len(channel'[d])
                   PROVE  channel'[d][i] = m \/ \E j \in 1..Len(channel[d]) : channel'[d][i] = channel[d][j]
        OBVIOUS
      <3>1. i \in 1..Len(channel[d]) \/ i = Len(channel[d]) + 1
        BY <1>1, <2>2, <2>3
      <3> QED
        BY <2>2, <2>3, <3>1
    <2> QED
      BY <2>2, <2>4, <2>5, <2>6
  <1> QED
    BY <1>2, <1>3

(* A send of nothing newer than the version leaves no future behind.       *)
LEMMA PushFuture ==
  ASSUME TypeOK, NoFuture, NEW d \in Conns, NEW m \in Message, m <= version, Takes(d), Push(d, m)
  PROVE  \A c \in Conns : \A i \in 1..Len(channel'[c]) : channel'[c][i] <= version
  <1> SUFFICES ASSUME NEW c \in Conns, NEW i \in 1..Len(channel'[c])
               PROVE  channel'[c][i] <= version
    OBVIOUS
  <1> QED
    BY PushStores DEF NoFuture

LEMMA NoteIsOld ==
  ASSUME TypeOK
  PROVE  Note \in Message /\ Note <= version /\ version \in 0..MaxVersion /\ MaxVersion \in Nat
  BY ConnectionsAssumption DEF TypeOK, Note, Message

LEMMA FutureStep ==
  ASSUME TypeOK, NoFuture, [Next]_vars
  PROVE  NoFuture'
  <1> USE DEF To, At
  <1>0. /\ Note \in Message /\ Note <= version /\ version \in 0..MaxVersion /\ MaxVersion \in Nat
        /\ \A c \in Conns : snap[c] \in 0..MaxVersion /\ newest[c] \in {Note} \cup 0..MaxVersion
        /\ channel \in [Conns -> Seq(Message)] /\ newest \in [Conns -> {Note} \cup 0..MaxVersion]
        /\ snap \in [Conns -> 0..MaxVersion] /\ 0..MaxVersion \subseteq Message
    BY NoteIsOld DEF TypeOK, Message
  <1> DEFINE Old == \A c \in Conns : \A i \in 1..Len(channel'[c]) : channel'[c][i] <= version
  <1>1. ASSUME NEW c \in Conns, Register(c) PROVE NoFuture'
    BY <1>1 DEF Register, NoFuture, wireVars, gameVars
  <1>2. ASSUME NEW c \in Conns, Greet(c) PROVE NoFuture'
    BY <1>0, <1>2 DEF Greet, NoFuture, gameVars
  <1>3. ASSUME NEW c \in Conns, Initial(c) PROVE NoFuture'
    <2>1. Old
      BY <1>0, <1>3 DEF Initial, NoFuture
    <2> QED
      BY <1>0, <1>3, <2>1 DEF Initial, Sees, NoFuture, gameVars
  <1>4. ASSUME NEW c \in Conns, Act(c) PROVE NoFuture'
    <2>1. /\ version' = version + 1
          /\ UNCHANGED <<snap, newest, channel>>
      BY <1>4 DEF Act, wireVars
    <2>2. \A d \in Conns : \A i \in 1..Len(channel[d]) : channel[d][i] \in Message
      BY <1>0
    <2>3. \A d \in Conns : \A i \in 1..Len(channel[d]) : channel[d][i] <= version + 1
      BY <1>0, <2>2 DEF NoFuture, Message, Note
    <2>4. \A d \in Conns : snap[d] <= version + 1 /\ newest[d] <= version + 1
      <3> SUFFICES ASSUME NEW d \in Conns PROVE snap[d] <= version + 1 /\ newest[d] <= version + 1
        OBVIOUS
      <3>1. snap[d] \in Int /\ newest[d] \in Int /\ version \in Int
        BY <1>0 DEF Note
      <3>2. snap[d] <= version /\ newest[d] <= version
        BY DEF NoFuture
      <3> QED
        BY <3>1, <3>2
    <2> QED
      BY <2>1, <2>3, <2>4 DEF NoFuture
  <1>5. ASSUME NEW c \in Conns, NEW next \in {"open", "check"}, Reply(c, next) PROVE NoFuture'
    <2>1. Old
      BY <1>0, <1>5, PushFuture DEF Reply, NoFuture
    <2> QED
      BY <1>5, <2>1 DEF Reply, NoFuture, gameVars
  <1>6. ASSUME NEW c \in Conns, SendReply(c) PROVE NoFuture'
    <2>1. Old
      BY <1>0, <1>6, PushFuture DEF SendReply
    <2> QED
      BY <1>6, <2>1 DEF SendReply, NoFuture, gameVars
  <1>7. ASSUME NEW c \in Conns, Check(c) \/ Report(c) \/ AwaitRegistry(c) PROVE NoFuture'
    BY <1>7 DEF Check, Report, AwaitRegistry, NoFuture, wireVars, gameVars
  <1>8. ASSUME NEW c \in Conns, List(c) PROVE NoFuture'
    BY <1>0, <1>8 DEF List, NoFuture, wireVars, gameVars
  <1>9. ASSUME NEW c \in Conns, NEW u \in Players, Deliver(c, u) PROVE NoFuture'
    <2>1. registry[u] # NoConn => registry[u] \in Conns
      BY DEF TypeOK
    <2>2. snap[c] \in Message /\ snap[c] <= version
      BY <1>0 DEF NoFuture
    <2>3. Old
      BY <1>9, <2>1, <2>2, PushFuture DEF Deliver, NoFuture
    <2> QED
      BY <1>9, <2>3 DEF Deliver, NoFuture, gameVars
  <1>10. ASSUME NEW c \in Conns, Press(c) PROVE NoFuture'
    <2>1. snap[c] \in Message /\ snap[c] <= version /\ pressing[c] \in Conns
      BY <1>0, <1>10 DEF NoFuture, Press, TypeOK
    <2>2. Old
      BY <1>10, <2>1, PushFuture DEF Press
    <2> QED
      BY <1>10, <2>2 DEF Press, NoFuture, gameVars
  <1>11. ASSUME NEW c \in Conns, Delivered(c) PROVE NoFuture'
    BY <1>0, <1>11 DEF Delivered, NoFuture, wireVars, gameVars
  <1>12. ASSUME NEW c \in Conns, HangUp(c) \/ Cleanup(c) \/ Vanish(c) PROVE NoFuture'
    BY <1>12 DEF HangUp, Cleanup, Vanish, NoFuture, taskVars, wireVars, gameVars
  <1>13. ASSUME NEW c \in Conns, End(c) PROVE NoFuture'
    BY <1>0, <1>13 DEF End, NoFuture, gameVars
  <1>14. ASSUME NEW c \in Conns, Pump(c) PROVE NoFuture'
    <2>1. channel[c] \in Seq(Message) /\ channel[c] # <<>> /\ Len(channel[c]) \in Nat
      BY <1>14 DEF TypeOK, Pump
    <2>2. /\ Len(Tail(channel[c])) = Len(channel[c]) - 1
          /\ \A i \in 1..Len(Tail(channel[c])) : Tail(channel[c])[i] = channel[c][i+1]
          /\ Head(channel[c]) = channel[c][1] /\ 1 \in 1..Len(channel[c])
      BY <2>1, HeadTailProperties, EmptySeq
    <2>3. \A i \in 1..Len(Tail(channel[c])) : Tail(channel[c])[i] <= version
      <3> SUFFICES ASSUME NEW i \in 1..Len(Tail(channel[c])) PROVE Tail(channel[c])[i] <= version
        OBVIOUS
      <3>1. i + 1 \in 1..Len(channel[c])
        BY <2>1, <2>2
      <3> QED
        BY <2>2, <3>1 DEF NoFuture
    <2>4. Old
      <3>1. CASE link[c] = "down"
        <4>1. channel' = [channel EXCEPT ![c] = <<>>]
          BY <1>14, <3>1 DEF Pump
        <4> QED
          BY <1>0, <4>1 DEF NoFuture
      <3>2. CASE link[c] # "down"
        <4>1. channel' = [channel EXCEPT ![c] = Tail(channel[c])]
          BY <1>14, <3>2 DEF Pump
        <4> QED
          BY <1>0, <2>3, <4>1 DEF NoFuture
      <3> QED
        BY <3>1, <3>2
    <2>5. Head(channel[c]) <= version
      BY <2>2 DEF NoFuture
    <2> QED
      BY <1>0, <1>14, <2>4, <2>5 DEF Pump, Sees, NoFuture, taskVars, gameVars
  <1>15. CASE Tick
    BY <1>15 DEF Tick, NoFuture, taskVars, wireVars
  <1>16. CASE UNCHANGED vars
    BY <1>16 DEF vars, NoFuture, taskVars, wireVars, gameVars
  <1> QED
    BY <1>1, <1>2, <1>3, <1>4, <1>5, <1>6, <1>7, <1>8, <1>9, <1>10, <1>11, <1>12, <1>13, <1>14,
       <1>15, <1>16, Steps

LEMMA PumpStartsStep ==
  ASSUME TypeOK, PumpStarts, [Next]_vars
  PROVE  PumpStarts'
  <1> DEFINE Kept == \A d \in Conns : /\ pc'[d] = pc[d] \/ pc'[d] \notin {"idle", "greet", "initial"}
                                      /\ pump'[d] = pump[d] \/ pump[d] = "on"
  <1> USE DEF To, At, TypeOK, wireVars
  <1>1. ASSUME NEW c \in Conns, Register(c) PROVE PumpStarts'
    BY <1>1 DEF Register, PumpStarts
  <1>2. ASSUME NEW c \in Conns, Greet(c) PROVE PumpStarts'
    BY <1>2 DEF Greet, PumpStarts
  <1>3. ASSUME NEW c \in Conns, Initial(c) PROVE PumpStarts'
    <2>1. \/ pc' = [pc EXCEPT ![c] = "leave"] /\ pump' = [pump EXCEPT ![c] = "done"]
          \/ pc' = [pc EXCEPT ![c] = "open"] /\ pump' = [pump EXCEPT ![c] = "on"]
      BY <1>3, Zenon DEF Initial
    <2>2. pc'[c] \in {"leave", "open"}
      BY <2>1
    <2>3. \A d \in Conns \ {c} : pc'[d] = pc[d] /\ pump'[d] = pump[d]
      BY <2>1
    <2> QED
      BY <2>2, <2>3 DEF PumpStarts
  <1>4. ASSUME NEW c \in Conns, End(c) PROVE PumpStarts'
    BY <1>4 DEF End, PumpStarts
  <1>5. ASSUME NEW c \in Conns, NEW next \in {"open", "check"}, Reply(c, next) PROVE Kept
    BY <1>5 DEF Reply
  <1>6. ASSUME NEW c \in Conns, SendReply(c) \/ Act(c) \/ Check(c) \/ Report(c) PROVE Kept
    BY <1>6 DEF SendReply, Act, Check, Report
  <1>7. ASSUME NEW c \in Conns, AwaitRegistry(c) \/ List(c) \/ Press(c) \/ Delivered(c) PROVE Kept
    BY <1>7 DEF AwaitRegistry, List, Press, Delivered
  <1>8. ASSUME NEW c \in Conns, NEW u \in Players, Deliver(c, u) PROVE Kept
    BY <1>8 DEF Deliver
  <1>9. ASSUME NEW c \in Conns, HangUp(c) \/ Cleanup(c) \/ Pump(c) \/ Vanish(c) PROVE Kept
    BY <1>9 DEF HangUp, Cleanup, Pump, Vanish, taskVars
  <1>10. Tick \/ UNCHANGED vars => Kept
    BY DEF Tick, vars, taskVars
  <1>11. Kept => PumpStarts'
    BY DEF PumpStarts
  <1> QED
    BY <1>1, <1>2, <1>3, <1>4, <1>5, <1>6, <1>7, <1>8, <1>9, <1>10, <1>11, Steps

(* A step that neither sends nor takes anything back leaves those served   *)
(* who were.                                                               *)
LEMMA CalmStep ==
  ASSUME NEW x \in Conns, Served(x), UNCHANGED <<version, owner, channel, newest>>,
         pc[x] = "initial" => pc'[x] = "initial" /\ snap'[x] = snap[x],
         \A b \in Conns : Sending(b, x) => Sending(b, x)'
  PROVE  Served(x)'
  <1>1. Shown(x) => Shown(x)'
    BY DEF Shown
  <1> QED
    BY <1>1 DEF Served

LEMMA UpToDateStep ==
  ASSUME TypeOK, RegistryIsLive, NoFuture, PumpStarts, UpToDate, [Next]_vars
  PROVE  UpToDate'
  <1> SUFFICES ASSUME NEW x \in Conns, Reachable(x)' PROVE Served(x)'
    BY DEF UpToDate
  <1> USE DEF To, At, TypeOK
  <1>0. NoConn \notin Conns
    BY ConnectionsAssumption
  <1>1. ASSUME NEW c \in Conns, Register(c) PROVE Served(x)'
    <2>1. x # c /\ Reachable(x)
      BY <1>1 DEF Register, Reachable, Registered, wireVars
    <2> QED
      BY <1>1, <2>1, CalmStep DEF Register, UpToDate, Sending, wireVars, gameVars
  <1>2. ASSUME NEW c \in Conns, Greet(c) PROVE Served(x)'
    <2>1. CASE x = c
      BY <1>2, <2>1 DEF Greet, Served, gameVars
    <2>2. CASE x # c
      <3>1. Reachable(x)
        BY <1>2, <2>2 DEF Greet, Reachable, Registered, Bridge
      <3> QED
        BY <1>2, <2>2, <3>1, CalmStep DEF Greet, UpToDate, Sending, gameVars
    <2> QED
      BY <2>1, <2>2
  <1>3. ASSUME NEW c \in Conns, Initial(c) PROVE Served(x)'
    <2>1. Reachable(x) /\ link[x] = "up"
      BY <1>3 DEF Initial, Reachable, Registered, Bridge, PumpStarts
    <2>2. Served(x)
      BY <2>1 DEF UpToDate
    <2>3. \A b \in Conns : Sending(b, x) => Sending(b, x)'
      BY <1>3 DEF Initial, Sending, gameVars
    <2>4. channel'[x] = channel[x] /\ version' = version
      BY <1>3, <2>1 DEF Initial, gameVars
    <2>5. CASE x = c
      <3>1. newest'[x] = IF snap[x] > newest[x] THEN snap[x] ELSE newest[x]
        BY <1>3, <2>1, <2>5 DEF Initial, Sees
      <3>2. /\ newest[x] <= version /\ snap[x] <= version
            /\ newest[x] \in Int /\ snap[x] \in Int /\ version \in Int
        BY NoteIsOld DEF NoFuture, Note
      <3>3. newest[x] = version \/ snap[x] = version => newest'[x] = version
        BY <3>1, <3>2
      <3> QED
        BY <2>2, <2>3, <2>4, <3>3 DEF Served, Shown
    <2>6. CASE x # c
      <3>1. newest'[x] = newest[x] /\ pc'[x] = pc[x] /\ snap'[x] = snap[x]
        BY <1>3, <2>6 DEF Initial, Sees
      <3> QED
        BY <2>2, <2>3, <2>4, <3>1 DEF Served, Shown
    <2> QED
      BY <2>5, <2>6
  <1>4. ASSUME NEW c \in Conns, Act(c) PROVE Served(x)'
    BY <1>4 DEF Act, Served, Sending
  <1>5. ASSUME NEW c \in Conns, NEW m \in Message, NEW d \in Conns, Takes(d), Push(d, m),
               Reachable(x), UNCHANGED <<version, owner, newest, snap>>, pc'[x] = pc[x] \/ pc[x] # "initial",
               \A b \in Conns : Sending(b, x) => Sending(b, x)' \/ (d = x /\ m = version)
        PROVE  Served(x)'
    <2>1. pump[x] # "done"
      BY <1>5 DEF Reachable
    <2>2. \A v : Stored(channel[x], v) => Stored(channel'[x], v)
      BY <1>5, <2>1, PushStores
    <2>3. Served(x)
      BY <1>5 DEF UpToDate
    <2>4. d = x /\ m = version => Stored(channel'[x], version)
      BY <1>5, <2>1, PushStores
    <2>5. Stored(channel'[x], version) \/ newest[x] = version => Shown(x)'
      BY <1>5 DEF Shown
    <2>6. Shown(x) => Shown(x)'
      BY <2>2, <2>5 DEF Shown
    <2> QED
      BY <1>5, <2>3, <2>4, <2>5, <2>6 DEF Served
  <1>6. ASSUME NEW c \in Conns, NEW next \in {"open", "check"}, Reply(c, next) PROVE Served(x)'
    <2>1. Reachable(x)
      BY <1>6 DEF Reply, Reachable, Registered
    <2>2. \A b \in Conns : Sending(b, x) => Sending(b, x)'
      BY <1>6 DEF Reply, Sending, gameVars
    <2>3. CASE Takes(c)
      BY <1>5, <1>6, <2>1, <2>2, <2>3, NoteIsOld DEF Reply, gameVars
    <2>4. CASE ~Takes(c)
      BY <1>6, <2>1, <2>2, <2>4, CalmStep DEF Reply, UpToDate, gameVars
    <2> QED
      BY <2>3, <2>4
  <1>7. ASSUME NEW c \in Conns, SendReply(c) PROVE Served(x)'
    <2>1. Reachable(x)
      BY <1>7 DEF SendReply, Reachable, Registered
    <2>2. \A b \in Conns : Sending(b, x) => Sending(b, x)'
      BY <1>7 DEF SendReply, Sending, gameVars
    <2> QED
      BY <1>5, <1>7, <2>1, <2>2, NoteIsOld DEF SendReply, gameVars
  <1>8. ASSUME NEW c \in Conns, Check(c) \/ Report(c) \/ AwaitRegistry(c) PROVE Served(x)'
    <2>1. Reachable(x)
      BY <1>8 DEF Check, Report, AwaitRegistry, Reachable, Registered, wireVars
    <2>2. \A b \in Conns : Sending(b, x) => Sending(b, x)'
      BY <1>8 DEF Check, Report, AwaitRegistry, Sending, gameVars
    <2> QED
      BY <1>8, <2>1, <2>2, CalmStep DEF Check, Report, AwaitRegistry, UpToDate, wireVars, gameVars
  <1>9. ASSUME NEW c \in Conns, List(c) PROVE Served(x)'
    <2>1. registry[owner[x]] = x /\ owner'[x] = owner[x] /\ owner[x] \in Players
      BY <1>9 DEF List, Reachable, Registered
    <2>2. owner'[x] \in todo'[c] /\ pc'[c] = "deliver" /\ snap'[c] = version'
      BY <1>0, <1>9, <2>1 DEF List, gameVars
    <2> QED
      BY <2>2 DEF Served, Sending
  <1>10. ASSUME NEW c \in Conns, NEW u \in Players, Deliver(c, u) PROVE Served(x)'
    <2>1. Reachable(x) /\ registry[owner[x]] = x
      BY <1>10 DEF Deliver, Reachable, Registered
    <2>2. /\ UNCHANGED <<version, owner, newest, snap, pc>>
          /\ pressing[c] = NoConn /\ todo' = [todo EXCEPT ![c] = @ \ {u}]
      BY <1>10 DEF Deliver, RegistryFree, gameVars
    <2>3. \A b \in Conns : Sending(b, x) /\ ~(b = c /\ u = owner[x]) => Sending(b, x)'
      BY <1>0, <1>10, <2>2 DEF Deliver, Sending, gameVars
    <2>4. Sending(c, x) => snap[c] = version
      BY <1>10 DEF Deliver, Sending
    <2>5. CASE registry[u] = NoConn
      <3>1. u # owner[x] /\ channel' = channel
        BY <1>0, <1>10, <2>1, <2>5 DEF Deliver, Takes, Push
      <3> QED
        BY <2>1, <2>2, <2>3, <3>1, CalmStep DEF UpToDate
    <2>6. CASE registry[u] # NoConn /\ Takes(registry[u])
      <3>1. registry[u] \in Conns /\ Push(registry[u], snap[c]) /\ snap[c] \in Message
        BY <1>10, <2>6, NoteIsOld DEF Deliver, Message
      <3>2. u = owner[x] => registry[u] = x
        BY <2>1
      <3>3. \A b \in Conns : Sending(b, x) => Sending(b, x)' \/ (registry[u] = x /\ snap[c] = version)
        BY <2>3, <2>4, <3>2
      <3> QED
        BY <1>5, <2>1, <2>2, <2>6, <3>1, <3>3
    <2>7. CASE registry[u] # NoConn /\ ~Takes(registry[u])
      <3>1. channel' = channel /\ pressing'[c] = registry[u]
        BY <1>10, <2>7 DEF Deliver
      <3>2. u = owner[x] /\ Sending(c, x) => Sending(c, x)'
        BY <2>1, <2>2, <2>4, <3>1, <1>10 DEF Sending, Deliver
      <3>3. \A b \in Conns : Sending(b, x) => Sending(b, x)'
        BY <2>3, <3>2
      <3> QED
        BY <2>1, <2>2, <3>1, <3>3, CalmStep DEF UpToDate
    <2> QED
      BY <2>5, <2>6, <2>7
  <1>11. ASSUME NEW c \in Conns, Press(c) PROVE Served(x)'
    <2>1. Reachable(x)
      BY <1>11 DEF Press, Reachable, Registered
    <2>2. pressing[c] \in Conns /\ snap[c] \in Message
      BY <1>11, NoteIsOld DEF Press, Message
    <2>3. \A b \in Conns : Sending(b, x) => Sending(b, x)' \/ (pressing[c] = x /\ snap[c] = version)
      BY <1>11 DEF Press, Sending, gameVars
    <2> QED
      BY <1>5, <1>11, <2>1, <2>2, <2>3 DEF Press, gameVars
  <1>12. ASSUME NEW c \in Conns, Delivered(c) PROVE Served(x)'
    <2>1. Reachable(x)
      BY <1>12 DEF Delivered, Reachable, Registered, wireVars
    <2>2. \A b \in Conns : Sending(b, x) => Sending(b, x)'
      BY <1>0, <1>12 DEF Delivered, Sending, gameVars
    <2> QED
      BY <1>12, <2>1, <2>2, CalmStep DEF Delivered, UpToDate, wireVars, gameVars
  <1>13. ASSUME NEW c \in Conns, HangUp(c) \/ Cleanup(c) PROVE Served(x)'
    <2>1. Reachable(x)
      BY <1>0, <1>13 DEF HangUp, Cleanup, Reachable, Registered, wireVars
    <2>2. \A b \in Conns : Sending(b, x) => Sending(b, x)'
      BY <1>13 DEF HangUp, Cleanup, Sending, gameVars
    <2> QED
      BY <1>13, <2>1, <2>2, CalmStep DEF HangUp, Cleanup, UpToDate, wireVars, gameVars
  <1>14. ASSUME NEW c \in Conns, End(c) PROVE Served(x)'
    <2>1. Reachable(x) /\ x # c
      BY <1>0, <1>14 DEF End, Reachable, Registered, RegistryIsLive
    <2>2. Served(x)
      BY <2>1 DEF UpToDate
    <2>3. \A b \in Conns : Sending(b, x) => Sending(b, x)'
      BY <1>14 DEF End, Sending, gameVars
    <2>4. Shown(x) => Shown(x)'
      BY <1>14, <2>1 DEF End, Shown, gameVars
    <2> QED
      BY <1>14, <2>1, <2>2, <2>3, <2>4 DEF End, Served, gameVars
  <1>15. ASSUME NEW c \in Conns, Pump(c) PROVE Served(x)'
    <2>1. Reachable(x) /\ link[x] = "up"
      BY <1>15 DEF Pump, Reachable, Registered, Bridge, taskVars
    <2>2. Served(x)
      BY <2>1 DEF UpToDate
    <2>3. \A b \in Conns : Sending(b, x) <=> Sending(b, x)'
      BY <1>15 DEF Pump, Sending, gameVars, taskVars
    <2>4. Shown(x) => Shown(x)'
      <3>1. CASE x # c
        BY <1>15, <3>1 DEF Pump, Sees, Shown, gameVars
      <3>2. CASE x = c
        <4>1. channel[x] \in Seq(Message) /\ channel[x] # <<>> /\ Len(channel[x]) \in Nat
          BY <1>15, <3>2 DEF Pump
        <4>2. /\ Len(Tail(channel[x])) = Len(channel[x]) - 1
              /\ \A i \in 1..Len(Tail(channel[x])) : Tail(channel[x])[i] = channel[x][i+1]
              /\ Head(channel[x]) = channel[x][1] /\ 1 \in 1..Len(channel[x])
          BY <4>1, HeadTailProperties, EmptySeq
        <4>3. channel'[x] = Tail(channel[x])
          BY <1>15, <2>1, <3>2 DEF Pump
        <4>4. newest'[x] = IF channel[x][1] > newest[x] THEN channel[x][1] ELSE newest[x]
          BY <1>15, <2>1, <3>2, <4>2 DEF Pump, Sees
        <4>5. channel[x][1] <= version /\ newest[x] <= version /\ version' = version
          BY <1>15, <4>2 DEF NoFuture, Pump, gameVars
        <4>6. channel[x][1] \in Int /\ newest[x] \in Int /\ version \in Int
          <5>1. channel[x][1] \in Message
            BY <4>1, <4>2, ElementOfSeq
          <5> QED
            BY <5>1, NoteIsOld DEF Message, Note
        <4>7. newest[x] = version \/ channel[x][1] = version => newest'[x] = version
          BY <4>4, <4>5, <4>6
        <4>8. ASSUME NEW i \in 1..Len(channel[x]), channel[x][i] = version, i # 1
              PROVE  Stored(channel'[x], version)
          <5>1. i - 1 \in 1..Len(Tail(channel[x])) /\ (i - 1) + 1 = i
            BY <4>1, <4>2, <4>8
          <5>2. Tail(channel[x])[i-1] = version
            BY <4>2, <4>8, <5>1
          <5> QED
            BY <4>3, <5>1, <5>2 DEF Stored
        <4>9. newest[x] = version => Shown(x)'
          BY <4>5, <4>7 DEF Shown
        <4>10. ASSUME Stored(channel[x], version) PROVE Shown(x)'
          <5>1. PICK i \in 1..Len(channel[x]) : channel[x][i] = version
            BY <4>10 DEF Stored
          <5>2. newest'[x] = version \/ Stored(channel'[x], version)
            BY <4>7, <4>8, <5>1
          <5> QED
            BY <4>5, <5>2 DEF Shown
        <4> QED
          BY <4>9, <4>10 DEF Shown
      <3> QED
        BY <3>1, <3>2
    <2>5. UNCHANGED <<pc, snap, version>>
      BY <1>15 DEF Pump, taskVars, gameVars
    <2> QED
      BY <2>2, <2>3, <2>4, <2>5 DEF Served
  <1>16. ASSUME \/ \E c \in Conns : Vanish(c)
                \/ Tick
                \/ UNCHANGED vars
         PROVE  Served(x)'
    <2>1. Reachable(x)
      BY <1>16 DEF Vanish, Tick, vars, Reachable, Registered, taskVars, wireVars
    <2>2. \A b \in Conns : Sending(b, x) => Sending(b, x)'
      BY <1>16 DEF Vanish, Tick, vars, Sending, taskVars, gameVars
    <2> QED
      BY <1>16, <2>1, <2>2, CalmStep DEF Vanish, Tick, vars, UpToDate, taskVars, wireVars, gameVars
  <1> QED
    BY <1>1, <1>2, <1>3, <1>4, <1>6, <1>7, <1>8, <1>9, <1>10, <1>11, <1>12, <1>13, <1>14, <1>15,
       <1>16, Steps

THEOREM InvHolds == Spec => []Inv
  <1>1. Init => Inv
    <2> SUFFICES ASSUME Init PROVE Inv
      OBVIOUS
    <2>1. TypeOK
      BY InitType
    <2>2. RegistryIsLive /\ Accounted /\ Reporting
      BY ConnectionsAssumption DEF Init, RegistryIsLive, Accounted, Engaged, Reporting
    <2>3. NoFuture /\ PumpStarts
      BY DEF Init, NoFuture, PumpStarts, Note
    <2>4. UpToDate
      BY DEF Init, UpToDate, Reachable
    <2> QED
      BY <2>1, <2>2, <2>3, <2>4 DEF Inv
  <1>2. Inv /\ [Next]_vars => Inv'
    BY TypeStep, RegistryStep, ReportingStep, FutureStep, PumpStartsStep, UpToDateStep DEF Inv
  <1> QED
    BY <1>1, <1>2, PTL DEF Spec

THEOREM ConnectionsTypeCorrect == Spec => []TypeOK
  BY InvHolds, PTL DEF Inv

(* Whoever is in the registry has a task that will take the entry out.     *)
THEOREM RegistryIsAlwaysLive == Spec => []RegistryIsLive
  BY InvHolds, PTL DEF Inv

(* Only a second connection of the player hides an open one.               *)
THEOREM InvisibleNeedsSecond == Spec => []InvisibleOnlyAfterSecond
  <1>1. Inv => InvisibleOnlyAfterSecond
    BY DEF Inv, Accounted, Engaged, InvisibleOnlyAfterSecond
  <1> QED
    BY <1>1, InvHolds, PTL

(* A game that ends by an action is reported to the lobby.                 *)
THEOREM SilenceNeedsTick == Spec => []SilentOnlyAfterTick
  <1>1. Inv => SilentOnlyAfterTick
    BY DEF Inv, Reporting, SilentOnlyAfterTick, Quiet, Busy
  <1> QED
    BY <1>1, InvHolds, PTL

(* Nobody who can be reached is behind when no broadcast is on its way,    *)
(* however logins, full channels and broadcasts interleave.                *)
THEOREM NobodyStaysBehind == Spec => []NobodyIsBehind
  <1>1. Inv => NobodyIsBehind
    <2> SUFFICES ASSUME Inv, Quiet, NEW c \in Conns,
                        Registered(c), pc[c] = "open", channel[c] = <<>>, pump[c] = "on", link[c] = "up"
                 PROVE  newest[c] = version
      BY DEF NobodyIsBehind
    <2>1. Served(c)
      BY DEF Inv, UpToDate, Reachable
    <2>2. ~Stored(channel[c], version)
      BY EmptySeq DEF Stored
    <2>3. \A b \in Conns : ~Sending(b, c)
      BY DEF Quiet, Busy, Sending
    <2> QED
      BY <2>1, <2>2, <2>3 DEF Served, Shown
  <1> QED
    BY <1>1, InvHolds, PTL
=============================================================================
