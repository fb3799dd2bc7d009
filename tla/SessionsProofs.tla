--------------------------- MODULE SessionsProofs ----------------------------
(***************************************************************************)
(* Proofs about Sessions for any number of tokens and games and any        *)
(* lifetime, length of a day and period of the garbage collection: a game  *)
(* misses only the logins that were overlooked, a session lasts until its  *)
(* day is over and not much longer, and the collection spares the rest.    *)
(***************************************************************************)
EXTENDS Sessions, WellFoundedInduction, NaturalsInduction, TLAPS

------------------------------------------------------------------------------
(* Days and maxima                                                         *)

(* A day is over when DayLength steps of it are.                           *)
LEMMA DayBounds ==
  ASSUME NEW x \in Nat
  PROVE  Day(x) \in Nat /\ DayLength * Day(x) <= x /\ x < DayLength * (Day(x) + 1)
<1>1. DayLength \in Nat \ {0}
  BY SessionsAssumption
<1> QED
  BY <1>1 DEF Day

LEMMA DayMonotonic ==
  ASSUME NEW x \in Nat, NEW y \in Nat, x <= y
  PROVE  Day(x) \in Nat /\ Day(y) \in Nat /\ Day(x) <= Day(y)
<1>1. DayLength \in Nat \ {0}
  BY SessionsAssumption
<1> QED
  BY <1>1 DEF Day

(* Max of a set of integers with an upper bound is its greatest element.   *)
LEMMA MaxOfBounded ==
  ASSUME NEW S \in SUBSET Int, S # {}, NEW top \in Int, \A x \in S : x <= top
  PROVE  Max(S) \in S /\ \A x \in S : x <= Max(S)
<1> DEFINE R == OpToRel(<, Nat)
           D == {top - x : x \in S}
<1>1. IsWellFoundedOn(R, Nat)
  BY NatLessThanWellFounded
<1>2. \A x, y \in Nat : x < y => <<x, y>> \in R
  BY DEF OpToRel
<1>3. D \subseteq Nat /\ D # {}
  <2>1. \A x \in S : x \in Int /\ x <= top /\ top - x \in Nat
    OBVIOUS
  <2> QED
    BY <2>1
<1> HIDE DEF R
<1>4. PICK m \in D : \A d \in D : ~(<<d, m>> \in R)
  <2> HIDE DEF D
  <2> QED
    BY <1>1, <1>3, WFMin, Zenon
<1>5. PICK x \in S : m = top - x
  BY <1>4
<1>6. \A y \in S : y <= x
  <2> SUFFICES ASSUME NEW y \in S PROVE y <= x
    OBVIOUS
  <2>1. top - y \in D /\ top - y \in Nat /\ m \in Nat
    BY <1>3, <1>4
  <2>2. ~(top - y < m)
    BY <1>2, <1>4, <2>1
  <2> QED
    BY <1>5, <2>2
<1>7. Max(S) = CHOOSE z \in S : \A y \in S : z >= y
  BY DEF Max
<1> QED
  BY <1>6, <1>7

------------------------------------------------------------------------------
(* Types                                                                   *)

TypeInv ==
  /\ now \in 0..MaxTime
  /\ nextGc \in Nat /\ nextGc - GcEvery <= now /\ now <= nextGc
  /\ created \in [Tokens -> Gone..now]
  /\ game \in [Games -> {"off", "starting", "live", "over"}]
  /\ accepted \in [Games -> SUBSET Tokens]
  /\ sync \in {"sleep", "push", "advance"} /\ batch \subseteq Tokens
  /\ sync # "push" => batch = {}
  /\ cursor \in Never..now
  /\ during \subseteq Tokens

LEMMA InitTypeInv == Init => TypeInv
  BY SessionsAssumption DEF Init, TypeInv, Never, Gone

\* Newest is a time that has been.
LEMMA NewestIsPast ==
  ASSUME TypeInv
  PROVE  /\ Newest \in Never..now /\ cursor <= Newest
         /\ \A t \in Rows : Unexpired(t) => created[t] <= Newest
         /\ Newest = cursor \/ \E t \in Rows : Unexpired(t) /\ created[t] = Newest
<1> DEFINE S == {cursor} \cup {created[t] : t \in {u \in Rows : Unexpired(u)}}
<1>1. now \in Int /\ cursor \in Never..now /\ \A t \in Rows : created[t] \in 0..now
  BY DEF TypeInv, Rows, Gone
<1>2. S \subseteq Never..now
  BY <1>1 DEF Never
<1>3. S \in SUBSET Int /\ S # {} /\ \A x \in S : x <= now
  BY <1>1, <1>2 DEF Never
<1>4. Max(S) \in S /\ \A x \in S : x <= Max(S)
  BY <1>1, <1>3, MaxOfBounded
<1> QED
  BY <1>2, <1>4 DEF Newest

LEMMA TypeInvStep == TypeInv /\ [Next]_vars => TypeInv'
<1> SUFFICES ASSUME TypeInv, [Next]_vars PROVE TypeInv'
  OBVIOUS
<1> USE SessionsAssumption DEF TypeInv, Never, Gone, syncVars
<1>1. ASSUME NEW t \in Tokens, Login(t) PROVE TypeInv'
  BY <1>1 DEF Login
<1>2. ASSUME NEW t \in Tokens, Logout(t) PROVE TypeInv'
  BY <1>2 DEF Logout, Delete
<1>3. ASSUME NEW g \in Games, StartRead(g) PROVE TypeInv'
  <2>1. {t \in Members \cap Rows : Unexpired(t)} \in SUBSET Tokens
    BY DEF Rows
  <2> QED
    BY <1>3, <2>1 DEF StartRead
<1>4. ASSUME NEW g \in Games, Insert(g) \/ GameEnds(g) PROVE TypeInv'
  BY <1>4 DEF Insert, GameEnds
<1>5. CASE Query
  BY <1>5 DEF Query, Fresh, Rows
<1>6. CASE Push
  <2>1. PICK t \in batch : /\ PushTo({g \in Games : game[g] = "live"}, t)
                           /\ batch' = batch \ {t}
                           /\ sync' = IF batch' = {} THEN "advance" ELSE "push"
    BY <1>6 DEF Push
  <2>2. accepted' \in [Games -> SUBSET Tokens]
    BY <2>1 DEF PushTo
  <2> QED
    BY <1>6, <2>1, <2>2 DEF Push
<1>7. CASE Advance
  BY <1>7, NewestIsPast DEF Advance
<1>8. CASE Gc
  BY <1>8 DEF Gc, Delete
<1>9. CASE Tick
  BY <1>9 DEF Tick
<1>10. CASE UNCHANGED vars
  BY <1>10 DEF vars
<1> QED
  BY <1>1, <1>2, <1>3, <1>4, <1>5, <1>6, <1>7, <1>8, <1>9, <1>10 DEF Next, SyncStep

THEOREM SessionsTypes == Spec => []TypeInv
  BY InitTypeInv, TypeInvStep, PTL DEF Spec

------------------------------------------------------------------------------
(* How long a session lasts                                                *)

(* Nobody is signed out early: what the collection takes has expired.      *)
THEOREM CollectionSparesLive == Spec => GcSparesLive
<1> DEFINE Spares == \A t \in Rows \ Rows' : nextGc' # nextGc => Expires(t) < now
<1>1. ASSUME TypeInv, [Next]_vars PROVE [Spares]_vars
  <2>1. CASE Gc
    <3> SUFFICES ASSUME NEW t \in Rows \ Rows' PROVE Expires(t) < now
      OBVIOUS
    <3>1. t \in Tokens /\ created[t] \in Nat /\ now \in Nat /\ Expires(t) \in Nat
      BY <1>1, SessionsAssumption DEF Rows, TypeInv, Expires, Gone
    <3>2. Day(Expires(t)) < Day(now)
      <4>1. t \in Expired
        BY <2>1 DEF Gc, Delete, Rows
      <4> QED
        BY <3>1, <4>1, DayBounds DEF Expired, Unexpired
    <3>3. ~(now <= Expires(t))
      BY <3>1, <3>2, DayMonotonic
    <3> QED
      BY <3>1, <3>3
  <2>2. CASE ~Gc
    <3>1. nextGc' = nextGc
      BY <1>1, <2>2 DEF Next, vars, SyncStep, Login, Logout, StartRead, Insert, GameEnds,
                        Query, Push, Advance, Tick
    <3> QED
      BY <3>1
  <2> QED
    BY <2>1, <2>2
<1> QED
  BY <1>1, SessionsTypes, PTL DEF GcSparesLive, Spec

\* What the last collection left, or was created since, was not over by then.
OutlivedGc == \A t \in Rows : nextGc - GcEvery < DayLength * (Day(Expires(t)) + 1)

(* An expiry lies before the end of its day.                               *)
LEMMA ExpiryBounds ==
  ASSUME TypeInv, NEW t \in Rows
  PROVE  /\ Expires(t) \in Nat /\ Day(Expires(t)) \in Nat
         /\ DayLength * (Day(Expires(t)) + 1) \in Nat
         /\ Expires(t) < DayLength * (Day(Expires(t)) + 1)
<1>1. Expires(t) \in Nat
  BY SessionsAssumption DEF TypeInv, Rows, Expires, Gone
<1>2. Day(Expires(t)) \in Nat
  BY <1>1, DayBounds
<1>3. DayLength * (Day(Expires(t)) + 1) \in Nat
  BY <1>2, SessionsAssumption
<1> QED
  BY <1>1, <1>2, <1>3, DayBounds

LEMMA OutlivedGcStep == TypeInv /\ OutlivedGc /\ [Next]_vars => OutlivedGc'
<1> SUFFICES ASSUME TypeInv, OutlivedGc, [Next]_vars PROVE OutlivedGc'
  OBVIOUS
<1>0. TypeInv'
  BY TypeInvStep
<1>1. ASSUME NEW t \in Tokens, Login(t) PROVE OutlivedGc'
  <2> SUFFICES ASSUME NEW u \in Rows' PROVE nextGc' - GcEvery < (DayLength * (Day(Expires(u)) + 1))'
    BY DEF OutlivedGc
  <2>1. nextGc' = nextGc /\ nextGc \in Nat /\ nextGc - GcEvery <= now /\ now \in Nat /\ GcEvery \in Nat
    BY <1>1, SessionsAssumption DEF Login, TypeInv
  <2>2. CASE u = t
    <3>1. created'[t] = now /\ t \in Rows' /\ Expires(t)' = now + Ttl
      BY <1>1, <2>2 DEF Login, TypeInv, Expires
    <3>2. Expires(t)' < (DayLength * (Day(Expires(t)) + 1))'
      <4>1. now + Ttl \in Nat
        BY <2>1, SessionsAssumption
      <4> QED
        BY <3>1, <4>1, DayBounds DEF Day
    <3>3. (DayLength * (Day(Expires(t)) + 1))' \in Nat
      <4>1. now + Ttl \in Nat
        BY <2>1, SessionsAssumption
      <4>2. Day(now + Ttl) \in Nat
        BY <4>1, DayBounds
      <4>3. DayLength * (Day(now + Ttl) + 1) \in Nat
        BY <4>2, SessionsAssumption
      <4> QED
        BY <3>1, <4>3 DEF Day
    <3> QED
      BY <2>1, <2>2, <3>1, <3>2, <3>3, SessionsAssumption
  <2>3. CASE u # t
    <3>1. u \in Rows /\ created'[u] = created[u]
      BY <1>1, <2>3 DEF Login, TypeInv, Rows
    <3> QED
      BY <2>1, <3>1 DEF OutlivedGc, Expires, Day
  <2> QED
    BY <2>2, <2>3
<1>2. CASE Gc
  <2> SUFFICES ASSUME NEW u \in Rows' PROVE nextGc' - GcEvery < (DayLength * (Day(Expires(u)) + 1))'
    BY DEF OutlivedGc
  <2>1. nextGc' = now + GcEvery /\ now \in Nat /\ GcEvery \in Nat
    BY <1>2, SessionsAssumption DEF Gc, TypeInv
  <2>2. u \in Rows /\ u \notin Expired /\ created'[u] = created[u]
    BY <1>2 DEF Gc, Delete, Rows, Gone
  <2>3. Day(now) <= Day(Expires(u))
    BY <2>1, <2>2, DayBounds, ExpiryBounds DEF Expired, Unexpired
  <2>4. DayLength * (Day(now) + 1) <= DayLength * (Day(Expires(u)) + 1)
    <3>1. Day(now) \in Nat /\ Day(Expires(u)) \in Nat /\ DayLength \in Nat
      BY <2>1, <2>2, DayBounds, ExpiryBounds, SessionsAssumption
    <3> QED
      BY <2>3, <3>1
  <2>5. now < DayLength * (Day(now) + 1) /\ DayLength * (Day(now) + 1) \in Nat
    <3>1. Day(now) \in Nat /\ DayLength \in Nat
      BY <2>1, DayBounds, SessionsAssumption
    <3> QED
      BY <2>1, <3>1, DayBounds
  <2>6. now < DayLength * (Day(Expires(u)) + 1)
    BY <2>1, <2>2, <2>4, <2>5, ExpiryBounds
  <2>7. Expires(u)' = Expires(u)
    BY <2>2 DEF Expires
  <2> QED
    BY <2>1, <2>6, <2>7 DEF Day
<1>3. ASSUME nextGc' = nextGc, \A u \in Rows' : u \in Rows /\ created'[u] = created[u] PROVE OutlivedGc'
  BY <1>3 DEF OutlivedGc, Expires, Day
<1>4. ASSUME NEW t \in Tokens, Logout(t) PROVE OutlivedGc'
  <2>1. nextGc' = nextGc /\ \A u \in Rows' : u \in Rows /\ created'[u] = created[u]
    BY <1>4 DEF Logout, Delete, Rows, Gone
  <2> QED
    BY <1>3, <2>1
<1>5. ASSUME UNCHANGED <<nextGc, created>> PROVE OutlivedGc'
  BY <1>3, <1>5 DEF Rows
<1>6. (\E g \in Games : StartRead(g) \/ Insert(g) \/ GameEnds(g)) \/ SyncStep \/ Tick \/ UNCHANGED vars
        => UNCHANGED <<nextGc, created>>
  BY DEF StartRead, Insert, GameEnds, SyncStep, Query, Push, Advance, Tick, vars
<1> QED
  BY <1>1, <1>2, <1>4, <1>5, <1>6 DEF Next

(* A session is gone at the latest one period after the end of the day it  *)
(* expires on.                                                             *)
THEOREM SessionsAlwaysLapse == Spec => []SessionsLapse
<1>1. Init => OutlivedGc
  BY DEF Init, OutlivedGc, Rows, Never
<1>2. ASSUME TypeInv, OutlivedGc PROVE SessionsLapse
  <2> SUFFICES ASSUME NEW t \in Rows PROVE now < DayLength * (Day(Expires(t)) + 1) + GcEvery
    BY DEF SessionsLapse
  <2>1. nextGc - GcEvery < DayLength * (Day(Expires(t)) + 1)
    BY <1>2 DEF OutlivedGc
  <2>2. DayLength * (Day(Expires(t)) + 1) \in Nat
    BY <1>2, ExpiryBounds
  <2> QED
    BY <1>2, <2>1, <2>2, SessionsAssumption DEF TypeInv
<1> QED
  BY <1>1, <1>2, OutlivedGcStep, SessionsTypes, PTL DEF Spec

------------------------------------------------------------------------------
(* What a game misses                                                      *)

\* A game that starts was told of every member, or the login was overlooked.
ToldAtStart ==
  \A g \in Games, t \in Members \cap Rows :
    game[g] = "starting" /\ Unexpired(t) => t \in accepted[g] \/ <<g, t>> \in raced

\* While the sync task is at work, a login it does not have in its batch came
\* after its query, and none of a later second did: otherwise it is overlooked.
NothingSlipsBy ==
  \A g \in Games, t \in Tokens :
    /\ sync # "sleep" /\ Due(g, t) /\ t \notin accepted[g] /\ <<g, t>> \notin raced
    /\ created[t] >= cursor /\ t \notin batch
    => t \in during /\ \A u \in Rows : created[u] <= created[t]

MissInv == TypeInv /\ ToldAtStart /\ MissedOnlyInWindow /\ NothingSlipsBy

(* A session that is still good tomorrow is good today.                    *)
LEMMA StaysExpired ==
  ASSUME TypeInv, NEW t \in Rows, now' \in Nat, now <= now', created'[t] = created[t],
         Unexpired(t)'
  PROVE  Unexpired(t)
<1>1. now \in Nat /\ Day(Expires(t)) \in Nat /\ Expires(t)' = Expires(t)
  BY ExpiryBounds DEF TypeInv, Expires
<1>2. Day(now) <= Day(now') /\ Day(now) \in Nat /\ Day(now') \in Nat
  BY <1>1, DayMonotonic
<1>3. Day(Expires(t)) >= Day(now')
  BY <1>1 DEF Unexpired, Day
<1> QED
  BY <1>1, <1>2, <1>3 DEF Unexpired

(* A step after which no game is due more, nor told less.                  *)
LEMMA CalmStep ==
  ASSUME MissInv, UNCHANGED <<game, accepted, sync, batch, cursor, during, raced>>,
         now' \in Nat, now <= now',
         \A t \in Rows' : t \in Rows /\ created'[t] = created[t]
  PROVE  ToldAtStart' /\ MissedOnlyInWindow' /\ NothingSlipsBy'
<1>1. \A t \in Rows' : Unexpired(t)' => Unexpired(t)
  BY StaysExpired DEF MissInv
<1>2. ToldAtStart'
  BY <1>1 DEF MissInv, ToldAtStart
<1>3. \A g \in Games, t \in Tokens : Due(g, t)' => Due(g, t) /\ created'[t] = created[t]
  BY <1>1 DEF Due
<1>4. MissedOnlyInWindow'
  BY <1>3 DEF MissInv, MissedOnlyInWindow
<1>5. NothingSlipsBy'
  BY <1>3 DEF MissInv, NothingSlipsBy
<1> QED
  BY <1>2, <1>4, <1>5

LEMMA LoginMisses ==
  ASSUME MissInv, NEW u \in Tokens, Login(u)
  PROVE  ToldAtStart' /\ MissedOnlyInWindow' /\ NothingSlipsBy'
<1>1. /\ created[u] = Never /\ created' = [created EXCEPT ![u] = now]
      /\ raced' = raced \cup Overlooked(u)
      /\ during' = IF sync = "sleep" THEN during ELSE during \cup {u}
      /\ UNCHANGED <<now, game, accepted, sync, batch, cursor>>
  BY DEF Login, syncVars
<1>2. /\ now \in Nat /\ cursor \in Int /\ cursor <= now
      /\ \A t \in Tokens : created[t] \in Int /\ created[t] <= now
  BY DEF MissInv, TypeInv, Never, Gone
<1>3. /\ u \notin Rows /\ Rows' = Rows \cup {u} /\ created'[u] = now
      /\ \A t \in Tokens \ {u} : created'[t] = created[t]
  BY <1>1, <1>2 DEF Rows, Never, MissInv, TypeInv
<1>4. \A t \in Rows : Unexpired(t)' <=> Unexpired(t)
  BY <1>1, <1>3 DEF Unexpired, Expires, Rows, Day
<1>5. ToldAtStart'
  <2> SUFFICES ASSUME NEW g \in Games, NEW t \in Members \cap Rows', game[g] = "starting",
                      Unexpired(t)'
               PROVE  t \in accepted[g] \/ <<g, t>> \in raced'
    BY <1>1 DEF ToldAtStart
  <2>1. CASE t = u
    BY <1>1, <2>1 DEF Overlooked
  <2>2. CASE t # u
    BY <1>1, <1>3, <1>4, <2>2 DEF MissInv, ToldAtStart
  <2> QED
    BY <2>1, <2>2
<1>6. \A g \in Games, t \in Tokens \ {u} : Due(g, t)' => Due(g, t) /\ created'[t] = created[t]
  BY <1>1, <1>3, <1>4 DEF Due
<1>7. MissedOnlyInWindow'
  <2> SUFFICES ASSUME NEW g \in Games, NEW t \in Tokens, Due(g, t)', t \notin accepted[g]
               PROVE  created'[t] >= cursor \/ t \in batch \/ <<g, t>> \in raced'
    BY <1>1 DEF MissedOnlyInWindow
  <2>1. CASE t = u
    BY <1>2, <1>3, <2>1
  <2>2. CASE t # u
    BY <1>1, <1>6, <2>2 DEF MissInv, MissedOnlyInWindow
  <2> QED
    BY <2>1, <2>2
<1>8. NothingSlipsBy'
  <2> SUFFICES ASSUME NEW g \in Games, NEW t \in Tokens, sync # "sleep", Due(g, t)',
                      t \notin accepted[g], <<g, t>> \notin raced', created'[t] >= cursor, t \notin batch
               PROVE  t \in during' /\ \A v \in Rows' : created'[v] <= created'[t]
    BY <1>1 DEF NothingSlipsBy
  <2>1. CASE t = u
    BY <1>1, <1>2, <1>3, <2>1 DEF Rows
  <2>2. CASE t # u
    <3>1. Due(g, t) /\ created'[t] = created[t] /\ <<g, t>> \notin raced
      BY <1>1, <1>6, <2>2
    <3>2. t \in during /\ \A v \in Rows : created[v] <= created[t]
      BY <3>1 DEF MissInv, NothingSlipsBy
    <3>3. created[t] = now
      <4>1. game[g] = "live" /\ t \in Rows /\ <<g, t>> \notin Overlooked(u)
        BY <1>1, <3>1 DEF Due
      <4>2. ~(0 <= created[t] /\ created[t] < now)
        BY <3>2, <4>1 DEF Overlooked
      <4> QED
        BY <1>2, <4>1, <4>2 DEF Rows
    <3> QED
      BY <1>1, <1>2, <1>3, <3>1, <3>2, <3>3 DEF Rows
  <2> QED
    BY <2>1, <2>2
<1> QED
  BY <1>5, <1>7, <1>8

LEMMA MissInvStep == MissInv /\ [Next]_vars => MissInv'
<1> SUFFICES ASSUME MissInv, [Next]_vars PROVE ToldAtStart' /\ MissedOnlyInWindow' /\ NothingSlipsBy'
  BY TypeInvStep DEF MissInv
<1> DEFINE Goal == ToldAtStart' /\ MissedOnlyInWindow' /\ NothingSlipsBy'
<1> USE DEF syncVars
<1>0. now \in Nat /\ now <= now
  BY DEF MissInv, TypeInv
<1>1. ASSUME NEW t \in Tokens, Login(t) PROVE Goal
  BY <1>1, LoginMisses
<1>2. ASSUME UNCHANGED <<now, game, accepted, syncVars, during, raced>>,
             \A t \in Rows' : t \in Rows /\ created'[t] = created[t]
      PROVE  Goal
  BY <1>0, <1>2, CalmStep
<1>3. (\E t \in Tokens : Logout(t)) \/ Gc \/ UNCHANGED vars
        => /\ UNCHANGED <<now, game, accepted, syncVars, during, raced>>
           /\ \A t \in Rows' : t \in Rows /\ created'[t] = created[t]
  BY DEF Logout, Gc, Delete, Rows, Gone, vars
<1>4. CASE Tick
  <2>1. /\ now' = now + 1 /\ UNCHANGED <<created, game, accepted, sync, batch, cursor, during, raced>>
    BY <1>4 DEF Tick
  <2>2. now' \in Nat /\ now <= now' /\ \A t \in Rows' : t \in Rows /\ created'[t] = created[t]
    BY <1>0, <2>1 DEF Rows
  <2> QED
    BY <2>1, <2>2, CalmStep
<1>5. ASSUME UNCHANGED <<now, created>>
      PROVE  Rows' = Rows /\ \A t \in Rows : Unexpired(t)' <=> Unexpired(t)
  BY <1>5 DEF Rows, Unexpired, Expires, Day
<1>6. ASSUME NEW g \in Games, StartRead(g) PROVE Goal
  <2>1. /\ game[g] = "off" /\ game' = [game EXCEPT ![g] = "starting"]
        /\ accepted' = [accepted EXCEPT ![g] = {t \in Members \cap Rows : Unexpired(t)}]
        /\ UNCHANGED <<now, created, sync, batch, cursor, during, raced>>
    BY <1>6 DEF StartRead
  <2>2. /\ game'[g] = "starting" /\ accepted'[g] = {t \in Members \cap Rows : Unexpired(t)}
        /\ \A h \in Games \ {g} : game'[h] = game[h] /\ accepted'[h] = accepted[h]
    BY <2>1 DEF MissInv, TypeInv
  <2>3. \A h \in Games, t \in Tokens : Due(h, t)' => h # g /\ Due(h, t)
    BY <1>5, <2>1, <2>2 DEF Due
  <2>4. ToldAtStart'
    BY <1>5, <2>1, <2>2 DEF MissInv, ToldAtStart
  <2>5. MissedOnlyInWindow'
    BY <2>1, <2>2, <2>3 DEF MissInv, MissedOnlyInWindow
  <2>6. NothingSlipsBy'
    BY <1>5, <2>1, <2>2, <2>3 DEF MissInv, NothingSlipsBy
  <2> QED
    BY <2>4, <2>5, <2>6
<1>7. ASSUME NEW g \in Games, Insert(g) PROVE Goal
  <2>1. /\ game[g] = "starting" /\ game' = [game EXCEPT ![g] = "live"]
        /\ UNCHANGED <<now, created, accepted, sync, batch, cursor, during, raced>>
    BY <1>7 DEF Insert
  <2>2. game'[g] = "live" /\ \A h \in Games \ {g} : game'[h] = game[h]
    BY <2>1 DEF MissInv, TypeInv
  <2>3. \A t \in Members \cap Rows : Unexpired(t) => t \in accepted[g] \/ <<g, t>> \in raced
    BY <2>1 DEF MissInv, ToldAtStart
  <2>4. \A h \in Games, t \in Tokens :
          Due(h, t)' => Due(h, t) \/ (h = g /\ (t \in accepted[g] \/ <<g, t>> \in raced))
    BY <1>5, <2>1, <2>2, <2>3 DEF Due
  <2>5. ToldAtStart'
    BY <1>5, <2>1, <2>2 DEF MissInv, ToldAtStart
  <2>6. MissedOnlyInWindow'
    BY <2>1, <2>4 DEF MissInv, MissedOnlyInWindow
  <2>7. NothingSlipsBy'
    BY <1>5, <2>1, <2>4 DEF MissInv, NothingSlipsBy
  <2> QED
    BY <2>5, <2>6, <2>7
<1>8. ASSUME NEW g \in Games, GameEnds(g) PROVE Goal
  <2>1. /\ game' = [game EXCEPT ![g] = "over"] /\ accepted' = [accepted EXCEPT ![g] = {}]
        /\ UNCHANGED <<now, created, sync, batch, cursor, during, raced>>
    BY <1>8 DEF GameEnds
  <2>2. game'[g] = "over" /\ \A h \in Games \ {g} : game'[h] = game[h] /\ accepted'[h] = accepted[h]
    BY <2>1 DEF MissInv, TypeInv
  <2>3. \A h \in Games, t \in Tokens : Due(h, t)' => h # g /\ Due(h, t)
    BY <1>5, <2>1, <2>2 DEF Due
  <2>4. ToldAtStart'
    BY <1>5, <2>1, <2>2 DEF MissInv, ToldAtStart
  <2>5. MissedOnlyInWindow'
    BY <2>1, <2>2, <2>3 DEF MissInv, MissedOnlyInWindow
  <2>6. NothingSlipsBy'
    BY <1>5, <2>1, <2>2, <2>3 DEF MissInv, NothingSlipsBy
  <2> QED
    BY <2>4, <2>5, <2>6
<1>9. CASE Query
  <2>1. /\ sync = "sleep" /\ batch' = Fresh
        /\ UNCHANGED <<now, created, game, accepted, cursor, during, raced>>
    BY <1>9 DEF Query
  <2>2. batch = {}
    BY <2>1 DEF MissInv, TypeInv
  <2>3. \A g \in Games, t \in Tokens : Due(g, t)' => Due(g, t) /\ t \in Rows /\ Unexpired(t)
    BY <1>5, <2>1 DEF Due
  <2>4. ToldAtStart'
    BY <1>5, <2>1 DEF MissInv, ToldAtStart
  <2>5. MissedOnlyInWindow'
    BY <2>1, <2>2, <2>3 DEF MissInv, MissedOnlyInWindow
  <2>6. NothingSlipsBy'
    BY <2>1, <2>3 DEF NothingSlipsBy, Fresh
  <2> QED
    BY <2>4, <2>5, <2>6
<1>10. CASE Push
  <2>1. PICK p \in batch : /\ PushTo({g \in Games : game[g] = "live"}, p)
                           /\ batch' = batch \ {p}
    BY <1>10 DEF Push
  <2>2. /\ sync = "push" /\ UNCHANGED <<now, created, game, cursor, during, raced>>
        /\ \A g \in Games : accepted[g] \subseteq accepted'[g]
        /\ \A g \in Games : game[g] = "live" => p \in accepted'[g]
    BY <1>10, <2>1 DEF Push, PushTo
  <2>3. \A g \in Games, t \in Tokens :
          Due(g, t)' => Due(g, t) /\ (t \notin accepted'[g] => t \notin accepted[g] /\ t # p)
    BY <1>5, <2>2 DEF Due
  <2>4. ToldAtStart'
    BY <1>5, <2>2 DEF MissInv, ToldAtStart
  <2>5. MissedOnlyInWindow'
    BY <2>1, <2>2, <2>3 DEF MissInv, MissedOnlyInWindow
  <2>6. NothingSlipsBy'
    BY <1>5, <2>1, <2>2, <2>3 DEF MissInv, NothingSlipsBy
  <2> QED
    BY <2>4, <2>5, <2>6
<1>11. CASE Advance
  <2>1. /\ sync = "advance" /\ cursor' = Newest /\ sync' = "sleep" /\ batch = {}
        /\ UNCHANGED <<now, created, game, accepted, batch, raced>>
    BY <1>11 DEF Advance, MissInv, TypeInv
  <2>2. ToldAtStart'
    BY <1>5, <2>1 DEF MissInv, ToldAtStart
  <2>3. MissedOnlyInWindow'
    <3> SUFFICES ASSUME NEW g \in Games, NEW t \in Tokens, Due(g, t), t \notin accepted[g],
                        <<g, t>> \notin raced
                 PROVE  created[t] >= Newest
      BY <1>5, <2>1 DEF MissedOnlyInWindow, Due
    <3>1. created[t] >= cursor
      BY <2>1 DEF MissInv, MissedOnlyInWindow
    <3>2. \A u \in Rows : created[u] <= created[t]
      BY <2>1, <3>1 DEF MissInv, NothingSlipsBy
    <3>3. Newest = cursor \/ \E u \in Rows : created[u] = Newest
      BY NewestIsPast DEF MissInv
    <3>4. created[t] \in Int /\ \A u \in Rows : created[u] \in Int
      BY DEF MissInv, TypeInv, Gone, Rows
    <3> QED
      BY <3>1, <3>2, <3>3, <3>4
  <2>4. NothingSlipsBy'
    BY <2>1 DEF NothingSlipsBy
  <2> QED
    BY <2>2, <2>3, <2>4
<1> QED
  BY <1>1, <1>2, <1>3, <1>4, <1>6, <1>7, <1>8, <1>9, <1>10, <1>11 DEF Next, SyncStep

(* The cursor passes over no login but those that were overlooked.         *)
THEOREM MissesAreOverlooked == Spec => []MissedOnlyInWindow
<1>1. Init => MissInv
  <2>1. Init => Rows = {} /\ sync = "sleep"
    BY DEF Init, Rows, Never
  <2> QED
    BY <2>1, InitTypeInv DEF MissInv, ToldAtStart, MissedOnlyInWindow, NothingSlipsBy, Due
<1>2. MissInv => MissedOnlyInWindow
  BY DEF MissInv
<1> QED
  BY <1>1, <1>2, MissInvStep, PTL DEF Spec
==============================================================================
