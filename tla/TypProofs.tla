----------------------------- MODULE TypProofs ------------------------------
(***************************************************************************)
(* Proofs about TypGame for any number of players, rounds, hands, budgets  *)
(* and inputs: types, the progress of the rounds, what is never taken      *)
(* back, that the game implements TypRounds, and that clocks, drafts and   *)
(* cards stay where they belong.                                           *)
(***************************************************************************)
EXTENDS TypGame, FiniteSetTheorems, SequenceTheorems, TLAPS

-----------------------------------------------------------------------------
(* Seats and sequences                                                     *)

(* Min of a set of naturals is its least element.                          *)
LEMMA MinOfNaturals ==
  ASSUME NEW S \in SUBSET Nat, S # {}
  PROVE  Min(S) \in S
  <1> DEFINE R == OpToRel(<, Nat)
  <1>1. IsWellFoundedOn(R, Nat)
    BY NatLessThanWellFounded
  <1>2. \A x, y \in Nat : x < y => <<x, y>> \in R
    BY DEF OpToRel
  <1> HIDE DEF R
  <1>3. PICK x \in S : \A y \in S : ~(<<y, x>> \in R)
    BY <1>1, WFMin, Zenon
  <1>4. ASSUME NEW y \in S PROVE x <= y
    <2>1. x \in Nat /\ y \in Nat
      OBVIOUS
    <2>2. ~(y < x)
      BY <1>2, <1>3, <2>1, Zenon
    <2> QED
      BY <2>1, <2>2
  <1> QED
    BY <1>4 DEF Min

(* Going around the table from any seat reaches every seat.                *)
LEMMA AroundTheTable ==
  ASSUME NEW a \in Seats, NEW b \in Seats
  PROVE  \E k \in Seats : (a + k) % N = b
  <1>1. N \in Nat \ {0} /\ a \in 0..(N - 1) /\ b \in 0..(N - 1)
    BY GameAssumption DEF Seats
  <1>2. CASE a <= b
    <2>1. b - a \in Seats /\ (a + (b - a)) % N = b
      BY <1>1, <1>2 DEF Seats
    <2> QED
      BY <2>1
  <1>3. CASE a > b
    <2>1. b - a + N \in Seats /\ a + (b - a + N) = b + N
      BY <1>1, <1>3 DEF Seats
    <2>2. (b + N) % N = b
      BY <1>1
    <2> QED
      BY <2>1, <2>2
  <1> QED
    BY <1>1, <1>2, <1>3

LEMMA Around ==
  ASSUME NEW a \in Seats, NEW k \in Nat
  PROVE  (a + k) % N \in Seats /\ (a + N - 1) % N \in Seats
  BY GameAssumption DEF Seats

(* hand.remove(card_index)                                                 *)
LEMMA RemovedCard ==
  ASSUME NEW h \in Hand, NEW i \in Nat, i < Len(h)
  PROVE  /\ RemoveAt(h, i + 1) \in Hand /\ Len(RemoveAt(h, i + 1)) = Len(h) - 1
         /\ <<h[i + 1]>> \in Hand
  <1>1. Len(h) \in Nat /\ \A j \in 1..Len(h) : h[j] \in CardSet
    BY DEF Hand
  <1>2. SubSeq(h, 1, i) \in Seq(CardSet) /\ Len(SubSeq(h, 1, i)) = i
    BY <1>1, SubSeqProperties
  <1>3. SubSeq(h, i + 2, Len(h)) \in Seq(CardSet) /\ Len(SubSeq(h, i + 2, Len(h))) = Len(h) - i - 1
    BY <1>1, SubSeqProperties
  <1>4. RemoveAt(h, i + 1) = SubSeq(h, 1, i) \o SubSeq(h, i + 2, Len(h))
    <2>1. (i + 1) - 1 = i /\ (i + 1) + 1 = i + 2
      OBVIOUS
    <2> QED
      BY <2>1, Zenon DEF RemoveAt
  <1>5. RemoveAt(h, i + 1) \in Hand /\ Len(RemoveAt(h, i + 1)) = Len(h) - 1
    <2> DEFINE a == SubSeq(h, 1, i)
               b == SubSeq(h, i + 2, Len(h))
    <2>1. a \o b \in Seq(CardSet) /\ Len(a \o b) = Len(a) + Len(b)
      BY <1>2, <1>3, ConcatProperties, Zenon
    <2>2. Len(a) = i /\ Len(b) = Len(h) - i - 1
      BY <1>2, <1>3
    <2> HIDE DEF a, b
    <2>3. Len(a) + Len(b) = Len(h) - 1
      BY <1>1, <2>2
    <2>4. RemoveAt(h, i + 1) = a \o b
      BY <1>4 DEF a, b
    <2> QED
      BY <2>1, <2>3, <2>4 DEF Hand
  <1>6. <<h[i + 1]>> \in Hand
    BY <1>1 DEF Hand
  <1> QED
    BY <1>5, <1>6

(* A round is worth a whole number of points to everybody.                 *)
LEMMA DeltaIsInt ==
  ASSUME NEW t, DOMAIN t = Seats, NEW guess, NEW first, NEW l, NEW s \in Seats
  PROVE  RoundDelta(t, guess, first, l)[s] \in Int
  <1>1. IsFiniteSet(Seats)
    BY GameAssumption, FS_Interval DEF Seats
  <1>2. Place(s, t) \in Nat \ {0}
    <2>1. IsFiniteSet({u \in Seats : Beats(t[u], t[s], CardsOf(t))})
      BY <1>1, FS_Subset
    <2>2. Cardinality({u \in Seats : Beats(t[u], t[s], CardsOf(t))}) \in Nat
      BY <2>1, FS_CardinalityType
    <2> QED
      BY <2>2 DEF Place
  <1>3. PlacementScore(Place(s, t)) \in Int
    BY <1>2 DEF PlacementScore
  <1>4. PriorScore(guess[s], Place(s, t)) \in Int
    BY DEF PriorScore
  <1>5. PosteriorScore(l, t) \in Int
    BY DEF PosteriorScore, PosteriorPoints
  <1> QED
    BY <1>3, <1>4, <1>5 DEF RoundDelta

-----------------------------------------------------------------------------
(* The invariant                                                           *)

\* What a seat has played of its hand.
Played(s) ==
  round + (IF phase = "posterior_prediction" \/ (phase = "play" /\ committed_card[s] # <<>>)
             THEN 1 ELSE 0)

Progress ==
  /\ \A s \in Seats : Len(hand[s]) = HandSize - Played(s)
  /\ IF phase = "ended" THEN round = Rounds ELSE round < Rounds /\ posterior = <<>>
  /\ phase = "waiting_all" => round = 0 /\ start_player = 0 /\ \A s \in Seats : ~has_predicted[s]
  /\ phase = "prior_prediction" => current_player \in Seats /\ ~has_predicted[current_player]
  /\ phase = "play" => \E s \in Seats : committed_card[s] = <<>>
  /\ phase = "posterior_prediction" => \A s \in Seats : committed_card[s] # <<>>
  /\ phase \notin {"play", "posterior_prediction"} => \A s \in Seats : committed_card[s] = <<>>

Inv == TypeOK /\ Progress

(* The calls that several actions end with.                                *)
LEMMA SettleType ==
  ASSUME TypeOK, NEW S, Settle(S)
  PROVE  /\ time_b' \in [Seats -> 0..Reserve]
         /\ \A s \in Seats : /\ time_b'[s] <= time_b[s]
                             /\ time_b'[s] # time_b[s] => thinking[s] > Refresh
  <1>1. Refresh \in Nat /\ Reserve \in Nat
    BY GameAssumption
  <1>2. \A s \in Seats : time_b[s] \in 0..Reserve /\ thinking[s] \in -1..(Refresh + Reserve)
    BY DEF TypeOK, Idle
  <1>3. \A s \in Seats : Elapsed(s) \in 0..(Refresh + Reserve) /\ (Elapsed(s) > Refresh => thinking[s] > Refresh)
    BY <1>1, <1>2 DEF Elapsed, Idle
  <1>4. \A s \in Seats :
          /\ time_b'[s] \in 0..Reserve /\ time_b'[s] <= time_b[s]
          /\ time_b'[s] # time_b[s] => Elapsed(s) > Refresh
    BY <1>1, <1>2, <1>3 DEF Settle
  <1> QED
    BY <1>3, <1>4 DEF Settle

LEMMA ClockType ==
  ASSUME TypeOK
  PROVE  /\ StartThinking => thinking' \in [Seats -> Idle..(Refresh + Reserve)]
         /\ \A S : StopClocks(S) => thinking' \in [Seats -> Idle..(Refresh + Reserve)]
  <1>1. -1 \in -1..(Refresh + Reserve) /\ 0 \in -1..(Refresh + Reserve)
    BY GameAssumption
  <1>2. thinking \in [Seats -> -1..(Refresh + Reserve)]
    BY DEF TypeOK, Idle
  <1>3. StartThinking => thinking' \in [Seats -> -1..(Refresh + Reserve)]
    BY <1>1 DEF StartThinking, Idle
  <1>4. \A S : StopClocks(S) => thinking' \in [Seats -> -1..(Refresh + Reserve)]
    BY <1>1, <1>2 DEF StopClocks, Idle
  <1> QED
    BY <1>3, <1>4 DEF Idle

(* next_unacted finds a seat that has not predicted, if there is one.      *)
LEMMA AdvancePriorCalls ==
  ASSUME current_player \in Seats, phase = "prior_prediction", AdvancePrior
  PROVE  \/ phase' = "play" /\ current_player' = None /\ \A s \in Seats : has_predicted'[s]
         \/ phase' = phase /\ current_player' \in Seats /\ ~has_predicted'[current_player']
  <1>1. CASE \A s \in Seats : has_predicted'[s]
    BY <1>1 DEF AdvancePrior
  <1>2. CASE ~(\A s \in Seats : has_predicted'[s])
    <2> DEFINE K == {k \in 0..(N - 1) : ~has_predicted'[(current_player + k) % N]}
    <2>1. phase' = phase /\ current_player' = (current_player + Min(K)) % N
      BY <1>2 DEF AdvancePrior, NextUnacted
    <2>2. K # {}
      <3>1. PICK s \in Seats : ~has_predicted'[s]
        BY <1>2
      <3>2. PICK k \in Seats : (current_player + k) % N = s
        BY AroundTheTable
      <3> QED
        BY <3>1, <3>2 DEF Seats
    <2>3. K \in SUBSET Nat
      BY GameAssumption
    <2>4. Min(K) \in K /\ Min(K) \in Nat
      BY <2>2, <2>3, MinOfNaturals
    <2>5. ~has_predicted'[(current_player + Min(K)) % N]
      BY <2>4
    <2>6. (current_player + Min(K)) % N \in Seats
      BY <2>4, Around
    <2> QED
      BY <2>1, <2>5, <2>6
  <1> QED
    BY <1>1, <1>2

-----------------------------------------------------------------------------
(* Each action keeps the invariant                                         *)

LEMMA Numbers ==
  /\ N \in Nat \ {0} /\ Rounds \in Nat \ {0} /\ HandSize \in Nat /\ Rounds <= HandSize
  /\ Refresh \in Nat /\ Reserve \in Nat /\ 0 \in Seats /\ None \notin Seats
  BY GameAssumption DEF HandSize, Seats, None

LEMMA DealFacts ==
  ASSUME NEW d \in Deals
  PROVE  d \in [Seats -> Hand] /\ \A s \in Seats : Len(d[s]) = HandSize
  BY GameAssumption DEF LegalDeal

LEMMA InitInv == Init => Inv
  <1> SUFFICES ASSUME Init PROVE Inv
    OBVIOUS
  <1>1. <<>> \in Hand
    BY DEF Hand
  <1>2. TypeOK
    BY <1>1, Numbers, DealFacts, GameAssumption DEF Init, TypeOK, Phases, Idle, None
  <1>3. Progress
    BY Numbers, DealFacts DEF Init, Progress, Played
  <1> QED
    BY <1>2, <1>3 DEF Inv

LEMMA LoginInv ==
  ASSUME Inv, NEW u \in Seats \cup Guests, Login(u)
  PROVE  Inv'
  <1>1. thinking' \in [Seats -> Idle..(Refresh + Reserve)]
    BY ClockType DEF Inv, Login, TypeOK
  <1>2. phase' \in Phases /\ current_player' \in Seats \cup {None} /\ joined' \subseteq Seats \cup Guests
    BY DEF Inv, TypeOK, Login, Phases
  <1>3. TypeOK'
    BY <1>1, <1>2 DEF Inv, TypeOK, Login, cardVars, predictVars
  <1>4. Progress'
    BY Numbers DEF Inv, Progress, Played, Login, cardVars, predictVars
  <1> QED
    BY <1>3, <1>4 DEF Inv

(* Predict and the votes in the prior phase.                               *)
LEMMA PriorInv ==
  ASSUME Inv, phase = "prior_prediction", NEW S \in SUBSET Seats, Settle(S), AdvancePrior,
         has_predicted' \in [Seats -> BOOLEAN],
         prediction' \in [Seats -> (1..N) \cup {None}],
         restart_yes' \in [Seats -> BOOLEAN],
         UNCHANGED <<round, start_player, joined, cardVars, posterior, posterior_draft, table,
                     score, matches>>
  PROVE  Inv'
  <1>1. /\ time_b' \in [Seats -> 0..Reserve]
        /\ thinking' \in [Seats -> Idle..(Refresh + Reserve)]
    BY SettleType, ClockType DEF Inv, AdvancePrior
  <1>2. \/ phase' = "play" /\ current_player' = None
        \/ phase' = phase /\ current_player' \in Seats /\ ~has_predicted'[current_player']
    BY AdvancePriorCalls DEF Inv, Progress
  <1>3. TypeOK'
    BY <1>1, <1>2 DEF Inv, TypeOK, cardVars, Phases
  <1>4. Progress'
    BY <1>2, Numbers DEF Inv, Progress, Played, cardVars
  <1> QED
    BY <1>3, <1>4 DEF Inv

LEMMA PredictInv ==
  ASSUME Inv, NEW S \in SUBSET Seats, NEW g, Predict(S, g)
  PROVE  Inv'
  <1>1. g \in (1..N) \cup {None}
    BY DEF Predict, GuessInRange
  <1>2. /\ has_predicted' \in [Seats -> BOOLEAN]
        /\ prediction' \in [Seats -> (1..N) \cup {None}]
    BY <1>1 DEF Inv, TypeOK, Predict
  <1>3. restart_yes' \in [Seats -> BOOLEAN]
    BY DEF Inv, TypeOK, Predict
  <1> QED
    BY <1>2, <1>3, PriorInv DEF Predict

LEMMA PlayCardInv ==
  ASSUME Inv, NEW S \in SUBSET Seats, NEW i \in Nat, PlayCard(S, i)
  PROVE  Inv'
  <1>1. /\ time_b' \in [Seats -> 0..Reserve]
        /\ thinking' \in [Seats -> Idle..(Refresh + Reserve)]
    BY SettleType, ClockType DEF Inv, PlayCard
  <1>2. ASSUME NEW s \in Seats
        PROVE  /\ hand'[s] \in Hand /\ committed_card'[s] \in Hand
               /\ s \in S => /\ Len(hand'[s]) = Len(hand[s]) - 1
                             /\ committed_card[s] = <<>> /\ committed_card'[s] # <<>>
               /\ s \notin S => hand'[s] = hand[s] /\ committed_card'[s] = committed_card[s]
    <2>1. hand[s] \in Hand /\ committed_card[s] \in Hand
      BY DEF Inv, TypeOK
    <2>2. CASE s \in S
      <3>1. i < Len(hand[s]) /\ committed_card[s] = <<>>
        BY <2>2 DEF PlayCard
      <3>2. hand'[s] = RemoveAt(hand[s], i + 1) /\ committed_card'[s] = <<hand[s][i + 1]>>
        BY <2>2 DEF PlayCard
      <3>3. <<hand[s][i + 1]>> # <<>>
        OBVIOUS
      <3> QED
        BY <2>1, <2>2, <3>1, <3>2, <3>3, RemovedCard
    <2>3. CASE s \notin S
      BY <2>1, <2>3 DEF PlayCard
    <2> QED
      BY <2>2, <2>3
  <1>3. hand' \in [Seats -> Hand] /\ committed_card' \in [Seats -> Hand]
    BY <1>2 DEF PlayCard
  <1>4. \/ phase' = "posterior_prediction" /\ current_player' = start_player
           /\ \A s \in Seats : committed_card'[s] # <<>>
        \/ phase' = "play" /\ current_player' = current_player
           /\ \E s \in Seats : committed_card'[s] = <<>>
    BY DEF PlayCard
  <1>5. TypeOK'
    BY <1>1, <1>3, <1>4 DEF Inv, TypeOK, PlayCard, predictVars, Phases
  <1>6. Progress'
    <2>1. \A s \in Seats : Len(hand'[s]) = HandSize - Played(s)'
      <3> SUFFICES ASSUME NEW s \in Seats PROVE Len(hand'[s]) = HandSize - Played(s)'
        OBVIOUS
      <3>1. phase = "play" /\ round' = round /\ round \in Nat
        BY DEF Inv, TypeOK, PlayCard
      <3>2. /\ Len(hand[s]) = HandSize - Played(s)
            /\ Played(s) = round + (IF committed_card[s] # <<>> THEN 1 ELSE 0)
        BY <3>1 DEF Inv, Progress, Played
      <3>3. Played(s)' = round + (IF committed_card'[s] # <<>> THEN 1 ELSE 0)
        BY <3>1, <1>4 DEF Played
      <3> QED
        BY <1>2, <3>1, <3>2, <3>3, Numbers
    <2> QED
      BY <1>4, <2>1 DEF Inv, Progress, PlayCard
  <1> QED
    BY <1>5, <1>6 DEF Inv

LEMMA PosteriorInv ==
  ASSUME Inv, NEW l, PosteriorPredict(l)
  PROVE  Inv'
  <1>1. /\ time_b' \in [Seats -> 0..Reserve]
        /\ thinking' \in [Seats -> Idle..(Refresh + Reserve)]
    BY SettleType, ClockType DEF Inv, PosteriorPredict
  <1>2. committed_card' \in [Seats -> Hand] /\ \A s \in Seats : committed_card'[s] = <<>>
    BY DEF PosteriorPredict, Hand
  <1>3. played_history' \in [Seats -> Hand]
    <2>1. \A s \in Seats : played_history[s] \o committed_card[s] \in Hand
      BY ConcatProperties DEF Inv, TypeOK, Hand
    <2> QED
      BY <2>1 DEF PosteriorPredict
  <1>4. score' \in [Seats -> Int]
    <2>1. DOMAIN Laid = Seats
      BY DEF Laid
    <2>2. \A s \in Seats : RoundDelta(Laid, prediction, start_player, l)[s] \in Int
      BY <2>1, DeltaIsInt
    <2> QED
      BY <2>2 DEF Inv, TypeOK, PosteriorPredict
  <1>5. /\ round' = round + 1 /\ round' \in 0..Rounds /\ (MatchOver <=> round' = Rounds)
        /\ phase = "posterior_prediction"
    BY Numbers DEF Inv, TypeOK, Progress, PosteriorPredict, MatchOver
  <1>6. \A s \in Seats : hand'[s] = hand[s] /\ Len(hand[s]) = HandSize - (round + 1)
    BY <1>5 DEF Inv, Progress, Played, PosteriorPredict
  <1>7. CASE MatchOver
    <2>1. /\ phase' = "ended" /\ posterior' = <<l>>
          /\ UNCHANGED <<start_player, current_player, predictVars>>
      BY <1>7 DEF PosteriorPredict
    <2>2. Len(posterior') <= 1
      BY <2>1
    <2>3. TypeOK'
      BY <1>1, <1>2, <1>3, <1>4, <1>5, <2>1, <2>2
      DEF Inv, TypeOK, PosteriorPredict, Phases, predictVars
    <2>4. Progress'
      BY <1>2, <1>5, <1>6, <1>7, <2>1 DEF Progress, Played
    <2> QED
      BY <2>3, <2>4 DEF Inv
  <1>8. CASE ~MatchOver
    <2>1. /\ phase' = "prior_prediction" /\ posterior' = <<>>
          /\ start_player' = (start_player + N - 1) % N /\ current_player' = start_player'
          /\ prediction' = [s \in Seats |-> None] /\ has_predicted' = [s \in Seats |-> FALSE]
      BY <1>8 DEF PosteriorPredict, BeginNextRound, ForgetPredictions
    <2>2. start_player' \in Seats /\ current_player' \in Seats
      BY <2>1, Around DEF Inv, TypeOK
    <2>3. TypeOK'
      BY <1>1, <1>2, <1>3, <1>4, <1>5, <2>1, <2>2 DEF Inv, TypeOK, PosteriorPredict, Phases
    <2>4. Progress'
      <3>1. round' < Rounds
        BY <1>5, <1>8, Numbers
      <3>2. \A s \in Seats : Len(hand'[s]) = HandSize - Played(s)'
        <4>1. \A s \in Seats : Played(s)' = round' + 0
          BY <2>1 DEF Played
        <4> QED
          BY <1>5, <1>6, <4>1
      <3>3. ~has_predicted'[current_player']
        BY <2>1, <2>2
      <3> QED
        BY <1>2, <2>1, <2>2, <3>1, <3>2, <3>3 DEF Progress
    <2> QED
      BY <2>3, <2>4 DEF Inv
  <1> QED
    BY <1>7, <1>8

LEMMA DraftInv ==
  ASSUME Inv, NEW d, DraftPosterior(d)
  PROVE  Inv'
  BY DEF Inv, TypeOK, Progress, Played, DraftPosterior, flowVars, cardVars, predictVars

(* What a vote that is only recorded, or not even that, does.              *)
LEMMA AdvanceInv ==
  ASSUME Inv, NEW S \in SUBSET Seats, Advance(S), restart_yes' \in [Seats -> BOOLEAN],
         UNCHANGED <<round, start_player, joined, cardVars, predictVars, posterior,
                     posterior_draft, table, score, matches>>
  PROVE  Inv'
  <1>1. /\ time_b' \in [Seats -> 0..Reserve]
        /\ StopClocks(S) => thinking' \in [Seats -> Idle..(Refresh + Reserve)]
    BY SettleType, ClockType DEF Inv, Advance
  <1>2. CASE phase = "prior_prediction"
    <2>1. AdvancePrior /\ Settle(S)
      BY <1>2 DEF Advance
    <2>2. /\ has_predicted' \in [Seats -> BOOLEAN]
          /\ prediction' \in [Seats -> (1..N) \cup {None}]
      BY DEF Inv, TypeOK, predictVars
    <2> QED
      BY <1>2, <2>1, <2>2, PriorInv
  <1>3. CASE phase # "prior_prediction"
    <2>1. UNCHANGED <<phase, current_player>> /\ thinking' \in [Seats -> Idle..(Refresh + Reserve)]
      BY <1>1, <1>3 DEF Advance
    <2>2. TypeOK'
      BY <1>1, <2>1 DEF Inv, TypeOK, cardVars, predictVars
    <2>3. Progress'
      BY <2>1 DEF Inv, Progress, Played, cardVars, predictVars
    <2> QED
      BY <2>2, <2>3 DEF Inv
  <1> QED
    BY <1>2, <1>3

(* A new match.                                                            *)
LEMMA AgainInv ==
  ASSUME Inv, phase = "ended", matches < MaxMatches, matches' = matches + 1,
         NEW d \in Deals, Dealt(d), phase' = "prior_prediction",
         UNCHANGED <<joined, posterior_draft, score, time_b>>, StartThinking
  PROVE  Inv'
  <1>1. thinking' \in [Seats -> Idle..(Refresh + Reserve)]
    BY ClockType DEF Inv
  <1>2. /\ hand' = d /\ round' = 0 /\ start_player' = 0 /\ current_player' = 0
        /\ committed_card' = [s \in Seats |-> <<>>] /\ played_history' = [s \in Seats |-> <<>>]
        /\ prediction' = [s \in Seats |-> None] /\ has_predicted' = [s \in Seats |-> FALSE]
        /\ posterior' = <<>> /\ restart_yes' = [s \in Seats |-> FALSE]
    BY DEF Dealt, DealHands, ForgetPredictions
  <1>3. matches' \in 1..MaxMatches
    BY GameAssumption DEF Inv, TypeOK
  <1>4. <<>> \in Hand /\ Len(posterior') = 0
    BY <1>2 DEF Hand
  <1>5. TypeOK'
    <2>1. hand' \in [Seats -> Hand] /\ committed_card' \in [Seats -> Hand] /\ played_history' \in [Seats -> Hand]
      BY <1>2, <1>4, DealFacts
    <2>2. prediction' \in [Seats -> (1..N) \cup {None}] /\ has_predicted' \in [Seats -> BOOLEAN]
      BY <1>2
    <2>3. restart_yes' \in [Seats -> BOOLEAN] /\ Len(posterior') <= 1
      BY <1>2, <1>4
    <2>4. round' \in 0..Rounds /\ start_player' \in Seats /\ current_player' \in Seats \cup {None}
      BY <1>2, Numbers
    <2> QED
      BY <1>1, <1>3, <2>1, <2>2, <2>3, <2>4 DEF Inv, TypeOK, Phases
  <1>6. Progress'
    BY <1>2, Numbers, DealFacts DEF Progress, Played
  <1> QED
    BY <1>5, <1>6 DEF Inv

LEMMA VoteInv ==
  ASSUME Inv, NEW s \in Seats, NEW yes \in BOOLEAN, Vote(s, yes)
  PROVE  Inv'
  <1> DEFINE votes == [restart_yes EXCEPT ![s] = yes]
  <1>1. CASE phase = "ended" /\ \A t \in Seats : votes[t]
    <2>1. /\ matches < MaxMatches /\ matches' = matches + 1
          /\ \E d \in Deals : Dealt(d)
          /\ phase' = "prior_prediction"
          /\ UNCHANGED <<joined, posterior_draft, score, time_b>> /\ StartThinking
      BY <1>1 DEF Vote
    <2> QED
      BY <1>1, <2>1, AgainInv
  <1>2. CASE ~(phase = "ended" /\ \A t \in Seats : votes[t])
    <2>1. /\ restart_yes' = votes
          /\ UNCHANGED <<round, start_player, joined, cardVars, predictVars, posterior,
                         posterior_draft, table, score, matches>>
          /\ Advance({s})
      BY <1>2 DEF Vote
    <2>2. restart_yes' \in [Seats -> BOOLEAN]
      BY <2>1 DEF Inv, TypeOK
    <2> QED
      BY <2>1, <2>2, AdvanceInv
  <1> QED
    BY <1>1, <1>2

LEMMA GuestVoteInv ==
  ASSUME Inv, GuestVote
  PROVE  Inv'
  <1>1. restart_yes' \in [Seats -> BOOLEAN]
    BY DEF GuestVote, Inv, TypeOK
  <1> QED
    BY <1>1, AdvanceInv DEF GuestVote

LEMMA TickInv ==
  ASSUME Inv, Tick
  PROVE  Inv'
  <1>1. Late \in SUBSET Seats
    BY DEF Late
  <1> QED
    BY <1>1, PredictInv, PlayCardInv, PosteriorInv DEF Tick

LEMMA PassInv ==
  ASSUME Inv, Pass
  PROVE  Inv'
  <1>1. thinking' \in [Seats -> Idle..(Refresh + Reserve)]
    <2>1. \A s \in Seats : thinking[s] \in -1..(Refresh + Reserve)
      BY DEF Inv, TypeOK, Idle
    <2> QED
      BY <2>1, Numbers DEF Pass, Idle
  <1>2. TypeOK'
    BY <1>1 DEF Inv, TypeOK, Pass, flowVars, cardVars, predictVars
  <1>3. Progress'
    BY DEF Inv, Progress, Played, Pass, flowVars, cardVars, predictVars
  <1> QED
    BY <1>2, <1>3 DEF Inv

LEMMA NextInv == Inv /\ [Next]_vars => Inv'
  <1> SUFFICES ASSUME Inv, [Next]_vars PROVE Inv'
    OBVIOUS
  <1>1. ASSUME NEW u \in Seats \cup Guests, Login(u) PROVE Inv'
    BY <1>1, LoginInv
  <1>2. ASSUME NEW s \in Seats, NEW raw \in RawGuesses, Predict({s}, Guess(raw)) PROVE Inv'
    BY <1>2, PredictInv
  <1>3. ASSUME NEW s \in Seats, NEW raw \in RawIndices, PlayCard({s}, raw % 256) PROVE Inv'
    <2>1. raw % 256 \in Nat
      BY GameAssumption
    <2> QED
      BY <1>3, <2>1, PlayCardInv
  <1>4. ASSUME NEW l \in RankLists, PosteriorPredict(l) PROVE Inv'
    BY <1>4, PosteriorInv
  <1>5. ASSUME NEW d \in Drafts, DraftPosterior(d) PROVE Inv'
    BY <1>5, DraftInv
  <1>6. ASSUME NEW s \in Seats, NEW yes \in BOOLEAN, Vote(s, yes) PROVE Inv'
    BY <1>6, VoteInv
  <1>7. CASE UNCHANGED vars
    BY <1>7 DEF Inv, TypeOK, Progress, Played, vars, flowVars, cardVars, predictVars
  <1> QED
    BY <1>1, <1>2, <1>3, <1>4, <1>5, <1>6, <1>7, GuestVoteInv, TickInv, PassInv DEF Next

THEOREM InvHolds == Spec => []Inv
  BY InitInv, NextInv, PTL DEF Spec

-----------------------------------------------------------------------------
(* Theorems                                                                *)

(* All state stays in range: no hand is empty when a card is asked for, no *)
(* budget underflows, the turn is always a seat or nobody's.               *)
THEOREM GameTypeCorrect == Spec => []TypeOK
  BY InvHolds, PTL DEF Inv

(* The phase always waits for a seat that can act.                         *)
THEOREM SomebodyIsAlwaysCalled == Spec => []SomebodyIsCalled
  <1>1. ASSUME Inv PROVE SomebodyIsCalled
    <2>1. CASE phase = "play"
      <3>1. PICK s \in Seats : committed_card[s] = <<>>
        BY <1>1, <2>1 DEF Inv, Progress
      <3>2. Len(hand[s]) = HandSize - round /\ round < Rounds /\ round \in Nat
        BY <1>1, <2>1, <3>1 DEF Inv, TypeOK, Progress, Played
      <3>3. Len(hand[s]) # 0
        BY <3>2, Numbers
      <3>4. hand[s] # <<>>
        BY <3>3
      <3> QED
        BY <2>1, <3>1, <3>4 DEF SomebodyIsCalled
    <2>2. CASE phase # "play"
      BY <1>1, <2>2 DEF Inv, Progress, SomebodyIsCalled
    <2> QED
      BY <2>1, <2>2
  <1> QED
    BY <1>1, InvHolds, PTL

(* Hands shrink in step with the rounds.                                   *)
THEOREM SpentAlwaysInStep == Spec => []SpentInStep
  <1>1. ASSUME Inv PROVE SpentInStep
    <2> SUFFICES ASSUME NEW s \in Seats PROVE HandSize - Len(hand[s]) = Played(s)
      BY DEF SpentInStep, Match!SpentInStep, Match!Seats, Seats, Played, ActedSeats
    <2>1. Played(s) \in Nat
      BY <1>1 DEF Inv, TypeOK, Played
    <2> QED
      BY <1>1, <2>1, Numbers DEF Inv, Progress
  <1> QED
    BY <1>1, InvHolds, PTL

(* Submitted predictions and cards stay, and only an ended match restarts. *)
THEOREM ChoicesStayFinal == Spec => ChoicesAreFinal
  <1>1. ASSUME Inv, [Next]_vars PROVE [KeepsChoices]_vars
    <2> round \in Nat
      BY <1>1 DEF Inv, TypeOK
    <2>1. ASSUME NEW S \in SUBSET Seats, NEW g, Predict(S, g) PROVE KeepsChoices
      <3>1. UNCHANGED <<round, committed_card>>
        BY <2>1 DEF Predict, cardVars
      <3>2. \A s \in Seats : has_predicted[s] => s \notin S /\ has_predicted'[s]
        BY <2>1 DEF Predict, MayPredict
      <3>3. \A s \in Seats : s \notin S => prediction'[s] = prediction[s]
        BY <2>1 DEF Predict
      <3> QED
        BY <3>1, <3>2, <3>3 DEF KeepsChoices
    <2>2. ASSUME NEW S \in SUBSET Seats, NEW i, PlayCard(S, i) PROVE KeepsChoices
      BY <2>2 DEF KeepsChoices, PlayCard, predictVars
    <2>3. ASSUME NEW l, PosteriorPredict(l) PROVE KeepsChoices
      BY <2>3 DEF KeepsChoices, PosteriorPredict
    <2>4. ASSUME NEW u, Login(u) PROVE KeepsChoices
      BY <2>4 DEF KeepsChoices, Login, cardVars, predictVars
    <2>5. ASSUME NEW d, DraftPosterior(d) PROVE KeepsChoices
      BY <2>5 DEF KeepsChoices, DraftPosterior, flowVars, cardVars, predictVars
    <2>6. ASSUME NEW s, NEW yes, Vote(s, yes) PROVE KeepsChoices
      <3>1. CASE phase = "ended"
        BY <3>1 DEF KeepsChoices
      <3>2. CASE phase # "ended"
        BY <2>6, <3>2 DEF KeepsChoices, Vote, cardVars, predictVars
      <3> QED
        BY <3>1, <3>2
    <2>7. CASE GuestVote
      BY <2>7 DEF KeepsChoices, GuestVote, cardVars, predictVars
    <2>8. CASE Tick
      BY <2>1, <2>2, <2>3, <2>8 DEF Tick, Late
    <2>9. CASE Pass
      BY <2>9 DEF KeepsChoices, Pass, flowVars, cardVars, predictVars
    <2> QED
      BY <1>1, <2>1, <2>2, <2>3, <2>4, <2>5, <2>6, <2>7, <2>8, <2>9 DEF Next
  <1> QED
    BY <1>1, InvHolds, PTL DEF ChoicesAreFinal, Spec

(* Pool B is only spent, and only by a player who thinks too long.         *)
THEOREM ReserveIsOnlySpent == Spec => ReserveOnlySpent
  <1>1. ASSUME Inv, [Next]_vars PROVE [SpendsReserve]_vars
    <2>1. UNCHANGED time_b => SpendsReserve
      <3>1. \A s \in Seats : time_b[s] \in Int
        BY <1>1, Numbers DEF Inv, TypeOK
      <3> QED
        BY <3>1 DEF SpendsReserve
    <2>2. ASSUME NEW S, Settle(S) PROVE SpendsReserve
      BY <1>1, <2>2, SettleType DEF Inv, SpendsReserve
    <2>3. \A S, g : Predict(S, g) \/ PlayCard(S, g) => Settle(S)
      BY DEF Predict, PlayCard
    <2>4. \A l : PosteriorPredict(l) => Settle({start_player})
      BY DEF PosteriorPredict
    <2>5. ASSUME NEW s, NEW yes, Vote(s, yes) PROVE UNCHANGED time_b \/ Settle({s})
      BY <2>5 DEF Vote, Advance
    <2>6. GuestVote => Settle({})
      BY DEF GuestVote, Advance
    <2>7. (\E u : Login(u)) \/ (\E d : DraftPosterior(d)) \/ Pass => UNCHANGED time_b
      BY DEF Login, DraftPosterior, Pass
    <2>8. Tick => SpendsReserve
      BY <2>2, <2>3, <2>4 DEF Tick
    <2> QED
      BY <1>1, <2>1, <2>2, <2>3, <2>4, <2>5, <2>6, <2>7, <2>8 DEF Next
  <1> QED
    BY <1>1, InvHolds, PTL DEF ReserveOnlySpent, Spec

-----------------------------------------------------------------------------
(* The game implements the rounds                                          *)

LEMMA MatchStart == Init => Match!RoundsInit
  <1> SUFFICES ASSUME Init PROVE Match!RoundsInit
    OBVIOUS
  <1>1. ActedSeats = {}
    BY DEF Init, ActedSeats
  <1>2. \A s \in Seats : HandSize - Len(hand[s]) = 0
    BY DealFacts, Numbers DEF Init
  <1> QED
    BY <1>1, <1>2 DEF Init, Match!RoundsInit, Match!Seats, Seats

LEMMA PredictImplements ==
  ASSUME Inv, NEW S \in SUBSET Seats, NEW g, Predict(S, g)
  PROVE  Match!Act(S)
  <1>1. /\ phase = "prior_prediction" /\ S # {} /\ \A s \in S : ~has_predicted[s]
        /\ has_predicted' = [s \in Seats |-> has_predicted[s] \/ s \in S]
        /\ UNCHANGED <<hand, committed_card, round, start_player>>
    BY DEF Predict, MayPredict, cardVars
  <1>2. ActedSeats = {s \in Seats : has_predicted[s]}
    BY <1>1 DEF ActedSeats
  <1>3. ActedSeats \cup S = {s \in Seats : has_predicted'[s]}
    BY <1>1, <1>2
  <1>4. CASE \A s \in Seats : has_predicted'[s]
    <2>1. phase' = "play"
      BY <1>4 DEF Predict, AdvancePrior
    <2>2. ActedSeats' = {}
      BY <1>1, <2>1 DEF ActedSeats, Inv, Progress
    <2> QED
      BY <1>1, <1>2, <1>3, <1>4, <2>1, <2>2
      DEF Match!Act, Match!Turn, Match!Called, Match!Acting, Match!Seats, Seats
  <1>5. CASE ~\A s \in Seats : has_predicted'[s]
    <2>1. phase' = phase
      BY <1>5 DEF Predict, AdvancePrior
    <2>2. ActedSeats' = ActedSeats \cup S
      BY <1>1, <1>3, <2>1 DEF ActedSeats
    <2> QED
      BY <1>1, <1>2, <1>3, <1>5, <2>1, <2>2
      DEF Match!Act, Match!Called, Match!Acting, Match!Seats, Seats
  <1> QED
    BY <1>4, <1>5

LEMMA PlayCardImplements ==
  ASSUME Inv, NEW S \in SUBSET Seats, NEW i \in Nat, PlayCard(S, i)
  PROVE  Match!Act(S)
  <1>1. /\ phase = "play" /\ S # {} /\ \A s \in S : committed_card[s] = <<>> /\ i < Len(hand[s])
        /\ UNCHANGED <<round, start_player>>
    BY DEF PlayCard
  <1>2. \A s \in Seats : committed_card'[s] # <<>> <=> committed_card[s] # <<>> \/ s \in S
    <2>1. \A s \in Seats : committed_card'[s] = IF s \in S THEN <<hand[s][i + 1]>> ELSE committed_card[s]
      BY DEF PlayCard
    <2>2. \A x : <<x>> # <<>>
      OBVIOUS
    <2> QED
      BY <2>1, <2>2
  <1>3. ActedSeats = {s \in Seats : committed_card[s] # <<>>}
    BY <1>1 DEF ActedSeats
  <1>4. ActedSeats \cup S = {s \in Seats : committed_card'[s] # <<>>}
    BY <1>2, <1>3
  <1>5. [s \in Seats |-> HandSize - Len(hand'[s])]
          = [s \in Seats |-> IF s \in S THEN HandSize - Len(hand[s]) + 1 ELSE HandSize - Len(hand[s])]
    <2> SUFFICES ASSUME NEW s \in Seats
                 PROVE  HandSize - Len(hand'[s])
                          = IF s \in S THEN HandSize - Len(hand[s]) + 1 ELSE HandSize - Len(hand[s])
      OBVIOUS
    <2>1. hand[s] \in Hand /\ Len(hand[s]) \in Nat
      BY DEF Inv, TypeOK, Hand
    <2>2. hand'[s] = IF s \in S THEN RemoveAt(hand[s], i + 1) ELSE hand[s]
      BY DEF PlayCard
    <2>3. s \in S => Len(hand'[s]) = Len(hand[s]) - 1
      BY <1>1, <2>1, <2>2, RemovedCard
    <2> QED
      BY <2>1, <2>2, <2>3, Numbers
  <1>6. CASE \A s \in Seats : committed_card'[s] # <<>>
    <2>1. phase' = "posterior_prediction"
      BY <1>6 DEF PlayCard
    <2>2. ActedSeats' = {}
      BY <2>1 DEF ActedSeats
    <2> QED
      BY <1>1, <1>3, <1>4, <1>5, <1>6, <2>1, <2>2
      DEF Match!Act, Match!Turn, Match!Called, Match!Acting, Match!Seats, Seats
  <1>7. CASE ~\A s \in Seats : committed_card'[s] # <<>>
    <2>1. phase' = phase
      BY <1>7 DEF PlayCard
    <2>2. ActedSeats' = ActedSeats \cup S
      BY <1>1, <1>4, <2>1 DEF ActedSeats
    <2> QED
      BY <1>1, <1>3, <1>4, <1>5, <1>7, <2>1, <2>2
      DEF Match!Act, Match!Called, Match!Acting, Match!Seats, Seats
  <1> QED
    BY <1>6, <1>7

LEMMA PosteriorImplements ==
  ASSUME Inv, NEW l, PosteriorPredict(l), NEW p \in Seats, p = start_player
  PROVE  Match!Act({p})
  <1>1. /\ phase = "posterior_prediction" /\ round' = round + 1 /\ UNCHANGED hand
        /\ \A s \in Seats : committed_card'[s] = <<>>
    BY DEF PosteriorPredict
  <1>2. ActedSeats = {} /\ Match!Called = {start_player} /\ start_player \in Seats
    BY <1>1 DEF ActedSeats, Match!Called, Inv, TypeOK
  <1>3. CASE MatchOver
    <2>1. /\ phase' = "ended" /\ UNCHANGED start_player /\ round' >= Rounds
      BY <1>3 DEF PosteriorPredict, MatchOver
    <2>2. ActedSeats' = {}
      BY <2>1 DEF ActedSeats
    <2> QED
      BY <1>1, <1>2, <2>1, <2>2 DEF Match!Act, Match!Turn, Match!Acting, Match!Seats, Seats
  <1>4. CASE ~MatchOver
    <2>1. /\ phase' = "prior_prediction" /\ start_player' = (start_player + N - 1) % N
          /\ ~(round' >= Rounds) /\ \A s \in Seats : ~has_predicted'[s]
      BY <1>4 DEF PosteriorPredict, MatchOver, BeginNextRound, ForgetPredictions
    <2>2. ActedSeats' = {}
      BY <2>1 DEF ActedSeats
    <2> QED
      BY <1>1, <1>2, <2>1, <2>2
      DEF Match!Act, Match!Turn, Match!Acting, Match!Seats, Match!Before, Seats
  <1> QED
    BY <1>3, <1>4

LEMMA LoginImplements ==
  ASSUME Inv, NEW u, Login(u)
  PROVE  Match!Begin \/ UNCHANGED Match!roundsVars
  <1>1. /\ phase = "waiting_all" /\ phase' \in {phase, "prior_prediction"}
        /\ UNCHANGED <<round, start_player, hand, has_predicted>>
    BY DEF Login, cardVars, predictVars
  <1>2. ActedSeats = {} /\ ActedSeats' = {}
    BY <1>1 DEF ActedSeats, Inv, Progress
  <1> QED
    BY <1>1, <1>2 DEF Match!Begin, Match!roundsVars

(* An action after which everything the rounds see is as before.           *)
LEMMA Unseen ==
  ASSUME Inv, UNCHANGED <<phase, round, start_player, hand, committed_card, has_predicted>>
  PROVE  UNCHANGED Match!roundsVars
  BY DEF Match!roundsVars, ActedSeats

LEMMA AdvanceImplements ==
  ASSUME Inv, NEW S, Advance(S), UNCHANGED <<round, start_player, cardVars, predictVars>>
  PROVE  UNCHANGED Match!roundsVars
  <1>1. UNCHANGED <<round, start_player, hand, committed_card, has_predicted>>
    BY DEF cardVars, predictVars
  <1>2. CASE phase = "prior_prediction"
    <2>1. ~\A s \in Seats : has_predicted'[s]
      BY <1>1, <1>2 DEF Inv, Progress
    <2>2. UNCHANGED phase
      BY <1>2, <2>1 DEF Advance, AdvancePrior
    <2> QED
      BY <1>1, <2>2, Unseen
  <1>3. CASE phase # "prior_prediction"
    BY <1>1, <1>3, Unseen DEF Advance
  <1> QED
    BY <1>2, <1>3

LEMMA VoteImplements ==
  ASSUME Inv, NEW s \in Seats, NEW yes \in BOOLEAN, Vote(s, yes)
  PROVE  Match!Again \/ UNCHANGED Match!roundsVars
  <1> DEFINE votes == [restart_yes EXCEPT ![s] = yes]
  <1>1. CASE phase = "ended" /\ \A t \in Seats : votes[t]
    <2>1. PICK d \in Deals : Dealt(d) /\ phase' = "prior_prediction"
      BY <1>1 DEF Vote
    <2>2. /\ hand' = d /\ round' = 0 /\ start_player' = 0
          /\ \A t \in Seats : ~has_predicted'[t]
      BY <2>1 DEF Dealt, DealHands, ForgetPredictions
    <2>3. ActedSeats' = {}
      BY <2>1, <2>2 DEF ActedSeats
    <2>4. \A t \in Seats : HandSize - Len(hand'[t]) = 0
      BY <2>2, DealFacts, Numbers
    <2> QED
      BY <1>1, <2>1, <2>2, <2>3, <2>4 DEF Match!Again, Match!NewMatch, Match!Seats, Seats
  <1>2. CASE ~(phase = "ended" /\ \A t \in Seats : votes[t])
    BY <1>2, AdvanceImplements DEF Vote
  <1> QED
    BY <1>1, <1>2

(* Every step of the game is a step of the rounds or none.                 *)
LEMMA StepImplements == Inv /\ [Next]_vars => [Match!RoundsNext]_Match!roundsVars
  <1> SUFFICES ASSUME Inv, [Next]_vars PROVE [Match!RoundsNext]_Match!roundsVars
    OBVIOUS
  <1> USE DEF Match!RoundsNext
  <1>0. Match!Seats = Seats
    BY DEF Match!Seats, Seats
  <1>1. ASSUME NEW S \in SUBSET Seats, Match!Act(S) PROVE Match!RoundsNext
    BY <1>0, <1>1
  <1>2. ASSUME NEW u, Login(u) PROVE [Match!RoundsNext]_Match!roundsVars
    BY <1>2, LoginImplements
  <1>3. ASSUME NEW s \in Seats, NEW raw \in RawGuesses, Predict({s}, Guess(raw)) PROVE Match!RoundsNext
    BY <1>1, <1>3, PredictImplements
  <1>4. ASSUME NEW s \in Seats, NEW raw \in RawIndices, PlayCard({s}, raw % 256) PROVE Match!RoundsNext
    <2>1. raw % 256 \in Nat
      BY GameAssumption
    <2> QED
      BY <1>1, <1>4, <2>1, PlayCardImplements
  <1>5. ASSUME NEW l, PosteriorPredict(l) PROVE Match!RoundsNext
    <2>1. PICK p \in Seats : p = start_player
      BY DEF Inv, TypeOK
    <2> QED
      BY <1>1, <1>5, <2>1, PosteriorImplements
  <1>6. ASSUME NEW d, DraftPosterior(d) PROVE UNCHANGED Match!roundsVars
    BY <1>6, Unseen DEF DraftPosterior, flowVars, cardVars, predictVars
  <1>7. ASSUME NEW s \in Seats, NEW yes \in BOOLEAN, Vote(s, yes)
        PROVE  [Match!RoundsNext]_Match!roundsVars
    BY <1>7, VoteImplements
  <1>8. CASE GuestVote
    BY <1>8, AdvanceImplements DEF GuestVote
  <1>9. CASE Tick
    <2>1. Late \in SUBSET Seats /\ 0 \in Nat
      BY DEF Late
    <2> QED
      BY <1>1, <1>5, <1>9, <2>1, PredictImplements, PlayCardImplements DEF Tick
  <1>10. CASE Pass
    BY <1>10, Unseen DEF Pass, flowVars, cardVars, predictVars
  <1>11. CASE UNCHANGED vars
    BY <1>11, Unseen DEF vars, flowVars, cardVars, predictVars
  <1> QED
    BY <1>2, <1>3, <1>4, <1>5, <1>6, <1>7, <1>8, <1>9, <1>10, <1>11 DEF Next

(* The game plays by the rounds of TypRounds.                              *)
THEOREM GameImplementsRounds == Spec => MatchSpec
  BY MatchStart, StepImplements, InvHolds, PTL DEF Spec, MatchSpec, Match!RoundsSpec
-----------------------------------------------------------------------------
(* Clocks, drafts and cards                                                *)

(* The clocks that start are those of the new phase, and in the prior      *)
(* phase the called player's is one of them.                               *)
LEMMA ClocksOfPhase ==
  ASSUME Inv', StartThinking
  PROVE  OnlyThinkersPay'
  <1>1. \A s \in Seats : thinking'[s] # Idle => Thinker(s)'
    BY DEF StartThinking, Thinks, Thinker
  <1>2. phase' = "prior_prediction" => thinking'[current_player'] # Idle
    <2> SUFFICES ASSUME phase' = "prior_prediction" PROVE thinking'[current_player'] # Idle
      OBVIOUS
    <2>1. current_player' \in Seats /\ ~has_predicted'[current_player']
      BY DEF Inv, Progress
    <2>2. Thinks(current_player')
      BY <2>1 DEF Thinks
    <2> QED
      BY <2>1, <2>2 DEF StartThinking, Idle
  <1> QED
    BY <1>1, <1>2 DEF OnlyThinkersPay

(* Clocks that only stop, in a phase that goes on.                         *)
LEMMA ClocksStop ==
  ASSUME OnlyThinkersPay, phase # "prior_prediction", NEW S, StopClocks(S),
         UNCHANGED <<phase, start_player>>,
         \A s \in Seats : s \notin S /\ committed_card[s] = <<>> => committed_card'[s] = <<>>
  PROVE  OnlyThinkersPay'
  BY DEF OnlyThinkersPay, Thinker, StopClocks

LEMMA AdvanceClocks ==
  ASSUME Inv', OnlyThinkersPay, NEW S, Advance(S), UNCHANGED <<start_player, committed_card>>
  PROVE  OnlyThinkersPay'
  BY ClocksOfPhase, ClocksStop DEF Advance, AdvancePrior

LEMMA ClocksStep == Inv /\ OnlyThinkersPay /\ [Next]_vars => OnlyThinkersPay'
  <1> SUFFICES ASSUME Inv, OnlyThinkersPay, [Next]_vars PROVE OnlyThinkersPay'
    OBVIOUS
  <1>0. Inv'
    BY NextInv
  <1>1. ASSUME NEW u, Login(u) PROVE OnlyThinkersPay'
    <2>1. CASE phase' # phase
      BY <1>0, <1>1, <2>1, ClocksOfPhase DEF Login
    <2>2. CASE phase' = phase
      BY <1>1, <2>2 DEF Login, OnlyThinkersPay, Thinker
    <2> QED
      BY <2>1, <2>2
  <1>2. ASSUME NEW S, NEW g, Predict(S, g) PROVE OnlyThinkersPay'
    BY <1>0, <1>2, ClocksOfPhase DEF Predict, AdvancePrior
  <1>3. ASSUME NEW S, NEW i, PlayCard(S, i) PROVE OnlyThinkersPay'
    <2>1. CASE \A s \in Seats : committed_card'[s] # <<>>
      BY <1>0, <1>3, <2>1, ClocksOfPhase DEF PlayCard
    <2>2. CASE ~\A s \in Seats : committed_card'[s] # <<>>
      BY <1>3, <2>2, ClocksStop DEF PlayCard
    <2> QED
      BY <2>1, <2>2
  <1>4. ASSUME NEW l, PosteriorPredict(l) PROVE OnlyThinkersPay'
    BY <1>0, <1>4, ClocksOfPhase DEF PosteriorPredict
  <1>5. ASSUME NEW d, DraftPosterior(d) PROVE OnlyThinkersPay'
    BY <1>5 DEF DraftPosterior, flowVars, cardVars, OnlyThinkersPay, Thinker
  <1>6. ASSUME NEW s, NEW yes, Vote(s, yes) PROVE OnlyThinkersPay'
    <2>1. StartThinking \/ (Advance({s}) /\ UNCHANGED <<start_player, committed_card>>)
      BY <1>6 DEF Vote, cardVars
    <2> QED
      BY <1>0, <2>1, ClocksOfPhase, AdvanceClocks
  <1>7. CASE GuestVote
    BY <1>0, <1>7, AdvanceClocks DEF GuestVote, cardVars
  <1>8. CASE Tick
    BY <1>2, <1>3, <1>4, <1>8 DEF Tick
  <1>9. CASE Pass
    <2>1. UNCHANGED <<phase, start_player, current_player, committed_card>>
      BY <1>9 DEF Pass, flowVars, cardVars
    <2>2. \A s \in Seats : thinking'[s] # Idle <=> thinking[s] # Idle
      BY <1>9, Numbers DEF Pass, Idle
    <2>3. phase = "prior_prediction" => current_player \in Seats
      BY DEF Inv, Progress
    <2> QED
      BY <2>1, <2>2, <2>3 DEF OnlyThinkersPay, Thinker
  <1>10. CASE UNCHANGED vars
    BY <1>10 DEF vars, flowVars, cardVars, OnlyThinkersPay, Thinker
  <1> QED
    BY <1>1, <1>2, <1>3, <1>4, <1>5, <1>6, <1>7, <1>8, <1>9, <1>10 DEF Next

(* Nobody pays for the time of others: a clock runs only for a player the  *)
(* phase waits for, whatever votes and timeouts come in between, and the   *)
(* player called to predict is never without one.                          *)
THEOREM OnlyThinkersEverPay == Spec => []OnlyThinkersPay
  <1>1. Init => OnlyThinkersPay
    BY DEF Init, OnlyThinkersPay
  <1> QED
    BY <1>1, InvHolds, ClocksStep, PTL DEF Spec

(* A draft goes with the round it was made in.                             *)
LEMMA DraftStep == Inv /\ DraftOfThisRound /\ [Next]_vars => DraftOfThisRound'
  <1> SUFFICES ASSUME Inv, DraftOfThisRound, [Next]_vars PROVE DraftOfThisRound'
    OBVIOUS
  <1> USE DEF DraftOfThisRound
  <1>1. ASSUME NEW u, Login(u) PROVE DraftOfThisRound'
    BY <1>1 DEF Login, Inv, TypeOK, Progress
  <1>2. ASSUME NEW S, NEW g, Predict(S, g) \/ PlayCard(S, g) PROVE DraftOfThisRound'
    BY <1>2 DEF Predict, PlayCard
  <1>3. ASSUME NEW l, PosteriorPredict(l) PROVE DraftOfThisRound'
    <2>1. MatchOver => phase' = "ended"
      BY <1>3 DEF PosteriorPredict
    <2>2. ~MatchOver => posterior_draft' = <<>>
      BY <1>3 DEF PosteriorPredict, BeginNextRound, ClearDraft
    <2> QED
      BY <2>1, <2>2
  <1>4. ASSUME NEW d, DraftPosterior(d) PROVE DraftOfThisRound'
    BY <1>4 DEF DraftPosterior, flowVars
  <1>5. ASSUME NEW S, Advance(S), UNCHANGED <<round, posterior_draft>> PROVE DraftOfThisRound'
    BY <1>5 DEF Advance, AdvancePrior
  <1>6. ASSUME NEW s, NEW yes, Vote(s, yes) PROVE DraftOfThisRound'
    <2>1. round' = 0 \/ (Advance({s}) /\ UNCHANGED <<round, posterior_draft>>)
      BY <1>6 DEF Vote, Dealt
    <2> QED
      BY <1>5, <2>1
  <1>7. CASE GuestVote
    BY <1>5, <1>7 DEF GuestVote
  <1>8. CASE Tick
    BY <1>2, <1>3, <1>8 DEF Tick
  <1>9. CASE Pass \/ UNCHANGED vars
    BY <1>9 DEF Pass, vars, flowVars
  <1> QED
    BY <1>1, <1>2, <1>3, <1>4, <1>6, <1>7, <1>8, <1>9 DEF Next

(* No player ever sees the draft of an earlier round of the match.         *)
THEOREM DraftsStayInRound == Spec => []DraftOfThisRound
  <1>1. Init => DraftOfThisRound
    BY DEF Init, DraftOfThisRound
  <1> QED
    BY <1>1, InvHolds, DraftStep, PTL DEF Spec

(* What two piles hold together.                                           *)
LEMMA PilesTogether ==
  ASSUME NEW a \in Hand, NEW b \in Hand
  PROVE  a \o b \in Hand /\ Len(a \o b) = Len(a) + Len(b) /\ ToSet(a \o b) = ToSet(a) \cup ToSet(b)
  <1>1. a \o b \in Hand /\ Len(a \o b) = Len(a) + Len(b)
    BY ConcatProperties DEF Hand
  <1>2. Range(a \o b) = Range(a) \cup Range(b)
    BY RangeConcatenation DEF Hand
  <1>3. ToSet(a \o b) = ToSet(a) \cup ToSet(b)
    BY <1>2, Zenon DEF Range, ToSet
  <1> QED
    BY <1>1, <1>3

LEMMA EmptyPile == <<>> \in Hand /\ Len(<<>>) = 0 /\ ToSet(<<>>) = {}
  <1>1. ToSet(<<>>) = {}
    BY DEF ToSet
  <1> QED
    BY <1>1 DEF Hand

(* The card that leaves the hand is the only one that does.                *)
LEMMA RemovedCardOnly ==
  ASSUME NEW h \in Hand, NEW i \in Nat, i < Len(h)
  PROVE  ToSet(RemoveAt(h, i + 1)) \cup ToSet(<<h[i + 1]>>) = ToSet(h)
  <1> DEFINE a == SubSeq(h, 1, i)
             b == SubSeq(h, i + 2, Len(h))
  <1>1. Len(h) \in Nat /\ DOMAIN h = 1..Len(h)
    BY DEF Hand
  <1>2. a \in Hand /\ b \in Hand
    BY <1>1 DEF Hand
  <1>3. ToSet(RemoveAt(h, i + 1)) = ToSet(a) \cup ToSet(b)
    <2>1. (i + 1) - 1 = i /\ (i + 1) + 1 = i + 2
      OBVIOUS
    <2>2. RemoveAt(h, i + 1) = a \o b
      BY <2>1, Zenon DEF RemoveAt
    <2>3. ToSet(a \o b) = ToSet(a) \cup ToSet(b)
      BY <1>2, PilesTogether, Zenon
    <2> QED
      BY <2>2, <2>3, Zenon
  <1>4. ToSet(a) = {h[k] : k \in 1..i}
    <2>1. DOMAIN a = 1..i /\ \A k \in 1..i : a[k] = h[k]
      BY <1>1 DEF Hand
    <2> QED
      BY <2>1, Zenon DEF ToSet
  <1>5. ToSet(b) = {h[k] : k \in (i + 2)..Len(h)}
    <2>1. DOMAIN b = 1..(Len(h) - i - 1) /\ \A k \in DOMAIN b : b[k] = h[k + i + 1]
      BY <1>1 DEF Hand
    <2>2. \A k \in (i + 2)..Len(h) : k - i - 1 \in DOMAIN b /\ b[k - i - 1] = h[k]
      BY <1>1, <2>1
    <2>3. \A k \in DOMAIN b : k + i + 1 \in (i + 2)..Len(h)
      BY <1>1, <2>1
    <2> HIDE DEF b
    <2> QED
      BY <2>1, <2>2, <2>3 DEF ToSet
  <1>6. ToSet(<<h[i + 1]>>) = {h[i + 1]}
    BY DEF ToSet
  <1>7. 1..Len(h) = (1..i) \cup {i + 1} \cup ((i + 2)..Len(h))
    BY <1>1
  <1> HIDE DEF a, b
  <1>8. ToSet(h) = {h[k] : k \in 1..Len(h)}
    BY <1>1 DEF ToSet
  <1> QED
    BY <1>3, <1>4, <1>5, <1>6, <1>7, <1>8, Zenon

\* The cards of a seat: in the hand, face down and in the history.
AllCards(h, c, p) == ToSet(h \o c \o p)

(* A card laid face down stays one of them ...                             *)
LEMMA LayCard ==
  ASSUME NEW h \in Hand, NEW p \in Hand, NEW i \in Nat, i < Len(h)
  PROVE  AllCards(RemoveAt(h, i + 1), <<h[i + 1]>>, p) = AllCards(h, <<>>, p)
  <1> DEFINE r == RemoveAt(h, i + 1)
             c == <<h[i + 1]>>
  <1>1. r \in Hand /\ c \in Hand
    BY RemovedCard
  <1>2. ToSet(r) \cup ToSet(c) = ToSet(h)
    BY RemovedCardOnly
  <1> HIDE DEF r, c
  <1>3. ToSet(r \o c) = ToSet(h) /\ r \o c \in Hand
    BY <1>1, <1>2, PilesTogether
  <1>4. ToSet(h \o <<>>) = ToSet(h) /\ h \o <<>> \in Hand
    BY EmptyPile, PilesTogether
  <1>5. ToSet(r \o c \o p) = ToSet(h \o <<>> \o p)
    <2>1. \A q \in Hand : ToSet(q \o p) = ToSet(q) \cup ToSet(p)
      BY PilesTogether
    <2> QED
      BY <1>3, <1>4, <2>1, Zenon
  <1> QED
    BY <1>5 DEF AllCards, r, c

(* ... as does one that is revealed ...                                    *)
LEMMA RevealCard ==
  ASSUME NEW h \in Hand, NEW c \in Hand, NEW p \in Hand
  PROVE  AllCards(h, <<>>, p \o c) = AllCards(h, c, p)
  <1>1. p \o c \in Hand /\ ToSet(p \o c) = ToSet(p) \cup ToSet(c)
    BY PilesTogether
  <1>2. ToSet(h \o <<>>) = ToSet(h) /\ h \o <<>> \in Hand
    BY EmptyPile, PilesTogether
  <1>3. ToSet(h \o <<>> \o (p \o c)) = ToSet(h) \cup ToSet(p) \cup ToSet(c)
    BY <1>1, <1>2, PilesTogether
  <1>4. ToSet(h \o c) = ToSet(h) \cup ToSet(c) /\ h \o c \in Hand
    BY PilesTogether
  <1>5. ToSet(h \o c \o p) = ToSet(h) \cup ToSet(p) \cup ToSet(c)
    BY <1>4, PilesTogether
  <1> QED
    BY <1>3, <1>5 DEF AllCards

(* ... and after the deal all of them are in the hand.                     *)
LEMMA DealtCards ==
  ASSUME NEW h \in Hand
  PROVE  AllCards(h, <<>>, <<>>) = ToSet(h)
  <1>1. ToSet(h \o <<>>) = ToSet(h) /\ h \o <<>> \in Hand
    BY EmptyPile, PilesTogether
  <1>2. ToSet(h \o <<>> \o <<>>) = ToSet(h)
    BY <1>1, EmptyPile, PilesTogether
  <1> QED
    BY <1>2 DEF AllCards

Owned(s) == AllCards(hand[s], committed_card[s], played_history[s])

CountsAdd(s) ==
  /\ Len(hand[s]) + Len(committed_card[s]) + Len(played_history[s]) = HandSize
  /\ Len(played_history[s]) = round

(* Steps that move the cards of each seat between its own piles.           *)
LEMMA CardsMove ==
  ASSUME CardsConserved, \A s \in Seats : Owned(s)' = Owned(s) /\ CountsAdd(s)'
  PROVE  CardsConserved'
  BY DEF CardsConserved, Owned, AllCards, CountsAdd

LEMMA CardsStay ==
  ASSUME CardsConserved, UNCHANGED <<cardVars, round>>
  PROVE  CardsConserved'
  BY DEF CardsConserved, cardVars

\* The sum of the counts pins down how many cards lie face down.
LEMMA FaceDown ==
  ASSUME Inv, CardsConserved, NEW s \in Seats
  PROVE  /\ Len(hand[s]) \in Nat
         /\ Len(committed_card[s]) \in Nat
         /\ Len(committed_card[s]) = Played(s) - round
         /\ CountsAdd(s)
  <1> DEFINE h == Len(hand[s])
             c == Len(committed_card[s])
             p == Len(played_history[s])
  <1>1. h \in Nat /\ c \in Nat /\ p \in Nat /\ round \in Nat
    <2>1. hand[s] \in Hand /\ committed_card[s] \in Hand /\ played_history[s] \in Hand /\ round \in Nat
      BY DEF Inv, TypeOK
    <2> QED
      BY <2>1, LenProperties DEF Hand
  <1>2. h + c + p = HandSize /\ p = round
    BY DEF CardsConserved
  <1>3. h = HandSize - Played(s) /\ Played(s) \in Nat
    BY <1>1 DEF Inv, Progress, Played
  <1>4. c = Played(s) - p
    <2> HIDE DEF h, c, p
    <2> QED
      BY <1>1, <1>2, <1>3, Numbers
  <1> QED
    BY <1>1, <1>2, <1>4 DEF CountsAdd

LEMMA PlayCardConserves ==
  ASSUME Inv, CardsConserved, NEW S \in SUBSET Seats, NEW i \in Nat, PlayCard(S, i)
  PROVE  CardsConserved'
  <1>1. UNCHANGED <<round, played_history>>
    BY DEF PlayCard
  <1>2. ASSUME NEW s \in Seats PROVE Owned(s)' = Owned(s) /\ CountsAdd(s)'
    <2>1. hand[s] \in Hand /\ played_history[s] \in Hand
      BY DEF Inv, TypeOK
    <2>2. CountsAdd(s) /\ Len(hand[s]) \in Nat
      BY FaceDown
    <2>3. CASE s \in S
      <3>1. i < Len(hand[s]) /\ committed_card[s] = <<>>
        BY <2>3 DEF PlayCard
      <3>2. hand'[s] = RemoveAt(hand[s], i + 1) /\ committed_card'[s] = <<hand[s][i + 1]>>
        BY <2>3 DEF PlayCard
      <3>3. Owned(s)' = Owned(s)
        BY <1>1, <2>1, <3>1, <3>2, LayCard DEF Owned
      <3>4. Len(hand'[s]) = Len(hand[s]) - 1
        BY <2>1, <3>1, <3>2, RemovedCard
      <3>5. Len(committed_card[s]) = 0 /\ Len(committed_card'[s]) = 1
        BY <3>1, <3>2
      <3>6. Len(hand'[s]) + Len(committed_card'[s]) = Len(hand[s]) + Len(committed_card[s])
        BY <2>2, <3>4, <3>5
      <3> QED
        BY <1>1, <2>2, <3>3, <3>6 DEF CountsAdd
    <2>4. CASE s \notin S
      BY <1>1, <2>2, <2>4 DEF PlayCard, Owned, CountsAdd
    <2> QED
      BY <2>3, <2>4
  <1> QED
    BY <1>2, CardsMove

LEMMA PosteriorConserves ==
  ASSUME Inv, CardsConserved, NEW l, PosteriorPredict(l)
  PROVE  CardsConserved'
  <1>1. UNCHANGED hand /\ round' = round + 1 /\ phase = "posterior_prediction" /\ round \in Nat
    BY DEF PosteriorPredict, Inv, TypeOK
  <1>2. ASSUME NEW s \in Seats PROVE Owned(s)' = Owned(s) /\ CountsAdd(s)'
    <2>1. hand[s] \in Hand /\ committed_card[s] \in Hand /\ played_history[s] \in Hand
      BY DEF Inv, TypeOK
    <2>2. committed_card'[s] = <<>> /\ played_history'[s] = played_history[s] \o committed_card[s]
      BY DEF PosteriorPredict
    <2>3. Owned(s)' = Owned(s)
      BY <1>1, <2>1, <2>2, RevealCard DEF Owned
    <2>4. CountsAdd(s) /\ Len(hand[s]) \in Nat /\ Len(committed_card[s]) = 1
      BY <1>1, FaceDown DEF Played
    <2>5. Len(played_history'[s]) = round + 1
      BY <2>1, <2>2, <2>4, PilesTogether DEF CountsAdd
    <2>6. Len(committed_card'[s]) = 0
      BY <2>2
    <2>7. Len(hand'[s]) + Len(committed_card'[s]) + Len(played_history'[s]) = HandSize
      <3>1. Len(hand'[s]) = Len(hand[s])
        BY <1>1
      <3>2. Len(hand[s]) + 1 + round = HandSize
        BY <2>4 DEF CountsAdd
      <3> DEFINE h == Len(hand[s])
      <3>3. h + 0 + (round + 1) = HandSize
        <4> HIDE DEF h
        <4>1. h \in Nat /\ h + 1 + round = HandSize
          BY <2>4, <3>2 DEF h
        <4> QED
          BY <1>1, <4>1
      <3> QED
        BY <2>5, <2>6, <3>1, <3>3
    <2> QED
      BY <1>1, <2>3, <2>5, <2>7 DEF CountsAdd
  <1> QED
    BY <1>2, CardsMove

\* Nothing is played yet.
FreshlyDealt(d) ==
  /\ hand = d /\ round = 0
  /\ \A s \in Seats : committed_card[s] = <<>> /\ played_history[s] = <<>>

LEMMA DealtConserves ==
  ASSUME NEW d \in Deals, FreshlyDealt(d)
  PROVE  CardsConserved
  <1>1. ASSUME NEW s \in Seats PROVE Owned(s) = ToSet(d[s]) /\ CountsAdd(s)
    <2>1. /\ hand[s] = d[s] /\ committed_card[s] = <<>> /\ played_history[s] = <<>> /\ round = 0
          /\ d[s] \in Hand /\ Len(d[s]) = HandSize
      BY DealFacts DEF FreshlyDealt
    <2>2. Owned(s) = ToSet(d[s])
      BY <2>1, DealtCards DEF Owned
    <2>3. CountsAdd(s)
      BY <2>1, EmptyPile, Numbers DEF CountsAdd
    <2> QED
      BY <2>2, <2>3
  <1> QED
    BY <1>1 DEF CardsConserved, Owned, AllCards, CountsAdd

LEMMA AgainConserves ==
  ASSUME NEW d \in Deals
  PROVE  Dealt(d) => CardsConserved'
  <1>1. FreshlyDealt(d) => CardsConserved
    BY DealtConserves
  <1>2. FreshlyDealt(d)' => CardsConserved'
    BY <1>1, PTL
  <1>3. Dealt(d) => FreshlyDealt(d)'
    BY DEF Dealt, DealHands, FreshlyDealt
  <1> QED
    BY <1>2, <1>3

LEMMA CardsStep == Inv /\ CardsConserved /\ [Next]_vars => CardsConserved'
  <1> SUFFICES ASSUME Inv, CardsConserved, [Next]_vars PROVE CardsConserved'
    OBVIOUS
  <1>1. ASSUME NEW s \in Seats, NEW raw \in RawIndices, PlayCard({s}, raw % 256) PROVE CardsConserved'
    <2>1. raw % 256 \in Nat
      BY GameAssumption
    <2> QED
      BY <1>1, <2>1, PlayCardConserves
  <1>2. ASSUME NEW S, NEW g, Predict(S, g) PROVE CardsConserved'
    BY <1>2, CardsStay DEF Predict
  <1>3. ASSUME NEW l, PosteriorPredict(l) PROVE CardsConserved'
    BY <1>3, PosteriorConserves
  <1>4. CASE Tick
    <2>1. Late \in SUBSET Seats /\ 0 \in Nat
      BY DEF Late
    <2> QED
      BY <1>2, <1>3, <1>4, <2>1, PlayCardConserves DEF Tick
  <1>5. ASSUME NEW s, NEW yes, Vote(s, yes) PROVE CardsConserved'
    <2>1. (\E d \in Deals : Dealt(d)) \/ UNCHANGED <<cardVars, round>>
      BY <1>5 DEF Vote
    <2> QED
      BY <2>1, AgainConserves, CardsStay
  <1>6. CASE (\E u : Login(u)) \/ (\E d : DraftPosterior(d)) \/ GuestVote \/ Pass \/ UNCHANGED vars
    BY <1>6, CardsStay DEF Login, DraftPosterior, GuestVote, Pass, vars, flowVars
  <1> QED
    BY <1>1, <1>2, <1>3, <1>4, <1>5, <1>6 DEF Next

(* No card is lost, doubled or swapped between players, in any match.      *)
THEOREM CardsAreConserved == Spec => []CardsConserved
  <1>1. Init => CardsConserved
    BY DealtConserves DEF Init, FreshlyDealt
  <1> QED
    BY <1>1, InvHolds, CardsStep, PTL DEF Spec
=============================================================================
