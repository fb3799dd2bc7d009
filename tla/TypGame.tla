------------------------------ MODULE TypGame -------------------------------
(***************************************************************************)
(* The game logic of "Take Your Position" (state.rs, rules.rs, logic.rs of *)
(* crates/games/take_your_position): logins, actions, the vote to play     *)
(* again, and the one-second tick that acts for players whose time is up.  *)
(* Handlers run under the SDK's mutex, so each is one step; a rejected     *)
(* action changes nothing and is left out.  The uids of the players are    *)
(* their seats.  Time is counted in ticks of the clock, up to the budget   *)
(* of a player, beyond which remaining_ms saturates.  The refresh pool A   *)
(* is full whenever no settle_action is running and has no variable.       *)
(***************************************************************************)
EXTENDS TypScoring, SequencesExt

CONSTANTS
  N,            \* number of players
  Rounds,       \* rounds of a match (5)
  HandPattern,  \* the piles a hand is dealt from, in order
  Deals,        \* the deals that can come out of the shuffle
  Refresh,      \* pool A: time for one action
  Reserve,      \* pool B: time for the whole process
  Guests,       \* uids that are not seated but can log in (pushed sessions)
  EarlyVotes,   \* TRUE: clients send restart votes before the end as well
  RawGuesses,   \* inputs offered: rank of predict
  RawIndices,   \*                 card_index of play_card
  RankLists,    \*                 rank_list of posterior_predict
  Drafts,       \*                 assignments of draft_posterior
  MaxMatches    \* bound: matches played by one process

Seats == 0..(N - 1)
HandSize == Len(HandPattern)
Hand == Seq(CardSet)

LegalDeal(d) ==
  /\ d \in [Seats -> Hand]
  /\ \A s \in Seats : Len(d[s]) = HandSize /\ \A k \in 1..HandSize : Pile(d[s][k]) = HandPattern[k]
  /\ \A s, t \in Seats : \A j, k \in 1..HandSize : d[s][j] = d[t][k] => s = t /\ j = k

ASSUME GameAssumption ==
  /\ N \in Nat \ {0}
  /\ Rounds \in Nat \ {0}
  /\ HandPattern \in Seq({"small", "big", "spade"}) /\ Rounds <= Len(HandPattern)
  /\ Deals # {} /\ \A d \in Deals : LegalDeal(d)
  /\ Refresh \in Nat /\ Reserve \in Nat
  /\ Guests \cap Seats = {}
  /\ EarlyVotes \in BOOLEAN /\ MaxMatches \in Nat \ {0}
  /\ RawGuesses \subseteq Nat \cup {None} /\ RawIndices \subseteq Nat

VARIABLES
  phase, round, start_player,
  current_player,   \* the seat whose turn it is in the prior phase
  joined,           \* uids that have logged in
  hand, committed_card, played_history,
  prediction, has_predicted,
  posterior,        \* <<>> or <<list>>: the start player's posterior_prediction
  posterior_draft,
  table,            \* <<>>, or the revealed cards by seat
  score, restart_yes,
  time_b,           \* what is left of pool B
  thinking,         \* Idle, or for how long a player has been thinking
  matches           \* matches begun, counted for the bound only

cardVars == <<hand, committed_card, played_history>>
predictVars == <<prediction, has_predicted>>
flowVars == <<phase, round, start_player>>
vars == <<flowVars, current_player, joined, cardVars, predictVars, posterior,
          posterior_draft, table, score, restart_yes, time_b, thinking, matches>>

Phases == {"waiting_all", "prior_prediction", "play", "posterior_prediction", "ended"}
Idle == -1

-----------------------------------------------------------------------------
(* Clocks                                                                  *)

\* Mutant: the version before fix 1, which starts every clock at once.
ThinksTogether(s) ==
  CASE phase' = "prior_prediction" -> ~has_predicted'[s]
    [] phase' = "play" -> committed_card'[s] = <<>>
    [] phase' = "posterior_prediction" -> s = start_player' /\ posterior' = <<>>
    [] OTHER -> FALSE

\* start_thinking, with the state the handler has made so far: the clocks of
\* those the phase waits for start at zero, all others stop.
Thinks(s) ==
  CASE phase' = "prior_prediction" -> s = current_player' /\ ~has_predicted'[s]
    [] phase' = "play" -> committed_card'[s] = <<>>
    [] phase' = "posterior_prediction" -> s = start_player' /\ posterior' = <<>>
    [] OTHER -> FALSE

StartThinking == thinking' = [s \in Seats |-> IF Thinks(s) THEN 0 ELSE Idle]

Elapsed(s) == IF thinking[s] = Idle THEN 0 ELSE thinking[s]

OutOfTime(s) == Refresh + time_b[s] <= Elapsed(s)

\* Mutant: pool B pays alone.
SettleReserve(S) ==
  time_b' = [s \in Seats |->
               IF s \in S /\ time_b[s] > Elapsed(s) THEN time_b[s] - Elapsed(s)
               ELSE IF s \in S THEN 0 ELSE time_b[s]]

\* Mutant: a plain subtraction.
SettleUnsaturated(S) ==
  time_b' = [s \in Seats |->
               IF s \in S /\ Elapsed(s) > Refresh THEN time_b[s] - (Elapsed(s) - Refresh) ELSE time_b[s]]

\* settle_action for the seats of S: A pays first, then B, never below zero.
Settle(S) ==
  time_b' = [s \in Seats |->
               IF s \in S /\ Elapsed(s) > Refresh
                 THEN IF time_b[s] > Elapsed(s) - Refresh THEN time_b[s] - (Elapsed(s) - Refresh) ELSE 0
                 ELSE time_b[s]]

StopClocks(S) == thinking' = [s \in Seats |-> IF s \in S THEN Idle ELSE thinking[s]]

-----------------------------------------------------------------------------
(* Start and logins                                                        *)

\* Mutant: the cards played in the last match stay in the histories.
DealHandsKeepHistory(d) ==
  hand' = d /\ committed_card' = [s \in Seats |-> <<>>] /\ UNCHANGED played_history

\* Mutant: the hands are not dealt again.
DealHandsKeepHand(d) ==
  /\ UNCHANGED hand
  /\ committed_card' = [s \in Seats |-> <<>>] /\ played_history' = [s \in Seats |-> <<>>]

DealHands(d) ==
  /\ hand' = d
  /\ committed_card' = [s \in Seats |-> <<>>] /\ played_history' = [s \in Seats |-> <<>>]

\* Mutant: the predictions of the round before still count as made.
KeepPredictions == UNCHANGED predictVars

ForgetPredictions ==
  prediction' = [s \in Seats |-> None] /\ has_predicted' = [s \in Seats |-> FALSE]

\* deal(), with the phase its callers choose.
Dealt(d) ==
  /\ DealHands(d)
  /\ ForgetPredictions
  /\ posterior' = <<>> /\ table' = <<>>
  /\ restart_yes' = [s \in Seats |-> FALSE]
  /\ round' = 0 /\ start_player' = 0 /\ current_player' = 0

Init ==
  /\ phase = "waiting_all" /\ round = 0 /\ start_player = 0 /\ current_player = 0
  /\ joined = {}
  /\ hand \in Deals
  /\ committed_card = [s \in Seats |-> <<>>] /\ played_history = [s \in Seats |-> <<>>]
  /\ prediction = [s \in Seats |-> None] /\ has_predicted = [s \in Seats |-> FALSE]
  /\ posterior = <<>> /\ posterior_draft = <<>> /\ table = <<>>
  /\ score = [s \in Seats |-> 0] /\ restart_yes = [s \in Seats |-> FALSE]
  /\ time_b = [s \in Seats |-> Reserve] /\ thinking = [s \in Seats |-> Idle]
  /\ matches = 1

\* on_player_login counts uids, seated or not.
Login(u) ==
  /\ phase = "waiting_all"
  /\ joined' = joined \cup {u}
  /\ IF Cardinality(joined') = N
       THEN phase' = "prior_prediction" /\ current_player' = start_player
       ELSE UNCHANGED <<phase, current_player>>
  /\ UNCHANGED <<round, start_player, cardVars, predictVars, posterior, posterior_draft,
                 table, score, restart_yes, time_b, matches>>
  /\ IF phase' # phase THEN StartThinking ELSE UNCHANGED thinking

-----------------------------------------------------------------------------
(* The prior phase                                                         *)

\* next_unacted: the first seat from the current one on without a prediction.
NextUnacted ==
  (current_player + Min({k \in 0..(N - 1) : ~has_predicted'[(current_player + k) % N]})) % N

\* advance_phase: on to the next seat, or to the play phase.
AdvancePrior ==
  /\ IF \A s \in Seats : has_predicted'[s]
       THEN phase' = "play" /\ current_player' = None
       ELSE phase' = phase /\ current_player' = NextUnacted
  /\ StartThinking

\* Mutant: the lock is missing.
MayPredictAgain(s) == TRUE

\* The lock of apply_predict.
MayPredict(s) == ~has_predicted[s]

\* apply_predict and what follows it.  The turn is not looked at.
Predict(S, guess) ==
  /\ phase = "prior_prediction"
  /\ S # {} /\ \A s \in S : MayPredict(s)
  /\ GuessInRange(guess, N)
  /\ prediction' = [s \in Seats |-> IF s \in S THEN guess ELSE prediction[s]]
  /\ has_predicted' = [s \in Seats |-> has_predicted[s] \/ s \in S]
  /\ Settle(S)
  /\ UNCHANGED <<round, start_player, joined, cardVars, posterior, posterior_draft, table,
                 score, restart_yes, matches>>
  /\ AdvancePrior

-----------------------------------------------------------------------------
(* The play phase                                                          *)

\* apply_play_card: the card leaves the hand and lies face down.
PlayCard(S, index) ==
  /\ phase = "play"
  /\ S # {} /\ \A s \in S : committed_card[s] = <<>> /\ index < Len(hand[s])
  /\ committed_card' = [s \in Seats |-> IF s \in S THEN <<hand[s][index + 1]>> ELSE committed_card[s]]
  /\ hand' = [s \in Seats |-> IF s \in S THEN RemoveAt(hand[s], index + 1) ELSE hand[s]]
  /\ Settle(S)
  /\ UNCHANGED <<round, start_player, joined, played_history, predictVars, posterior,
                 posterior_draft, table, score, restart_yes, matches>>
  /\ IF \A s \in Seats : committed_card'[s] # <<>>
       THEN /\ phase' = "posterior_prediction" /\ current_player' = start_player
            /\ StartThinking
       ELSE UNCHANGED <<phase, current_player>> /\ StopClocks(S)

-----------------------------------------------------------------------------
(* The posterior phase                                                     *)

DraftPosterior(d) ==
  /\ phase = "posterior_prediction" /\ posterior = <<>>
  /\ DOMAIN d \subseteq Seats /\ \A s \in DOMAIN d : d[s] \in 1..N
  /\ \A s, t \in DOMAIN d : d[s] = d[t] => s = t
  /\ posterior_draft' = d
  /\ UNCHANGED <<flowVars, current_player, joined, cardVars, predictVars, posterior, table,
                 score, restart_yes, time_b, thinking, matches>>

Laid == [s \in Seats |-> committed_card[s][1]]

\* Mutant: the draft is forgotten.
KeepDraft == UNCHANGED posterior_draft

ClearDraft == posterior_draft' = <<>>

BeginNextRound ==
  /\ start_player' = (start_player + N - 1) % N /\ current_player' = start_player'
  /\ ForgetPredictions
  /\ posterior' = <<>> /\ ClearDraft /\ table' = <<>>
  /\ phase' = "prior_prediction"

\* Mutant: one round too many.
MatchOverLate == round' > Rounds

MatchOver == round' >= Rounds

\* apply_posterior by the start player, then reveal_plays, finish_round and
\* the step to the next round or to the end.
PosteriorPredict(list) ==
  /\ phase = "posterior_prediction" /\ posterior = <<>>
  /\ FullRanking(list, Seats)
  /\ Settle({start_player})
  /\ committed_card' = [s \in Seats |-> <<>>]
  /\ played_history' = [s \in Seats |-> played_history[s] \o committed_card[s]]
  /\ score' = [s \in Seats |-> score[s] + RoundDelta(Laid, prediction, start_player, list)[s]]
  /\ round' = round + 1
  /\ UNCHANGED <<joined, hand, restart_yes, matches>>
  /\ IF MatchOver
       THEN /\ phase' = "ended" /\ table' = Laid /\ posterior' = <<list>>
            /\ UNCHANGED <<start_player, current_player, predictVars, posterior_draft>>
       ELSE BeginNextRound
  /\ StartThinking

-----------------------------------------------------------------------------
(* Votes, time                                                             *)

\* What any accepted action does besides its own effect: settle, advance.
Advance(S) ==
  /\ Settle(S)
  /\ IF phase = "prior_prediction" THEN AdvancePrior
     ELSE UNCHANGED <<phase, current_player>> /\ StopClocks(S)

Vote(s, yes) ==
  /\ EarlyVotes \/ phase = "ended"
  /\ LET votes == [restart_yes EXCEPT ![s] = yes] IN
     IF phase = "ended" /\ \A t \in Seats : votes[t]
       THEN /\ matches < MaxMatches /\ matches' = matches + 1
            /\ \E d \in Deals : Dealt(d)
            /\ phase' = "prior_prediction"
            /\ UNCHANGED <<joined, posterior_draft, score, time_b>>
            /\ StartThinking
       ELSE /\ restart_yes' = votes
            /\ UNCHANGED <<round, start_player, joined, cardVars, predictVars, posterior,
                           posterior_draft, table, score, matches>>
            /\ Advance({s})

\* A uid without a seat: the vote is accepted and not recorded.
GuestVote ==
  /\ EarlyVotes /\ Guests # {}
  /\ UNCHANGED <<round, start_player, joined, cardVars, predictVars, posterior,
                 posterior_draft, table, score, restart_yes, matches>>
  /\ Advance({})

\* Mutant: only the player whose turn it is can be late.
LateInTurn ==
  {s \in Seats : OutOfTime(s) /\ s = current_player /\
     CASE phase = "prior_prediction" -> ~has_predicted[s]
       [] phase = "posterior_prediction" -> s = start_player
       [] OTHER -> FALSE}

\* tick(): whoever the phase waits for and has no time left is acted for.
Late ==
  {s \in Seats : OutOfTime(s) /\
     CASE phase = "prior_prediction" -> ~has_predicted[s]
       [] phase = "play" -> committed_card[s] = <<>>
       [] phase = "posterior_prediction" -> s = start_player
       [] OTHER -> FALSE}

Tick ==
  /\ Late # {}
  /\ Predict(Late, None) \/ PlayCard(Late, 0) \/ PosteriorPredict(<<>>)

Pass ==
  /\ \E s \in Seats : thinking[s] \in 0..(Refresh + Reserve - 1)
  /\ thinking' = [s \in Seats |->
                    IF thinking[s] \in 0..(Refresh + Reserve - 1) THEN thinking[s] + 1 ELSE thinking[s]]
  /\ UNCHANGED <<flowVars, current_player, joined, cardVars, predictVars, posterior,
                 posterior_draft, table, score, restart_yes, time_b, matches>>

-----------------------------------------------------------------------------

Next ==
  \/ \E u \in Seats \cup Guests : Login(u)
  \/ \E s \in Seats, raw \in RawGuesses : Predict({s}, Guess(raw))
  \/ \E s \in Seats, raw \in RawIndices : PlayCard({s}, raw % 256)
  \/ \E list \in RankLists : PosteriorPredict(list)
  \/ \E d \in Drafts : DraftPosterior(d)
  \/ \E s \in Seats, yes \in BOOLEAN : Vote(s, yes)
  \/ GuestVote
  \/ Tick
  \/ Pass

Spec == Init /\ [][Next]_vars

\* The tick is an interval task of the SDK, and time passes.
FairSpec == Spec /\ WF_vars(Pass) /\ WF_vars(Tick)

-----------------------------------------------------------------------------
(* Properties                                                              *)

TypeOK ==
  /\ phase \in Phases /\ round \in 0..Rounds /\ start_player \in Seats
  /\ current_player \in Seats \cup {None}
  /\ joined \subseteq Seats \cup Guests
  /\ hand \in [Seats -> Hand] /\ committed_card \in [Seats -> Hand]
  /\ played_history \in [Seats -> Hand]
  /\ prediction \in [Seats -> (1..N) \cup {None}] /\ has_predicted \in [Seats -> BOOLEAN]
  /\ Len(posterior) <= 1
  /\ score \in [Seats -> Int] /\ restart_yes \in [Seats -> BOOLEAN]
  /\ time_b \in [Seats -> 0..Reserve]
  /\ thinking \in [Seats -> Idle..(Refresh + Reserve)]
  /\ matches \in 1..MaxMatches

(* Every card of the deal is in one place: the hand, face down, or the     *)
(* history, which grows by one card a round (reveal_plays, deal).          *)
CardsConserved ==
  /\ \E d \in Deals : \A s \in Seats :
       ToSet(hand[s] \o committed_card[s] \o played_history[s]) = ToSet(d[s])
  /\ \A s \in Seats :
       Len(hand[s]) + Len(committed_card[s]) + Len(played_history[s]) = HandSize
  /\ \A s \in Seats : Len(played_history[s]) = round

(* The phase always waits for somebody who can still act: next_unacted and *)
(* advance_phase leave no match stuck between two phases.                  *)
SomebodyIsCalled ==
  /\ phase = "prior_prediction" => current_player \in Seats /\ ~has_predicted[current_player]
  /\ phase = "play" => \E s \in Seats : committed_card[s] = <<>> /\ hand[s] # <<>>
  /\ phase = "posterior_prediction" => posterior = <<>>

(* The clocks that run are those of the players the phase waits for        *)
(* (05-timing.md:61-68, the tests of state.rs).                            *)
Thinker(s) ==
  CASE phase = "prior_prediction" -> s = current_player
    [] phase = "play" -> committed_card[s] = <<>>
    [] phase = "posterior_prediction" -> s = start_player
    [] OTHER -> FALSE
ThinkersMatchPhase == \A s \in Seats : thinking[s] # Idle <=> Thinker(s)

(* Nobody's time runs while the phase waits for others, and in the prior   *)
(* phase, whose actions all restart the clocks, the called player's does.  *)
OnlyThinkersPay ==
  /\ \A s \in Seats : thinking[s] # Idle => Thinker(s)
  /\ phase = "prior_prediction" => thinking[current_player] # Idle

(* A draft belongs to the round that made it (begin_next_round).  Only a   *)
(* new match may still show the last draft of the match before.            *)
DraftOfThisRound ==
  round > 0 /\ phase \in {"prior_prediction", "play"} => posterior_draft = <<>>

(* What a player has submitted stays until the round is over, and a match  *)
(* is given up only for one that everybody voted for at the end.           *)
KeepsChoices ==
  /\ round' = round /\ phase # "ended" =>
       \A s \in Seats :
         /\ has_predicted[s] => has_predicted'[s] /\ prediction'[s] = prediction[s]
         /\ committed_card[s] # <<>> => committed_card'[s] = committed_card[s]
  /\ round' < round => phase = "ended"
ChoicesAreFinal == [][KeepsChoices]_vars

(* Pool B is spent by thinking too long and by nothing else: it never      *)
(* grows, not by an action and not by a new match, and a player whose      *)
(* clock stands keeps it.                                                  *)
SpendsReserve ==
  \A s \in Seats :
    /\ time_b'[s] <= time_b[s]
    /\ time_b'[s] # time_b[s] => thinking[s] > Refresh
ReserveOnlySpent == [][SpendsReserve]_vars

EarlyVote == \E s \in Seats, yes \in BOOLEAN : phase # "ended" /\ Vote(s, yes)

(* A match that has begun ends although nobody acts, because the tick acts *)
(* for everyone whose time is up: unless votes keep coming before the end  *)
(* of the match, or one of them has stopped a clock for good.              *)
MatchEnds ==
  <>[][~EarlyVote /\ ~GuestVote]_vars /\ []<>ThinkersMatchPhase
    => (phase # "waiting_all" ~> phase = "ended")

-----------------------------------------------------------------------------
(* The abstract match                                                      *)

\* Acted(s) for the phase the game is in.
ActedSeats ==
  CASE phase = "prior_prediction" -> {s \in Seats : has_predicted[s]}
    [] phase = "play" -> {s \in Seats : committed_card[s] # <<>>}
    [] OTHER -> {}

(* The game plays by the rounds: TypRounds, with the seats that have acted *)
(* and the cards gone from the hands read off the detailed state.          *)
Match == INSTANCE TypRounds WITH
           stage <- phase, leader <- start_player, acted <- ActedSeats,
           spent <- [s \in Seats |-> HandSize - Len(hand[s])]

MatchSpec == Match!RoundsSpec
SpentInStep == Match!SpentInStep
=============================================================================
