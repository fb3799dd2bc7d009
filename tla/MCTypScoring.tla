---------------------------- MODULE MCTypScoring ----------------------------
(***************************************************************************)
(* TLC instance for one round at a table of five, the size the game is     *)
(* played at: every way to lay five of the cards of Deck, the submissions  *)
(* of Guesses and Lists, and the scores of finish_round.                   *)
(***************************************************************************)
EXTENDS TypScoring, FiniteSetsExt

\* The cards that can be on the table: pairs of A and K, a plain pair, a low spade.
Deck == {[rank |-> RankA, suit |-> "heart"], [rank |-> RankA, suit |-> "spade"],
         [rank |-> RankK, suit |-> "diamond"], [rank |-> RankK, suit |-> "spade"],
         [rank |-> 11, suit |-> "club"], [rank |-> 11, suit |-> "diamond"],
         [rank |-> 1, suit |-> "spade"]}
ASSUME DeckAssumption == Deck \subseteq CardSet

Seats == 0..4
First == 2  \* the seat that makes the posterior prediction

Laid == {f \in [Seats -> Deck] : \A s, t \in Seats : f[s] = f[t] => s = t}

Lists == {<<>>, <<0, 1, 2, 3, 4>>, <<4, 0, 3, 1, 2>>, <<0, 1, 2, 3, 3>>, <<0, 1, 2, 3>>}
Guesses == {[s \in Seats |-> None], [s \in Seats |-> Guess(257)], [s \in Seats |-> s + 1]}

VARIABLES table, list, guess, delta
scoringVars == <<table, list, guess, delta>>

NoDelta == [s \in Seats |-> 0]

ScoringInit ==
  /\ table \in Laid
  /\ list = <<>> /\ guess = [s \in Seats |-> None] /\ delta = NoDelta

Submit ==
  /\ delta = NoDelta
  /\ \E l \in Lists : FullRanking(l, Seats) /\ list' = l
  /\ \E g \in Guesses : (\A s \in Seats : GuessInRange(g[s], 5)) /\ guess' = g
  /\ UNCHANGED <<table, delta>>

Score ==
  /\ delta = NoDelta
  /\ delta' = RoundDelta(table, guess, First, list)
  /\ UNCHANGED <<table, list, guess>>

ScoringSpec == ScoringInit /\ [][Submit \/ Score]_scoringVars

(* rules.rs sorts with cmp_table, which is right only if the comparison    *)
(* orders the cards of this table totally: every place is taken once.      *)
PlacesAreTaken == {Place(s, table) : s \in Seats} = 1..5

\* The strength of a card as one number: the reference for cmp_table.
Strength(c) ==
  LET rank == IF Trumps(CardsOf(table)) /\ c.rank = RankA THEN RankK + 1 ELSE c.rank
  IN  10 * rank + SuitValue[c.suit]

(* The ranking of a round lists stronger cards before weaker ones, with A  *)
(* and K swapped to the top when both are there (card.rs, 01-rules.md §3). *)
BestFirst ==
  \A j, k \in 1..5 :
    j < k => Strength(table[Ranking(table)[j]]) > Strength(table[Ranking(table)[k]])

(* A posterior prediction that was accepted never trips the assertion of   *)
(* finish_round (rules.rs:316): four right out of five cannot happen.      *)
AccuracyNeverFour == AssertedAccurate(list, table)

(* Nobody does better than by predicting the truth, and the first player   *)
(* who predicts the whole ranking gains more than with any other list.     *)
TruthPaysBest ==
  delta # NoDelta =>
    LET truth == RoundDelta(table, [s \in Seats |-> Place(s, table)], First, Ranking(table))
    IN  \A s \in Seats :
          /\ delta[s] <= truth[s]
          /\ delta[s] = truth[s] => /\ guess[s] = Place(s, table)
                                    /\ s = First => list = Ranking(table)
=============================================================================
