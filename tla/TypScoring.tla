----------------------------- MODULE TypScoring -----------------------------
(***************************************************************************)
(* The cards of "Take Your Position" and what a revealed table is worth:   *)
(* Card::cmp_table of card.rs, the checks of apply_posterior on a ranking, *)
(* and finish_round of rules.rs.  A table is a function from seats to the  *)
(* cards they played; a ranking lists the seats best first.                *)
(***************************************************************************)
EXTENDS Integers, FiniteSets, Sequences

None == -1  \* no prediction

-----------------------------------------------------------------------------
(* Cards and their order                                                   *)

SuitValue == [spade |-> 4, heart |-> 3, club |-> 2, diamond |-> 1]
Suits == DOMAIN SuitValue

RankA == 0
RankK == 12
CardSet == [rank : RankA..RankK, suit : Suits]

\* deal() makes three piles: spades, and of the other suits A..7 and 8..K.
Pile(card) ==
  IF card.suit = "spade" THEN "spade" ELSE IF card.rank <= 6 THEN "small" ELSE "big"

\* has_a && has_k: A and K are trumps when both are on the table.
Trumps(cards) == {RankA, RankK} \subseteq {c.rank : c \in cards}

\* Mutant of Beats: cards of the same rank tie.
BeatsRankOnly(c, d, cards) ==
  IF Trumps(cards) /\ c.rank # d.rank /\ {c.rank, d.rank} \cap {RankA, RankK} # {}
    THEN c.rank = RankA \/ (c.rank = RankK /\ d.rank # RankA)
    ELSE c.rank > d.rank

\* Mutant of Beats: A stays low.
BeatsNoTrumps(c, d, cards) ==
  c.rank > d.rank \/ (c.rank = d.rank /\ SuitValue[c.suit] > SuitValue[d.suit])

\* cmp_table(c, d) = Greater
Beats(c, d, cards) ==
  IF Trumps(cards) /\ c.rank # d.rank /\ {c.rank, d.rank} \cap {RankA, RankK} # {}
    THEN c.rank = RankA \/ (c.rank = RankK /\ d.rank # RankA)
    ELSE \/ c.rank > d.rank
         \/ c.rank = d.rank /\ SuitValue[c.suit] > SuitValue[d.suit]

CardsOf(table) == {table[s] : s \in DOMAIN table}

\* The sort of finish_round, as the 1-based place it gives a seat.
Place(s, table) ==
  1 + Cardinality({t \in DOMAIN table : Beats(table[t], table[s], CardsOf(table))})

Ranking(table) ==
  [k \in 1..Cardinality(DOMAIN table) |-> CHOOSE s \in DOMAIN table : Place(s, table) = k]

-----------------------------------------------------------------------------
(* Predictions                                                             *)

\* apply_predict: the number is cut to a u8 before its range is checked.
Guess(raw) == IF raw = None THEN None ELSE raw % 256
GuessInRange(guess, n) == guess = None \/ guess \in 1..n

\* Mutant: the scan for duplicates is missing.
FullRankingRepeats(list, seats) ==
  \/ list = <<>>
  \/ /\ Len(list) = Cardinality(seats)
     /\ {list[k] : k \in DOMAIN list} \subseteq seats

\* apply_posterior: empty, or every seat once.
FullRanking(list, seats) ==
  \/ list = <<>>
  \/ /\ Len(list) = Cardinality(seats)
     /\ {list[k] : k \in DOMAIN list} \subseteq seats
     /\ \A j, k \in DOMAIN list : list[j] = list[k] => j = k

-----------------------------------------------------------------------------
(* Scores                                                                  *)

PlacementScore(place) == IF place <= 5 THEN <<2, 1, 0, -1, -2>>[place] ELSE -2

\* Mutant: the guess is compared with the index of the place.
PriorScoreIndex(guess, place) ==
  IF guess = None THEN 0 ELSE IF guess = place - 1 THEN 2 ELSE -2

PriorScore(guess, place) ==
  IF guess = None THEN 0 ELSE IF guess = place THEN 2 ELSE -2

Accurate(list, table) ==
  Cardinality({k \in DOMAIN list \cap 1..Cardinality(DOMAIN table) : list[k] = Ranking(table)[k]})

PosteriorPoints(accurate) ==
  CASE accurate = 5 -> 2
    [] accurate = 3 -> 1
    [] accurate = 2 -> 0
    [] accurate = 1 -> -1
    [] OTHER -> -2

PosteriorScore(list, table) == IF list = <<>> THEN 0 ELSE PosteriorPoints(Accurate(list, table))

\* finish_round asserts this of a prediction that is not empty; a failure
\* would abort the handler in the middle of the step.
AssertedAccurate(list, table) == list # <<>> => Accurate(list, table) \in {5, 3, 2, 1, 0}

\* score_delta of one round, for every seat.
RoundDelta(table, guess, first, list) ==
  [s \in DOMAIN table |->
     PlacementScore(Place(s, table)) + PriorScore(guess[s], Place(s, table))
     + (IF s = first THEN PosteriorScore(list, table) ELSE 0)]
=============================================================================
