----------------------------- MODULE MCTypGame ------------------------------
(***************************************************************************)
(* TLC instance of TypGame: two seats, a match of two rounds, hands of a   *)
(* big card and a spade.                                                   *)
(***************************************************************************)
EXTENDS TypGame

MCHandPattern == <<"big", "spade">>

Card(r, s) == [rank |-> r, suit |-> s]

MCDeals ==
  {<<<<Card(12, "heart"), Card(1, "spade")>>,
     <<Card(11, "club"), Card(0, "spade")>>>>}

MCDealsBySeat == {[s \in 0..(N - 1) |-> d[s + 1]] : d \in MCDeals}

MCRawGuesses == {0, 257}
MCRankLists == {<<1, 0>>, <<1, 1>>}
MCDrafts == {[s \in {1} |-> 1]}
=============================================================================
