-------------------------- MODULE TypScoringProofs --------------------------
(***************************************************************************)
(* Proofs about the order of the cards and the ranking of a table, for any *)
(* number of seats and any cards on it, and about what the predictions of  *)
(* a table of five are worth.                                              *)
(***************************************************************************)
EXTENDS MCTypScoring, FiniteSetTheorems, SequenceTheorems, TLAPS

(* SuitValue orders the four suits without ties. *)
LEMMA SuitValues ==
  /\ \A a \in Suits : SuitValue[a] \in 1..4
  /\ \A a, b \in Suits : SuitValue[a] = SuitValue[b] => a = b
  BY DEF SuitValue, Suits

(* cmp_table is a strict total order on any set of cards, with and without *)
(* A and K as trumps: what sort_by needs (card.rs).                        *)
LEMMA BeatsIsStrictTotalOrder ==
  ASSUME NEW cards, NEW c \in CardSet, NEW d \in CardSet, NEW e \in CardSet
  PROVE  /\ ~Beats(c, c, cards)
         /\ Beats(c, d, cards) => ~Beats(d, c, cards)
         /\ Beats(c, d, cards) /\ Beats(d, e, cards) => Beats(c, e, cards)
         /\ c # d => Beats(c, d, cards) \/ Beats(d, c, cards)
  <1> DEFINE V(x) == SuitValue[x.suit]
  <1>1. /\ c.rank \in 0..12 /\ d.rank \in 0..12 /\ e.rank \in 0..12
        /\ c.suit \in Suits /\ d.suit \in Suits /\ e.suit \in Suits
    BY DEF CardSet, RankA, RankK
  <1>2. V(c) \in 1..4 /\ V(d) \in 1..4 /\ V(e) \in 1..4
    BY <1>1, SuitValues
  <1>3. c # d => c.rank # d.rank \/ V(c) # V(d)
    BY <1>1, SuitValues DEF CardSet
  <1> HIDE DEF V
  <1>4. \A x, y : Beats(x, y, cards) <=>
          IF Trumps(cards) /\ x.rank # y.rank /\ {x.rank, y.rank} \cap {0, 12} # {}
            THEN x.rank = 0 \/ (x.rank = 12 /\ y.rank # 0)
            ELSE x.rank > y.rank \/ (x.rank = y.rank /\ V(x) > V(y))
    BY DEF Beats, RankA, RankK, V
  <1> QED
    BY <1>1, <1>2, <1>3, <1>4

-----------------------------------------------------------------------------
(* Places                                                                  *)

\* The tables of finish_round: no two seats laid the same card.
TablesOf(S) ==
  {f \in [S -> CardSet] : \A s, t \in S : f[s] = f[t] => s = t}

\* The seats whose card is better than that of s.
Above(s, f) == {t \in DOMAIN f : Beats(f[t], f[s], CardsOf(f))}

(* A better card has a smaller place, and every place is one of 1..n.      *)
LEMMA PlaceOrder ==
  ASSUME NEW S, IsFiniteSet(S), NEW f \in TablesOf(S), NEW s \in S
  PROVE  /\ Place(s, f) \in 1..Cardinality(S)
         /\ \A t \in S : Beats(f[s], f[t], CardsOf(f)) => Place(s, f) < Place(t, f)
  <1>1. /\ DOMAIN f = S /\ \A t \in S : f[t] \in CardSet
        /\ \A t \in S : Above(t, f) \subseteq S /\ t \notin Above(t, f)
    BY BeatsIsStrictTotalOrder DEF TablesOf, Above
  <1>2. \A t \in S : Place(t, f) = 1 + Cardinality(Above(t, f))
    BY DEF Place, Above
  <1>3. \A t \in S : IsFiniteSet(Above(t, f)) /\ Cardinality(Above(t, f)) \in Nat
    BY <1>1, FS_Subset, FS_CardinalityType
  <1>4. Cardinality(S) \in Nat
    BY FS_CardinalityType
  <1>5. Place(s, f) \in 1..Cardinality(S)
    <2>1. Above(s, f) # S
      BY <1>1
    <2>2. Cardinality(Above(s, f)) <= Cardinality(S) /\ Cardinality(Above(s, f)) # Cardinality(S)
      BY <1>1, <2>1, FS_Subset
    <2> QED
      BY <1>2, <1>3, <1>4, <2>2
  <1>6. ASSUME NEW t \in S, Beats(f[s], f[t], CardsOf(f))
        PROVE  Place(s, f) < Place(t, f)
    <2>1. Above(s, f) \subseteq Above(t, f)
      BY <1>1, <1>6, BeatsIsStrictTotalOrder DEF Above
    <2>2. s \in Above(t, f) /\ s \notin Above(s, f)
      BY <1>1, <1>6 DEF Above
    <2>3. /\ Cardinality(Above(s, f)) <= Cardinality(Above(t, f))
          /\ Cardinality(Above(s, f)) # Cardinality(Above(t, f))
      BY <1>3, <2>1, <2>2, FS_Subset
    <2> QED
      BY <1>2, <1>3, <2>3
  <1> QED
    BY <1>5, <1>6

(* The sort leaves no ties and no gaps: the places are 1..n, each taken by *)
(* one seat (finish_round, rules.rs).                                      *)
THEOREM PlacesOfTable ==
  ASSUME NEW S, IsFiniteSet(S), NEW f \in TablesOf(S)
  PROVE  /\ \A s, t \in S : Place(s, f) = Place(t, f) => s = t
         /\ {Place(s, f) : s \in S} = 1..Cardinality(S)
  <1> DEFINE n == Cardinality(S)
             g == [s \in S |-> Place(s, f)]
  <1>1. n \in Nat
    BY FS_CardinalityType
  <1>2. \A s \in S : Place(s, f) \in 1..n /\ Place(s, f) \in Nat
    BY PlaceOrder, <1>1
  <1>3. ASSUME NEW s \in S, NEW t \in S, Place(s, f) = Place(t, f)
        PROVE  s = t
    <2>1. ~Beats(f[s], f[t], CardsOf(f)) /\ ~Beats(f[t], f[s], CardsOf(f))
      BY PlaceOrder, <1>2, <1>3
    <2>2. f[s] = f[t]
      BY <2>1, BeatsIsStrictTotalOrder DEF TablesOf
    <2> QED
      BY <2>2 DEF TablesOf
  <1>4. IsFiniteSet(1..n) /\ Cardinality(1..n) = n
    BY <1>1, FS_Interval
  <1>5. g \in Injection(S, 1..n)
    BY <1>2, <1>3 DEF Injection, IsInjective
  <1>6. g \in Surjection(S, 1..n)
    BY <1>4, <1>5, FS_Injection
  <1>7. {Place(s, f) : s \in S} = 1..n
    BY <1>2, <1>6 DEF Surjection
  <1> QED
    BY <1>3, <1>7

(* Ranking lists every seat once, best first.                              *)
LEMMA RankingOfTable ==
  ASSUME NEW S, IsFiniteSet(S), NEW f \in TablesOf(S)
  PROVE  /\ Ranking(f) \in [1..Cardinality(S) -> S]
         /\ \A k \in 1..Cardinality(S) : Place(Ranking(f)[k], f) = k
         /\ \A s \in S : \E k \in 1..Cardinality(S) : Ranking(f)[k] = s
  <1>1. DOMAIN f = S
    BY DEF TablesOf
  <1>2. Ranking(f) = [k \in 1..Cardinality(S) |-> CHOOSE s \in S : Place(s, f) = k]
    BY <1>1 DEF Ranking
  <1>3. \A k \in 1..Cardinality(S) : \E s \in S : Place(s, f) = k
    BY PlacesOfTable
  <1>4. \A k \in 1..Cardinality(S) : Ranking(f)[k] \in S /\ Place(Ranking(f)[k], f) = k
    BY <1>2, <1>3
  <1>5. ASSUME NEW s \in S
        PROVE  \E k \in 1..Cardinality(S) : Ranking(f)[k] = s
    BY <1>4, PlacesOfTable, PlaceOrder
  <1> QED
    BY <1>2, <1>4, <1>5

(* A card that is earlier in the ranking beats those after it.             *)
LEMMA RankingIsSorted ==
  ASSUME NEW S, IsFiniteSet(S), NEW f \in TablesOf(S),
         NEW j \in 1..Cardinality(S), NEW k \in 1..Cardinality(S), j < k
  PROVE  Beats(f[Ranking(f)[j]], f[Ranking(f)[k]], CardsOf(f))
  <1> DEFINE s == Ranking(f)[j]
             t == Ranking(f)[k]
  <1>1. s \in S /\ t \in S /\ Place(s, f) = j /\ Place(t, f) = k
    <2>1. Ranking(f) \in [1..Cardinality(S) -> S]
      BY RankingOfTable
    <2>2. \A i \in 1..Cardinality(S) : Place(Ranking(f)[i], f) = i
      BY RankingOfTable
    <2> QED
      BY <2>1, <2>2
  <1>2. f[s] # f[t]
    BY <1>1 DEF TablesOf
  <1>3. ~Beats(f[t], f[s], CardsOf(f))
    <2>1. Beats(f[t], f[s], CardsOf(f)) => Place(t, f) < Place(s, f)
      BY <1>1, PlaceOrder
    <2> QED
      BY <1>1, <2>1, FS_CardinalityType
  <1> QED
    BY <1>1, <1>2, <1>3, BeatsIsStrictTotalOrder DEF TablesOf

-----------------------------------------------------------------------------
(* Predictions                                                             *)

(* A complete ranking that is right about all seats but one would have the *)
(* last one right as well: with five seats, four cannot occur.             *)
THEOREM NeverAllButOne ==
  ASSUME NEW S, IsFiniteSet(S), NEW f \in TablesOf(S),
         NEW l \in Seq(S), l # <<>>, FullRanking(l, S)
  PROVE  Accurate(l, f) \in 0..Cardinality(S) /\ Accurate(l, f) # Cardinality(S) - 1
  <1> DEFINE n == Cardinality(S)
             R == Ranking(f)
             Right == {k \in 1..n : l[k] = R[k]}
  <1>1. n \in Nat /\ IsFiniteSet(1..n) /\ Cardinality(1..n) = n
    BY FS_CardinalityType, FS_Interval
  <1>2. /\ DOMAIN l = 1..n
        /\ \A j, k \in 1..n : l[j] = l[k] => j = k
        /\ \A k \in 1..n : l[k] \in S
    BY DEF FullRanking
  <1>3. Accurate(l, f) = Cardinality(Right)
    <2>1. DOMAIN f = S /\ DOMAIN l \cap 1..n = 1..n
      BY <1>2 DEF TablesOf
    <2> QED
      BY <2>1 DEF Accurate
  <1>4. IsFiniteSet(Right) /\ Cardinality(Right) \in Nat /\ Cardinality(Right) <= n
    BY <1>1, FS_Subset, FS_CardinalityType
  <1>5. ASSUME Cardinality(Right) = n - 1
        PROVE  FALSE
    <2> HIDE DEF n, R, Right
    <2>1. /\ IsFiniteSet(1..n \ Right)
          /\ Cardinality(1..n \ Right) = n - Cardinality(1..n \cap Right)
      BY <1>1, FS_Difference
    <2>2. 1..n \cap Right = Right
      BY DEF Right
    <2>3. Cardinality(1..n \ Right) = 1
      <3>1. Cardinality(1..n \ Right) = n - (n - 1)
        BY <1>5, <2>1, <2>2, Zenon
      <3>2. n - (n - 1) = 1
        BY <1>1
      <3> QED
        BY <3>1, <3>2, Zenon
    <2>4. PICK m : 1..n \ Right = {m}
      BY <2>1, <2>3, FS_Singleton
    <2>5. m \in 1..n /\ l[m] \in S /\ l[m] # R[m]
      BY <2>4, <1>2 DEF Right
    <2>6. PICK k \in 1..n : R[k] = l[m]
      BY <2>5, RankingOfTable DEF n, R
    <2>7. k \in Right
      BY <2>4, <2>5, <2>6
    <2> QED
      BY <1>2, <2>5, <2>6, <2>7 DEF Right
  <1> QED
    BY <1>1, <1>3, <1>4, <1>5

-----------------------------------------------------------------------------
(* What telling the truth is worth                                         *)

LEMMA PriorPoints ==
  ASSUME NEW g, NEW p \in Nat \ {0}
  PROVE  PriorScore(g, p) \in {2, 0, -2} /\ (PriorScore(g, p) = 2 <=> g = p)
  BY DEF PriorScore, None

LEMMA PointsByAccuracy ==
  /\ PosteriorPoints(5) = 2
  /\ \A a \in Nat : a # 5 => PosteriorPoints(a) \in {1, 0, -1, -2}
  BY DEF PosteriorPoints

LEMMA FiveLong ==
  ASSUME NEW n \in Nat, 1..n = 1..5
  PROVE  n = 5
  <1>1. n >= 5
    <2>1. 5 \in 1..5
      OBVIOUS
    <2>2. 5 \in 1..n
      BY <2>1, Zenon
    <2> QED
      BY <2>2
  <1>2. n \in 1..5
    <2>1. n \in 1..n
      BY <1>1
    <2> QED
      BY <2>1, Zenon
  <1> QED
    BY <1>1, <1>2

(* Only the ranking itself is right about all five seats.                  *)
LEMMA AllRight ==
  ASSUME NEW S, IsFiniteSet(S), Cardinality(S) = 5, NEW f \in TablesOf(S),
         NEW l \in Seq(S), l # <<>>, FullRanking(l, S)
  PROVE  Accurate(l, f) \in Nat /\ (Accurate(l, f) = 5 <=> l = Ranking(f))
  <1> DEFINE R == Ranking(f)
             Right == {k \in 1..5 : l[k] = R[k]}
  <1>1. IsFiniteSet(1..5) /\ Cardinality(1..5) = 5
    <2>1. IsFiniteSet(1..5) /\ Cardinality(1..5) = IF 1 > 5 THEN 0 ELSE 5 - 1 + 1
      BY FS_Interval, 1 \in Int, 5 \in Int, Zenon
    <2> QED
      BY <2>1
  <1>2. DOMAIN l = 1..5 /\ l = [k \in 1..5 |-> l[k]]
    BY DEF FullRanking
  <1>3. DOMAIN R = 1..5 /\ R = [k \in 1..5 |-> R[k]]
    BY RankingOfTable
  <1>4. Accurate(l, f) = Cardinality(Right)
    <2>1. DOMAIN f = S /\ DOMAIN l \cap 1..5 = 1..5
      BY <1>2 DEF TablesOf
    <2> QED
      BY <2>1 DEF Accurate
  <1> HIDE DEF R
  <1>5. Cardinality(Right) \in Nat /\ (Cardinality(Right) = 5 => Right = 1..5)
    BY <1>1, FS_Subset, FS_CardinalityType
  <1>6. Right = 1..5 <=> l = R
    BY <1>2, <1>3
  <1> QED
    BY <1>1, <1>4, <1>5, <1>6 DEF R

LEMMA PosteriorTruth ==
  ASSUME NEW S, IsFiniteSet(S), Cardinality(S) = 5, NEW f \in TablesOf(S),
         NEW l \in Seq(S), FullRanking(l, S)
  PROVE  /\ PosteriorScore(Ranking(f), f) = 2
         /\ PosteriorScore(l, f) \in {2, 1, 0, -1, -2}
         /\ PosteriorScore(l, f) = 2 => l = Ranking(f)
  <1>1. PosteriorScore(Ranking(f), f) = 2
    <2> DEFINE R == Ranking(f)
    <2>1. /\ R \in [1..5 -> S]
          /\ \A k \in 1..5 : Place(R[k], f) = k
      BY RankingOfTable
    <2>2. R \in Seq(S) /\ R # <<>> /\ Len(R) = 5
      <3> HIDE DEF R
      <3>1. R \in [1..5 -> S] /\ 5 \in Nat
        BY <2>1
      <3>2. R \in Seq(S)
        BY <3>1, SeqDef, Zenon
      <3>3. 1..Len(R) = 1..5 /\ Len(R) \in Nat
        BY <3>1, <3>2, LenProperties
      <3>4. Len(R) = 5
        BY <3>3, FiveLong
      <3> QED
        BY <3>2, <3>4
    <2>3. FullRanking(R, S)
      BY <2>1, <2>2 DEF FullRanking
    <2> QED
      BY <2>2, <2>3, AllRight, PointsByAccuracy DEF PosteriorScore
  <1>2. CASE l = <<>>
    BY <1>1, <1>2 DEF PosteriorScore
  <1>3. CASE l # <<>>
    <2>1. PosteriorScore(l, f) = PosteriorPoints(Accurate(l, f))
      BY <1>3 DEF PosteriorScore
    <2> QED
      BY <1>1, <1>3, <2>1, AllRight, PointsByAccuracy
  <1> QED
    BY <1>2, <1>3

\* What the seats earn when all submissions are true.
Truth(f, first) == RoundDelta(f, [t \in DOMAIN f |-> Place(t, f)], first, Ranking(f))

(* No submission earns more than the true places and the true ranking, and *)
(* only they earn as much, on every table of five and for every accepted   *)
(* list: the scores of rules.rs reward nothing but being right.            *)
THEOREM TruthIsOptimal ==
  ASSUME NEW S, IsFiniteSet(S), Cardinality(S) = 5, NEW f \in TablesOf(S),
         NEW l \in Seq(S), FullRanking(l, S), NEW g, NEW first, NEW s \in S
  PROVE  /\ RoundDelta(f, g, first, l)[s] <= Truth(f, first)[s]
         /\ RoundDelta(f, g, first, l)[s] = Truth(f, first)[s] =>
              g[s] = Place(s, f) /\ (s = first => l = Ranking(f))
  <1> DEFINE p == Place(s, f)
             place == PlacementScore(p)
             prior == PriorScore(g[s], p)
             post == IF s = first THEN PosteriorScore(l, f) ELSE 0
             best == IF s = first THEN 2 ELSE 0
             got == RoundDelta(f, g, first, l)[s]
             truth == Truth(f, first)[s]
  <1>1. DOMAIN f = S
    BY DEF TablesOf
  <1>2. p \in 1..5
    BY PlaceOrder
  <1>3. place \in Int
    BY <1>2 DEF PlacementScore
  <1>4. prior \in {2, 0, -2} /\ (prior = 2 <=> g[s] = p) /\ PriorScore(p, p) = 2
    BY <1>2, PriorPoints
  <1>5. /\ PosteriorScore(Ranking(f), f) = 2
        /\ PosteriorScore(l, f) \in {2, 1, 0, -1, -2}
        /\ PosteriorScore(l, f) = 2 => l = Ranking(f)
    BY PosteriorTruth
  <1>6. got = place + prior + post
    BY <1>1 DEF RoundDelta
  <1>7. truth = place + 2 + best
    BY <1>1, <1>4, <1>5 DEF RoundDelta, Truth
  <1> HIDE DEF p, place, prior, got, truth
  <1>8. post \in {2, 1, 0, -1, -2} /\ post <= best /\ (post = best /\ s = first => l = Ranking(f))
    BY <1>5
  <1> HIDE DEF post
  <1>9. got <= truth /\ (got = truth => prior = 2 /\ post = best)
    BY <1>3, <1>4, <1>6, <1>7, <1>8
  <1> QED
    BY <1>4, <1>8, <1>9 DEF got, truth, p

-----------------------------------------------------------------------------
(* The instance                                                            *)

ScoringInv ==
  /\ table \in Laid
  /\ list \in Lists /\ FullRanking(list, Seats)

LEMMA FiveSeats ==
  /\ IsFiniteSet(Seats) /\ Cardinality(Seats) = 5
  /\ Laid \subseteq TablesOf(Seats)
  /\ \A l \in Lists : FullRanking(l, Seats) => l \in Seq(Seats)
  <1>1. IsFiniteSet(Seats) /\ Cardinality(Seats) = 5
    <2>1. IsFiniteSet(0..4) /\ Cardinality(0..4) = IF 0 > 4 THEN 0 ELSE 4 - 0 + 1
      BY FS_Interval, 0 \in Int, 4 \in Int, Zenon
    <2> QED
      BY <2>1 DEF Seats
  <1>2. Laid \subseteq TablesOf(Seats)
    BY DeckAssumption DEF Laid, TablesOf
  <1>3. /\ <<>> \in Seq(Seats)
        /\ <<0, 1, 2, 3, 4>> \in Seq(Seats) /\ <<4, 0, 3, 1, 2>> \in Seq(Seats)
        /\ <<0, 1, 2, 3, 3>> \in Seq(Seats) /\ <<0, 1, 2, 3>> \in Seq(Seats)
    BY DEF Seats
  <1> QED
    BY <1>1, <1>2, <1>3 DEF Lists

LEMMA ScoringInvHolds == ScoringSpec => []ScoringInv
  <1>1. ScoringInit => ScoringInv
    BY DEF ScoringInit, ScoringInv, FullRanking, Lists
  <1>2. ScoringInv /\ [Submit \/ Score]_scoringVars => ScoringInv'
    <2> SUFFICES ASSUME ScoringInv, [Submit \/ Score]_scoringVars PROVE ScoringInv'
      OBVIOUS
    <2>1. CASE Submit
      BY <2>1 DEF ScoringInv, Submit, FullRanking
    <2>2. CASE Score
      BY <2>2 DEF ScoringInv, Score, FullRanking
    <2>3. CASE UNCHANGED scoringVars
      BY <2>3 DEF ScoringInv, scoringVars, FullRanking
    <2> QED
      BY <2>1, <2>2, <2>3
  <1> QED
    BY <1>1, <1>2, PTL DEF ScoringSpec

(* Every place is taken once, on every table of five cards of the deck.    *)
THEOREM PlacesAlwaysTaken == ScoringSpec => []PlacesAreTaken
  <1>1. ASSUME ScoringInv PROVE PlacesAreTaken
    <2>1. table \in TablesOf(Seats)
      BY <1>1, FiveSeats DEF ScoringInv
    <2>2. {Place(s, table) : s \in Seats} = 1..Cardinality(Seats)
      BY <2>1, FiveSeats, PlacesOfTable
    <2> QED
      BY <2>2, FiveSeats DEF PlacesAreTaken
  <1> QED
    BY <1>1, ScoringInvHolds, PTL

(* The ranking is by strength on every table.                              *)
THEOREM RankingAlwaysBestFirst == ScoringSpec => []BestFirst
  <1>1. ASSUME ScoringInv PROVE BestFirst
    <2> SUFFICES ASSUME NEW j \in 1..5, NEW k \in 1..5, j < k
                 PROVE  Strength(table[Ranking(table)[j]]) > Strength(table[Ranking(table)[k]])
      BY DEF BestFirst
    <2> DEFINE c == table[Ranking(table)[j]]
               d == table[Ranking(table)[k]]
    <2>1. table \in TablesOf(Seats)
      BY <1>1, FiveSeats DEF ScoringInv
    <2>2. Beats(c, d, CardsOf(table))
      BY <2>1, FiveSeats, RankingIsSorted
    <2>3. c \in CardSet /\ d \in CardSet
      <3>1. Ranking(table) \in [1..5 -> Seats]
        BY <2>1, FiveSeats, RankingOfTable
      <3> QED
        BY <2>1, <3>1 DEF TablesOf
    <2> HIDE DEF c, d
    <2>4. SuitValue[c.suit] \in 1..4 /\ SuitValue[d.suit] \in 1..4
      BY <2>3, SuitValues DEF CardSet
    <2>5. Strength(c) > Strength(d)
      <3>1. c.rank \in 0..12 /\ d.rank \in 0..12
        BY <2>3 DEF CardSet, RankA, RankK
      <3>2. CASE Trumps(CardsOf(table))
        <4>1. \A x : Strength(x) = 10 * (IF x.rank = 0 THEN 13 ELSE x.rank) + SuitValue[x.suit]
          BY <3>2 DEF Strength, RankA, RankK
        <4>2. \/ c.rank = 0 /\ d.rank # 0
              \/ c.rank # 0 /\ d.rank # 0 /\ c.rank > d.rank
              \/ c.rank = d.rank /\ SuitValue[c.suit] > SuitValue[d.suit]
          <5>1. IF c.rank # d.rank /\ {c.rank, d.rank} \cap {0, 12} # {}
                  THEN c.rank = 0 \/ (c.rank = 12 /\ d.rank # 0)
                  ELSE c.rank > d.rank \/ (c.rank = d.rank /\ SuitValue[c.suit] > SuitValue[d.suit])
            BY <2>2, <3>2 DEF Beats, RankA, RankK
          <5>2. {c.rank, d.rank} \cap {0, 12} # {} <=>
                  c.rank = 0 \/ c.rank = 12 \/ d.rank = 0 \/ d.rank = 12
            BY Zenon
          <5>3. CASE c.rank = d.rank
            BY <5>1, <5>3, <3>1
          <5>4. CASE c.rank # d.rank
            BY <5>1, <5>2, <5>4, <3>1
          <5> QED
            BY <5>3, <5>4
        <4> QED
          BY <2>4, <3>1, <4>1, <4>2
      <3>3. CASE ~Trumps(CardsOf(table))
        <4>1. \A x : Strength(x) = 10 * x.rank + SuitValue[x.suit]
          BY <3>3 DEF Strength
        <4> QED
          BY <2>2, <2>4, <3>1, <3>3, <4>1 DEF Beats
      <3> QED
        BY <3>2, <3>3
    <2> QED
      BY <2>5 DEF c, d
  <1> QED
    BY <1>1, ScoringInvHolds, PTL

(* No accepted prediction trips the assertion of finish_round.             *)
THEOREM AssertionNeverFails == ScoringSpec => []AccuracyNeverFour
  <1>1. ASSUME ScoringInv PROVE AccuracyNeverFour
    <2> SUFFICES ASSUME list # <<>> PROVE Accurate(list, table) \in {5, 3, 2, 1, 0}
      BY DEF AccuracyNeverFour, AssertedAccurate
    <2>1. Accurate(list, table) \in 0..5 /\ Accurate(list, table) # 4
      <3>1. /\ Accurate(list, table) \in 0..Cardinality(Seats)
            /\ Accurate(list, table) # Cardinality(Seats) - 1
        BY <1>1, FiveSeats, NeverAllButOne DEF ScoringInv
      <3> QED
        BY <3>1, FiveSeats
    <2> QED
      BY <2>1
  <1> QED
    BY <1>1, ScoringInvHolds, PTL
\* A score that was handed out is the score of what was submitted.
LEMMA ScoreOfSubmission ==
  ScoringSpec => [](delta # NoDelta => delta = RoundDelta(table, guess, First, list))
  <1> DEFINE Scored == delta # NoDelta => delta = RoundDelta(table, guess, First, list)
  <1>1. ScoringInit => Scored
    BY DEF ScoringInit
  <1>2. Scored /\ [Submit \/ Score]_scoringVars => Scored'
    BY DEF Submit, Score, scoringVars
  <1> QED
    BY <1>1, <1>2, PTL DEF ScoringSpec

(* No submission is worth more than the truth.                             *)
THEOREM TruthAlwaysPaysBest == ScoringSpec => []TruthPaysBest
  <1> DEFINE Scored == delta # NoDelta => delta = RoundDelta(table, guess, First, list)
  <1>1. ASSUME ScoringInv, Scored PROVE TruthPaysBest
    <2> SUFFICES ASSUME delta # NoDelta, NEW s \in Seats
                 PROVE  LET truth == RoundDelta(table, [t \in Seats |-> Place(t, table)], First, Ranking(table))
                        IN  /\ delta[s] <= truth[s]
                            /\ delta[s] = truth[s] => /\ guess[s] = Place(s, table)
                                                      /\ s = First => list = Ranking(table)
      BY DEF TruthPaysBest
    <2>1. table \in TablesOf(Seats) /\ list \in Seq(Seats) /\ FullRanking(list, Seats)
      BY <1>1, FiveSeats DEF ScoringInv
    <2>2. delta = RoundDelta(table, guess, First, list)
      BY <1>1
    <2>3. IsFiniteSet(Seats) /\ Cardinality(Seats) = 5
      BY FiveSeats
    <2>4. /\ RoundDelta(table, guess, First, list)[s] <= Truth(table, First)[s]
          /\ RoundDelta(table, guess, First, list)[s] = Truth(table, First)[s] =>
               guess[s] = Place(s, table) /\ (s = First => list = Ranking(table))
      BY <2>1, <2>3, TruthIsOptimal
    <2>5. DOMAIN table = Seats
      BY <2>1 DEF TablesOf
    <2> QED
      BY <2>2, <2>4, <2>5 DEF Truth
  <1> QED
    BY <1>1, ScoringInvHolds, ScoreOfSubmission, PTL
=============================================================================
