SPECIFICATION FairSpec
CONSTANTS
  N = 2
  Rounds = 2
  HandPattern <- MCHandPattern
  Deals <- MCDealsBySeat
  Refresh = 1
  Reserve = 1
  Guests = {9}
  EarlyVotes = TRUE
  RawGuesses <- MCRawGuesses
  RawIndices = {257, 99}
  RankLists <- MCRankLists
  Drafts <- MCDrafts
  MaxMatches = 2
CHECK_DEADLOCK FALSE
INVARIANTS
  TypeOK
  CardsConserved
  SomebodyIsCalled
  OnlyThinkersPay
  DraftOfThisRound
  SpentInStep
PROPERTIES
  ChoicesAreFinal
  ReserveOnlySpent
  MatchSpec
  MatchEnds
