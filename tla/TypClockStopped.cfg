SPECIFICATION Spec
CONSTANTS
  N = 2
  Rounds = 2
  HandPattern <- MCHandPattern
  Deals <- MCDealsBySeat
  Refresh = 1
  Reserve = 1
  Guests = {}
  EarlyVotes = TRUE
  RawGuesses = {1}
  RawIndices = {0}
  RankLists <- MCRankLists
  Drafts = {}
  MaxMatches = 1
CHECK_DEADLOCK FALSE
INVARIANT
  ThinkersMatchPhase
