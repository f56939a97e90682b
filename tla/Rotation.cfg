CONSTANTS
  Families = {f1}
  Requests = {r1, r2, r3, r4}
  MaxTokens = 5
  MaxCrashes = 1
  NoToken = NoToken
SPECIFICATION FairSpec
INVARIANTS NoTwoWinners OneLiveToken RacingSuccessorIsRevoked
PROPERTIES RevokedIsNeverSpent EveryRequestAnswered
CHECK_DEADLOCK FALSE
