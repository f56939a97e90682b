CONSTANTS
  Requests = {r1, r2}
  Checkouts = {c1}
  Products = {1, 2}
  Currencies = {usd, eur}
  MaxQuantity = 2
  MaxLines = 1
  MaxAttempts = 5
  MaxUpdates = 1
  MaxCrashes = 1
  NoOne = NoOne
  NoCall = NoCall
SPECIFICATION FairSpec
INVARIANTS LinesWithinLimit CreationNeverExhausted
PROPERTIES EditsAreSequential EveryRequestEnds
CHECK_DEADLOCK FALSE
