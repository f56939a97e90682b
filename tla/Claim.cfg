CONSTANTS
  k1 = k1
  k2 = k2
  Keys <- MCKeys
  LockOf <- MCLockOf
  Attempts = {a1, a2, a3}
  Payloads = {p1, p2}
  NoKey = NoKey
  NoRequest = NoRequest
  NoAnswer = NoAnswer
  Conflict = Conflict
  NoRow = NoRow
  NoOne = NoOne
  MaxCrashes = 2
SPECIFICATION FairSpec
INVARIANT OneOrderPerKey
PROPERTIES KeepsPromise EveryAttemptEnds
CHECK_DEADLOCK FALSE
