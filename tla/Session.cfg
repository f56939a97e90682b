CONSTANTS
  Tabs = {t1, t2}
  Slots = {s1, s2}
  Families = {f1, f2}
  MaxTokens = 2
  MaxActions = 3
  NoToken = NoToken
SPECIFICATION Spec
INVARIANT OnlySharedFamiliesAreRevoked
PROPERTIES NeverReplays OnlyPendingAnswersRestore EveryCallEnds
CHECK_DEADLOCK FALSE
