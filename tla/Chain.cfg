SPECIFICATION Spec
CONSTANTS
  o1 = o1
  o2 = o2
  p1 = p1
  p2 = p2
  Orders = {o1, o2}
  SyncOrders = {o2}
  Products = {p1, p2}
  Demand <- TwoForFirst
  InitialStock <- OneUnit
  Deltas <- OneDown
  MaxAdjust = 1
  Replicas = {r1}
  Clicks = {}
  FaultKinds = {"republish", "crash"}
  MaxFaults = 1
INVARIANTS NoDuplicateSideEffects TimelineIsLegalWalk CheckoutIsNotRepeated StockNeverNegative
PROPERTIES StockLossesExplained ImplementsLifecycle
CHECK_DEADLOCK FALSE
