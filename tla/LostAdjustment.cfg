SPECIFICATION Spec
CONSTANTS
  o1 = o1
  o2 = o2
  p1 = p1
  p2 = p2
  Orders = {o1}
  SyncOrders = {}
  Products = {p1}
  Demand <- OneLine
  InitialStock <- OneUnit
  Deltas <- OneUp
  MaxAdjust = 1
  Replicas = {r1}
  Clicks = {}
  FaultKinds = {}
  MaxFaults = 0
INVARIANT StockConserved
CHECK_DEADLOCK FALSE
