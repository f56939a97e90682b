SPECIFICATION Spec
CONSTANTS
  o1 = o1
  o2 = o2
  p1 = p1
  p2 = p2
  Orders = {o1}
  SyncOrders = {}
  Products = {p1}
  Demand <- OneLine
  InitialStock <- OneUnit
  Deltas <- NoDeltas
  MaxAdjust = 0
  Replicas = {r1}
  Clicks = {c1}
  FaultKinds = {}
  MaxFaults = 0
PROPERTY TerminalIsFinal
CHECK_DEADLOCK FALSE
