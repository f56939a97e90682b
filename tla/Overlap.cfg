SPECIFICATION FairSpec
CONSTANTS
  o1 = o1
  o2 = o2
  p1 = p1
  p2 = p2
  Orders = {o1}
  SyncOrders = {}
  Products = {p1}
  Demand <- OneLine
  InitialStock <- NoUnit
  Deltas <- OneUp
  MaxAdjust = 1
  Replicas = {r1}
  Clicks = {c1}
  FaultKinds = {"republish", "crash", "reconnect"}
  MaxFaults = 1
INVARIANTS ConfirmedIsPaid PaymentAfterReservation
PROPERTIES EventuallyTerminal TerminalIsNotified EveryRowProcessed
CHECK_DEADLOCK FALSE
