SPECIFICATION FairSpec
CONSTANTS
  Workers = {w1, w2}
  Rows = {1, 2}
  Batch = 2
  MaxFaults = 1
  NoDelivery = NoDelivery
INVARIANTS NoEventLost DuplicatesCostFaults
PROPERTIES StopFinishes EveryEventHandled
CHECK_DEADLOCK FALSE
