\* An operation stops between the event row and the trade row, and is retried.
CONSTANTS
  t1 = t1
  p1 = p1
  TradeIds = {t1}
  Procs = {p1}
  Types <- AllTypes
  MaxKey = 2
  MaxFaults = 1
  InOrder = TRUE
SPECIFICATION OnlineSpec
INVARIANT ReturnedIsApplied
CHECK_DEADLOCK FALSE
