\* One process, every event type, enough keys to complete a trade.
CONSTANTS
  t1 = t1
  p1 = p1
  TradeIds = {t1}
  Procs = {p1}
  Types <- AllTypes
  MaxKey = 7
  MaxFaults = 1
  InOrder = TRUE
SPECIFICATION OnlineSpec
INVARIANTS TypeOK DisputeMemory StateIsEarned AtMostOnce
PROPERTY KeepsContract
CHECK_DEADLOCK FALSE
