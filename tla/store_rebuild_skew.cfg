\* Rebuild when the order of dates is not the order of arrival.
CONSTANTS
  t1 = t1
  p1 = p1
  TradeIds = {t1}
  Procs = {p1}
  Types <- PairTypes
  MaxKey = 3
  MaxFaults = 0
  InOrder = FALSE
SPECIFICATION Spec
PROPERTY RebuildIdentical
CHECK_DEADLOCK FALSE
