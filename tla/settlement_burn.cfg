\* A confirm fails while its trade is disputed; the voucher is void anyway.
CONSTANTS
  t1 = t1
  a1 = a1
  v1 = v1
  k1 = k1
  PaidTrades = {t1}
  Amounts = {a1}
  Vouchers = {v1}
  TaskIdents = {k1}
  RecordedTypes <- PayTypes
  Callers = {}
  MaxCiting = 0
  MaxDisk = 4
  MaxPayFaults = 0
  TasksOnDisk = FALSE
SPECIFICATION PaySpec
INVARIANT RedeemedIsConfirmed
CHECK_DEADLOCK FALSE
