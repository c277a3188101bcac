\* One store process and two trades, with rebuilds; two trades to pay for, two
\* vouchers, one task, two processes that change it; one message, redelivered over two
\* connections, and one agent that acknowledges it.
CONSTANTS
  t1 = t1
  t2 = t2
  p1 = p1
  x1 = x1
  x2 = x2
  y1 = y1
  y2 = y2
  a1 = a1
  a2 = a2
  k1 = k1
  m1 = m1
  r1 = r1
  TradeIds = {t1, t2}
  Procs = {p1}
  Types <- PairTypes
  MaxKey = 5
  MaxFaults = 1
  InOrder = TRUE
  PaidTrades <- Pair
  Amounts = {a1, a2}
  Vouchers <- VoucherIds
  TaskIdents = {k1}
  RecordedTypes <- PayTypes
  Callers <- Pair
  MaxCiting = 1
  MaxDisk = 5
  MaxPayFaults = 1
  TasksOnDisk = TRUE
  Messages = {m1}
  Writers <- Pair
  Readers = {r1}
  MaxChain = 2
  MaxReceived = 4
  MaxBackoff = 1
  MaxInboxFaults = 1
SPECIFICATION AgentSpec
SYMMETRY Symmetry
INVARIANTS AgentTypeOK VoucherOnce RegisteredIsRequested PaidAsRequested EvidenceStands OnlyWatch HandledBeforeDone
PROPERTIES RebuildRestores RebuildRepairs ReacceptedOnlyIfRaced
CHECK_DEADLOCK FALSE
