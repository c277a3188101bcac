\* An acknowledgement between the look into done/ and the link.
CONSTANTS
  m1 = m1
  c1 = c1
  c2 = c2
  r1 = r1
  Messages = {m1}
  Writers = {c1, c2}
  Readers = {r1}
  MaxChain = 1
  MaxReceived = 4
  MaxBackoff = 1
  MaxInboxFaults = 0
SPECIFICATION InboxSafe
SYMMETRY Symmetry
INVARIANT PendingOrDone
CHECK_DEADLOCK FALSE
