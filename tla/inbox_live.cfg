\* Two messages, so that one waits behind the other, or one delivered twice; two
\* connections.  No symmetry, for liveness.
CONSTANTS
  m1 = m1
  m2 = m2
  c1 = c1
  c2 = c2
  Messages = {m1, m2}
  Writers = {c1, c2}
  Readers = {}
  MaxChain = 1
  MaxReceived = 2
  MaxBackoff = 1
  MaxInboxFaults = 1
SPECIFICATION InboxSpec
PROPERTIES ReceivedIsQueued StopEnds KeepsTrying
CHECK_DEADLOCK FALSE
