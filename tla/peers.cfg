\* A trade of two parties; a mailbox with two senders and two polls; an index with
\* three receipts, two of them of one id, two requests in flight and an exporter; two
\* indexers with three offers, two of them of one catalog; two broadcasts under way;
\* two tasks and two processes.
CONSTANTS
  u1 = u1
  u2 = u2
  c1 = c1
  c2 = c2
  d1 = d1
  s1 = s1
  s2 = s2
  h1 = h1
  h2 = h2
  Parties <- Actors
  EventKinds <- MCEventKinds
  MaxEvents = 5
  MaxPosted = 3
  Senders <- Actors
  Polls <- Slots
  MaxMails = 2
  Oversize = {}
  MaxShown = 1
  MaxPaths = 2
  MailFaults = 1
  Absent = Absent
  Agents <- Actors
  Receipts <- MCReceipts
  Deals = {d1}
  Server = server
  Exporters = {export}
  Calls <- Slots
  Weights <- MCWeights
  MaxKeys = 2
  MaxExports = 2
  MaxCounted = 1
  MaxFaults = 1
  Sites = 2
  Catalogs = {h1, h2}
  Offers <- MCOffers
  RemoteLimit = 2
  Nothing = Nothing
  Signers <- Actors
  Casts <- Slots
  MaxPlaced = 2
  MaxSeeded = 3
  Clients <- Slots
  TaskIds <- Actors
  Void = Void
  MaxMishaps = 1
SPECIFICATION PeersSpec
SYMMETRY Symmetry
INVARIANTS PeersTypeOK SameEventsAgree TurnsConverge ShownOnceIntact SeenWasReceived FactsMatchRows TierEarned SnapshotCountsAnswered QueryVerifies AnswersFit OneBroadcastSeed TasksStand
CHECK_DEADLOCK FALSE
