\* The indexer of station.cfg: what was answered "accepted" is there whenever it serves.
CONSTANTS
  None = None
  Ops = {o1, o2}
  MaxChanges = 1
  MaxFaults = 1
  self = self
  p = p
  q = q
  ks = ks
  k1 = k1
  k2 = k2
  h1 = h1
  h2 = h2
  Unknown = Unknown
  Agents = {self, p, q}
  Self = self
  Keys = {ks, k1, k2}
  SelfKey = ks
  Malformed <- Bad
  Listings <- MCListings
  Hashes = {h1, h2}
  Tags <- MCTags
  Manifest <- MCManifest
  Unlisted <- MCUnlisted
  Announcements <- MCAnnouncements
  Versions = {v1, v2, bad}
  Broken = {bad}
  Targets = {1}
  Retries = 1
  Members = {m1}
  Offers <- MCOffers
  Reseed = TRUE
SPECIFICATION StationSpec
INVARIANT AcceptedStays
CHECK_DEADLOCK FALSE
