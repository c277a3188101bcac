\* One process of each role: eight announcements of two listings and an archive;
\* three versions of a directory; one member that changes its listing.
CONSTANTS
  None = None
  Ops = {o1, o2}
  MaxChanges = 1
  MaxFaults = 1
  self = self
  p = p
  q = q
  ks = ks
  k1 = k1
  k2 = k2
  h1 = h1
  h2 = h2
  Unknown = Unknown
  Agents = {self, p, q}
  Self = self
  Keys = {ks, k1, k2}
  SelfKey = ks
  Malformed <- Bad
  Listings <- MCListings
  Hashes = {h1, h2}
  Tags <- MCTags
  Manifest <- MCManifest
  Unlisted <- MCUnlisted
  Announcements <- MCAnnouncements
  Versions = {v1, v2, bad}
  Broken = {bad}
  Targets = {1}
  Retries = 1
  Members = {m1}
  Offers <- MCOffers
  Reseed = TRUE
SPECIFICATION StationSpec
INVARIANTS StationTypeOK SavedStays SearchMatchesCard FactsVerify AnnouncedIsServed OneSeeder TopicServed RefreshesAlone
PROPERTY WatchPublishes
CHECK_DEADLOCK FALSE
