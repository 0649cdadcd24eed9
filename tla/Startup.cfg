SPECIFICATION PoliteSpec

CONSTANTS
  r1 = r1
  p1 = p1
  s1 = s1
  s2 = s2
  Runs = {r1}
  Statuses <- MCStatuses
  Canonical <- MCCanonical
  MaxCrashes = 1
  Workers = {w1, w2}
  Check = Check
  Prints = {p1}
  Sets = {s1, s2}
  SetOf <- MCSetOf
  Bulk = {"bulk"}
  MaxVersion = 2
  MaxAudit = 1
  Copiers = {k1, k2}
  Digests = {d1}
  NoImage = NoImage

CHECK_DEADLOCK FALSE

INVARIANT MigrationOK
INVARIANT CleanStart
INVARIANT CatalogOK
INVARIANT CacheOK
INVARIANT TornExplained
INVARIANT CheckCovers
INVARIANT SetIngestedOnce
PROPERTY NothingLost
PROPERTY KeepsLedger
PROPERTY BootEnds
