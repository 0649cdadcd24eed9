SPECIFICATION FairStartup

CONSTANTS
  r1 = r1
  p1 = p1
  s1 = s1
  s2 = s2
  Runs = {r1}
  Statuses <- MCStatuses
  Canonical <- MCCanonical
  MaxCrashes = 0
  Workers = {w1}
  Check = Check
  Prints = {p1}
  Sets = {s1, s2}
  SetOf <- MCSetOf
  Bulk = {"bulk"}
  MaxVersion = 1
  MaxAudit = 1
  Copiers = {k1}
  Digests = {d1}
  NoImage = NoImage

CHECK_DEADLOCK FALSE

PROPERTY CheckNeverBlocks
