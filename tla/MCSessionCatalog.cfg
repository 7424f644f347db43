\* An old id, two new ones, a chat and an imported address, two requests, two times.
CONSTANTS
  n = n
  a = a
  Named = {n}
  Fresh = {f1, f2}
  Inbound <- ChatAndImported
  Requests = {r1, r2}
  Nobody = Nobody
  MaxTime = 2
SPECIFICATION FairSpec
CHECK_DEADLOCK FALSE
INVARIANTS
  CatalogSound
