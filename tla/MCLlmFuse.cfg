\* Two Sessions, two calls in a turn, one in an hour of two ticks, a fuse of three.
CONSTANTS
  Sessions = {s1, s2}
  Requests = {r1, r2}
  Nobody = Nobody
  PerTurn = 2
  PerHour = 1
  Hour = 2
  BillingMs = 3
SPECIFICATION FairSpec
CHECK_DEADLOCK FALSE
INVARIANTS
  Budgets
PROPERTIES
  FuseCloses
