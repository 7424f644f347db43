\* Three Sessions under a cap of one runtime: one selected, one busy and one idle
\* already exceed it.  Two turns meet in one lane or not; one crash, one tick.
CONSTANTS
  Sessions = {s1, s2, s3}
  Turns = {t1, t2}
  Subscribers = {h1}
  Handlers = {p1}
  MaxRuntimes = 1
  NoSession = NoSession
  NoTurn = NoTurn
  MaxClock = 1
  MaxCrashes = 1
SYMMETRY Symmetry
SPECIFICATION Spec
CHECK_DEADLOCK FALSE
INVARIANTS
  BusyStaysResident
  CapRespected
  WiredUp
PROPERTIES
  NothingLost
