\* Three turns on two Sessions under a cap of one runtime, no symmetry: the
\* promise chain against the lanes it implements, with its liveness.
CONSTANTS
  Sessions = {s1, s2}
  Turns = {1, 2, 3}
  Subscribers = {}
  Handlers = {}
  MaxRuntimes = 1
  NoSession = NoSession
  NoTurn = 0
  MaxClock = 0
  MaxCrashes = 0
SPECIFICATION OrderedSpec
CHECK_DEADLOCK FALSE
PROPERTIES
  ImplementsFairLanes
