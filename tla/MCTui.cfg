CONSTANTS
  MaxTyped = 5
  MaxAborts = 2
  MaxPlans = 1
  r1 = r1
  r2 = r2
  r3 = r3
  Requests = {r1, r2, r3}
  ToolOf <- ToolOfDef
  Gated <- GatedDef
  MaxNews = 1
  None = None
  p1 = p1
  p2 = p2
  Plans = {p1, p2}
  StepsOf <- StepsOfDef
  MaxRetries = 1
  NoPlan = NoPlan
  MaxTurns = 2
  MaxAnswers = 2
  MaxChunks = 2
  MaxNotices = 2
  MaxClears = 1
  pd = pd
  pw = pw
  Profiles = {pd, pw}
  Default = pd
  InitialConfigs <- InitialConfigsDef
  MaxSaves = 2
  Environments <- EnvironmentsDef
  NoFile = NoFile
  NoName = NoName
  Rooms = {ra, rb, rc}
  Initial = ra
  Home = rb
  NoRoom = NoRoom
SPECIFICATION TuiSpec
CHECK_DEADLOCK FALSE
INVARIANTS
  ComposerInv
  PanelsInv
  ViewInv
  SessionUseInv
  SetupInv
PROPERTIES
  QueueDrains
  StartEnds
