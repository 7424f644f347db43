CONSTANTS
  Scheduled = {a, b}
  MaxTime = 3
  MaxStamp = 2
  Ticks = {k1, k2}
  Due <- DueDef
  MaxUid = 3
  Polls = {p1, p2}
  MaxRestarts = 1
  Clients = {c}
  Streams = {1, 2, 3}
  Sockets = {s}
  Sessions = {i1, i2}
  Turns = {t}
  Nobody = Nobody
  Names = {n1, n2, n3}
  Plugins = {plugin}
  InitialFiles <- InitialFilesDef
  HeadingNames = {"Notes", "Style", "ExternalReferences", "KnownFailures"}
  Writable = {"Notes", "Style"}
  Authorities = {"unsaid"}
  MaxWrites = 3
  MaxDeletes = 1
  MaxCompactions = 2
  KeepLast = 1
  MaxOlder = 2
  PromptBudget = 2
  MaxPerTurn = 2
  MemoryBlocks <- MemoryBlocksDef
  sk = sk
  b1 = b1
  b2 = b2
  v1 = v1
  v2 = v2
  SkillNames = {sk}
  Bodies = {b1, b2}
  Validators = {v1, v2}
  Metrics <- MetricsDef
  MaxPlans = 3
  MaxSkillWrites = 1
  MaxCrashes = 1
  None = None
  Book <- BookDef
  Processes = {q1, q2}
  MaxClock = 3
  MaxRuns = 2
  Ids = {i1, i2}
  Subjects = {u1, u2}
  Callers = {c1, c2}
  NoId = NoId
  NoSubject = NoSubject
  Inbound = {m1, m2}
  Users = {u1}
  Chats = {room}
  Bot = Bot
  Definitions = {d1, d2}
  NoDefinition = NoDefinition
SPECIFICATION ProcessSpec
CHECK_DEADLOCK FALSE
PROPERTY
  FailedTrialRestores
