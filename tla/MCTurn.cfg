CONSTANTS
  MaxTurns = 2
  Subs = {s1, s2}
  MaxPosts = 2
  HasWatchdog = TRUE
  Parent = Parent
  pa = pa
  pb = pb
  pc = pc
  InConfig <- ConfigDef
  InFolder <- FolderDef
  Priority <- PriorityDef
  MaxLoads = 2
  MaxRuns = 2
  MaxReadLines = 3
  MaxReadBytes = 4
  HeadLimit = 2
  MaxLines = 5
  Sizes = {1, 2, 5}
  MaxAttempts = 2
  Values <- ValuesDef
  Shapes <- ShapesDef
  Depth = 3
  RetryLimit = 3
  Enough = 2
  Words = {"a", "b"}
  Texts = {{}, {"a"}}
  Long = {"a"}
  RepoFiles = {1, 2, 3}
  TokensOf <- TokensDef
  Inside <- InsideDef
  SourceFiles = {1, 2}
  Skipped = {3}
  TurnBudget = 6
  FileBudget = 1
  MaxRecorded = 7
SPECIFICATION MCTurnSpec
CHECK_DEADLOCK FALSE
INVARIANTS
  TurnInv
  HooksInv
  
  CheckInv
  RecallInv
PROPERTY
  PromptEnds
