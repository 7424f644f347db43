\* One call at a time, two in all: what a run keeps of the one before it, and that
\* it ends.  A step budget used up between batches, and a user who retries a failed step.
CONSTANTS
  a = a
  b = b
  c = c
  absent = absent
  c1 = c1
  c2 = c2
  Calls = {c1, c2}
  Graphs <- FlatGraphs
  NoPlan = NoPlan
  Cap = 1
  MaxRetries = 0
  MaxReplans = 1
  MaxSteps = 2
  LlmVerify = TRUE
  Overlap = FALSE
  MaxTries = 1
  MaxCrashes = 1
SPECIFICATION FairSpec
CHECK_DEADLOCK FALSE
PROPERTIES
  PlanEnds
  NoRework
