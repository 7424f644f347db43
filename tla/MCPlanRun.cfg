\* Two calls of runPlan that may overlap, with every control, a crash, a step budget
\* and a verifier that may ask for anything.
CONSTANTS
  a = a
  b = b
  c = c
  absent = absent
  c1 = c1
  c2 = c2
  Calls = {c1, c2}
  Graphs <- BroadGraphs
  NoPlan = NoPlan
  Cap = 2
  MaxRetries = 1
  MaxReplans = 1
  MaxSteps = 2
  LlmVerify = TRUE
  Overlap = TRUE
  MaxTries = 1
  MaxCrashes = 1
SYMMETRY Symmetry
SPECIFICATION Spec
CHECK_DEADLOCK FALSE
INVARIANTS
  DependenciesFirst
  CompletedMeansAll
  StepBudget
