\* Two endpoints, one with a health check, and two calls that overlap.
CONSTANTS
  e1 = e1
  e2 = e2
  Endpoints = {e1, e2}
  Order <- TwoDeclared
  Pingable <- FirstHasURL
  Rank <- SecondFirst
  Strategies <- ThreeStrategies
  Calls = {c1, c2}
  Retries = 2
  Threshold = 2
  Cooldown = 1
  Nowhere = Nowhere
SPECIFICATION FairSpec
INVARIANTS
  OpenShields
PROPERTIES
  CallEnds
