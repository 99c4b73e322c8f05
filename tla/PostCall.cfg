\* One call, two endpoints, one retry, every fault.
SPECIFICATION Spec
CONSTANTS
  c1 = c1
  e1 = e1
  e2 = e2
  Calls = {c1}
  Endpoints = {e1, e2}
  MaxRetries = 1
  Faults = {"db", "openai", "post", "slow", "crash", "redis"}
SYMMETRY EndpointSymmetry
INVARIANTS
  TypeOK
  AnalysisToldOnceAndLast
  FailureStaysWithItsEndpoint
PROPERTY
  FeedSpecHolds
CHECK_DEADLOCK FALSE
