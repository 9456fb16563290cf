SPECIFICATION FairSpec
CONSTANTS
  w1 = w1
  w2 = w2
  Jobs = {1, 2}
  Kind <- MixedKinds
  Workers = {w1, w2}
  CandidateLimit = 1
  MaxFaults = 0
  Prompt = TRUE
  Wordless = FALSE
INVARIANTS 
  TypeOK
  StatusAgrees
  SoleSupervisor
PROPERTIES 
  ImplementsOnceLifecycle
  QueuedJobSettles
CHECK_DEADLOCK FALSE
