SPECIFICATION FairSpec
CONSTANTS
  w1 = w1
  w2 = w2
  Jobs = {1}
  Kind <- GitLabOnly
  Workers = {w1, w2}
  CandidateLimit = 10
  MaxFaults = 1
  Prompt = FALSE
  Wordless = FALSE
INVARIANTS 
  DoneMeansImported
PROPERTIES 
  NeverReopened
  LeaseNotStolen
  RenewsOwnAttempt
  ImplementsLifecycle
  QueuedJobSettles
CHECK_DEADLOCK FALSE
