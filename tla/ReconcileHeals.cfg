SPECIFICATION FairSpec
CONSTANTS
  w1 = w1
  w2 = w2
  q1 = q1
  q2 = q2
  NoWorker = NoWorker
  Dispatches = {1, 2}
  Provider <- TwoGitLab
  Uploads = {}
  Workers = {}
  Reconcilers = {q1}
  Deletable = {1, 2}
  Stalls = FALSE
  MaxAttempts = 1
  MaxFaults = 1
INVARIANT ImportedOnce
PROPERTY RowsSelfHeal
CHECK_DEADLOCK FALSE
