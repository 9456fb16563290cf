SPECIFICATION Spec
CONSTANTS
  w1 = w1
  w2 = w2
  q1 = q1
  q2 = q2
  NoWorker = NoWorker
  Dispatches = {1, 2}
  Provider <- TwoGitHub
  Uploads = {"success", "failure"}
  Workers = {w1, w2}
  Reconcilers = {}
  Deletable = {}
  Stalls = FALSE
  MaxAttempts = 1
  MaxFaults = 0
INVARIANT TracksOwnRun
CHECK_DEADLOCK FALSE
