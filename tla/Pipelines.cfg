SPECIFICATION Spec
CONSTANTS
  w1 = w1
  w2 = w2
  q1 = q1
  q2 = q2
  NoWorker = NoWorker
  Dispatches = {1, 2}
  Provider <- OneOfEach
  Uploads = {"success", "failure"}
  Workers = {w1, w2}
  Reconcilers = {q1, q2}
  Deletable = {2}
  Stalls = TRUE
  MaxAttempts = 2
  MaxFaults = 1
INVARIANT ExitCodesTell
INVARIANT RowsTellTruth
CONSTRAINT OneDispatch
SYMMETRY Symmetry
CHECK_DEADLOCK FALSE
