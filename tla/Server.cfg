SPECIFICATION ServerSpec
CONSTANTS
  w1 = w1
  w2 = w2
  p1 = p1
  p2 = p2
  Parts = {"git", "limit", "jira", "defect", "import", "overlap"}
  Values = {"u", "v"}
  Pushes = {p1, p2}
  Syncs = {"s"}
  MaxCommits = 3
  MaxEdits = 1
  MaxSyncs = 2
  Keys = {"a", "b", "c"}
  MaxEvents = 2
  Window = 2
  Second = 2
  MaxKeys = 2
  MaxTime = 5
  Boards <- TwoIssues
  Issues = {"a", "b", "c"}
  Taken = {"b"}
  Page = 1
  Askers = {1, 2}
  Workers = {w1, w2}
  Reports = {1, 2, 3}
  Jobs = {1, 2}
  MaxChanges = 1
  MaxFaults = 2
INVARIANT GitKeeps
INVARIANT ImportKeeps
INVARIANT LimiterKeeps
INVARIANT JiraKeeps
SYMMETRY Symmetry
CHECK_DEADLOCK FALSE
