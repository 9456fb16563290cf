SPECIFICATION FairSpec
CONSTANTS
  c1 = c1
  c2 = c2
  c3 = c3
  h1 = h1
  h2 = h2
  h3 = h3
  Cases = {c1, c2, c3}
  Total = 0
  FirstStatus = "pending"
  Requests = {h1, h2, h3}
  Proc <- TwoOnOne
  Marks = {"pass", "fail"}
  Edits = {}
  Remark = FALSE
  MaxMarks = 3
  MaxCrashes = 1
INVARIANT PassMeansNoFailure
INVARIANT CompletionSeen
PROPERTY CompletionAnnounced
CHECK_DEADLOCK FALSE
