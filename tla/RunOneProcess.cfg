SPECIFICATION Spec
CONSTANTS
  c1 = c1
  c2 = c2
  c3 = c3
  h1 = h1
  h2 = h2
  h3 = h3
  Cases = {c1, c2, c3}
  Total = 2
  FirstStatus = "pending"
  Requests = {h1, h2}
  Proc <- OneProcess
  Marks = {"pass", "fail", "skip", "pending"}
  Edits = {"paused"}
  Remark = TRUE
  MaxMarks = 4
  MaxCrashes = 1
INVARIANT TypeOK
INVARIANT CountersAgree
SYMMETRY Symmetry
CHECK_DEADLOCK FALSE
