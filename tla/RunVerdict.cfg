SPECIFICATION Spec
CONSTANTS
  c1 = c1
  c2 = c2
  c3 = c3
  h1 = h1
  h2 = h2
  h3 = h3
  Cases = {c1, c2}
  Total = 0
  FirstStatus = "pending"
  Requests = {h1, h2}
  Proc <- EachItsOwn
  Marks = {"pass", "fail"}
  Edits = {}
  Remark = FALSE
  MaxMarks = 2
  MaxCrashes = 0
INVARIANT AnyFailureFails
CHECK_DEADLOCK FALSE
