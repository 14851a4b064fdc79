SPECIFICATION Spec
CONSTANTS
  v1 = v1  v2 = v2  gone = gone  ann = ann
  None = None
  Reviewers = {ann}
  Requests = {r1, r2}
  Violations = {v1}
  Missing = {}
  Suggested = {v1}
  Jobs <- Decide
  MayFail = FALSE
INVARIANTS HistoryReplays
CHECK_DEADLOCK FALSE
