SPECIFICATION Spec
CONSTANTS
  v1 = v1  v2 = v2  gone = gone  ann = ann
  None = None
  Reviewers = {ann}
  Requests = {r1, r2, r3}
  Violations = {v1}
  Missing = {gone}
  Suggested = {v1}
  Jobs <- OneViolationJobs
  MayFail = FALSE
INVARIANTS TypeOK UncontendedHistoryReplays StatusIsDecided
PROPERTIES ColumnsAreIndependent
CHECK_DEADLOCK FALSE
