SPECIFICATION Spec
CONSTANTS
  v1 = v1  v2 = v2  gone = gone  ann = ann
  None = None
  Reviewers = {ann}
  Requests = {r1, r2, r3}
  Violations = {v1, v2}
  Missing = {gone}
  Suggested = {v1}
  Jobs <- BulkJobs
  MayFail = TRUE
INVARIANTS BatchIsAllOrNothing WaitersAreServed TrailMatchesReviews
PROPERTIES ImplementsLedger RequestsEnd
CHECK_DEADLOCK FALSE
