SPECIFICATION RerunSpec
CONSTANTS
  e1 = e1  e2 = e2  main = main  util = util  header = header  p = p  q = q
  None = None
  Runs = {r1, r2, r3}
  Entries = {e1, e2}
  FileOf <- TwoSources
  Position <- InOrder
  Headers = {}
  Includes <- NoHeaders
  Versions = {0}
  Fingerprints = {p, q}
  Detects <- OneEach
  RunTypes = {"full"}
  Statuses = {"accepted"}
  RulesEnabled = TRUE
  Dispatcher = {"raises", "returns"}
  Faults = {"crash", "parse", "db"}
INVARIANT WaitersAreServed
PROPERTIES RequestedRunsEnd ImplementsRunLedger
CHECK_DEADLOCK FALSE
