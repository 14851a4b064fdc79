SPECIFICATION Spec
CONSTANTS
  e1 = e1  e2 = e2  main = main  util = util  header = header  p = p  q = q
  None = None
  Runs = {r1}
  Entries = {e1}
  FileOf <- OneSource
  Position <- InOrder
  Headers = {}
  Includes <- NoHeaders
  Versions = {0}
  Fingerprints = {p}
  Detects <- OneEach
  RunTypes = {"full"}
  Statuses = {"accepted"}
  RulesEnabled = TRUE
  Dispatcher = {"raises"}
  Faults = {}
INVARIANTS FindingsArePersisted
CHECK_DEADLOCK FALSE
