SPECIFICATION Spec
CONSTANTS
  e1 = e1  e2 = e2  main = main  util = util  header = header  p = p  q = q
  None = None
  Runs = {r1, r2}
  Entries = {e1}
  FileOf <- OneSource
  Position <- InOrder
  Headers = {header}
  Includes <- MainIncludesHeader
  Versions = {0, 1}
  Fingerprints = {p}
  Detects <- NoViolations
  RunTypes = {"full", "incremental_with_base"}
  Statuses = {"accepted"}
  RulesEnabled = FALSE
  Dispatcher = {"raises"}
  Faults = {}
PROPERTIES SkippedUnitsAreCurrent
CHECK_DEADLOCK FALSE
