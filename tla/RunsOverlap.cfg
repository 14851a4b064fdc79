SPECIFICATION Spec
CONSTANTS
  e1 = e1  e2 = e2  main = main  util = util  header = header  p = p  q = q
  None = None
  Runs = {r1, r2}
  Entries = {e1}
  FileOf <- OneSource
  Position <- InOrder
  Headers = {}
  Includes <- NoHeaders
  Versions = {0, 1}
  Fingerprints = {p}
  Detects <- OneUntilEdited
  RunTypes = {"full", "incremental_with_base"}
  Statuses = {"accepted"}
  RulesEnabled = TRUE
  Dispatcher = {"raises", "returns"}
  Faults = {"redis", "rpc", "parse", "compile_db", "db", "crash"}
INVARIANTS TypeOK OutcomeIsRecorded AnnouncedIsDurable RowsAreFindings IndexedIsAnalysed SkippedWorkIsDone KnownFingerprintsAreNotDuplicated
PROPERTIES AnalysisKeepsDecisions
CHECK_DEADLOCK FALSE
