SPECIFICATION Spec
CONSTANTS
  withFunction = withFunction  r1 = r1   r3 = r3
  alias = alias  dataflow = dataflow  p = p  q = q
  None = None
  Units = {withFunction, empty}
  Rules = {r1, r2, r3}
  TuWorkers = 2
  RuleWorkers = 2
  MaxRetries = 1
  Analyses = {alias, dataflow}
  Requires <- EngineNeedsAlias
  Needs <- OneFunction
  Flaky = {r3}
  Detects <- TwoFindings
  Cancellable = TRUE
INVARIANTS TypeOK ReportsAreComplete CancelledMeansMissing BuildsAreBounded
PROPERTIES ImplementsExecution ExecutionReturns
CHECK_DEADLOCK FALSE
