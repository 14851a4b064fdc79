SPECIFICATION Spec
CONSTANTS
  Projects <- MCProjects
  Code <- MCCode
INVARIANTS  PlantedOffencesAreReported PartialRunInventsNothing EveryPartyIsTold RecursionIsExact FlowGraphIsExact UninitializedReadIsReported DeadStoreIsNeverRead MissingReturnIsReported TaintedSinkIsReported UseAfterCloseIsReported
PROPERTY FallthroughIsReported
