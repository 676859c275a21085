SPECIFICATION Spec
CONSTANTS
  Caller = {1, 2, 3}
  Ablations <- MCSingle
  Inapplicable = {"force_rerank"}
  Cases = 3
  Tenant <- MCTenant
  Expecting <- MCExpecting
  Config <- MCConfig
  Stamp <- MCStamp
  Semantic <- MCSemantic
  Rerank <- MCRerank
  Payload <- MCPayload
  Plan <- MCPlan
  AnswerTo <- MCAnswerTo
  Retrieved <- MCRetrieved
  Parts <- MCParts
  Slack = 0
  MaxWorkers = 2
  SaveTraces = TRUE
  Directional = TRUE
  CacheEnabled = TRUE
  Errors <- MCErrors
  MaxRetries = 2
  MaxFaults = 1
INVARIANTS
  TypeOK
  OwnAnswers
  RetriesAreNotCounted
  NoEffectMeansMeasured
  AbortsOnlyOnAFault
  PipelineOutlivesWorkers
PROPERTIES
  LostRunsAreErrors
  StudyIsKept
  SweepEnds
CHECK_DEADLOCK FALSE
