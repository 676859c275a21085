SPECIFICATION Spec
CONSTANTS
  Caller = {1, 2, 3}
  Ablations <- MCComposed
  Inapplicable = {}
  Cases = 3
  Tenant <- MCTenant
  Expecting <- MCExpecting
  Config <- MCConfig
  Stamp <- MCStamp
  Semantic <- MCSemantic
  Rerank <- MCRerank
  Payload <- MCPayload
  Plan <- MCPlan
  AnswerTo <- MCAnswerTo
  Retrieved <- MCRetrieved
  Parts <- MCParts
  Slack = 2
  MaxWorkers = 1
  SaveTraces = TRUE
  Directional = TRUE
  CacheEnabled = TRUE
  Errors <- MCErrors
  MaxRetries = 2
  MaxFaults = 0
INVARIANTS
  HeadlineCountsLostAnswers
CHECK_DEADLOCK FALSE
