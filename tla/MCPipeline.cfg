SPECIFICATION Spec
CONSTANTS
  Chunk <- MCChunk
  Tenant <- MCTenant
  GlobalTenant = "tenant_global"
  Doc = {"d", "g"}
  Owner <- MCOwner
  DocOf <- MCDocOf
  Ordinal <- MCOrdinal
  Requests <- MCRequests
  SemanticScores <- MCSemanticScores
  LexicalScores <- MCLexicalScores
  RerankScores <- MCRerankScores
  TopK = 2
  RrfK = 60
  TopN = 2
  Span = 1
INVARIANTS
  TypeOK
  TenantBoundary
  RefusalIsFinal
  Accounted
  NeighboursFollowWinners
  ScoredBeforeUnscored
  RankingComplete
  UncheckedAnswersAreMarked
  TraceComplete
  StreamMatchesTrace
CHECK_DEADLOCK FALSE
