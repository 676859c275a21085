SPECIFICATION Spec
CONSTANTS
  Socket = {"query", "suite"}
  Kind <- MCKind
  MaxEvents <- MCMaxEvents
  Workers = 1
INVARIANTS
  TypeOK
  ClientSeesItsRun
  PipelineOutlivesRuns
PROPERTIES
  SocketComesBack
  StopsWhenTold
  KeepsPromise
