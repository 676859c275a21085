SPECIFICATION Spec
CONSTANTS
  Process = {"p", "q"}
  Store = {"p1", "p2", "q1"}
  ProcessOf <- MCProcessOf
  Index <- MCIndex
  BatchSize = 2
INVARIANTS
  TypeOK
  RegistryCountsHolders
  ServesItsIndex
  NoForeignVectors
  Tidy
