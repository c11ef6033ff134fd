SPECIFICATION Spec
CONSTANTS
  FileSize = 3
  Offsets = {0, 1, 3}
  Sizes = {1, 2}
  MaxOps = 4
INVARIANTS
  RepliesInStep
  PooledIsQuiet
  SuccessIsExact
PROPERTY
  ImplementsRemoteClient
  OperationsReturn
CHECK_DEADLOCK FALSE
