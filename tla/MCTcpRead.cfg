SPECIFICATION FairSpec
CONSTANTS
  Handlers = {"all", "checked", "declared"}
  Bodies <- MCBodies
  MaxPackages = 2
  kReadBufferSize = 5
INVARIANTS
  Framing
  PartialIsDrained
PROPERTIES
  ReadReturns
CHECK_DEADLOCK FALSE
