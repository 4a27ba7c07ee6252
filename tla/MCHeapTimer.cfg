SPECIFICATION FairSpec
CONSTANTS
  app1 = app1
  Deployments <- MCDeployments
  Worker = worker
  Free = free
  Intervals = {1, 2}
  MaxNodes = 3
  MaxTime = 4
  SharedNodes = 2
  SharedTime = 3
INVARIANTS
  HeapSound
  MapSound
  StopIsFinal
PROPERTIES
  DueFires
CHECK_DEADLOCK FALSE
