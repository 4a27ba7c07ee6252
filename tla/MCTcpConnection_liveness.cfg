SPECIFICATION MCFairSpec
CONSTANTS
  app1 = app1
  app2 = app2
  Worker = worker
  Free = free
  Apps <- OneApp
  Byte <- MCByte
  Packets <- MCPackets
  SockCap = 2
  MaxSends = 2
  MaxArrivals = 1
  SharedSends = 2
  SharedArrivals = 1
PROPERTIES
  SendCompletes
  CloseCompletes
CHECK_DEADLOCK FALSE
