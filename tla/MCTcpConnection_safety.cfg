SPECIFICATION MCSpec
CONSTANTS
  app1 = app1
  app2 = app2
  Worker = worker
  Free = free
  Apps <- MCApps
  Byte <- MCByte
  Packets <- MCPackets
  SockCap = 2
  MaxSends = 3
  MaxArrivals = 2
  SharedSends = 2
  SharedArrivals = 1
SYMMETRY Symmetry
INVARIANTS
  StreamIntegrity
  NoLostWakeup
  OpenOwnsSocket
  AloneSafe
PROPERTIES
  NeverReopened
  ByteStream
CHECK_DEADLOCK FALSE
