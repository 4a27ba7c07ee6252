SPECIFICATION PipeFairSpec
CONSTANTS
  Clients = {c1, c2}
  Ids = {i1, i2}
  NoId = none
  MaxSessions = 3
  MaxBeats = 1
INVARIANTS
  Agreement
PROPERTIES
  HandshakeCompletes
  WireFallsSilent
CHECK_DEADLOCK FALSE
