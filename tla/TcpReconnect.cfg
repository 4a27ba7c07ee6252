SPECIFICATION FairSpec
CONSTANTS
  Reconnect = {TRUE, FALSE}
  Enable = {TRUE, FALSE}
  Hosts = {TRUE, FALSE}
  MaxAttempts = 12
  MaxEarly = 1
  MaxFails = 1
  MaxLosses = 2
  MaxCloses = 1
  MaxSends = 1
  MaxBlocks = 1
INVARIANTS
  OneSocket
PROPERTIES
  EndsForGood
  Reconnects
  LeftIsSent
CHECK_DEADLOCK FALSE
