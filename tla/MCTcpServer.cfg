SPECIFICATION FairSpec
CONSTANTS
  w1 = w1
  w2 = w2
  listen_worker = lw
  Deployments <- MCDeployments
  Fds = {1, 2}
  MAX_WAIT_EVENT = 2
  MaxClients = 2
  MaxBroadcasts = 1
INVARIANTS
  HandlerAlive
  EntryMatches
  Accounted
PROPERTIES
  FinNoticed
  EveryoneOpens
  StopCompletes
CHECK_DEADLOCK FALSE
