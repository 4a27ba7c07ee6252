SPECIFICATION FairSpec
CONSTANTS
  Paths = {p1, p2}
  Malformed = malformed
  NoPath = nopath
  NoMethod = nomethod
  Other = other
  Empty = empty
  MaxRequests = 2
INVARIANTS
  OneAnswer
  RightRequest
PROPERTIES
  ConnectionEnds
CHECK_DEADLOCK FALSE
