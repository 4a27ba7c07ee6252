SPECIFICATION QueueFairSpec
CONSTANTS
  Items = {1, 2, 3}
  MaxThrows = 2
INVARIANTS
  NothingLost
PROPERTIES
  PushIsAnswered
