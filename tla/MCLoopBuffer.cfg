SPECIFICATION Spec
CONSTANTS
  p1 = p1
  p2 = p2
  Producers <- TwoProducers
  Consumer = consumer
  Free = free
  Byte = {0, 1}
  BufferSize = 4
  Word = 8
  MaxLen = 2
  Mutexed = TRUE
INVARIANTS
  Fifo
PROPERTIES
  RoomAfterWait
SYMMETRY Symmetry
