SPECIFICATION Spec
CONSTANTS
  Conns = {c1, c2}
  BufferSize = 1
  MaxMessages = 3
INVARIANTS
  NoUseOfClosedChannels
PROPERTIES
  NoGaps
  BroadcastsEnd
  ClientsAreForgotten
CHECK_DEADLOCK FALSE
