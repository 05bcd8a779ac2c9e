SPECIFICATION Spec
CONSTANTS
  Senders = {media}
  Numbers = {1, 6}
  Byte = 4
  QueueCap = 1
  MaxSends = 2
INVARIANTS ReceivedAsSent
CHECK_DEADLOCK FALSE
