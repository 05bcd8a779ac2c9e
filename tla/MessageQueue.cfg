SPECIFICATION FairSpec
CONSTANTS
  Senders = {media, command}
  Numbers = {1, 5, 10}
  Byte = 4
  QueueCap = 2
  MaxSends = 2
INVARIANTS TypeOK FailsOnlySpuriously NoSleepOnMessage SmallNumbersIntact
PROPERTIES QueueDrains SendReturns
CHECK_DEADLOCK FALSE
