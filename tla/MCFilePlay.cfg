SPECIFICATION FairSpec
CONSTANTS
  Bank = 60
  Size = 240
  SrcPkt = 2
  PktsBefore = {3}
  PktsAfter = {}
  OutPkt = 2
  SearchPkts = 4
  Files <- SomeFiles
  Ratios = {10, 14, 59}
  Repeats = {"restart", "reopen", "once"}
  Offsets = {0, 31}
  MaxSeeks = 1
  MaxLoops = 2
INVARIANTS RingsSound
PROPERTIES MovedOnce PlaysToEnd
CHECK_DEADLOCK FALSE
