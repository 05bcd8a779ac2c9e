SPECIFICATION FairSpec
CONSTANTS
  Media = {ip}
  IpMedia = {ip}
  LoopFiles = {}
  InCap = 1
  ItemUnits = 1
  BlockUnits = 1
  MuxCap = 2
  QueueCap = 1
  Seqs = 1
  Callers <- AnyCaller
INVARIANTS TypeOK Quiescent TouchesLive OrderedShutdown NoCircularWait
PROPERTIES StopCompletesOrStrands MonitorReleases Streams
