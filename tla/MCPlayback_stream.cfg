SPECIFICATION Spec
CONSTANTS
  Media = {file}
  IpMedia = {}
  LoopFiles = {file}
  InCap = 1
  ItemUnits = 2
  BlockUnits = 3
  MuxCap = 6
  QueueCap = 1
  Seqs = 4
  Callers <- MainTask
INVARIANTS NoLostMuxSignal
PROPERTIES StreamSpec
