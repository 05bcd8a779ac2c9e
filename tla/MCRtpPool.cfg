SPECIFICATION FairSpec
CONSTANTS
  Sources <- Senders
  Pool = 4
  Header = 1
  Mtu = 4
  SeqMod = 6
  Reads = {2}
INVARIANTS WriteSlotUnread LostCountsJumps
PROPERTIES QueueSpec Drains
