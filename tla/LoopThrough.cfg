SPECIFICATION FairSpec
CONSTANTS
  Tasks = {1, 2}
  Block = 2
  Enable = 4
  Level = 2
  Starts = {0, 1, 3}
  Pieces = {1, 2}
  Ring = 6
  Width = 12
  MaxCalls = 3
INVARIANTS Sound
PROPERTIES Ends Revives
CHECK_DEADLOCK FALSE
