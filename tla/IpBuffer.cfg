SPECIFICATION Spec
CONSTANTS
  Size = 8
  Bfp = 4
  Bank = 1
  Units = {1, 3}
  Wants = {2, 3}
  MaxWritten = 15
  MaxLaunched = 2
INVARIANTS TypeOK Intact CopiesLive
PROPERTIES RefillsAfterUnderrun
