SPECIFICATION Spec
CONSTANTS
  Values = {sync, data}
  Sync = {sync}
  Sizes = {1, 2}
  num = 3
  Most = 4
INVARIANTS FullAndEmptyAgree
PROPERTIES FifoSpec
