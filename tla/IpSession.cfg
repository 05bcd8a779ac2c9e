SPECIFICATION SessionFairSpec
CONSTANTS
  Ports = {5004, 5006}
  Groups = {g1, g2}
  Patience = {TRUE, FALSE}
  MallocFails = TRUE
INVARIANTS StreamsFromRequested
PROPERTIES RequestServed CloseReturns StopsReceiving
