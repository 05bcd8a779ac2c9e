SPECIFICATION SessionSpec
CONSTANTS
  Ports = {5004}
  Groups = {g1}
  Patience = {FALSE}
  MallocFails = FALSE
INVARIANTS NoStrandedRequest
