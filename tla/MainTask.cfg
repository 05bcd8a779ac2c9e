SPECIFICATION FairSpec
CONSTANTS
  Modulations = {TRUE, FALSE}
INVARIANTS HandlesMatch
PROPERTIES LeakOnlyUnseen KillEnds MonitorServed
CHECK_DEADLOCK FALSE
