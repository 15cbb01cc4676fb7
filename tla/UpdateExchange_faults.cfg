SPECIFICATION FairSpec
CHECK_DEADLOCK FALSE
CONSTANTS
  MaxOps = 2
  Versions <- ThreeVersions
  First = 1
  Faults = {"web", "job", "worker", "disk", "updater", "scheduler"}
  MaxFaults = 1
INVARIANTS
  TypeOK
  OneInFlight
  ShownIsTrue
PROPERTIES
  NoDowngrade
  OperationsEnd
