SPECIFICATION Spec
CHECK_DEADLOCK FALSE
CONSTANTS
  MaxOps = 1
  Versions <- ThreeVersions
  First = 1
  Faults = {}
  MaxFaults = 0
INVARIANT
  ResultsAreRead
