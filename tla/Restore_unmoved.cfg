CHECK_DEADLOCK FALSE
SPECIFICATION Spec
CONSTANTS
  Entries <- MCEntries
  Git = "git"
  Faults = {"error"}
  MaxFaults = 1
INVARIANT
  DirectoriesAreBack
