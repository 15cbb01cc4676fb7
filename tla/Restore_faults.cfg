CHECK_DEADLOCK FALSE
SPECIFICATION Spec
CONSTANTS
  Entries <- MCEntries
  Git = "git"
  Faults = {"error", "crash"}
  MaxFaults = 3
INVARIANTS
  TypeOK
  OldDatabaseKept
  AppliedIsUndone
  
  RestoredTogether
