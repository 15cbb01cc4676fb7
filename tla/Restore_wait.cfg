SPECIFICATION FairSpec
CONSTANTS
  Entries <- MCEntries
  Git = "git"
  Faults = {}
  MaxFaults = 0
PROPERTY
  RunsFinish
