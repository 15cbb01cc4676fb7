CONSTANTS
  d1 = d1
  d2 = d2
  Devices = {d1, d2}
  Site <- SamePop
  MaxRuns = 4
  MaxJobs = 2
  Retries = 1
  Limit = 1
  SiteLimit = 1
  Window = 4
  AdminOps = {"revoke"}
  Stores = FALSE
  Diagnostics = FALSE
  Faults = {}
  MaxCrashes = 0
SPECIFICATION FairSpec
CHECK_DEADLOCK FALSE
PROPERTY TickIsFallback
