CONSTANTS
  d1 = d1
  d2 = d2
  Devices = {d1}
  Site <- Alone
  MaxRuns = 3
  MaxJobs = 2
  Retries = 1
  Limit = 1
  SiteLimit = 1
  Window = 4
  AdminOps = {}
  Stores = FALSE
  Diagnostics = TRUE
  Faults = {"network", "lateJob"}
  MaxCrashes = 0
SPECIFICATION Spec
CHECK_DEADLOCK FALSE
INVARIANTS TypeOK AtMostOnePending RetryChain
PROPERTY NeverRestarted
