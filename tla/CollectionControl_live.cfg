CONSTANTS
  d1 = d1
  d2 = d2
  Devices = {d1}
  Site <- Alone
  MaxRuns = 2
  MaxJobs = 2
  Retries = 1
  Limit = 1
  SiteLimit = 1
  Window = 4
  AdminOps = {}
  Stores = TRUE
  Diagnostics = TRUE
  Faults = {"network", "lostEvent"}
  MaxCrashes = 1
SPECIFICATION FairSpec
CHECK_DEADLOCK FALSE
INVARIANT AcceptedHasStarted
PROPERTY RunsSettle
