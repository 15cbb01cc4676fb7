CONSTANTS
  d1 = d1
  d2 = d2
  Devices = {d1}
  Site <- Alone
  MaxRuns = 2
  MaxJobs = 2
  Retries = 1
  Limit = 1
  SiteLimit = 1
  Window = 4
  AdminOps = {"approve", "revoke", "inventory", "destroy", "import", "drift"}
  Stores = FALSE
  Diagnostics = TRUE
  Faults = {"dns", "network"}
  MaxCrashes = 0
SPECIFICATION Spec
CHECK_DEADLOCK FALSE
PROPERTY KeepsLedger
