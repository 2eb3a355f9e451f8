CONSTANTS
  NoTemplate = NoTemplate
  NoJob = NoJob
  NoLease = NoLease
  NoScope = NoScope
  Lease = {l1}
  Scope = {s1}
  MaxJobs = 5
  MaxTasks = 1
  MaxPerScope = 1
  MaxTotal = 1
  Operations = {"create", "renew", "disable", "list"}
  Lengths = {2}
  Minute = 2
  ForeignIds = FALSE
  MaxTime = 2
  MaxOps = 2
  MaxMishaps = 1
  MaxBoots = 2
  Bound <- MCBound
SPECIFICATION FairSpec
INVARIANTS
  GateOpensClean
  LeaseIsDriven
PROPERTIES
  RevokedNeverWakes
  DriversVanish
CHECK_DEADLOCK FALSE
