CONSTANTS
  NoSlot = NoSlot
  NoCaller = NoCaller
  Scope = {s1}
  Target = {q1}
  Caller = {c1}
  MaxTargetsPerScope = 1
  MaxTargetsTotal = 1
  ReportSeconds = 2
  RateMaximum = 2
  RateWindow = 2
  WallMayStall = TRUE
  Ops = {"enable", "renew", "set_rate", "clear_rate"}
  Durations = {4}
  MaxTick = 4
  MaxCalls = 4
  MaxTurns = 0
  MaxFaults = 0
  MaxCancels = 0
  MaxCrashes = 0
  MaxBoots = 1
  MaxDecisions = 4
  Requests <- MCRequests
  Bound <- MCBound
SPECIFICATION Spec
INVARIANTS
  WindowNeverExceeded
CHECK_DEADLOCK FALSE
