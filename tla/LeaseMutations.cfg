CONSTANTS
  NoSlot = NoSlot
  NoCaller = NoCaller
  Scope = {s1, s2}
  Target = {q1}
  Caller = {c1, c2}
  MaxTargetsPerScope = 1
  MaxTargetsTotal = 2
  ReportSeconds = 2
  RateMaximum = 1
  RateWindow = 2
  WallMayStall = FALSE
  Ops = {"enable", "renew", "disable", "set_rate", "clear_rate", "restore"}
  Durations = {1, 2}
  MaxTick = 2
  MaxCalls = 3
  MaxTurns = 0
  MaxFaults = 1
  MaxCancels = 0
  MaxCrashes = 0
  MaxBoots = 1
  MaxDecisions = 0
  Requests <- MCRequests
  Bound <- MCBound
SPECIFICATION Spec
PROPERTIES
  RestoreSilencesScope
  ReceiptIsTrue
  OnlyNamedKeysChange
  RateLimitPersists
CHECK_DEADLOCK FALSE
