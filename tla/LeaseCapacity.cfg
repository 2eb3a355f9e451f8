CONSTANTS
  NoSlot = NoSlot
  NoCaller = NoCaller
  Scope = {s1, s2}
  Target = {q1, q2, q3}
  Caller = {c1, c2}
  MaxTargetsPerScope = 2
  MaxTargetsTotal = 3
  ReportSeconds = 2
  RateMaximum = 1
  RateWindow = 2
  WallMayStall = FALSE
  Ops = {"enable", "restore"}
  Durations = {1}
  MaxTick = 1
  MaxCalls = 4
  MaxTurns = 1
  MaxFaults = 0
  MaxCancels = 0
  MaxCrashes = 0
  MaxBoots = 1
  MaxDecisions = 0
  Requests <- MCRequests
  Bound <- MCBound
SPECIFICATION Spec
SYMMETRY Symmetry
INVARIANTS
  CapacityRespected
PROPERTIES
  ReportClosedByItsReader
CHECK_DEADLOCK FALSE
