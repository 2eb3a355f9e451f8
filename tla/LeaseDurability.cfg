CONSTANTS
  NoSlot = NoSlot
  NoCaller = NoCaller
  Scope = {s1}
  Target = {q1}
  Caller = {c1, c2}
  MaxTargetsPerScope = 1
  MaxTargetsTotal = 1
  ReportSeconds = 2
  RateMaximum = 1
  RateWindow = 2
  WallMayStall = FALSE
  Ops = {"enable", "disable"}
  Durations = {2}
  MaxTick = 2
  MaxCalls = 3
  MaxTurns = 0
  MaxFaults = 2
  MaxCancels = 1
  MaxCrashes = 1
  MaxBoots = 3
  MaxDecisions = 0
  Requests <- MCRequests
  Bound <- MCBound
SPECIFICATION FairSpec
INVARIANTS
  TypeOK
  PrimaryIsAccountedFor
  BackupIsOneBehind
  ServesAcknowledged
PROPERTIES
  NoWriteAfterTerminate
  ImplementsRegister
  CallsAreAnswered
  TerminateReturns
CHECK_DEADLOCK FALSE
