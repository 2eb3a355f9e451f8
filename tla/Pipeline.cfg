CONSTANTS
  Key = {k1, k2}
  Task = {m1, m2, m3}
  NoPending = NoPending
  NoKey = NoKey
  NoSlot = NoSlot
  MinInterval = 1
  MaxSlots = 1
  Suspends = FALSE
  MaxTime = 2
  Modes <- MCModes
  MaxPlaces = 1
  MaxChanges = 1
SPECIFICATION PipelineSpec
SYMMETRY Symmetry
INVARIANTS
  IntervalRespected
  IntervalIsPaidFor
  PlacesAreActivations
  IgnoredStaysIgnored
  DisabledSessionIsLeftAlone
  NativeReachesAgent
PROPERTIES
  InertOnlyWhenBusy
  AdmitsOnlyWhileUp
CHECK_DEADLOCK FALSE
