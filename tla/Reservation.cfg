CONSTANTS
  Key = {k1, k2}
  Task = {m1, m2, m3}
  NoPending = NoPending
  NoKey = NoKey
  NoSlot = NoSlot
  MinInterval = 2
  MaxSlots = 1
  Suspends = TRUE
  MaxTime = 5
SPECIFICATION FairSpec
INVARIANTS
  NobodyIsForgotten
PROPERTIES
  LastOfBurstWins
  NothingAfterClose
  WaitersAreResolved
CHECK_DEADLOCK FALSE
